-------------------------------- MODULE JpegSynth --------------------------------
(***************************************************************************)
(* jpeg_synth_build, components/jpeg_synth: the JPEG file of a frame whose  *)
(* scan data came over RTP, written into a buffer of bounded size.  The     *)
(* file is modelled by its segments: their names, their lengths in bytes    *)
(* and the part of their contents that differs between frames.              *)
(***************************************************************************)
EXTENDS Integers, Sequences

CONSTANT Bases  \* the values in the two base quantization tables

ASSUME BasesAssumption == Bases \subseteq 1 .. 255

AtLeast(low, n) == IF n < low THEN low ELSE n
AtMost(high, n) == IF n > high THEN high ELSE n

\* Bug variant of ScaleQuant: without the upper bound the byte wraps around.
ScaleQuantWraps(base, factor) == AtLeast(1, (base * factor + 50) \div 100) % 256

ScaleQuant(base, factor) == AtMost(255, AtLeast(1, (base * factor + 50) \div 100))

Factor(q) ==
    LET quality == AtMost(99, AtLeast(1, q)) IN
    IF quality < 50 THEN 5000 \div quality ELSE 200 - 2 * quality

\* jpeg_default_quant_tables, as what becomes of each value of the base tables
DefaultTables(q) == [b \in Bases |-> ScaleQuant(b, Factor(q))]

\* The tables written, for luma and for chroma: in.inline is those that came
\* with the frame, if in.qtPresent.
Tables(in) ==
    IF in.qtPresent THEN in.inline ELSE <<DefaultTables(in.q), DefaultTables(in.q)>>

Segment(name, len, data) == [name |-> name, len |-> len, data |-> data]

\* Bug variant of Write: a segment that does not fit is left out.
WriteNotSticky(w, segment) ==
    IF w.off + segment.len <= w.cap
    THEN [w EXCEPT !.off = @ + segment.len, !.written = Append(@, segment)]
    ELSE w

\* w_u8 and w_bytes: once something did not fit nothing is written any more,
\* so that it makes no difference that most segments go in byte by byte.
Write(w, segment) ==
    IF w.ok /\ w.off + segment.len <= w.cap
    THEN [w EXCEPT !.off = @ + segment.len, !.written = Append(@, segment)]
    ELSE [w EXCEPT !.ok = FALSE]

\* The lengths count the marker; a DHT has n values.
EmitDqt(w, id, table) == Write(w, Segment("DQT", 69, <<id, table>>))

Subsampling(type) == IF type = 0 THEN "4:2:2" ELSE "4:2:0"

EmitSof0(w, in) == Write(w, Segment("SOF0", 19, <<in.size, Subsampling(in.type)>>))

EmitDht(w, id, n) == Write(w, Segment("DHT", 21 + n, <<id>>))

EmitSos(w) == Write(w, Segment("SOS", 14, <<>>))

\* The writer after everything was written, or tried to be.
Written(in, cap) ==
    LET start   == Write([off |-> 0, cap |-> cap, ok |-> TRUE, written |-> <<>>],
                         Segment("SOI", 2, <<>>))
        quants  == EmitDqt(EmitDqt(start, 0, Tables(in)[1]), 1, Tables(in)[2])
        frame   == EmitSof0(quants, in)
        luma    == EmitDht(EmitDht(frame, 0, 12), 16, 162)
        chroma  == EmitDht(EmitDht(luma, 1, 12), 17, 162)
        scan    == Write(EmitSos(chroma), Segment("scan", Len(in.scan), in.scan))
    IN  Write(scan, Segment("EOI", 2, <<>>))

\* what jpeg_synth_build returns, and the file when that is not -1
Refusal == [returned |-> -1, file |-> <<>>]

JpegSynthBuild(in, cap) ==
    LET w == Written(in, cap) IN
    IF in.type \notin {0, 1} \/ ~w.ok THEN Refusal
    ELSE [returned |-> w.off, file |-> w.written]

=============================================================================
