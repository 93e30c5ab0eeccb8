------------------------------ MODULE MjpegStream ------------------------------
(***************************************************************************)
(* A camera's RTP session, from datagram to picture: the camera sends       *)
(* frames, cut into fragments; UDP loses, repeats and reorders datagrams;   *)
(* the receiver parses what arrives (module RtpPacket), feeds the payload   *)
(* to the assembler (MjpegRtp) and, when that has a frame ready, makes a    *)
(* JPEG file of it (JpegSynth).  Datagrams that are not the camera's arrive *)
(* too, of any length and contents, and are parsed like the others: one may *)
(* open a frame, or continue the camera's.  The assembler may be reset at   *)
(* any time.  With InOrder = TRUE datagrams only get lost, and nothing else *)
(* happens.                                                                 *)
(*                                                                          *)
(* Every frame has scan data and tables of its own, and they are told from  *)
(* the bytes of the other datagrams, so that a mix is seen for what it is.  *)
(* The camera, the network and the receiving loop are not in the            *)
(* repository; the payloads are those of host_test/test_mjpeg_rtp.c, the    *)
(* JPEG input is the assembler's fields.                                    *)
(***************************************************************************)
EXTENDS MjpegRtp, RtpPacket, JpegSynth

CONSTANTS
    Frames,     \* the frames sent, in order: a sequence of records
                \* [cuts, type, q, size, tables]; cuts are the offsets where
                \* the fragments start, and the length of the scan data
    Wraps,      \* what datagrams carry beside the payload, see RtpBuild
    Strays,     \* datagrams that are not the camera's; bytes only
    JpegCap,    \* the size of the buffer for the JPEG file
    InOrder     \* TRUE: datagrams may get lost, and nothing else happens

Fragments(f) == 1..Len(Frames[f].cuts) - 1

Size(f) == Frames[f].cuts[Len(Frames[f].cuts)]

\* The scan data of a frame; a byte of it is known by its frame and place.
Scan(f) == [i \in 1..Size(f) |-> <<"scan", f, i - 1>>]

\* What its RTP/JPEG headers say, and the tables behind the first of them.
Header(f) == [type |-> Frames[f].type, q |-> Frames[f].q, size |-> Frames[f].size]

Inline(f) ==
    IF Frames[f].tables = "good" THEN << << <<"luma", f>> >>, << <<"chroma", f>> >> >> ELSE None

ASSUME StreamAssumption ==
    /\ Frames \in Seq([cuts : Seq(Nat), type : Nat, q : Nat, size : Nat \X Nat,
                       tables : {"none", "good", "bad"}])
    /\ \A f \in DOMAIN Frames :
          /\ Len(Frames[f].cuts) > 1 /\ Frames[f].cuts[1] = 0
          /\ \A i, j \in DOMAIN Frames[f].cuts : i < j => Frames[f].cuts[i] < Frames[f].cuts[j]
          /\ Scan(f) \in Seq(Bytes)
          /\ Frames[f].tables = "good" => Inline(f) \in InlineTables
          /\ (Frames[f].q >= 128) = (Frames[f].tables # "none")
    /\ None \notin InlineTables

\* Strays are bytes; their lengths are whatever they say.
ASSUME NetworkAssumption ==
    /\ Wraps \subseteq [cc : Nat, words : Int, pad : Nat]
    /\ Strays \subseteq [fixed : [version : Nat, padding : BOOLEAN, extension : BOOLEAN,
                                 cc : Nat, marker : BOOLEAN],
                        rest : Seq({"byte"} \X Nat)]
    /\ \A d \in Strays : \A i \in DOMAIN d.rest :
          Value(d.rest[i]) < 256 /\ d.rest[i] \in Bytes
    /\ None \notin Strays
    /\ JpegCap \in Nat

VARIABLES
    stray,      \* the stray datagram last received; None after a fragment
    asm,        \* the assembler
    status,     \* what the last mjpeg_rtp_feed returned; "none" before the first
    picture,    \* what jpeg_synth_build returned for the frame just completed,
                \* and its file
    last,       \* the last fragment fed, <<frame, number>>; None if it was not one
    run         \* how many fragments of last's frame were just fed in a row,
                \* first one first; 0 if the frame was not fed from its start

vars == <<stray, asm, status, picture, last, run>>

Sent == UNION {{<<f, i>> : i \in Fragments(f)} : f \in DOMAIN Frames}

\* the order of sending
Before(u, v) == u[1] < v[1] \/ (u[1] = v[1] /\ u[2] < v[2])

\* The RTP payload of a fragment: the RTP/JPEG header with its tables, as one
\* cell, and the scan data.
Payload(f, i) ==
    << <<"jpeg", [offset |-> Frames[f].cuts[i], header |-> Header(f),
                  tables |-> IF i = 1 THEN Frames[f].tables ELSE "none",
                  qt |-> IF i = 1 THEN Inline(f) ELSE None]>> >>
    \o SubSeq(Scan(f), Frames[f].cuts[i] + 1, Frames[f].cuts[i + 1])

\* mjpeg_rtp_feed's reading of a fragment,
ReadFragment(cells, marker) ==
    LET h == cells[1][2] IN
    [wellformed |-> h.header.type < 64, offset |-> h.offset, header |-> h.header,
     tables |-> h.tables, qt |-> h.qt, chunk |-> Tail(cells), marker |-> marker]

\* of fewer than eight bytes
ReadTooFew(marker) ==
    [wellformed |-> FALSE, offset |-> 0, header |-> [type |-> 0, q |-> 0, size |-> <<0, 0>>],
     tables |-> "none", qt |-> None, chunk |-> <<>>, marker |-> marker]

\* and of eight or more: four of the header, type, q, width and height, then,
\* if they are asked for, the tables with their own header of four.
ReadBytes(bytes, marker) ==
    LET v(i)   == Value(bytes[i])
        offset == 65536 * v(2) + 256 * v(3) + v(4)
        asked  == offset = 0 /\ v(6) >= 128
        good   == asked /\ Len(bytes) >= 140 /\ 256 * v(11) + v(12) = 128
    IN  [wellformed |-> v(5) < 64,
         offset     |-> offset,
         header     |-> [type |-> v(5), q |-> v(6), size |-> <<v(7), v(8)>>],
         tables     |-> IF good THEN "good" ELSE IF asked THEN "bad" ELSE "none",
         qt         |-> IF good THEN <<SubSeq(bytes, 13, 76), SubSeq(bytes, 77, 140)>> ELSE None,
         chunk      |-> SubSeq(bytes, IF good THEN 141 ELSE 9, Len(bytes)),
         marker     |-> marker]

\* The payload as mjpeg_rtp_feed reads it.
ReadPayload(cells, marker) ==
    IF cells # <<>> /\ cells[1][1] = "jpeg" THEN ReadFragment(cells, marker)
    ELSE IF Len(cells) < 8 THEN ReadTooFew(marker)
    ELSE ReadBytes(cells, marker)

\* jpeg_synth_input_t, filled from the assembler's accessors
JpegInput(a) ==
    [size |-> a.header.size, type |-> a.header.type, q |-> a.header.q,
     qtPresent |-> a.qt # None, inline |-> a.qt, scan |-> a.scan]

NoPicture == [returned |-> 0, file |-> <<>>]

Init ==
    /\ stray = None
    /\ asm = MjpegCreate
    /\ status = "none"
    /\ picture = NoPicture
    /\ last = None
    /\ run = 0

\* The receiver's loop: what is not RTP goes no further.
Receive(d) ==
    IF RtpAccepts(d)
    THEN LET p == ReadPayload(RtpPayload(d), d.fixed.marker) IN
         /\ asm' = MjpegFeed(asm, p)
         /\ status' = MjpegStatus(asm, p)
         /\ picture' = IF status' = "FRAME_READY"
                       THEN JpegSynthBuild(JpegInput(asm'), JpegCap) ELSE NoPicture
    ELSE UNCHANGED <<asm, status, picture>>

ReceiveFragment(f, i, wrap) ==
    /\ InOrder /\ last # None => Before(last, <<f, i>>)
    /\ Receive(RtpBuild(wrap, Payload(f, i), i + 1 = Len(Frames[f].cuts)))
    /\ stray' = None
    /\ last' = <<f, i>>
    /\ run' = IF i = 1 THEN 1 ELSE IF last = <<f, i - 1>> /\ run > 0 THEN i ELSE 0

ReceiveStray(d) ==
    /\ ~InOrder
    /\ Receive(d)
    /\ stray' = d
    /\ last' = IF RtpAccepts(d) THEN None ELSE last
    /\ run' = IF RtpAccepts(d) THEN 0 ELSE run

Reset ==
    /\ ~InOrder
    /\ asm' = MjpegReset(asm)
    /\ status' = "none"
    /\ last' = None
    /\ run' = 0
    /\ picture' = NoPicture
    /\ UNCHANGED stray

Next ==
    \/ \E u \in Sent, wrap \in Wraps : ReceiveFragment(u[1], u[2], wrap)
    \/ \E d \in Strays : ReceiveStray(d)
    \/ Reset

Spec == Init /\ [][Next]_vars

-----------------------------------------------------------------------------

\* The assembler's fields have their types, its data fits the buffer
\* (mjpeg_rtp.c:125) and, while a frame is open, the offset it waits for is
\* where its data ends (mjpeg_rtp.c:132).
TypeOK ==
    /\ asm \in Assemblers
    /\ Len(asm.scan) <= BufCap
    /\ asm.inFrame => asm.expected = Len(asm.scan)
    /\ status \in {"none", "OK", "FRAME_READY", "DROPPED"}
    /\ picture.returned <= JpegCap
    /\ stray \in Strays \cup {None}
    /\ last \in Sent \cup {None}
    /\ run \in Nat

IsCameras(cell) == cell[1] = "scan"

\* Of the camera's data every byte held is in its place in its frame, so that
\* nothing is missing before it or there twice; the last byte of a frame is
\* the last byte held, and completes it.
CameraDataInPlace ==
    \A i \in DOMAIN asm.scan : IsCameras(asm.scan[i]) =>
        /\ asm.scan[i][3] = i - 1
        /\ i = Size(asm.scan[i][2]) => status = "FRAME_READY" /\ i = Len(asm.scan)

\* A frame the camera completed ends with the last byte of one of its frames.
CompletedByCamera ==
    status = "FRAME_READY" /\ last # None =>
        /\ asm.scan # <<>>
        /\ asm.scan[Len(asm.scan)] = <<"scan", last[1], Size(last[1]) - 1>>

\* The header and the tables that will decode the data are those of the
\* payload that brought its first byte.
HeaderOfFirstByte ==
    asm.scan # <<>> =>
        IF IsCameras(asm.scan[1])
        THEN /\ asm.header = Header(asm.scan[1][2])
             /\ asm.qt = Inline(asm.scan[1][2])
        ELSE \E d \in Strays :
                LET p == ReadPayload(RtpPayload(d), d.fixed.marker) IN
                /\ RtpAccepts(d) /\ p.wellformed /\ p.offset = 0
                /\ p.chunk # <<>> /\ p.chunk[1] = asm.scan[1]
                /\ p.header = asm.header /\ p.qt = asm.qt

\* Whatever arrives in whatever order, datagrams that are not the camera's
\* included, the data held hangs together (mjpeg_rtp.c:67-139).
ScanHangsTogether == CameraDataInPlace /\ CompletedByCamera /\ HeaderOfFirstByte

\* The datagram is an RTP packet: some CSRCs, extension words, payload and
\* padding make it up.
IsRtp(d) ==
    /\ d.fixed.version = 2
    /\ \E header, payload, pad \in 0 .. Len(d.rest) :
          /\ header + payload + pad = Len(d.rest)
          /\ d.fixed.padding <=> pad > 0
          /\ d.fixed.padding => d.rest[Len(d.rest)] = Byte(pad)
          /\ \/ ~d.fixed.extension /\ header = 4 * d.fixed.cc
             \/ /\ d.fixed.extension
                /\ \E words \in 0 .. header :
                      /\ header = 4 * (d.fixed.cc + 1 + words)
                      /\ SubSeq(d.rest, header - 4 * words - 1, header - 4 * words)
                            = <<Byte(words \div 256), Byte(words % 256)>>

\* rtp_packet_parse accepts the RTP packets and nothing else: with CSRCs, an
\* extension and padding in any combination, the lengths they claim fit into
\* the datagram or it is refused (rtp_parser.c:19-65).
AcceptsJustRtp == stray # None => (RtpAccepts(stray) <=> IsRtp(stray))

\* Every fragment of f, and nothing else, was just fed, in order.
JustArrived(f) == last # None /\ last[1] = f /\ run = Len(Frames[f].cuts) - 1

Assembles(f) ==
    Size(f) <= BufCap /\ Frames[f].tables # "bad" /\ Frames[f].type < 64

\* A frame that fits the buffer and whose tables are whole, and whose
\* fragments arrive in a row and in order, comes out, and nothing else with
\* it, whatever arrived before (mjpeg_rtp.c:87-95 starts afresh), however
\* the packets are padded and extended, and with refused datagrams between.
IntactFrameComesOut ==
    \A f \in DOMAIN Frames :
        JustArrived(f) /\ Assembles(f) => status = "FRAME_READY" /\ asm.scan = Scan(f)

\* What a JPEG decoder looks up: the data of the segments of a name.
InFile(name) ==
    {picture.file[i].data : i \in {j \in DOMAIN picture.file : picture.file[j].name = name}}

\* The tables a frame is to be decoded with, for luma and for chroma.
TablesOf(f) ==
    IF Frames[f].q >= 128 THEN Inline(f)
    ELSE <<DefaultTables(Frames[f].q), DefaultTables(Frames[f].q)>>

\* Such a frame, of a type jpeg_synth_build knows, becomes a whole JPEG file
\* with its own tables, luma's and chroma's, its dimensions and data, 607
\* bytes longer than the data, or is refused if that does not fit
\* (jpeg_synth.c:192-234).
IntactFrameIsShown ==
    \A f \in DOMAIN Frames :
        JustArrived(f) /\ Assembles(f) =>
            IF Frames[f].type > 1 \/ Size(f) + 607 > JpegCap THEN picture.returned = -1
            ELSE /\ picture.returned = Size(f) + 607
                 /\ picture.file[1].name = "SOI"
                 /\ picture.file[Len(picture.file)].name = "EOI"
                 /\ InFile("DQT") = {<<0, TablesOf(f)[1]>>, <<1, TablesOf(f)[2]>>}
                 /\ InFile("SOF0") = {<<Frames[f].size, Subsampling(Frames[f].type)>>}
                 /\ InFile("DHT") = {<<0>>, <<16>>, <<1>>, <<17>>}
                 /\ InFile("scan") = {Scan(f)}

\* The frame shown, if it came without tables: its q and what stands for
\* each value of the base tables.
Quality ==
    IF picture.returned > 0 /\ last # None /\ JustArrived(last[1]) /\ Frames[last[1]].q < 128
    THEN [known |-> TRUE, q |-> Frames[last[1]].q, table |-> (CHOOSE dqt \in InFile("DQT") : dqt[1] = 0)[2]]
    ELSE [known |-> FALSE]

\* Of two such frames shown in a row the one with the higher q has no table
\* entry coarser, and 50 gives the base tables themselves, though the factor
\* is an integer quotient and the entries are bytes (jpeg_synth.c:103-113).
QualityOrdersTables ==
    [][Quality.known /\ Quality'.known /\ Quality.q <= Quality'.q =>
          \A b \in Bases :
              /\ Quality'.table[b] <= Quality.table[b]
              /\ Quality'.q = 50 => Quality'.table[b] = b]_vars

\* test_out_of_order_fragment_dropped: a fragment that is fed without all the
\* fragments before it in its own frame being fed just before, in order, is
\* dropped (mjpeg_rtp.c:118).
OutOfOrderFragmentDropped ==
    last # None /\ run = 0 => status = "DROPPED"

=============================================================================
