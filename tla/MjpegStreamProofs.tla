---------------------------- MODULE MjpegStreamProofs ----------------------------
(***************************************************************************)
(* Proofs about the way of a video frame, for every camera, every network   *)
(* and every size of the two buffers.                                       *)
(*                                                                          *)
(* The RTP parser comes first: it gives back what was wrapped, whatever the  *)
(* wrapping (PayloadComesBack).                                             *)
(*                                                                          *)
(* A datagram is then reduced to what it does to the assembler (StepCases): *)
(* it feeds a fragment, or what is read from a stray, or nothing.  The      *)
(* invariant IInv then says what the assembler holds: what was fed since    *)
(* the last offset 0, the camera's bytes where they belong.                 *)
(***************************************************************************)
EXTENDS MjpegStream, SequenceTheorems, TLAPS

-----------------------------------------------------------------------------
(* The RTP packet parser: what RFC 3550 wraps around a payload it takes off  *)
(* again, for every payload and every wrapping.                             *)

\* How a payload may be wrapped: CSRCs, words of an extension or -1 for none,
\* bytes of padding.
Wrappings == [cc : Nat, words : Int, pad : Nat]

\* The parts RtpBuild puts together.
CsrcPart(wrap) == [i \in 1 .. 4 * wrap.cc |-> Byte(1)]

WordsPart(wrap) == [i \in 1 .. 4 * wrap.words |-> Byte(1)]

ExtensionPart(wrap) ==
    IF wrap.words < 0 THEN <<>>
    ELSE <<Byte(0), Byte(0), Byte(wrap.words \div 256), Byte(wrap.words % 256)>> \o WordsPart(wrap)

PadPart(wrap) == [i \in 1 .. wrap.pad |-> Byte(IF i = wrap.pad THEN wrap.pad ELSE 0)]

\* Bytes of a payload and of what is around it.
Cells(S) == S \cup {Byte(n) : n \in Nat}

\* The elements of a concatenation.
LEMMA ConcatElements ==
    ASSUME NEW S, NEW s \in Seq(S), NEW t \in Seq(S)
    PROVE  /\ s \o t \in Seq(S)
           /\ Len(s \o t) = Len(s) + Len(t)
           /\ \A i \in 1 .. Len(s) : (s \o t)[i] = s[i]
           /\ \A i \in 1 .. Len(t) : (s \o t)[Len(s) + i] = t[i]
<1>1. Len(s) \in Nat /\ Len(t) \in Nat
  BY LenProperties
<1>2. /\ s \o t \in Seq(S)
      /\ Len(s \o t) = Len(s) + Len(t)
      /\ \A i \in 1 .. Len(s) + Len(t) :
            (s \o t)[i] = IF i <= Len(s) THEN s[i] ELSE t[i - Len(s)]
  BY ConcatProperties
<1>3. ASSUME NEW i \in 1 .. Len(s) PROVE (s \o t)[i] = s[i]
  BY <1>1, <1>2, <1>3
<1>4. ASSUME NEW i \in 1 .. Len(t) PROVE (s \o t)[Len(s) + i] = t[i]
  <2>1. Len(s) + i \in 1 .. Len(s) + Len(t) /\ ~(Len(s) + i <= Len(s)) /\ (Len(s) + i) - Len(s) = i
    BY <1>1, <1>4
  <2> QED
    BY <1>2, <2>1
<1> QED
  BY <1>2, <1>3, <1>4

\* How long the extension is, and that it says so in its third and fourth byte.
LEMMA ExtensionPartIs ==
    ASSUME NEW wrap \in Wrappings, NEW S
    PROVE  /\ ExtensionPart(wrap) \in Seq(Cells(S))
           /\ Len(ExtensionPart(wrap)) = IF wrap.words < 0 THEN 0 ELSE 4 + 4 * wrap.words
           /\ wrap.words >= 0 => /\ ExtensionPart(wrap)[3] = Byte(wrap.words \div 256)
                                 /\ ExtensionPart(wrap)[4] = Byte(wrap.words % 256)
<1> DEFINE T == Cells(S)
           start == <<Byte(0), Byte(0), Byte(wrap.words \div 256), Byte(wrap.words % 256)>>
<1>0. wrap.words \in Int
  BY DEF Wrappings
<1>1. CASE wrap.words < 0
  BY <1>0, <1>1 DEF ExtensionPart
<1>2. CASE wrap.words >= 0
  <2>1. wrap.words \div 256 \in Nat /\ wrap.words % 256 \in Nat
    BY <1>0, <1>2
  <2>2. start \in Seq(T) /\ Len(start) = 4
    <3>1. /\ Byte(0) \in T
          /\ Byte(wrap.words \div 256) \in T /\ Byte(wrap.words % 256) \in T
      BY <2>1 DEF Cells
    <3> HIDE DEF T
    <3> QED
      BY <3>1
  <2>3. WordsPart(wrap) \in Seq(T) /\ Len(WordsPart(wrap)) = 4 * wrap.words
    <3>1. Byte(1) \in T /\ 4 * wrap.words \in Nat
      BY <1>0, <1>2 DEF Cells
    <3> HIDE DEF T, start
    <3> QED
      BY <3>1 DEF WordsPart
  <2>4. /\ start \o WordsPart(wrap) \in Seq(T)
        /\ Len(start \o WordsPart(wrap)) = 4 + 4 * wrap.words
        /\ (start \o WordsPart(wrap))[3] = start[3]
        /\ (start \o WordsPart(wrap))[4] = start[4]
    <3>1. 3 \in 1 .. Len(start) /\ 4 \in 1 .. Len(start)
      BY <2>2
    <3> DEFINE words == WordsPart(wrap)
               both == start \o words
    <3>2. start \in Seq(T) /\ words \in Seq(T)
      BY <2>2, <2>3
    <3> HIDE DEF start, T, words
    <3>3. /\ both \in Seq(T)
          /\ Len(both) = Len(start) + Len(words)
          /\ \A i \in 1 .. Len(start) : both[i] = start[i]
      BY <3>2, ConcatElements, Zenon
    <3> HIDE DEF both
    <3>4. Len(start) = 4 /\ Len(words) = 4 * wrap.words /\ wrap.words \in Int
      BY <1>0, <2>2, <2>3 DEF words
    <3>5. both \in Seq(T) /\ Len(both) = 4 + 4 * wrap.words /\ both[3] = start[3] /\ both[4] = start[4]
      BY <3>1, <3>3, <3>4
    <3> QED
      BY <3>5 DEF both, words
  <2>5. start[3] = Byte(wrap.words \div 256) /\ start[4] = Byte(wrap.words % 256)
    OBVIOUS
  <2>6. ExtensionPart(wrap) = start \o WordsPart(wrap)
    BY <1>2, <1>0 DEF ExtensionPart
  <2> QED
    BY <1>0, <1>2, <2>4, <2>5, <2>6
<1> QED
  BY <1>0, <1>1, <1>2

\* The other parts.
LEMMA PartsAre ==
    ASSUME NEW wrap \in Wrappings, NEW S
    PROVE  /\ CsrcPart(wrap) \in Seq(Cells(S))
           /\ Len(CsrcPart(wrap)) = 4 * wrap.cc
           /\ PadPart(wrap) \in Seq(Cells(S))
           /\ Len(PadPart(wrap)) = wrap.pad
           /\ wrap.pad > 0 => PadPart(wrap)[wrap.pad] = Byte(wrap.pad)
<1>1. wrap.cc \in Nat /\ wrap.pad \in Nat
  BY DEF Wrappings
<1>2. CsrcPart(wrap) \in Seq(Cells(S)) /\ Len(CsrcPart(wrap)) = 4 * wrap.cc
  BY <1>1 DEF CsrcPart, Cells
<1>3. \A i \in 1 .. wrap.pad : Byte(IF i = wrap.pad THEN wrap.pad ELSE 0) \in Cells(S)
  BY <1>1 DEF Cells
<1>4. PadPart(wrap) \in Seq(Cells(S)) /\ Len(PadPart(wrap)) = wrap.pad
  BY <1>1, <1>3 DEF PadPart
<1>5. wrap.pad > 0 => PadPart(wrap)[wrap.pad] = Byte(wrap.pad)
  BY <1>1 DEF PadPart
<1> QED
  BY <1>2, <1>4, <1>5

\* The bytes after the fixed header, and where the parts are in them.
LEMMA BuiltRest ==
    ASSUME NEW wrap \in Wrappings, NEW S, NEW payload \in Seq(S), NEW marker
    PROVE  LET rest == RtpBuild(wrap, payload, marker).rest
               head == 4 * wrap.cc + IF wrap.words < 0 THEN 0 ELSE 4 + 4 * wrap.words
           IN  /\ rest \in Seq(Cells(S))
               /\ Len(rest) = head + Len(payload) + wrap.pad
               /\ wrap.words >= 0 => /\ rest[4 * wrap.cc + 3] = Byte(wrap.words \div 256)
                                     /\ rest[4 * wrap.cc + 4] = Byte(wrap.words % 256)
               /\ \A i \in 1 .. Len(payload) : rest[head + i] = payload[i]
               /\ wrap.pad > 0 => rest[Len(rest)] = Byte(wrap.pad)
<1> DEFINE T == Cells(S)
           a == CsrcPart(wrap)
           b == ExtensionPart(wrap)
           c == PadPart(wrap)
           la == 4 * wrap.cc
           lb == IF wrap.words < 0 THEN 0 ELSE 4 + 4 * wrap.words
           rest == RtpBuild(wrap, payload, marker).rest
<1>1. wrap.cc \in Nat /\ wrap.words \in Int /\ wrap.pad \in Nat /\ Len(payload) \in Nat
  BY LenProperties DEF Wrappings
<1>2. la \in Nat /\ lb \in Nat
  BY <1>1
<1>3. rest = a \o b \o payload \o c
  BY DEF RtpBuild, CsrcPart, ExtensionPart, WordsPart, PadPart
<1>4. payload \in Seq(T)
  BY SeqMonotonic DEF Cells
<1>5. a \in Seq(T) /\ Len(a) = la /\ c \in Seq(T) /\ Len(c) = wrap.pad
  BY PartsAre
<1>6. wrap.pad > 0 => c[wrap.pad] = Byte(wrap.pad)
  BY PartsAre
<1>7. b \in Seq(T) /\ Len(b) = lb
  BY ExtensionPartIs
<1>8. wrap.words >= 0 => b[3] = Byte(wrap.words \div 256) /\ b[4] = Byte(wrap.words % 256)
  BY ExtensionPartIs
<1>9. wrap.words >= 0 => 3 \in 1 .. lb /\ 4 \in 1 .. lb
  BY <1>1
<1> DEFINE ab == a \o b
           abp == ab \o payload
<1> HIDE DEF T, a, b, c, la, lb, rest
<1>10. /\ ab \in Seq(T) /\ Len(ab) = Len(a) + Len(b)
       /\ \A i \in 1 .. Len(b) : ab[Len(a) + i] = b[i]
  <2>1. a \in Seq(T) /\ b \in Seq(T)
    BY <1>5, <1>7
  <2> QED
    BY <2>1, ConcatElements
<1> HIDE DEF ab
<1>11. /\ abp \in Seq(T) /\ Len(abp) = Len(ab) + Len(payload)
       /\ \A i \in 1 .. Len(ab) : abp[i] = ab[i]
       /\ \A i \in 1 .. Len(payload) : abp[Len(ab) + i] = payload[i]
  <2>1. ab \in Seq(T)
    BY <1>10
  <2> QED
    BY <2>1, <1>4, ConcatElements
<1> HIDE DEF abp
<1>12. /\ rest \in Seq(T) /\ Len(rest) = Len(abp) + Len(c)
       /\ \A i \in 1 .. Len(abp) : rest[i] = abp[i]
       /\ \A i \in 1 .. Len(c) : rest[Len(abp) + i] = c[i]
  <2>1. rest = abp \o c
    BY <1>3 DEF ab, abp
  <2> QED
    BY <2>1, <1>5, <1>11, ConcatElements
<1>13. Len(ab) = la + lb /\ Len(abp) = la + lb + Len(payload)
       /\ Len(rest) = la + lb + Len(payload) + wrap.pad
  BY <1>5, <1>7, <1>10, <1>11, <1>12
<1>14. \A i \in 1 .. lb : rest[la + i] = b[i]
  <2>1. SUFFICES ASSUME NEW i \in 1 .. lb PROVE rest[la + i] = b[i]
    OBVIOUS
  <2>2. la + i \in 1 .. Len(ab) /\ la + i \in 1 .. Len(abp)
    BY <1>1, <1>2, <1>13
  <2>3. ab[la + i] = b[i]
    BY <1>5, <1>7, <1>10
  <2> QED
    BY <1>11, <1>12, <2>2, <2>3
<1>15. \A i \in 1 .. Len(payload) : rest[la + lb + i] = payload[i]
  <2>1. SUFFICES ASSUME NEW i \in 1 .. Len(payload) PROVE rest[la + lb + i] = payload[i]
    OBVIOUS
  <2>2. la + lb + i \in 1 .. Len(abp)
    BY <1>1, <1>2, <1>13
  <2>3. abp[la + lb + i] = payload[i]
    BY <1>11, <1>13
  <2> QED
    BY <1>12, <2>2, <2>3
<1>16. wrap.pad > 0 => rest[Len(rest)] = Byte(wrap.pad)
  <2>1. SUFFICES ASSUME wrap.pad > 0 PROVE rest[Len(rest)] = Byte(wrap.pad)
    OBVIOUS
  <2>2. wrap.pad \in 1 .. Len(c) /\ Len(rest) = Len(abp) + wrap.pad
    BY <1>1, <1>5, <1>12, <2>1
  <2> QED
    BY <1>6, <1>12, <2>1, <2>2
<1>17. wrap.words >= 0 => rest[la + 3] = Byte(wrap.words \div 256) /\ rest[la + 4] = Byte(wrap.words % 256)
  BY <1>8, <1>9, <1>14
<1> QED
  BY <1>12, <1>13, <1>15, <1>16, <1>17 DEF T, la, lb, rest

\* What a sender wraps into an RTP packet, with any CSRCs, header extension
\* and padding, the parser accepts, and hands out as it was
\* (rtp_parser.c:16-70).
THEOREM PayloadComesBack ==
    ASSUME NEW wrap \in Wrappings, NEW S, NEW payload \in Seq(S), NEW marker
    PROVE  /\ RtpAccepts(RtpBuild(wrap, payload, marker))
           /\ RtpPayload(RtpBuild(wrap, payload, marker)) = payload
<1> DEFINE d == RtpBuild(wrap, payload, marker)
           head == 4 * wrap.cc + IF wrap.words < 0 THEN 0 ELSE 4 + 4 * wrap.words
           n == Len(payload)
<1>1. wrap.cc \in Nat /\ wrap.words \in Int /\ wrap.pad \in Nat /\ n \in Nat
  BY LenProperties DEF Wrappings
<1>2. /\ d.fixed.version = 2 /\ d.fixed.cc = wrap.cc
      /\ d.fixed.padding <=> wrap.pad > 0
      /\ d.fixed.extension <=> wrap.words >= 0
  BY DEF RtpBuild
<1>3. /\ d.rest \in Seq(Cells(S))
      /\ Len(d.rest) = head + n + wrap.pad
      /\ wrap.words >= 0 => /\ d.rest[4 * wrap.cc + 3] = Byte(wrap.words \div 256)
                            /\ d.rest[4 * wrap.cc + 4] = Byte(wrap.words % 256)
      /\ \A i \in 1 .. n : d.rest[head + i] = payload[i]
      /\ wrap.pad > 0 => d.rest[Len(d.rest)] = Byte(wrap.pad)
  BY BuiltRest
<1>4. /\ head \in Nat /\ head >= 4 * wrap.cc
      /\ wrap.words >= 0 => head = 4 * wrap.cc + (4 + 4 * wrap.words)
      /\ ~(wrap.words >= 0) => head = 4 * wrap.cc + 0
  BY <1>1
<1> HIDE DEF d, head, n
<1>5. Csrcs(d) = 4 * wrap.cc
  BY <1>2 DEF Csrcs
<1>6. HeaderLen(d) = head
  <2>1. CASE wrap.words >= 0
    <3>1. ExtensionWords(d) = 256 * (wrap.words \div 256) + (wrap.words % 256)
      BY <1>3, <1>5, <2>1 DEF ExtensionWords, Value, Byte
    <3>2. 256 * (wrap.words \div 256) + (wrap.words % 256) = wrap.words
      BY <1>1
    <3> QED
      BY <1>2, <1>4, <1>5, <2>1, <3>1, <3>2 DEF HeaderLen
  <2>2. CASE ~(wrap.words >= 0)
    BY <1>2, <1>4, <1>5, <2>2 DEF HeaderLen
  <2> QED
    BY <2>1, <2>2
<1>7. Pad(d) = wrap.pad
  <2>1. CASE wrap.pad > 0
    BY <1>2, <1>3, <2>1 DEF Pad, Value, Byte
  <2>2. CASE ~(wrap.pad > 0)
    BY <1>1, <1>2, <2>2 DEF Pad
  <2> QED
    BY <2>1, <2>2
<1>8. RtpAccepts(d)
  <2>0. Len(d.rest) = head + n + wrap.pad
    BY <1>3
  <2>1. Len(d.rest) >= 4 * wrap.cc /\ Len(d.rest) >= head
    BY <1>1, <2>0, <1>4
  <2>2. wrap.words >= 0 => Len(d.rest) >= 4 * wrap.cc + 4
    <3>1. wrap.words >= 0 => head >= 4 * wrap.cc + 4
      BY <1>1, <1>4
    <3> QED
      BY <1>1, <1>4, <2>0, <3>1
  <2>3. wrap.pad > 0 => Len(d.rest) > head /\ wrap.pad \in 1 .. Len(d.rest) - head
    BY <1>1, <2>0, <1>4
  <2> QED
    BY <1>2, <1>5, <1>6, <1>7, <2>1, <2>2, <2>3 DEF RtpAccepts
<1>9. RtpPayload(d) = payload
  <2> DEFINE p == SubSeq(d.rest, head + 1, head + n)
  <2>0. Len(d.rest) = head + n + wrap.pad
    BY <1>3
  <2>1. Len(d.rest) - wrap.pad = head + n
    BY <1>1, <2>0, <1>4
  <2>2. RtpPayload(d) = p
    BY <1>6, <1>7, <2>1 DEF RtpPayload
  <2>3. ASSUME NEW i \in head + 1 .. head + n PROVE d.rest[i] \in S
    <3>1. i - head \in 1 .. n /\ i = head + (i - head)
      BY <1>1, <1>4
    <3>2. d.rest[i] = payload[i - head]
      BY <1>3, <3>1
    <3> QED
      BY <3>1, <3>2, ElementOfSeq DEF n
  <2>4. /\ p \in Seq(S)
        /\ Len(p) = n
        /\ \A i \in 1 .. n : p[i] = d.rest[head + i]
    <3>1. head + 1 \in Int /\ head + n \in Int /\ (head + n) - (head + 1) + 1 = n
      BY <1>1, <1>4
    <3>2. Len(p) = IF head + 1 <= head + n THEN (head + n) - (head + 1) + 1 ELSE 0
      BY <2>3, <3>1, SubSeqProperties
    <3>3. ASSUME NEW i \in 1 .. n PROVE p[i] = d.rest[head + i]
      <4>1. p[i] = d.rest[head + 1 + i - 1]
        BY <2>3, <3>1, SubSeqProperties
      <4>2. head + 1 + i - 1 = head + i
        BY <1>1, <1>4
      <4> QED
        BY <4>1, <4>2
    <3>4. p \in Seq(S)
      BY <2>3, <3>1, SubSeqProperties
    <3>5. Len(p) = n
      BY <1>1, <1>4, <3>2
    <3> HIDE DEF p
    <3> QED
      BY <3>3, <3>4, <3>5
  <2>5. p = payload
    <3>1. \A i \in 1 .. n : p[i] = payload[i]
      BY <1>3, <2>4
    <3> QED
      BY <2>4, <3>1, SeqEqual DEF n
  <2> QED
    BY <2>2, <2>5
<1> QED
  BY <1>8, <1>9 DEF d

-----------------------------------------------------------------------------
(* The way of a frame: the inductive invariant. *)

\* Where a frame is cut, and the data of its i-th fragment.
Cuts(f) == Frames[f].cuts

Chunk(f, i) == SubSeq(Scan(f), Cuts(f)[i] + 1, Cuts(f)[i + 1])

\* A fragment as the assembler sees it.
Fragment(f, i) ==
    [wellformed |-> Frames[f].type < 64, offset |-> Cuts(f)[i], header |-> Header(f),
     tables |-> IF i = 1 THEN Frames[f].tables ELSE "none",
     qt |-> IF i = 1 THEN Inline(f) ELSE None,
     chunk |-> Chunk(f, i), marker |-> i + 1 = Len(Cuts(f))]

\* What a stray that is a packet is read as.
Foreign(d) == ReadPayload(RtpPayload(d), d.fixed.marker)

\* The k-th byte held: a byte of a frame, in its place, or of a stray.
CameraByte(cell, k) == \E f \in DOMAIN Frames : k <= Size(f) /\ cell = <<"scan", f, k - 1>>

ForeignByte(cell) == cell[1] = "byte"

\* What is known of the data held, between any two datagrams: every byte is of
\* one of these kinds, and a frame in progress was last continued.
Held ==
    /\ \A k \in DOMAIN asm.scan : CameraByte(asm.scan[k], k) \/ ForeignByte(asm.scan[k])
    /\ asm.inFrame => status = "OK"

\* The first i fragments of a frame, in a row, are all accepted.
FitsSoFar(f, i) ==
    Frames[f].type < 64 /\ Frames[f].tables # "bad" /\ Cuts(f)[i + 1] <= BufCap

\* What is known of a frame whose fragments came in a row so far.
ComingIn ==
    run > 0 =>
        /\ last \in Sent /\ last[2] = run
        /\ IF FitsSoFar(last[1], run)
           THEN /\ asm.scan = SubSeq(Scan(last[1]), 1, Cuts(last[1])[run + 1])
                /\ status = IF run + 1 = Len(Cuts(last[1])) THEN "FRAME_READY" ELSE "OK"
                /\ asm.inFrame <=> run + 1 # Len(Cuts(last[1]))
           ELSE asm.inFrame = FALSE /\ status = "DROPPED"

\* The picture is what became of the frame completed by the last datagram.
Pictured ==
    picture = IF status = "FRAME_READY" THEN JpegSynthBuild(JpegInput(asm), JpegCap)
              ELSE NoPicture

\* The inductive invariant.
IInv == TypeOK /\ Held /\ ScanHangsTogether /\ ComingIn /\ Pictured

-----------------------------------------------------------------------------
(* Frames and their fragments. *)

\* The cuts of a frame increase from 0 to its size.
LEMMA FrameFacts ==
    ASSUME NEW f \in DOMAIN Frames
    PROVE  /\ Cuts(f) \in Seq(Nat) /\ Len(Cuts(f)) \in Nat /\ Len(Cuts(f)) > 1
           /\ DOMAIN Cuts(f) = 1 .. Len(Cuts(f))
           /\ Cuts(f)[1] = 0
           /\ \A i \in 1 .. Len(Cuts(f)) : Cuts(f)[i] \in Nat
           /\ \A i, j \in 1 .. Len(Cuts(f)) : i < j => Cuts(f)[i] < Cuts(f)[j]
           /\ Size(f) = Cuts(f)[Len(Cuts(f))] /\ Size(f) \in Nat
           /\ Frames[f].type \in Nat /\ Frames[f].tables \in {"none", "good", "bad"}
           /\ Frames[f].q \in Nat /\ Header(f) \in Headers /\ Header(f).type = Frames[f].type
<1>1. Frames[f] \in [cuts : Seq(Nat), type : Nat, q : Nat, size : Nat \X Nat,
                     tables : {"none", "good", "bad"}]
  <2>1. DOMAIN Frames = 1 .. Len(Frames)
    BY StreamAssumption, LenProperties
  <2> QED
    BY <2>1, StreamAssumption, ElementOfSeq
<1>2. /\ Cuts(f) \in Seq(Nat) /\ Frames[f].type \in Nat /\ Frames[f].q \in Nat
      /\ Frames[f].tables \in {"none", "good", "bad"} /\ Frames[f].size \in Nat \X Nat
  BY <1>1 DEF Cuts
<1>3. Len(Cuts(f)) \in Nat /\ DOMAIN Cuts(f) = 1 .. Len(Cuts(f))
  BY <1>2, LenProperties
<1>4. \A i \in 1 .. Len(Cuts(f)) : Cuts(f)[i] \in Nat
  BY <1>2, ElementOfSeq
<1>5. /\ Len(Cuts(f)) > 1 /\ Cuts(f)[1] = 0
      /\ \A i, j \in DOMAIN Cuts(f) : i < j => Cuts(f)[i] < Cuts(f)[j]
  BY StreamAssumption DEF Cuts
<1>6. Size(f) = Cuts(f)[Len(Cuts(f))]
  BY DEF Size, Cuts
<1>7. Size(f) \in Nat
  BY <1>3, <1>4, <1>5, <1>6
<1>8. Header(f) \in Headers /\ Header(f).type = Frames[f].type
  BY <1>2 DEF Header, Headers
<1> QED
  BY <1>2, <1>3, <1>4, <1>5, <1>6, <1>7, <1>8

\* Every byte of the scan data names its frame and place.
LEMMA ScanFacts ==
    ASSUME NEW f \in DOMAIN Frames
    PROVE  /\ Scan(f) \in Seq(Bytes) /\ Len(Scan(f)) = Size(f)
           /\ \A k \in 1 .. Size(f) : Scan(f)[k] = <<"scan", f, k - 1>>
<1>1. Scan(f) \in Seq(Bytes)
  BY StreamAssumption
<1>2. Size(f) \in Nat
  BY FrameFacts
<1>3. Len(Scan(f)) = Size(f) /\ \A k \in 1 .. Size(f) : Scan(f)[k] = <<"scan", f, k - 1>>
  BY <1>2 DEF Scan
<1> QED
  BY <1>1, <1>3

\* A fragment is the piece of the scan data from its cut to the next.  Only
\* the first one starts at 0, only the last one ends at the size.
LEMMA FragmentFacts ==
    ASSUME NEW f \in DOMAIN Frames, NEW i \in Fragments(f)
    PROVE  /\ i \in Nat /\ i >= 1 /\ i + 1 <= Len(Cuts(f))
           /\ Cuts(f)[i] \in Nat /\ Cuts(f)[i + 1] \in Nat /\ Cuts(f)[i] < Cuts(f)[i + 1]
           /\ Cuts(f)[i + 1] <= Size(f)
           /\ Cuts(f)[i] = 0 <=> i = 1
           /\ Cuts(f)[i + 1] = Size(f) <=> i + 1 = Len(Cuts(f))
           /\ Chunk(f, i) \in Seq(Bytes)
           /\ Len(Chunk(f, i)) = Cuts(f)[i + 1] - Cuts(f)[i]
           /\ \A k \in 1 .. Cuts(f)[i + 1] - Cuts(f)[i] :
                 Chunk(f, i)[k] = <<"scan", f, Cuts(f)[i] + k - 1>>
<1> DEFINE n == Len(Cuts(f))
           from == Cuts(f)[i]
           to == Cuts(f)[i + 1]
<1>1. i \in Nat /\ i >= 1 /\ i + 1 <= n /\ n \in Nat
  BY FrameFacts DEF Fragments, Cuts
<1>2. from \in Nat /\ to \in Nat /\ from < to
  BY <1>1, FrameFacts
<1>3. to <= Size(f) /\ (to = Size(f) <=> i + 1 = n)
  <2>1. CASE i + 1 = n
    BY <2>1, FrameFacts
  <2>2. CASE i + 1 # n
    <3>1. i + 1 \in 1 .. n /\ n \in 1 .. n /\ i + 1 < n
      BY <1>1, <2>2
    <3>2. to < Size(f)
      BY <3>1, FrameFacts
    <3>3. Size(f) \in Nat
      BY FrameFacts
    <3> QED
      BY <1>2, <2>2, <3>2, <3>3
  <2> QED
    BY <2>1, <2>2
<1>4. from = 0 <=> i = 1
  <2>1. CASE i = 1
    BY <2>1, FrameFacts
  <2>2. CASE i # 1
    <3>1. 1 \in 1 .. n /\ i \in 1 .. n /\ 1 < i
      BY <1>1, <2>2
    <3>2. 0 < from
      BY <3>1, FrameFacts
    <3> QED
      BY <1>2, <2>2, <3>2
  <2> QED
    BY <2>1, <2>2
<1> HIDE DEF n, from, to
<1>5. \A k \in from + 1 .. to : Scan(f)[k] \in Bytes
  <2>1. SUFFICES ASSUME NEW k \in from + 1 .. to PROVE Scan(f)[k] \in Bytes
    OBVIOUS
  <2>2. k \in 1 .. Len(Scan(f))
    BY <1>2, <1>3, ScanFacts, FrameFacts
  <2> QED
    BY <2>2, ScanFacts, ElementOfSeq
<1>6. /\ Chunk(f, i) = SubSeq(Scan(f), from + 1, to)
      /\ from + 1 \in Int /\ to \in Int /\ from + 1 <= to /\ to - (from + 1) + 1 = to - from
  BY <1>2 DEF Chunk, from, to
<1>7. Chunk(f, i) \in Seq(Bytes) /\ Len(Chunk(f, i)) = to - from
  BY <1>5, <1>6, SubSeqProperties
<1>8. ASSUME NEW k \in 1 .. to - from PROVE Chunk(f, i)[k] = <<"scan", f, from + k - 1>>
  <2>1. Chunk(f, i)[k] = Scan(f)[from + 1 + k - 1]
    BY <1>5, <1>6, SubSeqProperties
  <2>2. from + 1 + k - 1 = from + k /\ from + k \in 1 .. Size(f)
    BY <1>2, <1>3, FrameFacts
  <2>3. \A m \in 1 .. Size(f) : Scan(f)[m] = <<"scan", f, m - 1>>
    BY ScanFacts
  <2>4. from + k \in 1 .. Size(f)
    BY <2>2
  <2>5. Scan(f)[from + k] = <<"scan", f, from + k - 1>>
    BY <1>2, <2>3, <2>4, FrameFacts
  <2> QED
    BY <2>1, <2>2, <2>5
<1> QED
  BY <1>1, <1>2, <1>3, <1>4, <1>7, <1>8 DEF n, from, to

\* From wrapping to parsing a fragment stays what it is.
LEMMA ReceivedFragment ==
    ASSUME NEW f \in DOMAIN Frames, NEW i \in Fragments(f), NEW wrap \in Wraps
    PROVE  LET d == RtpBuild(wrap, Payload(f, i), i + 1 = Len(Frames[f].cuts)) IN
           /\ RtpAccepts(d)
           /\ ReadPayload(RtpPayload(d), d.fixed.marker) = Fragment(f, i)
<1> DEFINE jpeg == [offset |-> Frames[f].cuts[i], header |-> Header(f),
                    tables |-> IF i = 1 THEN Frames[f].tables ELSE "none",
                    qt |-> IF i = 1 THEN Inline(f) ELSE None]
           cell == <<"jpeg", jpeg>>
           S == Bytes \cup {cell}
           marker == i + 1 = Len(Frames[f].cuts)
           d == RtpBuild(wrap, Payload(f, i), marker)
<1>1. Payload(f, i) = <<cell>> \o Chunk(f, i)
  BY DEF Payload, Chunk, Cuts
<1>2. Chunk(f, i) \in Seq(S) /\ <<cell>> \in Seq(S) /\ Len(<<cell>>) = 1
  <2>1. Chunk(f, i) \in Seq(Bytes)
    BY FragmentFacts
  <2>2. Bytes \subseteq S /\ cell \in S
    OBVIOUS
  <2> HIDE DEF S, cell
  <2>3. Chunk(f, i) \in Seq(S)
    BY <2>1, <2>2, SeqMonotonic
  <2> QED
    BY <2>2, <2>3
<1> HIDE DEF S, cell
<1>3. /\ Payload(f, i) \in Seq(S)
      /\ Len(Payload(f, i)) = 1 + Len(Chunk(f, i))
      /\ Payload(f, i)[1] = cell
      /\ \A k \in 1 .. Len(Chunk(f, i)) : Payload(f, i)[1 + k] = Chunk(f, i)[k]
  BY <1>1, <1>2, ConcatElements
<1>4. Payload(f, i) # <<>> /\ Tail(Payload(f, i)) = Chunk(f, i)
  <2>1. Len(Chunk(f, i)) \in Nat
    BY <1>2, LenProperties
  <2>2. Payload(f, i) # <<>>
    BY <1>3, <2>1
  <2>3. /\ Tail(Payload(f, i)) \in Seq(S) /\ Len(Tail(Payload(f, i))) = Len(Chunk(f, i))
        /\ \A k \in 1 .. Len(Chunk(f, i)) : Tail(Payload(f, i))[k] = Payload(f, i)[k + 1]
    BY <1>3, <2>1, <2>2, HeadTailProperties
  <2>4. \A k \in 1 .. Len(Chunk(f, i)) : Tail(Payload(f, i))[k] = Chunk(f, i)[k]
    BY <1>3, <2>1, <2>3
  <2> QED
    BY <1>2, <2>2, <2>3, <2>4, SeqEqual
<1>5. wrap \in Wrappings
  BY NetworkAssumption DEF Wrappings
<1>6. RtpAccepts(d) /\ RtpPayload(d) = Payload(f, i)
  BY <1>3, <1>5, PayloadComesBack
<1>7. d.fixed.marker = marker
  BY DEF RtpBuild
<1>8. cell[1] = "jpeg" /\ cell[2] = jpeg
  BY DEF cell
<1>9. ReadPayload(Payload(f, i), marker) = Fragment(f, i)
  <2>1. Payload(f, i) # <<>> /\ Payload(f, i)[1][1] = "jpeg" /\ Payload(f, i)[1][2] = jpeg
    BY <1>3, <1>4, <1>8
  <2>2. ReadPayload(Payload(f, i), marker) =
          [wellformed |-> jpeg.header.type < 64, offset |-> jpeg.offset, header |-> jpeg.header,
           tables |-> jpeg.tables, qt |-> jpeg.qt, chunk |-> Chunk(f, i), marker |-> marker]
    BY <1>4, <2>1 DEF ReadPayload, ReadFragment
  <2>3. jpeg.header.type = Frames[f].type
    BY FrameFacts
  <2> QED
    BY <2>2, <2>3 DEF Fragment, Cuts
<1> QED
  BY <1>6, <1>7, <1>9

\* A fragment is a payload mjpeg_rtp_feed can be called with.
LEMMA FragmentIsPayload ==
    ASSUME NEW f \in DOMAIN Frames, NEW i \in Fragments(f)
    PROVE  Fragment(f, i) \in Payloads
<1>1. Cuts(f)[i] \in Nat /\ Chunk(f, i) \in Seq(Bytes)
  BY FragmentFacts
<1>2. /\ Frames[f].type \in Nat /\ Frames[f].tables \in {"none", "good", "bad"}
      /\ Header(f) \in Headers
  BY FrameFacts
<1>3. Inline(f) \in InlineTables \cup {None}
  <2>1. CASE Frames[f].tables = "good"
    BY <2>1, StreamAssumption
  <2>2. CASE Frames[f].tables # "good"
    BY <2>2 DEF Inline
  <2> QED
    BY <2>1, <2>2
<1> HIDE DEF Headers
<1> QED
  BY <1>1, <1>2, <1>3 DEF Fragment, Payloads

\* What the parser reads from a stray.
LEMMA StrayFacts ==
    ASSUME NEW d \in Strays
    PROVE  /\ d.rest \in Seq({"byte"} \X Nat) /\ Len(d.rest) \in Nat
           /\ d.fixed.version \in Nat /\ d.fixed.cc \in Nat
           /\ d.fixed.padding \in BOOLEAN /\ d.fixed.extension \in BOOLEAN
           /\ Csrcs(d) = 4 * d.fixed.cc /\ Csrcs(d) \in Nat
           /\ \A k \in 1 .. Len(d.rest) :
                 /\ Value(d.rest[k]) \in Nat /\ Value(d.rest[k]) < 256
                 /\ d.rest[k] = Byte(Value(d.rest[k])) /\ d.rest[k][1] = "byte"
<1>1. d \in [fixed : [version : Nat, padding : BOOLEAN, extension : BOOLEAN,
                     cc : Nat, marker : BOOLEAN],
            rest : Seq({"byte"} \X Nat)]
  BY NetworkAssumption
<1>2. /\ d.rest \in Seq({"byte"} \X Nat)
      /\ d.fixed \in [version : Nat, padding : BOOLEAN, extension : BOOLEAN,
                      cc : Nat, marker : BOOLEAN]
  BY <1>1
<1>3. /\ d.fixed.version \in Nat /\ d.fixed.cc \in Nat
      /\ d.fixed.padding \in BOOLEAN /\ d.fixed.extension \in BOOLEAN
  BY <1>2
<1>4. Csrcs(d) = 4 * d.fixed.cc /\ Csrcs(d) \in Nat
  BY <1>3 DEF Csrcs
<1>5. \A k \in 1 .. Len(d.rest) : d.rest[k] \in {"byte"} \X Nat
  BY <1>2, ElementOfSeq
<1>6. ASSUME NEW k \in 1 .. Len(d.rest)
      PROVE  /\ Value(d.rest[k]) \in Nat /\ Value(d.rest[k]) < 256
             /\ d.rest[k] = Byte(Value(d.rest[k])) /\ d.rest[k][1] = "byte"
  <2>1. Value(d.rest[k]) < 256
    BY <1>2, LenProperties, NetworkAssumption
  <2> QED
    BY <1>5, <2>1 DEF Value, Byte
<1> QED
  BY <1>2, <1>3, <1>4, <1>6, LenProperties

\* Where the payload of a stray is.
LEMMA StrayLengths ==
    ASSUME NEW d \in Strays, Len(d.rest) >= Csrcs(d),
           d.fixed.extension => Len(d.rest) >= Csrcs(d) + 4,
           d.fixed.padding => Len(d.rest) > 0
    PROVE  /\ HeaderLen(d) \in Nat /\ Pad(d) \in Nat
           /\ ~d.fixed.extension => HeaderLen(d) = Csrcs(d)
           /\ d.fixed.extension => /\ ExtensionWords(d) \in Nat
                                   /\ HeaderLen(d) = Csrcs(d) + (4 + 4 * ExtensionWords(d))
<1>1. Csrcs(d) \in Nat /\ Len(d.rest) \in Nat
  BY StrayFacts
<1>2. \A k \in 1 .. Len(d.rest) : Value(d.rest[k]) \in Nat
  BY StrayFacts
<1>3. ~d.fixed.extension => HeaderLen(d) = Csrcs(d)
  BY <1>1 DEF HeaderLen
<1>4. ASSUME d.fixed.extension
      PROVE  ExtensionWords(d) \in Nat /\ HeaderLen(d) = Csrcs(d) + (4 + 4 * ExtensionWords(d))
  <2>1. Csrcs(d) + 3 \in 1 .. Len(d.rest) /\ Csrcs(d) + 4 \in 1 .. Len(d.rest)
    BY <1>1, <1>4
  <2>2. Value(d.rest[Csrcs(d) + 3]) \in Nat /\ Value(d.rest[Csrcs(d) + 4]) \in Nat
    BY <1>2, <2>1
  <2>3. ExtensionWords(d) \in Nat
    BY <2>2 DEF ExtensionWords
  <2>4. HeaderLen(d) = Csrcs(d) + (4 + 4 * ExtensionWords(d))
    BY <1>4 DEF HeaderLen
  <2> QED
    BY <2>3, <2>4
<1>5. Pad(d) \in Nat
  <2>1. CASE d.fixed.padding
    <3>1. Len(d.rest) \in 1 .. Len(d.rest)
      BY <1>1, <2>1
    <3>2. Value(d.rest[Len(d.rest)]) \in Nat
      BY <1>2, <3>1
    <3> QED
      BY <1>1, <2>1, <3>2 DEF Pad
  <2>2. CASE ~d.fixed.padding
    BY <2>2 DEF Pad
  <2> QED
    BY <2>1, <2>2
<1>6. HeaderLen(d) \in Nat
  BY <1>1, <1>3, <1>4
<1> QED
  BY <1>3, <1>4, <1>5, <1>6

\* A piece of a sequence.
LEMMA PieceFacts ==
    ASSUME NEW S, NEW s \in Seq(S), NEW m \in Nat, m >= 1, NEW n \in Int, n <= Len(s)
    PROVE  SubSeq(s, m, n) \in Seq(S)
<1>1. \A k \in m .. n : s[k] \in S
  <2>1. SUFFICES ASSUME NEW k \in m .. n PROVE s[k] \in S
    OBVIOUS
  <2>2. k \in 1 .. Len(s)
    BY LenProperties
  <2> QED
    BY <2>2, ElementOfSeq
<1> QED
  BY <1>1, SubSeqProperties

\* The bytes strays are made of.
ForeignBytes == {cell \in Bytes : cell \in {"byte"} \X Nat}

\* What is wrapped into a stray is bytes, too.
LEMMA StrayPayload ==
    ASSUME NEW d \in Strays, RtpAccepts(d)
    PROVE  RtpPayload(d) \in Seq(ForeignBytes)
<1> DEFINE m == HeaderLen(d) + 1
           n == Len(d.rest) - Pad(d)
<1>1. m \in Nat /\ n \in Int /\ m >= 1 /\ n <= Len(d.rest)
  <2>1. Len(d.rest) \in Nat /\ Csrcs(d) \in Nat
    BY StrayFacts
  <2>2. /\ Len(d.rest) >= Csrcs(d)
        /\ d.fixed.extension => Len(d.rest) >= Csrcs(d) + 4
        /\ d.fixed.padding => Len(d.rest) > HeaderLen(d)
    BY DEF RtpAccepts
  <2>3. d.fixed.padding => Len(d.rest) > 0
    BY <2>1, <2>2 DEF HeaderLen
  <2>4. HeaderLen(d) \in Nat /\ Pad(d) \in Nat
    BY <2>2, <2>3, StrayLengths
  <2> QED
    BY <2>1, <2>4
<1>2. d.rest \in Seq(ForeignBytes)
  <2>1. d.rest \in Seq({"byte"} \X Nat)
    BY StrayFacts
  <2>2. DOMAIN d.rest = 1 .. Len(d.rest)
    BY <2>1, LenProperties
  <2>3. \A k \in 1 .. Len(d.rest) : d.rest[k] \in ForeignBytes
    BY <2>1, <2>2, NetworkAssumption, ElementOfSeq DEF ForeignBytes
  <2> QED
    BY <2>1, <2>3
<1> HIDE DEF m, n
<1>3. SubSeq(d.rest, m, n) \in Seq(ForeignBytes)
  BY <1>1, <1>2, PieceFacts
<1> QED
  BY <1>3 DEF RtpPayload, m, n

\* Of eight bytes or more mjpeg_rtp_feed makes a payload, of fewer it does not;
\* the data in it is bytes.
LEMMA ForeignFacts ==
    ASSUME NEW d \in Strays, RtpAccepts(d), Foreign(d).wellformed
    PROVE  /\ Foreign(d) \in Payloads
           /\ \A k \in 1 .. Len(Foreign(d).chunk) : ForeignByte(Foreign(d).chunk[k])
<1> DEFINE bytes == RtpPayload(d)
           marker == d.fixed.marker
           p == Foreign(d)
<1>1. bytes \in Seq(ForeignBytes)
  BY StrayPayload
<1>2. marker \in BOOLEAN
  BY NetworkAssumption
<1> DEFINE n == Len(bytes)
<1>3. n \in Nat /\ \A i \in 1 .. n : bytes[i] \in ForeignBytes
  BY <1>1, ElementOfSeq, LenProperties
<1>4. p = ReadPayload(bytes, marker)
  BY DEF Foreign
<1> HIDE DEF bytes, marker, p
<1>5. ~(bytes # <<>> /\ bytes[1][1] = "jpeg")
  <2>1. SUFFICES ASSUME bytes # <<>> PROVE bytes[1][1] # "jpeg"
    OBVIOUS
  <2>2. 1 \in 1 .. n
    BY <1>1, <1>3, <2>1
  <2>3. bytes[1] \in {"byte"} \X Nat
    BY <1>3, <2>2 DEF ForeignBytes
  <2> QED
    BY <2>3
<1>6. n >= 8 /\ p = ReadBytes(bytes, marker)
  <2>1. CASE n < 8
    <3>1. p = ReadTooFew(marker)
      BY <1>4, <1>5, <2>1 DEF ReadPayload
    <3>2. p.wellformed = FALSE
      BY <3>1 DEF ReadTooFew
    <3> QED
      BY <3>2 DEF p
  <2>2. CASE ~(n < 8)
    BY <1>3, <1>4, <1>5, <2>2 DEF ReadPayload
  <2> QED
    BY <2>1, <2>2
<1> DEFINE v(i) == Value(bytes[i])
           offset == 65536 * v(2) + 256 * v(3) + v(4)
           asked == offset = 0 /\ v(6) >= 128
           good == asked /\ n >= 140 /\ 256 * v(11) + v(12) = 128
           header == [type |-> v(5), q |-> v(6), size |-> <<v(7), v(8)>>]
           luma == SubSeq(bytes, 13, 76)
           chroma == SubSeq(bytes, 77, 140)
           from == IF good THEN 141 ELSE 9
           chunk == SubSeq(bytes, from, n)
<1>7. /\ v(2) \in Nat /\ v(3) \in Nat /\ v(4) \in Nat /\ v(5) \in Nat
      /\ v(6) \in Nat /\ v(7) \in Nat /\ v(8) \in Nat
  <2>1. \A i \in 1 .. n : v(i) \in Nat
    BY <1>3 DEF ForeignBytes, Value
  <2>2. \A i \in 1 .. 8 : i \in 1 .. n
    BY <1>3, <1>6
  <2> HIDE DEF v
  <2> QED
    BY <2>1, <2>2
<1>8. p = [wellformed |-> v(5) < 64, offset |-> offset, header |-> header,
           tables |-> IF good THEN "good" ELSE IF asked THEN "bad" ELSE "none",
           qt |-> IF good THEN <<luma, chroma>> ELSE None,
           chunk |-> chunk, marker |-> marker]
  BY <1>6 DEF ReadBytes
<1>9. chunk \in Seq(ForeignBytes)
  <2>1. from \in Nat /\ from >= 1 /\ n \in Int /\ n <= Len(bytes)
    BY <1>3
  <2> HIDE DEF from
  <2> QED
    BY <1>1, <2>1, PieceFacts
<1>10. ASSUME good PROVE luma \in Seq(ForeignBytes) /\ chroma \in Seq(ForeignBytes)
  <2>1. n >= 140
    BY <1>10
  <2>2. 76 <= Len(bytes) /\ 140 <= Len(bytes)
    BY <1>3, <2>1
  <2> DEFINE lumaFrom == 13
             lumaTo == 76
             chromaFrom == 77
             chromaTo == 140
  <2>3. /\ lumaFrom \in Nat /\ lumaFrom >= 1 /\ lumaTo \in Int /\ lumaTo <= Len(bytes)
        /\ chromaFrom \in Nat /\ chromaFrom >= 1 /\ chromaTo \in Int /\ chromaTo <= Len(bytes)
    BY <2>2
  <2> HIDE DEF lumaFrom, lumaTo, chromaFrom, chromaTo
  <2>4. SubSeq(bytes, lumaFrom, lumaTo) \in Seq(ForeignBytes)
    BY <1>1, <2>3, PieceFacts
  <2>5. SubSeq(bytes, chromaFrom, chromaTo) \in Seq(ForeignBytes)
    BY <1>1, <2>3, PieceFacts
  <2> QED
    BY <2>4, <2>5 DEF lumaFrom, lumaTo, chromaFrom, chromaTo
<1>11. ForeignBytes \subseteq Bytes
  BY DEF ForeignBytes
<1>12. header \in Headers /\ offset \in Nat
  <2>1. header \in Headers
    BY <1>7 DEF Headers
  <2>2. offset \in Nat
    BY <1>7
  <2> QED
    BY <2>1, <2>2
<1> DEFINE qt == IF good THEN <<luma, chroma>> ELSE None
           tables == IF good THEN "good" ELSE IF asked THEN "bad" ELSE "none"
           wellformed == v(5) < 64
<1>13. qt \in InlineTables \cup {None}
  <2> HIDE DEF luma, chroma, good
  <2>1. CASE good
    <3>1. luma \in Seq(Bytes) /\ chroma \in Seq(Bytes)
      BY <1>10, <1>11, <2>1, SeqMonotonic
    <3> QED
      BY <2>1, <3>1 DEF InlineTables
  <2>2. CASE ~good
    BY <2>2
  <2> QED
    BY <2>1, <2>2
<1>14. chunk \in Seq(Bytes)
  <2> HIDE DEF chunk
  <2> QED
    BY <1>9, <1>11, SeqMonotonic
<1>15. tables \in {"none", "good", "bad"} /\ wellformed \in BOOLEAN
  OBVIOUS
<1>16. p = [wellformed |-> wellformed, offset |-> offset, header |-> header, tables |-> tables,
            qt |-> qt, chunk |-> chunk, marker |-> marker]
  BY <1>8
<1> HIDE DEF qt, tables, wellformed, chunk, header, offset
<1>17. p \in Payloads
  BY <1>2, <1>12, <1>13, <1>14, <1>15, <1>16 DEF Payloads
<1>18. \A k \in 1 .. Len(p.chunk) : ForeignByte(p.chunk[k])
  <2>1. p.chunk = chunk
    BY <1>16
  <2>2. \A k \in 1 .. Len(chunk) : chunk[k] \in ForeignBytes
    BY <1>9, ElementOfSeq
  <2> QED
    BY <2>1, <2>2 DEF ForeignBytes, ForeignByte
<1> QED
  BY <1>17, <1>18 DEF p

-----------------------------------------------------------------------------
(* What mjpeg_rtp_feed does. *)

\* A reset leaves nothing of the frame but its header fields.
LEMMA ResetEmpties ==
    ASSUME NEW a \in Assemblers
    PROVE  /\ MjpegReset(a) \in Assemblers
           /\ MjpegReset(a).scan = <<>> /\ MjpegReset(a).inFrame = FALSE
<1> DEFINE r == MjpegReset(a)
<1>1. <<>> \in Seq(Bytes) /\ 0 \in Nat
  OBVIOUS
<1>2. r = [a EXCEPT !.scan = <<>>, !.inFrame = FALSE, !.expected = 0, !.qt = None]
  BY DEF MjpegReset
<1> HIDE DEF r
<1>3. r \in Assemblers
  BY <1>1, <1>2 DEF Assemblers
<1>4. r.scan = <<>> /\ r.inFrame = FALSE
  BY <1>2 DEF Assemblers
<1> QED
  BY <1>3, <1>4 DEF r

\* What a payload is appended to: nothing, at offset 0, or the data held.
LEMMA OpenedFacts ==
    ASSUME NEW a \in Assemblers, NEW p \in Payloads
    PROVE  /\ Opened(a, p) \in Assemblers
           /\ p.offset = 0 => /\ Opened(a, p).scan = <<>>
                              /\ Opened(a, p).header = p.header /\ Opened(a, p).qt = p.qt
           /\ p.offset # 0 => Opened(a, p) = a
<1> HIDE DEF Headers, InlineTables
<1>1. p.header \in Headers /\ p.qt \in InlineTables \cup {None}
  BY DEF Payloads
<1>2. CASE p.offset = 0
  <2>1. Opened(a, p) = [scan |-> <<>>, inFrame |-> TRUE, expected |-> 0, header |-> p.header,
                        qt |-> p.qt]
    BY <1>2 DEF Opened
  <2>2. <<>> \in Seq(Bytes) /\ 0 \in Nat
    OBVIOUS
  <2> QED
    BY <1>1, <1>2, <2>1, <2>2 DEF Assemblers
<1>3. CASE p.offset # 0
  BY <1>3 DEF Opened
<1> QED
  BY <1>2, <1>3

\* A payload refused gives up the frame in progress.
LEMMA RefusedFeed ==
    ASSUME NEW a \in Assemblers, NEW p, p.wellformed => p \in Payloads, ~Accepts(a, p)
    PROVE  /\ MjpegFeed(a, p) \in Assemblers
           /\ MjpegFeed(a, p).scan = <<>> /\ MjpegFeed(a, p).inFrame = FALSE
           /\ MjpegStatus(a, p) = "DROPPED"
<1>1. (IF p.wellformed THEN Opened(a, p) ELSE a) \in Assemblers
  BY OpenedFacts
<1>2. MjpegFeed(a, p) = MjpegReset(IF p.wellformed THEN Opened(a, p) ELSE a)
  BY DEF MjpegFeed
<1> QED
  BY <1>1, <1>2, ResetEmpties DEF MjpegStatus

\* A payload accepted is appended, in its place.
LEMMA AcceptedFeed ==
    ASSUME NEW a \in Assemblers, a.inFrame => a.expected = Len(a.scan),
           NEW p \in Payloads, Accepts(a, p)
    PROVE  LET b == MjpegFeed(a, p)
               base == Opened(a, p).scan
           IN  /\ b \in Assemblers
               /\ p.wellformed /\ p.offset \in Nat /\ Len(p.chunk) \in Nat
               /\ base \in Seq(Bytes) /\ Len(base) = p.offset
               /\ p.offset = 0 => p.tables # "bad" /\ b.header = p.header /\ b.qt = p.qt
               /\ p.offset # 0 => /\ a.inFrame /\ base = a.scan
                                  /\ b.header = a.header /\ b.qt = a.qt
               /\ b.scan \in Seq(Bytes) /\ Len(b.scan) = p.offset + Len(p.chunk)
               /\ Len(b.scan) <= BufCap
               /\ \A k \in 1 .. p.offset : b.scan[k] = base[k]
               /\ \A k \in 1 .. Len(p.chunk) : b.scan[p.offset + k] = p.chunk[k]
               /\ b.expected = Len(b.scan)
               /\ b.inFrame = ~p.marker
               /\ MjpegStatus(a, p) = IF p.marker THEN "FRAME_READY" ELSE "OK"
<1> DEFINE b == MjpegFeed(a, p)
           o == Opened(a, p)
           base == o.scan
           chunk == p.chunk
<1> HIDE DEF Headers, InlineTables
<1>1. /\ p.offset \in Nat /\ chunk \in Seq(Bytes) /\ Len(chunk) \in Nat /\ p.marker \in BOOLEAN
  BY LenProperties DEF Payloads
<1>2. p.wellformed /\ Continues(a, p) /\ Len(base) + Len(chunk) <= BufCap
  BY DEF Accepts, Fits
<1>3. /\ o \in Assemblers
      /\ p.offset = 0 => base = <<>> /\ o.header = p.header /\ o.qt = p.qt
      /\ p.offset # 0 => o = a
  BY OpenedFacts
<1>4. /\ p.offset = 0 => p.tables # "bad"
      /\ p.offset # 0 => a.inFrame /\ p.offset = a.expected
  BY <1>2 DEF Continues
<1>5. b = [o EXCEPT !.scan = @ \o p.chunk, !.expected = p.offset + Len(p.chunk),
                    !.inFrame = ~p.marker]
  BY DEF MjpegFeed
<1> HIDE DEF o, b
<1>6. base \in Seq(Bytes) /\ Len(base) \in Nat
  BY <1>3, LenProperties DEF Assemblers
<1>7. Len(base) = p.offset
  <2>1. CASE p.offset = 0
    <3>1. Len(<<>>) = 0
      OBVIOUS
    <3> QED
      BY <1>3, <2>1, <3>1
  <2>2. CASE p.offset # 0
    BY <1>3, <1>4, <2>2
  <2> QED
    BY <2>1, <2>2
<1>8. /\ b.scan = base \o chunk /\ b.expected = p.offset + Len(chunk) /\ b.inFrame = ~p.marker
      /\ b.header = o.header /\ b.qt = o.qt
  BY <1>3, <1>5 DEF Assemblers
<1> HIDE DEF base, chunk
<1>9. /\ b.scan \in Seq(Bytes)
      /\ Len(b.scan) = Len(base) + Len(chunk)
      /\ \A k \in 1 .. Len(base) : b.scan[k] = base[k]
      /\ \A k \in 1 .. Len(chunk) : b.scan[Len(base) + k] = chunk[k]
  BY <1>1, <1>6, <1>8, ConcatElements
<1>10. b \in Assemblers
  <2>1. b.inFrame \in BOOLEAN /\ b.expected \in Nat
    BY <1>1, <1>8
  <2> QED
    BY <1>3, <1>5, <1>9, <2>1 DEF Assemblers
<1>11. /\ p.offset = 0 => p.tables # "bad" /\ b.header = p.header /\ b.qt = p.qt
       /\ p.offset # 0 => /\ a.inFrame /\ base = a.scan
                          /\ b.header = a.header /\ b.qt = a.qt
  BY <1>3, <1>4, <1>8 DEF base
<1>12. b.expected = Len(b.scan) /\ Len(b.scan) = p.offset + Len(chunk) /\ Len(b.scan) <= BufCap
  BY <1>2, <1>7, <1>8, <1>9
<1>13. /\ \A k \in 1 .. p.offset : b.scan[k] = base[k]
       /\ \A k \in 1 .. Len(chunk) : b.scan[p.offset + k] = chunk[k]
  BY <1>7, <1>9
<1>14. MjpegStatus(a, p) = IF p.marker THEN "FRAME_READY" ELSE "OK"
  BY DEF MjpegStatus
<1> QED
  BY <1>1, <1>2, <1>6, <1>7, <1>8, <1>9, <1>10, <1>11, <1>12, <1>13, <1>14 DEF b, o, base, chunk

\* The data before a fragment that is accepted.
Base(a, i) == IF i = 1 THEN <<>> ELSE a.scan

\* A fragment is accepted when it starts its frame or continues the data held
\* where that ends, and there is room for it.
LEMMA AcceptsFragment ==
    ASSUME NEW a \in Assemblers, a.inFrame => a.expected = Len(a.scan),
           NEW f \in DOMAIN Frames, NEW i \in Fragments(f)
    PROVE  Accepts(a, Fragment(f, i)) <=>
              /\ Frames[f].type < 64
              /\ i = 1 => Frames[f].tables # "bad"
              /\ i # 1 => a.inFrame /\ Len(a.scan) = Cuts(f)[i]
              /\ Cuts(f)[i + 1] <= BufCap
<1> DEFINE p == Fragment(f, i)
<1>1. /\ p.wellformed = (Frames[f].type < 64) /\ p.offset = Cuts(f)[i] /\ p.chunk = Chunk(f, i)
      /\ i = 1 => p.tables = Frames[f].tables
  BY DEF Fragment
<1>2. /\ Cuts(f)[i] \in Nat /\ Cuts(f)[i + 1] \in Nat
      /\ Cuts(f)[i] = 0 <=> i = 1
      /\ Len(Chunk(f, i)) = Cuts(f)[i + 1] - Cuts(f)[i]
  BY FragmentFacts
<1> HIDE DEF p
<1>3. Opened(a, p).scan = Base(a, i)
  BY <1>1, <1>2 DEF Opened, Base
<1>4. Continues(a, p) <=> /\ i = 1 => Frames[f].tables # "bad"
                          /\ i # 1 => a.inFrame /\ Len(a.scan) = Cuts(f)[i]
  <2>1. CASE i = 1
    BY <1>1, <1>2, <2>1 DEF Continues
  <2>2. CASE i # 1
    BY <1>1, <1>2, <2>2 DEF Continues
  <2> QED
    BY <2>1, <2>2
<1>5. ASSUME Continues(a, p) PROVE Len(Base(a, i)) = Cuts(f)[i]
  <2>1. CASE i = 1
    <3>1. Len(<<>>) = 0
      OBVIOUS
    <3> QED
      BY <1>2, <2>1, <3>1 DEF Base
  <2>2. CASE i # 1
    BY <1>4, <1>5, <2>2 DEF Base
  <2> QED
    BY <2>1, <2>2
<1>6. Continues(a, p) => (Fits(a, p) <=> Cuts(f)[i + 1] <= BufCap)
  BY <1>1, <1>2, <1>3, <1>5 DEF Fits
<1> QED
  BY <1>1, <1>4, <1>6 DEF Accepts, p

\* A fragment accepted is appended, and it is the frame's next piece.
LEMMA AcceptedFragment ==
    ASSUME NEW a \in Assemblers, a.inFrame => a.expected = Len(a.scan),
           NEW f \in DOMAIN Frames, NEW i \in Fragments(f), Accepts(a, Fragment(f, i))
    PROVE  LET b == MjpegFeed(a, Fragment(f, i)) IN
           /\ b \in Assemblers
           /\ Len(Base(a, i)) = Cuts(f)[i]
           /\ Len(b.scan) = Cuts(f)[i + 1] /\ Len(b.scan) <= BufCap
           /\ \A k \in 1 .. Cuts(f)[i] : b.scan[k] = Base(a, i)[k]
           /\ \A k \in Cuts(f)[i] + 1 .. Cuts(f)[i + 1] : b.scan[k] = <<"scan", f, k - 1>>
           /\ b.expected = Cuts(f)[i + 1]
           /\ b.inFrame <=> i + 1 # Len(Cuts(f))
           /\ i = 1 => b.header = Header(f) /\ b.qt = Inline(f)
           /\ i # 1 => a.inFrame /\ b.header = a.header /\ b.qt = a.qt
           /\ MjpegStatus(a, Fragment(f, i)) =
                 IF i + 1 = Len(Cuts(f)) THEN "FRAME_READY" ELSE "OK"
<1> DEFINE p == Fragment(f, i)
           b == MjpegFeed(a, p)
           from == Cuts(f)[i]
           to == Cuts(f)[i + 1]
           chunk == Chunk(f, i)
<1>1. /\ p.offset = from /\ p.chunk = chunk /\ p.header = Header(f)
      /\ p.marker = (i + 1 = Len(Cuts(f)))
      /\ i = 1 => p.qt = Inline(f)
  BY DEF Fragment
<1>2. /\ from \in Nat /\ to \in Nat /\ (from = 0 <=> i = 1)
      /\ Len(chunk) = to - from
      /\ \A k \in 1 .. to - from : chunk[k] = <<"scan", f, from + k - 1>>
  BY FragmentFacts
<1>3. p \in Payloads /\ Accepts(a, p)
  BY FragmentIsPayload
<1> DEFINE base == Opened(a, p).scan
<1>4. /\ b \in Assemblers
      /\ Len(base) = p.offset
      /\ p.offset = 0 => b.header = p.header /\ b.qt = p.qt
      /\ p.offset # 0 => a.inFrame /\ base = a.scan /\ b.header = a.header /\ b.qt = a.qt
      /\ Len(b.scan) = p.offset + Len(p.chunk)
      /\ Len(b.scan) <= BufCap
      /\ \A k \in 1 .. p.offset : b.scan[k] = base[k]
      /\ \A k \in 1 .. Len(p.chunk) : b.scan[p.offset + k] = p.chunk[k]
      /\ b.expected = Len(b.scan)
      /\ b.inFrame = ~p.marker
      /\ MjpegStatus(a, p) = IF p.marker THEN "FRAME_READY" ELSE "OK"
  <2> HIDE DEF p
  <2> QED
    BY <1>3, AcceptedFeed
<1>5. base = Base(a, i)
  <2>1. CASE i = 1
    <3>1. p.offset = 0
      BY <1>1, <1>2, <2>1
    <3>2. base = <<>>
      BY <1>3, <3>1, OpenedFacts
    <3> QED
      BY <2>1, <3>2 DEF Base
  <2>2. CASE i # 1
    BY <1>1, <1>2, <1>4, <2>2 DEF Base
  <2> QED
    BY <2>1, <2>2
<1> HIDE DEF p, b, from, to, chunk, base
<1>6. Len(b.scan) = to
  BY <1>1, <1>2, <1>4
<1>7. ASSUME NEW k \in from + 1 .. to PROVE b.scan[k] = <<"scan", f, k - 1>>
  <2>1. k - from \in 1 .. to - from /\ from + (k - from) = k /\ from + (k - from) - 1 = k - 1
    BY <1>2
  <2>2. b.scan[from + (k - from)] = chunk[k - from]
    BY <1>1, <1>2, <1>4, <2>1
  <2>3. chunk[k - from] = <<"scan", f, from + (k - from) - 1>>
    BY <1>2, <2>1
  <2> QED
    BY <2>1, <2>2, <2>3
<1>8. /\ i = 1 => b.header = Header(f) /\ b.qt = Inline(f)
      /\ i # 1 => a.inFrame /\ b.header = a.header /\ b.qt = a.qt
  BY <1>1, <1>2, <1>4
<1>9. /\ Len(Base(a, i)) = from /\ \A k \in 1 .. from : b.scan[k] = Base(a, i)[k]
  BY <1>1, <1>4, <1>5
<1>10. /\ b.inFrame <=> i + 1 # Len(Cuts(f))
       /\ MjpegStatus(a, p) = IF i + 1 = Len(Cuts(f)) THEN "FRAME_READY" ELSE "OK"
  BY <1>1, <1>4
<1> QED
  BY <1>4, <1>6, <1>7, <1>8, <1>9, <1>10 DEF b, p, from, to

-----------------------------------------------------------------------------
(* What jpeg_synth_build does. *)

\* The first k segments of a file.
Prefix(file, k) == [i \in 1 .. k |-> file[i]]

\* A writer to which n bytes have gone, or for which they were too many.
Writer(w, cap, n, written) ==
    IF n <= cap THEN w = [off |-> n, cap |-> cap, ok |-> TRUE, written |-> written]
    ELSE \E off, some : w = [off |-> off, cap |-> cap, ok |-> FALSE, written |-> some]

\* One segment more.
LEMMA PrefixGrows ==
    ASSUME NEW S, NEW file \in Seq(S), NEW k \in Nat, k + 1 <= Len(file)
    PROVE  Append(Prefix(file, k), file[k + 1]) = Prefix(file, k + 1)
<1> DEFINE p == Prefix(file, k)
           q == Prefix(file, k + 1)
           x == file[k + 1]
<1>1. \A i \in 1 .. k + 1 : file[i] \in S
  <2>1. SUFFICES ASSUME NEW i \in 1 .. k + 1 PROVE file[i] \in S
    OBVIOUS
  <2>2. i \in 1 .. Len(file)
    BY LenProperties
  <2> QED
    BY <2>2, ElementOfSeq
<1>2. p \in Seq(S) /\ Len(p) = k /\ q \in Seq(S) /\ Len(q) = k + 1 /\ x \in S
  BY <1>1 DEF Prefix
<1>3. /\ \A i \in 1 .. k : p[i] = q[i]
      /\ q[k + 1] = x
  BY DEF Prefix
<1> HIDE DEF p, q, x
<1>4. /\ Append(p, x) \in Seq(S) /\ Len(Append(p, x)) = Len(p) + 1
      /\ \A i \in 1 .. Len(p) : Append(p, x)[i] = p[i]
      /\ Append(p, x)[Len(p) + 1] = x
  BY <1>2, AppendProperties
<1>5. \A i \in 1 .. k + 1 : i \in 1 .. k \/ i = k + 1
  OBVIOUS
<1>6. \A i \in 1 .. k + 1 : Append(p, x)[i] = q[i]
  BY <1>2, <1>3, <1>4, <1>5
<1>7. Append(p, x) = q
  BY <1>2, <1>4, <1>6, SeqEqual
<1> QED
  BY <1>7 DEF p, q, x

\* A segment is written or the writer fails; once it failed it is failed.
LEMMA WriteNext ==
    ASSUME NEW cap \in Nat, NEW S, NEW file \in Seq(S), NEW segment,
           NEW k \in Nat, NEW l \in Nat, l = k + 1, l <= Len(file), file[l] = segment,
           NEW n \in Nat, NEW m \in Nat, segment.len \in Nat, m = n + segment.len,
           NEW w, Writer(w, cap, n, Prefix(file, k))
    PROVE  Writer(Write(w, segment), cap, m, Prefix(file, l))
<1> DEFINE v == Write(w, segment)
<1>1. Append(Prefix(file, k), segment) = Prefix(file, l)
  BY PrefixGrows
<1>2. CASE m <= cap
  <2>1. n <= cap
    BY <1>2
  <2>2. w = [off |-> n, cap |-> cap, ok |-> TRUE, written |-> Prefix(file, k)]
    BY <2>1 DEF Writer
  <2>3. v = [off |-> m, cap |-> cap, ok |-> TRUE, written |-> Prefix(file, l)]
    BY <1>1, <1>2, <2>2 DEF Write
  <2> QED
    BY <1>2, <2>3 DEF Writer
<1>3. CASE ~(m <= cap)
  <2>1. \E off, some : v = [off |-> off, cap |-> cap, ok |-> FALSE, written |-> some]
    <3>1. CASE n <= cap
      <4>1. w = [off |-> n, cap |-> cap, ok |-> TRUE, written |-> Prefix(file, k)]
        BY <3>1 DEF Writer
      <4>2. v = [off |-> n, cap |-> cap, ok |-> FALSE, written |-> Prefix(file, k)]
        BY <1>3, <4>1 DEF Write
      <4> QED
        BY <4>2
    <3>2. CASE ~(n <= cap)
      <4>1. PICK off, some : w = [off |-> off, cap |-> cap, ok |-> FALSE, written |-> some]
        BY <3>2 DEF Writer
      <4>2. v = [off |-> off, cap |-> cap, ok |-> FALSE, written |-> some]
        BY <4>1 DEF Write
      <4> QED
        BY <4>2
    <3> QED
      BY <3>1, <3>2
  <2> QED
    BY <1>3, <2>1 DEF Writer
<1> QED
  BY <1>2, <1>3

\* The segments of the file of a frame.
FileOf(in) ==
    << Segment("SOI", 2, <<>>),
       Segment("DQT", 69, <<0, Tables(in)[1]>>), Segment("DQT", 69, <<1, Tables(in)[2]>>),
       Segment("SOF0", 19, <<in.size, Subsampling(in.type)>>),
       Segment("DHT", 33, <<0>>), Segment("DHT", 183, <<16>>),
       Segment("DHT", 33, <<1>>), Segment("DHT", 183, <<17>>),
       Segment("SOS", 14, <<>>), Segment("scan", Len(in.scan), in.scan),
       Segment("EOI", 2, <<>>) >>

\* The whole file, 607 bytes longer than the scan data, or a refusal, if the
\* frame's type is unknown or the file does not fit; for every input and every
\* size of the buffer (jpeg_synth.c:192-235).
THEOREM WholeFileOrRefusal ==
    ASSUME NEW cap \in Nat, NEW in, Len(in.scan) \in Nat
    PROVE  JpegSynthBuild(in, cap) =
              IF in.type \in {0, 1} /\ Len(in.scan) + 607 <= cap
              THEN [returned |-> Len(in.scan) + 607, file |-> FileOf(in)]
              ELSE Refusal
<1> DEFINE n    == Len(in.scan)
           a    == Segment("SOI", 2, <<>>)
           b    == Segment("DQT", 69, <<0, Tables(in)[1]>>)
           c    == Segment("DQT", 69, <<1, Tables(in)[2]>>)
           d    == Segment("SOF0", 19, <<in.size, Subsampling(in.type)>>)
           e    == Segment("DHT", 33, <<0>>)
           f    == Segment("DHT", 183, <<16>>)
           g    == Segment("DHT", 33, <<1>>)
           h    == Segment("DHT", 183, <<17>>)
           i    == Segment("SOS", 14, <<>>)
           j    == Segment("scan", n, in.scan)
           k    == Segment("EOI", 2, <<>>)
           w0   == [off |-> 0, cap |-> cap, ok |-> TRUE, written |-> <<>>]
           w1   == Write(w0, a)
           w2   == Write(w1, b)
           w3   == Write(w2, c)
           w4   == Write(w3, d)
           w5   == Write(w4, e)
           w6   == Write(w5, f)
           w7   == Write(w6, g)
           w8   == Write(w7, h)
           w9   == Write(w8, i)
           w10  == Write(w9, j)
           w11  == Write(w10, k)
           file == <<a, b, c, d, e, f, g, h, i, j, k>>
           S    == {a, b, c, d, e, f, g, h, i, j, k}
<1>1. Written(in, cap) = w11 /\ FileOf(in) = file
  BY DEF Written, EmitDqt, EmitSof0, EmitDht, EmitSos, FileOf
<1>2. /\ a.len = 2 /\ b.len = 69 /\ c.len = 69 /\ d.len = 19 /\ e.len = 33 /\ f.len = 183
      /\ g.len = 33 /\ h.len = 183 /\ i.len = 14 /\ j.len = n /\ k.len = 2 /\ n \in Nat
  BY DEF Segment
<1> HIDE DEF n, a, b, c, d, e, f, g, h, i, j, k
<1>3. /\ file \in Seq(S) /\ Len(file) = 11
      /\ file[1] = a /\ file[2] = b /\ file[3] = c /\ file[4] = d /\ file[5] = e /\ file[6] = f
      /\ file[7] = g /\ file[8] = h /\ file[9] = i /\ file[10] = j /\ file[11] = k
  OBVIOUS
<1> HIDE DEF file, S
<1>4. Prefix(file, 0) = <<>> /\ Prefix(file, 11) = file
  BY <1>3 DEF Prefix
<1>5. Writer(w0, cap, 0, Prefix(file, 0))
  <2>1. 0 <= cap /\ w0.written = Prefix(file, 0)
    BY <1>4
  <2> QED
    BY <2>1 DEF Writer
<1> HIDE DEF w0
<1>6. Writer(w1, cap, 2, Prefix(file, 1))
  <2> DEFINE before == 0
             after  == 2
  <2>1. before \in Nat /\ after \in Nat /\ a.len \in Nat /\ after = before + a.len
    BY <1>2
  <2>2. 0 \in Nat /\ 1 \in Nat /\ 1 = 0 + 1 /\ 1 <= Len(file) /\ file[1] = a
    BY <1>3
  <2>3. file \in Seq(S) /\ Writer(w0, cap, before, Prefix(file, 0))
    BY <1>3, <1>5
  <2> HIDE DEF before, after
  <2>4. Writer(Write(w0, a), cap, after, Prefix(file, 1))
    BY <2>1, <2>2, <2>3, WriteNext
  <2> QED
    BY <2>4 DEF after
<1> HIDE DEF w1
<1>7. Writer(w2, cap, 71, Prefix(file, 2))
  <2> DEFINE before == 2
             after  == 71
  <2>1. before \in Nat /\ after \in Nat /\ b.len \in Nat /\ after = before + b.len
    BY <1>2
  <2>2. 1 \in Nat /\ 2 \in Nat /\ 2 = 1 + 1 /\ 2 <= Len(file) /\ file[2] = b
    BY <1>3
  <2>3. file \in Seq(S) /\ Writer(w1, cap, before, Prefix(file, 1))
    BY <1>3, <1>6
  <2> HIDE DEF before, after
  <2>4. Writer(Write(w1, b), cap, after, Prefix(file, 2))
    BY <2>1, <2>2, <2>3, WriteNext
  <2> QED
    BY <2>4 DEF after
<1> HIDE DEF w2
<1>8. Writer(w3, cap, 140, Prefix(file, 3))
  <2> DEFINE before == 71
             after  == 140
  <2>1. before \in Nat /\ after \in Nat /\ c.len \in Nat /\ after = before + c.len
    BY <1>2
  <2>2. 2 \in Nat /\ 3 \in Nat /\ 3 = 2 + 1 /\ 3 <= Len(file) /\ file[3] = c
    BY <1>3
  <2>3. file \in Seq(S) /\ Writer(w2, cap, before, Prefix(file, 2))
    BY <1>3, <1>7
  <2> HIDE DEF before, after
  <2>4. Writer(Write(w2, c), cap, after, Prefix(file, 3))
    BY <2>1, <2>2, <2>3, WriteNext
  <2> QED
    BY <2>4 DEF after
<1> HIDE DEF w3
<1>9. Writer(w4, cap, 159, Prefix(file, 4))
  <2> DEFINE before == 140
             after  == 159
  <2>1. before \in Nat /\ after \in Nat /\ d.len \in Nat /\ after = before + d.len
    BY <1>2
  <2>2. 3 \in Nat /\ 4 \in Nat /\ 4 = 3 + 1 /\ 4 <= Len(file) /\ file[4] = d
    BY <1>3
  <2>3. file \in Seq(S) /\ Writer(w3, cap, before, Prefix(file, 3))
    BY <1>3, <1>8
  <2> HIDE DEF before, after
  <2>4. Writer(Write(w3, d), cap, after, Prefix(file, 4))
    BY <2>1, <2>2, <2>3, WriteNext
  <2> QED
    BY <2>4 DEF after
<1> HIDE DEF w4
<1>10. Writer(w5, cap, 192, Prefix(file, 5))
  <2> DEFINE before == 159
             after  == 192
  <2>1. before \in Nat /\ after \in Nat /\ e.len \in Nat /\ after = before + e.len
    BY <1>2
  <2>2. 4 \in Nat /\ 5 \in Nat /\ 5 = 4 + 1 /\ 5 <= Len(file) /\ file[5] = e
    BY <1>3
  <2>3. file \in Seq(S) /\ Writer(w4, cap, before, Prefix(file, 4))
    BY <1>3, <1>9
  <2> HIDE DEF before, after
  <2>4. Writer(Write(w4, e), cap, after, Prefix(file, 5))
    BY <2>1, <2>2, <2>3, WriteNext
  <2> QED
    BY <2>4 DEF after
<1> HIDE DEF w5
<1>11. Writer(w6, cap, 375, Prefix(file, 6))
  <2> DEFINE before == 192
             after  == 375
  <2>1. before \in Nat /\ after \in Nat /\ f.len \in Nat /\ after = before + f.len
    BY <1>2
  <2>2. 5 \in Nat /\ 6 \in Nat /\ 6 = 5 + 1 /\ 6 <= Len(file) /\ file[6] = f
    BY <1>3
  <2>3. file \in Seq(S) /\ Writer(w5, cap, before, Prefix(file, 5))
    BY <1>3, <1>10
  <2> HIDE DEF before, after
  <2>4. Writer(Write(w5, f), cap, after, Prefix(file, 6))
    BY <2>1, <2>2, <2>3, WriteNext
  <2> QED
    BY <2>4 DEF after
<1> HIDE DEF w6
<1>12. Writer(w7, cap, 408, Prefix(file, 7))
  <2> DEFINE before == 375
             after  == 408
  <2>1. before \in Nat /\ after \in Nat /\ g.len \in Nat /\ after = before + g.len
    BY <1>2
  <2>2. 6 \in Nat /\ 7 \in Nat /\ 7 = 6 + 1 /\ 7 <= Len(file) /\ file[7] = g
    BY <1>3
  <2>3. file \in Seq(S) /\ Writer(w6, cap, before, Prefix(file, 6))
    BY <1>3, <1>11
  <2> HIDE DEF before, after
  <2>4. Writer(Write(w6, g), cap, after, Prefix(file, 7))
    BY <2>1, <2>2, <2>3, WriteNext
  <2> QED
    BY <2>4 DEF after
<1> HIDE DEF w7
<1>13. Writer(w8, cap, 591, Prefix(file, 8))
  <2> DEFINE before == 408
             after  == 591
  <2>1. before \in Nat /\ after \in Nat /\ h.len \in Nat /\ after = before + h.len
    BY <1>2
  <2>2. 7 \in Nat /\ 8 \in Nat /\ 8 = 7 + 1 /\ 8 <= Len(file) /\ file[8] = h
    BY <1>3
  <2>3. file \in Seq(S) /\ Writer(w7, cap, before, Prefix(file, 7))
    BY <1>3, <1>12
  <2> HIDE DEF before, after
  <2>4. Writer(Write(w7, h), cap, after, Prefix(file, 8))
    BY <2>1, <2>2, <2>3, WriteNext
  <2> QED
    BY <2>4 DEF after
<1> HIDE DEF w8
<1>14. Writer(w9, cap, 605, Prefix(file, 9))
  <2> DEFINE before == 591
             after  == 605
  <2>1. before \in Nat /\ after \in Nat /\ i.len \in Nat /\ after = before + i.len
    BY <1>2
  <2>2. 8 \in Nat /\ 9 \in Nat /\ 9 = 8 + 1 /\ 9 <= Len(file) /\ file[9] = i
    BY <1>3
  <2>3. file \in Seq(S) /\ Writer(w8, cap, before, Prefix(file, 8))
    BY <1>3, <1>13
  <2> HIDE DEF before, after
  <2>4. Writer(Write(w8, i), cap, after, Prefix(file, 9))
    BY <2>1, <2>2, <2>3, WriteNext
  <2> QED
    BY <2>4 DEF after
<1> HIDE DEF w9
<1>15. Writer(w10, cap, 605 + n, Prefix(file, 10))
  <2> DEFINE before == 605
             after  == 605 + n
  <2>1. before \in Nat /\ after \in Nat /\ j.len \in Nat /\ after = before + j.len
    BY <1>2
  <2>2. 9 \in Nat /\ 10 \in Nat /\ 10 = 9 + 1 /\ 10 <= Len(file) /\ file[10] = j
    BY <1>3
  <2>3. file \in Seq(S) /\ Writer(w9, cap, before, Prefix(file, 9))
    BY <1>3, <1>14
  <2> HIDE DEF before, after
  <2>4. Writer(Write(w9, j), cap, after, Prefix(file, 10))
    BY <2>1, <2>2, <2>3, WriteNext
  <2> QED
    BY <2>4 DEF after
<1> HIDE DEF w10
<1>16. Writer(w11, cap, 607 + n, Prefix(file, 11))
  <2> DEFINE before == 605 + n
             after  == 607 + n
  <2>1. before \in Nat /\ after \in Nat /\ k.len \in Nat /\ after = before + k.len
    BY <1>2
  <2>2. 10 \in Nat /\ 11 \in Nat /\ 11 = 10 + 1 /\ 11 <= Len(file) /\ file[11] = k
    BY <1>3
  <2>3. file \in Seq(S) /\ Writer(w10, cap, before, Prefix(file, 10))
    BY <1>3, <1>15
  <2> HIDE DEF before, after
  <2>4. Writer(Write(w10, k), cap, after, Prefix(file, 11))
    BY <2>1, <2>2, <2>3, WriteNext
  <2> QED
    BY <2>4 DEF after
<1> HIDE DEF w11
<1>17. 607 + n = n + 607
  BY <1>2
<1>18. IF n + 607 <= cap THEN w11.ok /\ w11.off = n + 607 /\ w11.written = file ELSE ~w11.ok
  BY <1>4, <1>16, <1>17 DEF Writer
<1> QED
  BY <1>1, <1>18 DEF JpegSynthBuild, n

\* The file returned fits the buffer, whatever the input.
LEMMA JpegFits ==
    ASSUME NEW cap \in Nat, NEW in, Len(in.scan) \in Nat
    PROVE  JpegSynthBuild(in, cap).returned <= cap
  BY WholeFileOrRefusal DEF Refusal

-----------------------------------------------------------------------------
(* The steps. *)

\* A packet is a fragment or a stray, and fed; nothing else reaches the
\* assembler, but it may be reset.
LEMMA StepCases ==
    ASSUME TypeOK, [Next]_vars
    PROVE  \/ \E f \in DOMAIN Frames : \E i \in Fragments(f) :
                 /\ asm' = MjpegFeed(asm, Fragment(f, i))
                 /\ status' = MjpegStatus(asm, Fragment(f, i))
                 /\ last' = <<f, i>>
                 /\ run' = IF i = 1 THEN 1
                           ELSE IF last = <<f, i - 1>> /\ run > 0 THEN i ELSE 0
           \/ \E d \in Strays :
                 /\ RtpAccepts(d)
                 /\ asm' = MjpegFeed(asm, Foreign(d))
                 /\ status' = MjpegStatus(asm, Foreign(d))
                 /\ last' = None /\ run' = 0
           \/ asm' = MjpegReset(asm) /\ status' = "none" /\ last' = None /\ run' = 0
           \/ UNCHANGED <<asm, status, last, run>>
<1>1. ASSUME NEW u \in Sent, NEW wrap \in Wraps, ReceiveFragment(u[1], u[2], wrap)
      PROVE  \E f \in DOMAIN Frames : \E i \in Fragments(f) :
                 /\ asm' = MjpegFeed(asm, Fragment(f, i))
                 /\ status' = MjpegStatus(asm, Fragment(f, i))
                 /\ last' = <<f, i>>
                 /\ run' = IF i = 1 THEN 1
                           ELSE IF last = <<f, i - 1>> /\ run > 0 THEN i ELSE 0
  <2>0. PICK f \in DOMAIN Frames : \E i \in Fragments(f) : u = <<f, i>>
    BY DEF Sent
  <2>1. PICK i \in Fragments(f) : u = <<f, i>>
    BY <2>0
  <2>2. ReceiveFragment(f, i, wrap)
    BY <1>1, <2>1
  <2> DEFINE d == RtpBuild(wrap, Payload(f, i), i + 1 = Len(Frames[f].cuts))
  <2>3. RtpAccepts(d) /\ ReadPayload(RtpPayload(d), d.fixed.marker) = Fragment(f, i)
    BY ReceivedFragment
  <2>4. Receive(d)
    BY <2>2 DEF ReceiveFragment
  <2> HIDE DEF d
  <2>5. asm' = MjpegFeed(asm, Fragment(f, i)) /\ status' = MjpegStatus(asm, Fragment(f, i))
    BY <2>3, <2>4 DEF Receive
  <2> QED
    BY <2>2, <2>5 DEF ReceiveFragment
<1>2. ASSUME NEW d \in Strays, ReceiveStray(d)
      PROVE  \/ /\ RtpAccepts(d)
                /\ asm' = MjpegFeed(asm, Foreign(d))
                /\ status' = MjpegStatus(asm, Foreign(d))
                /\ last' = None /\ run' = 0
             \/ UNCHANGED <<asm, status, last, run>>
  <2>1. CASE RtpAccepts(d)
    BY <1>2, <2>1 DEF ReceiveStray, Receive, Foreign
  <2>2. CASE ~RtpAccepts(d)
    BY <1>2, <2>2 DEF ReceiveStray, Receive
  <2> QED
    BY <2>1, <2>2
<1>3. ASSUME Reset
      PROVE  asm' = MjpegReset(asm) /\ status' = "none" /\ last' = None /\ run' = 0
  BY <1>3 DEF Reset
<1>4. CASE UNCHANGED vars
  BY <1>4 DEF vars
<1> QED
  BY <1>1, <1>2, <1>3, <1>4 DEF Next

-----------------------------------------------------------------------------
(* The invariant. *)

\* The picture is made in the same step as its frame is completed.
LEMMA PictureStep ==
    ASSUME Pictured, [Next]_vars
    PROVE  Pictured'
<1>1. ASSUME NEW d, Receive(d) PROVE Pictured'
  <2>1. CASE RtpAccepts(d)
    BY <1>1, <2>1 DEF Receive, Pictured
  <2>2. CASE ~RtpAccepts(d)
    BY <1>1, <2>2 DEF Receive, Pictured
  <2> QED
    BY <2>1, <2>2
<1>2. ASSUME NEW u \in Sent, NEW wrap \in Wraps, ReceiveFragment(u[1], u[2], wrap)
      PROVE  Pictured'
  BY <1>1, <1>2 DEF ReceiveFragment
<1>3. ASSUME NEW d \in Strays, ReceiveStray(d) PROVE Pictured'
  BY <1>1, <1>3 DEF ReceiveStray
<1>4. ASSUME Reset PROVE Pictured'
  BY <1>4 DEF Reset, Pictured
<1>5. CASE UNCHANGED vars
  BY <1>5 DEF vars, Pictured
<1> QED
  BY <1>2, <1>3, <1>4, <1>5 DEF Next

\* What a step has to keep, but for what its datagram says of the frames.
HeldRight ==
    /\ asm \in Assemblers
    /\ Len(asm.scan) <= BufCap
    /\ asm.inFrame => asm.expected = Len(asm.scan)
    /\ Held /\ ScanHangsTogether

\* Nothing is claimed of an assembler without data and out of frame.
LEMMA EmptyHangsTogether ==
    ASSUME asm'.scan = <<>>, asm'.inFrame = FALSE,
           asm' \in Assemblers, status' \in {"none", "DROPPED"}
    PROVE  HeldRight'
<1>1. Len(asm'.scan) = 0 /\ DOMAIN asm'.scan = {}
  BY LenProperties DEF Assemblers
<1>2. Len(asm'.scan) <= BufCap
  BY <1>1, BufCapAssumption
<1>3. Held'
  BY <1>1 DEF Held
<1>4. CameraDataInPlace'
  BY <1>1 DEF CameraDataInPlace
<1>5. CompletedByCamera'
  BY DEF CompletedByCamera
<1>6. HeaderOfFirstByte'
  BY DEF HeaderOfFirstByte
<1> QED
  BY <1>2, <1>3, <1>4, <1>5, <1>6 DEF HeldRight, ScanHangsTogether

\* What is appended to is a frame in progress, all of whose bytes keep their
\* place, none of them the last one of a frame.
LEMMA KeptBytes ==
    ASSUME IInv, asm.inFrame, NEW k \in DOMAIN asm.scan
    PROVE  /\ CameraByte(asm.scan[k], k) \/ ForeignByte(asm.scan[k])
           /\ IsCameras(asm.scan[k]) => asm.scan[k][3] = k - 1 /\ k # Size(asm.scan[k][2])
<1>1. status = "OK"
  BY DEF IInv, Held
<1>2. CameraByte(asm.scan[k], k) \/ ForeignByte(asm.scan[k])
  BY DEF IInv, Held
<1>3. CameraDataInPlace
  BY DEF IInv, ScanHangsTogether
<1> QED
  BY <1>1, <1>2, <1>3 DEF CameraDataInPlace

\* The data of a frame up to a place.
LEMMA PrefixFacts ==
    ASSUME NEW f \in DOMAIN Frames, NEW n \in 0 .. Size(f)
    PROVE  /\ SubSeq(Scan(f), 1, n) \in Seq(Bytes)
           /\ Len(SubSeq(Scan(f), 1, n)) = n
           /\ \A k \in 1 .. n : SubSeq(Scan(f), 1, n)[k] = <<"scan", f, k - 1>>
<1>1. /\ Scan(f) \in Seq(Bytes) /\ Len(Scan(f)) = Size(f) /\ Size(f) \in Nat
      /\ \A k \in 1 .. Size(f) : Scan(f)[k] = <<"scan", f, k - 1>>
  BY ScanFacts, FrameFacts
<1>2. \A k \in 1 .. n : Scan(f)[k] \in Bytes
  BY <1>1, ElementOfSeq
<1>3. n \in Int /\ 1 \in Int /\ n - 1 + 1 = n
  OBVIOUS
<1> DEFINE s == SubSeq(Scan(f), 1, n)
<1>4. s \in Seq(Bytes) /\ Len(s) = n
  <2>1. s \in Seq(Bytes) /\ Len(s) = IF 1 <= n THEN n - 1 + 1 ELSE 0
    BY <1>2, <1>3, SubSeqProperties
  <2> QED
    BY <2>1
<1>5. \A k \in 1 .. n - 1 + 1 : s[k] = Scan(f)[1 + k - 1]
  BY <1>2, <1>3, SubSeqProperties
<1>6. ASSUME NEW k \in 1 .. n PROVE s[k] = <<"scan", f, k - 1>>
  <2>1. k \in 1 .. n - 1 + 1 /\ 1 + k - 1 = k /\ k \in 1 .. Size(f)
    BY <1>1
  <2> QED
    BY <1>1, <1>5, <2>1
<1> QED
  BY <1>4, <1>6

\* A fragment accepted lengthens the frame it belongs to, or starts it.
LEMMA AcceptedStep ==
    ASSUME IInv, NEW f \in DOMAIN Frames, NEW i \in Fragments(f),
           Accepts(asm, Fragment(f, i)),
           asm' = MjpegFeed(asm, Fragment(f, i)),
           status' = MjpegStatus(asm, Fragment(f, i)),
           last' = <<f, i>>,
           run' = IF i = 1 THEN 1 ELSE IF last = <<f, i - 1>> /\ run > 0 THEN i ELSE 0
    PROVE  HeldRight' /\ ComingIn'
<1> DEFINE from == Cuts(f)[i]
           to == Cuts(f)[i + 1]
           s == asm'.scan
<1>1. /\ asm \in Assemblers
      /\ asm.inFrame => asm.expected = Len(asm.scan)
  BY DEF IInv, TypeOK
<1>2. /\ asm' \in Assemblers
      /\ Len(s) = to /\ Len(s) <= BufCap
      /\ \A k \in 1 .. from : s[k] = Base(asm, i)[k]
      /\ \A k \in from + 1 .. to : s[k] = <<"scan", f, k - 1>>
      /\ asm'.expected = to
      /\ asm'.inFrame <=> i + 1 # Len(Cuts(f))
      /\ i = 1 => asm'.header = Header(f) /\ asm'.qt = Inline(f)
      /\ i # 1 => asm.inFrame /\ asm'.header = asm.header /\ asm'.qt = asm.qt
      /\ status' = IF i + 1 = Len(Cuts(f)) THEN "FRAME_READY" ELSE "OK"
  <2> DEFINE b == MjpegFeed(asm, Fragment(f, i))
  <2>1. /\ b \in Assemblers
        /\ Len(b.scan) = Cuts(f)[i + 1] /\ Len(b.scan) <= BufCap
        /\ \A k \in 1 .. Cuts(f)[i] : b.scan[k] = Base(asm, i)[k]
        /\ \A k \in Cuts(f)[i] + 1 .. Cuts(f)[i + 1] : b.scan[k] = <<"scan", f, k - 1>>
        /\ b.expected = Cuts(f)[i + 1]
        /\ b.inFrame <=> i + 1 # Len(Cuts(f))
        /\ i = 1 => b.header = Header(f) /\ b.qt = Inline(f)
        /\ i # 1 => asm.inFrame /\ b.header = asm.header /\ b.qt = asm.qt
        /\ MjpegStatus(asm, Fragment(f, i)) =
              IF i + 1 = Len(Cuts(f)) THEN "FRAME_READY" ELSE "OK"
    <3>1. asm \in Assemblers
      BY <1>1
    <3>2. asm.inFrame => asm.expected = Len(asm.scan)
      BY <1>1
    <3>3. Accepts(asm, Fragment(f, i))
      OBVIOUS
    <3> HIDE DEF b
    <3> QED
      BY <3>1, <3>2, <3>3, AcceptedFragment DEF b
  <2>2. asm' = b
    OBVIOUS
  <2> HIDE DEF b
  <2> QED
    BY <2>1, <2>2
<1>3. /\ from \in Nat /\ to \in Nat /\ from < to /\ to <= Size(f) /\ Size(f) \in Nat
      /\ i \in Nat /\ i >= 1 /\ i + 1 <= Len(Cuts(f))
      /\ from = 0 <=> i = 1
      /\ to = Size(f) <=> i + 1 = Len(Cuts(f))
  BY FragmentFacts, FrameFacts
<1>4. /\ Frames[f].type < 64
      /\ i = 1 => Frames[f].tables # "bad"
      /\ i # 1 => asm.inFrame /\ Len(asm.scan) = from
      /\ to <= BufCap
  BY <1>1, AcceptsFragment
<1>5. s \in Seq(Bytes) /\ DOMAIN s = 1 .. to /\ s # <<>>
  <2>1. s \in Seq(Bytes)
    BY <1>2 DEF Assemblers
  <2> QED
    BY <1>2, <1>3, <2>1, LenProperties
<1>6. i # 1 => /\ asm.scan # <<>> /\ DOMAIN asm.scan = 1 .. from
               /\ \A k \in 1 .. from : s[k] = asm.scan[k]
  <2>1. asm.scan \in Seq(Bytes)
    BY <1>1 DEF Assemblers
  <2>2. i # 1 => DOMAIN asm.scan = 1 .. from /\ asm.scan # <<>>
    BY <1>3, <1>4, <2>1, LenProperties
  <2>3. i # 1 => Base(asm, i) = asm.scan
    BY DEF Base
  <2> QED
    BY <1>2, <2>2, <2>3
<1> HIDE DEF from, to, s
<1>7. \A k \in 1 .. to : k \in 1 .. from \/ k \in from + 1 .. to
  BY <1>3
<1>8. ASSUME NEW k \in 1 .. from
      PROVE  /\ CameraByte(s[k], k) \/ ForeignByte(s[k])
             /\ IsCameras(s[k]) => s[k][3] = k - 1 /\ k # Size(s[k][2])
  <2>1. i # 1
    BY <1>3
  <2>2. asm.inFrame /\ k \in DOMAIN asm.scan /\ s[k] = asm.scan[k]
    BY <1>2, <1>6, <2>1
  <2> QED
    BY <2>2, KeptBytes
<1>9. Held'
  <2>1. ASSUME NEW k \in from + 1 .. to PROVE CameraByte(s[k], k)
    BY <1>2, <1>3 DEF CameraByte
  <2>2. asm'.inFrame => status' = "OK"
    BY <1>2
  <2> HIDE DEF CameraByte, ForeignByte
  <2>3. \A k \in 1 .. to : CameraByte(s[k], k) \/ ForeignByte(s[k])
    BY <1>7, <1>8, <2>1
  <2> QED
    BY <1>5, <2>2, <2>3 DEF Held, s
<1>10. CameraDataInPlace'
  <2>1. ASSUME NEW k \in from + 1 .. to
        PROVE  /\ s[k][3] = k - 1
               /\ k = Size(s[k][2]) => status' = "FRAME_READY" /\ k = Len(s)
    <3>1. s[k][2] = f /\ s[k][3] = k - 1
      BY <1>2
    <3>2. k = Size(f) => k = to /\ to = Size(f)
      BY <1>3
    <3> QED
      BY <1>2, <1>3, <3>1, <3>2
  <2>2. \A k \in 1 .. to : IsCameras(s[k]) =>
           /\ s[k][3] = k - 1
           /\ k = Size(s[k][2]) => status' = "FRAME_READY" /\ k = Len(s)
    BY <1>7, <1>8, <2>1
  <2> QED
    BY <1>5, <2>2 DEF CameraDataInPlace, s
<1>11. CompletedByCamera'
  <2>1. SUFFICES ASSUME status' = "FRAME_READY" PROVE s # <<>> /\ s[Len(s)] = <<"scan", f, Size(f) - 1>>
    BY DEF CompletedByCamera, s
  <2>2. to = Size(f) /\ to \in from + 1 .. to
    BY <1>2, <1>3, <2>1
  <2> QED
    BY <1>2, <1>5, <2>2
<1>12. HeaderOfFirstByte'
  <2>1. CASE i = 1
    <3>1. 1 \in from + 1 .. to
      BY <1>3, <2>1
    <3>2. s[1] = <<"scan", f, 1 - 1>>
      BY <1>2, <3>1
    <3>3. IsCameras(s[1]) /\ s[1][2] = f
      BY <3>2 DEF IsCameras
    <3> QED
      BY <1>2, <2>1, <3>3 DEF HeaderOfFirstByte, s
  <2>2. CASE i # 1
    <3>1. 1 \in 1 .. from
      BY <1>3, <2>2
    <3>2. s[1] = asm.scan[1] /\ asm.scan # <<>>
      BY <1>6, <2>2, <3>1
    <3>3. HeaderOfFirstByte
      BY DEF IInv, ScanHangsTogether
    <3> QED
      BY <1>2, <2>2, <3>2, <3>3 DEF HeaderOfFirstByte, s
  <2> QED
    BY <2>1, <2>2
<1>13. HeldRight'
  BY <1>2, <1>9, <1>10, <1>11, <1>12 DEF HeldRight, ScanHangsTogether, s
<1>14. ASSUME run' > 0, i # 1
       PROVE  Frames[f].tables # "bad" /\ asm.scan = SubSeq(Scan(f), 1, from)
  <2>1. last = <<f, i - 1>> /\ run > 0
    BY <1>14
  <2>2. i - 1 + 1 = i
    BY <1>3
  <2>3. asm.inFrame
    BY <1>4, <1>14
  <2>4. last[1] = f /\ last[2] = i - 1 /\ run = last[2]
    BY <2>1 DEF IInv, ComingIn
  <2>5. FitsSoFar(f, run) /\ asm.scan = SubSeq(Scan(f), 1, Cuts(f)[run + 1])
    BY <2>1, <2>3, <2>4 DEF IInv, ComingIn
  <2> QED
    BY <2>2, <2>4, <2>5 DEF FitsSoFar, from
<1>15. ASSUME run' > 0 PROVE FitsSoFar(f, i) /\ s = SubSeq(Scan(f), 1, to)
  <2>1. to \in 0 .. Size(f) /\ from \in 0 .. Size(f)
    BY <1>3
  <2> DEFINE prefix == SubSeq(Scan(f), 1, to)
  <2>2. /\ prefix \in Seq(Bytes) /\ Len(prefix) = to
        /\ \A k \in 1 .. to : prefix[k] = <<"scan", f, k - 1>>
    BY <2>1, PrefixFacts
  <2>3. ASSUME NEW k \in 1 .. from PROVE s[k] = <<"scan", f, k - 1>>
    <3>1. i # 1
      BY <1>3
    <3>2. asm.scan = SubSeq(Scan(f), 1, from)
      BY <1>14, <1>15, <3>1
    <3>3. asm.scan[k] = <<"scan", f, k - 1>>
      BY <2>1, <3>2, PrefixFacts
    <3> QED
      BY <1>6, <3>1, <3>3
  <2>4. \A k \in 1 .. to : k \in 1 .. from \/ k \in from + 1 .. to
    BY <1>3
  <2> HIDE DEF prefix
  <2>5. \A k \in 1 .. to : s[k] = prefix[k]
    BY <1>2, <2>2, <2>3, <2>4
  <2>6. s = prefix
    BY <1>2, <1>5, <2>2, <2>5, SeqEqual
  <2>7. FitsSoFar(f, i)
    BY <1>4, <1>14, <1>15 DEF FitsSoFar, to
  <2> QED
    BY <2>6, <2>7 DEF prefix
<1>16. ComingIn'
  <2>1. last' \in Sent
    BY DEF Sent
  <2>2. run' > 0 => run' = i
    OBVIOUS
  <2>3. last'[1] = f /\ last'[2] = i
    OBVIOUS
  <2> QED
    BY <1>2, <1>15, <2>1, <2>2, <2>3 DEF ComingIn, s, to
<1> QED
  BY <1>13, <1>16

\* A stray accepted starts a frame of its own, or is appended to what is held.
LEMMA AcceptedStray ==
    ASSUME IInv, NEW d \in Strays, RtpAccepts(d), Accepts(asm, Foreign(d)),
           asm' = MjpegFeed(asm, Foreign(d)),
           status' = MjpegStatus(asm, Foreign(d)), last' = None
    PROVE  HeldRight'
<1> DEFINE p == Foreign(d)
           s == asm'.scan
           from == p.offset
           to == from + Len(p.chunk)
           base == Opened(asm, p).scan
<1>1. asm \in Assemblers /\ (asm.inFrame => asm.expected = Len(asm.scan))
  BY DEF IInv, TypeOK
<1>2. p \in Payloads /\ \A k \in 1 .. Len(p.chunk) : ForeignByte(p.chunk[k])
  <2>1. p.wellformed
    BY DEF Accepts
  <2> QED
    BY <2>1, ForeignFacts
<1>3. Accepts(asm, p) /\ asm' = MjpegFeed(asm, p) /\ status' = MjpegStatus(asm, p)
  OBVIOUS
<1> HIDE DEF p, ForeignByte
<1>4. /\ asm' \in Assemblers
      /\ p.wellformed /\ from \in Nat /\ Len(p.chunk) \in Nat
      /\ base \in Seq(Bytes) /\ Len(base) = from
      /\ from = 0 => asm'.header = p.header /\ asm'.qt = p.qt
      /\ from # 0 => asm.inFrame /\ base = asm.scan /\ asm'.header = asm.header /\ asm'.qt = asm.qt
      /\ s \in Seq(Bytes) /\ Len(s) = to /\ Len(s) <= BufCap
      /\ \A k \in 1 .. from : s[k] = base[k]
      /\ \A k \in 1 .. Len(p.chunk) : s[from + k] = p.chunk[k]
      /\ asm'.expected = Len(s)
      /\ asm'.inFrame = ~p.marker
      /\ status' = IF p.marker THEN "FRAME_READY" ELSE "OK"
  BY <1>1, <1>2, <1>3, AcceptedFeed
<1>5. DOMAIN s = 1 .. to /\ to \in Nat
  BY <1>4, LenProperties
<1>6. ASSUME NEW k \in 1 .. from
      PROVE  asm.inFrame /\ k \in DOMAIN asm.scan /\ s[k] = asm.scan[k]
  <2>1. from # 0
    BY <1>4
  <2>2. DOMAIN asm.scan = 1 .. from
    BY <1>4, <2>1, LenProperties
  <2> QED
    BY <1>4, <2>1, <2>2
<1> DEFINE n == Len(p.chunk)
<1>7. to = from + n /\ n \in Nat /\ from \in Nat
  BY <1>4
<1>8. ASSUME NEW k \in from + 1 .. to PROVE ForeignByte(s[k])
  <2>1. k - from \in 1 .. n /\ from + (k - from) = k
    BY <1>7
  <2>2. s[from + (k - from)] = p.chunk[k - from]
    BY <1>4, <2>1
  <2> QED
    BY <1>2, <2>1, <2>2
<1> HIDE DEF s, from, to, base, n
<1>9. \A k \in 1 .. to : k \in 1 .. from \/ k \in from + 1 .. to
  BY <1>5, <1>7
<1>10. \A cell : ForeignByte(cell) => ~IsCameras(cell)
  BY DEF ForeignByte, IsCameras
<1>11. Held'
  <2>1. \A k \in 1 .. from : CameraByte(s[k], k) \/ ForeignByte(s[k])
    BY <1>6, KeptBytes
  <2>2. asm'.inFrame => status' = "OK"
    BY <1>4
  <2> HIDE DEF CameraByte
  <2>3. \A k \in 1 .. to : CameraByte(s[k], k) \/ ForeignByte(s[k])
    BY <1>8, <1>9, <2>1
  <2> QED
    BY <1>5, <2>2, <2>3 DEF Held, s
<1>12. CameraDataInPlace'
  <2>1. \A k \in 1 .. from : IsCameras(s[k]) => s[k][3] = k - 1 /\ k # Size(s[k][2])
    BY <1>6, KeptBytes
  <2>2. \A k \in 1 .. to : IsCameras(s[k]) => s[k][3] = k - 1 /\ k # Size(s[k][2])
    BY <1>8, <1>9, <1>10, <2>1
  <2> QED
    BY <1>5, <2>2 DEF CameraDataInPlace, s
<1>13. CompletedByCamera'
  BY DEF CompletedByCamera
<1>14. HeaderOfFirstByte'
  <2>1. CASE from = 0
    <3>1. SUFFICES ASSUME s # <<>>
                   PROVE  /\ ~IsCameras(s[1])
                          /\ p.chunk # <<>> /\ p.chunk[1] = s[1]
                          /\ p.header = asm'.header /\ p.qt = asm'.qt
      BY <1>4, <2>1 DEF HeaderOfFirstByte, s, from, p, Foreign
    <3>2. 1 \in 1 .. n /\ from + 1 = 1
      <4>1. Len(s) # 0
        BY <1>4, <3>1
      <4> QED
        BY <1>4, <1>7, <2>1, <4>1
    <3>3. s[1] = p.chunk[1]
      BY <1>4, <3>2 DEF n
    <3>4. p.chunk # <<>>
      BY <3>2 DEF n
    <3>5. ForeignByte(p.chunk[1])
      BY <1>2, <3>2 DEF n
    <3> QED
      BY <1>4, <1>10, <2>1, <3>3, <3>4, <3>5
  <2>2. CASE from # 0
    <3>1. 1 \in 1 .. from
      BY <1>4, <2>2
    <3>2. s[1] = asm.scan[1] /\ asm.scan # <<>>
      <4>1. Len(asm.scan) # 0
        BY <1>4, <2>2
      <4> QED
        BY <1>6, <3>1, <4>1
    <3>3. HeaderOfFirstByte
      BY DEF IInv, ScanHangsTogether
    <3> QED
      BY <1>4, <2>2, <3>2, <3>3 DEF HeaderOfFirstByte, s
  <2> QED
    BY <2>1, <2>2
<1> QED
  BY <1>4, <1>11, <1>12, <1>13, <1>14 DEF HeldRight, ScanHangsTogether, s

\* A fragment is refused only if its frame does not come in intact or does not
\* fit.
LEMMA RefusedStep ==
    ASSUME IInv, NEW f \in DOMAIN Frames, NEW i \in Fragments(f),
           ~Accepts(asm, Fragment(f, i)),
           asm' = MjpegFeed(asm, Fragment(f, i)),
           status' = MjpegStatus(asm, Fragment(f, i)),
           last' = <<f, i>>,
           run' = IF i = 1 THEN 1 ELSE IF last = <<f, i - 1>> /\ run > 0 THEN i ELSE 0
    PROVE  HeldRight' /\ ComingIn'
<1>1. /\ asm \in Assemblers
      /\ asm.inFrame => asm.expected = Len(asm.scan)
  BY DEF IInv, TypeOK
<1>2. Fragment(f, i) \in Payloads
  BY FragmentIsPayload
<1>3. asm' \in Assemblers /\ asm'.scan = <<>> /\ asm'.inFrame = FALSE /\ status' = "DROPPED"
  BY <1>1, <1>2, RefusedFeed
<1>4. ASSUME run' > 0, FitsSoFar(f, i) PROVE FALSE
  <2>1. Frames[f].type < 64 /\ Frames[f].tables # "bad" /\ Cuts(f)[i + 1] <= BufCap
    BY <1>4 DEF FitsSoFar
  <2>2. /\ Cuts(f)[i] \in Nat /\ Cuts(f)[i + 1] \in Nat /\ Cuts(f)[i] < Cuts(f)[i + 1]
        /\ Cuts(f)[i + 1] <= Size(f) /\ Size(f) \in Nat
        /\ i \in Nat /\ i + 1 <= Len(Cuts(f)) /\ Len(Cuts(f)) \in Nat
    BY FragmentFacts, FrameFacts
  <2>3. Cuts(f)[i] <= BufCap
    BY <2>1, <2>2, BufCapAssumption
  <2>4. ASSUME i # 1 PROVE asm.inFrame /\ Len(asm.scan) = Cuts(f)[i]
    <3>1. last = <<f, i - 1>> /\ run > 0
      BY <1>4, <2>4
    <3>2. last[1] = f /\ last[2] = i - 1 /\ run = last[2]
      BY <3>1 DEF IInv, ComingIn
    <3>3. run + 1 = i /\ i # Len(Cuts(f))
      BY <2>2, <3>2
    <3>4. FitsSoFar(f, run)
      BY <2>1, <2>3, <3>3 DEF FitsSoFar
    <3>5. asm.scan = SubSeq(Scan(f), 1, Cuts(f)[i]) /\ asm.inFrame
      BY <3>1, <3>2, <3>3, <3>4 DEF IInv, ComingIn
    <3>6. Cuts(f)[i] \in 0 .. Size(f)
      BY <2>2
    <3>7. Len(SubSeq(Scan(f), 1, Cuts(f)[i])) = Cuts(f)[i]
      BY <3>6, PrefixFacts
    <3> QED
      BY <3>5, <3>7
  <2> QED
    BY <1>1, <2>1, <2>4, AcceptsFragment
<1>5. ComingIn'
  <2>1. last' \in Sent
    BY DEF Sent
  <2>2. run' > 0 => run' = i
    OBVIOUS
  <2>3. last'[1] = f /\ last'[2] = i
    OBVIOUS
  <2> QED
    BY <1>3, <1>4, <2>1, <2>2, <2>3 DEF ComingIn
<1> QED
  BY <1>3, <1>5, EmptyHangsTogether

\* Nothing happens, a frame is given up, or a fragment is accepted or refused.
LEMMA StepPreserves ==
    ASSUME IInv, [Next]_vars
    PROVE  IInv'
<1>1. TypeOK
  BY DEF IInv
<1> DEFINE Rest == /\ HeldRight' /\ ComingIn'
                   /\ status' \in {"none", "OK", "FRAME_READY", "DROPPED"}
                   /\ last' \in Sent \cup {None}
                   /\ run' \in Nat
<1>2. ASSUME NEW f \in DOMAIN Frames, NEW i \in Fragments(f),
             asm' = MjpegFeed(asm, Fragment(f, i)),
             status' = MjpegStatus(asm, Fragment(f, i)),
             last' = <<f, i>>,
             run' = IF i = 1 THEN 1 ELSE IF last = <<f, i - 1>> /\ run > 0 THEN i ELSE 0
      PROVE  Rest
  <2>1. HeldRight' /\ ComingIn'
    <3>1. CASE Accepts(asm, Fragment(f, i))
      BY <1>2, <3>1, AcceptedStep
    <3>2. CASE ~Accepts(asm, Fragment(f, i))
      BY <1>2, <3>2, RefusedStep
    <3> QED
      BY <3>1, <3>2
  <2>2. status' \in {"none", "OK", "FRAME_READY", "DROPPED"}
    BY <1>2 DEF MjpegStatus
  <2>3. last' \in Sent
    BY <1>2 DEF Sent
  <2>4. i \in Nat
    BY FragmentFacts
  <2>5. run' \in Nat
    BY <1>2, <2>4
  <2> QED
    BY <2>1, <2>2, <2>3, <2>5
<1>3. ASSUME NEW d \in Strays, RtpAccepts(d),
             asm' = MjpegFeed(asm, Foreign(d)),
             status' = MjpegStatus(asm, Foreign(d)),
             last' = None, run' = 0
      PROVE  Rest
  <2>1. ASSUME Accepts(asm, Foreign(d)) PROVE HeldRight'
    BY <1>3, <2>1, AcceptedStray
  <2>2. ASSUME ~Accepts(asm, Foreign(d)) PROVE HeldRight'
    <3> DEFINE p == Foreign(d)
    <3>1. asm \in Assemblers /\ (p.wellformed => p \in Payloads) /\ ~Accepts(asm, p)
      BY <1>1, <1>3, <2>2, ForeignFacts DEF TypeOK
    <3>2. asm' = MjpegFeed(asm, p) /\ status' = MjpegStatus(asm, p)
      BY <1>3
    <3> HIDE DEF p
    <3>3. asm' \in Assemblers /\ asm'.scan = <<>> /\ asm'.inFrame = FALSE /\ status' = "DROPPED"
      BY <3>1, <3>2, RefusedFeed
    <3> QED
      BY <3>3, EmptyHangsTogether
  <2>3. HeldRight'
    BY <2>1, <2>2
  <2>4. ComingIn'
    BY <1>3 DEF ComingIn
  <2>5. status' \in {"none", "OK", "FRAME_READY", "DROPPED"}
    BY <1>3 DEF MjpegStatus
  <2> QED
    BY <1>3, <2>3, <2>4, <2>5
<1>4. ASSUME asm' = MjpegReset(asm), status' = "none", last' = None, run' = 0
      PROVE  Rest
  <2>1. asm \in Assemblers
    BY <1>1 DEF TypeOK
  <2>2. asm' \in Assemblers /\ asm'.scan = <<>> /\ asm'.inFrame = FALSE
    BY <1>4, <2>1, ResetEmpties
  <2>3. ComingIn'
    BY <1>4 DEF ComingIn
  <2> QED
    BY <1>4, <2>2, <2>3, EmptyHangsTogether
<1>5. ASSUME UNCHANGED <<asm, status, last, run>> PROVE Rest
  <2>1. HeldRight
    BY DEF IInv, TypeOK, HeldRight
  <2>2. HeldRight' /\ ComingIn'
    BY <1>5, <2>1 DEF IInv, HeldRight, Held, ScanHangsTogether, CameraDataInPlace,
                      CompletedByCamera, HeaderOfFirstByte, ComingIn
  <2> QED
    BY <1>1, <1>5, <2>2 DEF TypeOK
<1>6. Rest
  <2> HIDE DEF Rest
  <2> QED
    BY <1>1, <1>2, <1>3, <1>4, <1>5, StepCases
<1>7. Pictured'
  BY PictureStep DEF IInv
<1>8. picture'.returned <= JpegCap
  <2>1. JpegCap \in Nat
    BY NetworkAssumption
  <2>2. Len(JpegInput(asm').scan) \in Nat
    BY <1>6, LenProperties DEF HeldRight, JpegInput, Assemblers
  <2>3. JpegSynthBuild(JpegInput(asm'), JpegCap).returned <= JpegCap
    BY <2>1, <2>2, JpegFits
  <2>4. NoPicture.returned <= JpegCap
    BY <2>1 DEF NoPicture
  <2> QED
    BY <1>7, <2>3, <2>4 DEF Pictured
<1>9. stray' \in Strays \cup {None}
  <2>1. ASSUME NEW u \in Sent, NEW wrap \in Wraps, ReceiveFragment(u[1], u[2], wrap)
        PROVE  stray' = None
    BY <2>1 DEF ReceiveFragment
  <2>2. ASSUME NEW d \in Strays, ReceiveStray(d) PROVE stray' = d
    BY <2>2 DEF ReceiveStray
  <2>3. ASSUME Reset \/ UNCHANGED vars PROVE stray' = stray
    BY <2>3 DEF Reset, vars
  <2> QED
    BY <1>1, <2>1, <2>2, <2>3 DEF Next, TypeOK
<1> QED
  BY <1>6, <1>7, <1>8, <1>9 DEF IInv, HeldRight, TypeOK

\* Before the first datagram nothing is held.
LEMMA InitHolds == Init => IInv
<1> SUFFICES ASSUME Init PROVE IInv
  OBVIOUS
<1>1. asm = [scan |-> <<>>, inFrame |-> FALSE, expected |-> 0, header |-> None, qt |-> None]
  BY DEF Init, MjpegCreate
<1>2. asm \in Assemblers
  <2>1. <<>> \in Seq(Bytes) /\ 0 \in Nat
    OBVIOUS
  <2> QED
    BY <1>1, <2>1 DEF Assemblers
<1>3. Len(<<>>) = 0 /\ DOMAIN <<>> = {}
  OBVIOUS
<1>4. asm.scan = <<>> /\ asm.inFrame = FALSE
  BY <1>1
<1>5. TypeOK
  <2>1. picture.returned <= JpegCap
    BY NetworkAssumption DEF Init, NoPicture
  <2>2. Len(asm.scan) <= BufCap
    BY <1>3, <1>4, BufCapAssumption
  <2> QED
    BY <1>2, <1>4, <2>1, <2>2 DEF Init, TypeOK
<1>6. Held /\ ScanHangsTogether
  BY <1>3, <1>4 DEF Held, ScanHangsTogether, CameraDataInPlace, CompletedByCamera,
                    HeaderOfFirstByte, Init
<1>7. ComingIn /\ Pictured
  BY DEF Init, ComingIn, Pictured
<1> QED
  BY <1>5, <1>6, <1>7 DEF IInv

\* The invariant, for every camera and every network.
THEOREM Invariance == Spec => []IInv
<1>1. IInv /\ [Next]_vars => IInv'
  BY StepPreserves
<1> QED
  BY InitHolds, <1>1, PTL DEF Spec

\* The data never exceeds the assembler's buffer (mjpeg_rtp.c:125) and ends,
\* while a frame is open, where the next fragment has to start
\* (mjpeg_rtp.c:132); the JPEG file never exceeds its own
\* (jpeg_synth.c:127-146).
THEOREM TypeCorrect == Spec => []TypeOK
<1>1. IInv => TypeOK
  BY DEF IInv
<1> QED
  BY Invariance, <1>1, PTL

\* Whatever arrives in whatever order, datagrams of others mixed in, every
\* byte of the camera's that is held is in its place, the last one of a frame
\* comes last and completes it, and the data will be decoded with the header
\* and the tables that came with its first byte (mjpeg_rtp.c:67-139).
THEOREM HangsTogether == Spec => []ScanHangsTogether
<1>1. IInv => ScanHangsTogether
  BY DEF IInv
<1> QED
  BY Invariance, <1>1, PTL

\* A frame that just arrived, if it fits, is what the assembler holds; if it
\* does not, it was dropped.
LEMMA JustArrivedFrame ==
    ASSUME IInv, NEW f \in DOMAIN Frames, JustArrived(f)
    PROVE  IF Assembles(f) THEN status = "FRAME_READY" /\ asm.scan = Scan(f)
           ELSE status = "DROPPED"
<1>1. /\ Len(Cuts(f)) \in Nat /\ Len(Cuts(f)) > 1
      /\ Size(f) = Cuts(f)[Len(Cuts(f))] /\ Size(f) \in Nat
  BY FrameFacts
<1>2. last[1] = f /\ run = Len(Cuts(f)) - 1
  BY DEF JustArrived, Cuts
<1>3. run > 0 /\ run + 1 = Len(Cuts(f))
  BY <1>1, <1>2
<1>4. Assembles(f) <=> FitsSoFar(f, run)
  BY <1>1, <1>3 DEF Assembles, FitsSoFar
<1>5. IF Assembles(f) THEN status = "FRAME_READY" /\ asm.scan = SubSeq(Scan(f), 1, Size(f))
      ELSE status = "DROPPED"
  BY <1>1, <1>2, <1>3, <1>4 DEF IInv, ComingIn
<1> DEFINE whole == SubSeq(Scan(f), 1, Size(f))
<1>6. Size(f) \in 0 .. Size(f)
  BY <1>1
<1>7. /\ whole \in Seq(Bytes) /\ Len(whole) = Size(f)
      /\ \A k \in 1 .. Size(f) : whole[k] = <<"scan", f, k - 1>>
  BY <1>6, PrefixFacts
<1>8. /\ Scan(f) \in Seq(Bytes) /\ Len(Scan(f)) = Size(f)
      /\ \A k \in 1 .. Size(f) : Scan(f)[k] = <<"scan", f, k - 1>>
  BY ScanFacts
<1> HIDE DEF whole
<1>9. whole = Scan(f)
  BY <1>7, <1>8, SeqEqual
<1> QED
  BY <1>5, <1>9 DEF whole

\* A frame that fits, with whole tables, whose fragments arrive in a row and in
\* order comes out as it was sent, whatever arrived before and however its
\* packets are wrapped (mjpeg_rtp.c:87-137).
THEOREM ComesOut == Spec => []IntactFrameComesOut
<1>1. IInv => IntactFrameComesOut
  BY JustArrivedFrame DEF IntactFrameComesOut
<1> QED
  BY Invariance, <1>1, PTL

-----------------------------------------------------------------------------
(* The picture. *)

\* What a decoder finds in a file.
LEMMA FileLookup ==
    ASSUME NEW in, picture.file = FileOf(in)
    PROVE  /\ picture.file[1].name = "SOI"
           /\ picture.file[Len(picture.file)].name = "EOI"
           /\ InFile("DQT") = {<<0, Tables(in)[1]>>, <<1, Tables(in)[2]>>}
           /\ InFile("SOF0") = {<<in.size, Subsampling(in.type)>>}
           /\ InFile("DHT") = {<<0>>, <<16>>, <<1>>, <<17>>}
           /\ InFile("scan") = {in.scan}
<1> DEFINE file == picture.file
           t    == Tables(in)[1]
           u    == Tables(in)[2]
           dims == <<in.size, Subsampling(in.type)>>
           scan == in.scan
           n    == Len(scan)
<1>1. file = << Segment("SOI", 2, <<>>),
                Segment("DQT", 69, <<0, t>>), Segment("DQT", 69, <<1, u>>),
                Segment("SOF0", 19, dims),
                Segment("DHT", 33, <<0>>), Segment("DHT", 183, <<16>>),
                Segment("DHT", 33, <<1>>), Segment("DHT", 183, <<17>>),
                Segment("SOS", 14, <<>>), Segment("scan", n, scan),
                Segment("EOI", 2, <<>>) >>
  BY DEF FileOf
<1> HIDE DEF file, t, u, dims, scan, n
<1>2. DOMAIN file = 1 .. 11 /\ Len(file) = 11
  BY <1>1
<1>3. /\ file[1] = Segment("SOI", 2, <<>>)
      /\ file[2] = Segment("DQT", 69, <<0, t>>)
      /\ file[3] = Segment("DQT", 69, <<1, u>>)
      /\ file[4] = Segment("SOF0", 19, dims)
      /\ file[5] = Segment("DHT", 33, <<0>>)
      /\ file[6] = Segment("DHT", 183, <<16>>)
      /\ file[7] = Segment("DHT", 33, <<1>>)
      /\ file[8] = Segment("DHT", 183, <<17>>)
      /\ file[9] = Segment("SOS", 14, <<>>)
      /\ file[10] = Segment("scan", n, scan)
      /\ file[11] = Segment("EOI", 2, <<>>)
  BY <1>1
<1>4. /\ file[1].name = "SOI" /\ file[2].name = "DQT" /\ file[3].name = "DQT"
      /\ file[4].name = "SOF0" /\ file[5].name = "DHT" /\ file[6].name = "DHT"
      /\ file[7].name = "DHT" /\ file[8].name = "DHT" /\ file[9].name = "SOS"
      /\ file[10].name = "scan" /\ file[11].name = "EOI"
  BY <1>3 DEF Segment
<1>5. /\ file[2].data = <<0, t>> /\ file[3].data = <<1, u>> /\ file[4].data = dims
      /\ file[5].data = <<0>> /\ file[6].data = <<16>> /\ file[7].data = <<1>>
      /\ file[8].data = <<17>> /\ file[10].data = scan
  BY <1>3 DEF Segment
<1>6. \A i \in 1 .. 11 : i \in {1, 2, 3, 4, 5, 6, 7, 8, 9, 10, 11}
  OBVIOUS
<1>7. {2, 3, 4, 5, 6, 7, 8, 10} \subseteq 1 .. 11
  OBVIOUS
<1>8. /\ {j \in DOMAIN file : file[j].name = "DQT"} = {2, 3}
      /\ {j \in DOMAIN file : file[j].name = "SOF0"} = {4}
      /\ {j \in DOMAIN file : file[j].name = "DHT"} = {5, 6, 7, 8}
      /\ {j \in DOMAIN file : file[j].name = "scan"} = {10}
  BY <1>2, <1>4, <1>6, <1>7
<1>9. InFile("DQT") = {<<0, t>>, <<1, u>>}
  <2>1. InFile("DQT") = {file[i].data : i \in {2, 3}}
    BY <1>8 DEF InFile, file
  <2> QED
    BY <1>5, <2>1
<1>10. InFile("SOF0") = {dims}
  <2>1. InFile("SOF0") = {file[i].data : i \in {4}}
    BY <1>8 DEF InFile, file
  <2> QED
    BY <1>5, <2>1
<1>11. InFile("DHT") = {<<0>>, <<16>>, <<1>>, <<17>>}
  <2>1. InFile("DHT") = {file[i].data : i \in {5, 6, 7, 8}}
    BY <1>8 DEF InFile, file
  <2> QED
    BY <1>5, <2>1
<1>12. InFile("scan") = {scan}
  <2>1. InFile("scan") = {file[i].data : i \in {10}}
    BY <1>8 DEF InFile, file
  <2> QED
    BY <1>5, <2>1
<1> QED
  BY <1>2, <1>4, <1>9, <1>10, <1>11, <1>12 DEF file, t, u, dims, scan

\* The input jpeg_synth_build gets for a frame that just arrived.
LEMMA InputOfFrame ==
    ASSUME IInv, NEW f \in DOMAIN Frames, JustArrived(f), Assembles(f)
    PROVE  LET in == JpegInput(asm) IN
           /\ picture = JpegSynthBuild(in, JpegCap)
           /\ in.size = Frames[f].size /\ in.type = Frames[f].type /\ in.scan = Scan(f)
           /\ Tables(in) = TablesOf(f)
<1>1. status = "FRAME_READY" /\ asm.scan = Scan(f)
  BY JustArrivedFrame
<1>2. Len(Scan(f)) = Size(f) /\ \A k \in 1 .. Size(f) : Scan(f)[k] = <<"scan", f, k - 1>>
  BY ScanFacts
<1>3. 1 \in 1 .. Size(f)
  <2>1. 1 \in 1 .. Len(Cuts(f)) /\ Len(Cuts(f)) \in 1 .. Len(Cuts(f)) /\ 1 < Len(Cuts(f))
    BY FrameFacts
  <2>2. Cuts(f)[1] < Cuts(f)[Len(Cuts(f))]
    BY <2>1, FrameFacts
  <2>3. Cuts(f)[1] = 0 /\ Size(f) = Cuts(f)[Len(Cuts(f))] /\ Size(f) \in Nat
    BY FrameFacts
  <2> QED
    BY <2>2, <2>3
<1>4. IsCameras(asm.scan[1]) /\ asm.scan[1][2] = f /\ asm.scan # <<>>
  <2>1. asm.scan[1] = <<"scan", f, 1 - 1>>
    BY <1>1, <1>2, <1>3
  <2>2. Len(asm.scan) # 0
    BY <1>1, <1>2, <1>3
  <2> QED
    BY <2>1, <2>2 DEF IsCameras
<1>5. asm.header = Header(f) /\ asm.qt = Inline(f)
  BY <1>4 DEF IInv, ScanHangsTogether, HeaderOfFirstByte
<1>6. asm.qt # None <=> Frames[f].q >= 128
  <2>1. Frames[f].tables \in {"none", "good", "bad"} /\ Frames[f].tables # "bad"
    BY FrameFacts DEF Assembles
  <2>2. (Frames[f].q >= 128) = (Frames[f].tables # "none")
    BY StreamAssumption
  <2>3. Frames[f].tables = "good" => Inline(f) # None
    <3>1. Frames[f].tables = "good" => Inline(f) \in InlineTables
      BY StreamAssumption
    <3>2. None \notin InlineTables
      BY StreamAssumption
    <3> QED
      BY <3>1, <3>2
  <2>4. Frames[f].tables = "none" => Inline(f) = None
    BY DEF Inline
  <2> QED
    BY <1>5, <2>1, <2>2, <2>3, <2>4
<1>7. picture = JpegSynthBuild(JpegInput(asm), JpegCap)
  BY <1>1 DEF IInv, Pictured
<1>8. Tables(JpegInput(asm)) = TablesOf(f)
  <2> DEFINE in == JpegInput(asm)
  <2>1. in.qtPresent = (asm.qt # None) /\ in.inline = asm.qt /\ in.q = asm.header.q
    BY DEF JpegInput
  <2>2. asm.header.q = Frames[f].q
    BY <1>5 DEF Header
  <2> HIDE DEF in
  <2>3. ASSUME asm.qt # None PROVE Tables(in) = TablesOf(f)
    <3>1. in.qtPresent = TRUE
      BY <2>1, <2>3
    <3>2. Frames[f].q >= 128
      BY <1>6, <2>3
    <3>3. Tables(in) = in.inline /\ TablesOf(f) = Inline(f)
      BY <3>1, <3>2 DEF Tables, TablesOf
    <3> QED
      BY <1>5, <2>1, <3>3
  <2>4. ASSUME ~(asm.qt # None) PROVE Tables(in) = TablesOf(f)
    <3>1. in.qtPresent = FALSE
      BY <2>1, <2>4
    <3>2. ~(Frames[f].q >= 128)
      BY <1>6, <2>4
    <3>3. /\ Tables(in) = <<DefaultTables(in.q), DefaultTables(in.q)>>
          /\ TablesOf(f) = <<DefaultTables(Frames[f].q), DefaultTables(Frames[f].q)>>
      BY <3>1, <3>2 DEF Tables, TablesOf
    <3> QED
      BY <2>1, <2>2, <3>3
  <2> QED
    BY <2>3, <2>4 DEF in
<1> QED
  BY <1>1, <1>5, <1>7, <1>8 DEF JpegInput, Header

\* The picture of a frame that just arrived.
LEMMA PictureOfFrame ==
    ASSUME IInv, NEW f \in DOMAIN Frames, JustArrived(f), Assembles(f)
    PROVE  IF Frames[f].type > 1 \/ Size(f) + 607 > JpegCap THEN picture.returned = -1
           ELSE /\ picture.returned = Size(f) + 607
                /\ \E in : /\ picture.file = FileOf(in)
                           /\ in.size = Frames[f].size /\ in.type = Frames[f].type /\ in.scan = Scan(f)
                           /\ Tables(in) = TablesOf(f)
<1> DEFINE in == JpegInput(asm)
<1>1. /\ picture = JpegSynthBuild(in, JpegCap)
      /\ in.size = Frames[f].size /\ in.type = Frames[f].type /\ in.scan = Scan(f)
      /\ Tables(in) = TablesOf(f)
  BY InputOfFrame
<1> HIDE DEF in
<1>2. Len(in.scan) = Size(f) /\ Size(f) \in Nat /\ JpegCap \in Nat /\ Frames[f].type \in Nat
  BY <1>1, ScanFacts, FrameFacts, NetworkAssumption
<1>3. picture = IF in.type \in {0, 1} /\ Len(in.scan) + 607 <= JpegCap
                THEN [returned |-> Len(in.scan) + 607, file |-> FileOf(in)]
                ELSE Refusal
  BY <1>1, <1>2, WholeFileOrRefusal
<1>4. in.type \in {0, 1} /\ Len(in.scan) + 607 <= JpegCap
        <=> ~(Frames[f].type > 1 \/ Size(f) + 607 > JpegCap)
  <2>1. in.type \in {0, 1} <=> ~(Frames[f].type > 1)
    <3>1. in.type = Frames[f].type /\ in.type \in Nat
      BY <1>1, <1>2
    <3> QED
      BY <3>1
  <2>2. Len(in.scan) + 607 <= JpegCap <=> ~(Size(f) + 607 > JpegCap)
    BY <1>2
  <2> QED
    BY <2>1, <2>2
<1>5. CASE Frames[f].type > 1 \/ Size(f) + 607 > JpegCap
  BY <1>3, <1>4, <1>5 DEF Refusal
<1>6. CASE ~(Frames[f].type > 1 \/ Size(f) + 607 > JpegCap)
  <2>1. picture.returned = Size(f) + 607 /\ picture.file = FileOf(in)
    BY <1>2, <1>3, <1>4, <1>6
  <2> QED
    BY <1>1, <1>6, <2>1
<1> QED
  BY <1>5, <1>6

\* The picture of an intact frame is the frame: its dimensions, its tables and
\* its data, in a whole file; or there is none, for a type jpeg_synth_build
\* does not know or want of room (jpeg_synth.c:192-235).
THEOREM IsShown == Spec => []IntactFrameIsShown
<1>1. ASSUME IInv, NEW f \in DOMAIN Frames, JustArrived(f), Assembles(f)
      PROVE  IF Frames[f].type > 1 \/ Size(f) + 607 > JpegCap THEN picture.returned = -1
             ELSE /\ picture.returned = Size(f) + 607
                  /\ picture.file[1].name = "SOI"
                  /\ picture.file[Len(picture.file)].name = "EOI"
                  /\ InFile("DQT") = {<<0, TablesOf(f)[1]>>, <<1, TablesOf(f)[2]>>}
                  /\ InFile("SOF0") = {<<Frames[f].size, Subsampling(Frames[f].type)>>}
                  /\ InFile("DHT") = {<<0>>, <<16>>, <<1>>, <<17>>}
                  /\ InFile("scan") = {Scan(f)}
  <2> DEFINE refused == Frames[f].type > 1 \/ Size(f) + 607 > JpegCap
             made(in) == /\ picture.file = FileOf(in)
                         /\ in.size = Frames[f].size /\ in.type = Frames[f].type /\ in.scan = Scan(f)
                         /\ Tables(in) = TablesOf(f)
             tables == TablesOf(f)
             shown == /\ picture.file[1].name = "SOI"
                      /\ picture.file[Len(picture.file)].name = "EOI"
                      /\ InFile("DQT") = {<<0, tables[1]>>, <<1, tables[2]>>}
                      /\ InFile("SOF0") = {<<Frames[f].size, Subsampling(Frames[f].type)>>}
                      /\ InFile("DHT") = {<<0>>, <<16>>, <<1>>, <<17>>}
                      /\ InFile("scan") = {Scan(f)}
             is == picture.returned = Size(f) + 607
             none == picture.returned = -1
  <2>1. IF refused THEN none ELSE is /\ \E in : made(in)
    BY <1>1, PictureOfFrame
  <2>2. ASSUME NEW in, made(in) PROVE shown
    <3>1. /\ picture.file[1].name = "SOI"
          /\ picture.file[Len(picture.file)].name = "EOI"
          /\ InFile("DQT") = {<<0, Tables(in)[1]>>, <<1, Tables(in)[2]>>}
          /\ InFile("SOF0") = {<<in.size, Subsampling(in.type)>>}
          /\ InFile("DHT") = {<<0>>, <<16>>, <<1>>, <<17>>}
          /\ InFile("scan") = {in.scan}
      BY <2>2, FileLookup
    <3>2. in.size = Frames[f].size /\ in.type = Frames[f].type /\ in.scan = Scan(f) /\ Tables(in) = tables
      BY <2>2
    <3> HIDE DEF tables
    <3> QED
      BY <3>1, <3>2
  <2>3. IF refused THEN none ELSE is /\ shown
    <3> HIDE DEF refused, made, shown, is, none
    <3> QED
      BY <2>1, <2>2
  <2> QED
    BY <2>3
<1>2. IInv => IntactFrameIsShown
  BY <1>1 DEF IntactFrameIsShown
<1> QED
  BY Invariance, <1>2, PTL

-----------------------------------------------------------------------------
(* The quality of the default tables. *)

\* A product is greater, and a quotient of a product, when a factor is.
LEMMA ProductMonotone == \A b, x, y \in Nat : x <= y => b * x <= b * y
  OBVIOUS

\* A quotient is smaller when the divisor is greater.
LEMMA QuotientAntitone ==
    ASSUME NEW n \in Nat, NEW p \in Nat, NEW q \in Nat, 1 <= p, p <= q
    PROVE  n \div q <= n \div p
<1> DEFINE u == n \div p
           v == n \div q
<1>1. u \in Nat /\ v \in Nat /\ n < p * (u + 1) /\ q * v <= n
  OBVIOUS
<1> HIDE DEF u, v
<1>2. ASSUME v >= u + 1 PROVE FALSE
  <2>1. p * (u + 1) <= p * v
    BY <1>1, <1>2, ProductMonotone
  <2>2. v * p <= v * q
    BY <1>1, ProductMonotone
  <2>3. p * v = v * p /\ q * v = v * q
    BY <1>1
  <2>4. p * (u + 1) \in Int /\ p * v \in Int /\ q * v \in Int
    BY <1>1
  <2> QED
    BY <1>1, <2>1, <2>2, <2>3, <2>4
<1>3. v <= u
  BY <1>1, <1>2
<1> QED
  BY <1>3 DEF u, v

\* The factor is a number, and none is coarser for a higher q.
LEMMA FactorAntitone ==
    /\ \A q \in Nat : Factor(q) \in Nat
    /\ \A p, q \in Nat : p <= q => Factor(q) <= Factor(p)
    /\ Factor(50) = 100
<1> DEFINE Clamped(q) == AtMost(99, AtLeast(1, q))
           F(x) == IF x < 50 THEN 5000 \div x ELSE 200 - 2 * x
<1>1. \A q \in Nat : Factor(q) = F(Clamped(q))
  BY DEF Factor
<1>2. /\ \A q \in Nat : Clamped(q) \in Nat /\ 1 <= Clamped(q) /\ Clamped(q) <= 99
      /\ \A p, q \in Nat : p <= q => Clamped(p) <= Clamped(q)
  BY DEF AtMost, AtLeast
<1>3. ASSUME NEW x \in Nat, 1 <= x, x <= 99
      PROVE  F(x) \in Nat
  <2>1. 5000 \div x \in Nat
    BY <1>3
  <2>2. x >= 50 => 200 - 2 * x \in Nat
    BY <1>3
  <2> QED
    BY <2>1, <2>2
<1>4. ASSUME NEW x \in Nat, NEW y \in Nat, 1 <= x, x <= y
      PROVE  5000 \div y <= 5000 \div x
  <2> DEFINE n == 5000
  <2>1. n \in Nat
    OBVIOUS
  <2> HIDE DEF n
  <2>2. n \div y <= n \div x
    BY <1>4, <2>1, QuotientAntitone
  <2> QED
    BY <2>2 DEF n
<1>5. ASSUME NEW x \in Nat, NEW y \in Nat, 1 <= x, x <= y, y <= 99
      PROVE  F(y) <= F(x)
  <2>1. CASE y < 50
    <3>1. x < 50
      BY <1>5, <2>1
    <3>2. 5000 \div y <= 5000 \div x
      BY <1>5, <1>4
    <3> QED
      BY <2>1, <3>1, <3>2
  <2>2. CASE ~(x < 50)
    BY <1>5, <2>2
  <2>3. CASE x < 50 /\ ~(y < 50)
    <3>1. 5000 \div 50 <= 5000 \div x
      BY <1>5, <1>4, <2>3
    <3>2. 5000 \div 50 = 100
      OBVIOUS
    <3>3. 200 - 2 * y <= 100
      BY <2>3
    <3>4. 5000 \div x \in Nat
      BY <1>5
    <3> QED
      BY <2>3, <3>1, <3>2, <3>3, <3>4
  <2> QED
    BY <1>5, <2>1, <2>2, <2>3
<1>6. Factor(50) = 100
  BY DEF Factor, AtMost, AtLeast
<1> HIDE DEF F, Clamped
<1>7. \A q \in Nat : Factor(q) \in Nat
  BY <1>1, <1>2, <1>3
<1>8. \A p, q \in Nat : p <= q => Factor(q) <= Factor(p)
  BY <1>1, <1>2, <1>5
<1> QED
  BY <1>6, <1>7, <1>8

\* A table entry is no coarser for a higher q, though it is a quotient cut to
\* a byte, and with 50 it is that of the base tables (jpeg_synth.c:101-113).
THEOREM TablesOrdered ==
    ASSUME NEW b \in Bases
    PROVE  /\ \A p, q \in Nat : p <= q => DefaultTables(q)[b] <= DefaultTables(p)[b]
           /\ DefaultTables(50)[b] = b
<1>1. b \in Nat /\ 1 <= b /\ b <= 255
  BY BasesAssumption
<1>2. \A q \in Nat : DefaultTables(q)[b] = ScaleQuant(b, Factor(q))
  BY DEF DefaultTables
<1>3. ASSUME NEW x \in Nat, NEW y \in Nat, x <= y
      PROVE  ScaleQuant(b, x) <= ScaleQuant(b, y)
  <2> DEFINE u == b * x
             v == b * y
             i == (u + 50) \div 100
             j == (v + 50) \div 100
  <2>1. u \in Nat /\ v \in Nat /\ u <= v
    BY <1>1, <1>3, ProductMonotone
  <2> HIDE DEF u, v
  <2>2. i \in Nat /\ j \in Nat /\ i <= j
    BY <2>1
  <2> HIDE DEF i, j
  <2>3. AtMost(255, AtLeast(1, i)) <= AtMost(255, AtLeast(1, j))
    BY <2>2 DEF AtMost, AtLeast
  <2> QED
    BY <2>3 DEF ScaleQuant, i, j, u, v
<1>4. ScaleQuant(b, 100) = b
  <2>1. (b * 100 + 50) \div 100 = b
    BY <1>1
  <2> QED
    BY <1>1, <2>1 DEF ScaleQuant, AtMost, AtLeast
<1>5. \A p, q \in Nat : p <= q => ScaleQuant(b, Factor(q)) <= ScaleQuant(b, Factor(p))
  BY <1>3, FactorAntitone
<1>6. DefaultTables(50)[b] = b
  <2>1. 50 \in Nat
    OBVIOUS
  <2> QED
    BY <1>2, <1>4, <2>1, FactorAntitone
<1> QED
  BY <1>2, <1>5, <1>6

\* A picture whose quality is known is of a frame that just arrived, and has the
\* default tables for its q.
QualityIsTrue ==
    Quality.known => Quality.q \in Nat /\ Quality.table = DefaultTables(Quality.q)

\* The table shown is the one jpeg_default_quant_tables makes for the frame's q.
LEMMA QualityHolds == IInv => QualityIsTrue
<1> SUFFICES ASSUME IInv, Quality.known PROVE QualityIsTrue
  BY DEF QualityIsTrue
<1> DEFINE f == last[1]
<1>1. picture.returned > 0 /\ last # None /\ JustArrived(f) /\ Frames[f].q < 128
  BY DEF Quality
<1>2. /\ Quality.q = Frames[f].q
      /\ Quality.table = (CHOOSE dqt \in InFile("DQT") : dqt[1] = 0)[2]
  BY <1>1 DEF Quality
<1>3. f \in DOMAIN Frames
  BY <1>1 DEF IInv, TypeOK, Sent
<1> HIDE DEF f
<1>4. Frames[f].q \in Nat
  BY <1>3, FrameFacts
<1>5. Assembles(f)
  <2>1. picture # NoPicture
    BY <1>1 DEF NoPicture
  <2>2. status = "FRAME_READY"
    BY <2>1 DEF IInv, Pictured
  <2> QED
    BY <1>1, <1>3, <2>2, JustArrivedFrame
<1> DEFINE t == DefaultTables(Frames[f].q)
<1>6. InFile("DQT") = {<<0, t>>, <<1, t>>}
  <2>1. picture.returned # -1
    BY <1>1
  <2>2. ~(Frames[f].type > 1 \/ Size(f) + 607 > JpegCap)
    BY <1>1, <1>3, <1>5, <2>1, PictureOfFrame
  <2>3. PICK in : /\ picture.file = FileOf(in)
                  /\ in.size = Frames[f].size /\ in.type = Frames[f].type /\ in.scan = Scan(f)
                  /\ Tables(in) = TablesOf(f)
    BY <1>1, <1>3, <1>5, <2>2, PictureOfFrame
  <2>4. Tables(in)[1] = t /\ Tables(in)[2] = t
    <3>1. ~(Frames[f].q >= 128)
      BY <1>1, <1>4
    <3> QED
      BY <2>3, <3>1 DEF TablesOf
  <2> QED
    BY <2>3, <2>4, FileLookup
<1> HIDE DEF t
<1>7. (CHOOSE dqt \in {<<0, t>>, <<1, t>>} : dqt[1] = 0) = <<0, t>>
  OBVIOUS
<1>8. Quality.table = t
  BY <1>2, <1>6, <1>7
<1> QED
  BY <1>2, <1>4, <1>8 DEF QualityIsTrue, t

\* Two such pictures in a row: the one with the higher q is not coarser
\* anywhere, and 50 gives the base tables (jpeg_synth.c:101-117).
THEOREM QualityOrders == Spec => QualityOrdersTables
<1>1. ASSUME QualityIsTrue, QualityIsTrue'
      PROVE  Quality.known /\ Quality'.known /\ Quality.q <= Quality'.q =>
                \A b \in Bases :
                    /\ Quality'.table[b] <= Quality.table[b]
                    /\ Quality'.q = 50 => Quality'.table[b] = b
  BY <1>1, TablesOrdered DEF QualityIsTrue
<1> QED
  BY Invariance, QualityHolds, <1>1, PTL DEF QualityOrdersTables

-----------------------------------------------------------------------------
(* What the parser accepts. *)

\* A number below 2^16 and its two bytes.
LEMMA TwoBytes ==
    /\ \A a, b \in Nat : b < 256 => (256 * a + b) \div 256 = a /\ (256 * a + b) % 256 = b
    /\ \A w \in Nat : /\ w \div 256 \in Nat /\ w % 256 \in Nat
                      /\ 256 * (w \div 256) + (w % 256) = w
  OBVIOUS

\* Two elements in a row.
LEMMA PairFacts ==
    ASSUME NEW S, NEW s \in Seq(S), NEW m \in Nat, m >= 1, m + 1 <= Len(s)
    PROVE  SubSeq(s, m, m + 1) = <<s[m], s[m + 1]>>
<1> DEFINE p == SubSeq(s, m, m + 1)
<1>1. \A k \in m .. m + 1 : s[k] \in S
  <2>1. SUFFICES ASSUME NEW k \in m .. m + 1 PROVE s[k] \in S
    OBVIOUS
  <2>2. k \in 1 .. Len(s)
    BY LenProperties
  <2> QED
    BY <2>2, ElementOfSeq
<1>2. m \in Int /\ m + 1 \in Int /\ m <= m + 1 /\ (m + 1) - m + 1 = 2
  OBVIOUS
<1>3. p \in Seq(S) /\ Len(p) = 2
  BY <1>1, <1>2, SubSeqProperties
<1>4. p[1] = s[m] /\ p[2] = s[m + 1]
  <2>1. \A k \in 1 .. (m + 1) - m + 1 : p[k] = s[m + k - 1]
    BY <1>1, <1>2, SubSeqProperties
  <2>2. 1 \in 1 .. (m + 1) - m + 1 /\ 2 \in 1 .. (m + 1) - m + 1 /\ m + 1 - 1 = m /\ m + 2 - 1 = m + 1
    BY <1>2
  <2>3. p[1] = s[m + 1 - 1] /\ p[2] = s[m + 2 - 1]
    BY <2>1, <2>2
  <2> QED
    BY <2>2, <2>3
<1> HIDE DEF p
<1>5. p = <<p[1], p[2]>>
  BY <1>3
<1> QED
  BY <1>4, <1>5 DEF p

\* The count in the extension header, read and written.
LEMMA ExtensionBytes ==
    ASSUME NEW d \in Strays, Len(d.rest) >= Csrcs(d) + 4, NEW w \in Nat
    PROVE  SubSeq(d.rest, Csrcs(d) + 3, Csrcs(d) + 4) = <<Byte(w \div 256), Byte(w % 256)>>
              <=> ExtensionWords(d) = w
<1> DEFINE m == Csrcs(d) + 3
           a == Value(d.rest[m])
           b == Value(d.rest[m + 1])
<1>1. Csrcs(d) \in Nat /\ d.rest \in Seq({"byte"} \X Nat) /\ Len(d.rest) \in Nat
  BY StrayFacts
<1>2. m \in Nat /\ m >= 1 /\ m + 1 = Csrcs(d) + 4 /\ m + 1 <= Len(d.rest)
  BY <1>1
<1>3. /\ m \in 1 .. Len(d.rest) /\ m + 1 \in 1 .. Len(d.rest)
  BY <1>1, <1>2
<1>4. a \in Nat /\ b \in Nat /\ b < 256 /\ d.rest[m] = Byte(a) /\ d.rest[m + 1] = Byte(b)
  BY <1>3, StrayFacts
<1>5. ExtensionWords(d) = 256 * a + b
  BY <1>2 DEF ExtensionWords
<1> HIDE DEF m, a, b
<1>6. SubSeq(d.rest, m, m + 1) = <<Byte(w \div 256), Byte(w % 256)>>
        <=> d.rest[m] = Byte(w \div 256) /\ d.rest[m + 1] = Byte(w % 256)
  <2> DEFINE T == {"byte"} \X Nat
             s == d.rest
  <2>1. s \in Seq(T) /\ m \in Nat /\ m >= 1 /\ m + 1 <= Len(s)
    BY <1>1, <1>2
  <2> HIDE DEF T, s
  <2>2. SubSeq(s, m, m + 1) = <<s[m], s[m + 1]>>
    BY <2>1, PairFacts
  <2> QED
    BY <2>2 DEF s
<1>7. d.rest[m] = Byte(w \div 256) /\ d.rest[m + 1] = Byte(w % 256)
        <=> a = w \div 256 /\ b = w % 256
  BY <1>4 DEF Byte
<1>8. a = w \div 256 /\ b = w % 256 <=> 256 * a + b = w
  BY <1>4, TwoBytes
<1> QED
  BY <1>2, <1>5, <1>6, <1>7, <1>8 DEF m

\* What is accepted is a packet.
LEMMA AcceptedIsRtp ==
    ASSUME NEW d \in Strays, RtpAccepts(d)
    PROVE  IsRtp(d)
<1> DEFINE n == Len(d.rest)
           header == HeaderLen(d)
           pad == Pad(d)
           payload == n - header - pad
<1>1. /\ n \in Nat /\ Csrcs(d) \in Nat /\ Csrcs(d) = 4 * d.fixed.cc /\ d.fixed.cc \in Nat
      /\ d.fixed.padding \in BOOLEAN /\ d.fixed.extension \in BOOLEAN
  BY StrayFacts
<1>2. /\ d.fixed.version = 2 /\ n >= Csrcs(d) /\ n >= header
      /\ d.fixed.extension => n >= Csrcs(d) + 4
      /\ d.fixed.padding => n > header /\ pad \in 1 .. n - header
  BY DEF RtpAccepts
<1>3. d.fixed.padding => n > 0
  BY <1>1, <1>2 DEF HeaderLen
<1>4. /\ header \in Nat /\ pad \in Nat
      /\ ~d.fixed.extension => header = Csrcs(d)
      /\ d.fixed.extension => /\ ExtensionWords(d) \in Nat
                              /\ header = Csrcs(d) + (4 + 4 * ExtensionWords(d))
  BY <1>2, <1>3, StrayLengths
<1>5. ~d.fixed.padding => pad = 0
  BY DEF Pad
<1>6. d.fixed.padding => d.rest[n] = Byte(pad)
  <2>1. SUFFICES ASSUME d.fixed.padding PROVE d.rest[n] = Byte(pad)
    OBVIOUS
  <2>2. n \in 1 .. n
    BY <1>1, <1>3, <2>1
  <2>3. d.rest[n] = Byte(Value(d.rest[n]))
    BY <2>2, StrayFacts
  <2> QED
    BY <2>1, <2>3 DEF Pad
<1> HIDE DEF n, header, pad
<1>7. payload \in Nat /\ header + payload + pad = n
  BY <1>1, <1>2, <1>4, <1>5
<1>8. d.fixed.padding <=> pad > 0
  BY <1>1, <1>2, <1>4, <1>5
<1>9. header \in 0 .. n /\ payload \in 0 .. n /\ pad \in 0 .. n
  BY <1>1, <1>4, <1>7
<1>10. \/ ~d.fixed.extension /\ header = 4 * d.fixed.cc
       \/ /\ d.fixed.extension
          /\ \E words \in 0 .. header :
                /\ header = 4 * (d.fixed.cc + 1 + words)
                /\ SubSeq(d.rest, header - 4 * words - 1, header - 4 * words)
                      = <<Byte(words \div 256), Byte(words % 256)>>
  <2>1. CASE ~d.fixed.extension
    BY <1>1, <1>4, <2>1
  <2>2. CASE d.fixed.extension
    <3> DEFINE w == ExtensionWords(d)
    <3>1. w \in Nat /\ header = Csrcs(d) + (4 + 4 * w)
      BY <1>4, <2>2
    <3>2. SubSeq(d.rest, Csrcs(d) + 3, Csrcs(d) + 4) = <<Byte(w \div 256), Byte(w % 256)>>
      BY <1>2, <2>2, <3>1, ExtensionBytes DEF n
    <3> HIDE DEF w
    <3>3. /\ w \in 0 .. header /\ header = 4 * (d.fixed.cc + 1 + w)
          /\ header - 4 * w - 1 = Csrcs(d) + 3 /\ header - 4 * w = Csrcs(d) + 4
      BY <1>1, <1>4, <3>1
    <3> QED
      BY <2>2, <3>2, <3>3
  <2> QED
    BY <1>1, <2>1, <2>2
<1> HIDE DEF payload
<1>11. \E h, l, p \in 0 .. n :
          /\ h + l + p = n
          /\ d.fixed.padding <=> p > 0
          /\ d.fixed.padding => d.rest[n] = Byte(p)
          /\ \/ ~d.fixed.extension /\ h = 4 * d.fixed.cc
             \/ /\ d.fixed.extension
                /\ \E words \in 0 .. h :
                      /\ h = 4 * (d.fixed.cc + 1 + words)
                      /\ SubSeq(d.rest, h - 4 * words - 1, h - 4 * words)
                            = <<Byte(words \div 256), Byte(words % 256)>>
  <2> USE <1>9
  <2> WITNESS header \in 0 .. n, payload \in 0 .. n, pad \in 0 .. n
  <2> QED
    BY <1>6, <1>7, <1>8, <1>10
<1> QED
  BY <1>2, <1>11 DEF IsRtp, n

\* A packet is accepted.
LEMMA RtpIsAccepted ==
    ASSUME NEW d \in Strays, IsRtp(d)
    PROVE  RtpAccepts(d)
<1> DEFINE n == Len(d.rest)
<1>1. /\ n \in Nat /\ Csrcs(d) \in Nat /\ Csrcs(d) = 4 * d.fixed.cc /\ d.fixed.cc \in Nat
      /\ d.fixed.padding \in BOOLEAN /\ d.fixed.extension \in BOOLEAN
  BY StrayFacts
<1>2. PICK header \in 0 .. n, payload \in 0 .. n, pad \in 0 .. n :
        /\ header + payload + pad = n
        /\ d.fixed.padding <=> pad > 0
        /\ d.fixed.padding => d.rest[n] = Byte(pad)
        /\ \/ ~d.fixed.extension /\ header = 4 * d.fixed.cc
           \/ /\ d.fixed.extension
              /\ \E words \in 0 .. header :
                    /\ header = 4 * (d.fixed.cc + 1 + words)
                    /\ SubSeq(d.rest, header - 4 * words - 1, header - 4 * words)
                          = <<Byte(words \div 256), Byte(words % 256)>>
  BY DEF IsRtp
<1>3. header \in Nat /\ payload \in Nat /\ pad \in Nat
  BY <1>1
<1>4. Pad(d) = pad
  BY <1>1, <1>2, <1>3 DEF Pad, Value, Byte
<1> HIDE DEF n
<1>5. HeaderLen(d) = header /\ n >= Csrcs(d) /\ (d.fixed.extension => n >= Csrcs(d) + 4)
  <2>1. ASSUME ~d.fixed.extension
        PROVE  HeaderLen(d) = header /\ n >= Csrcs(d)
    <3>1. header = Csrcs(d)
      BY <1>1, <1>2, <2>1
    <3>2. HeaderLen(d) = Csrcs(d)
      BY <1>1, <2>1 DEF HeaderLen
    <3> QED
      BY <1>1, <1>2, <1>3, <3>1, <3>2
  <2>2. ASSUME d.fixed.extension
        PROVE  HeaderLen(d) = header /\ n >= Csrcs(d) /\ n >= Csrcs(d) + 4
    <3>1. PICK words \in 0 .. header :
            /\ header = 4 * (d.fixed.cc + 1 + words)
            /\ SubSeq(d.rest, header - 4 * words - 1, header - 4 * words)
                  = <<Byte(words \div 256), Byte(words % 256)>>
      BY <1>2, <2>2
    <3>2. words \in Nat /\ header = 4 * (d.fixed.cc + 1 + words)
      BY <1>3, <3>1
    <3>3. /\ header = Csrcs(d) + (4 + 4 * words)
          /\ header - 4 * words - 1 = Csrcs(d) + 3 /\ header - 4 * words = Csrcs(d) + 4
      <4>1. \A c, h, k, w \in Nat : h = 4 * (c + 1 + w) /\ k = 4 * c =>
               h = k + (4 + 4 * w) /\ h - 4 * w - 1 = k + 3 /\ h - 4 * w = k + 4
        OBVIOUS
      <4> QED
        BY <1>1, <1>3, <3>2, <4>1
    <3>4. n >= Csrcs(d) /\ n >= Csrcs(d) + 4
      <4>1. header + payload + pad = n
        BY <1>2
      <4>2. header = Csrcs(d) + (4 + 4 * words)
        BY <3>3
      <4> QED
        BY <1>1, <1>3, <3>2, <4>1, <4>2
    <3>5. SubSeq(d.rest, Csrcs(d) + 3, Csrcs(d) + 4)
            = <<Byte(words \div 256), Byte(words % 256)>>
      BY <3>1, <3>3
    <3>6. ExtensionWords(d) = words
      BY <3>2, <3>4, <3>5, ExtensionBytes DEF n
    <3> QED
      BY <2>2, <3>3, <3>4, <3>6 DEF HeaderLen
  <2> QED
    BY <1>1, <2>1, <2>2
<1>6. n >= HeaderLen(d)
  BY <1>1, <1>2, <1>3, <1>5
<1>7. d.fixed.padding => n > HeaderLen(d) /\ Pad(d) \in 1 .. n - HeaderLen(d)
  BY <1>1, <1>2, <1>3, <1>4, <1>5
<1>8. d.fixed.version = 2
  BY DEF IsRtp
<1> QED
  BY <1>5, <1>6, <1>7, <1>8 DEF RtpAccepts, n

\* Of all byte strings rtp_packet_parse accepts those that are RTP packets:
\* no length in them can make it read outside (rtp_parser.c:19-65).
THEOREM AcceptsRtp == Spec => []AcceptsJustRtp
<1>1. TypeOK => AcceptsJustRtp
  BY AcceptedIsRtp, RtpIsAccepted DEF TypeOK, AcceptsJustRtp
<1> QED
  BY TypeCorrect, <1>1, PTL

=============================================================================
