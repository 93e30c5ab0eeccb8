------------------------------- MODULE MjpegRtp -------------------------------
(***************************************************************************)
(* The RTP/JPEG assembler, components/mjpeg_rtp: fragments of a frame's     *)
(* scan data go in, one RTP payload at a time; a frame comes out when the   *)
(* payload with the marker bit completes it.  The assembler sees fragment   *)
(* offsets only: mjpeg_rtp_feed is given neither the timestamp nor the      *)
(* sequence number of the packet.                                           *)
(*                                                                          *)
(* A payload is modelled by what the assembler tells apart: whether it is   *)
(* well-formed, its offset, the header fields it keeps for the decoder, its *)
(* inline quantization tables, its scan bytes and the marker.  Bytes are    *)
(* opaque.                                                                  *)
(***************************************************************************)
EXTENDS Naturals, Sequences

CONSTANTS
    Bytes,      \* what scan data and tables are made of, one value per byte
    BufCap,     \* mjpeg_rtp_create's buf_capacity
    None        \* no header seen yet; no inline tables

ASSUME BufCapAssumption == BufCap \in Nat \ {0}     \* create refuses 0

\* size is width and height in blocks of eight.
Headers == [type : Nat, q : Nat, size : Nat \X Nat]

\* the luma and the chroma table
InlineTables == Seq(Bytes) \X Seq(Bytes)

\* wellformed: at least 8 bytes long, and a type below 64 (no restart
\* markers).  tables: q >= 128 asks for inline tables at offset 0, which are
\* "good" when their header and all 128 bytes are there, "bad" otherwise; qt
\* are those that are good.
Payloads == [wellformed : BOOLEAN, offset : Nat, header : Headers,
             tables : {"none", "good", "bad"}, qt : InlineTables \cup {None},
             chunk : Seq(Bytes), marker : BOOLEAN]

\* struct mjpeg_rtp_assembler; scan is the first scan_len units of buf, qt is
\* None while qt_present is false
Assemblers == [scan : Seq(Bytes), inFrame : BOOLEAN, expected : Nat,
               header : Headers \cup {None}, qt : InlineTables \cup {None}]

MjpegCreate ==
    [scan |-> <<>>, inFrame |-> FALSE, expected |-> 0, header |-> None, qt |-> None]

\* The header fields of the frame given up stay behind.
MjpegReset(a) ==
    [a EXCEPT !.scan = <<>>, !.inFrame = FALSE, !.expected = 0, !.qt = None]

\* The assembler when the scan bytes of p are about to be appended.
Opened(a, p) ==
    IF p.offset = 0
    THEN [scan |-> <<>>, inFrame |-> TRUE, expected |-> 0, header |-> p.header, qt |-> p.qt]
    ELSE a

\* Bug variant of Continues: a frame starts only when none is in progress.
ContinuesNoRestart(a, p) ==
    IF p.offset = 0 THEN p.tables # "bad" /\ ~a.inFrame
    ELSE a.inFrame /\ p.offset = a.expected

\* p starts a frame, or is the next fragment of the one in progress.
Continues(a, p) ==
    IF p.offset = 0 THEN p.tables # "bad" ELSE a.inFrame /\ p.offset = a.expected

\* Bug variant of Fits: the check forgets what is already there.
FitsAlone(a, p) == Len(p.chunk) <= BufCap

Fits(a, p) == Len(Opened(a, p).scan) + Len(p.chunk) <= BufCap

Accepts(a, p) == p.wellformed /\ Continues(a, p) /\ Fits(a, p)

\* Bug variant of MjpegFeed: the header of the first frame is kept for good.
MjpegFeedKeepsHeader(a, p) ==
    IF Accepts(a, p)
    THEN [Opened(a, p) EXCEPT !.scan = @ \o p.chunk,
                              !.expected = p.offset + Len(p.chunk),
                              !.inFrame = ~p.marker,
                              !.header = IF a.header = None THEN @ ELSE a.header]
    ELSE MjpegReset(IF p.wellformed THEN Opened(a, p) ELSE a)

\* mjpeg_rtp_feed's effect on the assembler
MjpegFeed(a, p) ==
    IF Accepts(a, p)
    THEN [Opened(a, p) EXCEPT !.scan = @ \o p.chunk,
                              !.expected = p.offset + Len(p.chunk),
                              !.inFrame = ~p.marker]
    ELSE MjpegReset(IF p.wellformed THEN Opened(a, p) ELSE a)

\* what mjpeg_rtp_feed returns
MjpegStatus(a, p) ==
    IF ~Accepts(a, p) THEN "DROPPED"
    ELSE IF p.marker THEN "FRAME_READY" ELSE "OK"

=============================================================================
