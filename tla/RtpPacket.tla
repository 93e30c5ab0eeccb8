-------------------------------- MODULE RtpPacket --------------------------------
(***************************************************************************)
(* The RTP packet parser, components/rtp_parser.  A datagram is its twelve  *)
(* fixed bytes, as a record of the fields that steer the parser, and the    *)
(* cells after them.  A cell is <<kind, value>>: a "byte" with its value,   *)
(* or something of the payload that the parser only passes on.              *)
(***************************************************************************)
EXTENDS Naturals, Sequences

\* A datagram shorter than the fixed header.
Runt == [version |-> 0, padding |-> FALSE, extension |-> FALSE, cc |-> 0, marker |-> FALSE]

Byte(n) == <<"byte", n>>
Value(cell) == cell[2]

Csrcs(d) == 4 * d.fixed.cc

ExtensionWords(d) == 256 * Value(d.rest[Csrcs(d) + 3]) + Value(d.rest[Csrcs(d) + 4])

\* the bytes of rest before the payload
HeaderLen(d) ==
    Csrcs(d) + IF d.fixed.extension THEN 4 + 4 * ExtensionWords(d) ELSE 0

Pad(d) == IF d.fixed.padding THEN Value(d.rest[Len(d.rest)]) ELSE 0

\* Bug variant of RtpAccepts: a padding count of zero, or one that reaches
\* into the header extension, is not noticed.
RtpAcceptsAnyPad(d) ==
    /\ d.fixed.version = 2
    /\ Len(d.rest) >= Csrcs(d)
    /\ d.fixed.extension => Len(d.rest) >= Csrcs(d) + 4
    /\ Len(d.rest) >= HeaderLen(d)
    /\ d.fixed.padding => Len(d.rest) > HeaderLen(d) /\ Pad(d) <= Len(d.rest)

\* rtp_packet_parse returns true
RtpAccepts(d) ==
    /\ d.fixed.version = 2
    /\ Len(d.rest) >= Csrcs(d)
    /\ d.fixed.extension => Len(d.rest) >= Csrcs(d) + 4
    /\ Len(d.rest) >= HeaderLen(d)
    /\ d.fixed.padding =>
          /\ Len(d.rest) > HeaderLen(d)
          /\ Pad(d) \in 1 .. Len(d.rest) - HeaderLen(d)

\* out->payload and out->payload_len of a packet accepted
RtpPayload(d) == SubSeq(d.rest, HeaderLen(d) + 1, Len(d.rest) - Pad(d))

-----------------------------------------------------------------------------

\* What RFC 3550 calls a packet.  wrap has the number of CSRCs, the header
\* extension's words (-1: there is none) and the padding (0: there is none).
RtpBuild(wrap, payload, marker) ==
    [fixed |-> [version |-> 2, padding |-> wrap.pad > 0, extension |-> wrap.words >= 0,
                cc |-> wrap.cc, marker |-> marker],
     rest |-> [i \in 1 .. 4 * wrap.cc |-> Byte(1)]
              \o (IF wrap.words < 0 THEN <<>>
                  ELSE <<Byte(0), Byte(0), Byte(wrap.words \div 256), Byte(wrap.words % 256)>>
                       \o [i \in 1 .. 4 * wrap.words |-> Byte(1)])
              \o payload
              \o [i \in 1 .. wrap.pad |-> Byte(IF i = wrap.pad THEN wrap.pad ELSE 0)]]

=============================================================================
