------------------------------ MODULE RtspMessages ------------------------------
(***************************************************************************)
(* The RTSP messages of components/rtsp_proto: rtsp_request_build and       *)
(* rtsp_response_parse.  A request is the sequence of its lines, each with  *)
(* its width.  A response arrives as a stream of cells: a carriage return,  *)
(* a line feed, the text of a status or header line, a byte of a body.      *)
(* Header values are words (module RtspUrl); a header's name stands for     *)
(* all its spellings in capitals and small letters.                         *)
(***************************************************************************)
EXTENDS RtspUrl

CONSTANT None       \* a NULL field of a request, a field left empty of a response

MethodWidth ==
    [OPTIONS |-> 7, DESCRIBE |-> 8, SETUP |-> 5, PLAY |-> 4, PAUSE |-> 5, TEARDOWN |-> 8,
     GET_PARAMETER |-> 13]

Line(name, value, width) == [name |-> name, value |-> value, width |-> width]

Optional(name, word, prefix) ==
    IF word = None THEN <<>> ELSE <<Line(name, word, prefix + word[2])>>

\* cseq stays below 100
RequestLines(req) ==
    << Line("request", <<req.method, req.uri>>, MethodWidth[req.method] + Width(req.uri) + 12),
       Line("CSeq", req.cseq, IF req.cseq < 10 THEN 9 ELSE 10) >>
    \o Optional("User-Agent", req.user_agent, 14)
    \o Optional("Accept", req.accept, 10)
    \o Optional("Session", req.session, 11)
    \o Optional("Transport", req.transport, 13)
    \o (IF req.method = "PLAY" THEN <<Line("Range", "npt=0.000-", 19)>> ELSE <<>>)
    \o Optional("Authorization", req.authorization, 17)
    \o << Line("blank", None, 2) >>

\* Where line i starts; the length of all of it for the line after the last.
Offset(lines, i) == FoldLeft(LAMBDA n, line : n + line.width, 0, SubSeq(lines, 1, i - 1))

\* Bug variant of Fits: the terminator is not reckoned with.
FitsNoTerminator(off, n, room) == off + n <= room

\* append returns 0
Fits(off, n, room) == off + n < room

\* What vsnprintf leaves in the buffer: it cuts what comes after room - 1
\* characters.
Written(lines, room) ==
    [i \in DOMAIN lines |-> [lines[i] EXCEPT !.width = Min({@, room - 1 - Offset(lines, i)})]]

RtspRequestBuild(req, room) ==
    LET lines == RequestLines(req) IN
    IF \A i \in DOMAIN lines : Fits(Offset(lines, i), lines[i].width, room)
    THEN [returned |-> Offset(lines, Len(lines) + 1), lines |-> Written(lines, room)]
    ELSE [returned |-> -1, lines |-> <<>>]

-----------------------------------------------------------------------------

Cr == <<"cr">>
Lf == <<"lf">>

\* copy_bounded: what is too long is cut
Bounded(word, cap) == IF word[2] < cap THEN word ELSE <<word[1], cap - 1, word[3]>>

SessionMax == 64
ReasonMax == 64
Texts == {"Transport", "Content-Type", "WWW-Authenticate"}
TextMax ==
    [name \in Texts |-> CASE name = "Transport" -> 256
                          [] name = "Content-Type" -> 64
                          [] name = "WWW-Authenticate" -> 512]

NoResponse ==
    [parsed |-> FALSE, code |-> 0, reason |-> None, cseq |-> 0, session |-> None, timeout |-> 0,
     texts |-> [name \in Texts |-> None], length |-> 0, body |-> <<>>]

\* The response with one more cell read: a header line, or an end of line.
ReadCell(out, cell) ==
    LET name == cell[2]  value == cell[3] IN
    IF cell[1] # "header" THEN out
    ELSE CASE name = "CSeq" -> [out EXCEPT !.cseq = value]
           [] name = "Session" ->
                 [out EXCEPT !.session = Bounded(value.id, SessionMax),
                             !.timeout = IF value.timeout = 0 THEN @ ELSE value.timeout]
           [] name \in Texts ->
                 [out EXCEPT !.texts[name] = Bounded(value, TextMax[name])]
           [] name = "Content-Length" -> [out EXCEPT !.length = value]
           [] OTHER -> out

ReadStatus(cell) == [NoResponse EXCEPT !.code = cell[2], !.reason = Bounded(cell[3], ReasonMax)]

BlankLines(cells) ==
    {i \in 1 .. Len(cells) - 3 : SubSeq(cells, i, i + 3) = <<Cr, Lf, Cr, Lf>>}

\* Bug variant of HeaderEnd: the last blank line is taken.
HeaderEndIsLast(cells) == Max(BlankLines(cells))

HeaderEnd(cells) == Min(BlankLines(cells))

\* Bug variant of Whole: a body that ends the buffer is waited for.
WholeNeedsMore(out, available) == out.length = 0 \/ available > out.length

Whole(out, available) == available >= out.length

\* The text of the status line and, before the end of the headers, its end.
HasStatusLine(cells, end) ==
    end > 2 /\ cells[1][1] = "status" /\ SubSeq(cells, 2, 3) = <<Cr, Lf>>

ReadHeaders(cells, end) ==
    FoldLeft(ReadCell, ReadStatus(cells[1]), SubSeq(cells, 4, end - 1))

RtspResponseParse(cells) ==
    IF BlankLines(cells) = {} \/ ~HasStatusLine(cells, HeaderEnd(cells)) THEN NoResponse
    ELSE LET end == HeaderEnd(cells)
             out == ReadHeaders(cells, end)
         IN  IF Whole(out, Len(cells) - (end + 3))
             THEN [out EXCEPT !.parsed = TRUE,
                              !.body = SubSeq(cells, end + 4, end + 3 + out.length)]
             ELSE NoResponse

=============================================================================
