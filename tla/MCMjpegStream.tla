----------------------------- MODULE MCMjpegStream -----------------------------
(***************************************************************************)
(* Frames for TLC: with inline tables and without, of each type; some that  *)
(* fit both buffers, one that fits only the assembler's, one that fits      *)
(* neither; one with broken tables; one fragment long with each quality     *)
(* where the arithmetic turns.                                              *)
(***************************************************************************)
EXTENDS MjpegStream

\* n tells the frames apart.
Frame(n, cuts, type, q, tables) ==
    [cuts |-> cuts, type |-> type, q |-> q, size |-> <<n, 20 + n>>, tables |-> tables]

MCFrames == << Frame(1, <<0, 1, 3>>, 1, 50, "none"),
               Frame(2, <<0, 1, 2, 4, 6>>, 0, 255, "good"),
               Frame(3, <<0, 2, 4, 8>>, 1, 128, "good"),
               Frame(4, <<0, 2, 3>>, 0, 128, "bad"),
               Frame(5, <<0, 2, 4>>, 0, 128, "good"),
               Frame(6, <<0, 2, 5>>, 2, 127, "none"),
               Frame(7, <<0, 2>>, 64, 75, "none"),
               Frame(8, <<0, 1>>, 0, 0, "none"),
               Frame(9, <<0, 1>>, 1, 1, "none"),
               Frame(10, <<0, 1>>, 0, 49, "none"),
               Frame(11, <<0, 1>>, 0, 99, "none"),
               Frame(12, <<0, 1>>, 0, 127, "none") >>

\* Two frames are enough for one to be mixed with the other.
TwoFrames == << Frame(1, <<0, 1, 2>>, 0, 128, "good"), Frame(2, <<0, 1, 3>>, 1, 50, "none") >>

MCBytes == ({"scan"} \X (1..12) \X (0..7)) \cup ({"byte"} \X (0..255))
           \cup ({"luma", "chroma"} \X (1..12))

\* The least, the greatest and some middling entries of the base tables.
MCBases == {10, 11, 12, 16, 17, 50, 99, 121}

Wrap(cc, words, pad) == [cc |-> cc, words |-> words, pad |-> pad]

MCWraps == {Wrap(0, -1, 0), Wrap(1, -1, 1), Wrap(2, 1, 3)}

Plain == {Wrap(0, -1, 0)}

\* Each of the parser's lengths at, before and after its end.  words is where
\* an extension has its length, pad is where the padding is counted.  What is
\* left of nine bytes may be a payload with a header of its own.
Lengths ==
    LET Rest(n, cc, words, pad) ==
            [i \in 1 .. n |-> Byte(IF i = n THEN pad ELSE IF i = 4 * cc + 4 THEN words ELSE 0)]
        Fixed == [version : {2}, padding : BOOLEAN, extension : BOOLEAN, cc : {0, 1},
                  marker : {TRUE}]
    IN  {[fixed |-> Runt, rest |-> <<>>]} \cup
        {[fixed |-> fixed, rest |-> Rest(n, fixed.cc, wp[1], wp[2])] :
             fixed \in Fixed, n \in {0, 4, 5, 9}, wp \in {<<0, 0>>, <<0, 2>>, <<1, 1>>}}

\* A payload of n bytes that mjpeg_rtp_feed finds a header in; low is the
\* length the header of the tables claims.
Jpeg(n, offset, type, q, low, marker) ==
    LET head == <<0, offset \div 65536, (offset \div 256) % 256, offset % 256, type, q, 40, 30>>
    IN  [fixed |-> [version |-> 2, padding |-> FALSE, extension |-> FALSE, cc |-> 0,
                    marker |-> marker],
         rest |-> [i \in 1 .. n |-> Byte(IF i <= 8 THEN head[i] ELSE IF i = 11 THEN 0
                                         ELSE IF i = 12 THEN low
                                         ELSE IF i \in 77 .. 140 THEN 2 ELSE 1)]]

\* Such payloads start a frame, with and without data; continue one, a
\* camera's or their own, beyond its end or beyond the buffer; are one byte
\* short of the header or of the tables or claim another length of them; or
\* have a type that is not known or not allowed.
Foreign ==
    {Jpeg(7, 0, 0, 0, 1, TRUE), Jpeg(8, 0, 1, 50, 1, FALSE), Jpeg(8, 0, 1, 50, 1, TRUE),
     Jpeg(9, 0, 63, 127, 1, FALSE), Jpeg(9, 0, 64, 50, 1, FALSE),
     Jpeg(9, 1, 0, 200, 1, FALSE), Jpeg(9, 1, 0, 50, 1, TRUE), Jpeg(8, 2, 0, 0, 1, FALSE),
     Jpeg(12, 2, 0, 0, 1, FALSE), Jpeg(9, 257, 0, 0, 1, TRUE), Jpeg(15, 0, 0, 0, 1, TRUE),
     Jpeg(11, 0, 0, 128, 0, FALSE), Jpeg(139, 0, 0, 128, 128, FALSE),
     Jpeg(141, 0, 0, 128, 127, TRUE), Jpeg(140, 0, 0, 255, 128, FALSE),
     Jpeg(141, 0, 0, 128, 128, FALSE)}

MCStrays == Lengths \cup Foreign

NoStrays == {}

=============================================================================
