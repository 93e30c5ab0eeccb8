--------------------------------- MODULE RtspUrl ---------------------------------
(***************************************************************************)
(* rtsp_url_parse, of components/rtsp_proto.  A text is a sequence of       *)
(* tokens: the separators ":", "/" and "@", one character each, and words   *)
(* and numbers, which are known by their name or value and have a width,    *)
(* the number of their characters.                                          *)
(***************************************************************************)
EXTENDS Integers, Sequences, SequencesExt

Sep(c) == <<c, 1>>
Word(name, width) == <<"word", width, name>>
Digits(n, width) == <<"digits", width, n>>

\* strlen
Width(text) == FoldLeft(LAMBDA n, token : n + token[2], 0, text)

\* strtol of digits
Number(text) == FoldLeft(LAMBDA n, token : n * 10 ^ token[2] + token[3], 0, text)

Has(text, c) == \E i \in DOMAIN text : text[i] = Sep(c)

\* The text before and after its first c; all of it and nothing without one.
Before(text, c) == SubSeq(text, 1, SelectInSeq(text \o <<Sep(c)>>, LAMBDA t : t = Sep(c)) - 1)
After(text, c) == SubSeq(text, Len(Before(text, c)) + 2, Len(text))

Slashes == <<Sep(":"), Sep("/"), Sep("/")>>

SchemeEnds(url) == {i \in 1 .. Len(url) - 2 : SubSeq(url, i, i + 2) = Slashes}

\* Bug variant of Authority: the authority does not end at the path.
AuthorityIsRest(rest) == rest

Authority(rest) == Before(rest, "/")

Path(rest) ==
    IF Has(rest, "/") THEN SubSeq(rest, Len(Before(rest, "/")) + 1, Len(rest)) ELSE <<Sep("/")>>

ShortDigits(text) == Width(text) \in 1..5 /\ \A i \in DOMAIN text : text[i][1] = "digits"

\* Bug variant of IsPort: the range is not checked.
IsPortAny(text) == ShortDigits(text)

Ports == 1..65535

IsPort(text) == ShortDigits(text) /\ Number(text) \in Ports

\* the sizes of rtsp_url_t's fields, with their terminators
UrlMax == [scheme |-> 8, user |-> 64, password |-> 64, host |-> 128, path |-> 256]

RtspUrlParse(url) ==
    LET schemeEnd == Min(SchemeEnds(url))
        rest      == SubSeq(url, schemeEnd + 3, Len(url))
        authority == Authority(rest)
        userinfo  == IF Has(authority, "@") THEN Before(authority, "@") ELSE <<>>
        hostport  == IF Has(authority, "@") THEN After(authority, "@") ELSE authority
        port      == After(hostport, ":")
        out == [parsed |-> TRUE,
                scheme |-> SubSeq(url, 1, schemeEnd - 1),
                user |-> Before(userinfo, ":"), password |-> After(userinfo, ":"),
                host |-> Before(hostport, ":"),
                port |-> IF ~Has(hostport, ":") THEN 554
                         ELSE IF IsPort(port) THEN Number(port) ELSE 0,
                path |-> Path(rest)]
    IN  IF /\ SchemeEnds(url) # {}
           /\ schemeEnd > 1
           /\ out.host # <<>>
           /\ out.port # 0
           /\ \A part \in DOMAIN UrlMax : Width(out[part]) < UrlMax[part]
        THEN out ELSE [parsed |-> FALSE]

=============================================================================
