---------------------------- MODULE RtspSessionProofs ----------------------------
(***************************************************************************)
(* Proofs about a session of the RTSP client with a camera, for any URLs,    *)
(* cameras and buffers, any number of requests on their way, and any cutting *)
(* of the stream of responses.                                              *)
(*                                                                          *)
(* The invariant (SessionInv) says of every request not answered yet that it *)
(* is whole, of every response owed that it is one a camera gives to its     *)
(* request, and of the client's buffer with what is still on the wire that   *)
(* it is the cells of the responses owed, one after the other (Stream).      *)
(* Where a request can be in flight depends on where the client is (Phase).  *)
(*                                                                          *)
(* To take an answer is then to read the first of the responses owed:       *)
(* ArrivedIsRead says what is read of a stream that begins with a response, *)
(* by ResponseIsFramed of RtspClientProofs.                                 *)
(***************************************************************************)
EXTENDS RtspClientProofs

-----------------------------------------------------------------------------
(* Sequences, whatever is in them. *)

\* A sequence of anything.
IsList(s) == \E S : s \in Seq(S)

\* What a list is.
LEMMA ListIs ==
    ASSUME NEW s, IsList(s)
    PROVE  Len(s) \in Nat /\ DOMAIN s = 1 .. Len(s)
<1>1. PICK S : s \in Seq(S)
  BY DEF IsList
<1> QED
  BY <1>1, LenProperties

\* A function on the numbers up to n is a list.
LEMMA MadeList ==
    ASSUME NEW s, NEW n \in Nat, DOMAIN s = 1 .. n, s = [i \in 1 .. n |-> s[i]]
    PROVE  IsList(s) /\ Len(s) = n
<1> DEFINE S == {s[i] : i \in 1 .. n}
<1>1. s \in [1 .. n -> S]
  OBVIOUS
<1> HIDE DEF S
<1>2. s \in Seq(S)
  BY <1>1
<1>3. Len(s) \in Nat /\ DOMAIN s = 1 .. Len(s)
  BY <1>2, LenProperties
<1> QED
  BY <1>2, <1>3 DEF IsList

\* Lists are equal if their elements are.
LEMMA ListEqual ==
    ASSUME NEW s, NEW t, IsList(s), IsList(t), Len(s) = Len(t), \A i \in 1 .. Len(s) : s[i] = t[i]
    PROVE  s = t
<1>1. PICK S : s \in Seq(S)
  BY DEF IsList
<1>2. PICK T : t \in Seq(T)
  BY DEF IsList
<1>3. s \in Seq(S \cup T) /\ t \in Seq(S \cup T)
  BY <1>1, <1>2
<1> QED
  BY <1>3, SeqEqual

\* One more element.
LEMMA ListAppend ==
    ASSUME NEW s, IsList(s), NEW e
    PROVE  /\ IsList(Append(s, e)) /\ Len(Append(s, e)) = Len(s) + 1
           /\ \A i \in 1 .. Len(s) : Append(s, e)[i] = s[i]
           /\ Append(s, e)[Len(s) + 1] = e
<1>1. PICK S : s \in Seq(S)
  BY DEF IsList
<1> DEFINE T == S \cup {e}
<1>2. s \in Seq(T) /\ e \in T
  BY <1>1
<1> HIDE DEF T
<1>3. Append(s, e) \in Seq(T)
  BY <1>2, AppendProperties
<1> QED
  BY <1>2, <1>3, AppendProperties, LenProperties DEF IsList

\* The first element and the others.
LEMMA ListTail ==
    ASSUME NEW s, IsList(s), s # <<>>
    PROVE  /\ Len(s) > 0 /\ Head(s) = s[1]
           /\ IsList(Tail(s)) /\ Len(Tail(s)) = Len(s) - 1
           /\ \A i \in 1 .. Len(s) - 1 : Tail(s)[i] = s[i + 1]
<1>1. PICK S : s \in Seq(S)
  BY DEF IsList
<1>2. Tail(s) \in Seq(S)
  BY <1>1, HeadTailProperties
<1>3. /\ Len(s) > 0 /\ Head(s) = s[1] /\ Len(Tail(s)) = Len(s) - 1
      /\ \A i \in 1 .. Len(s) - 1 : Tail(s)[i] = s[i + 1]
  BY <1>1, <1>2, HeadTailProperties, LenProperties
<1> QED
  BY <1>2, <1>3 DEF IsList

\* One list behind the other.
LEMMA ListConcat ==
    ASSUME NEW s, NEW t, IsList(s), IsList(t)
    PROVE  /\ IsList(s \o t) /\ Len(s \o t) = Len(s) + Len(t)
           /\ \A i \in 1 .. Len(s) : (s \o t)[i] = s[i]
           /\ \A i \in 1 .. Len(t) : (s \o t)[Len(s) + i] = t[i]
<1>1. PICK S : s \in Seq(S)
  BY DEF IsList
<1>2. PICK T : t \in Seq(T)
  BY DEF IsList
<1>3. s \in Seq(S \cup T) /\ t \in Seq(S \cup T)
  BY <1>1, <1>2
<1>4. Len(s) \in Nat /\ Len(t) \in Nat
  BY ListIs
<1>5. /\ s \o t \in Seq(S \cup T) /\ Len(s \o t) = Len(s) + Len(t)
      /\ \A i \in 1 .. Len(s) + Len(t) : (s \o t)[i] = IF i <= Len(s) THEN s[i] ELSE t[i - Len(s)]
  BY <1>3, ConcatProperties
<1> DEFINE both == s \o t
<1> HIDE DEF both
<1>6. \A i \in 1 .. Len(s) : both[i] = s[i]
  BY <1>4, <1>5 DEF both
<1>7. ASSUME NEW i \in 1 .. Len(t) PROVE both[Len(s) + i] = t[i]
  <2>1. Len(s) + i \in 1 .. Len(s) + Len(t) /\ ~(Len(s) + i <= Len(s)) /\ (Len(s) + i) - Len(s) = i
    BY <1>4
  <2> QED
    BY <1>5, <2>1 DEF both
<1> QED
  BY <1>5, <1>6, <1>7 DEF IsList, both

\* A part of a list.
LEMMA ListPart ==
    ASSUME NEW s, IsList(s), NEW a \in Nat, NEW b \in Nat, 1 <= a, a <= b + 1, b <= Len(s)
    PROVE  /\ IsList(SubSeq(s, a, b)) /\ Len(SubSeq(s, a, b)) = b + 1 - a
           /\ \A i \in 1 .. b + 1 - a : SubSeq(s, a, b)[i] = s[a + i - 1]
<1>1. PICK S : s \in Seq(S)
  BY DEF IsList
<1>2. Len(s) \in Nat /\ \A i \in a .. b : s[i] \in S
  <2>1. Len(s) \in Nat /\ \A i \in a .. b : i \in 1 .. Len(s)
    BY <1>1, LenProperties
  <2> QED
    BY <1>1, <2>1, ElementOfSeq
<1>3. CASE a = b + 1
  <2>1. SubSeq(s, a, b) = <<>>
    <3>1. a \in Int /\ b \in Int /\ b < a
      BY <1>3
    <3> QED
      BY <3>1, SubSeqEmpty
  <2>2. IsList(<<>>) /\ Len(<<>>) = 0 /\ b + 1 - a = 0
    <3>1. <<>> \in Seq(S)
      OBVIOUS
    <3> QED
      BY <1>3, <3>1 DEF IsList
  <2> QED
    BY <2>1, <2>2
<1>4. CASE a <= b
  <2>1. a \in Int /\ b \in Int /\ b + 1 - a = b - a + 1
    OBVIOUS
  <2>2. /\ SubSeq(s, a, b) \in Seq(S) /\ Len(SubSeq(s, a, b)) = b - a + 1
        /\ \A i \in 1 .. b - a + 1 : SubSeq(s, a, b)[i] = s[a + i - 1]
    BY <1>2, <1>4, <2>1, SubSeqProperties
  <2> QED
    BY <2>1, <2>2 DEF IsList
<1> QED
  BY <1>3, <1>4

\* The list without its first element, as it is removed by its place.
LEMMA RemoveFirstElement ==
    ASSUME NEW s, IsList(s), s # <<>>
    PROVE  RemoveAt(s, 1) = Tail(s)
<1>1. Len(s) \in Nat /\ Len(s) > 0
  BY ListIs, ListTail
<1>2. /\ IsList(SubSeq(s, 1, 0)) /\ Len(SubSeq(s, 1, 0)) = 0
      /\ IsList(SubSeq(s, 2, Len(s))) /\ Len(SubSeq(s, 2, Len(s))) = Len(s) - 1
      /\ \A i \in 1 .. Len(s) - 1 : SubSeq(s, 2, Len(s))[i] = s[i + 1]
  <2>1. /\ IsList(SubSeq(s, 1, 0)) /\ Len(SubSeq(s, 1, 0)) = 0 + 1 - 1
    BY <1>1, ListPart
  <2> DEFINE n == Len(s)
  <2>2. n \in Nat /\ 2 \in Nat /\ 1 <= 2 /\ 2 <= n + 1 /\ n <= Len(s)
    BY <1>1
  <2>3. /\ IsList(SubSeq(s, 2, n)) /\ Len(SubSeq(s, 2, n)) = n + 1 - 2
        /\ \A i \in 1 .. n + 1 - 2 : SubSeq(s, 2, n)[i] = s[2 + i - 1]
    BY <2>2, ListPart
  <2>4. n + 1 - 2 = n - 1 /\ \A i \in 1 .. n - 1 : 2 + i - 1 = i + 1
    BY <1>1
  <2> QED
    BY <2>1, <2>3, <2>4
<1> DEFINE x == SubSeq(s, 1, 0)
           y == SubSeq(s, 2, Len(s))
<1>3. RemoveAt(s, 1) = x \o y
  BY DEF RemoveAt
<1> HIDE DEF x, y
<1>4. IsList(x \o y) /\ Len(x \o y) = 0 + (Len(s) - 1) /\ \A i \in 1 .. Len(s) - 1 : (x \o y)[0 + i] = y[i]
  BY <1>2, ListConcat DEF x, y
<1>5. IsList(Tail(s)) /\ Len(Tail(s)) = Len(s) - 1 /\ \A i \in 1 .. Len(s) - 1 : Tail(s)[i] = s[i + 1]
  BY ListTail
<1> DEFINE z == x \o y
           w == Tail(s)
<1>6. /\ Len(z) = Len(w) /\ \A i \in 1 .. Len(z) : z[i] = w[i]
      /\ IsList(z) /\ IsList(w)
  <2>1. Len(z) = Len(s) - 1 /\ \A i \in 1 .. Len(s) - 1 : 0 + i = i /\ y[i] = s[i + 1]
    BY <1>1, <1>2, <1>4 DEF y
  <2> QED
    BY <1>4, <1>5, <2>1
<1> HIDE DEF z, w
<1>7. z = w
  BY <1>6, ListEqual
<1> QED
  BY <1>3, <1>7 DEF z, w

-----------------------------------------------------------------------------
(* The parts of a URL and their widths. *)

\* The parts of a text that is accepted are texts of the same tokens.
LEMMA PartsTyped ==
    ASSUME NEW T, Sep("@") \in T, Sep(":") \in T, Sep("/") \in T, NEW text \in Seq(T),
           RtspUrlParse(text).parsed
    PROVE  LET out == RtspUrlParse(text) IN
           /\ out.scheme \in Seq(T) /\ out.user \in Seq(T) /\ out.password \in Seq(T)
           /\ out.host \in Seq(T) /\ out.path \in Seq(T)
<1> DEFINE out == RtspUrlParse(text)
           rest == Rest(text)
           authority == Authority(rest)
           userinfo == UserInfo(authority)
           hostport == HostPort(authority)
<1>1. /\ SchemeEnds(text) # {}
      /\ out.scheme = SubSeq(text, 1, SchemeEnd(text) - 1)
      /\ out.user = Before(userinfo, ":") /\ out.password = After(userinfo, ":")
      /\ out.host = Before(hostport, ":")
      /\ out.path = Path(rest)
  BY ReadsParts
<1> HIDE DEF out
<1>2. out.scheme \in Seq(T) /\ rest \in Seq(T)
  BY <1>1, SchemeCut
<1> HIDE DEF rest
<1>3. authority \in Seq(T) /\ Path(rest) \in Seq(T)
  <2>1. /\ Authority(rest) \in Seq(T)
        /\ \E end \in {Path(rest)} \cup (IF Path(rest) = <<Sep("/")>> THEN {<<>>} ELSE {}) :
              end \in Seq(T) /\ rest = Authority(rest) \o end
    BY <1>2, PathCut
  <2>2. <<Sep("/")>> \in Seq(T)
    OBVIOUS
  <2> QED
    BY <2>1, <2>2
<1> HIDE DEF authority
<1>4. userinfo \in Seq(T) /\ hostport \in Seq(T)
  <2>1. Before(authority, "@") \in Seq(T) /\ After(authority, "@") \in Seq(T)
    BY <1>3, Cut
  <2>2. <<>> \in Seq(T)
    OBVIOUS
  <2> QED
    BY <1>3, <2>1, <2>2 DEF UserInfo, HostPort
<1> HIDE DEF userinfo, hostport
<1>5. Before(userinfo, ":") \in Seq(T) /\ After(userinfo, ":") \in Seq(T) /\ Before(hostport, ":") \in Seq(T)
  BY <1>4, Cut
<1> QED
  BY <1>1, <1>2, <1>3, <1>5 DEF out

\* The parts fit into the fields they are copied to, and the port is a port.
LEMMA PartsFit ==
    ASSUME NEW text, RtspUrlParse(text).parsed
    PROVE  LET out == RtspUrlParse(text) IN
           /\ out.port \in {554} \cup Ports
           /\ \A part \in DOMAIN UrlMax : Width(out[part]) < UrlMax[part]
<1> DEFINE schemeEnd == Min(SchemeEnds(text))
           rest      == SubSeq(text, schemeEnd + 3, Len(text))
           authority == Authority(rest)
           userinfo  == IF Has(authority, "@") THEN Before(authority, "@") ELSE <<>>
           hostport  == IF Has(authority, "@") THEN After(authority, "@") ELSE authority
           port      == After(hostport, ":")
           number == IF ~Has(hostport, ":") THEN 554
                     ELSE IF IsPort(port) THEN Number(port) ELSE 0
           out == [parsed |-> TRUE,
                   scheme |-> SubSeq(text, 1, schemeEnd - 1),
                   user |-> Before(userinfo, ":"), password |-> After(userinfo, ":"),
                   host |-> Before(hostport, ":"),
                   port |-> number,
                   path |-> Path(rest)]
           accepted == /\ SchemeEnds(text) # {}
                       /\ schemeEnd > 1
                       /\ out.host # <<>>
                       /\ out.port # 0
                       /\ \A part \in DOMAIN UrlMax : Width(out[part]) < UrlMax[part]
<1>1. RtspUrlParse(text) = IF accepted THEN out ELSE [parsed |-> FALSE]
  BY DEF RtspUrlParse
<1>2. out.port = number
  OBVIOUS
<1>3. number = 0 \/ number \in {554} \cup Ports
  <2> HIDE DEF port, hostport
  <2> QED
    BY DEF IsPort
<1> HIDE DEF out, number
<1>4. accepted /\ RtspUrlParse(text) = out
  <2>1. ~[parsed |-> FALSE].parsed
    OBVIOUS
  <2> HIDE DEF accepted
  <2> QED
    BY <1>1, <2>1
<1>5. out.port # 0 /\ \A part \in DOMAIN UrlMax : Width(out[part]) < UrlMax[part]
  BY <1>4
<1> HIDE DEF accepted
<1> QED
  BY <1>2, <1>3, <1>4, <1>5

\* Of numbers up to n, one is the greatest.
LEMMA MaxOf ==
    ASSUME NEW n \in Nat, NEW s \in SUBSET (1 .. n), s # {}
    PROVE  Max(s) \in s /\ \A i \in s : i <= Max(s)
<1> DEFINE down == {d \in 0 .. n : n - d \in s}
           least == Min(down)
<1>1. \A i \in s : i \in Nat /\ i <= n /\ n - i \in 0 .. n /\ n - (n - i) = i
  OBVIOUS
<1>2. \A i \in s : n - i \in down
  BY <1>1
<1>3. down \in SUBSET Nat /\ down # {}
  <2>1. PICK i \in s : TRUE
    OBVIOUS
  <2>2. n - i \in down
    BY <1>2
  <2>3. down \in SUBSET Nat
    OBVIOUS
  <2> HIDE DEF down
  <2> QED
    BY <2>2, <2>3
<1>4. least \in down /\ \A d \in down : least <= d
  BY <1>3, MinIs
<1> HIDE DEF least
<1>5. least \in 0 .. n /\ n - least \in s
  BY <1>4
<1> HIDE DEF down
<1>6. \A i \in s : i <= n - least
  BY <1>1, <1>2, <1>4, <1>5
<1> DEFINE m == n - least
<1>7. m \in s /\ (\A i \in s : i <= m) /\ s \in SUBSET Nat
  BY <1>1, <1>5, <1>6
<1> HIDE DEF m
<1>8. Max(s) = m
  BY <1>7, MaxIs
<1> QED
  BY <1>7, <1>8

\* The width of a text is a number.
LEMMA WidthIsNat ==
    ASSUME NEW text, IsList(text), \A i \in 1 .. Len(text) : text[i][2] \in Nat
    PROVE  Width(text) \in Nat
<1> DEFINE n == Len(text)
           D == 1 .. n
           lines == [i \in D |-> [width |-> text[i][2]]]
           Step(f) == [s \in SUBSET D |-> IF s = {} THEN 0 ELSE f[s \ {Max(s)}] + text[Max(s)][2]]
           iter == CHOOSE f : f = Step(f)
<1>1. n \in Nat /\ DOMAIN text = D
  BY ListIs
<1>2. Width(text) = iter[D]
  BY <1>1 DEF Width, FoldLeft, MapThenFoldSet
<1> HIDE DEF n
<1>3. \A s \in SUBSET D : s # {} => Max(s) \in D
  BY <1>1, MaxOf
<1>4. PICK h : h = Step(h)
  <2>1. \A i \in 1 .. n : lines[i].width = text[i][2] /\ lines[i].width \in Int
    BY DEF n
  <2> HIDE DEF lines
  <2>2. PICK h : Adds(h, n, lines)
    BY <1>1, <2>1, SumsExist
  <2>3. h = Step(h)
    BY <1>3, <2>1, <2>2 DEF Adds
  <2> QED
    BY <2>3
<1>5. iter = Step(iter)
  BY <1>4
<1> HIDE DEF iter, lines
<1> DEFINE Bad == {k \in 0 .. n : iter[1 .. k] \notin Nat}
<1>6. ASSUME NEW k \in 0 .. n
      PROVE  iter[1 .. k] = IF k = 0 THEN 0 ELSE iter[1 .. k - 1] + text[k][2]
  <2>1. 1 .. k \in SUBSET D
    BY <1>1
  <2>2. iter[1 .. k] = IF 1 .. k = {} THEN 0
                       ELSE iter[(1 .. k) \ {Max(1 .. k)}] + text[Max(1 .. k)][2]
    <3> DEFINE s == 1 .. k
    <3> HIDE DEF s
    <3> QED
      BY <1>5, <2>1 DEF s
  <2>3. CASE k = 0
    <3>1. 1 .. k = {}
      BY <2>3
    <3> QED
      BY <2>2, <2>3, <3>1
  <2>4. CASE k # 0
    <3>1. k \in 1 .. k /\ 1 .. k \in SUBSET Nat /\ \A i \in 1 .. k : i <= k
      BY <1>1, <2>4
    <3>2. Max(1 .. k) = k
      BY <3>1, MaxIs
    <3>3. (1 .. k) \ {k} = 1 .. k - 1
      BY <1>1, <2>4
    <3> QED
      BY <2>2, <2>4, <3>1, <3>2, <3>3
  <2> QED
    BY <2>3, <2>4
<1>7. Bad = {}
  <2>1. SUFFICES ASSUME Bad # {} PROVE FALSE
    OBVIOUS
  <2>2. Bad \in SUBSET Nat
    BY <1>1
  <2> DEFINE least == Min(Bad)
  <2>3. least \in Bad /\ \A k \in Bad : least <= k
    BY <2>1, <2>2, MinIs
  <2> HIDE DEF least
  <2>4. least \in 0 .. n /\ iter[1 .. least] \notin Nat
    BY <2>3
  <2>5. least # 0
    BY <1>6, <2>4
  <2>6. least - 1 \in 0 .. n /\ least \in 1 .. n /\ ~(least <= least - 1)
    BY <1>1, <2>4, <2>5
  <2>7. iter[1 .. least - 1] \in Nat
    BY <2>3, <2>6
  <2>8. text[least][2] \in Nat
    BY <2>6 DEF n
  <2> QED
    BY <1>6, <2>4, <2>5, <2>7, <2>8
<1>8. iter[1 .. n] \in Nat
  <2>1. n \in 0 .. n
    BY <1>1
  <2> QED
    BY <1>7, <2>1
<1> QED
  BY <1>2, <1>8

-----------------------------------------------------------------------------
(* What a request says. *)

\* A list of one.
LEMMA OneElement ==
    ASSUME NEW e
    PROVE  IsList(<<e>>) /\ Len(<<e>>) = 1 /\ <<e>>[1] = e
<1>1. <<e>> \in Seq({e})
  OBVIOUS
<1> QED
  BY <1>1 DEF IsList

\* The lines of two lists are those of both.
LEMMA HasLineJoined ==
    ASSUME NEW x, NEW y, IsList(x), IsList(y), NEW name
    PROVE  HasLine(Joined(x, y), name) <=> HasLine(x, name) \/ HasLine(y, name)
<1> DEFINE z == x \o y
<1>1. /\ Len(x) \in Nat /\ DOMAIN x = 1 .. Len(x)
      /\ Len(y) \in Nat /\ DOMAIN y = 1 .. Len(y)
  BY ListIs
<1>2. /\ IsList(z) /\ Len(z) = Len(x) + Len(y)
      /\ \A i \in 1 .. Len(x) : z[i] = x[i]
      /\ \A i \in 1 .. Len(y) : z[Len(x) + i] = y[i]
  BY ListConcat
<1> HIDE DEF z
<1>3. DOMAIN z = 1 .. Len(x) + Len(y)
  BY <1>2, ListIs
<1>4. ASSUME HasLine(z, name) PROVE HasLine(x, name) \/ HasLine(y, name)
  <2>1. PICK i \in DOMAIN z : z[i].name = name
    BY <1>4 DEF HasLine
  <2>2. CASE i <= Len(x)
    <3>1. i \in 1 .. Len(x)
      BY <1>1, <1>3, <2>2
    <3> QED
      BY <1>1, <1>2, <2>1, <3>1 DEF HasLine
  <2>3. CASE i > Len(x)
    <3> DEFINE j == i - Len(x)
    <3>1. j \in 1 .. Len(y) /\ Len(x) + j = i
      BY <1>1, <1>3, <2>3
    <3> HIDE DEF j
    <3> QED
      BY <1>1, <1>2, <2>1, <3>1 DEF HasLine
  <2> QED
    BY <1>1, <1>3, <2>2, <2>3
<1>5. ASSUME HasLine(x, name) PROVE HasLine(z, name)
  <2>1. PICK i \in 1 .. Len(x) : x[i].name = name
    BY <1>1, <1>5 DEF HasLine
  <2>2. i \in DOMAIN z /\ z[i] = x[i]
    BY <1>1, <1>2, <1>3
  <2> QED
    BY <2>1, <2>2 DEF HasLine
<1>6. ASSUME HasLine(y, name) PROVE HasLine(z, name)
  <2>1. PICK i \in 1 .. Len(y) : y[i].name = name
    BY <1>1, <1>6 DEF HasLine
  <2>2. Len(x) + i \in DOMAIN z /\ z[Len(x) + i] = y[i]
    BY <1>1, <1>2, <1>3
  <2> QED
    BY <2>1, <2>2 DEF HasLine
<1> QED
  BY <1>4, <1>5, <1>6 DEF Joined, z

\* A list of one line has it.
LEMMA HasOneLine ==
    ASSUME NEW tag, NEW value, NEW width, NEW name
    PROVE  HasLine(<<Line(tag, value, width)>>, name) <=> tag = name
<1> DEFINE line == Line(tag, value, width)
<1>1. line.name = tag
  BY DEF Line
<1> HIDE DEF line
<1>2. DOMAIN <<line>> = {1} /\ <<line>>[1] = line
  OBVIOUS
<1>3. HasLine(<<line>>, name) <=> \E i \in {1} : <<line>>[i].name = name
  BY <1>2 DEF HasLine
<1> QED
  BY <1>1, <1>2, <1>3 DEF line

\* A line that may be left out is there if there is something to say.
LEMMA OptionalSays ==
    ASSUME NEW tag, NEW word, NEW prefix, NEW name
    PROVE  /\ IsList(Optional(tag, word, prefix))
           /\ HasLine(Optional(tag, word, prefix), name) <=> word # None /\ tag = name
<1>1. CASE word = None
  <2>1. Optional(tag, word, prefix) = <<>>
    BY <1>1 DEF Optional
  <2>2. <<>> \in Seq({})
    OBVIOUS
  <2> QED
    BY <1>1, <2>1, <2>2 DEF HasLine, IsList
<1>2. CASE word # None
  <2>1. Optional(tag, word, prefix) = <<Line(tag, word, prefix + word[2])>>
    BY <1>2 DEF Optional
  <2>2. IsList(<<Line(tag, word, prefix + word[2])>>)
    BY OneElement
  <2>3. HasLine(<<Line(tag, word, prefix + word[2])>>, name) <=> tag = name
    BY HasOneLine
  <2> QED
    BY <1>2, <2>1, <2>2, <2>3
<1> QED
  BY <1>1, <1>2

\* What the camera reads of a request.
LEMMA RequestSays ==
    ASSUME NEW req, IsRequest(req)
    PROVE  LET r == RequestLines(req) IN
           /\ r[1].value = <<req.method, req.uri>>
           /\ ValueOf(r, "CSeq") = req.cseq
           /\ Last(r) = Line("blank", None, 2)
           /\ HasLine(r, "Authorization") <=> req.authorization # None
           /\ HasLine(r, "Session") <=> req.session # None
           /\ HasLine(r, "Range") <=> req.method = "PLAY"
<1> DEFINE first == Line("request", <<req.method, req.uri>>, MethodWidth[req.method] + Width(req.uri) + 12)
           number == Line("CSeq", req.cseq, IF req.cseq < 10 THEN 9 ELSE 10)
           blank == Line("blank", None, 2)
           range == Line("Range", "npt=0.000-", 19)
           p1 == << first, number >>
           p2 == Optional("User-Agent", req.user_agent, 14)
           p3 == Optional("Accept", req.accept, 10)
           p4 == Optional("Session", req.session, 11)
           p5 == Optional("Transport", req.transport, 13)
           p6 == IF req.method = "PLAY" THEN << range >> ELSE <<>>
           p7 == Optional("Authorization", req.authorization, 17)
           p8 == << blank >>
           r == RequestLines(req)
           Tested == {"Authorization", "Session", "Range"}
<1>1. /\ first.name = "request" /\ first.value = <<req.method, req.uri>>
      /\ number.name = "CSeq" /\ number.value = req.cseq
  BY DEF Line
<1>2. r = << first, number >> \o p2 \o p3 \o p4 \o p5 \o p6 \o p7 \o p8
  BY DEF RequestLines
<1>3. /\ IsList(p2) /\ IsList(p3) /\ IsList(p4) /\ IsList(p5) /\ IsList(p7)
      /\ \A name \in Tested :
            /\ ~HasLine(p2, name) /\ ~HasLine(p3, name) /\ ~HasLine(p5, name)
            /\ HasLine(p4, name) <=> name = "Session" /\ req.session # None
            /\ HasLine(p7, name) <=> name = "Authorization" /\ req.authorization # None
  <2>1. IsList(p2) /\ \A name \in Tested : ~HasLine(p2, name)
    BY OptionalSays
  <2>2. IsList(p3) /\ \A name \in Tested : ~HasLine(p3, name)
    BY OptionalSays
  <2>3. IsList(p5) /\ \A name \in Tested : ~HasLine(p5, name)
    BY OptionalSays
  <2>4. IsList(p4) /\ \A name \in Tested : HasLine(p4, name) <=> name = "Session" /\ req.session # None
    BY OptionalSays
  <2>5. IsList(p7) /\ \A name \in Tested : HasLine(p7, name) <=> name = "Authorization" /\ req.authorization # None
    BY OptionalSays
  <2> QED
    BY <2>1, <2>2, <2>3, <2>4, <2>5
<1>4. /\ IsList(p1) /\ Len(p1) = 2 /\ p1[1] = first /\ p1[2] = number
      /\ IsList(p8) /\ Len(p8) = 1 /\ p8[1] = blank
      /\ \A name \in Tested : ~HasLine(p1, name) /\ ~HasLine(p8, name)
  <2>3. \A name \in Tested : ~HasLine(p8, name)
    BY HasOneLine
  <2> HIDE DEF first, number, blank
  <2>4. p1 \in Seq({first, number}) /\ Len(p1) = 2 /\ p1[1] = first /\ p1[2] = number
    OBVIOUS
  <2>5. \A name \in Tested : ~HasLine(p1, name)
    <3>1. DOMAIN p1 = {1, 2}
      OBVIOUS
    <3> HIDE DEF p1
    <3> QED
      BY <1>1, <2>4, <3>1 DEF HasLine
  <2>6. IsList(p8) /\ Len(p8) = 1 /\ p8[1] = blank
    BY OneElement
  <2> QED
    BY <2>3, <2>4, <2>5, <2>6 DEF IsList
<1>5. /\ IsList(p6)
      /\ \A name \in Tested : HasLine(p6, name) <=> name = "Range" /\ req.method = "PLAY"
  <2>1. CASE req.method = "PLAY"
    <3>1. p6 = <<range>>
      BY <2>1
    <3>2. \A name \in Tested : HasLine(<<range>>, name) <=> name = "Range"
      BY HasOneLine
    <3>3. IsList(<<range>>)
      BY OneElement
    <3> HIDE DEF p6, range
    <3> QED
      BY <2>1, <3>1, <3>2, <3>3
  <2>2. CASE req.method # "PLAY"
    <3>1. p6 = <<>>
      BY <2>2
    <3>2. <<>> \in Seq({})
      OBVIOUS
    <3> HIDE DEF p6
    <3> QED
      BY <2>2, <3>1, <3>2 DEF IsList, HasLine
  <2> QED
    BY <2>1, <2>2
<1> DEFINE q2 == Joined(p1, p2)
           q3 == Joined(q2, p3)
           q4 == Joined(q3, p4)
           q5 == Joined(q4, p5)
           q6 == Joined(q5, p6)
           q7 == Joined(q6, p7)
           q8 == Joined(q7, p8)
<1> HIDE DEF first, number, blank, range, p2, p3, p4, p5, p6, p7
<1>6. r = q8
  <2> HIDE DEF p1, p8
  <2>1. r = p1 \o p2 \o p3 \o p4 \o p5 \o p6 \o p7 \o p8
    BY <1>2 DEF p1
  <2> QED
    BY <2>1, Zenon DEF Joined
<1> HIDE DEF p1, p8
<1> DEFINE Starts(x) == /\ IsList(x) /\ Len(x) > 1 /\ x[1] = first /\ x[2] = number
<1>7. ASSUME NEW x, NEW y, Starts(x), IsList(y) PROVE Starts(Joined(x, y))
  <2>1. Len(x) \in Nat /\ Len(y) \in Nat
    BY <1>7, ListIs
  <2>2. /\ IsList(x \o y) /\ Len(x \o y) = Len(x) + Len(y)
        /\ \A i \in 1 .. Len(x) : (x \o y)[i] = x[i]
    BY <1>7, ListConcat
  <2>3. 1 \in 1 .. Len(x) /\ 2 \in 1 .. Len(x)
    BY <1>7, <2>1
  <2> QED
    BY <1>7, <2>1, <2>2, <2>3 DEF Joined
<1>8. Starts(p1)
  BY <1>4
<1> HIDE DEF Starts
<1>9. Starts(q2) /\ Starts(q3) /\ Starts(q4) /\ Starts(q5) /\ Starts(q6) /\ Starts(q7) /\ Starts(q8)
  <2> HIDE DEF q2, q3, q4, q5, q6, q7, q8
  <2>2. Starts(q2)
    BY <1>3, <1>7, <1>8 DEF q2
  <2>3. Starts(q3)
    BY <1>3, <1>7, <2>2 DEF q3
  <2>4. Starts(q4)
    BY <1>3, <1>7, <2>3 DEF q4
  <2>5. Starts(q5)
    BY <1>3, <1>7, <2>4 DEF q5
  <2>6. Starts(q6)
    BY <1>5, <1>7, <2>5 DEF q6
  <2>7. Starts(q7)
    BY <1>3, <1>7, <2>6 DEF q7
  <2>8. Starts(q8)
    BY <1>4, <1>7, <2>7 DEF q8
  <2> QED
    BY <2>2, <2>3, <2>4, <2>5, <2>6, <2>7, <2>8
<1>10. IsList(q2) /\ IsList(q3) /\ IsList(q4) /\ IsList(q5) /\ IsList(q6) /\ IsList(q7) /\ IsList(q8)
  BY <1>8, <1>9 DEF Starts
<1>11. /\ IsList(r) /\ Len(r) > 1 /\ r[1] = first /\ r[2] = number
  BY <1>6, <1>9 DEF Starts
<1>12. ASSUME NEW name \in Tested
       PROVE  HasLine(r, name) <=> \/ name = "Session" /\ req.session # None
                                   \/ name = "Authorization" /\ req.authorization # None
                                   \/ name = "Range" /\ req.method = "PLAY"
  <2> HIDE DEF q2, q3, q4, q5, q6, q7, q8, Tested, r
  <2>2. ~HasLine(q2, name)
    BY <1>3, <1>4, HasLineJoined DEF q2
  <2>3. ~HasLine(q3, name)
    BY <1>3, <1>10, <2>2, HasLineJoined DEF q3
  <2>4. HasLine(q4, name) <=> HasLine(p4, name)
    BY <1>3, <1>10, <2>3, HasLineJoined DEF q4
  <2>5. HasLine(q5, name) <=> HasLine(p4, name)
    BY <1>3, <1>10, <2>4, HasLineJoined DEF q5
  <2>6. HasLine(q6, name) <=> HasLine(p4, name) \/ HasLine(p6, name)
    BY <1>5, <1>10, <2>5, HasLineJoined DEF q6
  <2>7. HasLine(q7, name) <=> HasLine(p4, name) \/ HasLine(p6, name) \/ HasLine(p7, name)
    BY <1>3, <1>10, <2>6, HasLineJoined DEF q7
  <2>8. HasLine(q8, name) <=> HasLine(p4, name) \/ HasLine(p6, name) \/ HasLine(p7, name)
    BY <1>4, <1>10, <2>7, HasLineJoined DEF q8
  <2>9. /\ HasLine(p4, name) <=> name = "Session" /\ req.session # None
        /\ HasLine(p7, name) <=> name = "Authorization" /\ req.authorization # None
        /\ HasLine(p6, name) <=> name = "Range" /\ req.method = "PLAY"
    BY <1>3, <1>5
  <2> QED
    BY <1>6, <2>8, <2>9
<1>13. Last(r) = blank
  <2>1. Len(q7) \in Nat
    BY <1>10, ListIs
  <2>2. Len(q7 \o p8) = Len(q7) + 1 /\ (q7 \o p8)[Len(q7) + 1] = p8[1]
    <3> HIDE DEF q7
    <3>0. IsList(q7) /\ IsList(p8)
      BY <1>4, <1>10
    <3>1. Len(q7 \o p8) = Len(q7) + Len(p8) /\ \A i \in 1 .. Len(p8) : (q7 \o p8)[Len(q7) + i] = p8[i]
      BY <3>0, ListConcat
    <3> QED
      BY <1>4, <3>1
  <2>3. q8 = q7 \o p8
    BY DEF Joined
  <2> HIDE DEF q7, q8, r
  <2> QED
    BY <1>4, <1>6, <2>2, <2>3 DEF Last
<1> HIDE DEF r
<1>14. ValueOf(r, "CSeq") = req.cseq
  <2> DEFINE I == {i \in 1 .. Len(r) : r[i].name = "CSeq"}
  <2>1. SelectInSeq(r, LAMBDA line : line.name = "CSeq") = IF I # {} THEN Min(I) ELSE 0
    BY DEF SelectInSeq
  <2>2. I \in SUBSET Nat /\ 2 \in I /\ 1 \notin I
    <3>1. Len(r) \in Nat
      BY <1>11, ListIs
    <3> QED
      BY <1>1, <1>11, <3>1
  <2> HIDE DEF I
  <2>3. Min(I) \in I /\ Min(I) <= 2
    BY <2>2, MinIs
  <2>4. I # {} /\ 0 \notin I
    <3>1. 0 \notin I
      BY DEF I
    <3> QED
      BY <2>2, <3>1
  <2>5. Min(I) = 2
    <3> DEFINE least == Min(I)
    <3>1. least \in I /\ least <= 2 /\ least \in Nat
      BY <2>2, <2>3
    <3> HIDE DEF least
    <3>2. least = 2
      BY <2>2, <2>4, <3>1
    <3> QED
      BY <3>2 DEF least
  <2> QED
    BY <1>1, <1>11, <2>1, <2>4, <2>5 DEF ValueOf
<1> QED
  BY <1>1, <1>11, <1>12, <1>13, <1>14 DEF blank, r

-----------------------------------------------------------------------------
(* What the client sends. *)

\* The methods the client uses.
Methods == {"DESCRIBE", "SETUP", "PLAY", "GET_PARAMETER", "TEARDOWN"}

\* The texts the client holds have widths.
Texted ==
    /\ login = None \/ login = Credentials(target)
    /\ session = None \/ session[2] \in Nat
    /\ step \notin {"connect", "refused", "unreachable"} => target.parsed

\* The parts of the URL have widths.
LEMMA UriWidth ==
    ASSUME TargetIsParsed, target.parsed
    PROVE  Width(Uri(target)) \in Nat /\ Width(target.user) \in Nat /\ Width(target.password) \in Nat
<1> DEFINE All == Range(url) \cup {Sep("@"), Sep(":"), Sep("/")}
           T == {t \in All : t[2] \in Nat}
<1>1. url \in Seq(Range(url)) /\ \A i \in DOMAIN url : url[i][2] \in Nat
  BY TextsAssumption DEF TargetIsParsed
<1>2. url \in Seq(T)
  <2>1. Len(url) \in Nat /\ DOMAIN url = 1 .. Len(url) /\ url = [i \in 1 .. Len(url) |-> url[i]]
    BY <1>1, LenProperties
  <2>2. \A i \in 1 .. Len(url) : url[i] \in T
    BY <1>1, <2>1 DEF Range
  <2> HIDE DEF T
  <2>3. url \in [1 .. Len(url) -> T]
    BY <2>1, <2>2
  <2> QED
    BY <2>1, <2>3
<1>3. Sep("@") \in T /\ Sep(":") \in T /\ Sep("/") \in T
  BY DEF Sep
<1>4. \A t \in T : t[2] \in Nat
  OBVIOUS
<1> HIDE DEF T
<1>5. target = RtspUrlParse(url) /\ RtspUrlParse(url).parsed
  BY DEF TargetIsParsed
<1>6. /\ target.scheme \in Seq(T) /\ target.user \in Seq(T) /\ target.password \in Seq(T)
      /\ target.host \in Seq(T) /\ target.path \in Seq(T)
  BY <1>2, <1>3, <1>5, PartsTyped
<1>7. ASSUME NEW s \in Seq(T) PROVE Width(s) \in Nat
  <2>1. \A i \in 1 .. Len(s) : s[i] \in T
    BY LenProperties, ElementOfSeq
  <2> QED
    BY <1>4, <2>1, WidthIsNat DEF IsList
<1>8. Uri(target) \in Seq(T)
  <2>1. Slashes \in Seq(T)
    BY <1>3 DEF Slashes
  <2>2. \A x, y \in Seq(T) : x \o y \in Seq(T)
    BY ConcatProperties
  <2> DEFINE a == target.scheme \o Slashes
             b == a \o target.host
  <2>3. a \in Seq(T)
    BY <1>6, <2>1, <2>2
  <2> HIDE DEF a
  <2>4. b \in Seq(T)
    BY <1>6, <2>2, <2>3
  <2> HIDE DEF b
  <2>5. b \o target.path \in Seq(T)
    BY <1>6, <2>2, <2>4
  <2> QED
    BY <2>5 DEF Uri, a, b
<1> QED
  BY <1>6, <1>7, <1>8

\* A login has a width.
LEMMA CredentialsWidth ==
    ASSUME TargetIsParsed, target.parsed
    PROVE  Credentials(target)[2] \in Nat
<1> DEFINE n == Width(target.user) + 1 + Width(target.password) + 2
<1>1. n \in Nat
  BY UriWidth
<1> HIDE DEF n
<1>2. n \div 3 \in Nat
  BY <1>1
<1>3. Credentials(target)[2] = 6 + 4 * (n \div 3)
  BY DEF Credentials, Word, n
<1> QED
  BY <1>2, <1>3

\* What the client builds are requests the component is given.
LEMMA ClientRequests ==
    ASSUME TargetIsParsed, Texted, target.parsed, NEW method \in Methods
    PROVE  IsRequest(Request(method))
<1> DEFINE req == Request(method)
<1>1. /\ req.method = method /\ req.uri = Uri(target)
      /\ req.user_agent = Word("smart-intercom", 17)
      /\ req.accept = None \/ req.accept = Word("application/sdp", 15)
      /\ req.session = session
      /\ req.transport = None \/ req.transport = Word("RTP/AVP;unicast;client_port", 43)
      /\ req.authorization = login
  BY DEF Request
<1>2. method \in DOMAIN MethodWidth
  BY DEF Methods, MethodWidth
<1>3. Width(req.uri) \in Nat
  BY <1>1, UriWidth
<1> HIDE DEF req
<1>4. /\ Word("smart-intercom", 17)[2] = 17 /\ Word("application/sdp", 15)[2] = 15
      /\ Word("RTP/AVP;unicast;client_port", 43)[2] = 43
  BY DEF Word
<1>5. login = None \/ login[2] \in Nat
  BY CredentialsWidth DEF Texted
<1>6. session = None \/ session[2] \in Nat
  BY DEF Texted
<1> DEFINE Fine(word) == word = None \/ word[2] \in Nat
<1>7. Fine(req.user_agent) /\ Fine(req.accept) /\ Fine(req.session) /\ Fine(req.transport) /\ Fine(req.authorization)
  <2>1. 17 \in Nat /\ 15 \in Nat /\ 43 \in Nat
    OBVIOUS
  <2>2. Fine(Word("smart-intercom", 17)) /\ Fine(Word("application/sdp", 15))
        /\ Fine(Word("RTP/AVP;unicast;client_port", 43)) /\ Fine(None) /\ Fine(session) /\ Fine(login)
    BY <1>4, <1>5, <1>6, <2>1
  <2> HIDE DEF Fine
  <2> QED
    BY <1>1, <2>2
<1> HIDE DEF Fine
<1>8. \A word \in Words(req) : Fine(word)
  BY <1>7 DEF Words
<1> QED
  BY <1>1, <1>2, <1>3, <1>8 DEF IsRequest, req, Fine

\* The length of a request is the sum of its widths.
LEMMA LengthOfAll ==
    ASSUME NEW lines, IsList(lines)
    PROVE  Offset(lines, Len(lines) + 1) = FoldLeft(LAMBDA n, line : n + line.width, 0, lines)
<1>1. PICK S : lines \in Seq(S)
  BY DEF IsList
<1>2. Len(lines) \in Nat /\ Len(lines) + 1 - 1 = Len(lines)
  BY <1>1, LenProperties
<1>3. SubSeq(lines, 1, Len(lines) + 1 - 1) = lines
  BY <1>1, <1>2, SubSeqFull
<1> DEFINE Part(i) == SubSeq(lines, 1, i - 1)
           Total(s) == FoldLeft(LAMBDA n, line : n + line.width, 0, s)
<1>4. Offset(lines, Len(lines) + 1) = Total(Part(Len(lines) + 1))
  BY DEF Offset
<1>5. Part(Len(lines) + 1) = lines
  BY <1>3
<1>6. Total(lines) = FoldLeft(LAMBDA n, line : n + line.width, 0, lines)
  OBVIOUS
<1> HIDE DEF Total, Part
<1> QED
  BY <1>4, <1>5, <1>6

\* A request in flight, and the number and method it was sent with.
RequestFor(r, p, t, logged) ==
    /\ Last(r) = Line("blank", None, 2)
    /\ FoldLeft(LAMBDA n, line : n + line.width, 0, r) + 1 <= Room
    /\ r[1].value = <<p[2], Uri(t)>>
    /\ ValueOf(r, "CSeq") = p[1]
    /\ HasLine(r, "Authorization") <=> logged
    /\ HasLine(r, "Session") <=> p[2] \notin {"DESCRIBE", "SETUP"}
    /\ HasLine(r, "Range") <=> p[2] = "PLAY"

\* What is built of a request the client sends is such a request.
LEMMA SentIsOk ==
    ASSUME TargetIsParsed, Texted, target.parsed, NEW method \in Methods,
           session # None <=> method \notin {"DESCRIBE", "SETUP"},
           RtspRequestBuild(Request(method), Room).returned # -1
    PROVE  RequestFor(RtspRequestBuild(Request(method), Room).lines, <<cseq, method>>,
                      target, login # None)
<1> DEFINE req == Request(method)
           r == RequestLines(req)
           built == RtspRequestBuild(req, Room)
           length == Offset(r, Len(r) + 1)
<1>1. IsRequest(req) /\ Room \in Nat
  BY ClientRequests, BoundsAssumption
<1>2. req.method = method /\ req.uri = Uri(target) /\ req.cseq = cseq /\ req.session = session /\ req.authorization = login
  BY DEF Request
<1> HIDE DEF req
<1>3. built = IF length < Room THEN [returned |-> length, lines |-> r] ELSE [returned |-> -1, lines |-> <<>>]
  BY <1>1, RequestIsWhole
<1>4. r \in Seq(LinesOf(req)) /\ \A i \in 1 .. Len(r) : r[i] \in LinesOf(req)
  <2>1. r \in Seq(LinesOf(req))
    BY <1>1, RequestTyped
  <2> HIDE DEF r
  <2> QED
    BY <2>1, ElementOfSeq
<1>5. length = FoldLeft(LAMBDA n, line : n + line.width, 0, r)
  BY <1>4, LengthOfAll DEF IsList
<1>6. length \in Int
  <2>1. Len(r) > 0
    BY <1>1, RequestTyped
  <2> HIDE DEF r
  <2>2. \A i \in 1 .. Len(r) : r[i].width \in Nat
    BY <1>4 DEF LinesOf
  <2>3. \A i \in 1 .. Len(r) + 1 : Offset(r, i) \in Int
    BY <1>4, <2>1, <2>2, Ends
  <2>4. Len(r) \in Nat
    BY <1>4, LenProperties
  <2> QED
    BY <2>3, <2>4
<1>7. /\ r[1].value = <<req.method, req.uri>>
      /\ ValueOf(r, "CSeq") = req.cseq
      /\ Last(r) = Line("blank", None, 2)
      /\ HasLine(r, "Authorization") <=> req.authorization # None
      /\ HasLine(r, "Session") <=> req.session # None
      /\ HasLine(r, "Range") <=> req.method = "PLAY"
  BY <1>1, RequestSays
<1> HIDE DEF r, length, built
<1>8. built.lines = r /\ length < Room
  <2>1. built.returned # -1
    BY DEF built, req
  <2> QED
    BY <1>3, <2>1
<1>9. length + 1 <= Room
  BY <1>1, <1>6, <1>8
<1>10. built.lines = RtspRequestBuild(Request(method), Room).lines
  BY DEF built, req
<1> DEFINE p == <<cseq, method>>
<1>11. p[1] = cseq /\ p[2] = method
  OBVIOUS
<1> HIDE DEF p
<1>12. RequestFor(r, p, target, login # None)
  BY <1>2, <1>5, <1>7, <1>9, <1>11 DEF RequestFor
<1> QED
  BY <1>8, <1>10, <1>12 DEF p

-----------------------------------------------------------------------------
(* What is read of a list of cells. *)

\* What reading a cell does.
LEMMA ReadCellIs ==
    ASSUME NEW out, NEW cell
    PROVE  /\ cell[1] # "header" => ReadCell(out, cell) = out
           /\ cell[1] = "header" /\ cell[2] = "CSeq" => ReadCell(out, cell) = [out EXCEPT !.cseq = cell[3]]
           /\ cell[1] = "header" /\ cell[2] = "Session" =>
                ReadCell(out, cell) =
                    [out EXCEPT !.session = Bounded(cell[3].id, SessionMax),
                                !.timeout = IF cell[3].timeout = 0 THEN @ ELSE cell[3].timeout]
           /\ cell[1] = "header" /\ cell[2] = "Content-Length" => ReadCell(out, cell) = [out EXCEPT !.length = cell[3]]
           /\ cell[1] = "header" /\ cell[2] \in Texts =>
                ReadCell(out, cell) = [out EXCEPT !.texts[cell[2]] = Bounded(cell[3], TextMax[cell[2]])]
           /\ cell[1] = "header" /\ cell[2] \notin Texts \cup {"CSeq", "Session", "Content-Length"} =>
                ReadCell(out, cell) = out
<1> DEFINE name == cell[2]
           value == cell[3]
           a == [out EXCEPT !.cseq = value]
           b == [out EXCEPT !.session = Bounded(value.id, SessionMax),
                            !.timeout = IF value.timeout = 0 THEN @ ELSE value.timeout]
           c == [out EXCEPT !.texts[name] = Bounded(value, TextMax[name])]
           d == [out EXCEPT !.length = value]
<1>1. ReadCell(out, cell) =
        IF cell[1] # "header" THEN out
        ELSE CASE name = "CSeq" -> a [] name = "Session" -> b [] name \in Texts -> c
               [] name = "Content-Length" -> d [] OTHER -> out
  BY DEF ReadCell
<1>2. Texts = {"Transport", "Content-Type", "WWW-Authenticate"}
  BY DEF Texts
<1> HIDE DEF name, a, b, c, d
<1>3. /\ cell[1] # "header" => ReadCell(out, cell) = out
      /\ cell[1] = "header" /\ name = "CSeq" => ReadCell(out, cell) = a
      /\ cell[1] = "header" /\ name = "Session" => ReadCell(out, cell) = b
      /\ cell[1] = "header" /\ name = "Content-Length" => ReadCell(out, cell) = d
      /\ cell[1] = "header" /\ name \in Texts => ReadCell(out, cell) = c
      /\ cell[1] = "header" /\ name \notin Texts \cup {"CSeq", "Session", "Content-Length"} => ReadCell(out, cell) = out
  BY <1>1, <1>2
<1> QED
  BY <1>3 DEF name, a, b, c, d

\* The header lines of a set of cells that bear a name.
Under(cells, s, name) == {i \in s : cells[i][1] = "header" /\ cells[i][2] = name}

\* Those that give a timeout.
Timed(cells, s) == {i \in Under(cells, s, "Session") : cells[i][3].timeout # 0}

\* What the last of some cells says.
Latest(cells, s, default) == IF s = {} THEN default ELSE cells[Max(s)][3]

\* The session id they give.
SessionOf(cells, s) ==
    IF Under(cells, s, "Session") = {} THEN None
    ELSE Bounded(cells[Max(Under(cells, s, "Session"))][3].id, SessionMax)

\* Its timeout.
TimeoutOf(cells, s) ==
    IF Timed(cells, s) = {} THEN 0 ELSE cells[Max(Timed(cells, s))][3].timeout

\* The text they give under a name.
TextOf(cells, s, name) ==
    IF Under(cells, s, name) = {} THEN None
    ELSE Bounded(cells[Max(Under(cells, s, name))][3], TextMax[name])

\* The response that a status line and a set of cells give.
ReadOf(status, cells, s) ==
    [parsed |-> FALSE, code |-> status[2], reason |-> Bounded(status[3], ReasonMax),
     cseq |-> Latest(cells, Under(cells, s, "CSeq"), 0),
     session |-> SessionOf(cells, s),
     timeout |-> TimeoutOf(cells, s),
     texts |-> [name \in Texts |-> TextOf(cells, s, name)],
     length |-> Latest(cells, Under(cells, s, "Content-Length"), 0),
     body |-> <<>>]

\* Reading the last of a set of cells adds to what the others give.
LEMMA ReadOne ==
    ASSUME NEW n \in Nat, NEW s \in SUBSET (1 .. n), s # {}, NEW status, NEW cells
    PROVE  ReadOf(status, cells, s) = ReadCell(ReadOf(status, cells, s \ {Max(s)}), cells[Max(s)])
<1> DEFINE m == Max(s)
           r == s \ {m}
           is(name) == cells[m][1] = "header" /\ cells[m][2] = name
           timed == is("Session") /\ cells[m][3].timeout # 0
<1>1. m \in s /\ (\A i \in s : i <= m) /\ s \in SUBSET Nat
  BY MaxOf
<1> HIDE DEF m
<1>2. ASSUME NEW u \in SUBSET s, m \in u PROVE u # {} /\ Max(u) = m
  <2>1. u \in SUBSET Nat /\ m \in u /\ \A i \in u : i <= m
    BY <1>1, <1>2
  <2> QED
    BY <2>1, MaxIs
<1>3. ASSUME NEW name
      PROVE  /\ is(name) => Under(cells, s, name) # {} /\ Max(Under(cells, s, name)) = m
             /\ ~is(name) => Under(cells, s, name) = Under(cells, r, name)
  <2>1. is(name) => m \in Under(cells, s, name)
    BY <1>1 DEF Under
  <2>2. Under(cells, s, name) \in SUBSET s
    BY DEF Under
  <2>3. ~is(name) => Under(cells, s, name) = Under(cells, r, name)
    BY DEF Under
  <2> QED
    BY <1>2, <2>1, <2>2, <2>3
<1>4. /\ timed => Timed(cells, s) # {} /\ Max(Timed(cells, s)) = m
      /\ ~timed => Timed(cells, s) = Timed(cells, r)
  <2>1. timed => m \in Timed(cells, s)
    BY <1>1 DEF Under, Timed
  <2>2. Timed(cells, s) \in SUBSET s
    BY DEF Under, Timed
  <2>3. ~timed => Timed(cells, s) = Timed(cells, r)
    BY DEF Under, Timed
  <2> QED
    BY <1>2, <2>1, <2>2, <2>3
<1> DEFINE cell == cells[m]
           value == cell[3]
<1> HIDE DEF r
<1>5. /\ is("CSeq") => Latest(cells, Under(cells, s, "CSeq"), 0) = value
      /\ ~is("CSeq") => Latest(cells, Under(cells, s, "CSeq"), 0) = Latest(cells, Under(cells, r, "CSeq"), 0)
      /\ is("Content-Length") => Latest(cells, Under(cells, s, "Content-Length"), 0) = value
      /\ ~is("Content-Length") =>
            Latest(cells, Under(cells, s, "Content-Length"), 0) = Latest(cells, Under(cells, r, "Content-Length"), 0)
  <2> HIDE DEF is
  <2> QED
    BY <1>3 DEF Latest
<1>6. /\ is("Session") => SessionOf(cells, s) = Bounded(value.id, SessionMax)
      /\ ~is("Session") => SessionOf(cells, s) = SessionOf(cells, r)
  <2> HIDE DEF is
  <2> QED
    BY <1>3 DEF SessionOf
<1>7. /\ timed => TimeoutOf(cells, s) = value.timeout
      /\ ~timed => TimeoutOf(cells, s) = TimeoutOf(cells, r)
  <2> HIDE DEF timed
  <2> QED
    BY <1>4 DEF TimeoutOf
<1>8. ASSUME NEW name
      PROVE  /\ is(name) => TextOf(cells, s, name) = Bounded(value, TextMax[name])
             /\ ~is(name) => TextOf(cells, s, name) = TextOf(cells, r, name)
  <2> HIDE DEF is
  <2> QED
    BY <1>3 DEF TextOf
<1> DEFINE texts(u) == [name \in Texts |-> TextOf(cells, u, name)]
           old == ReadOf(status, cells, r)
           new == ReadOf(status, cells, s)
           number(u) == Latest(cells, Under(cells, u, "CSeq"), 0)
           length(u) == Latest(cells, Under(cells, u, "Content-Length"), 0)
           id(u) == SessionOf(cells, u)
           time(u) == TimeoutOf(cells, u)
           reason == Bounded(status[3], ReasonMax)
<1>9. /\ old = [parsed |-> FALSE, code |-> status[2], reason |-> reason, cseq |-> number(r), session |-> id(r),
                timeout |-> time(r), texts |-> texts(r), length |-> length(r), body |-> <<>>]
      /\ new = [parsed |-> FALSE, code |-> status[2], reason |-> reason, cseq |-> number(s), session |-> id(s),
                timeout |-> time(s), texts |-> texts(s), length |-> length(s), body |-> <<>>]
  BY DEF ReadOf
<1>10. /\ is("CSeq") => number(s) = value
       /\ ~is("CSeq") => number(s) = number(r)
       /\ is("Content-Length") => length(s) = value
       /\ ~is("Content-Length") => length(s) = length(r)
       /\ is("Session") => id(s) = Bounded(value.id, SessionMax)
       /\ ~is("Session") => id(s) = id(r) /\ time(s) = time(r)
       /\ is("Session") => time(s) = IF value.timeout = 0 THEN time(r) ELSE value.timeout
  BY <1>5, <1>6, <1>7
<1>11. /\ \A name \in Texts : is(name) => texts(s) = [texts(r) EXCEPT ![name] = Bounded(value, TextMax[name])]
       /\ (\A name \in Texts : ~is(name)) => texts(s) = texts(r)
  <2>1. ASSUME NEW name \in Texts, is(name)
        PROVE  texts(s) = [texts(r) EXCEPT ![name] = Bounded(value, TextMax[name])]
    <3>1. \A other \in Texts : other # name => ~is(other)
      BY <2>1
    <3> HIDE DEF is
    <3> QED
      BY <1>8, <2>1, <3>1
  <2>2. ASSUME \A name \in Texts : ~is(name) PROVE texts(s) = texts(r)
    <3> HIDE DEF is
    <3> QED
      BY <1>8, <2>2
  <2> QED
    BY <2>1, <2>2
<1> HIDE DEF texts, old, new, number, length, id, time, reason
<1>12. ASSUME cell[1] # "header" PROVE new = ReadCell(old, cell)
  <2>1. \A name : ~is(name)
    BY <1>12
  <2>2. ReadCell(old, cell) = old
    BY <1>12, ReadCellIs
  <2> HIDE DEF is, cell
  <2> QED
    BY <1>9, <1>10, <1>11, <2>1, <2>2
<1>13. ASSUME cell[1] = "header", cell[2] = "CSeq" PROVE new = ReadCell(old, cell)
  <2>1. is("CSeq") /\ ~is("Session") /\ ~is("Content-Length") /\ \A name \in Texts : ~is(name)
    BY <1>13 DEF Texts
  <2>2. ReadCell(old, cell) = [old EXCEPT !.cseq = value]
    BY <1>13, ReadCellIs
  <2> HIDE DEF is, cell, value
  <2> QED
    BY <1>9, <1>10, <1>11, <2>1, <2>2
<1>14. ASSUME cell[1] = "header", cell[2] = "Session" PROVE new = ReadCell(old, cell)
  <2>1. is("Session") /\ ~is("CSeq") /\ ~is("Content-Length") /\ \A name \in Texts : ~is(name)
    BY <1>14 DEF Texts
  <2>2. ReadCell(old, cell) = [old EXCEPT !.session = Bounded(value.id, SessionMax),
                                          !.timeout = IF value.timeout = 0 THEN @ ELSE value.timeout]
    BY <1>14, ReadCellIs
  <2> HIDE DEF is, cell, value
  <2> QED
    BY <1>9, <1>10, <1>11, <2>1, <2>2
<1>15. ASSUME cell[1] = "header", cell[2] = "Content-Length" PROVE new = ReadCell(old, cell)
  <2>1. is("Content-Length") /\ ~is("Session") /\ ~is("CSeq") /\ \A name \in Texts : ~is(name)
    BY <1>15 DEF Texts
  <2>2. ReadCell(old, cell) = [old EXCEPT !.length = value]
    BY <1>15, ReadCellIs
  <2> HIDE DEF is, cell, value
  <2> QED
    BY <1>9, <1>10, <1>11, <2>1, <2>2
<1>16. ASSUME cell[1] = "header", cell[2] \in Texts PROVE new = ReadCell(old, cell)
  <2> DEFINE name == cell[2]
             text == Bounded(value, TextMax[name])
  <2>1. name \in Texts /\ is(name) /\ ~is("Session") /\ ~is("CSeq") /\ ~is("Content-Length")
    BY <1>16 DEF Texts
  <2>2. ReadCell(old, cell) = [old EXCEPT !.texts[name] = text]
    BY <1>16, ReadCellIs
  <2>3. texts(s) = [texts(r) EXCEPT ![name] = text]
    BY <1>11, <2>1
  <2> HIDE DEF is, cell, value, text, name
  <2> QED
    BY <1>9, <1>10, <2>1, <2>2, <2>3
<1>17. ASSUME cell[1] = "header", cell[2] \notin Texts \cup {"CSeq", "Session", "Content-Length"}
       PROVE  new = ReadCell(old, cell)
  <2>1. ~is("Content-Length") /\ ~is("Session") /\ ~is("CSeq") /\ \A name \in Texts : ~is(name)
    BY <1>17
  <2>2. ReadCell(old, cell) = old
    BY <1>17, ReadCellIs
  <2> HIDE DEF is, cell
  <2> QED
    BY <1>9, <1>10, <1>11, <2>1, <2>2
<1>18. new = ReadCell(old, cell)
  <2> HIDE DEF cell
  <2> QED
    BY <1>12, <1>13, <1>14, <1>15, <1>16, <1>17
<1> QED
  BY <1>18 DEF new, old, r, m

\* Reading cell after cell gives what the whole of the list gives.
LEMMA CellsAreRead ==
    ASSUME NEW cells, IsList(cells), NEW status
    PROVE  FoldLeft(ReadCell, ReadStatus(status), cells) = ReadOf(status, cells, 1 .. Len(cells))
<1> DEFINE n == Len(cells)
           D == 1 .. n
           base == ReadStatus(status)
           Step(f) == [s \in SUBSET D |-> IF s = {} THEN base ELSE ReadCell(f[s \ {Max(s)}], cells[Max(s)])]
           iter == CHOOSE f : f = Step(f)
           read(s) == ReadOf(status, cells, s)
           h == [s \in SUBSET D |-> read(s)]
<1>1. n \in Nat /\ DOMAIN cells = D
  BY ListIs
<1>2. FoldLeft(ReadCell, base, cells) = iter[D]
  <2> HIDE DEF base
  <2> QED
    BY <1>1 DEF FoldLeft, MapThenFoldSet
<1> HIDE DEF n
<1>3. read({}) = base
  <2>1. \A name : Under(cells, {}, name) = {}
    BY DEF Under
  <2>2. Timed(cells, {}) = {}
    BY DEF Timed, Under
  <2>3. ReadOf(status, cells, {}) =
          [parsed |-> FALSE, code |-> status[2], reason |-> Bounded(status[3], ReasonMax), cseq |-> 0,
           session |-> None, timeout |-> 0, texts |-> [name \in Texts |-> None], length |-> 0, body |-> <<>>]
    BY <2>1, <2>2 DEF ReadOf, Latest, SessionOf, TimeoutOf, TextOf
  <2> DEFINE reason == Bounded(status[3], ReasonMax)
             texts == [name \in Texts |-> None]
             nothing == <<>>
             empty == [parsed |-> FALSE, code |-> 0, reason |-> None, cseq |-> 0,
                       session |-> None, timeout |-> 0, texts |-> texts, length |-> 0, body |-> nothing]
  <2>4. base = [empty EXCEPT !.code = status[2], !.reason = reason]
    BY DEF ReadStatus, NoResponse
  <2> HIDE DEF reason, texts, nothing
  <2>5. base = [parsed |-> FALSE, code |-> status[2], reason |-> reason, cseq |-> 0,
                session |-> None, timeout |-> 0, texts |-> texts, length |-> 0, body |-> nothing]
    BY <2>4
  <2> QED
    BY <2>3, <2>5 DEF reason, texts, nothing
<1> HIDE DEF base
<1>4. ASSUME NEW s \in SUBSET D, s # {}
      PROVE  /\ read(s) = ReadCell(read(s \ {Max(s)}), cells[Max(s)])
             /\ s \ {Max(s)} \in SUBSET D
  BY <1>1, <1>4, ReadOne
<1> HIDE DEF read
<1>5. h = Step(h)
  <2>1. \A s \in SUBSET D : h[s] = read(s)
    OBVIOUS
  <2>2. ASSUME NEW s \in SUBSET D
        PROVE  read(s) = IF s = {} THEN base ELSE ReadCell(h[s \ {Max(s)}], cells[Max(s)])
    BY <1>3, <1>4, <2>1
  <2>3. h = [s \in SUBSET D |-> read(s)]
    OBVIOUS
  <2> HIDE DEF h
  <2> QED
    BY <2>2, <2>3
<1>6. iter = Step(iter)
  BY <1>5
<1> HIDE DEF iter, h
<1> DEFINE Bad == {k \in 0 .. n : iter[1 .. k] # read(1 .. k)}
<1>7. ASSUME NEW k \in 0 .. n
      PROVE  /\ iter[1 .. k] = IF k = 0 THEN base ELSE ReadCell(iter[1 .. k - 1], cells[k])
             /\ read(1 .. k) = IF k = 0 THEN base ELSE ReadCell(read(1 .. k - 1), cells[k])
  <2>1. 1 .. k \in SUBSET D
    BY <1>1
  <2>2. iter[1 .. k] = IF 1 .. k = {} THEN base
                       ELSE ReadCell(iter[(1 .. k) \ {Max(1 .. k)}], cells[Max(1 .. k)])
    <3> DEFINE s == 1 .. k
    <3> HIDE DEF s
    <3> QED
      BY <1>6, <2>1 DEF s
  <2>3. CASE k = 0
    <3>1. 1 .. k = {}
      BY <2>3
    <3> QED
      BY <1>3, <2>2, <2>3, <3>1
  <2>4. CASE k # 0
    <3>1. k \in 1 .. k /\ 1 .. k \in SUBSET Nat /\ \A i \in 1 .. k : i <= k
      BY <1>1, <2>4
    <3>2. Max(1 .. k) = k
      BY <3>1, MaxIs
    <3>3. (1 .. k) \ {k} = 1 .. k - 1 /\ 1 .. k # {}
      BY <1>1, <2>4, <3>1
    <3>4. read(1 .. k) = ReadCell(read((1 .. k) \ {Max(1 .. k)}), cells[Max(1 .. k)])
      BY <1>4, <2>1, <3>3
    <3> QED
      BY <2>2, <2>4, <3>2, <3>3, <3>4
  <2> QED
    BY <2>3, <2>4
<1>8. Bad = {}
  <2>1. SUFFICES ASSUME Bad # {} PROVE FALSE
    OBVIOUS
  <2>2. Bad \in SUBSET Nat
    BY <1>1
  <2> DEFINE least == Min(Bad)
  <2>3. least \in Bad /\ \A k \in Bad : least <= k
    BY <2>1, <2>2, MinIs
  <2> HIDE DEF least
  <2>4. least \in 0 .. n /\ iter[1 .. least] # read(1 .. least)
    BY <2>3
  <2>5. least # 0
    BY <1>7, <2>4
  <2>6. least - 1 \in 0 .. n /\ ~(least <= least - 1)
    BY <1>1, <2>4, <2>5
  <2>7. iter[1 .. least - 1] = read(1 .. least - 1)
    BY <2>3, <2>6
  <2> QED
    BY <1>7, <2>4, <2>5, <2>7
<1>9. iter[D] = read(D)
  <2>1. n \in 0 .. n
    BY <1>1
  <2> QED
    BY <1>8, <2>1
<1> QED
  BY <1>2, <1>9 DEF read, base, n

-----------------------------------------------------------------------------
(* A response read from the cells that say it. *)

\* Two lists of cells, one after the other.
LEMMA CellsAre ==
    ASSUME NEW m, IsList(m.headers), IsList(m.body)
    PROVE  LET cells == CellsOf(m)  n == Len(m.headers) IN
           /\ n \in Nat /\ Len(m.body) \in Nat
           /\ IsList(cells) /\ Len(cells) = 3 * n + 5 + Len(m.body)
           /\ cells[1] = <<"status", m.code, Word("reason", 64)>> /\ cells[2] = Cr /\ cells[3] = Lf
           /\ \A j \in 1 .. n : /\ cells[3 * j + 1] = m.headers[j]
                                /\ cells[3 * j + 2] = Cr /\ cells[3 * j + 3] = Lf
           /\ cells[3 * n + 4] = Cr /\ cells[3 * n + 5] = Lf
           /\ \A k \in 1 .. Len(m.body) : cells[3 * n + 5 + k] = m.body[k]
<1> DEFINE headers == m.headers
           n == Len(headers)
           status == <<"status", m.code, Word("reason", 64)>>
           first == <<status, Cr, Lf>>
           line(k) == IF k % 3 = 1 THEN headers[(k + 2) \div 3] ELSE IF k % 3 = 2 THEN Cr ELSE Lf
           lines == [k \in 1 .. 3 * n |-> line(k)]
           blank == <<Cr, Lf>>
           a == first \o lines
           b == a \o blank
           body == m.body
           cells == b \o body
<1>1. CellsOf(m) = cells
  BY DEF CellsOf
<1>2. n \in Nat /\ Len(body) \in Nat
  BY ListIs
<1>3. IsList(first) /\ Len(first) = 3 /\ first[1] = status /\ first[2] = Cr /\ first[3] = Lf
  <2> HIDE DEF status
  <2>1. first \in Seq({status, Cr, Lf})
    OBVIOUS
  <2>2. Len(first) = 3 /\ first[1] = status /\ first[2] = Cr /\ first[3] = Lf
    OBVIOUS
  <2> HIDE DEF first
  <2> QED
    BY <2>1, <2>2 DEF IsList
<1>4. IsList(blank) /\ Len(blank) = 2 /\ blank[1] = Cr /\ blank[2] = Lf
  <2>1. blank \in Seq({Cr, Lf})
    OBVIOUS
  <2>2. Len(blank) = 2 /\ blank[1] = Cr /\ blank[2] = Lf
    OBVIOUS
  <2> HIDE DEF blank
  <2> QED
    BY <2>1, <2>2 DEF IsList
<1> HIDE DEF n, headers, first, blank, status, body
<1>5. IsList(lines) /\ Len(lines) = 3 * n /\ \A k \in 1 .. 3 * n : lines[k] = line(k)
  <2>1. 3 * n \in Nat
    BY <1>2
  <2>2. DOMAIN lines = 1 .. 3 * n /\ lines = [k \in 1 .. 3 * n |-> lines[k]] /\ \A k \in 1 .. 3 * n : lines[k] = line(k)
    <3> HIDE DEF line
    <3> QED
      OBVIOUS
  <2> HIDE DEF lines
  <2> QED
    BY <2>1, <2>2, MadeList
<1>6. \A j \in 1 .. n :
        /\ 3 * j - 2 \in 1 .. 3 * n /\ 3 * j - 1 \in 1 .. 3 * n /\ 3 * j \in 1 .. 3 * n
        /\ lines[3 * j - 2] = headers[j] /\ lines[3 * j - 1] = Cr /\ lines[3 * j] = Lf
  <2>1. \A j \in 1 .. n :
          /\ 3 * j - 2 \in 1 .. 3 * n /\ 3 * j - 1 \in 1 .. 3 * n /\ 3 * j \in 1 .. 3 * n
          /\ (3 * j - 2) % 3 = 1 /\ (3 * j - 1) % 3 = 2 /\ (3 * j) % 3 = 0
          /\ (3 * j - 2 + 2) \div 3 = j
    BY <1>2
  <2> HIDE DEF lines
  <2> QED
    BY <1>5, <2>1
<1> HIDE DEF lines
<1>7. /\ IsList(a) /\ Len(a) = 3 + 3 * n
      /\ \A i \in 1 .. 3 : a[i] = first[i]
      /\ \A i \in 1 .. 3 * n : a[3 + i] = lines[i]
  <2>1. IsList(first) /\ IsList(lines)
    BY <1>3, <1>5
  <2>2. /\ IsList(first \o lines) /\ Len(first \o lines) = Len(first) + Len(lines)
        /\ \A i \in 1 .. Len(first) : (first \o lines)[i] = first[i]
        /\ \A i \in 1 .. Len(lines) : (first \o lines)[Len(first) + i] = lines[i]
    BY <2>1, ListConcat
  <2> QED
    BY <1>3, <1>5, <2>2
<1> HIDE DEF a
<1>8. /\ IsList(b) /\ Len(b) = 3 + 3 * n + 2
      /\ \A i \in 1 .. 3 + 3 * n : b[i] = a[i]
      /\ \A i \in 1 .. 2 : b[3 + 3 * n + i] = blank[i]
  <2>1. IsList(a) /\ IsList(blank)
    BY <1>4, <1>7
  <2>2. /\ IsList(a \o blank) /\ Len(a \o blank) = Len(a) + Len(blank)
        /\ \A i \in 1 .. Len(a) : (a \o blank)[i] = a[i]
        /\ \A i \in 1 .. Len(blank) : (a \o blank)[Len(a) + i] = blank[i]
    BY <2>1, ListConcat
  <2> QED
    BY <1>4, <1>7, <2>2
<1> HIDE DEF b
<1>9. /\ IsList(cells) /\ Len(cells) = 3 + 3 * n + 2 + Len(body)
      /\ \A i \in 1 .. 3 + 3 * n + 2 : cells[i] = b[i]
      /\ \A i \in 1 .. Len(body) : cells[3 + 3 * n + 2 + i] = body[i]
  <2>1. IsList(body)
    BY DEF body
  <2> QED
    BY <1>8, <2>1, ListConcat
<1> HIDE DEF cells
<1>10. cells[1] = status /\ cells[2] = Cr /\ cells[3] = Lf
  BY <1>2, <1>3, <1>7, <1>8, <1>9
<1>11. \A j \in 1 .. n : cells[3 * j + 1] = headers[j] /\ cells[3 * j + 2] = Cr /\ cells[3 * j + 3] = Lf
  <2>1. \A i \in 1 .. 3 * n : cells[3 + i] = lines[i]
    <3>1. \A i \in 1 .. 3 * n : 3 + i \in 1 .. 3 + 3 * n /\ 3 + i \in 1 .. 3 + 3 * n + 2
      BY <1>2
    <3> QED
      BY <1>7, <1>8, <1>9, <3>1
  <2>2. \A j \in 1 .. n : /\ 3 + (3 * j - 2) = 3 * j + 1 /\ 3 + (3 * j - 1) = 3 * j + 2 /\ 3 + 3 * j = 3 * j + 3
    BY <1>2
  <2> QED
    BY <1>6, <2>1, <2>2
<1>12. cells[3 * n + 4] = Cr /\ cells[3 * n + 5] = Lf
  <2>1. 3 + 3 * n + 1 = 3 * n + 4 /\ 3 + 3 * n + 2 = 3 * n + 5 /\ 3 * n + 4 \in 1 .. 3 + 3 * n + 2 /\ 3 * n + 5 \in 1 .. 3 + 3 * n + 2
        /\ 1 \in 1 .. 2 /\ 2 \in 1 .. 2
    BY <1>2
  <2> QED
    BY <1>4, <1>8, <1>9, <2>1
<1>13. 3 + 3 * n + 2 = 3 * n + 5
  BY <1>2
<1> QED
  BY <1>1, <1>2, <1>9, <1>10, <1>11, <1>12, <1>13 DEF n, headers, status, body

-----------------------------------------------------------------------------
(* A stream that begins with a response. *)

\* These cells begin with a response.
Begins(cells, m) ==
    /\ IsList(cells) /\ Len(CellsOf(m)) <= Len(cells)
    /\ \A k \in 1 .. Len(CellsOf(m)) : cells[k] = CellsOf(m)[k]

\* A response with headers.
Headed(m) ==
    /\ IsList(m.headers) /\ IsList(m.body) /\ Len(m.headers) > 0
    /\ \A i \in 1 .. Len(m.headers) : m.headers[i][1] = "header"

\* What cells that begin with n headers begin with.
HeadCells(cells, m, n) ==
    /\ cells[1] = <<"status", m.code, Word("reason", 64)>> /\ cells[2] = Cr /\ cells[3] = Lf
    /\ \A j \in 1 .. n : cells[3 * j + 1] = m.headers[j] /\ cells[3 * j + 2] = Cr /\ cells[3 * j + 3] = Lf
    /\ cells[3 * n + 4] = Cr /\ cells[3 * n + 5] = Lf
    /\ \A k \in 1 .. Len(m.body) : cells[3 * n + 5 + k] = m.body[k]

\* Cells that begin with a response begin with that.
LEMMA HeadIs ==
    ASSUME NEW cells, NEW m, Headed(m), Begins(cells, m), NEW n, n = Len(m.headers)
    PROVE  /\ n \in Nat /\ n > 0 /\ Len(m.body) \in Nat
           /\ Len(cells) \in Nat /\ Len(CellsOf(m)) = 3 * n + 5 + Len(m.body)
           /\ 3 * n + 5 + Len(m.body) <= Len(cells)
           /\ HeadCells(cells, m, n)
<1> DEFINE l == Len(m.body)
           given == CellsOf(m)
           status == <<"status", m.code, Word("reason", 64)>>
<1>1. IsList(m.headers) /\ IsList(m.body) /\ n > 0
  BY DEF Headed
<1>2. /\ n \in Nat /\ l \in Nat /\ Len(given) = 3 * n + 5 + l
      /\ given[1] = status /\ given[2] = Cr /\ given[3] = Lf
      /\ \A j \in 1 .. n : given[3 * j + 1] = m.headers[j] /\ given[3 * j + 2] = Cr /\ given[3 * j + 3] = Lf
      /\ given[3 * n + 4] = Cr /\ given[3 * n + 5] = Lf
      /\ \A k \in 1 .. l : given[3 * n + 5 + k] = m.body[k]
  BY <1>1, CellsAre
<1>3. Len(cells) \in Nat /\ Len(given) <= Len(cells) /\ \A k \in 1 .. Len(given) : cells[k] = given[k]
  BY ListIs DEF Begins
<1> HIDE DEF l, given, status
<1>4. /\ 1 \in 1 .. Len(given) /\ 2 \in 1 .. Len(given) /\ 3 \in 1 .. Len(given)
      /\ 3 * n + 4 \in 1 .. Len(given) /\ 3 * n + 5 \in 1 .. Len(given)
      /\ \A k \in 1 .. l : 3 * n + 5 + k \in 1 .. Len(given)
  BY <1>2
<1>5. \A j \in 1 .. n :
        3 * j + 1 \in 1 .. Len(given) /\ 3 * j + 2 \in 1 .. Len(given) /\ 3 * j + 3 \in 1 .. Len(given)
  BY <1>2
<1>6. cells[1] = status /\ cells[2] = Cr /\ cells[3] = Lf /\ cells[3 * n + 4] = Cr /\ cells[3 * n + 5] = Lf
  BY <1>2, <1>3, <1>4
<1>7. \A j \in 1 .. n : cells[3 * j + 1] = m.headers[j] /\ cells[3 * j + 2] = Cr /\ cells[3 * j + 3] = Lf
  BY <1>2, <1>3, <1>5
<1>8. \A k \in 1 .. l : cells[3 * n + 5 + k] = m.body[k]
  BY <1>2, <1>3, <1>4
<1> QED
  BY <1>1, <1>2, <1>3, <1>6, <1>7, <1>8 DEF l, given, status, HeadCells

\* Their first blank line is the one after the headers.
LEMMA EndIs ==
    ASSUME NEW cells, NEW m, Headed(m), Begins(cells, m)
    PROVE  /\ BlankLines(cells) # {} /\ HeaderEnd(cells) = 3 * Len(m.headers) + 2
           /\ HasStatusLine(cells, HeaderEnd(cells))
<1> DEFINE n == Len(m.headers)
           end == 3 * n + 2
           blank == <<Cr, Lf, Cr, Lf>>
           four(i) == SubSeq(cells, i, i + 3)
<1>1. /\ n \in Nat /\ n > 0 /\ Len(cells) \in Nat /\ 3 * n + 5 <= Len(cells)
      /\ cells[1][1] = "status" /\ cells[2] = Cr /\ cells[3] = Lf
      /\ \A j \in 1 .. n : /\ cells[3 * j + 1] = m.headers[j]
                           /\ cells[3 * j + 2] = Cr /\ cells[3 * j + 3] = Lf
      /\ cells[3 * n + 4] = Cr /\ cells[3 * n + 5] = Lf
  <2> DEFINE l == Len(m.body)
             word == Word("reason", 64)
  <2>1. n = Len(m.headers)
    OBVIOUS
  <2> HIDE DEF n
  <2>2. n \in Nat /\ n > 0 /\ l \in Nat /\ Len(cells) \in Nat /\ 3 * n + 5 + l <= Len(cells) /\ HeadCells(cells, m, n)
    BY <2>1, HeadIs
  <2>3. cells[1] = <<"status", m.code, word>>
    BY <2>2 DEF HeadCells
  <2> HIDE DEF l, word
  <2>4. /\ \A j \in 1 .. n : /\ cells[3 * j + 1] = m.headers[j]
                             /\ cells[3 * j + 2] = Cr /\ cells[3 * j + 3] = Lf
        /\ cells[3 * n + 4] = Cr /\ cells[3 * n + 5] = Lf
        /\ cells[2] = Cr /\ cells[3] = Lf
    BY <2>2 DEF HeadCells
  <2>5. 3 * n + 5 <= Len(cells)
    BY <2>2
  <2>6. cells[1][1] = "status"
    BY <2>3
  <2> QED
    BY <2>2, <2>4, <2>5, <2>6
<1>2. \A j \in 1 .. n : cells[3 * j + 1][1] = "header"
  BY <1>1 DEF Headed
<1> HIDE DEF n
<1>3. ASSUME NEW i \in 1 .. Len(cells) - 3
      PROVE  /\ IsList(four(i)) /\ Len(four(i)) = 4
             /\ four(i)[1] = cells[i] /\ four(i)[2] = cells[i + 1]
             /\ four(i)[3] = cells[i + 2] /\ four(i)[4] = cells[i + 3]
  <2>1. i \in Nat /\ i + 3 \in Nat /\ 1 <= i /\ i <= i + 3 + 1 /\ i + 3 <= Len(cells) /\ i + 3 + 1 - i = 4
    BY <1>1
  <2>2. /\ IsList(four(i)) /\ Len(four(i)) = i + 3 + 1 - i
        /\ \A k \in 1 .. i + 3 + 1 - i : four(i)[k] = cells[i + k - 1]
    <3>1. IsList(cells)
      BY DEF Begins
    <3> DEFINE b == i + 3
    <3>2. b \in Nat /\ i <= b + 1 /\ b <= Len(cells)
      BY <2>1
    <3>3. four(i) = SubSeq(cells, i, b)
      OBVIOUS
    <3> HIDE DEF b, four
    <3>4. /\ IsList(SubSeq(cells, i, b)) /\ Len(SubSeq(cells, i, b)) = b + 1 - i
          /\ \A k \in 1 .. b + 1 - i : SubSeq(cells, i, b)[k] = cells[i + k - 1]
      BY <2>1, <3>1, <3>2, ListPart
    <3> QED
      BY <3>3, <3>4 DEF b
  <2>3. i + 1 - 1 = i /\ i + 2 - 1 = i + 1 /\ i + 3 - 1 = i + 2 /\ i + 4 - 1 = i + 3
    BY <2>1
  <2> HIDE DEF four
  <2> QED
    BY <2>1, <2>2, <2>3
<1>4. /\ IsList(blank) /\ Len(blank) = 4
      /\ blank[1] = Cr /\ blank[2] = Lf /\ blank[3] = Cr /\ blank[4] = Lf
  <2>1. blank \in Seq({Cr, Lf}) /\ Len(blank) = 4 /\ blank[1] = Cr /\ blank[2] = Lf /\ blank[3] = Cr /\ blank[4] = Lf
    OBVIOUS
  <2> HIDE DEF blank
  <2> QED
    BY <2>1 DEF IsList
<1>5. Cr[1] = "cr" /\ Lf[1] = "lf"
  BY DEF Cr, Lf
<1>6. BlankLines(cells) = {i \in 1 .. Len(cells) - 3 : four(i) = blank}
  BY DEF BlankLines
<1> HIDE DEF four, blank
<1>7. end \in BlankLines(cells)
  <2>1. /\ end \in 1 .. Len(cells) - 3 /\ end + 1 = 3 * n + 3 /\ end + 2 = 3 * n + 4 /\ end + 3 = 3 * n + 5
        /\ n \in 1 .. n
    BY <1>1
  <2>2. cells[end] = Cr /\ cells[end + 1] = Lf /\ cells[end + 2] = Cr /\ cells[end + 3] = Lf
    <3>1. cells[3 * n + 2] = Cr /\ cells[3 * n + 3] = Lf
      BY <1>1, <2>1
    <3> QED
      BY <1>1, <2>1, <3>1
  <2> HIDE DEF end
  <2>3. /\ IsList(four(end)) /\ Len(four(end)) = 4
        /\ four(end)[1] = Cr /\ four(end)[2] = Lf /\ four(end)[3] = Cr /\ four(end)[4] = Lf
    BY <1>3, <2>1, <2>2
  <2>4. \A k \in 1 .. 4 : four(end)[k] = blank[k]
    <3>1. \A k \in 1 .. 4 : k = 1 \/ k = 2 \/ k = 3 \/ k = 4
      OBVIOUS
    <3> QED
      BY <1>4, <2>3, <3>1
  <2>5. four(end) = blank
    BY <1>4, <2>3, <2>4, ListEqual
  <2> QED
    BY <1>6, <2>1, <2>5
<1>8. ASSUME NEW i \in BlankLines(cells) PROVE end <= i
  <2>1. i \in 1 .. Len(cells) - 3 /\ cells[i] = Cr /\ cells[i + 2] = Cr
    BY <1>3, <1>4, <1>6
  <2>2. SUFFICES ASSUME i < end PROVE FALSE
    BY <1>1, <2>1
  <2>3. CASE i = 1
    BY <1>1, <1>5, <2>1, <2>3
  <2>4. CASE i = 2
    <3>1. i + 2 = 3 * 1 + 1 /\ 1 \in 1 .. n
      BY <1>1, <2>4
    <3> QED
      BY <1>2, <1>5, <2>1, <3>1
  <2>5. CASE i = 3
    BY <1>1, <1>5, <2>1, <2>5
  <2>6. CASE i > 3
    <3>1. \E j \in 1 .. n : i = 3 * j + 1 \/ i + 2 = 3 * j + 1 \/ i = 3 * j + 3
      <4> DEFINE q == i \div 3
      <4>1. /\ q \in Nat /\ (i = 3 * q \/ i = 3 * q + 1 \/ i = 3 * q + 2)
        BY <2>1
      <4>2. CASE i = 3 * q
        <5>1. q - 1 \in 1 .. n /\ i = 3 * (q - 1) + 3
          BY <1>1, <2>1, <2>2, <2>6, <4>1, <4>2
        <5> QED
          BY <5>1
      <4>3. CASE i = 3 * q + 1
        <5>1. q \in 1 .. n
          BY <1>1, <2>1, <2>2, <2>6, <4>1, <4>3
        <5> QED
          BY <4>3, <5>1
      <4>4. CASE i = 3 * q + 2
        <5>1. q + 1 \in 1 .. n /\ i + 2 = 3 * (q + 1) + 1
          BY <1>1, <2>1, <2>2, <2>6, <4>1, <4>4
        <5> QED
          BY <5>1
      <4> QED
        BY <4>1, <4>2, <4>3, <4>4
    <3> QED
      BY <1>1, <1>2, <1>5, <2>1, <3>1
  <2> QED
    BY <2>1, <2>3, <2>4, <2>5, <2>6
<1>9. BlankLines(cells) # {} /\ BlankLines(cells) \in SUBSET Nat
  BY <1>1, <1>6, <1>7
<1>10. HeaderEnd(cells) = end
  <2> DEFINE first == Min(BlankLines(cells))
  <2>1. first \in BlankLines(cells) /\ \A i \in BlankLines(cells) : first <= i
    BY <1>9, MinIs
  <2> HIDE DEF first
  <2>2. first <= end /\ end <= first /\ first \in Nat /\ end \in Nat
    BY <1>7, <1>8, <1>9, <2>1
  <2> HIDE DEF end
  <2>3. first = end
    BY <2>2
  <2> QED
    BY <2>3 DEF HeaderEnd, first
<1>11. HasStatusLine(cells, end)
  <2>1. IsList(cells) /\ 2 \in Nat /\ 3 \in Nat /\ 1 <= 2 /\ 2 <= 3 + 1 /\ 3 <= Len(cells) /\ end > 2
    BY <1>1 DEF Begins
  <2> DEFINE two == SubSeq(cells, 2, 3)
  <2>2. IsList(two) /\ Len(two) = 3 + 1 - 2 /\ \A i \in 1 .. 3 + 1 - 2 : two[i] = cells[2 + i - 1]
    BY <2>1, ListPart
  <2> HIDE DEF two
  <2>3. Len(two) = 2 /\ two[1] = Cr /\ two[2] = Lf
    BY <1>1, <2>2
  <2>4. <<Cr, Lf>> \in Seq({Cr, Lf}) /\ Len(<<Cr, Lf>>) = 2 /\ <<Cr, Lf>>[1] = Cr /\ <<Cr, Lf>>[2] = Lf
    OBVIOUS
  <2>5. two = <<Cr, Lf>>
    <3> DEFINE line == <<Cr, Lf>>
    <3>1. IsList(line) /\ Len(line) = 2 /\ line[1] = Cr /\ line[2] = Lf
      BY <2>4 DEF IsList
    <3> HIDE DEF line
    <3>2. \A i \in 1 .. 2 : two[i] = line[i]
      <4>1. \A i \in 1 .. 2 : i = 1 \/ i = 2
        OBVIOUS
      <4> QED
        BY <2>3, <3>1, <4>1
    <3>3. two = line
      BY <2>2, <2>3, <3>1, <3>2, ListEqual
    <3> QED
      BY <3>3 DEF line
  <2> QED
    BY <1>1, <2>1, <2>5 DEF HasStatusLine, two
<1> QED
  BY <1>9, <1>10, <1>11 DEF n

\* The headers of a response that bear a name.
Says(m, name) == {i \in 1 .. Len(m.headers) : m.headers[i][2] = name}

\* The lines of n headers, the first at its beginning.
LinesAre(part, m, n) ==
    /\ IsList(part) /\ Len(part) = 3 * n - 2
    /\ \A j \in 1 .. n : part[3 * j - 2] = m.headers[j]
    /\ \A k \in 1 .. 3 * n - 2 : part[k] = Cr \/ part[k] = Lf \/ \E j \in 1 .. n : k = 3 * j - 2

\* The part that is read as headers is made of the headers' lines.
LEMMA PartIsLines ==
    ASSUME NEW cells, NEW m, Headed(m), Begins(cells, m), NEW n, n = Len(m.headers)
    PROVE  LinesAre(SubSeq(cells, 4, 3 * n + 1), m, n)
<1> DEFINE part == SubSeq(cells, 4, 3 * n + 1)
           l == Len(m.body)
<1>1. /\ n \in Nat /\ n > 0 /\ l \in Nat /\ Len(cells) \in Nat /\ 3 * n + 5 + l <= Len(cells)
      /\ HeadCells(cells, m, n)
  BY HeadIs
<1> HIDE DEF l
<1>2. \A j \in 1 .. n : cells[3 * j + 1] = m.headers[j] /\ cells[3 * j + 2] = Cr /\ cells[3 * j + 3] = Lf
  BY <1>1 DEF HeadCells
<1>3. IsList(part) /\ Len(part) = 3 * n - 2 /\ \A k \in 1 .. 3 * n - 2 : part[k] = cells[k + 3]
  <2> DEFINE b == 3 * n + 1
  <2>1. IsList(cells) /\ 4 \in Nat /\ b \in Nat /\ 1 <= 4 /\ 4 <= b + 1 /\ b <= Len(cells) /\ b + 1 - 4 = 3 * n - 2
    BY <1>1 DEF Begins
  <2>2. part = SubSeq(cells, 4, b)
    OBVIOUS
  <2> HIDE DEF part, b
  <2>3. IsList(part) /\ Len(part) = b + 1 - 4 /\ \A k \in 1 .. b + 1 - 4 : part[k] = cells[4 + k - 1]
    BY <2>1, <2>2, ListPart
  <2>4. \A k \in 1 .. 3 * n - 2 : 4 + k - 1 = k + 3
    BY <1>1
  <2> QED
    BY <2>1, <2>3, <2>4
<1> HIDE DEF part
<1>4. \A j \in 1 .. n : part[3 * j - 2] = m.headers[j]
  <2>1. \A j \in 1 .. n : 3 * j - 2 \in 1 .. 3 * n - 2 /\ 3 * j - 2 + 3 = 3 * j + 1
    BY <1>1
  <2> QED
    BY <1>2, <1>3, <2>1
<1>5. ASSUME NEW k \in 1 .. 3 * n - 2
      PROVE  part[k] = Cr \/ part[k] = Lf \/ \E j \in 1 .. n : k = 3 * j - 2
  <2>1. \E j \in 1 .. n : k = 3 * j - 2 \/ k + 3 = 3 * j + 2 \/ k + 3 = 3 * j + 3
    <3> DEFINE j == (k + 2) \div 3
    <3>1. j \in Nat /\ (k + 2 = 3 * j \/ k + 2 = 3 * j + 1 \/ k + 2 = 3 * j + 2)
      BY <1>1
    <3> HIDE DEF j
    <3>2. j \in 1 .. n /\ (k = 3 * j - 2 \/ k + 3 = 3 * j + 2 \/ k + 3 = 3 * j + 3)
      BY <1>1, <3>1
    <3> QED
      BY <3>2
  <2>2. PICK j \in 1 .. n : k = 3 * j - 2 \/ k + 3 = 3 * j + 2 \/ k + 3 = 3 * j + 3
    BY <2>1
  <2>3. part[k] = cells[k + 3]
    BY <1>3
  <2>4. cells[3 * j + 2] = Cr /\ cells[3 * j + 3] = Lf
    BY <1>2
  <2> QED
    BY <2>2, <2>3, <2>4
<1> QED
  BY <1>3, <1>4, <1>5 DEF LinesAre, part

\* The lines under a name are where its headers are, and the last of them is
\* the last header.
LEMMA UnderIs ==
    ASSUME NEW m, Headed(m), NEW n, n = Len(m.headers), NEW part, LinesAre(part, m, n), NEW name
    PROVE  LET lines == Under(part, 1 .. Len(part), name)  said == Says(m, name) IN
           /\ \A k : k \in lines <=> \E j \in said : k = 3 * j - 2
           /\ lines = {} <=> said = {}
           /\ said # {} => /\ Max(said) \in said
                           /\ part[Max(lines)] = m.headers[Max(said)]
<1> DEFINE lines == Under(part, 1 .. Len(part), name)
           said == Says(m, name)
<1>1. n \in Nat
  BY ListIs DEF Headed
<1>2. /\ Len(part) = 3 * n - 2 /\ \A j \in 1 .. n : part[3 * j - 2] = m.headers[j]
      /\ \A k \in 1 .. 3 * n - 2 : part[k] = Cr \/ part[k] = Lf \/ \E j \in 1 .. n : k = 3 * j - 2
  BY DEF LinesAre
<1>3. \A j \in 1 .. n : m.headers[j][1] = "header" /\ 3 * j - 2 \in 1 .. 3 * n - 2
  BY <1>1 DEF Headed
<1>4. said = {j \in 1 .. n : m.headers[j][2] = name}
  BY DEF Says
<1>5. lines = {k \in 1 .. 3 * n - 2 : part[k][1] = "header" /\ part[k][2] = name}
  BY <1>2 DEF Under
<1>6. Cr[1] # "header" /\ Lf[1] # "header"
  BY DEF Cr, Lf
<1> HIDE DEF lines, said
<1>7. ASSUME NEW k PROVE k \in lines <=> \E j \in said : k = 3 * j - 2
  <2>1. ASSUME k \in lines PROVE \E j \in said : k = 3 * j - 2
    <3>1. PICK j \in 1 .. n : k = 3 * j - 2
      BY <1>2, <1>5, <1>6, <2>1
    <3> QED
      BY <1>2, <1>4, <1>5, <2>1, <3>1
  <2>2. ASSUME NEW j \in said, k = 3 * j - 2 PROVE k \in lines
    <3>1. j \in 1 .. n /\ m.headers[j][2] = name
      BY <1>4
    <3>2. part[k] = m.headers[j] /\ k \in 1 .. 3 * n - 2
      BY <1>2, <1>3, <2>2, <3>1
    <3> QED
      BY <1>3, <1>5, <3>1, <3>2
  <2> QED
    BY <2>1, <2>2
<1>8. lines = {} <=> said = {}
  <2>1. \A j \in said : 3 * j - 2 \in lines
    BY <1>7
  <2> QED
    BY <1>7, <2>1
<1>9. ASSUME said # {} PROVE Max(said) \in said /\ part[Max(lines)] = m.headers[Max(said)]
  <2> DEFINE j == Max(said)
             k == 3 * j - 2
  <2>1. j \in said /\ \A i \in said : i <= j
    BY <1>1, <1>4, <1>9, MaxOf
  <2> HIDE DEF j
  <2>2. k \in lines /\ lines \in SUBSET Nat
    BY <1>1, <1>5, <1>7, <2>1
  <2>3. ASSUME NEW i \in lines PROVE i <= k
    <3>1. PICK h \in said : i = 3 * h - 2
      BY <1>7
    <3>2. h \in Nat /\ j \in Nat /\ h <= j
      BY <1>4, <2>1
    <3> QED
      BY <3>1, <3>2
  <2>4. Max(lines) = k
    <3> HIDE DEF k
    <3> QED
      BY <2>2, <2>3, MaxIs
  <2>5. part[k] = m.headers[j]
    BY <1>2, <1>4, <2>1
  <2> QED
    BY <2>1, <2>4, <2>5 DEF j
<1> QED
  BY <1>7, <1>8, <1>9 DEF lines, said

\* What a response of a camera says, wherever it says it.
Meaning(m, c) ==
    /\ Says(m, "CSeq") # {} /\ \A i \in Says(m, "CSeq") : m.headers[i][3] = m.cseq
    /\ \A i \in Says(m, "Content-Length") : m.headers[i][3] = Len(m.body)
    /\ Says(m, "Content-Length") = {} => m.body = <<>>
    /\ \A i \in Says(m, "Session") : m.headers[i][3] = [id |-> c.session, timeout |-> c.timeout]
    /\ \A name \in Texts : \A i \in Says(m, name) : IsWord(m.headers[i][3])

\* A word in a field of so many characters.
LEMMA BoundedIs ==
    ASSUME NEW word, IsWord(word), NEW cap \in Nat \ {0}
    PROVE  Bounded(word, cap) = Word(word[3], Min({word[2], cap - 1}))
<1>1. word[2] \in Nat /\ word = <<"word", word[2], word[3]>>
  BY DEF IsWord, Word
<1>2. CASE word[2] < cap
  <2>1. Min({word[2], cap - 1}) = word[2]
    <3>1. word[2] \in Int /\ cap - 1 \in Int /\ word[2] <= cap - 1
      BY <1>1, <1>2
    <3> DEFINE a == word[2]
               b == cap - 1
    <3> HIDE DEF a, b
    <3>2. Min({a, b}) = a
      BY <3>1, MinOfTwo DEF a, b
    <3> QED
      BY <3>2 DEF a, b
  <2> QED
    BY <1>2, <2>1 DEF Bounded, IsWord
<1>3. CASE ~(word[2] < cap)
  <2> DEFINE a == cap - 1
             b == word[2]
  <2>1. a \in Int /\ b \in Int /\ a <= b
    BY <1>1, <1>3
  <2>2. Bounded(word, cap) = <<word[1], a, word[3]>> /\ word[1] = "word"
    BY <1>1, <1>3 DEF Bounded
  <2> HIDE DEF a, b
  <2>3. Min({a, b}) = a /\ {a, b} = {b, a}
    BY <2>1, MinOfTwo
  <2>4. Bounded(word, cap) = Word(word[3], Min({b, a}))
    BY <2>2, <2>3 DEF Word
  <2> QED
    BY <2>4 DEF a, b
<1> QED
  BY <1>2, <1>3

\* From the cells of a response it is read as it was meant.
LEMMA HeadersAsMeant ==
    ASSUME NEW cells, NEW m, Headed(m), Begins(cells, m), NEW c \in Cameras, Meaning(m, c)
    PROVE  LET out == ReadHeaders(cells, HeaderEnd(cells)) IN
           /\ \E s, t, i : out = ReadOf(s, t, i)
           /\ out.code = m.code /\ out.cseq = m.cseq /\ out.length = Len(m.body)
           /\ out.session = LastSaid(m.headers, "Session", 64)
           /\ Says(m, "Session") = {} => out.session = None
           /\ Says(m, "Session") # {} => out.session = Bounded(c.session, SessionMax)
           /\ out.timeout = IF out.session = None THEN 0 ELSE c.timeout
           /\ \A name \in Texts : out.texts[name] = LastSaid(m.headers, name, TextMax[name])
<1> DEFINE n == Len(m.headers)
           part == SubSeq(cells, 4, 3 * n + 1)
           D == 1 .. Len(part)
           out == ReadHeaders(cells, HeaderEnd(cells))
<1>1. n \in Nat /\ HeadCells(cells, m, n)
  BY HeadIs
<1>2. LinesAre(part, m, n)
  BY PartIsLines
<1>3. ASSUME NEW name
      PROVE  LET lines == Under(part, D, name)  said == Says(m, name) IN
             /\ \A k : k \in lines <=> \E j \in said : k = 3 * j - 2
             /\ lines = {} <=> said = {}
             /\ said # {} => Max(said) \in said /\ part[Max(lines)] = m.headers[Max(said)]
  <2> HIDE DEF part
  <2> QED
    BY <1>2, UnderIs
<1>4. out = ReadOf(cells[1], part, D)
  <2>1. HeaderEnd(cells) = 3 * n + 2
    BY EndIs
  <2>2. 3 * n + 2 - 1 = 3 * n + 1
    BY <1>1
  <2> DEFINE b == 3 * n + 1
  <2>7. out = FoldLeft(ReadCell, ReadStatus(cells[1]), SubSeq(cells, 4, HeaderEnd(cells) - 1))
    BY DEF ReadHeaders
  <2>8. HeaderEnd(cells) - 1 = b
    BY <2>1, <2>2
  <2> HIDE DEF n, b, out
  <2>3. out = FoldLeft(ReadCell, ReadStatus(cells[1]), SubSeq(cells, 4, b))
    BY <2>7, <2>8
  <2>4. part = SubSeq(cells, 4, b)
    BY DEF b
  <2> HIDE DEF part
  <2>5. IsList(part)
    BY <1>2 DEF LinesAre
  <2>6. FoldLeft(ReadCell, ReadStatus(cells[1]), part) = ReadOf(cells[1], part, 1 .. Len(part))
    BY <2>5, CellsAreRead
  <2> QED
    BY <2>3, <2>4, <2>6
<1> DEFINE status == cells[1]
           texts == [name \in Texts |-> TextOf(part, D, name)]
<1>5. /\ out.code = status[2] /\ out.cseq = Latest(part, Under(part, D, "CSeq"), 0)
      /\ out.session = SessionOf(part, D) /\ out.timeout = TimeoutOf(part, D)
      /\ out.texts = texts
      /\ out.length = Latest(part, Under(part, D, "Content-Length"), 0)
  <2> DEFINE cseqs == Latest(part, Under(part, D, "CSeq"), 0)
             sessions == SessionOf(part, D)
             timeouts == TimeoutOf(part, D)
             lengths == Latest(part, Under(part, D, "Content-Length"), 0)
             code == status[2]
             reason == Bounded(status[3], ReasonMax)
  <2>1. ReadOf(status, part, D) =
          [parsed |-> FALSE, code |-> code, reason |-> reason, cseq |-> cseqs, session |-> sessions,
           timeout |-> timeouts, texts |-> texts, length |-> lengths, body |-> <<>>]
    BY DEF ReadOf
  <2> HIDE DEF cseqs, sessions, timeouts, lengths, texts, status, reason, code, part, out, D
  <2>2. out = [parsed |-> FALSE, code |-> code, reason |-> reason, cseq |-> cseqs, session |-> sessions,
               timeout |-> timeouts, texts |-> texts, length |-> lengths, body |-> <<>>]
    BY <1>4, <2>1 DEF status
  <2>3. /\ out.code = code /\ out.cseq = cseqs /\ out.session = sessions /\ out.timeout = timeouts
        /\ out.texts = texts /\ out.length = lengths
    BY <2>2
  <2> QED
    BY <2>3 DEF cseqs, sessions, timeouts, lengths, code
<1>6. status[2] = m.code
  <2> DEFINE word == Word("reason", 64)
  <2>1. status = <<"status", m.code, word>>
    BY <1>1 DEF HeadCells
  <2> HIDE DEF word, status
  <2> QED
    BY <2>1
<1> HIDE DEF part, D, out, texts, status
<1>7. out.code = m.code
  BY <1>5, <1>6
<1>8. out.cseq = m.cseq
  <2>1. Says(m, "CSeq") # {} /\ \A i \in Says(m, "CSeq") : m.headers[i][3] = m.cseq
    BY DEF Meaning
  <2> DEFINE lines == Under(part, D, "CSeq")
             said == Says(m, "CSeq")
  <2>2. lines # {} /\ Max(said) \in said /\ part[Max(lines)] = m.headers[Max(said)]
    BY <1>3, <2>1
  <2> HIDE DEF lines, said
  <2>3. Latest(part, lines, 0) = part[Max(lines)][3]
    BY <2>2 DEF Latest
  <2> QED
    BY <1>5, <2>1, <2>2, <2>3 DEF lines, said
<1>9. out.length = Len(m.body)
  <2> DEFINE lines == Under(part, D, "Content-Length")
             said == Says(m, "Content-Length")
  <2>1. CASE said = {}
    <3>1. m.body = <<>> /\ lines = {}
      BY <1>3, <2>1 DEF Meaning
    <3> QED
      BY <1>5, <3>1 DEF Latest
  <2>2. CASE said # {}
    <3>1. lines # {} /\ Max(said) \in said /\ part[Max(lines)] = m.headers[Max(said)]
      BY <1>3, <2>2
    <3>2. \A i \in said : m.headers[i][3] = Len(m.body)
      BY DEF Meaning
    <3>3. out.length = Latest(part, lines, 0)
      BY <1>5
    <3> HIDE DEF lines, said
    <3> QED
      BY <3>1, <3>2, <3>3 DEF Latest
  <2> QED
    BY <2>1, <2>2
<1>10. IsWord(c.session) /\ Bounded(c.session, SessionMax) # None /\ 64 \in Nat \ {0} /\ SessionMax = 64
  BY CamerasAssumption, NoneAssumption DEF SessionMax
<1> DEFINE said == Says(m, "Session")
           lines == Under(part, D, "Session")
           session0 == [id |-> c.session, timeout |-> c.timeout]
<1>11. \A i \in said : m.headers[i][3] = session0
  BY DEF Meaning
<1>12. session0.id = c.session /\ session0.timeout = c.timeout
  OBVIOUS
<1>13. said # {} => part[Max(lines)][3] = session0
  <2>1. said # {} => Max(said) \in said /\ part[Max(lines)] = m.headers[Max(said)]
    BY <1>3
  <2> HIDE DEF said, lines, session0
  <2> QED
    BY <1>11, <2>1
<1>14. lines = {} <=> said = {}
  BY <1>3
<1>15. /\ said = {} => out.session = None
       /\ said # {} => out.session = Bounded(c.session, SessionMax)
  <2>1. SessionOf(part, D) = IF lines = {} THEN None ELSE Bounded(part[Max(lines)][3].id, SessionMax)
    BY DEF SessionOf
  <2> HIDE DEF lines, said, session0
  <2> QED
    BY <1>5, <1>12, <1>13, <1>14, <2>1
<1>16. DOMAIN m.headers = 1 .. n /\ \A name : {i \in DOMAIN m.headers : m.headers[i][2] = name} = Says(m, name)
  <2>1. DOMAIN m.headers = 1 .. n
    BY ListIs DEF Headed
  <2> QED
    BY <2>1 DEF Says
<1>17. out.session = LastSaid(m.headers, "Session", 64)
  <2> DEFINE value == m.headers[Max(said)][3]
             word == value.id
  <2>1. LastSaid(m.headers, "Session", 64) = IF said = {} THEN None ELSE Word(word[3], Min({word[2], 64 - 1}))
    BY <1>16 DEF LastSaid
  <2>2. said # {} => value = session0
    <3>1. said # {} => Max(said) \in said
      BY <1>3
    <3> HIDE DEF said, session0
    <3> QED
      BY <1>11, <3>1
  <2>3. said # {} => word = c.session
    <3> HIDE DEF said, session0
    <3> QED
      BY <1>12, <2>2
  <2>4. Bounded(c.session, SessionMax) = Word(c.session[3], Min({c.session[2], 64 - 1}))
    BY <1>10, BoundedIs
  <2> HIDE DEF said, word, value
  <2> QED
    BY <1>15, <2>1, <2>3, <2>4
<1>18. out.timeout = IF out.session = None THEN 0 ELSE c.timeout
  <2> DEFINE timed == Timed(part, D)
  <2>1. TimeoutOf(part, D) = IF timed = {} THEN 0 ELSE part[Max(timed)][3].timeout
    BY DEF TimeoutOf
  <2>2. \A k \in lines : part[k][3] = session0
    <3>1. ASSUME NEW k \in lines PROVE part[k][3] = session0
      <4>1. PICK j \in said : k = 3 * j - 2
        BY <1>3
      <4>2. part[k] = m.headers[j]
        BY <1>2, <4>1 DEF LinesAre, Says
      <4> HIDE DEF session0, said, lines
      <4> QED
        BY <1>11, <4>1, <4>2
    <3> QED
      BY <3>1
  <2>3. timed = {k \in lines : part[k][3].timeout # 0}
    BY DEF Timed
  <2> HIDE DEF timed, lines, session0
  <2>4. timed = IF c.timeout = 0 THEN {} ELSE lines
    BY <1>12, <2>2, <2>3
  <2>5. out.session = None <=> said = {}
    BY <1>10, <1>15
  <2> HIDE DEF said
  <2> QED
    BY <1>5, <1>12, <1>13, <1>14, <2>1, <2>4, <2>5
<1>19. ASSUME NEW name \in Texts PROVE out.texts[name] = LastSaid(m.headers, name, TextMax[name])
  <2> DEFINE told == Says(m, name)
             under == Under(part, D, name)
             word == m.headers[Max(told)][3]
             cap == TextMax[name]
  <2>1. out.texts[name] = IF under = {} THEN None ELSE Bounded(part[Max(under)][3], cap)
    BY <1>5 DEF texts, TextOf
  <2>2. LastSaid(m.headers, name, cap) = IF told = {} THEN None ELSE Word(word[3], Min({word[2], cap - 1}))
    <3>1. name # "Session"
      BY DEF Texts
    <3> HIDE DEF cap
    <3> QED
      BY <1>16, <3>1 DEF LastSaid
  <2>3. cap \in Nat \ {0}
    BY DEF TextMax, Texts
  <2>4. told # {} => /\ under # {} /\ part[Max(under)][3] = word /\ IsWord(word)
    <3>1. told # {} => Max(told) \in told /\ part[Max(under)] = m.headers[Max(told)] /\ under # {}
      BY <1>3
    <3>2. \A i \in told : IsWord(m.headers[i][3])
      BY DEF Meaning
    <3> HIDE DEF told, under
    <3> QED
      BY <3>1, <3>2
  <2>5. told = {} => under = {}
    BY <1>3
  <2> HIDE DEF told, under, word, cap
  <2>6. told # {} => Bounded(word, cap) = Word(word[3], Min({word[2], cap - 1}))
    BY <2>3, <2>4, BoundedIs
  <2> QED
    BY <2>1, <2>2, <2>4, <2>5, <2>6 DEF cap
<1>20. \E s, t, i : out = ReadOf(s, t, i)
  BY <1>4
<1> QED
  BY <1>7, <1>8, <1>9, <1>15, <1>17, <1>18, <1>19, <1>20 DEF out

-----------------------------------------------------------------------------
(* A response read from the front of a stream. *)

\* What is read is what was meant.
ReadAsMeant(got, m, c) ==
    /\ got.parsed
    /\ got.code = m.code /\ got.cseq = m.cseq /\ got.body = m.body /\ got.length = Len(m.body)
    /\ got.session = LastSaid(m.headers, "Session", 64)
    /\ Says(m, "Session") = {} => got.session = None
    /\ Says(m, "Session") # {} => got.session = Bounded(c.session, SessionMax)
    /\ got.timeout = IF got.session = None THEN 0 ELSE c.timeout
    /\ \A name \in Texts : got.texts[name] = LastSaid(m.headers, name, TextMax[name])

\* A whole response is read, whatever follows it.
LEMMA WholeIsRead ==
    ASSUME NEW cells, NEW m, Headed(m), Begins(cells, m), NEW c \in Cameras, Meaning(m, c)
    PROVE  /\ ReadAsMeant(RtspResponseParse(cells), m, c)
           /\ HeaderEnd(cells) \in Nat
           /\ HeaderEnd(cells) + 3 + Len(m.body) = Len(CellsOf(m))
           /\ ReadHeaders(cells, HeaderEnd(cells)).length = Len(m.body)
<1> DEFINE n == Len(m.headers)
           l == Len(m.body)
           end == HeaderEnd(cells)
           out == ReadHeaders(cells, end)
           body == SubSeq(cells, end + 4, end + 3 + out.length)
           got == [out EXCEPT !.parsed = TRUE, !.body = body]
<1>1. /\ n \in Nat /\ n > 0 /\ l \in Nat /\ Len(cells) \in Nat
      /\ Len(CellsOf(m)) = 3 * n + 5 + l /\ 3 * n + 5 + l <= Len(cells)
      /\ HeadCells(cells, m, n)
  BY HeadIs
<1>2. BlankLines(cells) # {} /\ HasStatusLine(cells, end) /\ end = 3 * n + 2
  BY EndIs
<1>3. /\ \E s, t, i : out = ReadOf(s, t, i)
      /\ out.code = m.code /\ out.cseq = m.cseq /\ out.length = Len(m.body)
      /\ out.session = LastSaid(m.headers, "Session", 64)
      /\ Says(m, "Session") = {} => out.session = None
      /\ Says(m, "Session") # {} => out.session = Bounded(c.session, SessionMax)
      /\ out.timeout = IF out.session = None THEN 0 ELSE c.timeout
      /\ \A name \in Texts : out.texts[name] = LastSaid(m.headers, name, TextMax[name])
  BY HeadersAsMeant
<1>4. Whole(out, Len(cells) - (end + 3))
  <2>1. Len(cells) - (end + 3) >= l
    <3> HIDE DEF n, l, end
    <3> QED
      BY <1>1, <1>2
  <2> HIDE DEF out, end
  <2> QED
    BY <1>3, <2>1 DEF Whole
<1>5. RtspResponseParse(cells) = got
  BY <1>2, <1>4 DEF RtspResponseParse
<1>6. body = m.body
  <2> DEFINE a == 3 * n + 6
             b == 3 * n + 5 + l
             part == SubSeq(cells, a, b)
  <2>1. end + 4 = a /\ end + 3 + out.length = b
    <3> HIDE DEF out, end
    <3> QED
      BY <1>1, <1>2, <1>3
  <2>2. IsList(cells) /\ a \in Nat /\ b \in Nat /\ 1 <= a /\ a <= b + 1 /\ b <= Len(cells) /\ b + 1 - a = l
    <3>1. IsList(cells)
      BY DEF Begins
    <3> HIDE DEF n, l
    <3> QED
      BY <1>1, <3>1
  <2>3. \A k \in 1 .. l : cells[3 * n + 5 + k] = m.body[k]
    BY <1>1 DEF HeadCells
  <2>4. \A k \in 1 .. l : a + k - 1 = 3 * n + 5 + k
    BY <1>1
  <2>5. body = part
    BY <2>1
  <2> HIDE DEF a, b
  <2>6. IsList(part) /\ Len(part) = b + 1 - a /\ \A k \in 1 .. b + 1 - a : part[k] = cells[a + k - 1]
    BY <2>2, ListPart
  <2> HIDE DEF part
  <2>7. IsList(m.body) /\ Len(part) = l /\ \A k \in 1 .. l : part[k] = m.body[k]
    BY <2>2, <2>3, <2>4, <2>6 DEF Headed
  <2>8. part = m.body
    BY <2>6, <2>7, ListEqual
  <2> QED
    BY <2>5, <2>8
<1> HIDE DEF out, body, end
<1>7. /\ got.parsed = TRUE /\ got.body = body
      /\ got.code = out.code /\ got.cseq = out.cseq /\ got.length = out.length
      /\ got.session = out.session /\ got.timeout = out.timeout /\ got.texts = out.texts
  <2>1. PICK s, t, i : out = ReadOf(s, t, i)
    BY <1>3
  <2> DEFINE texts == [name \in Texts |-> TextOf(t, i, name)]
             cseqs == Latest(t, Under(t, i, "CSeq"), 0)
             lengths == Latest(t, Under(t, i, "Content-Length"), 0)
             reason == Bounded(s[3], ReasonMax)
             code == s[2]
             nothing == <<>>
  <2>2. out = [parsed |-> FALSE, code |-> code, reason |-> reason, cseq |-> cseqs, session |-> SessionOf(t, i),
               timeout |-> TimeoutOf(t, i), texts |-> texts, length |-> lengths, body |-> nothing]
    BY <2>1 DEF ReadOf
  <2> HIDE DEF texts, cseqs, lengths, reason, code, nothing
  <2> QED
    BY <2>2
<1> HIDE DEF got
<1>8. ReadAsMeant(got, m, c)
  BY <1>3, <1>6, <1>7 DEF ReadAsMeant
<1>9. end \in Nat /\ end + 3 + l = Len(CellsOf(m))
  BY <1>1, <1>2
<1> QED
  BY <1>3, <1>5, <1>8, <1>9 DEF end, out

\* As much of a stream as has arrived is a response only if it holds the whole
\* of the one the stream begins with, and then it is read as that was meant.
LEMMA ArrivedIsRead ==
    ASSUME NEW stream, NEW m, Headed(m), Begins(stream, m), NEW c \in Cameras, Meaning(m, c),
           NEW k \in 0 .. Len(stream), RtspResponseParse(Arrived(stream, k)).parsed
    PROVE  LET front == Arrived(stream, k) IN
           /\ Len(CellsOf(m)) <= k
           /\ ReadAsMeant(RtspResponseParse(front), m, c)
           /\ HeaderEnd(front) \in Nat
           /\ HeaderEnd(front) + 3 + Len(m.body) = Len(CellsOf(m))
<1> DEFINE front == Arrived(stream, k)
           whole == Len(CellsOf(m))
<1>1. PICK T : stream \in Seq(T)
  BY DEF Begins, IsList
<1>2. Len(stream) \in Nat /\ k \in Nat /\ whole \in Nat /\ whole <= Len(stream)
  <2>1. IsList(stream) /\ whole <= Len(stream)
    BY DEF Begins
  <2>2. IsList(CellsOf(m))
    BY CellsAre DEF Headed
  <2> HIDE DEF whole
  <2>3. Len(CellsOf(m)) \in Nat /\ Len(stream) \in Nat
    BY <2>1, <2>2, ListIs
  <2> QED
    BY <2>1, <2>3 DEF whole
<1>3. /\ RtspResponseParse(stream).parsed
      /\ ReadHeaders(stream, HeaderEnd(stream)).length = Len(m.body)
      /\ HeaderEnd(stream) + 3 + Len(m.body) = whole
  BY WholeIsRead DEF ReadAsMeant
<1>4. Len(m.body) \in Nat
  BY ListIs DEF Headed
<1>5. WholeAt(stream) = whole
  BY <1>3 DEF WholeAt
<1>6. whole <= k
  <2>1. \A i \in 0 .. WholeAt(stream) - 1 : ~RtspResponseParse(Arrived(stream, i)).parsed
    BY <1>1, <1>3, <1>4, ResponseIsFramed
  <2> HIDE DEF whole
  <2> QED
    BY <1>2, <1>5, <2>1
<1>7. Begins(front, m)
  <2>1. front \in Seq(T) /\ Len(front) = k /\ \A i \in 1 .. k : front[i] = stream[i]
    BY <1>1, ArrivedIs
  <2>2. \A i \in 1 .. whole : stream[i] = CellsOf(m)[i]
    BY DEF Begins
  <2> HIDE DEF front
  <2>3. \A i \in 1 .. whole : front[i] = CellsOf(m)[i]
    <3> HIDE DEF whole
    <3> QED
      BY <1>2, <1>6, <2>1, <2>2
  <2> QED
    BY <1>6, <2>1, <2>3 DEF Begins, IsList
<1>8. /\ ReadAsMeant(RtspResponseParse(front), m, c)
      /\ HeaderEnd(front) \in Nat /\ HeaderEnd(front) + 3 + Len(m.body) = whole
  <2> HIDE DEF front
  <2> QED
    BY <1>7, WholeIsRead
<1> QED
  BY <1>6, <1>8

-----------------------------------------------------------------------------
(* What the camera answers. *)

\* What is in a list.
Elements(s) == {s[i] : i \in 1 .. Len(s)}

\* The elements of two lists are those of both.
LEMMA JoinedElements ==
    ASSUME NEW x, NEW y, IsList(x), IsList(y)
    PROVE  Elements(x \o y) = Elements(x) \cup Elements(y)
<1> DEFINE z == x \o y
<1>1. Len(x) \in Nat /\ Len(y) \in Nat
  BY ListIs
<1>2. /\ IsList(z) /\ Len(z) = Len(x) + Len(y)
      /\ \A i \in 1 .. Len(x) : z[i] = x[i]
      /\ \A i \in 1 .. Len(y) : z[Len(x) + i] = y[i]
  BY ListConcat
<1> HIDE DEF z
<1>3. ASSUME NEW e \in Elements(z) PROVE e \in Elements(x) \cup Elements(y)
  <2>1. PICK i \in 1 .. Len(x) + Len(y) : e = z[i]
    BY <1>2 DEF Elements
  <2>2. CASE i <= Len(x)
    <3>1. i \in 1 .. Len(x)
      BY <1>1, <2>2
    <3> QED
      BY <1>2, <2>1, <3>1 DEF Elements
  <2>3. CASE ~(i <= Len(x))
    <3>1. i - Len(x) \in 1 .. Len(y) /\ Len(x) + (i - Len(x)) = i
      BY <1>1, <2>3
    <3>2. e = y[i - Len(x)]
      BY <1>2, <2>1, <3>1
    <3> QED
      BY <3>1, <3>2 DEF Elements
  <2> QED
    BY <2>2, <2>3
<1>4. ASSUME NEW e \in Elements(x) \cup Elements(y) PROVE e \in Elements(z)
  <2>1. CASE e \in Elements(x)
    <3>1. PICK i \in 1 .. Len(x) : e = x[i]
      BY <2>1 DEF Elements
    <3>2. i \in 1 .. Len(z) /\ e = z[i]
      BY <1>1, <1>2, <3>1
    <3> QED
      BY <3>2 DEF Elements
  <2>2. CASE e \in Elements(y)
    <3>1. PICK i \in 1 .. Len(y) : e = y[i]
      BY <2>2 DEF Elements
    <3>2. Len(x) + i \in 1 .. Len(z) /\ e = z[Len(x) + i]
      BY <1>1, <1>2, <3>1
    <3> QED
      BY <3>2 DEF Elements
  <2> QED
    BY <2>1, <2>2
<1> QED
  BY <1>3, <1>4 DEF z

\* A list of two.
LEMMA TwoElements ==
    ASSUME NEW a, NEW b
    PROVE  IsList(<<a, b>>) /\ Len(<<a, b>>) = 2 /\ Elements(<<a, b>>) = {a, b}
<1> DEFINE s == <<a, b>>
<1>1. s \in Seq({a, b}) /\ Len(s) = 2 /\ s[1] = a /\ s[2] = b
  OBVIOUS
<1> HIDE DEF s
<1>2. \A i \in 1 .. 2 : i = 1 \/ i = 2
  OBVIOUS
<1>3. 1 \in 1 .. 2 /\ 2 \in 1 .. 2
  OBVIOUS
<1>4. Elements(s) = {a, b}
  BY <1>1, <1>2, <1>3 DEF Elements
<1> QED
  BY <1>1, <1>4 DEF s, IsList

\* An empty list.
LEMMA NoElements == IsList(<<>>) /\ Len(<<>>) = 0 /\ Elements(<<>>) = {}
<1> DEFINE s == <<>>
<1>1. s \in Seq({}) /\ Len(s) = 0
  OBVIOUS
<1> HIDE DEF s
<1>2. Elements(s) = {}
  BY <1>1 DEF Elements
<1> QED
  BY <1>1, <1>2 DEF s, IsList

\* A header that is the camera's own.
FineHeader(h, c) ==
    /\ h[1] = "header"
    /\ \/ h[2] = "Session" /\ h[3] = [id |-> c.session, timeout |-> c.timeout]
       \/ h[2] \in {"Transport", "WWW-Authenticate"} /\ IsWord(h[3])

\* What there is to a response with these headers.
Answers(m, code, n, headers, c) ==
    /\ Headed(m) /\ Meaning(m, c) /\ m.code = code /\ m.cseq = n
    /\ Says(m, "Session") # {} <=> \E h \in Elements(headers) : h[2] = "Session"

\* Whatever the camera answers says what it means.
LEMMA ResponseIs ==
    ASSUME NEW code, NEW n, NEW headers, NEW body, NEW c, IsList(headers), IsList(body),
           \A h \in Elements(headers) : FineHeader(h, c)
    PROVE  Answers(Response(code, n, headers, body), code, n, headers, c)
<1> DEFINE m == Response(code, n, headers, body)
           number == <<"header", "CSeq", n>>
           server == <<"header", "Server", Word("camera", 6)>>
           length == <<"header", "Content-Length", Len(body)>>
           type == <<"header", "Content-Type", Word("application/sdp", 15)>>
           first == <<number, server>>
           last == IF body = <<>> THEN <<>> ELSE <<length, type>>
           joined == first \o headers
           all == joined \o last
<1>1. m = [code |-> code, cseq |-> n, headers |-> all, body |-> body]
  BY DEF Response
<1>2. IsWord(Word("application/sdp", 15)) /\ 15 \in Nat
  BY DEF IsWord, Word
<1>3. /\ number[1] = "header" /\ number[2] = "CSeq" /\ number[3] = n
      /\ server[1] = "header" /\ server[2] = "Server"
      /\ length[1] = "header" /\ length[2] = "Content-Length" /\ length[3] = Len(body)
      /\ type[1] = "header" /\ type[2] = "Content-Type" /\ IsWord(type[3])
  BY <1>2
<1> HIDE DEF number, server, length, type
<1>4. IsList(first) /\ Len(first) = 2 /\ Elements(first) = {number, server}
  BY TwoElements
<1>5. IsList(last) /\ Elements(last) = IF body = <<>> THEN {} ELSE {length, type}
  <2>1. IsList(<<length, type>>) /\ Elements(<<length, type>>) = {length, type}
    BY TwoElements
  <2>2. IsList(<<>>) /\ Elements(<<>>) = {}
    BY NoElements
  <2> QED
    BY <2>1, <2>2
<1> HIDE DEF first, last
<1>6. IsList(joined) /\ Elements(joined) = {number, server} \cup Elements(headers) /\ Len(joined) > 0
  <2>1. IsList(joined) /\ Elements(joined) = Elements(first) \cup Elements(headers) /\ Len(joined) = Len(first) + Len(headers)
    BY <1>4, JoinedElements, ListConcat
  <2>2. Len(headers) \in Nat
    BY ListIs
  <2> HIDE DEF joined
  <2> QED
    BY <1>4, <2>1, <2>2
<1> HIDE DEF joined
<1>7. IsList(all) /\ Elements(all) = Elements(joined) \cup Elements(last) /\ Len(all) > 0
  <2>1. IsList(all) /\ Elements(all) = Elements(joined) \cup Elements(last) /\ Len(all) = Len(joined) + Len(last)
    BY <1>5, <1>6, JoinedElements, ListConcat
  <2>2. Len(last) \in Nat /\ Len(joined) \in Nat
    BY <1>5, <1>6, ListIs
  <2> HIDE DEF all
  <2> QED
    BY <1>6, <2>1, <2>2
<1> HIDE DEF all, m
<1>8. m.code = code /\ m.cseq = n /\ m.headers = all /\ m.body = body
  BY <1>1
<1>9. \A h : h \in Elements(all) <=>
        \/ h = number \/ h = server \/ h \in Elements(headers)
        \/ body # <<>> /\ (h = length \/ h = type)
  BY <1>5, <1>6, <1>7
<1>10. \A h \in Elements(headers) :
         /\ h[1] = "header" /\ h[2] \in {"Session", "Transport", "WWW-Authenticate"}
         /\ h[2] = "Session" => h[3] = [id |-> c.session, timeout |-> c.timeout]
         /\ h[2] # "Session" => IsWord(h[3])
  BY DEF FineHeader
<1>11. ASSUME NEW name
       PROVE  /\ Says(m, name) # {} <=> \E h \in Elements(all) : h[2] = name
              /\ \A i \in Says(m, name) : m.headers[i] \in Elements(all) /\ m.headers[i][2] = name
  BY <1>8 DEF Says, Elements
<1>12. Headed(m)
  <2>1. \A i \in 1 .. Len(all) : all[i] \in Elements(all)
    BY DEF Elements
  <2>2. \A h \in Elements(all) : h[1] = "header"
    BY <1>3, <1>9, <1>10
  <2> QED
    BY <1>7, <1>8, <2>1, <2>2 DEF Headed
<1>13. Meaning(m, c)
  <2>1. Says(m, "CSeq") # {} /\ \A i \in Says(m, "CSeq") : m.headers[i][3] = m.cseq
    <3>1. \A h \in Elements(all) : h[2] = "CSeq" => h[3] = n
      BY <1>3, <1>9, <1>10
    <3>2. number \in Elements(all)
      BY <1>9
    <3> QED
      BY <1>3, <1>8, <1>11, <3>1, <3>2
  <2>2. \A i \in Says(m, "Content-Length") : m.headers[i][3] = Len(m.body)
    <3>1. \A h \in Elements(all) : h[2] = "Content-Length" => h[3] = Len(body)
      BY <1>3, <1>9, <1>10
    <3> QED
      BY <1>8, <1>11, <3>1
  <2>3. Says(m, "Content-Length") = {} => m.body = <<>>
    <3>1. body # <<>> => length \in Elements(all)
      BY <1>9
    <3> QED
      BY <1>3, <1>8, <1>11, <3>1
  <2>4. \A i \in Says(m, "Session") : m.headers[i][3] = [id |-> c.session, timeout |-> c.timeout]
    <3> DEFINE value == [id |-> c.session, timeout |-> c.timeout]
    <3>1. \A h \in Elements(headers) : h[2] = "Session" => h[3] = value
      BY <1>10
    <3> HIDE DEF value
    <3>2. \A h \in Elements(all) : h[2] = "Session" => h[3] = value
      BY <1>3, <1>9, <3>1
    <3>3. \A i \in Says(m, "Session") : m.headers[i][3] = value
      BY <1>11, <3>2
    <3> QED
      BY <3>3 DEF value
  <2>5. \A name \in Texts : \A i \in Says(m, name) : IsWord(m.headers[i][3])
    <3>1. \A h \in Elements(headers) : h[2] \in Texts => IsWord(h[3])
      <4>1. \A name \in Texts : name # "Session"
        BY DEF Texts
      <4> QED
        BY <1>10, <4>1
    <3>2. number[2] \notin Texts /\ server[2] \notin Texts /\ length[2] \notin Texts
      BY <1>3 DEF Texts
    <3>3. \A h \in Elements(all) : h[2] \in Texts => IsWord(h[3])
      BY <1>3, <1>9, <3>1, <3>2
    <3> QED
      BY <1>11, <3>3
  <2> QED
    BY <2>1, <2>2, <2>3, <2>4, <2>5 DEF Meaning
<1>14. Says(m, "Session") # {} <=> \E h \in Elements(headers) : h[2] = "Session"
  BY <1>3, <1>9, <1>11
<1> QED
  BY <1>8, <1>12, <1>13, <1>14 DEF m, Answers

\* A response on its way to the client, and the request it answers: its number,
\* who is challenged, and that a session is given with SETUP only.
OwedFor(m, p, t, logged) ==
    \E c \in At(t) :
       /\ Headed(m) /\ Meaning(m, c)
       /\ m.cseq = p[1]
       /\ m.code = 401 => c.challenges # <<>>
       /\ m.code = 200 /\ p[2] = "DESCRIBE" /\ ~logged => c.challenges = <<>>
       /\ Says(m, "Session") # {} <=> m.code = 200 /\ p[2] = "SETUP"

\* What the camera answers to a request is such a response.
LEMMA RespondsWell ==
    ASSUME NEW c \in At(target), NEW r, NEW p, RequestFor(r, p, target, login # None)
    PROVE  OwedFor(RespondTo(c, r), p, target, login # None)
<1> DEFINE n == ValueOf(r, "CSeq")
           logged == HasLine(r, "Authorization") /\ ValueOf(r, "Authorization") = Credentials(c)
           stranger == ~HasLine(r, "Session") \/ ValueOf(r, "Session") # c.session
           challenged == c.challenges # <<>> /\ ~logged
           challenges == [i \in DOMAIN c.challenges |-> <<"header", "WWW-Authenticate", c.challenges[i]>>]
           given == <<"header", "Session", [id |-> c.session, timeout |-> c.timeout]>>
           transport == <<"header", "Transport", Word("RTP/AVP;server_port", 256)>>
           parameters == IF p[2] = "GET_PARAMETER" THEN c.body ELSE <<>>
           uri == Uri(c)
           m == RespondTo(c, r)
           Good(x) == /\ Headed(x) /\ Meaning(x, c) /\ x.cseq = p[1]
                      /\ x.code = 401 => c.challenges # <<>>
                      /\ x.code = 200 /\ p[2] = "DESCRIBE" /\ login = None => c.challenges = <<>>
                      /\ Says(x, "Session") # {} <=> x.code = 200 /\ p[2] = "SETUP"
<1>1. c \in Cameras
  BY DEF At
<1>2. r[1].value[1] = p[2] /\ n = p[1] /\ (HasLine(r, "Authorization") <=> login # None)
  <2>1. r[1].value = <<p[2], Uri(target)>>
    BY DEF RequestFor
  <2>2. r[1].value[1] = p[2]
    BY <2>1
  <2> QED
    BY <2>2 DEF RequestFor
<1>3. m = IF r[1].value[2] # uri THEN Response(404, n, <<>>, <<>>)
          ELSE IF challenged THEN Response(401, n, challenges, <<>>)
          ELSE IF p[2] = "DESCRIBE" THEN Response(200, n, <<>>, c.body)
          ELSE IF p[2] = "SETUP" THEN Response(200, n, <<given, transport>>, <<>>)
          ELSE IF stranger THEN Response(454, n, <<>>, <<>>)
          ELSE Response(200, n, <<>>, parameters)
  BY <1>2 DEF RespondTo
<1>4. challenged => c.challenges # <<>>
  OBVIOUS
<1>5. login = None /\ ~challenged => c.challenges = <<>>
  BY <1>2
<1>6. IsList(c.body) /\ IsList(<<>>) /\ Elements(<<>>) = {}
  <2>1. c.body \in Seq(Range(c.body))
    BY <1>1, CamerasAssumption
  <2>2. IsList(c.body)
    BY <2>1 DEF IsList
  <2> QED
    BY <2>2, NoElements
<1>7. IsList(parameters)
  <2>1. parameters = c.body \/ parameters = <<>>
    OBVIOUS
  <2> QED
    BY <1>6, <2>1
<1>8. IsList(challenges) /\ \A h \in Elements(challenges) : FineHeader(h, c) /\ h[2] # "Session"
  <2> DEFINE asked == c.challenges
             say(i) == <<"header", "WWW-Authenticate", asked[i]>>
             k == Len(asked)
  <2>1. asked \in Seq(Range(asked)) /\ \A i \in DOMAIN asked : IsWord(asked[i])
    BY <1>1, CamerasAssumption
  <2>2. k \in Nat /\ DOMAIN asked = 1 .. k
    BY <2>1, LenProperties
  <2> HIDE DEF k
  <2>3. DOMAIN challenges = 1 .. k /\ challenges = [i \in 1 .. k |-> challenges[i]]
        /\ \A i \in 1 .. k : challenges[i] = say(i)
    BY <2>2
  <2>4. \A i \in 1 .. k : say(i)[1] = "header" /\ say(i)[2] = "WWW-Authenticate" /\ say(i)[3] = asked[i]
    OBVIOUS
  <2> HIDE DEF challenges, say, asked
  <2>5. IsList(challenges) /\ Len(challenges) = k
    BY <2>2, <2>3, MadeList
  <2>6. \A i \in 1 .. k : FineHeader(say(i), c) /\ say(i)[2] # "Session"
    BY <2>1, <2>2, <2>4 DEF FineHeader
  <2>7. \A h \in Elements(challenges) : \E i \in 1 .. k : h = say(i)
    BY <2>3, <2>5 DEF Elements
  <2> QED
    BY <2>5, <2>6, <2>7
<1>9. /\ IsList(<<given, transport>>) /\ Elements(<<given, transport>>) = {given, transport}
      /\ FineHeader(given, c) /\ FineHeader(transport, c) /\ given[2] = "Session"
  <2> DEFINE word == Word("RTP/AVP;server_port", 256)
             value == [id |-> c.session, timeout |-> c.timeout]
  <2>1. IsWord(word)
    <3>1. 256 \in Nat
      OBVIOUS
    <3> QED
      BY <3>1 DEF IsWord, Word
  <2>2. given = <<"header", "Session", value>> /\ transport = <<"header", "Transport", word>>
    OBVIOUS
  <2> HIDE DEF word
  <2>3. /\ transport[1] = "header" /\ transport[2] = "Transport" /\ transport[3] = word
        /\ given[1] = "header" /\ given[2] = "Session" /\ given[3] = value
    BY <2>2
  <2> HIDE DEF given, transport
  <2>4. FineHeader(given, c) /\ FineHeader(transport, c)
    BY <2>1, <2>3 DEF FineHeader
  <2> QED
    BY <2>3, <2>4, TwoElements
<1> HIDE DEF logged, stranger, challenged, challenges, given, transport, parameters, uri, m, n
<1>10. ASSUME NEW code, NEW headers, NEW body, IsList(headers), IsList(body),
              \A h \in Elements(headers) : FineHeader(h, c),
              code = 401 => c.challenges # <<>>,
              code = 200 /\ p[2] = "DESCRIBE" /\ login = None => c.challenges = <<>>,
              (\E h \in Elements(headers) : h[2] = "Session") <=> code = 200 /\ p[2] = "SETUP"
       PROVE  Good(Response(code, n, headers, body))
  <2> DEFINE x == Response(code, n, headers, body)
  <2>1. /\ Headed(x) /\ Meaning(x, c) /\ x.code = code /\ x.cseq = n
        /\ Says(x, "Session") # {} <=> \E h \in Elements(headers) : h[2] = "Session"
    <3>1. IsList(headers) /\ IsList(body) /\ \A h \in Elements(headers) : FineHeader(h, c)
      BY <1>10
    <3>2. Answers(x, code, n, headers, c)
      BY <3>1, ResponseIs
    <3> QED
      BY <3>2 DEF Answers
  <2> HIDE DEF x
  <2>2. Good(x)
    BY <1>2, <1>10, <2>1
  <2> QED
    BY <2>2 DEF x
<1> HIDE DEF Good
<1>11. Good(Response(404, n, <<>>, <<>>))
  BY <1>6, <1>10
<1>12. challenged => Good(Response(401, n, challenges, <<>>))
  BY <1>4, <1>6, <1>8, <1>10
<1>13. ~challenged /\ p[2] = "DESCRIBE" => Good(Response(200, n, <<>>, c.body))
  <2>1. ASSUME ~challenged, p[2] = "DESCRIBE" PROVE Good(Response(200, n, <<>>, c.body))
    <3>1. p[2] # "SETUP" /\ 200 # 401 /\ (login = None => c.challenges = <<>>)
      BY <1>5, <2>1
    <3> QED
      BY <1>6, <1>10, <3>1
  <2> QED
    BY <2>1
<1>14. p[2] = "SETUP" => Good(Response(200, n, <<given, transport>>, <<>>))
  <2>1. ASSUME p[2] = "SETUP" PROVE Good(Response(200, n, <<given, transport>>, <<>>))
    <3> DEFINE headers == <<given, transport>>
    <3>1. /\ IsList(headers) /\ \A h \in Elements(headers) : FineHeader(h, c)
          /\ \E h \in Elements(headers) : h[2] = "Session"
      BY <1>9
    <3> HIDE DEF headers
    <3>2. p[2] # "DESCRIBE" /\ 200 # 401
      BY <2>1
    <3>3. Good(Response(200, n, headers, <<>>))
      BY <1>6, <1>10, <2>1, <3>1, <3>2
    <3> QED
      BY <3>3 DEF headers
  <2> QED
    BY <2>1
<1>15. Good(Response(454, n, <<>>, <<>>))
  BY <1>6, <1>10
<1>16. p[2] # "DESCRIBE" /\ p[2] # "SETUP" => Good(Response(200, n, <<>>, parameters))
  <2>1. 200 # 401
    OBVIOUS
  <2> QED
    BY <1>6, <1>7, <1>10, <2>1
<1>17. Good(m)
  BY <1>3, <1>11, <1>12, <1>13, <1>14, <1>15, <1>16
<1> QED
  BY <1>17 DEF Good, m, OwedFor

-----------------------------------------------------------------------------
(* The inductive invariant of the session. *)

\* What is under way is in sequences.
Lists == IsList(pending) /\ IsList(requests) /\ IsList(owed) /\ IsList(wire) /\ IsList(received)

\* The requests not answered yet are numbered as they were sent.
Numbered ==
    /\ cseq \in Nat \ {0}
    /\ Len(pending) = Len(requests) + Len(owed)
    /\ \A i \in 1 .. Len(pending) :
          pending[i] \in Nat \X Methods /\ pending[i][1] = cseq - Len(pending) + i - 1

\* The client is logged in, or does not have to be.
Admitted == login # None \/ \A c \in At(target) : c.challenges = <<>>

\* Where the client is while a request is not answered.
PendingOk(m) ==
    /\ m = "DESCRIBE" => /\ Len(pending) = 1 /\ step = "waiting" /\ session = None
                         /\ cseq <= (IF login = None THEN 2 ELSE 3)
    /\ m = "SETUP" => Len(pending) = 1 /\ step = "waiting" /\ session = None /\ Admitted /\ cseq <= 4
    /\ m = "PLAY" => Len(pending) = 1 /\ step = "waiting" /\ session # None /\ Admitted /\ cseq <= 5
    /\ m = "GET_PARAMETER" =>
          session # None /\ Admitted /\ step \in {"playing", "waiting", "closed", "rejected", "too long"}
    /\ m = "TEARDOWN" => session # None /\ Admitted /\ step \in {"waiting", "closed", "rejected"}

\* What it has, where it is.
Phase ==
    /\ step \in {"connect", "refused", "unreachable"} => pending = <<>> /\ session = None /\ login = None /\ cseq = 1
    /\ step = "DESCRIBE" => pending = <<>> /\ session = None /\ cseq <= (IF login = None THEN 1 ELSE 2)
    /\ step = "SETUP" => pending = <<>> /\ session = None /\ Admitted /\ cseq <= 3
    /\ step = "PLAY" => pending = <<>> /\ session # None /\ Admitted /\ cseq <= 4
    /\ step = "playing" => session # None /\ Admitted /\ cseq <= MaxCSeq
    /\ cseq <= MaxCSeq + 1
    /\ \A i \in 1 .. Len(pending) : PendingOk(pending[i][2])

\* The older of them are answered, the others still on their way.
Exchanged ==
    /\ \A i \in 1 .. Len(owed) : OwedFor(owed[i], pending[i], target, login # None)
    /\ \A i \in 1 .. Len(requests) : RequestFor(requests[i], pending[Len(owed) + i], target, login # None)

\* The cells are those of the responses, cut at these places.
CutsOf(cuts, responses, cells) ==
    /\ cuts \in [0 .. Len(responses) -> 0 .. Len(cells)]
    /\ cuts[0] = 0 /\ cuts[Len(responses)] = Len(cells)
    /\ \A i \in 1 .. Len(responses) :
          /\ IsList(CellsOf(responses[i]))
          /\ cuts[i] = cuts[i - 1] + Len(CellsOf(responses[i]))
          /\ \A k \in 1 .. Len(CellsOf(responses[i])) : cells[cuts[i - 1] + k] = CellsOf(responses[i])[k]

\* What is in the buffer and on the wire is the responses owed, in their order.
Stream == \E cuts : CutsOf(cuts, owed, received \o wire)

\* The inductive invariant.
SessionInv ==
    /\ TargetIsParsed /\ Texted /\ Lists /\ Numbered /\ Phase /\ Exchanged /\ Stream /\ AnswerIsAsMeant

\* At first nothing is under way.
LEMMA SessionBegins == ASSUME Init PROVE SessionInv
<1>1. IsList(<<>>) /\ Len(<<>>) = 0
  BY NoElements
<1>2. /\ pending = <<>> /\ requests = <<>> /\ wire = <<>> /\ received = <<>> /\ owed = <<>>
      /\ step = "connect" /\ cseq = 1 /\ login = None /\ session = None
      /\ answer = [taken |-> FALSE]
  BY DEF Init
<1>3. TargetIsParsed
  BY DEF Init, TargetIsParsed
<1>4. Texted
  BY <1>2 DEF Texted
<1>5. Lists
  BY <1>1, <1>2 DEF Lists
<1>6. Numbered
  BY <1>1, <1>2 DEF Numbered
<1>7. Phase
  BY <1>1, <1>2, BoundsAssumption DEF Phase
<1>8. Exchanged
  BY <1>1, <1>2 DEF Exchanged
<1>9. Stream
  <2> DEFINE s == received \o wire
             cuts == [i \in {0} |-> 0]
  <2>1. IsList(s) /\ Len(s) = 0
    <3>1. IsList(received) /\ IsList(wire) /\ Len(received) = 0 /\ Len(wire) = 0
      BY <1>1, <1>2
    <3>2. IsList(s) /\ Len(s) = Len(received) + Len(wire)
      BY <3>1, ListConcat
    <3> HIDE DEF s
    <3> QED
      BY <3>1, <3>2
  <2>2. Len(owed) = 0
    BY <1>1, <1>2
  <2> HIDE DEF s
  <2>3. 0 .. Len(owed) = {0} /\ 0 .. Len(s) = {0} /\ 1 .. Len(owed) = {}
    BY <2>1, <2>2
  <2>4. cuts \in [{0} -> {0}] /\ cuts[0] = 0
    OBVIOUS
  <2> HIDE DEF cuts
  <2>5. CutsOf(cuts, owed, s)
    BY <2>1, <2>2, <2>3, <2>4 DEF CutsOf
  <2> QED
    BY <2>5 DEF Stream, s
<1>10. AnswerIsAsMeant
  BY <1>2 DEF AnswerIsAsMeant
<1> QED
  BY <1>3, <1>4, <1>5, <1>6, <1>7, <1>8, <1>9, <1>10 DEF SessionInv

\* While the client only sends, what the rest rests on stays.
Kept == UNCHANGED <<url, target, login, session, wire, received, owed, answer>>

\* What does not depend on the sending side.
LEMMA KeptIsKept ==
    ASSUME SessionInv, Kept
    PROVE  /\ TargetIsParsed' /\ Stream' /\ AnswerIsAsMeant'
           /\ Admitted' <=> Admitted
<1>1. /\ url' = url /\ target' = target /\ login' = login /\ session' = session
      /\ wire' = wire /\ received' = received /\ owed' = owed /\ answer' = answer
  BY DEF Kept
<1>2. TargetIsParsed'
  BY <1>1 DEF SessionInv, TargetIsParsed
<1>3. Stream'
  BY <1>1 DEF SessionInv, Stream
<1>4. AnswerIsAsMeant'
  BY <1>1 DEF SessionInv, AnswerIsAsMeant, At
<1>5. Admitted' <=> Admitted
  BY <1>1 DEF Admitted, At
<1> QED
  BY <1>2, <1>3, <1>4, <1>5

\* Connecting.
LEMMA ConnectKeeps == ASSUME SessionInv, Connect PROVE SessionInv'
<1>1. /\ step = "connect"
      /\ step' = IF ~target.parsed THEN "refused" ELSE IF At(target) = {} THEN "unreachable" ELSE "DESCRIBE"
      /\ url' = url /\ target' = target /\ cseq' = cseq /\ login' = login /\ session' = session
      /\ pending' = pending /\ requests' = requests
      /\ wire' = wire /\ received' = received /\ owed' = owed /\ answer' = answer
  BY DEF Connect, exchange
<1>2. Kept
  BY <1>1 DEF Kept
<1>3. /\ TargetIsParsed' /\ Stream' /\ AnswerIsAsMeant'
  BY <1>2, KeptIsKept
<1>4. pending = <<>> /\ session = None /\ login = None /\ cseq = 1 /\ cseq <= MaxCSeq + 1
  BY <1>1 DEF SessionInv, Phase
<1>5. Texted'
  BY <1>1, <1>4 DEF Texted
<1>6. Lists' /\ Numbered'
  BY <1>1 DEF SessionInv, Lists, Numbered
<1>7. Exchanged'
  BY <1>1, <1>3 DEF SessionInv, Exchanged
<1>8. Phase'
  <2>1. Len(pending) = 0
    BY <1>4, NoElements
  <2>2. step' \in {"refused", "unreachable", "DESCRIBE"}
    BY <1>1
  <2>3. 1 .. Len(pending') = {} /\ pending' = <<>> /\ session' = None /\ login' = None /\ cseq' = 1 /\ cseq' <= MaxCSeq + 1
    BY <1>1, <1>4, <2>1
  <2> QED
    BY <2>2, <2>3 DEF Phase
<1> QED
  BY <1>3, <1>5, <1>6, <1>7, <1>8 DEF SessionInv

-----------------------------------------------------------------------------
(* The steps of the session. *)

\* Where a method may be sent.
MaySend(method) ==
    \/ step \in {"DESCRIBE", "SETUP", "PLAY"} /\ method = step
    \/ step = "playing" /\ method = "GET_PARAMETER" /\ cseq < MaxCSeq
    \/ step = "playing" /\ method = "TEARDOWN"

\* Sending.
LEMMA SendKeeps ==
    ASSUME SessionInv, NEW method \in Methods, MaySend(method), Send(method)
    PROVE  SessionInv'
<1> DEFINE built == RtspRequestBuild(Request(method), Room)
           sent == built.returned # -1
           entry == <<cseq, method>>
<1>1. /\ step' = IF ~sent THEN "too long" ELSE IF method = "GET_PARAMETER" THEN "playing" ELSE "waiting"
      /\ requests' = IF sent THEN Append(requests, built.lines) ELSE requests
      /\ pending' = IF sent THEN Append(pending, entry) ELSE pending
      /\ cseq' = IF sent THEN cseq + 1 ELSE cseq
      /\ UNCHANGED <<url, target, login, session, wire, received, owed, answer>>
  BY DEF Send
<1>2. /\ TargetIsParsed' /\ Stream' /\ AnswerIsAsMeant'
      /\ Admitted' <=> Admitted
  BY <1>1, KeptIsKept DEF Kept
<1>3. /\ IsList(pending) /\ IsList(requests) /\ IsList(owed) /\ IsList(wire) /\ IsList(received)
      /\ Len(pending) \in Nat /\ Len(requests) \in Nat /\ Len(owed) \in Nat
  <2>1. Lists
    BY DEF SessionInv
  <2> QED
    BY <2>1, ListIs DEF Lists
<1>4. /\ cseq \in Nat \ {0} /\ Len(pending) = Len(requests) + Len(owed)
      /\ \A i \in 1 .. Len(pending) :
            pending[i] \in Nat \X Methods /\ pending[i][1] = cseq - Len(pending) + i - 1
  BY DEF SessionInv, Numbered
<1>5. MaxCSeq \in Nat /\ MaxCSeq >= 5
  BY BoundsAssumption
<1>6. step \in {"DESCRIBE", "SETUP", "PLAY", "playing"}
  BY DEF MaySend
<1>7. target.parsed /\ Texted'
  <2>1. step' \notin {"connect", "refused", "unreachable"} => target.parsed
    BY <1>6 DEF SessionInv, Texted
  <2> HIDE DEF built
  <2>2. step' \in {"too long", "playing", "waiting"}
    BY <1>1
  <2> QED
    BY <1>1, <2>1, <2>2 DEF SessionInv, Texted
<1>8. session # None <=> method \notin {"DESCRIBE", "SETUP"}
  BY DEF SessionInv, Phase, MaySend
<1>9. sent => RequestFor(built.lines, entry, target, login # None)
  <2>1. TargetIsParsed /\ Texted
    BY DEF SessionInv
  <2> QED
    BY <1>7, <1>8, <2>1, SentIsOk
<1>10. entry \in Nat \X Methods /\ entry[1] = cseq /\ entry[2] = method
  BY <1>4
<1> HIDE DEF built, entry
<1>11. \A i \in 1 .. Len(pending) : pending[i][2] \in Methods /\ PendingOk(pending[i][2])
  BY <1>4 DEF SessionInv, Phase
<1>12. \A i \in 1 .. Len(pending) :
         pending[i][2] = "GET_PARAMETER" /\ session # None /\ Admitted /\ step = "playing"
  <2>1. step # "playing" => Len(pending) = 0
    <3>1. step # "playing" => pending = <<>>
      BY <1>6 DEF SessionInv, Phase
    <3> QED
      BY <3>1, NoElements
  <2>2. ASSUME NEW i \in 1 .. Len(pending)
        PROVE  pending[i][2] = "GET_PARAMETER" /\ session # None /\ Admitted /\ step = "playing"
    <3>1. step = "playing"
      BY <1>3, <2>1
    <3> DEFINE m == pending[i][2]
    <3>2. m \in Methods /\ PendingOk(m)
      BY <1>11
    <3> HIDE DEF m
    <3>3. m = "GET_PARAMETER" /\ session # None /\ Admitted
      BY <3>1, <3>2 DEF PendingOk, Methods
    <3> QED
      BY <3>1, <3>3 DEF m
  <2> QED
    BY <2>2
<1>13. ASSUME ~sent PROVE Lists' /\ Numbered' /\ Phase' /\ Exchanged'
  <2>1. /\ step' = "too long" /\ requests' = requests /\ pending' = pending /\ cseq' = cseq
        /\ login' = login /\ session' = session /\ wire' = wire /\ received' = received /\ owed' = owed
    BY <1>1, <1>13
  <2>2. Lists' /\ Numbered'
    BY <2>1 DEF SessionInv, Lists, Numbered
  <2>3. Exchanged'
    BY <1>1, <2>1 DEF SessionInv, Exchanged
  <2>4. Phase'
    <3>1. cseq' <= MaxCSeq + 1
      BY <2>1 DEF SessionInv, Phase
    <3>2. ASSUME NEW i \in 1 .. Len(pending') PROVE PendingOk(pending[i][2])'
      <4>1. pending'[i][2] = "GET_PARAMETER" /\ session' # None /\ Admitted'
        BY <1>2, <1>12, <2>1
      <4> QED
        BY <2>1, <4>1 DEF PendingOk
    <3> QED
      BY <2>1, <3>1, <3>2 DEF Phase
  <2> QED
    BY <2>2, <2>3, <2>4
<1>14. ASSUME sent PROVE Lists' /\ Numbered' /\ Phase' /\ Exchanged'
  <2> DEFINE lines == built.lines
  <2>1. /\ step' = IF method = "GET_PARAMETER" THEN "playing" ELSE "waiting"
        /\ requests' = Append(requests, lines) /\ pending' = Append(pending, entry) /\ cseq' = cseq + 1
        /\ login' = login /\ session' = session /\ wire' = wire /\ received' = received /\ owed' = owed
    BY <1>1, <1>14
  <2> HIDE DEF lines
  <2>2. /\ IsList(pending') /\ Len(pending') = Len(pending) + 1
        /\ \A i \in 1 .. Len(pending) : pending'[i] = pending[i]
        /\ pending'[Len(pending) + 1] = entry
    BY <1>3, <2>1, ListAppend
  <2>3. /\ IsList(requests') /\ Len(requests') = Len(requests) + 1
        /\ \A i \in 1 .. Len(requests) : requests'[i] = requests[i]
        /\ requests'[Len(requests) + 1] = lines
    BY <1>3, <2>1, ListAppend
  <2>4. Lists'
    BY <1>3, <2>1, <2>2, <2>3 DEF Lists
  <2>5. Numbered'
    <3>1. cseq' \in Nat \ {0} /\ Len(pending') = Len(requests') + Len(owed')
      BY <1>3, <1>4, <2>1, <2>2, <2>3
    <3>2. ASSUME NEW i \in 1 .. Len(pending')
          PROVE  pending'[i] \in Nat \X Methods /\ pending'[i][1] = cseq' - Len(pending') + i - 1
      <4>1. CASE i \in 1 .. Len(pending)
        BY <1>3, <1>4, <2>1, <2>2, <4>1
      <4>2. CASE i = Len(pending) + 1
        BY <1>3, <1>4, <1>10, <2>1, <2>2, <4>2
      <4> QED
        BY <1>3, <2>2, <4>1, <4>2
    <3> QED
      BY <3>1, <3>2 DEF Numbered
  <2>6. Exchanged'
    <3>1. ASSUME NEW i \in 1 .. Len(owed') PROVE OwedFor(owed[i], pending[i], target, login # None)'
      <4>1. i \in 1 .. Len(owed) /\ i \in 1 .. Len(pending)
        BY <1>3, <1>4, <2>1
      <4>2. OwedFor(owed[i], pending[i], target, login # None)
        BY <4>1 DEF SessionInv, Exchanged
      <4>3. owed'[i] = owed[i] /\ pending'[i] = pending[i]
        BY <2>1, <2>2, <4>1
      <4> QED
        BY <1>1, <4>2, <4>3
    <3>2. ASSUME NEW i \in 1 .. Len(requests') PROVE RequestFor(requests[i], pending[Len(owed) + i], target, login # None)'
      <4>1. CASE i \in 1 .. Len(requests)
        <5>1. Len(owed) + i \in 1 .. Len(pending) /\ Len(owed') = Len(owed)
          BY <1>3, <1>4, <2>1, <4>1
        <5>2. RequestFor(requests[i], pending[Len(owed) + i], target, login # None)
          BY <4>1 DEF SessionInv, Exchanged
        <5>3. requests'[i] = requests[i] /\ pending'[Len(owed') + i] = pending[Len(owed) + i]
          BY <2>2, <2>3, <4>1, <5>1
        <5> QED
          BY <1>1, <5>2, <5>3
      <4>2. CASE i = Len(requests) + 1
        <5>1. Len(owed') + i = Len(pending) + 1
          BY <1>3, <1>4, <2>1, <4>2
        <5>2. requests'[i] = lines /\ pending'[Len(owed') + i] = entry
          BY <2>2, <2>3, <4>2, <5>1
        <5> QED
          BY <1>1, <1>9, <1>14, <5>2 DEF lines
      <4> QED
        BY <1>3, <2>3, <4>1, <4>2
    <3> QED
      BY <3>1, <3>2 DEF Exchanged
  <2>7. Phase'
    <3>1. /\ cseq' = cseq + 1 /\ cseq \in Nat
          /\ step = "DESCRIBE" => cseq <= (IF login = None THEN 1 ELSE 2)
          /\ step = "SETUP" => cseq <= 3
          /\ step = "PLAY" => cseq <= 4
          /\ step = "playing" => cseq <= MaxCSeq
          /\ step \in {"SETUP", "PLAY", "playing"} => Admitted
          /\ step \in {"DESCRIBE", "SETUP", "PLAY"} => pending = <<>>
      BY <1>4, <2>1 DEF SessionInv, Phase
    <3>2. cseq' <= MaxCSeq + 1
      BY <1>5, <1>6, <3>1
    <3>3. step' = "playing" => session' # None /\ Admitted' /\ cseq' <= MaxCSeq
      <4>1. step' = "playing" => method = "GET_PARAMETER"
        BY <2>1
      <4>2. method = "GET_PARAMETER" => step = "playing" /\ cseq < MaxCSeq
        BY <1>6 DEF MaySend
      <4>3. method = "GET_PARAMETER" => session # None
        BY <1>8
      <4> QED
        BY <1>2, <1>5, <2>1, <3>1, <4>1, <4>2, <4>3
    <3>4. PendingOk(method)'
      <4>1. step \in {"DESCRIBE", "SETUP", "PLAY"} => Len(pending') = 1
        BY <2>2, <3>1, NoElements
      <4>2. CASE method = "DESCRIBE"
        <5>1. step = "DESCRIBE" /\ step' = "waiting"
          BY <2>1, <4>2 DEF MaySend
        <5>2. session' = None /\ cseq' <= (IF login' = None THEN 2 ELSE 3)
          BY <1>8, <2>1, <3>1, <4>2, <5>1
        <5> QED
          BY <4>1, <4>2, <5>1, <5>2 DEF PendingOk
      <4>3. CASE method = "SETUP"
        <5>1. step = "SETUP" /\ step' = "waiting"
          BY <2>1, <4>3 DEF MaySend
        <5>2. session' = None /\ Admitted' /\ cseq' <= 4
          BY <1>2, <1>8, <2>1, <3>1, <4>3, <5>1
        <5> QED
          BY <4>1, <4>3, <5>1, <5>2 DEF PendingOk
      <4>4. CASE method = "PLAY"
        <5>1. step = "PLAY" /\ step' = "waiting"
          BY <2>1, <4>4 DEF MaySend
        <5>2. session' # None /\ Admitted' /\ cseq' <= 5
          BY <1>2, <1>8, <2>1, <3>1, <4>4, <5>1
        <5> QED
          BY <4>1, <4>4, <5>1, <5>2 DEF PendingOk
      <4>5. CASE method = "GET_PARAMETER"
        <5>1. step' = "playing"
          BY <2>1, <4>5
        <5> QED
          BY <3>3, <4>5, <5>1 DEF PendingOk
      <4>6. CASE method = "TEARDOWN"
        <5>1. step = "playing" /\ step' = "waiting"
          BY <2>1, <4>6 DEF MaySend
        <5>2. session' # None /\ Admitted'
          BY <1>2, <1>8, <2>1, <3>1, <4>6, <5>1
        <5> QED
          BY <4>6, <5>1, <5>2 DEF PendingOk
      <4> QED
        BY <4>2, <4>3, <4>4, <4>5, <4>6 DEF Methods
    <3>5. ASSUME NEW i \in 1 .. Len(pending') PROVE PendingOk(pending[i][2])'
      <4>1. CASE i \in 1 .. Len(pending)
        <5>1. pending'[i][2] = "GET_PARAMETER" /\ session' # None /\ Admitted'
          BY <1>2, <1>12, <2>1, <2>2, <4>1
        <5>2. step' \in {"playing", "waiting"}
          BY <2>1
        <5> QED
          BY <5>1, <5>2 DEF PendingOk
      <4>2. CASE i = Len(pending) + 1
        <5>1. pending'[i][2] = method
          BY <1>10, <2>2, <4>2
        <5> QED
          BY <3>4, <5>1
      <4> QED
        BY <1>3, <2>2, <4>1, <4>2
    <3>6. step' \in {"playing", "waiting"}
      BY <2>1
    <3> QED
      BY <3>2, <3>3, <3>5, <3>6 DEF Phase
  <2> QED
    BY <2>4, <2>5, <2>6, <2>7
<1> QED
  BY <1>2, <1>7, <1>13, <1>14 DEF SessionInv

\* Where the responses to come are, when one more is sent.
LEMMA OneMoreResponse ==
    ASSUME NEW cells, NEW responses, NEW cuts, NEW m, IsList(cells), IsList(responses), IsList(CellsOf(m)),
           CutsOf(cuts, responses, cells)
    PROVE  \E new : CutsOf(new, Append(responses, m), cells \o CellsOf(m))
<1> DEFINE n == Len(responses)
           l == Len(cells)
           said == CellsOf(m)
           all == cells \o said
           more == Append(responses, m)
           new == [i \in 0 .. n + 1 |-> IF i = n + 1 THEN Len(all) ELSE cuts[i]]
<1>1. n \in Nat /\ l \in Nat /\ Len(said) \in Nat
  BY ListIs
<1>2. /\ cuts \in [0 .. n -> 0 .. l] /\ cuts[0] = 0 /\ cuts[n] = l
      /\ \A i \in 1 .. n :
            /\ IsList(CellsOf(responses[i]))
            /\ cuts[i] = cuts[i - 1] + Len(CellsOf(responses[i]))
            /\ \A k \in 1 .. Len(CellsOf(responses[i])) : cells[cuts[i - 1] + k] = CellsOf(responses[i])[k]
  BY DEF CutsOf
<1>3. /\ Len(all) = l + Len(said)
      /\ \A i \in 1 .. l : all[i] = cells[i]
      /\ \A i \in 1 .. Len(said) : all[l + i] = said[i]
  BY ListConcat
<1>4. Len(more) = n + 1 /\ (\A i \in 1 .. n : more[i] = responses[i]) /\ more[n + 1] = m
  BY ListAppend
<1>5. IsList(said)
  OBVIOUS
<1>6. said = CellsOf(m)
  OBVIOUS
<1> HIDE DEF n, l, said, all, more
<1>7. new[n + 1] = Len(all) /\ \A i \in 0 .. n : new[i] = cuts[i] /\ cuts[i] \in 0 .. l
  BY <1>1, <1>2
<1>8. new \in [0 .. n + 1 -> 0 .. Len(all)]
  <2>1. \A i \in 0 .. n + 1 : (IF i = n + 1 THEN Len(all) ELSE cuts[i]) \in 0 .. Len(all)
    BY <1>1, <1>2, <1>3
  <2> QED
    BY <2>1
<1> HIDE DEF new
<1>9. new[0] = 0
  BY <1>1, <1>2, <1>7
<1>10. ASSUME NEW i \in 1 .. n + 1
       PROVE  /\ IsList(CellsOf(more[i]))
              /\ new[i] = new[i - 1] + Len(CellsOf(more[i]))
              /\ \A k \in 1 .. Len(CellsOf(more[i])) : all[new[i - 1] + k] = CellsOf(more[i])[k]
  <2>1. CASE i \in 1 .. n
    <3> DEFINE part == CellsOf(responses[i])
    <3>1. /\ more[i] = responses[i] /\ new[i] = cuts[i] /\ new[i - 1] = cuts[i - 1]
          /\ cuts[i] \in 0 .. l /\ cuts[i - 1] \in 0 .. l
      BY <1>1, <1>4, <1>7, <2>1
    <3>2. /\ IsList(part) /\ cuts[i] = cuts[i - 1] + Len(part)
          /\ \A k \in 1 .. Len(part) : cells[cuts[i - 1] + k] = part[k]
      BY <1>2, <2>1
    <3>3. Len(part) \in Nat
      BY <3>2, ListIs
    <3>4. CellsOf(more[i]) = part
      BY <3>1
    <3> HIDE DEF part
    <3>5. \A k \in 1 .. Len(part) : cuts[i - 1] + k \in 1 .. l
      BY <1>1, <3>1, <3>2, <3>3
    <3>6. \A k \in 1 .. Len(part) : all[cuts[i - 1] + k] = part[k]
      BY <1>3, <3>2, <3>5
    <3> QED
      BY <3>1, <3>2, <3>4, <3>6
  <2>2. CASE i = n + 1
    <3>1. CellsOf(more[i]) = said /\ new[i] = l + Len(said) /\ new[i - 1] = l
      <4>1. i - 1 = n /\ n \in 0 .. n
        BY <1>1, <2>2
      <4> QED
        BY <1>2, <1>3, <1>4, <1>6, <1>7, <2>2, <4>1
    <3> QED
      BY <1>3, <1>5, <3>1
  <2> QED
    BY <1>1, <2>1, <2>2
<1>11. CutsOf(new, more, all)
  BY <1>4, <1>7, <1>8, <1>9, <1>10 DEF CutsOf
<1> QED
  BY <1>11 DEF more, all, said

\* And when the first has been taken.
LEMMA OneLessResponse ==
    ASSUME NEW cells, NEW responses, NEW cuts, IsList(cells), IsList(responses), responses # <<>>,
           CutsOf(cuts, responses, cells),
           NEW whole, whole = Len(CellsOf(responses[1])), NEW rest, IsList(rest),
           Len(rest) = Len(cells) - whole, \A i \in 1 .. Len(cells) - whole : rest[i] = cells[whole + i]
    PROVE  \E new : CutsOf(new, Tail(responses), rest)
<1> DEFINE n == Len(responses)
           l == Len(cells)
           fewer == Tail(responses)
           new == [i \in 0 .. n - 1 |-> cuts[i + 1] - whole]
<1>1. /\ n \in Nat /\ n > 0 /\ l \in Nat
      /\ Len(fewer) = n - 1 /\ \A i \in 1 .. n - 1 : fewer[i] = responses[i + 1]
  BY ListIs, ListTail
<1>2. /\ cuts \in [0 .. n -> 0 .. l] /\ cuts[0] = 0 /\ cuts[n] = l
      /\ \A i \in 1 .. n :
            /\ IsList(CellsOf(responses[i]))
            /\ cuts[i] = cuts[i - 1] + Len(CellsOf(responses[i]))
            /\ \A k \in 1 .. Len(CellsOf(responses[i])) : cells[cuts[i - 1] + k] = CellsOf(responses[i])[k]
  BY DEF CutsOf
<1> HIDE DEF n, l, fewer
<1>3. cuts[1] = whole /\ whole \in Nat
  <2>1. 1 \in 1 .. n /\ 1 - 1 = 0
    BY <1>1
  <2>2. IsList(CellsOf(responses[1])) /\ cuts[1] = cuts[0] + whole
    BY <1>2, <2>1
  <2>3. whole \in Nat
    BY <2>2, ListIs
  <2> QED
    BY <1>2, <2>2, <2>3
<1> DEFINE Bad == {i \in 1 .. n : cuts[i] < whole}
<1>4. ASSUME NEW i \in 1 .. n
      PROVE  /\ cuts[i] \in 0 .. l /\ cuts[i - 1] \in 0 .. l /\ cuts[i - 1] <= cuts[i]
             /\ Len(CellsOf(responses[i])) \in Nat
  <2>1. i \in 0 .. n /\ i - 1 \in 0 .. n
    BY <1>1
  <2>2. cuts[i] \in 0 .. l /\ cuts[i - 1] \in 0 .. l
    BY <1>2, <2>1
  <2>3. IsList(CellsOf(responses[i])) /\ cuts[i] = cuts[i - 1] + Len(CellsOf(responses[i]))
    BY <1>2
  <2>4. Len(CellsOf(responses[i])) \in Nat
    BY <2>3, ListIs
  <2> QED
    BY <1>1, <2>2, <2>3, <2>4
<1>5. Bad = {}
  <2>1. SUFFICES ASSUME Bad # {} PROVE FALSE
    OBVIOUS
  <2>2. Bad \in SUBSET Nat
    OBVIOUS
  <2> DEFINE least == Min(Bad)
  <2>3. least \in Bad /\ \A i \in Bad : least <= i
    BY <2>1, <2>2, MinIs
  <2> HIDE DEF least
  <2>4. least \in 1 .. n /\ cuts[least] < whole
    BY <2>3
  <2>5. least # 1
    BY <1>3, <2>4
  <2>6. least - 1 \in 1 .. n /\ ~(least <= least - 1)
    BY <1>1, <2>4, <2>5
  <2>7. ~(cuts[least - 1] < whole)
    BY <2>3, <2>6
  <2>8. cuts[least - 1] <= cuts[least] /\ cuts[least] \in 0 .. l /\ cuts[least - 1] \in 0 .. l
    BY <1>4, <2>4
  <2> QED
    BY <1>1, <1>3, <2>4, <2>7, <2>8
<1>6. \A i \in 1 .. n : whole <= cuts[i] /\ cuts[i] <= l /\ cuts[i] \in Nat
  <2>1. ASSUME NEW i \in 1 .. n PROVE whole <= cuts[i] /\ cuts[i] <= l /\ cuts[i] \in Nat
    <3>1. cuts[i] \in 0 .. l
      BY <1>4
    <3>2. ~(cuts[i] < whole)
      BY <1>5
    <3> DEFINE at == cuts[i]
    <3> HIDE DEF at
    <3>3. at \in Nat /\ at <= l /\ whole <= at
      BY <1>1, <1>3, <3>1, <3>2 DEF at
    <3> QED
      BY <3>3 DEF at
  <2> QED
    BY <2>1
<1>7. \A i \in 0 .. n - 1 : i + 1 \in 1 .. n /\ new[i] = cuts[i + 1] - whole /\ new[i] \in 0 .. l - whole
  BY <1>1, <1>3, <1>6
<1>8. Len(rest) = l - whole /\ \A i \in 1 .. l - whole : rest[i] = cells[whole + i]
  BY DEF l
<1>9. new \in [0 .. n - 1 -> 0 .. l - whole]
  BY <1>7
<1> HIDE DEF new
<1>10. new[0] = 0 /\ new[n - 1] = l - whole
  <2>1. 0 \in 0 .. n - 1 /\ n - 1 \in 0 .. n - 1 /\ 0 + 1 = 1 /\ n - 1 + 1 = n
    BY <1>1
  <2>2. new[0] = cuts[1] - whole /\ new[n - 1] = cuts[n] - whole
    BY <1>7, <2>1
  <2> QED
    BY <1>2, <1>3, <2>2
<1>11. ASSUME NEW i \in 1 .. n - 1
       PROVE  /\ IsList(CellsOf(fewer[i]))
              /\ new[i] = new[i - 1] + Len(CellsOf(fewer[i]))
              /\ \A k \in 1 .. Len(CellsOf(fewer[i])) : rest[new[i - 1] + k] = CellsOf(fewer[i])[k]
  <2> DEFINE part == CellsOf(responses[i + 1])
  <2>1. i \in 0 .. n - 1 /\ i - 1 \in 0 .. n - 1 /\ i + 1 \in 1 .. n /\ i + 1 - 1 = i /\ i - 1 + 1 = i /\ i \in 1 .. n
    BY <1>1
  <2>2. fewer[i] = responses[i + 1] /\ new[i] = cuts[i + 1] - whole /\ new[i - 1] = cuts[i] - whole
    BY <1>1, <1>7, <2>1
  <2>3. /\ IsList(part) /\ cuts[i + 1] = cuts[i] + Len(part)
        /\ \A k \in 1 .. Len(part) : cells[cuts[i] + k] = part[k]
    BY <1>2, <2>1
  <2>4. Len(part) \in Nat
    BY <2>3, ListIs
  <2>5. CellsOf(fewer[i]) = part
    BY <2>2
  <2> HIDE DEF part
  <2>6. cuts[i] \in Nat /\ cuts[i + 1] \in Nat /\ whole <= cuts[i] /\ cuts[i + 1] <= l
    BY <1>6, <2>1
  <2>7. \A k \in 1 .. Len(part) : new[i - 1] + k \in 1 .. l - whole /\ whole + (new[i - 1] + k) = cuts[i] + k
    <3> DEFINE at == cuts[i]
               to == cuts[i + 1]
    <3>1. at \in Nat /\ to \in Nat /\ whole <= at /\ to <= l /\ to = at + Len(part) /\ new[i - 1] = at - whole
      BY <2>2, <2>3, <2>6
    <3> HIDE DEF at, to
    <3>2. \A k \in 1 .. Len(part) : at - whole + k \in 1 .. l - whole /\ whole + (at - whole + k) = at + k
      BY <1>1, <1>3, <2>4, <3>1
    <3> QED
      BY <3>1, <3>2 DEF at
  <2>8. \A k \in 1 .. Len(part) : rest[new[i - 1] + k] = part[k]
    BY <1>8, <2>3, <2>7
  <2>9. new[i] = new[i - 1] + Len(part)
    BY <1>3, <2>2, <2>3, <2>4, <2>6
  <2> QED
    BY <2>3, <2>5, <2>8, <2>9
<1>12. CutsOf(new, fewer, rest)
  BY <1>1, <1>8, <1>9, <1>10, <1>11 DEF CutsOf
<1> QED
  BY <1>12 DEF fewer

\* A phase in which nothing of it changes.
LEMMA PhaseKept ==
    ASSUME Phase, UNCHANGED <<target, step, cseq, login, session, pending>>
    PROVE  Phase'
<1>1. /\ target' = target /\ step' = step /\ cseq' = cseq /\ login' = login /\ session' = session
      /\ pending' = pending
  OBVIOUS
<1>2. Admitted' <=> Admitted
  BY <1>1 DEF Admitted, At
<1>3. \A i \in 1 .. Len(pending) : PendingOk(pending[i][2])
  BY DEF Phase
<1>4. ASSUME NEW i \in 1 .. Len(pending') PROVE PendingOk(pending[i][2])'
  <2>1. PendingOk(pending[i][2])
    BY <1>1, <1>3
  <2> QED
    BY <1>1, <1>2, <2>1 DEF PendingOk
<1> QED
  BY <1>1, <1>2, <1>4 DEF Phase

\* The camera answering.
LEMMA ServeKeeps == ASSUME SessionInv, Serve PROVE SessionInv'
<1>1. PICK c \in At(target) :
        /\ requests # <<>>
        /\ wire' = wire \o CellsOf(RespondTo(c, Head(requests)))
        /\ owed' = Append(owed, RespondTo(c, Head(requests)))
        /\ requests' = Tail(requests)
        /\ url' = url /\ target' = target /\ step' = step /\ cseq' = cseq /\ login' = login
        /\ session' = session /\ pending' = pending /\ received' = received /\ answer' = answer
  BY DEF Serve
<1> DEFINE r == Head(requests)
           m == RespondTo(c, r)
           p == pending[Len(owed) + 1]
           said == CellsOf(m)
<1>2. /\ IsList(pending) /\ IsList(requests) /\ IsList(owed) /\ IsList(wire) /\ IsList(received)
      /\ Len(pending) \in Nat /\ Len(requests) \in Nat /\ Len(owed) \in Nat
  <2>1. Lists
    BY DEF SessionInv
  <2> QED
    BY <2>1, ListIs DEF Lists
<1>3. /\ cseq \in Nat \ {0} /\ Len(pending) = Len(requests) + Len(owed)
      /\ \A i \in 1 .. Len(pending) :
            pending[i] \in Nat \X Methods /\ pending[i][1] = cseq - Len(pending) + i - 1
  BY DEF SessionInv, Numbered
<1>4. /\ Len(requests) > 0 /\ r = requests[1]
      /\ IsList(requests') /\ Len(requests') = Len(requests) - 1
      /\ \A i \in 1 .. Len(requests) - 1 : requests'[i] = requests[i + 1]
  BY <1>1, <1>2, ListTail
<1>5. OwedFor(m, p, target, login # None)
  <2>1. 1 \in 1 .. Len(requests)
    BY <1>2, <1>4
  <2>2. RequestFor(requests[1], pending[Len(owed) + 1], target, login # None)
    BY <2>1 DEF SessionInv, Exchanged
  <2>3. RequestFor(r, p, target, login # None)
    BY <1>4, <2>2
  <2> HIDE DEF r, p
  <2> QED
    BY <2>3, RespondsWell
<1>6. IsList(said)
  <2>1. Headed(m)
    BY <1>5 DEF OwedFor
  <2> QED
    BY <2>1, CellsAre DEF Headed
<1>7. wire' = wire \o said /\ owed' = Append(owed, m)
  BY <1>1
<1> HIDE DEF r, m, p, said
<1>8. /\ IsList(owed') /\ Len(owed') = Len(owed) + 1
      /\ \A i \in 1 .. Len(owed) : owed'[i] = owed[i]
      /\ owed'[Len(owed) + 1] = m
  BY <1>2, <1>7, ListAppend
<1>9. IsList(wire')
  BY <1>2, <1>6, <1>7, ListConcat
<1>10. Lists'
  BY <1>1, <1>2, <1>4, <1>8, <1>9 DEF Lists
<1>11. Numbered'
  <2>1. Len(pending') = Len(requests') + Len(owed')
    BY <1>1, <1>2, <1>3, <1>4, <1>8
  <2> QED
    BY <1>1, <1>3, <2>1 DEF Numbered
<1>12. Exchanged'
  <2>1. ASSUME NEW i \in 1 .. Len(owed') PROVE OwedFor(owed[i], pending[i], target, login # None)'
    <3>1. CASE i \in 1 .. Len(owed)
      <4>1. OwedFor(owed[i], pending[i], target, login # None)
        BY <3>1 DEF SessionInv, Exchanged
      <4> QED
        BY <1>1, <1>8, <3>1, <4>1
    <3>2. CASE i = Len(owed) + 1
      <4>1. owed'[i] = m /\ pending'[i] = p
        BY <1>1, <1>8, <3>2 DEF p
      <4> QED
        BY <1>1, <1>5, <4>1
    <3> QED
      BY <1>2, <1>8, <3>1, <3>2
  <2>2. ASSUME NEW i \in 1 .. Len(requests')
        PROVE  RequestFor(requests[i], pending[Len(owed) + i], target, login # None)'
    <3>1. i + 1 \in 1 .. Len(requests) /\ Len(owed') + i = Len(owed) + (i + 1) /\ i \in 1 .. Len(requests) - 1
      BY <1>2, <1>4, <1>8
    <3>2. RequestFor(requests[i + 1], pending[Len(owed) + (i + 1)], target, login # None)
      BY <3>1 DEF SessionInv, Exchanged
    <3>3. requests'[i] = requests[i + 1] /\ pending'[Len(owed') + i] = pending[Len(owed) + (i + 1)]
      BY <1>1, <1>4, <3>1
    <3> QED
      BY <1>1, <3>2, <3>3
  <2> QED
    BY <2>1, <2>2 DEF Exchanged
<1>13. Stream'
  <2> DEFINE cells == received \o wire
  <2>1. PICK cuts : CutsOf(cuts, owed, cells)
    BY DEF SessionInv, Stream
  <2>2. IsList(cells)
    BY <1>2, ListConcat
  <2>3. received' \o wire' = cells \o said
    <3>1. PICK R : received \in Seq(R)
      BY <1>2 DEF IsList
    <3>2. PICK W : wire \in Seq(W)
      BY <1>2 DEF IsList
    <3>3. PICK S : said \in Seq(S)
      BY <1>6 DEF IsList
    <3>4. received \o (wire \o said) = (received \o wire) \o said
      BY <3>1, <3>2, <3>3, ConcatAssociative
    <3> QED
      BY <1>1, <1>7, <3>4
  <2> HIDE DEF cells
  <2>4. \E new : CutsOf(new, Append(owed, m), cells \o CellsOf(m))
    BY <1>2, <1>6, <2>1, <2>2, OneMoreResponse DEF said
  <2>5. \E new : CutsOf(new, owed', received' \o wire')
    BY <1>7, <2>3, <2>4 DEF said
  <2> QED
    BY <2>5 DEF Stream
<1>14. Phase'
  BY <1>1, PhaseKept DEF SessionInv
<1>15. TargetIsParsed' /\ Texted'
  BY <1>1 DEF SessionInv, TargetIsParsed, Texted
<1>16. AnswerIsAsMeant'
  BY <1>1 DEF SessionInv, AnswerIsAsMeant, At
<1> QED
  BY <1>10, <1>11, <1>12, <1>13, <1>14, <1>15, <1>16 DEF SessionInv

\* Cells arriving.
LEMMA ArriveKeeps == ASSUME SessionInv, NEW n \in 1 .. Len(wire), Arrive(n) PROVE SessionInv'
<1> DEFINE front == SubSeq(wire, 1, n)
           back == SubSeq(wire, n + 1, Len(wire))
<1>1. /\ received' = received \o front /\ wire' = back
      /\ url' = url /\ target' = target /\ step' = step /\ cseq' = cseq /\ login' = login
      /\ session' = session /\ pending' = pending /\ requests' = requests /\ owed' = owed /\ answer' = answer
  BY DEF Arrive
<1>2. IsList(pending) /\ IsList(requests) /\ IsList(owed) /\ IsList(wire) /\ IsList(received)
  BY DEF SessionInv, Lists
<1>3. Len(wire) \in Nat /\ Len(received) \in Nat /\ n \in Nat /\ 1 <= n /\ n <= Len(wire)
  BY <1>2, ListIs
<1>4. IsList(front) /\ Len(front) = n /\ \A i \in 1 .. n : front[i] = wire[i]
  <2>1. 1 \in Nat /\ 1 <= 1 /\ 1 <= n + 1 /\ n + 1 - 1 = n /\ \A i \in 1 .. n : 1 + i - 1 = i
    BY <1>3
  <2>2. IsList(front) /\ Len(front) = n + 1 - 1 /\ \A i \in 1 .. n + 1 - 1 : front[i] = wire[1 + i - 1]
    BY <1>2, <1>3, <2>1, ListPart
  <2> HIDE DEF front
  <2> QED
    BY <2>1, <2>2
<1>5. IsList(back) /\ Len(back) = Len(wire) - n /\ \A i \in 1 .. Len(wire) - n : back[i] = wire[n + i]
  <2> DEFINE a == n + 1
             b == Len(wire)
  <2>1. /\ a \in Nat /\ b \in Nat /\ 1 <= a /\ a <= b + 1 /\ b <= Len(wire) /\ b + 1 - a = Len(wire) - n
        /\ \A i \in 1 .. Len(wire) - n : a + i - 1 = n + i
    BY <1>3
  <2>2. back = SubSeq(wire, a, b)
    OBVIOUS
  <2> HIDE DEF a, b, back
  <2>3. IsList(back) /\ Len(back) = b + 1 - a /\ \A i \in 1 .. b + 1 - a : back[i] = wire[a + i - 1]
    BY <1>2, <2>1, <2>2, ListPart
  <2> QED
    BY <2>1, <2>3
<1> HIDE DEF front, back
<1>6. front \o back = wire
  <2> DEFINE both == front \o back
  <2>1. /\ IsList(both) /\ Len(both) = Len(front) + Len(back)
        /\ \A i \in 1 .. Len(front) : both[i] = front[i]
        /\ \A i \in 1 .. Len(back) : both[Len(front) + i] = back[i]
    <3>1. IsList(front) /\ IsList(back)
      BY <1>4, <1>5
    <3> QED
      BY <3>1, ListConcat
  <2> HIDE DEF both
  <2>2. Len(both) = Len(wire)
    BY <1>3, <1>4, <1>5, <2>1
  <2>3. ASSUME NEW i \in 1 .. Len(both) PROVE both[i] = wire[i]
    <3>1. CASE i <= n
      <4>1. i \in 1 .. n
        BY <1>3, <2>2, <3>1
      <4> QED
        BY <1>4, <2>1, <4>1
    <3>2. CASE ~(i <= n)
      <4>1. i - n \in 1 .. Len(wire) - n /\ n + (i - n) = i
        BY <1>3, <2>2, <3>2
      <4>2. both[n + (i - n)] = back[i - n] /\ back[i - n] = wire[n + (i - n)]
        BY <1>4, <1>5, <2>1, <4>1
      <4> QED
        BY <4>1, <4>2
    <3> QED
      BY <3>1, <3>2
  <2>4. both = wire
    BY <1>2, <2>1, <2>2, <2>3, ListEqual
  <2> QED
    BY <2>4 DEF both
<1>7. received' \o wire' = received \o wire
  <2>1. PICK R : received \in Seq(R)
    BY <1>2 DEF IsList
  <2>2. PICK F : front \in Seq(F)
    BY <1>4 DEF IsList
  <2>3. PICK B : back \in Seq(B)
    BY <1>5 DEF IsList
  <2>4. (received \o front) \o back = received \o (front \o back)
    BY <2>1, <2>2, <2>3, ConcatAssociative
  <2> QED
    BY <1>1, <1>6, <2>4
<1>8. Lists'
  <2>1. IsList(received')
    BY <1>1, <1>2, <1>4, ListConcat
  <2> QED
    BY <1>1, <1>2, <1>5, <2>1 DEF Lists
<1>9. Stream'
  BY <1>1, <1>7 DEF SessionInv, Stream
<1>10. Numbered' /\ Exchanged'
  BY <1>1 DEF SessionInv, Numbered, Exchanged
<1>11. Phase'
  BY <1>1, PhaseKept DEF SessionInv
<1>12. TargetIsParsed' /\ Texted'
  BY <1>1 DEF SessionInv, TargetIsParsed, Texted
<1>13. AnswerIsAsMeant'
  BY <1>1 DEF SessionInv, AnswerIsAsMeant, At
<1> QED
  BY <1>8, <1>9, <1>10, <1>11, <1>12, <1>13 DEF SessionInv

\* The client taking an answer.
LEMMA TakeAnswerKeeps == ASSUME SessionInv, TakeAnswer PROVE SessionInv'
<1> DEFINE got == RtspResponseParse(received)
           end == HeaderEnd(received)
           answered == {i \in DOMAIN pending : pending[i][1] = got.cseq}
           method == pending[Min(answered)][2]
           retry == got.code = 401 /\ login = None /\ got.texts["WWW-Authenticate"] # None
           rest == SubSeq(received, end + 4 + got.length, Len(received))
           stream == received \o wire
           m == owed[1]
           p == pending[1]
           whole == Len(CellsOf(m))
<1>1. /\ got.parsed
      /\ received' = rest
      /\ url' = url /\ target' = target /\ cseq' = cseq /\ requests' = requests /\ wire' = wire
  BY DEF TakeAnswer
<1>2. /\ pending' = IF answered = {} THEN pending ELSE RemoveAt(pending, Min(answered))
      /\ owed' = IF owed = <<>> THEN owed ELSE Tail(owed)
      /\ login' = IF retry THEN Credentials(target) ELSE login
      /\ session' = IF got.session # None THEN got.session ELSE session
  BY DEF TakeAnswer
<1>3. answer' = [taken |-> TRUE, due |-> owed # <<>>, got |-> got,
                 meant |-> IF owed = <<>> THEN None ELSE Head(owed)]
  BY DEF TakeAnswer
<1>4. step' = IF answered = {} THEN step
              ELSE IF retry THEN method
              ELSE IF got.code # 200 THEN "rejected"
              ELSE IF method = "GET_PARAMETER" THEN step
              ELSE NextStep[method]
  BY DEF TakeAnswer
<1>5. /\ IsList(pending) /\ IsList(requests) /\ IsList(owed) /\ IsList(wire) /\ IsList(received)
      /\ Len(pending) \in Nat /\ Len(requests) \in Nat /\ Len(owed) \in Nat
      /\ Len(wire) \in Nat /\ Len(received) \in Nat
  <2>1. Lists
    BY DEF SessionInv
  <2> QED
    BY <2>1, ListIs DEF Lists
<1>6. /\ cseq \in Nat \ {0} /\ Len(pending) = Len(requests) + Len(owed)
      /\ \A i \in 1 .. Len(pending) :
            pending[i] \in Nat \X Methods /\ pending[i][1] = cseq - Len(pending) + i - 1
  BY DEF SessionInv, Numbered
<1> HIDE DEF got, end, answered, method, retry, rest, stream, m, p, whole
<1>7. PICK cuts : CutsOf(cuts, owed, stream)
  BY DEF SessionInv, Stream, stream
<1>8. /\ IsList(stream) /\ Len(stream) = Len(received) + Len(wire)
      /\ \A i \in 1 .. Len(received) : stream[i] = received[i]
      /\ \A i \in 1 .. Len(wire) : stream[Len(received) + i] = wire[i]
  BY <1>5, ListConcat DEF stream
<1>9. owed # <<>> /\ Len(owed) > 0
  <2>1. CASE Len(owed) = 0
    <3>1. cuts[0] = 0 /\ cuts[Len(owed)] = Len(stream)
      BY <1>7 DEF CutsOf
    <3>2. Len(received) = 0
      BY <1>5, <1>8, <2>1, <3>1
    <3>3. BlankLines(received) = {}
      BY <3>2 DEF BlankLines
    <3>4. got = NoResponse
      BY <3>3 DEF RtspResponseParse, got
    <3> QED
      BY <1>1, <3>4 DEF NoResponse
  <2>2. owed = <<>> => Len(owed) = 0
    BY NoElements
  <2> QED
    BY <1>5, <2>1, <2>2
<1>10. PICK c \in At(target) :
        /\ Headed(m) /\ Meaning(m, c)
        /\ m.cseq = p[1]
        /\ m.code = 401 => c.challenges # <<>>
        /\ m.code = 200 /\ p[2] = "DESCRIBE" /\ ~(login # None) => c.challenges = <<>>
        /\ Says(m, "Session") # {} <=> m.code = 200 /\ p[2] = "SETUP"
  <2>1. 1 \in 1 .. Len(owed)
    BY <1>5, <1>9
  <2>2. OwedFor(owed[1], pending[1], target, login # None)
    BY <2>1 DEF SessionInv, Exchanged
  <2>3. OwedFor(m, p, target, login # None)
    BY <2>2 DEF m, p
  <2> QED
    BY <2>3 DEF OwedFor
<1>11. c \in Cameras /\ \A d \in At(target) : d = c
  BY CamerasAssumption DEF At
<1>12. Begins(stream, m)
  <2>1. 1 \in 1 .. Len(owed) /\ 1 - 1 = 0 /\ 1 \in 0 .. Len(owed)
    BY <1>5, <1>9
  <2>2. /\ cuts[1] \in 0 .. Len(stream) /\ cuts[0] = 0
        /\ IsList(CellsOf(m)) /\ cuts[1] = cuts[1 - 1] + whole
        /\ \A k \in 1 .. whole : stream[cuts[1 - 1] + k] = CellsOf(m)[k]
    BY <1>7, <2>1 DEF CutsOf, m, whole
  <2>3. whole \in Nat
    BY <2>2, ListIs DEF whole
  <2>4. Len(stream) \in Nat
    BY <1>5, <1>8
  <2>5. whole <= Len(stream) /\ \A k \in 1 .. whole : stream[k] = CellsOf(m)[k]
    BY <2>1, <2>2, <2>3, <2>4
  <2> QED
    BY <1>8, <2>5 DEF Begins, whole
<1>13. received = Arrived(stream, Len(received)) /\ Len(received) \in 0 .. Len(stream)
  <2> DEFINE front == Arrived(stream, Len(received))
  <2>1. Len(received) \in 0 .. Len(stream)
    BY <1>5, <1>8
  <2>2. PICK S : stream \in Seq(S)
    BY <1>8 DEF IsList
  <2>3. front \in Seq(S) /\ Len(front) = Len(received) /\ \A i \in 1 .. Len(received) : front[i] = stream[i]
    BY <2>1, <2>2, ArrivedIs
  <2> HIDE DEF front
  <2>4. IsList(front) /\ \A i \in 1 .. Len(received) : front[i] = received[i]
    BY <1>8, <2>3 DEF IsList
  <2>5. front = received
    BY <1>5, <2>3, <2>4, ListEqual
  <2> QED
    BY <2>1, <2>5 DEF front
<1>14. /\ whole <= Len(received) /\ ReadAsMeant(got, m, c)
       /\ end \in Nat /\ end + 3 + Len(m.body) = whole
  <2> DEFINE k == Len(received)
  <2>1. k \in 0 .. Len(stream) /\ received = Arrived(stream, k)
    BY <1>13
  <2> HIDE DEF k
  <2>2. RtspResponseParse(Arrived(stream, k)).parsed
    BY <1>1, <2>1 DEF got
  <2>3. /\ Len(CellsOf(m)) <= k
        /\ ReadAsMeant(RtspResponseParse(Arrived(stream, k)), m, c)
        /\ HeaderEnd(Arrived(stream, k)) \in Nat
        /\ HeaderEnd(Arrived(stream, k)) + 3 + Len(m.body) = Len(CellsOf(m))
    BY <1>10, <1>11, <1>12, <2>1, <2>2, ArrivedIsRead
  <2> QED
    BY <2>1, <2>3 DEF got, end, whole, k
<1>15. /\ got.code = m.code /\ got.cseq = m.cseq /\ got.body = m.body /\ got.length = Len(m.body)
       /\ got.session = LastSaid(m.headers, "Session", 64)
       /\ Says(m, "Session") = {} => got.session = None
       /\ Says(m, "Session") # {} => got.session = Bounded(c.session, SessionMax)
       /\ got.timeout = IF got.session = None THEN 0 ELSE c.timeout
       /\ \A name \in Texts : got.texts[name] = LastSaid(m.headers, name, TextMax[name])
  BY <1>14 DEF ReadAsMeant
<1>16. Len(pending) > 0 /\ pending # <<>> /\ p = pending[1] /\ p[2] \in Methods
  <2>1. Len(pending) > 0
    BY <1>5, <1>6, <1>9
  <2>2. 1 \in 1 .. Len(pending)
    BY <1>5, <2>1
  <2> QED
    BY <1>6, <2>1, <2>2, NoElements DEF p
<1>17. answered = {1} /\ Min(answered) = 1
  <2>1. DOMAIN pending = 1 .. Len(pending) /\ 1 \in 1 .. Len(pending)
    BY <1>5, <1>16, ListIs
  <2>2. \A i \in 1 .. Len(pending) : pending[i][1] = got.cseq <=> i = 1
    <3>1. got.cseq = pending[1][1]
      BY <1>10, <1>15, <1>16
    <3>2. \A i \in 1 .. Len(pending) : pending[i][1] = cseq - Len(pending) + i - 1
      BY <1>6
    <3> QED
      BY <1>5, <1>6, <2>1, <3>1, <3>2
  <2>3. answered = {1}
    BY <2>1, <2>2 DEF answered
  <2>4. answered \in SUBSET Nat /\ answered # {}
    BY <2>3
  <2>5. Min(answered) \in answered
    BY <2>4, MinIs
  <2> QED
    BY <2>3, <2>5
<1>18. /\ owed' = Tail(owed) /\ pending' = Tail(pending) /\ method = p[2]
       /\ step' = IF retry THEN method
                  ELSE IF got.code # 200 THEN "rejected"
                  ELSE IF method = "GET_PARAMETER" THEN step
                  ELSE NextStep[method]
       /\ answer' = [taken |-> TRUE, due |-> TRUE, got |-> got, meant |-> m]
  <2>1. answered # {}
    BY <1>17
  <2>2. pending' = RemoveAt(pending, 1)
    BY <1>17, <1>2, <2>1
  <2>3. RemoveAt(pending, 1) = Tail(pending)
    BY <1>5, <1>16, RemoveFirstElement
  <2>4. Head(owed) = m
    BY <1>5, <1>9, ListTail DEF m
  <2>5. method = p[2]
    BY <1>16, <1>17 DEF method
  <2> QED
    BY <1>9, <1>2, <1>3, <1>4, <2>1, <2>2, <2>3, <2>4, <2>5
<1>19. /\ IsList(owed') /\ Len(owed') = Len(owed) - 1 /\ \A i \in 1 .. Len(owed) - 1 : owed'[i] = owed[i + 1]
       /\ IsList(pending') /\ Len(pending') = Len(pending) - 1
       /\ \A i \in 1 .. Len(pending) - 1 : pending'[i] = pending[i + 1]
  BY <1>5, <1>9, <1>16, <1>18, ListTail
<1>20. /\ whole \in Nat /\ IsList(rest) /\ Len(rest) = Len(received) - whole
       /\ \A i \in 1 .. Len(received) - whole : rest[i] = received[whole + i]
  <2>1. Len(m.body) \in Nat
    BY <1>10, ListIs DEF Headed
  <2> DEFINE a == whole + 1
             b == Len(received)
  <2>2. whole \in Nat /\ end + 4 + got.length = whole + 1
    <3> DEFINE l == Len(m.body)
    <3>1. end \in Nat /\ l \in Nat /\ end + 3 + l = whole /\ got.length = l
      BY <1>14, <1>15, <2>1
    <3> HIDE DEF l
    <3>2. whole \in Nat /\ end + 4 + l = whole + 1
      BY <3>1
    <3> QED
      BY <3>1, <3>2
  <2>3. /\ a \in Nat /\ b \in Nat /\ 1 <= a /\ a <= b + 1 /\ b <= Len(received) /\ b + 1 - a = Len(received) - whole
        /\ \A i \in 1 .. Len(received) - whole : a + i - 1 = whole + i
    BY <1>5, <1>14, <2>2
  <2>4. rest = SubSeq(received, a, b)
    BY <2>2 DEF rest
  <2> HIDE DEF a, b
  <2>5. IsList(rest) /\ Len(rest) = b + 1 - a /\ \A i \in 1 .. b + 1 - a : rest[i] = received[a + i - 1]
    BY <1>5, <2>3, <2>4, ListPart
  <2> QED
    BY <2>2, <2>3, <2>5
<1>21. Lists'
  BY <1>1, <1>5, <1>19, <1>20 DEF Lists
<1>22. Stream'
  <2> DEFINE left == rest \o wire
  <2>1. /\ IsList(left) /\ Len(left) = Len(rest) + Len(wire)
        /\ \A i \in 1 .. Len(rest) : left[i] = rest[i]
        /\ \A i \in 1 .. Len(wire) : left[Len(rest) + i] = wire[i]
    <3>1. IsList(rest) /\ IsList(wire)
      BY <1>5, <1>20
    <3> QED
      BY <3>1, ListConcat
  <2> HIDE DEF left
  <2>2. Len(left) = Len(stream) - whole
    BY <1>5, <1>8, <1>20, <2>1
  <2>3. ASSUME NEW i \in 1 .. Len(stream) - whole PROVE left[i] = stream[whole + i]
    <3>1. CASE i <= Len(rest)
      <4>1. i \in 1 .. Len(rest) /\ whole + i \in 1 .. Len(received)
        BY <1>5, <1>14, <1>20, <3>1
      <4> QED
        BY <1>8, <1>20, <2>1, <4>1
    <3>2. CASE ~(i <= Len(rest))
      <4> DEFINE j == i - Len(rest)
      <4>1. j \in 1 .. Len(wire) /\ Len(rest) + j = i /\ Len(received) + j = whole + i
        BY <1>5, <1>8, <1>14, <1>20, <3>2
      <4> HIDE DEF j
      <4> QED
        BY <1>8, <2>1, <4>1
    <3> QED
      BY <3>1, <3>2
  <2>4. \E new : CutsOf(new, Tail(owed), left)
    <3>1. whole = Len(CellsOf(owed[1]))
      BY DEF whole, m
    <3> QED
      BY <1>5, <1>7, <1>8, <1>9, <2>1, <2>2, <2>3, <3>1, OneLessResponse
  <2> QED
    <3>1. left = received' \o wire'
      BY <1>1 DEF left
    <3>2. \E new : CutsOf(new, owed', received' \o wire')
      BY <1>18, <2>4, <3>1
    <3> QED
      BY <3>2 DEF Stream
<1>23. Numbered'
  <2>1. Len(pending') = Len(requests') + Len(owed')
    BY <1>1, <1>5, <1>6, <1>19
  <2>2. ASSUME NEW i \in 1 .. Len(pending')
        PROVE  pending'[i] \in Nat \X Methods /\ pending'[i][1] = cseq' - Len(pending') + i - 1
    <3>1. i \in 1 .. Len(pending) - 1 /\ i + 1 \in 1 .. Len(pending)
      BY <1>5, <1>19
    <3>2. pending'[i] = pending[i + 1]
      BY <1>19, <3>1
    <3>3. pending[i + 1] \in Nat \X Methods /\ pending[i + 1][1] = cseq - Len(pending) + (i + 1) - 1
      BY <1>6, <3>1
    <3>4. cseq - Len(pending) + (i + 1) - 1 = cseq' - Len(pending') + i - 1
      BY <1>1, <1>5, <1>6, <1>19, <3>1
    <3> QED
      BY <3>2, <3>3, <3>4
  <2> QED
    BY <1>1, <1>6, <2>1, <2>2 DEF Numbered
<1>24. AnswerIsAsMeant'
  <2> DEFINE new == [taken |-> TRUE, due |-> TRUE, got |-> got, meant |-> m]
  <2>1. (CHOOSE d \in At(target') : TRUE) = c
    BY <1>1, <1>10, <1>11
  <2>2. /\ "Transport" \in Texts /\ "Content-Type" \in Texts /\ "WWW-Authenticate" \in Texts
        /\ TextMax["Transport"] = 256 /\ TextMax["Content-Type"] = 64 /\ TextMax["WWW-Authenticate"] = 512
    BY DEF Texts, TextMax
  <2>3. /\ got.texts["Transport"] = LastSaid(m.headers, "Transport", 256)
        /\ got.texts["Content-Type"] = LastSaid(m.headers, "Content-Type", 64)
        /\ got.texts["WWW-Authenticate"] = LastSaid(m.headers, "WWW-Authenticate", 512)
    <3>1. \A name \in Texts : got.texts[name] = LastSaid(m.headers, name, TextMax[name])
      BY <1>15
    <3> QED
      BY <2>2, <3>1
  <2>4. answer'.due /\ answer'.got = got /\ answer'.meant = m
    BY <1>18
  <2> QED
    BY <1>15, <2>1, <2>3, <2>4 DEF AnswerIsAsMeant
<1>25. PendingOk(p[2])
  <2>1. 1 \in 1 .. Len(pending)
    BY <1>5, <1>16
  <2>2. PendingOk(pending[1][2])
    BY <2>1 DEF SessionInv, Phase
  <2> QED
    BY <1>16, <2>2
<1>26. step \notin {"connect", "refused", "unreachable", "DESCRIBE", "SETUP", "PLAY"} /\ target.parsed
  <2>1. step \notin {"connect", "refused", "unreachable", "DESCRIBE", "SETUP", "PLAY"}
    BY <1>16 DEF SessionInv, Phase
  <2> QED
    BY <2>1 DEF SessionInv, Texted
<1>27. Credentials(target) # None /\ Bounded(c.session, SessionMax) # None
  <2>1. target = RtspUrlParse(url) /\ url \in Urls \cup {d.url : d \in Cameras}
    BY DEF SessionInv, TargetIsParsed
  <2> QED
    BY <1>11, <1>26, <2>1, NoneAssumption
<1>28. got.session # None <=> got.code = 200 /\ p[2] = "SETUP"
  BY <1>10, <1>15, <1>27
<1>29. p[2] \in {"DESCRIBE", "SETUP", "PLAY"} => Len(pending) = 1 /\ Len(owed) = 1 /\ Len(requests) = 0
  <2>1. p[2] \in {"DESCRIBE", "SETUP", "PLAY"} => Len(pending) = 1
    BY <1>25 DEF PendingOk
  <2> DEFINE np == Len(pending)
             nr == Len(requests)
             no == Len(owed)
  <2>2. np \in Nat /\ nr \in Nat /\ no \in Nat /\ np = nr + no /\ no > 0
    BY <1>5, <1>6, <1>9
  <2> HIDE DEF np, nr, no
  <2>3. np = 1 => no = 1 /\ nr = 0
    BY <2>2
  <2> QED
    BY <2>1, <2>3 DEF np, nr, no
<1>30. p[2] # "DESCRIBE" => Admitted
  BY <1>16, <1>25 DEF PendingOk, Methods
<1>31. retry => p[2] = "DESCRIBE" /\ login = None
  <2>1. ASSUME retry, p[2] # "DESCRIBE" PROVE FALSE
    <3>1. m.code = 401 /\ login = None
      BY <1>15, <2>1 DEF retry
    <3>2. c.challenges = <<>>
      BY <1>30, <2>1, <3>1 DEF Admitted
    <3> QED
      BY <1>10, <3>1, <3>2
  <2> QED
    BY <2>1 DEF retry
<1>32. /\ retry => login' = Credentials(target) /\ login' # None
       /\ ~retry => login' = login
  BY <1>2, <1>27
<1>33. Admitted => Admitted'
  BY <1>1, <1>31, <1>32 DEF Admitted
<1>34. p[2] = "DESCRIBE" /\ got.code = 200 => Admitted'
  <2>1. ASSUME p[2] = "DESCRIBE", got.code = 200 PROVE login # None \/ \A d \in At(target) : d.challenges = <<>>
    BY <1>10, <1>11, <1>15, <2>1
  <2> QED
    BY <1>1, <1>31, <1>32, <2>1 DEF Admitted
<1>35. Texted'
  <2>1. login' = None \/ login' = Credentials(target')
    BY <1>1, <1>32 DEF SessionInv, Texted
  <2>2. session' = None \/ session'[2] \in Nat
    <3>1. CASE got.session = None
      BY <1>2, <3>1 DEF SessionInv, Texted
    <3>2. CASE got.session # None
      <4> DEFINE id == c.session
                 cap == SessionMax
      <4>1. session' = Bounded(id, cap)
        BY <1>15, <1>2, <3>2
      <4>2. id[2] \in Nat /\ cap \in Nat /\ cap - 1 \in Nat
        BY <1>11, CamerasAssumption DEF IsWord, SessionMax
      <4> HIDE DEF id, cap
      <4>3. Bounded(id, cap)[2] \in Nat
        <5>1. CASE id[2] < cap
          <6>1. Bounded(id, cap) = id
            BY <5>1 DEF Bounded
          <6> QED
            BY <4>2, <6>1
        <5>2. CASE ~(id[2] < cap)
          <6> DEFINE less == cap - 1
          <6>1. Bounded(id, cap) = <<id[1], less, id[3]>>
            BY <5>2 DEF Bounded
          <6> HIDE DEF less
          <6>2. Bounded(id, cap)[2] = less
            BY <6>1
          <6> QED
            BY <4>2, <6>2 DEF less
        <5> QED
          BY <5>1, <5>2
      <4> QED
        BY <4>1, <4>3
    <3> QED
      BY <3>1, <3>2
  <2> QED
    BY <1>1, <1>26, <2>1, <2>2 DEF Texted
<1>36. Exchanged'
  <2>1. ASSUME NEW i \in 1 .. Len(owed') PROVE OwedFor(owed[i], pending[i], target, login # None)'
    <3>1. i \in 1 .. Len(owed) - 1 /\ i + 1 \in 1 .. Len(owed) /\ i \in 1 .. Len(pending) - 1 /\ Len(owed) # 1
      <4>1. i \in 1 .. Len(owed) - 1
        BY <1>19
      <4> DEFINE np == Len(pending)
                 nr == Len(requests)
                 no == Len(owed)
      <4>2. np \in Nat /\ nr \in Nat /\ no \in Nat /\ np = nr + no
        BY <1>5, <1>6
      <4>3. i \in 1 .. no - 1
        BY <4>1
      <4> HIDE DEF np, nr, no
      <4>4. i \in 1 .. no - 1 /\ i + 1 \in 1 .. no /\ i \in 1 .. np - 1 /\ no # 1
        BY <4>2, <4>3
      <4> QED
        BY <4>4 DEF np, no
    <3>2. login' = login
      BY <1>29, <1>31, <1>32, <3>1
    <3>3. OwedFor(owed[i + 1], pending[i + 1], target, login # None)
      BY <3>1 DEF SessionInv, Exchanged
    <3>4. owed'[i] = owed[i + 1] /\ pending'[i] = pending[i + 1]
      BY <1>19, <3>1
    <3> QED
      BY <1>1, <3>2, <3>3, <3>4
  <2>2. ASSUME NEW i \in 1 .. Len(requests')
        PROVE  RequestFor(requests[i], pending[Len(owed) + i], target, login # None)'
    <3>1. /\ i \in 1 .. Len(requests) /\ Len(owed') + i \in 1 .. Len(pending) - 1
          /\ Len(owed') + i + 1 = Len(owed) + i /\ Len(requests) # 0
      BY <1>1, <1>5, <1>6, <1>9, <1>19
    <3>2. login' = login
      BY <1>29, <1>31, <1>32, <3>1
    <3>3. RequestFor(requests[i], pending[Len(owed) + i], target, login # None)
      BY <3>1 DEF SessionInv, Exchanged
    <3>4. requests'[i] = requests[i] /\ pending'[Len(owed') + i] = pending[Len(owed) + i]
      BY <1>1, <1>19, <3>1
    <3> QED
      BY <1>1, <3>2, <3>3, <3>4
  <2> QED
    BY <2>1, <2>2 DEF Exchanged
<1>37. Phase'
  <2>1. cseq' = cseq /\ cseq \in Nat /\ cseq <= MaxCSeq + 1 /\ MaxCSeq \in Nat /\ MaxCSeq >= 5
    BY <1>1, <1>6, BoundsAssumption DEF SessionInv, Phase
  <2>2. p[2] \in {"DESCRIBE", "SETUP", "PLAY"} => pending' = <<>> /\ Len(pending') = 0
    <3>1. Len(pending') = 0 => pending' = <<>>
      <4>1. ASSUME Len(pending') = 0 PROVE pending' = <<>>
        <5>1. IsList(<<>>) /\ Len(<<>>) = 0
          BY NoElements
        <5> DEFINE none == <<>>
        <5> HIDE DEF none
        <5>2. \A i \in 1 .. Len(pending') : pending'[i] = none[i]
          BY <4>1
        <5>3. pending' = none
          BY <1>19, <4>1, <5>1, <5>2, ListEqual DEF none
        <5> QED
          BY <5>3 DEF none
      <4> QED
        BY <4>1
    <3> QED
      BY <1>19, <1>29, <3>1
  <2>3. ASSUME p[2] = "DESCRIBE" PROVE Phase'
    <3>1. cseq <= (IF login = None THEN 2 ELSE 3) /\ session = None /\ session' = None
      BY <1>2, <1>25, <1>28, <2>3 DEF PendingOk
    <3>2. step' \in {"DESCRIBE", "SETUP", "rejected"}
      <4>1. NextStep["DESCRIBE"] = "SETUP"
        BY DEF NextStep
      <4> QED
        BY <1>18, <2>3, <4>1
    <3>3. step' = "DESCRIBE" => retry
      <4>1. NextStep["DESCRIBE"] = "SETUP"
        BY DEF NextStep
      <4> QED
        BY <1>18, <2>3, <4>1
    <3>4. step' = "DESCRIBE" => cseq' <= (IF login' = None THEN 1 ELSE 2)
      BY <1>31, <1>32, <2>1, <3>1, <3>3
    <3>5. step' = "SETUP" => Admitted' /\ cseq' <= 3
      <4>1. step' = "SETUP" => got.code = 200
        BY <1>18, <2>3
      <4> QED
        BY <1>34, <2>1, <2>3, <3>1, <4>1
    <3>6. 1 .. Len(pending') = {} /\ pending' = <<>>
      BY <2>2, <2>3
    <3> QED
      BY <2>1, <3>1, <3>2, <3>4, <3>5, <3>6 DEF Phase
  <2>4. ASSUME p[2] = "SETUP" PROVE Phase'
    <3>1. cseq <= 4 /\ Admitted' /\ ~retry
      BY <1>25, <1>31, <1>33, <2>4 DEF PendingOk
    <3>2. step' \in {"PLAY", "rejected"} /\ (step' = "PLAY" => got.code = 200)
      <4>1. NextStep["SETUP"] = "PLAY"
        BY DEF NextStep
      <4> QED
        BY <1>18, <2>4, <3>1, <4>1
    <3>3. step' = "PLAY" => session' # None
      BY <1>2, <1>28, <2>4, <3>2
    <3>4. 1 .. Len(pending') = {} /\ pending' = <<>>
      BY <2>2, <2>4
    <3> QED
      BY <2>1, <3>1, <3>2, <3>3, <3>4 DEF Phase
  <2>5. ASSUME p[2] = "PLAY" PROVE Phase'
    <3>1. cseq <= 5 /\ Admitted' /\ ~retry /\ session' # None
      BY <1>2, <1>25, <1>31, <1>33, <2>5 DEF PendingOk
    <3>2. step' \in {"playing", "rejected"}
      <4>1. NextStep["PLAY"] = "playing"
        BY DEF NextStep
      <4> QED
        BY <1>18, <2>5, <3>1, <4>1
    <3>3. 1 .. Len(pending') = {} /\ pending' = <<>>
      BY <2>2, <2>5
    <3> QED
      BY <2>1, <3>1, <3>2, <3>3 DEF Phase
  <2>6. ASSUME p[2] \in {"GET_PARAMETER", "TEARDOWN"} PROVE Phase'
    <3>1. Admitted' /\ ~retry /\ session' = session /\ session # None
      <4>1. p[2] # "DESCRIBE" /\ p[2] # "SETUP"
        BY <2>6
      <4>2. Admitted /\ session # None
        BY <1>25, <2>6 DEF PendingOk
      <4> QED
        BY <1>2, <1>28, <1>31, <1>33, <4>1, <4>2
    <3>2. /\ p[2] = "GET_PARAMETER" => step \in {"playing", "waiting", "closed", "rejected", "too long"}
          /\ p[2] = "TEARDOWN" => step \in {"waiting", "closed", "rejected"}
      BY <1>25 DEF PendingOk
    <3>3. /\ step' = "rejected" \/ step' = "closed" \/ step' = step
          /\ step' \in {"playing", "waiting", "closed", "rejected", "too long"}
      <4>1. NextStep["TEARDOWN"] = "closed"
        BY DEF NextStep
      <4> QED
        BY <1>18, <2>6, <3>1, <3>2, <4>1
    <3>4. step' = "playing" => cseq' <= MaxCSeq
      <4>1. step = "playing" => cseq <= MaxCSeq
        BY DEF SessionInv, Phase
      <4> QED
        BY <2>1, <3>3, <4>1
    <3>5. ASSUME NEW i \in 1 .. Len(pending') PROVE PendingOk(pending[i][2])'
      <4> DEFINE q == pending[i + 1][2]
      <4>1. i + 1 \in 1 .. Len(pending) /\ i \in 1 .. Len(pending) - 1 /\ Len(pending) # 1
        <5> DEFINE np == Len(pending)
        <5>1. np \in Nat /\ i \in 1 .. np - 1
          BY <1>5, <1>19
        <5> HIDE DEF np
        <5>2. i + 1 \in 1 .. np /\ i \in 1 .. np - 1 /\ np # 1
          BY <5>1
        <5> QED
          BY <5>2 DEF np
      <4>2. PendingOk(q) /\ q \in Methods
        BY <1>6, <4>1 DEF SessionInv, Phase
      <4>3. pending'[i][2] = q
        BY <1>19, <4>1
      <4> HIDE DEF q
      <4>4. q \in {"GET_PARAMETER", "TEARDOWN"}
        BY <4>1, <4>2 DEF PendingOk, Methods
      <4>5. q = "TEARDOWN" => step \in {"waiting", "closed", "rejected"}
        BY <4>2 DEF PendingOk
      <4>6. q = "TEARDOWN" => step' \in {"waiting", "closed", "rejected"}
        BY <3>3, <4>5
      <4> QED
        BY <3>1, <3>3, <4>3, <4>4, <4>6 DEF PendingOk
    <3> QED
      BY <2>1, <3>1, <3>3, <3>4, <3>5 DEF Phase
  <2> QED
    BY <1>16, <2>3, <2>4, <2>5, <2>6 DEF Methods
<1>38. TargetIsParsed'
  BY <1>1 DEF SessionInv, TargetIsParsed
<1> QED
  BY <1>21, <1>22, <1>23, <1>24, <1>35, <1>36, <1>37, <1>38 DEF SessionInv

-----------------------------------------------------------------------------
(* The theorems. *)

\* The session stays as its invariant says it: whatever is read and whatever
\* is on its way, the responses are those of the requests, in their order.
THEOREM SessionStays == Spec => []SessionInv
<1>1. Init => SessionInv
  BY SessionBegins
<1>2. SessionInv /\ [Next]_vars => SessionInv'
  <2> SUFFICES ASSUME SessionInv, [Next]_vars PROVE SessionInv'
    OBVIOUS
  <2>1. CASE Connect
    BY <2>1, ConnectKeeps
  <2>2. CASE SendNext
    <3>1. step \in {"DESCRIBE", "SETUP", "PLAY"} /\ Send(step)
      BY <2>2 DEF SendNext
    <3>2. step \in Methods /\ MaySend(step)
      BY <3>1 DEF Methods, MaySend
    <3> QED
      BY <3>1, <3>2, SendKeeps
  <2>3. CASE Keepalive
    <3>1. step = "playing" /\ cseq < MaxCSeq /\ Send("GET_PARAMETER")
      BY <2>3 DEF Keepalive
    <3>2. "GET_PARAMETER" \in Methods /\ MaySend("GET_PARAMETER")
      BY <3>1 DEF Methods, MaySend
    <3> QED
      BY <3>1, <3>2, SendKeeps
  <2>4. CASE Teardown
    <3>1. step = "playing" /\ Send("TEARDOWN")
      BY <2>4 DEF Teardown
    <3>2. "TEARDOWN" \in Methods /\ MaySend("TEARDOWN")
      BY <3>1 DEF Methods, MaySend
    <3> QED
      BY <3>1, <3>2, SendKeeps
  <2>5. CASE Serve
    BY <2>5, ServeKeeps
  <2>6. ASSUME NEW n \in 1 .. Len(wire), Arrive(n) PROVE SessionInv'
    BY <2>6, ArriveKeeps
  <2>7. CASE TakeAnswer
    BY <2>7, TakeAnswerKeeps
  <2>8. CASE UNCHANGED vars
    <3>1. /\ url' = url /\ target' = target /\ step' = step /\ cseq' = cseq /\ login' = login
          /\ session' = session /\ pending' = pending /\ requests' = requests
          /\ wire' = wire /\ received' = received /\ owed' = owed /\ answer' = answer
      BY <2>8 DEF vars, exchange
    <3>2. TargetIsParsed' /\ Stream' /\ AnswerIsAsMeant' /\ (Admitted' <=> Admitted)
      BY <3>1, KeptIsKept DEF Kept
    <3>3. Texted' /\ Lists' /\ Numbered'
      BY <3>1 DEF SessionInv, Texted, Lists, Numbered
    <3>4. Exchanged'
      BY <3>1 DEF SessionInv, Exchanged
    <3>5. ASSUME NEW m, PendingOk(m) PROVE PendingOk(m)'
      BY <3>1, <3>2, <3>5 DEF PendingOk
    <3>6. Phase'
      BY <3>1, <3>2, <3>5 DEF SessionInv, Phase
    <3> QED
      BY <3>2, <3>3, <3>4, <3>6 DEF SessionInv
  <2> QED
    BY <2>1, <2>2, <2>3, <2>4, <2>5, <2>6, <2>7, <2>8 DEF Next
<1> QED
  BY <1>1, <1>2, PTL DEF Spec

\* What rtsp_url_parse accepts fits the fields of rtsp_url_t and is on a port
\* of 1 to 65535 (rtsp_url.c:8, :95), and the client's list of what it waits
\* for is what is on its way: every request not answered yet is still unserved
\* or its response is owed, numbered in the order of sending.
THEOREM TypeCorrect == Spec => []TypeOK
<1>1. SessionInv => TypeOK
  <2> SUFFICES ASSUME SessionInv PROVE TypeOK
    OBVIOUS
  <2>1. ASSUME target.parsed
        PROVE  /\ target.port \in Ports
               /\ \A part \in DOMAIN UrlMax : Width(target[part]) < UrlMax[part]
    <3>1. target = RtspUrlParse(url)
      BY DEF SessionInv, TargetIsParsed
    <3>2. /\ target.port \in {554} \cup Ports
          /\ \A part \in DOMAIN UrlMax : Width(target[part]) < UrlMax[part]
      BY <2>1, <3>1, PartsFit
    <3>3. 554 \in Ports
      BY SMT DEF Ports
    <3> QED
      BY <3>2, <3>3
  <2>2. /\ cseq \in Nat \ {0} /\ Len(pending) = Len(requests) + Len(owed)
        /\ \A i \in 1 .. Len(pending) : pending[i][1] = cseq - Len(pending) + i - 1
    BY DEF SessionInv, Numbered
  <2>3. cseq \in 1 .. MaxCSeq + 1
    <3>1. cseq <= MaxCSeq + 1 /\ MaxCSeq \in Nat
      BY BoundsAssumption DEF SessionInv, Phase
    <3> QED
      BY <2>2, <3>1
  <2>4. \A i \in DOMAIN pending : pending[i][1] = cseq - Len(pending) + i - 1
    <3>1. DOMAIN pending = 1 .. Len(pending)
      BY ListIs DEF SessionInv, Lists
    <3> QED
      BY <2>2, <3>1
  <2>5. target.parsed =>
          /\ target.port \in Ports
          /\ \A part \in DOMAIN UrlMax : Width(target[part]) < UrlMax[part]
    BY <2>1
  <2>6. Len(pending) = Len(requests) + Len(owed)
    BY <2>2
  <2> QED
    BY <2>3, <2>4, <2>5, <2>6 DEF TypeOK
<1> QED
  BY <1>1, SessionStays, PTL

\* Whatever the URL, the session and the challenges, every request on its way
\* to the camera is there to its blank line, fits the buffer it was built in
\* and says what the session needs where it is (rtsp_request.c:20-74).
THEOREM RequestsStayWhole == Spec => []RequestsAreWhole
<1>1. SessionInv => RequestsAreWhole
  <2> SUFFICES ASSUME SessionInv, NEW i \in DOMAIN requests
               PROVE  LET r == requests[i]
                          method == r[1].value[1]
                      IN  /\ Last(r) = Line("blank", None, 2)
                          /\ FoldLeft(LAMBDA n, line : n + line.width, 0, r) + 1 <= Room
                          /\ r[1].value[2] = Uri(target)
                          /\ <<ValueOf(r, "CSeq"), method>> = pending[Len(pending) - Len(requests) + i]
                          /\ HasLine(r, "Authorization") <=> login # None
                          /\ HasLine(r, "Session") <=> method \notin {"DESCRIBE", "SETUP"}
                          /\ HasLine(r, "Range") <=> method = "PLAY"
    BY DEF RequestsAreWhole
  <2> DEFINE r == requests[i]
             p == pending[Len(owed) + i]
  <2>1. Lists /\ Numbered /\ Exchanged
    BY DEF SessionInv
  <2>2. i \in 1 .. Len(requests) /\ Len(requests) \in Nat /\ Len(owed) \in Nat
    BY <2>1, ListIs DEF Lists
  <2>3. Len(pending) = Len(requests) + Len(owed)
    BY <2>1 DEF Numbered
  <2>4. Len(pending) - Len(requests) + i = Len(owed) + i /\ Len(owed) + i \in 1 .. Len(pending)
    BY <2>2, <2>3
  <2>5. p \in Nat \X Methods
    BY <2>1, <2>4 DEF Numbered
  <2>6. RequestFor(r, p, target, login # None)
    BY <2>1, <2>2 DEF Exchanged
  <2>7. p = pending[Len(pending) - Len(requests) + i]
    BY <2>4
  <2> HIDE DEF r, p
  <2>8. r[1].value = <<p[2], Uri(target)>> /\ ValueOf(r, "CSeq") = p[1]
    BY <2>6 DEF RequestFor
  <2>9. r[1].value[1] = p[2] /\ r[1].value[2] = Uri(target)
    BY <2>8
  <2>10. <<ValueOf(r, "CSeq"), r[1].value[1]>> = p
    BY <2>5, <2>8, <2>9
  <2>11. /\ Last(r) = Line("blank", None, 2)
         /\ FoldLeft(LAMBDA n, line : n + line.width, 0, r) + 1 <= Room
         /\ HasLine(r, "Authorization") <=> login # None
         /\ HasLine(r, "Session") <=> r[1].value[1] \notin {"DESCRIBE", "SETUP"}
         /\ HasLine(r, "Range") <=> r[1].value[1] = "PLAY"
    BY <2>6, <2>9 DEF RequestFor
  <2> QED
    BY <2>7, <2>9, <2>10, <2>11 DEF r
<1> QED
  BY <1>1, SessionStays, PTL

\* Wherever the connection cuts the stream and however many responses are on
\* it, the client takes them in their order, each with its own status, number,
\* headers and body: nothing is read of one that is not there to its end, and
\* nothing of the next is read into it (rtsp_response.c:109-174).
THEOREM AnswersAsMeant == Spec => []AnswerIsAsMeant
<1>1. SessionInv => AnswerIsAsMeant
  BY DEF SessionInv
<1> QED
  BY <1>1, SessionStays, PTL

=============================================================================
