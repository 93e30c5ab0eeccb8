---------------------------- MODULE RtspClientProofs ----------------------------
(***************************************************************************)
(* Proofs about the three formats of rtsp_proto, for texts, requests and     *)
(* streams of any length.                                                   *)
(*                                                                          *)
(* The URL: what rtsp_url_parse accepts is a spelling of the parts it reads. *)
(* Each of its cuts puts the text back together (Cut); the cuts, one within *)
(* the other, make the whole URL.                                           *)
(*                                                                          *)
(* The request: each line is tested against what is left of the buffer, and *)
(* yet the whole fits exactly if its length does.  The sum of the widths is *)
(* a fold, and what it adds up to is found by the least number of lines for *)
(* which it would be anything else (MinIs).                                 *)
(*                                                                          *)
(* The response: what the parser reads is decided by the part of the stream *)
(* before its own end.                                                      *)
(***************************************************************************)
EXTENDS RtspClient, SequenceTheorems, WellFoundedInduction, TLAPS

-----------------------------------------------------------------------------
(* Cutting a text at its first separator. *)

\* A set of numbers has its least.
LEMMA MinIs ==
    ASSUME NEW S \in SUBSET Nat, S # {}
    PROVE  Min(S) \in S /\ \A n \in S : Min(S) <= n
<1> DEFINE R == {p \in Nat \X Nat : p[1] < p[2]}
<1>1. IsWellFoundedOn(R, Nat)
  BY NatLessThanWellFounded DEF OpToRel
<1> HIDE DEF R
<1>2. PICK x \in S : \A y \in S : ~ (<<y, x>> \in R)
  BY <1>1, WFMin
<1>3. \A y \in S : x <= y
  <2>1. SUFFICES ASSUME NEW y \in S, y < x PROVE FALSE
    OBVIOUS
  <2>2. <<y, x>> \in R
    BY <2>1 DEF R
  <2> QED
    BY <1>2, <2>2
<1> QED
  BY <1>3 DEF Min

\* The place of the first separator, after the end if there is none.
FirstAt(text, c) == SelectInSeq(text \o <<Sep(c)>>, LAMBDA t : t = Sep(c))

\* The separator is there, if the text has one.
LEMMA FirstAtFacts ==
    ASSUME NEW T, NEW c, Sep(c) \in T, NEW text \in Seq(T)
    PROVE  /\ FirstAt(text, c) \in 1 .. Len(text) + 1
           /\ FirstAt(text, c) <= Len(text) => text[FirstAt(text, c)] = Sep(c) /\ Has(text, c)
           /\ FirstAt(text, c) = Len(text) + 1 => ~Has(text, c)
<1> DEFINE one == <<Sep(c)>>
           more == text \o one
           I == {i \in 1 .. Len(more) : more[i] = Sep(c)}
           at == Min(I)
<1>1. one \in Seq(T) /\ Len(one) = 1 /\ one[1] = Sep(c)
  OBVIOUS
<1> HIDE DEF one
<1>2. /\ Len(text) \in Nat /\ Len(more) = Len(text) + 1
      /\ \A i \in 1 .. Len(text) : more[i] = text[i]
      /\ more[Len(text) + 1] = Sep(c)
  BY <1>1, ConcatProperties, LenProperties
<1>3. DOMAIN text = 1 .. Len(text)
  BY LenProperties
<1>4. FirstAt(text, c) = IF I # {} THEN at ELSE 0
  BY DEF FirstAt, SelectInSeq, one
<1> HIDE DEF more
<1>5. I \in SUBSET Nat /\ Len(text) + 1 \in I
  BY <1>2
<1>6. at \in I /\ at <= Len(text) + 1 /\ \A i \in I : at <= i
  BY <1>5, MinIs
<1> HIDE DEF at
<1>7. at \in 1 .. Len(text) + 1 /\ more[at] = Sep(c)
  BY <1>2, <1>6
<1>8. ASSUME at <= Len(text) PROVE text[at] = Sep(c) /\ Has(text, c)
  BY <1>2, <1>3, <1>7, <1>8 DEF Has
<1>9. ASSUME at = Len(text) + 1 PROVE ~Has(text, c)
  BY <1>2, <1>3, <1>6, <1>9 DEF Has
<1> QED
  BY <1>4, <1>5, <1>7, <1>8, <1>9

\* Concatenation, under a name.
Joined(x, y) == x \o y

\* It does not matter how parts are put together.
LEMMA JoinedFacts ==
    ASSUME NEW T
    PROVE  /\ \A x, y \in Seq(T) : Joined(x, y) \in Seq(T)
           /\ \A x, y, z \in Seq(T) : Joined(Joined(x, y), z) = Joined(x, Joined(y, z))
<1>1. ASSUME NEW x \in Seq(T), NEW y \in Seq(T) PROVE Joined(x, y) \in Seq(T)
  BY ConcatProperties DEF Joined
<1>2. ASSUME NEW x \in Seq(T), NEW y \in Seq(T), NEW z \in Seq(T)
      PROVE  Joined(Joined(x, y), z) = Joined(x, Joined(y, z))
  BY ConcatAssociative DEF Joined
<1> QED
  BY <1>1, <1>2

\* What is before the first separator, it, and what is after it are the text.
LEMMA Cut ==
    ASSUME NEW T, NEW c, Sep(c) \in T, NEW text \in Seq(T)
    PROVE  /\ Before(text, c) \in Seq(T) /\ After(text, c) \in Seq(T)
           /\ Has(text, c) => text = Before(text, c) \o <<Sep(c)>> \o After(text, c)
           /\ ~Has(text, c) => Before(text, c) = text /\ After(text, c) = <<>>
<1> DEFINE at == FirstAt(text, c)
           n == Len(text)
           b == SubSeq(text, 1, at - 1)
           a == SubSeq(text, at + 1, n)
<1>1. /\ n \in Nat /\ at \in 1 .. n + 1
      /\ at <= n => text[at] = Sep(c) /\ Has(text, c)
      /\ at = n + 1 => ~Has(text, c)
  BY FirstAtFacts, LenProperties
<1>2. Before(text, c) = b
  BY DEF Before, FirstAt
<1> HIDE DEF at
<1>3. \A i \in 1 .. n : text[i] \in T
  BY ElementOfSeq
<1>4. b \in Seq(T) /\ Len(b) = at - 1
  <2>1. at - 1 \in Int /\ 1 \in Int /\ (1 <= at - 1 \/ at - 1 = 0) /\ at - 1 - 1 + 1 = at - 1
    BY <1>1
  <2>2. \A i \in 1 .. at - 1 : text[i] \in T
    BY <1>1, <1>3
  <2> QED
    BY <2>1, <2>2, SubSeqProperties
<1>5. After(text, c) = a
  <2>1. at - 1 + 2 = at + 1
    BY <1>1
  <2> HIDE DEF b
  <2> QED
    BY <1>2, <1>4, <2>1 DEF After
<1>6. a \in Seq(T)
  <2>1. at + 1 \in Int /\ n \in Int /\ \A i \in at + 1 .. n : text[i] \in T
    BY <1>1, <1>3
  <2> QED
    BY <2>1, SubSeqProperties
<1>7. CASE at <= n
  <2> DEFINE s == SubSeq(text, at, n)
  <2>1. /\ 1 \in 1 .. n + 1 /\ at - 1 \in 1 - 1 .. n /\ n \in at - 1 .. n
        /\ at - 1 + 1 = at /\ at \in 1 .. n /\ n \in at .. n
    BY <1>1, <1>7
  <2>2. b \o s = text
    <3>1. SubSeq(text, 1, at - 1) \o SubSeq(text, at - 1 + 1, n) = SubSeq(text, 1, n)
      BY <2>1, ConcatAdjacentSubSeq
    <3>2. SubSeq(text, 1, n) = text
      BY SubSeqFull
    <3> QED
      BY <2>1, <3>1, <3>2
  <2>3. s = <<text[at]>> \o a
    BY <2>1, SubSeqRecursiveFirst
  <2>4. text[at] = Sep(c) /\ Has(text, c)
    BY <1>1, <1>7
  <2> DEFINE one == <<Sep(c)>>
  <2>5. one \in Seq(T)
    OBVIOUS
  <2> HIDE DEF a, b, s, one
  <2>6. Joined(Joined(b, one), a) = Joined(b, Joined(one, a))
    BY <1>4, <1>6, <2>5, JoinedFacts
  <2>7. text = (b \o one) \o a
    <3>1. s = one \o a
      BY <2>3, <2>4 DEF one
    <3>2. text = Joined(b, Joined(one, a))
      BY <2>2, <3>1, Zenon DEF Joined
    <3> QED
      BY <2>6, <3>2, Zenon DEF Joined
  <2> QED
    BY <1>2, <1>4, <1>5, <1>6, <2>4, <2>7 DEF one
<1>8. CASE at = n + 1
  <2>1. b = text
    <3>1. at - 1 = n
      BY <1>1, <1>8
    <3> QED
      BY <3>1, SubSeqFull
  <2>2. a = <<>>
    <3>1. n < at + 1 /\ at + 1 \in Int /\ n \in Int
      BY <1>1, <1>8
    <3> QED
      BY <3>1, SubSeqEmpty
  <2> QED
    BY <1>1, <1>2, <1>4, <1>5, <1>6, <1>8, <2>1, <2>2
<1> QED
  BY <1>1, <1>7, <1>8

\* A part of a text that is not empty is a run of it.
LEMMA PartIsRun ==
    ASSUME NEW T, NEW a \in Seq(T), NEW p \in Seq(T), NEW b \in Seq(T), p # <<>>
    PROVE  \E i, j \in DOMAIN Joined(Joined(a, p), b) :
              p = SubSeq(Joined(Joined(a, p), b), i, j)
<1> DEFINE ap == a \o p
           text == ap \o b
           i == Len(a) + 1
           j == Len(a) + Len(p)
<1>1. Len(a) \in Nat /\ Len(p) \in Nat /\ Len(b) \in Nat /\ Len(p) # 0
  BY LenProperties, EmptySeq
<1>2. ap \in Seq(T) /\ Len(ap) = j
  BY ConcatProperties
<1>3. i \in 1 .. Len(ap) /\ j \in 1 .. Len(ap) /\ i \in Len(a) + 1 .. Len(a) + Len(p)
      /\ j \in Len(a) + 1 .. Len(a) + Len(p) /\ i - Len(a) = 1 /\ j - Len(a) = Len(p)
  BY <1>1, <1>2
<1>4. SubSeq(ap, i, j) = p
  <2>1. SubSeq(a \o p, i, j) = SubSeq(p, i - Len(a), j - Len(a))
    <3> HIDE DEF i, j
    <3> QED
      BY <1>3, SubSeqOfConcat2
  <2>2. SubSeq(p, 1, Len(p)) = p
    BY SubSeqFull
  <2> QED
    BY <1>3, <2>1, <2>2
<1> HIDE DEF ap, i, j
<1>5. text \in Seq(T) /\ Len(text) = Len(ap) + Len(b)
  BY <1>2, ConcatProperties
<1>6. SubSeq(text, i, j) = SubSeq(ap, i, j)
  BY <1>2, <1>3, SubSeqOfConcat1
<1>7. i \in DOMAIN text /\ j \in DOMAIN text
  <2> HIDE DEF text
  <2>1. DOMAIN text = 1 .. Len(text)
    BY <1>5, LenProperties
  <2>2. Len(ap) \in Nat
    BY <1>2, LenProperties
  <2> QED
    BY <1>1, <1>3, <1>5, <2>1, <2>2
<1>8. text = Joined(Joined(a, p), b)
  BY DEF Joined, ap
<1> HIDE DEF text
<1>9. \E k, l \in DOMAIN text : p = SubSeq(text, k, l)
  BY <1>4, <1>6, <1>7
<1> QED
  BY <1>8, <1>9

-----------------------------------------------------------------------------
(* The cuts of rtsp_url_parse, by name. *)

\* Where the scheme ends, what is behind its "://", and the two parts of an
\* authority.
SchemeEnd(text) == Min(SchemeEnds(text))
Rest(text) == SubSeq(text, SchemeEnd(text) + 3, Len(text))
UserInfo(authority) == IF Has(authority, "@") THEN Before(authority, "@") ELSE <<>>
HostPort(authority) == IF Has(authority, "@") THEN After(authority, "@") ELSE authority

\* What is read of a text that is accepted.
LEMMA ReadsParts ==
    ASSUME NEW text, RtspUrlParse(text).parsed
    PROVE  LET out == RtspUrlParse(text)
               authority == Authority(Rest(text))
               hostport == HostPort(authority)
               port == After(hostport, ":")
           IN  /\ SchemeEnds(text) # {}
               /\ out.scheme = SubSeq(text, 1, SchemeEnd(text) - 1)
               /\ out.user = Before(UserInfo(authority), ":")
               /\ out.password = After(UserInfo(authority), ":")
               /\ out.host = Before(hostport, ":")
               /\ ~Has(hostport, ":") => out.port = 554
               /\ Has(hostport, ":") => IsPort(port) /\ out.port = Number(port)
               /\ out.path = Path(Rest(text))
<1> DEFINE authority == Authority(Rest(text))
           userinfo == UserInfo(authority)
           hostport == HostPort(authority)
           port == After(hostport, ":")
           out == [parsed |-> TRUE,
                   scheme |-> SubSeq(text, 1, SchemeEnd(text) - 1),
                   user |-> Before(userinfo, ":"), password |-> After(userinfo, ":"),
                   host |-> Before(hostport, ":"),
                   port |-> IF ~Has(hostport, ":") THEN 554
                            ELSE IF IsPort(port) THEN Number(port) ELSE 0,
                   path |-> Path(Rest(text))]
           fine == /\ SchemeEnds(text) # {} /\ SchemeEnd(text) > 1
                   /\ out.host # <<>> /\ out.port # 0
                   /\ \A part \in DOMAIN UrlMax : Width(out[part]) < UrlMax[part]
<1>1. RtspUrlParse(text) = IF fine THEN out ELSE [parsed |-> FALSE]
  BY DEF RtspUrlParse, SchemeEnd, Rest, UserInfo, HostPort
<1>2. SchemeEnds(text) # {} /\ out.port # 0 /\ RtspUrlParse(text) = out
  <2>1. fine => SchemeEnds(text) # {} /\ out.port # 0
    OBVIOUS
  <2> HIDE DEF fine, out
  <2>2. ASSUME ~fine PROVE FALSE
    <3>1. RtspUrlParse(text) = [parsed |-> FALSE]
      BY <1>1, <2>2
    <3> QED
      BY <3>1
  <2> QED
    BY <1>1, <2>1, <2>2
<1>3. ~Has(hostport, ":") => out.port = 554
  OBVIOUS
<1>4. Has(hostport, ":") => IsPort(port) /\ out.port = Number(port)
  BY <1>2
<1>5. /\ out.scheme = SubSeq(text, 1, SchemeEnd(text) - 1)
      /\ out.user = Before(userinfo, ":") /\ out.password = After(userinfo, ":")
      /\ out.host = Before(hostport, ":") /\ out.path = Path(Rest(text))
  OBVIOUS
<1> HIDE DEF out
<1> QED
  BY <1>2, <1>3, <1>4, <1>5

\* The scheme, the "://" and the rest are the text.
LEMMA SchemeCut ==
    ASSUME NEW T, NEW text \in Seq(T), SchemeEnds(text) # {}
    PROVE  LET scheme == SubSeq(text, 1, SchemeEnd(text) - 1) IN
           /\ scheme \in Seq(T) /\ Slashes \in Seq(T) /\ Rest(text) \in Seq(T)
           /\ 3 <= Len(text)
           /\ text = (scheme \o Slashes) \o Rest(text)
<1> DEFINE n == Len(text)
           e == SchemeEnd(text)
           scheme == SubSeq(text, 1, e - 1)
           rest == SubSeq(text, e + 3, n)
<1>1. n \in Nat /\ \A i \in 1 .. n : text[i] \in T
  BY LenProperties, ElementOfSeq
<1>2. SchemeEnds(text) \in SUBSET Nat
  BY <1>1 DEF SchemeEnds
<1>3. e \in SchemeEnds(text)
  BY <1>2, MinIs DEF SchemeEnd
<1> HIDE DEF e
<1>4. e \in Nat /\ 1 <= e /\ e <= n - 2 /\ SubSeq(text, e, e + 2) = Slashes
  BY <1>1, <1>3 DEF SchemeEnds
<1>5. scheme \in Seq(T) /\ rest \in Seq(T) /\ SubSeq(text, e, e + 2) \in Seq(T)
  <2>1. /\ 1 \in Int /\ e - 1 \in Int /\ e + 3 \in Int /\ n \in Int /\ e \in Int /\ e + 2 \in Int
        /\ \A i \in 1 .. e - 1 : text[i] \in T
        /\ \A i \in e + 3 .. n : text[i] \in T
        /\ \A i \in e .. e + 2 : text[i] \in T
    BY <1>1, <1>4
  <2> QED
    BY <2>1, SubSeqProperties
<1>6. scheme \o Slashes = SubSeq(text, 1, e + 2)
  <2>1. 1 \in 1 .. n + 1 /\ e - 1 \in 1 - 1 .. n /\ e + 2 \in e - 1 .. n /\ e - 1 + 1 = e
    BY <1>1, <1>4
  <2>2. SubSeq(text, 1, e - 1) \o SubSeq(text, e - 1 + 1, e + 2) = SubSeq(text, 1, e + 2)
    BY <2>1, ConcatAdjacentSubSeq
  <2> QED
    BY <1>4, <2>1, <2>2
<1>7. SubSeq(text, 1, e + 2) \o rest = text
  <2>1. 1 \in 1 .. n + 1 /\ e + 2 \in 1 - 1 .. n /\ n \in e + 2 .. n /\ e + 2 + 1 = e + 3
    BY <1>1, <1>4
  <2>2. SubSeq(text, 1, e + 2) \o SubSeq(text, e + 2 + 1, n) = SubSeq(text, 1, n)
    BY <2>1, ConcatAdjacentSubSeq
  <2> QED
    BY <2>1, <2>2, SubSeqFull
<1>8. Slashes \in Seq(T) /\ 3 <= n /\ Rest(text) = rest
  <2>1. Slashes \in Seq(T)
    BY <1>4, <1>5
  <2>2. 3 <= n
    BY <1>1, <1>4
  <2>3. Rest(text) = rest
    BY DEF Rest, e
  <2> QED
    BY <2>1, <2>2, <2>3
<1> HIDE DEF scheme, rest
<1>9. text = (scheme \o Slashes) \o Rest(text)
  BY <1>6, <1>7, <1>8
<1> QED
  BY <1>5, <1>8, <1>9 DEF scheme, e

\* The path, if it is given, is the end of the rest, and the authority what
\* is before it.
LEMMA PathCut ==
    ASSUME NEW T, Sep("/") \in T, NEW rest \in Seq(T)
    PROVE  /\ Authority(rest) \in Seq(T)
           /\ \E end \in {Path(rest)} \cup (IF Path(rest) = <<Sep("/")>> THEN {<<>>} ELSE {}) :
                 end \in Seq(T) /\ rest = Authority(rest) \o end
<1> DEFINE b == Before(rest, "/")
           n == Len(rest)
<1>1. /\ b \in Seq(T)
      /\ ~Has(rest, "/") => b = rest
  BY Cut
<1>2. Authority(rest) = b
  BY DEF Authority
<1>3. CASE ~Has(rest, "/")
  <2>1. Path(rest) = <<Sep("/")>>
    BY <1>3 DEF Path
  <2>2. rest = b \o <<>> /\ <<>> \in Seq(T)
    BY <1>1, <1>3, ConcatEmptySeq
  <2> QED
    BY <1>1, <1>2, <2>1, <2>2
<1>4. CASE Has(rest, "/")
  <2> DEFINE a == After(rest, "/")
             one == <<Sep("/")>>
             m == Len(b)
  <2>1. a \in Seq(T) /\ rest = (b \o one) \o a
    BY <1>4, Cut
  <2>2. one \in Seq(T)
    OBVIOUS
  <2>3. Path(rest) = SubSeq(rest, m + 1, n)
    BY <1>4 DEF Path
  <2> HIDE DEF a, b, one
  <2>4. rest = b \o (one \o a)
    BY <1>1, <2>1, <2>2, ConcatAssociative
  <2>5. one \o a \in Seq(T)
    BY <2>1, <2>2, ConcatProperties
  <2> DEFINE s == one \o a
  <2>6. s \in Seq(T) /\ rest = b \o s
    BY <2>4, <2>5
  <2> HIDE DEF s
  <2>7. m \in Nat /\ n = m + Len(s) /\ Len(s) \in Nat /\ n \in Nat
    BY <1>1, <2>6, ConcatProperties, LenProperties
  <2>8. /\ SubSeq(rest, 1, m) \o SubSeq(rest, m + 1, n) = rest
    <3>1. 1 \in 1 .. n + 1 /\ m \in 1 - 1 .. n /\ n \in m .. n
      BY <2>7
    <3> HIDE DEF n, m
    <3>2. SubSeq(rest, 1, m) \o SubSeq(rest, m + 1, n) = SubSeq(rest, 1, n)
      BY <3>1, ConcatAdjacentSubSeq DEF n
    <3>3. SubSeq(rest, 1, n) = rest
      BY SubSeqFull DEF n
    <3> QED
      BY <3>2, <3>3
  <2>9. SubSeq(rest, 1, m) = b
    <3>1. CASE m = 0
      <4>1. b = <<>>
        BY <1>1, <3>1, EmptySeq
      <4>2. SubSeq(rest, 1, 0) = <<>>
        BY SubSeqEmpty
      <4> QED
        BY <3>1, <4>1, <4>2
    <3>2. CASE m # 0
      <4>1. 1 \in 1 .. m /\ m \in 1 .. m
        BY <2>7, <3>2
      <4>2. SubSeq(b \o s, 1, m) = SubSeq(b, 1, m)
        BY <1>1, <2>6, <4>1, SubSeqOfConcat1
      <4>3. SubSeq(b, 1, m) = b
        BY <1>1, SubSeqFull
      <4> QED
        BY <2>6, <4>2, <4>3
    <3> QED
      BY <3>1, <3>2
  <2>10. Path(rest) \in Seq(T)
    <3>1. m + 1 \in Int /\ n \in Int /\ \A i \in m + 1 .. n : rest[i] \in T
      BY <2>7, ElementOfSeq
    <3> QED
      BY <2>3, <3>1, SubSeqProperties
  <2> QED
    BY <1>1, <1>2, <2>3, <2>8, <2>9, <2>10 DEF b
<1> QED
  BY <1>3, <1>4

\* The userinfo, if it is given, is the front of the authority; the port, if
\* it is given, the end.
LEMMA AuthorityCut ==
    ASSUME NEW T, Sep("@") \in T, Sep(":") \in T, NEW authority \in Seq(T)
    PROVE  LET user == Before(UserInfo(authority), ":")
               password == After(UserInfo(authority), ":")
               host == Before(HostPort(authority), ":")
               port == After(HostPort(authority), ":")
               userinfos == {user \o <<Sep("@")>>, user \o <<Sep(":")>> \o password \o <<Sep("@")>>}
                            \cup (IF user \o password = <<>> THEN {<<>>} ELSE {})
           IN  /\ host \in Seq(T) /\ port \in Seq(T)
               /\ \E front \in userinfos, end \in {<<>>, <<Sep(":")>> \o port} :
                     /\ front \in Seq(T)
                     /\ authority = front \o (host \o end)
                     /\ end = IF Has(HostPort(authority), ":") THEN <<Sep(":")>> \o port ELSE <<>>
<1> DEFINE userinfo == UserInfo(authority)
           hostport == HostPort(authority)
           user == Before(userinfo, ":")
           password == After(userinfo, ":")
           host == Before(hostport, ":")
           port == After(hostport, ":")
           at == <<Sep("@")>>
           colon == <<Sep(":")>>
           end == IF Has(hostport, ":") THEN colon \o port ELSE <<>>
           userinfos == {user \o at, user \o colon \o password \o at}
                        \cup (IF user \o password = <<>> THEN {<<>>} ELSE {})
<1>1. <<>> \in Seq(T) /\ at \in Seq(T) /\ colon \in Seq(T)
  OBVIOUS
<1>2. /\ userinfo \in Seq(T) /\ hostport \in Seq(T)
      /\ Has(authority, "@") => authority = (userinfo \o at) \o hostport
      /\ ~Has(authority, "@") => userinfo = <<>> /\ hostport = authority
  BY <1>1, Cut DEF UserInfo, HostPort
<1> HIDE DEF userinfo, hostport
<1>3. /\ user \in Seq(T) /\ password \in Seq(T)
      /\ Has(userinfo, ":") => userinfo = (user \o colon) \o password
      /\ ~Has(userinfo, ":") => user = userinfo /\ password = <<>>
  BY <1>2, Cut
<1>4. /\ host \in Seq(T) /\ port \in Seq(T)
      /\ Has(hostport, ":") => hostport = (host \o colon) \o port
      /\ ~Has(hostport, ":") => host = hostport
  BY <1>2, Cut
<1> HIDE DEF at, colon, user, password, host, port
<1>5. hostport = host \o end
  <2>1. (host \o colon) \o port = host \o (colon \o port)
    BY <1>1, <1>4, ConcatAssociative
  <2>2. host \o <<>> = host
    BY <1>4, ConcatEmptySeq
  <2> QED
    BY <1>4, <2>1, <2>2
<1>6. \E front \in userinfos : front \in Seq(T) /\ authority = front \o hostport
  <2>1. CASE Has(authority, "@")
    <3>1. userinfo \o at \in Seq(T)
      BY <1>1, <1>2, ConcatProperties
    <3>2. userinfo \o at \in userinfos
      BY <1>3
    <3> QED
      BY <1>2, <2>1, <3>1, <3>2
  <2>2. CASE ~Has(authority, "@")
    <3>1. userinfo = <<>> /\ ~Has(userinfo, ":")
      BY <1>2, <2>2 DEF Has
    <3>2. user = <<>> /\ password = <<>>
      BY <1>3, <3>1
    <3>3. user \o password = <<>>
      BY <1>1, <3>2, ConcatEmptySeq
    <3>4. authority = <<>> \o hostport
      BY <1>2, <2>2, ConcatEmptySeq
    <3> QED
      BY <1>1, <3>3, <3>4
  <2> QED
    BY <2>1, <2>2
<1>7. end \in {<<>>, colon \o port}
  OBVIOUS
<1> HIDE DEF end
<1> QED
  BY <1>4, <1>5, <1>6, <1>7 DEF end, user, password, host, port, at, colon, userinfo, hostport

-----------------------------------------------------------------------------
(* The URL. *)

\* The runs of a text that are numbers.
Numbers(text) ==
    {d \in {SubSeq(text, i, j) : i, j \in DOMAIN text} : ShortDigits(d)}

\* A port has at most five characters, all of them digits.
LEMMA PortFacts ==
    ASSUME NEW p, IsPort(p)
    PROVE  ShortDigits(p)
  BY Zenon DEF IsPort

\* A run of a text that is accepted as a port is one of them.
LEMMA PortIsNumber ==
    ASSUME NEW T, NEW text \in Seq(T), NEW p, IsPort(p),
           \E i, j \in DOMAIN text : p = SubSeq(text, i, j)
    PROVE  p \in Numbers(text)
<1> DEFINE runs == {SubSeq(text, i, j) : i, j \in DOMAIN text}
<1>1. ShortDigits(p)
  BY PortFacts
<1>2. p \in runs
  <2>1. PICK i, j \in DOMAIN text : p = SubSeq(text, i, j)
    OBVIOUS
  <2> DEFINE run(a, b) == SubSeq(text, a, b)
  <2>2. runs = {run(a, b) : a, b \in DOMAIN text}
    OBVIOUS
  <2>3. p = run(i, j)
    BY <2>1
  <2> HIDE DEF run, runs
  <2>4. run(i, j) \in runs
    BY <2>2
  <2> QED
    BY <2>3, <2>4
<1>3. Numbers(text) = {d \in runs : ShortDigits(d)}
  BY DEF Numbers, ShortDigits
<1> HIDE DEF runs
<1> QED
  BY <1>1, <1>2, <1>3

\* What is accepted is a spelling of its parts.
LEMMA SpelledOut ==
    ASSUME NEW T, Sep("@") \in T, Sep(":") \in T, Sep("/") \in T, NEW text \in Seq(T),
           RtspUrlParse(text).parsed
    PROVE  text \in Spellings(RtspUrlParse(text), Numbers(text))
<1> DEFINE t == RtspUrlParse(text)
           rest == Rest(text)
           authority == Authority(rest)
           hostport == HostPort(authority)
           user == Before(UserInfo(authority), ":")
           password == After(UserInfo(authority), ":")
           host == Before(hostport, ":")
           port == After(hostport, ":")
           scheme == SubSeq(text, 1, SchemeEnd(text) - 1)
           head == scheme \o Slashes
           colon == <<Sep(":")>>
           userinfos == {user \o <<Sep("@")>>, user \o colon \o password \o <<Sep("@")>>}
                        \cup (IF user \o password = <<>> THEN {<<>>} ELSE {})
           ports == {colon \o d : d \in {d \in Numbers(text) : Number(d) = t.port}}
                    \cup (IF t.port = 554 THEN {<<>>} ELSE {})
           paths == {Path(rest)} \cup (IF Path(rest) = <<Sep("/")>> THEN {<<>>} ELSE {})
<1>1. /\ SchemeEnds(text) # {}
      /\ t.scheme = scheme /\ t.user = user /\ t.password = password /\ t.host = host
      /\ ~Has(hostport, ":") => t.port = 554
      /\ Has(hostport, ":") => IsPort(port) /\ t.port = Number(port)
      /\ t.path = Path(rest)
  BY ReadsParts
<1>2. /\ scheme \in Seq(T) /\ Slashes \in Seq(T) /\ rest \in Seq(T) /\ 3 <= Len(text)
      /\ text = head \o rest
  BY <1>1, SchemeCut
<1>3. /\ authority \in Seq(T)
      /\ \E path \in paths : path \in Seq(T) /\ rest = authority \o path
  <2> HIDE DEF rest
  <2> QED
    BY <1>2, PathCut
<1>4. PICK path \in paths : path \in Seq(T) /\ rest = authority \o path
  BY <1>3
<1>5. /\ host \in Seq(T) /\ port \in Seq(T)
      /\ \E front \in userinfos, end \in {<<>>, colon \o port} :
            /\ front \in Seq(T)
            /\ authority = front \o (host \o end)
            /\ end = IF Has(hostport, ":") THEN colon \o port ELSE <<>>
  <2> HIDE DEF authority
  <2> QED
    BY <1>3, AuthorityCut
<1>6. PICK front \in userinfos, end \in {<<>>, colon \o port} :
            /\ front \in Seq(T)
            /\ authority = front \o (host \o end)
            /\ end = IF Has(hostport, ":") THEN colon \o port ELSE <<>>
  BY <1>5
<1>7. colon \in Seq(T) /\ <<>> \in Seq(T)
  OBVIOUS
<1> HIDE DEF t, rest, authority, hostport, user, password, host, port, scheme, head, colon, userinfos, paths
<1>8. end \in Seq(T) /\ head \in Seq(T)
  <2>1. colon \o port \in Seq(T)
    BY <1>5, <1>7, ConcatProperties
  <2>2. head \in Seq(T)
    BY <1>2, ConcatProperties DEF head
  <2> QED
    BY <1>6, <1>7, <2>1, <2>2
<1>9. text = Joined(Joined(Joined(Joined(head, front), host), end), path)
  <2>1. text = Joined(head, Joined(Joined(front, Joined(host, end)), path))
    BY <1>2, <1>4, <1>6 DEF Joined
  <2>2. \A x, y \in Seq(T) : Joined(x, y) \in Seq(T)
    BY JoinedFacts
  <2>3. \A x, y, z \in Seq(T) : Joined(Joined(x, y), z) = Joined(x, Joined(y, z))
    BY JoinedFacts
  <2>4. head \in Seq(T) /\ front \in Seq(T) /\ host \in Seq(T) /\ end \in Seq(T) /\ path \in Seq(T)
    BY <1>4, <1>5, <1>6, <1>8
  <2>5. /\ Joined(head, front) \in Seq(T) /\ Joined(Joined(head, front), host) \in Seq(T)
        /\ Joined(Joined(Joined(head, front), host), end) \in Seq(T)
        /\ Joined(host, end) \in Seq(T) /\ Joined(front, Joined(host, end)) \in Seq(T)
    BY <2>2, <2>4
  <2>6. Joined(Joined(Joined(head, front), host), end) = Joined(Joined(head, front), Joined(host, end))
    BY <2>3, <2>4, <2>5
  <2>7. Joined(Joined(head, front), Joined(host, end)) = Joined(head, Joined(front, Joined(host, end)))
    BY <2>3, <2>4, <2>5
  <2>8. Joined(Joined(head, Joined(front, Joined(host, end))), path)
          = Joined(head, Joined(Joined(front, Joined(host, end)), path))
    BY <2>3, <2>4, <2>5
  <2> QED
    BY <2>1, <2>6, <2>7, <2>8
<1>10. ASSUME Has(hostport, ":") PROVE \E i, j \in DOMAIN text : port = SubSeq(text, i, j)
  <2>1. end = colon \o port
    BY <1>6, <1>10
  <2>2. CASE port = <<>>
    <3>1. DOMAIN text = 1 .. Len(text) /\ Len(text) \in Nat
      BY LenProperties
    <3>2. 2 \in DOMAIN text /\ 1 \in DOMAIN text
      BY <1>2, <3>1
    <3>3. SubSeq(text, 2, 1) = <<>>
      BY SubSeqEmpty
    <3> QED
      BY <2>2, <3>2, <3>3
  <2>3. CASE port # <<>>
    <3> DEFINE front3 == Joined(Joined(head, front), host)
               a == Joined(front3, colon)
               whole == Joined(Joined(a, port), path)
    <3>1. \A x, y \in Seq(T) : Joined(x, y) \in Seq(T)
      BY JoinedFacts
    <3>2. \A x, y, z \in Seq(T) : Joined(Joined(x, y), z) = Joined(x, Joined(y, z))
      BY JoinedFacts
    <3>3. front3 \in Seq(T)
      BY <1>5, <1>6, <1>8, <3>1
    <3> HIDE DEF front3
    <3>4. a \in Seq(T)
      BY <1>7, <3>1, <3>3
    <3>5. Joined(front3, Joined(colon, port)) = Joined(a, port)
      BY <1>5, <1>7, <3>2, <3>3
    <3>6. text = whole
      BY <1>9, <2>1, <3>5, Zenon DEF front3, Joined
    <3> HIDE DEF a
    <3>7. \E i, j \in DOMAIN whole : port = SubSeq(whole, i, j)
      BY <1>4, <1>5, <2>3, <3>4, PartIsRun
    <3> HIDE DEF whole
    <3> QED
      BY <3>6, <3>7
  <2> QED
    BY <2>2, <2>3
<1>11. end \in ports
  <2>1. CASE Has(hostport, ":")
    <3>1. IsPort(port) /\ t.port = Number(port) /\ end = colon \o port
      BY <1>1, <1>6, <2>1
    <3>2. port \in Numbers(text)
      BY <1>10, <2>1, <3>1, PortIsNumber
    <3> QED
      BY <3>1, <3>2
  <2>2. CASE ~Has(hostport, ":")
    BY <1>1, <1>6, <2>2
  <2> QED
    BY <2>1, <2>2
<1> HIDE DEF ports
<1> DEFINE spelled(u, p, q) == t.scheme \o Slashes \o u \o t.host \o p \o q
<1>12. Spellings(t, Numbers(text)) = {spelled(u, p, q) : u \in userinfos, p \in ports, q \in paths}
  BY <1>1 DEF Spellings, userinfos, ports, paths, colon
<1>13. text = spelled(front, end, path)
  BY <1>1, <1>9, Zenon DEF head, Joined
<1> HIDE DEF spelled
<1>14. text \in {spelled(u, p, q) : u \in userinfos, p \in ports, q \in paths}
  BY <1>4, <1>6, <1>11, <1>13
<1> QED
  BY <1>12, <1>14 DEF t

\* The client's target is what it made of its URL.
TargetIsParsed ==
    /\ url \in Urls \cup {c.url : c \in Cameras}
    /\ target = RtspUrlParse(url)

\* The client reads its URL once.
THEOREM TargetStays == Spec => []TargetIsParsed
<1>1. Init => TargetIsParsed
  BY DEF Init, TargetIsParsed
<1>2. TargetIsParsed /\ [Next]_vars => TargetIsParsed'
  <2>1. [Next]_vars => url' = url /\ target' = target
    BY DEF Next, vars, Connect, SendNext, Keepalive, Teardown, Send, Serve, Arrive, TakeAnswer
  <2> QED
    BY <2>1 DEF TargetIsParsed
<1> QED
  BY <1>1, <1>2, PTL DEF Spec

\* rtsp_url_parse makes nothing up, whatever the text: if it accepts it, the
\* text says the parts it is read as, nothing of it is passed over, and what
\* is read as the port is digits with that value (rtsp_url.c:18-115).
THEOREM UrlIsSpelled == Spec => []UrlSaysItsParts
<1>1. TargetIsParsed => UrlSaysItsParts
  <2>1. SUFFICES ASSUME TargetIsParsed, target.parsed
                 PROVE  url \in Spellings(target, Numbers(url))
    BY DEF UrlSaysItsParts, Numbers, ShortDigits
  <2> DEFINE T == Range(url) \cup {Sep("@"), Sep(":"), Sep("/")}
  <2>2. url \in Seq(Range(url))
    BY <2>1, TextsAssumption DEF TargetIsParsed
  <2>3. url \in Seq(T)
    BY <2>2
  <2>4. Sep("@") \in T /\ Sep(":") \in T /\ Sep("/") \in T
    OBVIOUS
  <2> HIDE DEF T
  <2>5. target = RtspUrlParse(url) /\ RtspUrlParse(url).parsed
    BY <2>1 DEF TargetIsParsed
  <2> QED
    BY <2>3, <2>4, <2>5, SpelledOut
<1> QED
  BY <1>1, TargetStays, PTL

-----------------------------------------------------------------------------
(* Adding up the widths of lines. *)

\* A set of numbers with its greatest has it as Max.
LEMMA MaxIs ==
    ASSUME NEW s, NEW m \in s, s \in SUBSET Nat, \A i \in s : i <= m
    PROVE  Max(s) = m
<1>1. \A i \in s : m >= i
  OBVIOUS
<1>2. \A y \in s : (\A i \in s : y >= i) => y = m
  OBVIOUS
<1> QED
  BY <1>1, <1>2 DEF Max

\* What a fold computes on its way, for the sets of places it meets.
Adds(h, n, lines) ==
    /\ h \in [SUBSET (1 .. n) -> Int]
    /\ \A s \in SUBSET (1 .. n) : h[s] = IF s = {} THEN 0 ELSE h[s \ {Max(s)}] + lines[Max(s)].width

\* It can be computed, whatever the widths.
LEMMA SumsExist ==
    ASSUME NEW n \in Nat, NEW lines, \A i \in 1 .. n : lines[i].width \in Int
    PROVE  \E h : Adds(h, n, lines)
<1> DEFINE Good(k) == \E h : Adds(h, k, lines)
           Bad == {k \in 0 .. n : ~Good(k)}
<1>1. Good(0)
  <2> DEFINE h == [s \in SUBSET (1 .. 0) |-> 0]
  <2>1. \A s \in SUBSET (1 .. 0) : s = {}
    OBVIOUS
  <2>2. Adds(h, 0, lines)
    BY <2>1 DEF Adds
  <2> QED
    BY <2>2
<1>2. ASSUME NEW k \in 0 .. n - 1, Good(k) PROVE Good(k + 1)
  <2>1. PICK h : Adds(h, k, lines)
    BY <1>2
  <2> DEFINE m == k + 1
             g == [s \in SUBSET (1 .. m) |-> IF m \in s THEN h[s \ {m}] + lines[m].width ELSE h[s]]
  <2>2. m \in 1 .. n /\ m \in Nat /\ k \in Nat /\ lines[m].width \in Int
    OBVIOUS
  <2>3. /\ \A s \in SUBSET (1 .. m) : s \ {m} \in SUBSET (1 .. k)
        /\ \A s \in SUBSET (1 .. m) : m \notin s => s \in SUBSET (1 .. k)
        /\ \A s \in SUBSET (1 .. k) : s \in SUBSET (1 .. m) /\ m \notin s
    BY <2>2
  <2>4. g \in [SUBSET (1 .. m) -> Int]
    BY <2>1, <2>2, <2>3 DEF Adds
  <2>5. ASSUME NEW s \in SUBSET (1 .. m)
        PROVE  g[s] = IF s = {} THEN 0 ELSE g[s \ {Max(s)}] + lines[Max(s)].width
    <3>1. CASE m \in s
      <4>1. Max(s) = m
        <5>1. s \in SUBSET Nat /\ \A i \in s : i <= m
          BY <2>2
        <5> HIDE DEF m
        <5> QED
          BY <3>1, <5>1, MaxIs
      <4>2. g[s] = h[s \ {m}] + lines[m].width
        BY <3>1
      <4>3. g[s \ {m}] = h[s \ {m}]
        BY <2>3
      <4> QED
        BY <3>1, <4>1, <4>2, <4>3
    <3>2. CASE m \notin s
      <4>1. s \in SUBSET (1 .. k) /\ g[s] = h[s]
        BY <2>3, <3>2
      <4>2. g[s \ {Max(s)}] = h[s \ {Max(s)}]
        <5>1. s \ {Max(s)} \in SUBSET (1 .. k)
          BY <4>1
        <5> QED
          BY <2>3, <5>1
      <4> HIDE DEF g
      <4> QED
        BY <2>1, <4>1, <4>2 DEF Adds
    <3> QED
      BY <3>1, <3>2
  <2> HIDE DEF g
  <2>6. Adds(g, m, lines)
    BY <2>4, <2>5 DEF Adds
  <2> QED
    BY <2>6
<1> HIDE DEF Good
<1>3. Bad = {}
  <2>1. SUFFICES ASSUME Bad # {} PROVE FALSE
    OBVIOUS
  <2>2. Bad \in SUBSET Nat
    OBVIOUS
  <2>3. Min(Bad) \in Bad /\ \A k \in Bad : Min(Bad) <= k
    BY <2>1, <2>2, MinIs
  <2> DEFINE least == Min(Bad)
  <2> HIDE DEF least
  <2>4. least \in 0 .. n /\ ~Good(least) /\ \A k \in 0 .. n : ~Good(k) => least <= k
    BY <2>3 DEF least
  <2>5. least # 0
    BY <1>1, <2>4
  <2>6. least - 1 \in 0 .. n - 1 /\ least - 1 \in 0 .. n /\ (least - 1) + 1 = least /\ ~(least <= least - 1)
    BY <2>4, <2>5
  <2>7. Good(least - 1)
    BY <2>4, <2>6
  <2>8. Good((least - 1) + 1)
    BY <1>2, <2>6, <2>7
  <2> QED
    BY <2>4, <2>6, <2>8
<1>4. Good(n)
  <2>1. n \in 0 .. n
    OBVIOUS
  <2> QED
    BY <1>3, <2>1
<1> QED
  BY <1>4 DEF Good

\* The sums of widths up to each line, and what the folds of RtspMessages are
\* with them.
Sums(g, lines) ==
    /\ g \in [0 .. Len(lines) -> Int] /\ g[0] = 0
    /\ \A i \in 1 .. Len(lines) : g[i] = g[i - 1] + lines[i].width

\* A fold of widths is their sum.
LEMMA FoldIsSum ==
    ASSUME NEW S, NEW lines \in Seq(S), NEW g, Sums(g, lines),
           \A i \in 1 .. Len(lines) : lines[i].width \in Int
    PROVE  FoldLeft(LAMBDA n, line : n + line.width, 0, lines) = g[Len(lines)]
<1> DEFINE n == Len(lines)
           D == 1 .. n
           Step(f) == [s \in SUBSET D |-> IF s = {} THEN 0 ELSE f[s \ {Max(s)}] + lines[Max(s)].width]
           iter == CHOOSE f : f = Step(f)
<1>1. n \in Nat /\ DOMAIN lines = D
  BY LenProperties
<1>2. FoldLeft(LAMBDA k, line : k + line.width, 0, lines) = iter[D]
  BY <1>1 DEF FoldLeft, MapThenFoldSet
<1> HIDE DEF n
<1>3. PICK h : h = Step(h)
  <2>1. \E h : Adds(h, n, lines)
    BY <1>1, SumsExist DEF n
  <2> QED
    BY <2>1 DEF Adds
<1>4. iter = Step(iter)
  BY <1>3
<1> HIDE DEF iter
<1> DEFINE Bad == {k \in 0 .. n : iter[1 .. k] # g[k]}
<1>5. ASSUME NEW k \in 0 .. n
      PROVE  iter[1 .. k] = IF k = 0 THEN 0 ELSE iter[1 .. k - 1] + lines[k].width
  <2>1. 1 .. k \in SUBSET D
    BY <1>1
  <2>2. iter[1 .. k] = IF 1 .. k = {} THEN 0
                       ELSE iter[(1 .. k) \ {Max(1 .. k)}] + lines[Max(1 .. k)].width
    <3> DEFINE s == 1 .. k
    <3> HIDE DEF s
    <3> QED
      BY <1>4, <2>1 DEF s
  <2>3. CASE k = 0
    <3>1. 1 .. k = {}
      BY <2>3
    <3> QED
      BY <2>2, <2>3, <3>1
  <2>4. CASE k # 0
    <3>1. k \in 1 .. k /\ 1 .. k \in SUBSET Nat /\ \A i \in 1 .. k : i <= k
      BY <1>1, <2>4
    <3>2. Max(1 .. k) = k
      BY <3>1, MaxIs
    <3>3. (1 .. k) \ {k} = 1 .. k - 1
      BY <1>1, <2>4
    <3> QED
      BY <2>2, <2>4, <3>1, <3>2, <3>3
  <2> QED
    BY <2>3, <2>4
<1>6. Bad = {}
  <2>1. SUFFICES ASSUME Bad # {} PROVE FALSE
    OBVIOUS
  <2>2. Bad \in SUBSET Nat
    BY <1>1
  <2> DEFINE least == Min(Bad)
  <2>3. least \in Bad /\ \A k \in Bad : least <= k
    BY <2>1, <2>2, MinIs
  <2> HIDE DEF least
  <2>4. least \in 0 .. n /\ iter[1 .. least] # g[least]
    BY <2>3
  <2>5. least # 0
    BY <1>5, <2>4 DEF Sums
  <2>6. least - 1 \in 0 .. n /\ least \in 1 .. n /\ ~(least <= least - 1)
    BY <1>1, <2>4, <2>5
  <2>7. iter[1 .. least - 1] = g[least - 1]
    BY <2>3, <2>6
  <2>8. g[least] = g[least - 1] + lines[least].width
    BY <2>6 DEF Sums, n
  <2> QED
    BY <1>5, <2>4, <2>5, <2>7, <2>8
<1>7. iter[1 .. n] = g[n]
  <2>1. n \in 0 .. n
    BY <1>1
  <2> QED
    BY <1>6, <2>1
<1> QED
  BY <1>2, <1>7 DEF n, iter

\* Every list of lines has such sums.
LEMMA LinesHaveSums ==
    ASSUME NEW S, NEW lines \in Seq(S), \A i \in 1 .. Len(lines) : lines[i].width \in Int
    PROVE  \E g : Sums(g, lines)
<1> DEFINE n == Len(lines)
<1>1. n \in Nat
  BY LenProperties
<1>2. PICK h : Adds(h, n, lines)
  BY <1>1, SumsExist
<1> DEFINE g == [k \in 0 .. n |-> h[1 .. k]]
<1> HIDE DEF n
<1>3. g \in [0 .. n -> Int]
  <2>1. \A k \in 0 .. n : 1 .. k \in SUBSET (1 .. n)
    BY <1>1
  <2> QED
    BY <1>2, <2>1 DEF Adds
<1>4. g[0] = 0
  <2>1. 1 .. 0 = {} /\ 0 \in 0 .. n /\ {} \in SUBSET (1 .. n)
    BY <1>1
  <2> QED
    BY <1>2, <2>1 DEF Adds
<1>5. ASSUME NEW i \in 1 .. n PROVE g[i] = g[i - 1] + lines[i].width
  <2>1. i \in 1 .. i /\ 1 .. i \in SUBSET Nat /\ \A j \in 1 .. i : j <= i
    BY <1>1
  <2>2. Max(1 .. i) = i
    BY <2>1, MaxIs
  <2>3. (1 .. i) \ {i} = 1 .. i - 1
    BY <1>1
  <2>4. 1 .. i \in SUBSET (1 .. n) /\ i \in 0 .. n /\ i - 1 \in 0 .. n
    BY <1>1
  <2>5. h[1 .. i] = h[(1 .. i) \ {Max(1 .. i)}] + lines[Max(1 .. i)].width
    <3> DEFINE s == 1 .. i
    <3>1. s # {}
      BY <2>1
    <3> HIDE DEF s
    <3> QED
      BY <1>2, <2>4, <3>1 DEF Adds, s
  <2> QED
    BY <2>2, <2>3, <2>4, <2>5
<1> HIDE DEF g
<1> QED
  BY <1>3, <1>4, <1>5 DEF Sums, n

\* Where each line starts.
LEMMA OffsetIsSum ==
    ASSUME NEW S, NEW lines \in Seq(S), NEW g, Sums(g, lines),
           \A i \in 1 .. Len(lines) : lines[i].width \in Int,
           NEW i \in 1 .. Len(lines) + 1
    PROVE  Offset(lines, i) = g[i - 1]
<1> DEFINE n == Len(lines)
           part == SubSeq(lines, 1, i - 1)
           k == i - 1
           f == [j \in 0 .. k |-> g[j]]
<1>1. n \in Nat /\ k \in 0 .. n /\ \A j \in 1 .. n : lines[j] \in S
  BY LenProperties, ElementOfSeq
<1>2. part \in Seq(S) /\ Len(part) = k /\ \A j \in 1 .. k : part[j] = lines[j]
  <2>1. /\ 1 \in Int /\ k \in Int /\ (1 <= k \/ k = 0) /\ k - 1 + 1 = k
        /\ \A j \in 1 .. k : lines[j] \in S /\ 1 + j - 1 = j
    BY <1>1
  <2> HIDE DEF k
  <2>2. /\ SubSeq(lines, 1, k) \in Seq(S)
        /\ Len(SubSeq(lines, 1, k)) = IF 1 <= k THEN k - 1 + 1 ELSE 0
        /\ \A j \in 1 .. k - 1 + 1 : SubSeq(lines, 1, k)[j] = lines[1 + j - 1]
    BY <2>1, SubSeqProperties
  <2> QED
    BY <2>1, <2>2 DEF k
<1> HIDE DEF part
<1>3. Sums(f, part)
  <2>1. f \in [0 .. k -> Int] /\ f[0] = 0
    BY <1>1 DEF Sums
  <2>2. ASSUME NEW j \in 1 .. k PROVE f[j] = f[j - 1] + part[j].width
    <3>1. j \in 1 .. n /\ j \in 0 .. k /\ j - 1 \in 0 .. k
      BY <1>1
    <3>2. f[j] = g[j] /\ f[j - 1] = g[j - 1]
      BY <3>1
    <3>3. g[j] = g[j - 1] + lines[j].width
      BY <3>1 DEF Sums
    <3> HIDE DEF f
    <3> QED
      BY <1>2, <3>2, <3>3
  <2> HIDE DEF f
  <2> QED
    BY <1>2, <2>1, <2>2 DEF Sums
<1>4. \A j \in 1 .. Len(part) : part[j].width \in Int
  BY <1>1, <1>2
<1>5. FoldLeft(LAMBDA m, line : m + line.width, 0, part) = f[Len(part)]
  <2> HIDE DEF f
  <2> QED
    BY <1>2, <1>3, <1>4, FoldIsSum
<1>6. f[Len(part)] = g[i - 1]
  BY <1>1, <1>2
<1> QED
  BY <1>5, <1>6 DEF Offset, part

\* The end of each line is where the next one starts, and no line ends after
\* the last.
LEMMA Ends ==
    ASSUME NEW S, NEW lines \in Seq(S), Len(lines) > 0,
           \A i \in 1 .. Len(lines) : lines[i].width \in Nat
    PROVE  /\ \A i \in 1 .. Len(lines) + 1 : Offset(lines, i) \in Int
           /\ Offset(lines, Len(lines)) + lines[Len(lines)].width = Offset(lines, Len(lines) + 1)
           /\ \A i \in 1 .. Len(lines) :
                 Offset(lines, i) + lines[i].width <= Offset(lines, Len(lines) + 1)
<1> DEFINE n == Len(lines)
<1>1. n \in Nat /\ n > 0
  BY LenProperties
<1>2. PICK g : Sums(g, lines)
  <2>1. \A i \in 1 .. Len(lines) : lines[i].width \in Int
    OBVIOUS
  <2> QED
    BY <2>1, LinesHaveSums
<1>3. \A i \in 1 .. n + 1 : Offset(lines, i) = g[i - 1]
  <2>1. \A i \in 1 .. Len(lines) : lines[i].width \in Int
    OBVIOUS
  <2> QED
    BY <1>2, <2>1, OffsetIsSum
<1> HIDE DEF n
<1>4. /\ g \in [0 .. n -> Int]
      /\ \A i \in 1 .. n : g[i] = g[i - 1] + lines[i].width /\ lines[i].width \in Nat
  BY <1>2 DEF Sums, n
<1>5. ASSUME NEW i \in 1 .. n + 1 PROVE Offset(lines, i) \in Int
  <2>1. i - 1 \in 0 .. n
    BY <1>1
  <2> QED
    BY <1>3, <1>4, <2>1
<1>6. ASSUME NEW i \in 1 .. n PROVE Offset(lines, i) + lines[i].width = g[i]
  <2>1. i \in 1 .. n + 1
    BY <1>1
  <2>2. Offset(lines, i) = g[i - 1]
    BY <1>3, <2>1
  <2> QED
    BY <1>4, <2>2
<1>7. \A i \in 0 .. n : g[i] <= g[n]
  <2> DEFINE Bad == {d \in 0 .. n : ~(g[n - d] <= g[n])}
             least == Min(Bad)
  <2>1. SUFFICES ASSUME Bad # {} PROVE FALSE
    <3>1. ASSUME Bad = {}, NEW i \in 0 .. n PROVE g[i] <= g[n]
      <4>1. n - i \in 0 .. n /\ n - (n - i) = i
        BY <1>1
      <4> QED
        BY <3>1, <4>1
    <3> QED
      BY <3>1
  <2>2. Bad \in SUBSET Nat
    BY <1>1
  <2>3. least \in Bad /\ \A d \in Bad : least <= d
    BY <2>1, <2>2, MinIs
  <2> HIDE DEF least
  <2>4. least \in 0 .. n /\ ~(g[n - least] <= g[n])
    BY <2>3
  <2>5. least # 0
    BY <1>1, <1>4, <2>4
  <2> DEFINE up == n - (least - 1)
  <2>6. /\ least - 1 \in 0 .. n /\ ~(least <= least - 1)
        /\ up \in 1 .. n /\ up - 1 = n - least /\ n - least \in 0 .. n /\ up \in 0 .. n
    BY <1>1, <2>4, <2>5
  <2>7. g[up] <= g[n]
    BY <2>3, <2>6
  <2> HIDE DEF up
  <2>8. g[up] = g[n - least] + lines[up].width /\ lines[up].width \in Nat
    BY <1>4, <2>6
  <2>9. g[up] \in Int /\ g[n - least] \in Int /\ g[n] \in Int
    BY <1>1, <1>4, <2>6
  <2> QED
    BY <2>4, <2>7, <2>8, <2>9
<1>8. Offset(lines, n + 1) = g[n] /\ n \in 1 .. n
  BY <1>1, <1>3
<1>9. ASSUME NEW i \in 1 .. n PROVE Offset(lines, i) + lines[i].width <= Offset(lines, n + 1)
  <2>1. i \in 0 .. n
    BY <1>1
  <2> QED
    BY <1>6, <1>7, <1>8, <2>1
<1>10. Offset(lines, n) + lines[n].width = Offset(lines, n + 1)
  BY <1>6, <1>8
<1> QED
  BY <1>5, <1>9, <1>10 DEF n

-----------------------------------------------------------------------------
(* Requests. *)

\* The texts a request may leave out.
Words(req) == {req.user_agent, req.accept, req.session, req.transport, req.authorization}

\* A request the component is given: one of its methods, texts with a length.
IsRequest(req) ==
    /\ req.method \in DOMAIN MethodWidth
    /\ Width(req.uri) \in Nat
    /\ \A word \in Words(req) : word = None \/ word[2] \in Nat

\* What a line of a request is called.
Names ==
    {"request", "CSeq", "User-Agent", "Accept", "Session", "Transport", "Range", "Authorization", "blank"}

\* What the lines of a request say.
Said(req) == {<<req.method, req.uri>>, req.cseq, "npt=0.000-", None} \cup Words(req)

\* A line a request may have.
LinesOf(req) == [name : Names, value : Said(req), width : Nat]

\* A line is such a line.
LEMMA LineTyped ==
    ASSUME NEW req, NEW name \in Names, NEW value \in Said(req), NEW width \in Nat
    PROVE  Line(name, value, width) \in LinesOf(req)
  BY DEF Line, LinesOf

\* A line that may be left out.
LEMMA OptionalTyped ==
    ASSUME NEW req, IsRequest(req), NEW name \in Names, NEW prefix \in Nat, NEW word \in Words(req)
    PROVE  Optional(name, word, prefix) \in Seq(LinesOf(req))
<1>1. CASE word = None
  BY <1>1 DEF Optional
<1>2. CASE word # None
  <2>1. prefix + word[2] \in Nat
    BY <1>2 DEF IsRequest
  <2> DEFINE line == Line(name, word, prefix + word[2])
  <2>2. line \in LinesOf(req)
    BY <2>1, LineTyped DEF Said
  <2> HIDE DEF line
  <2>3. <<line>> \in Seq(LinesOf(req))
    BY <2>2
  <2> QED
    BY <1>2, <2>3 DEF Optional, line
<1> QED
  BY <1>1, <1>2

\* A request has lines, and they are such lines.
LEMMA RequestTyped ==
    ASSUME NEW req, IsRequest(req)
    PROVE  /\ RequestLines(req) \in Seq(LinesOf(req))
           /\ Len(RequestLines(req)) > 0
<1> DEFINE S == LinesOf(req)
           first == Line("request", <<req.method, req.uri>>, MethodWidth[req.method] + Width(req.uri) + 12)
           number == Line("CSeq", req.cseq, IF req.cseq < 10 THEN 9 ELSE 10)
           blank == Line("blank", None, 2)
           range == Line("Range", "npt=0.000-", 19)
           p1 == << first, number >>
           p2 == Optional("User-Agent", req.user_agent, 14)
           p3 == Optional("Accept", req.accept, 10)
           p4 == Optional("Session", req.session, 11)
           p5 == Optional("Transport", req.transport, 13)
           p6 == IF req.method = "PLAY" THEN << range >> ELSE <<>>
           p7 == Optional("Authorization", req.authorization, 17)
           p8 == << blank >>
<1>1. first \in S /\ number \in S /\ blank \in S /\ range \in S
  <2>1. MethodWidth[req.method] + Width(req.uri) + 12 \in Nat
    <3>1. MethodWidth[req.method] \in Nat
      BY DEF IsRequest, MethodWidth
    <3> QED
      BY <3>1 DEF IsRequest
  <2>2. first \in S
    BY <2>1, LineTyped DEF Said, Names
  <2>3. number \in S
    BY LineTyped DEF Said, Names
  <2>4. blank \in S
    BY LineTyped DEF Said, Names
  <2>5. range \in S
    BY LineTyped DEF Said, Names
  <2> QED
    BY <2>2, <2>3, <2>4, <2>5
<1>2. p2 \in Seq(S) /\ p3 \in Seq(S) /\ p4 \in Seq(S) /\ p5 \in Seq(S) /\ p7 \in Seq(S)
  <2>1. p2 \in Seq(S)
    BY OptionalTyped DEF Words, Names
  <2>2. p3 \in Seq(S)
    BY OptionalTyped DEF Words, Names
  <2>3. p4 \in Seq(S)
    BY OptionalTyped DEF Words, Names
  <2>4. p5 \in Seq(S)
    BY OptionalTyped DEF Words, Names
  <2>5. p7 \in Seq(S)
    BY OptionalTyped DEF Words, Names
  <2> QED
    BY <2>1, <2>2, <2>3, <2>4, <2>5
<1> HIDE DEF first, number, blank, range
<1>3. p1 \in Seq(S) /\ Len(p1) = 2 /\ p6 \in Seq(S) /\ p8 \in Seq(S)
  BY <1>1
<1>4. RequestLines(req) = p1 \o p2 \o p3 \o p4 \o p5 \o p6 \o p7 \o p8
  BY DEF RequestLines, first, number, blank, range
<1> HIDE DEF S, p1, p2, p3, p4, p5, p6, p7, p8
<1>5. ASSUME NEW x \in Seq(S), NEW y \in Seq(S), Len(x) > 0
      PROVE  Joined(x, y) \in Seq(S) /\ Len(Joined(x, y)) > 0
  <2>1. Len(x) \in Nat /\ Len(y) \in Nat
    BY LenProperties
  <2>2. x \o y \in Seq(S) /\ Len(x \o y) = Len(x) + Len(y)
    BY ConcatProperties
  <2> QED
    BY <1>5, <2>1, <2>2 DEF Joined
<1>6. RequestLines(req) =
        Joined(Joined(Joined(Joined(Joined(Joined(Joined(p1, p2), p3), p4), p5), p6), p7), p8)
  BY <1>4, Zenon DEF Joined
<1> DEFINE q2 == Joined(p1, p2)
           q3 == Joined(q2, p3)
           q4 == Joined(q3, p4)
           q5 == Joined(q4, p5)
           q6 == Joined(q5, p6)
           q7 == Joined(q6, p7)
<1>7. p1 \in Seq(S) /\ Len(p1) > 0
  BY <1>3
<1>8. q2 \in Seq(S) /\ Len(q2) > 0
  BY <1>2, <1>5, <1>7
<1> HIDE DEF q2
<1>9. q3 \in Seq(S) /\ Len(q3) > 0
  BY <1>2, <1>5, <1>8
<1> HIDE DEF q3
<1>10. q4 \in Seq(S) /\ Len(q4) > 0
  BY <1>2, <1>5, <1>9
<1> HIDE DEF q4
<1>11. q5 \in Seq(S) /\ Len(q5) > 0
  BY <1>2, <1>5, <1>10
<1> HIDE DEF q5
<1>12. q6 \in Seq(S) /\ Len(q6) > 0
  BY <1>3, <1>5, <1>11
<1> HIDE DEF q6
<1>13. q7 \in Seq(S) /\ Len(q7) > 0
  BY <1>2, <1>5, <1>12
<1> HIDE DEF q7
<1>14. Joined(q7, p8) \in Seq(S) /\ Len(Joined(q7, p8)) > 0
  BY <1>3, <1>5, <1>13
<1>15. RequestLines(req) = Joined(q7, p8)
  BY <1>6, Zenon DEF q2, q3, q4, q5, q6, q7
<1> QED
  BY <1>14, <1>15 DEF S

\* The smaller of two numbers.
LEMMA MinOfTwo ==
    ASSUME NEW a \in Int, NEW b \in Int, a <= b
    PROVE  Min({a, b}) = a
<1>1. a \in {a, b} /\ \A n \in {a, b} : a <= n
  OBVIOUS
<1>2. \A y \in {a, b} : (\A n \in {a, b} : y <= n) => y = a
  OBVIOUS
<1> QED
  BY <1>1, <1>2 DEF Min

\* vsnprintf cuts nothing of lines that fit.
LEMMA NothingIsCut ==
    ASSUME NEW req, NEW lines \in Seq(LinesOf(req)), NEW room \in Nat,
           \A i \in 1 .. Len(lines) : /\ Offset(lines, i) \in Int
                                      /\ Fits(Offset(lines, i), lines[i].width, room)
    PROVE  Written(lines, room) = lines
<1>1. DOMAIN lines = 1 .. Len(lines) /\ \A i \in 1 .. Len(lines) : lines[i] \in LinesOf(req)
  BY LenProperties, ElementOfSeq
<1>2. ASSUME NEW i \in DOMAIN lines
      PROVE  [lines[i] EXCEPT !.width = Min({@, room - 1 - Offset(lines, i)})] = lines[i]
  <2> DEFINE line == lines[i]
             left == room - 1 - Offset(lines, i)
  <2>1. line \in LinesOf(req) /\ left \in Int
    BY <1>1
  <2>2. line.width \in Nat /\ line.width <= left
    BY <1>1, <2>1 DEF Fits, LinesOf
  <2> HIDE DEF line, left
  <2>3. Min({line.width, left}) = line.width
    BY <2>1, <2>2, MinOfTwo
  <2>4. [line EXCEPT !.width = Min({line.width, left})] = line
    BY <2>1, <2>3 DEF LinesOf
  <2> QED
    BY <2>4 DEF line, left
<1>3. lines = [i \in DOMAIN lines |-> lines[i]]
  BY <1>1
<1> QED
  BY <1>2, <1>3 DEF Written

\* A request is built whole, to its last line and each line to its last
\* character, exactly if it and the terminator fit into the buffer, and what is
\* returned is its length; otherwise it is refused.  That holds for requests of
\* any length, though each line is tested by itself, with the part of the
\* buffer that is left (rtsp_request.c:20-74).
THEOREM RequestIsWhole ==
    ASSUME NEW req, IsRequest(req), NEW room \in Nat
    PROVE  LET lines == RequestLines(req)
               length == Offset(lines, Len(lines) + 1)
           IN  RtspRequestBuild(req, room) =
                  IF length < room THEN [returned |-> length, lines |-> lines]
                  ELSE [returned |-> -1, lines |-> <<>>]
<1> DEFINE lines == RequestLines(req)
           n == Len(lines)
           length == Offset(lines, n + 1)
           fit == \A i \in DOMAIN lines : Fits(Offset(lines, i), lines[i].width, room)
<1>1. /\ lines \in Seq(LinesOf(req)) /\ n \in Nat /\ n > 0 /\ DOMAIN lines = 1 .. n
      /\ \A i \in 1 .. n : lines[i].width \in Nat
  <2>1. lines \in Seq(LinesOf(req)) /\ n > 0
    BY RequestTyped
  <2> HIDE DEF lines
  <2>2. \A i \in 1 .. n : lines[i] \in LinesOf(req)
    BY <2>1, ElementOfSeq
  <2> QED
    BY <2>1, <2>2, LenProperties DEF LinesOf
<1> HIDE DEF lines
<1>2. /\ \A i \in 1 .. n + 1 : Offset(lines, i) \in Int
      /\ Offset(lines, n) + lines[n].width = length
      /\ \A i \in 1 .. n : Offset(lines, i) + lines[i].width <= length
  BY <1>1, Ends
<1>3. length \in Int
  BY <1>1, <1>2
<1>4. fit <=> length < room
  <2>1. ASSUME fit PROVE length < room
    <3>1. n \in DOMAIN lines
      BY <1>1
    <3> QED
      BY <1>2, <2>1, <3>1 DEF Fits
  <2>2. ASSUME length < room, NEW i \in DOMAIN lines
        PROVE  Fits(Offset(lines, i), lines[i].width, room)
    <3>1. Offset(lines, i) \in Int /\ lines[i].width \in Nat /\ Offset(lines, i) + lines[i].width <= length
      BY <1>1, <1>2
    <3> HIDE DEF length
    <3> QED
      BY <1>3, <2>2, <3>1 DEF Fits
  <2> QED
    BY <2>1, <2>2
<1>5. fit => Written(lines, room) = lines
  BY <1>1, <1>2, NothingIsCut
<1>6. RtspRequestBuild(req, room) =
        IF fit THEN [returned |-> length, lines |-> Written(lines, room)]
        ELSE [returned |-> -1, lines |-> <<>>]
  BY DEF RtspRequestBuild, lines
<1> HIDE DEF fit, length
<1> QED
  BY <1>4, <1>5, <1>6 DEF lines, length

-----------------------------------------------------------------------------
(* Responses. *)

\* The first k cells of a stream, which is what has arrived of it.
Arrived(cells, k) == SubSeq(cells, 1, k)

\* They are a stream of their own.
LEMMA ArrivedIs ==
    ASSUME NEW T, NEW cells \in Seq(T), NEW k \in 0 .. Len(cells)
    PROVE  /\ Arrived(cells, k) \in Seq(T) /\ Len(Arrived(cells, k)) = k
           /\ \A i \in 1 .. k : Arrived(cells, k)[i] = cells[i]
<1>1. Len(cells) \in Nat /\ k \in Nat /\ k <= Len(cells) /\ \A i \in 1 .. k : cells[i] \in T
  BY LenProperties, ElementOfSeq
<1>2. /\ 1 \in Int /\ k \in Int /\ (1 <= k \/ k = 0) /\ k - 1 + 1 = k
      /\ \A j \in 1 .. k : cells[j] \in T /\ 1 + j - 1 = j
  BY <1>1
<1>3. /\ SubSeq(cells, 1, k) \in Seq(T)
      /\ Len(SubSeq(cells, 1, k)) = IF 1 <= k THEN k - 1 + 1 ELSE 0
      /\ \A j \in 1 .. k - 1 + 1 : SubSeq(cells, 1, k)[j] = cells[1 + j - 1]
  BY <1>2, SubSeqProperties
<1> QED
  BY <1>2, <1>3 DEF Arrived

\* What is within the front is read from it as from the whole.
LEMMA WithinFront ==
    ASSUME NEW T, NEW cells \in Seq(T), NEW k \in 0 .. Len(cells),
           NEW i \in Nat, NEW j \in Nat, 1 <= i, j <= k
    PROVE  SubSeq(Arrived(cells, k), i, j) = SubSeq(cells, i, j)
<1> DEFINE front == Arrived(cells, k)
<1>1. Len(cells) \in Nat /\ k \in Nat /\ k <= Len(cells) /\ \A n \in 1 .. k : cells[n] \in T
  BY LenProperties, ElementOfSeq
<1>2. front \in Seq(T) /\ Len(front) = k /\ \A n \in 1 .. k : front[n] = cells[n]
  BY ArrivedIs
<1> HIDE DEF front
<1>3. CASE j < i
  <2>1. i \in Int /\ j \in Int
    OBVIOUS
  <2>2. SubSeq(front, i, j) = <<>> /\ SubSeq(cells, i, j) = <<>>
    BY <1>3, <2>1, SubSeqEmpty
  <2> QED
    BY <2>2 DEF front
<1>4. CASE i <= j
  <2> DEFINE a == SubSeq(front, i, j)
             b == SubSeq(cells, i, j)
  <2>1. /\ i \in Int /\ j \in Int
        /\ \A n \in i .. j : n \in 1 .. k
        /\ \A n \in 1 .. j - i + 1 : i + n - 1 \in 1 .. k
    BY <1>1, <1>4
  <2>2. \A n \in i .. j : cells[n] \in T /\ front[n] \in T
    BY <1>1, <1>2, <2>1
  <2>3. /\ a \in Seq(T) /\ Len(a) = j - i + 1
        /\ \A n \in 1 .. j - i + 1 : a[n] = front[i + n - 1]
    BY <1>4, <2>1, <2>2, SubSeqProperties
  <2>4. /\ b \in Seq(T) /\ Len(b) = j - i + 1
        /\ \A n \in 1 .. j - i + 1 : b[n] = cells[i + n - 1]
    BY <1>4, <2>1, <2>2, SubSeqProperties
  <2> HIDE DEF a, b
  <2>5. Len(a) = Len(b) /\ \A n \in 1 .. Len(a) : a[n] = b[n]
    BY <1>2, <2>1, <2>3, <2>4
  <2>6. a = b
    BY <2>3, <2>4, <2>5, SeqEqual
  <2> QED
    BY <2>6 DEF a, b, front
<1> QED
  BY <1>1, <1>3, <1>4

\* The blank lines of the front are those of the whole that end in it.
LEMMA BlankLinesOfFront ==
    ASSUME NEW T, NEW cells \in Seq(T), NEW k \in 0 .. Len(cells)
    PROVE  /\ BlankLines(cells) \in SUBSET Nat
           /\ BlankLines(Arrived(cells, k)) = {i \in BlankLines(cells) : i + 3 <= k}
<1> DEFINE front == Arrived(cells, k)
           blank == <<Cr, Lf, Cr, Lf>>
<1>1. Len(cells) \in Nat /\ k \in Nat /\ k <= Len(cells) /\ Len(front) = k
  BY ArrivedIs, LenProperties
<1> DEFINE same(i, j) == SubSeq(front, i, j) = SubSeq(cells, i, j)
<1>2. ASSUME NEW i \in Nat, NEW j \in Nat, 1 <= i, j <= k PROVE same(i, j)
  BY <1>2, WithinFront
<1>3. /\ BlankLines(cells) = {i \in 1 .. Len(cells) - 3 : SubSeq(cells, i, i + 3) = blank}
      /\ BlankLines(front) = {i \in 1 .. Len(front) - 3 : SubSeq(front, i, i + 3) = blank}
  BY DEF BlankLines
<1> HIDE DEF same, front, blank
<1>4. BlankLines(cells) \in SUBSET Nat
  BY <1>1, <1>3
<1>5. ASSUME NEW i \in 1 .. k - 3 PROVE SubSeq(front, i, i + 3) = SubSeq(cells, i, i + 3)
  <2>1. i \in Nat /\ i + 3 \in Nat /\ 1 <= i /\ i + 3 <= k
    BY <1>1
  <2>2. same(i, i + 3)
    BY <1>2, <2>1
  <2> QED
    BY <2>2 DEF same
<1>6. ASSUME NEW i PROVE i \in BlankLines(front) <=> i \in BlankLines(cells) /\ i + 3 <= k
  <2>1. i \in 1 .. k - 3 <=> i \in 1 .. Len(cells) - 3 /\ i + 3 <= k
    BY <1>1
  <2>2. i \in BlankLines(front) <=> i \in 1 .. k - 3 /\ SubSeq(front, i, i + 3) = blank
    BY <1>1, <1>3
  <2>3. i \in BlankLines(cells) <=> i \in 1 .. Len(cells) - 3 /\ SubSeq(cells, i, i + 3) = blank
    BY <1>3
  <2> QED
    BY <1>5, <2>1, <2>2, <2>3
<1> QED
  BY <1>4, <1>6 DEF front

\* The header read of a front that has it all is that read of the whole.
LEMMA HeaderOfFront ==
    ASSUME NEW T, NEW cells \in Seq(T), BlankLines(cells) # {},
           NEW k \in 0 .. Len(cells), HeaderEnd(cells) + 3 <= k
    PROVE  LET front == Arrived(cells, k)  end == HeaderEnd(cells) IN
           /\ end \in Nat /\ end >= 1
           /\ BlankLines(front) # {} /\ HeaderEnd(front) = end
           /\ HasStatusLine(front, end) <=> HasStatusLine(cells, end)
           /\ HasStatusLine(cells, end) => ReadHeaders(front, end) = ReadHeaders(cells, end)
<1> DEFINE front == Arrived(cells, k)
           end == HeaderEnd(cells)
<1>1. Len(cells) \in Nat /\ k \in Nat /\ k <= Len(cells)
  BY LenProperties
<1>2. BlankLines(cells) \in SUBSET Nat /\ BlankLines(front) = {i \in BlankLines(cells) : i + 3 <= k}
  BY BlankLinesOfFront
<1>3. end \in BlankLines(cells) /\ \A i \in BlankLines(cells) : end <= i
  BY <1>2, MinIs DEF HeaderEnd
<1> DEFINE same(i, j) == SubSeq(front, i, j) = SubSeq(cells, i, j)
<1>4. ASSUME NEW i \in Nat, NEW j \in Nat, 1 <= i, j <= k PROVE same(i, j)
  BY <1>4, WithinFront
<1>5. \A i \in 1 .. k : front[i] = cells[i]
  <2> HIDE DEF same, end
  <2> QED
    BY ArrivedIs
<1>6. end \in Nat /\ end >= 1
  BY <1>3 DEF BlankLines
<1> HIDE DEF same, front, end
<1>7. end \in BlankLines(front) /\ \A i \in BlankLines(front) : end <= i
  BY <1>2, <1>3 DEF end
<1>8. HeaderEnd(front) = end
  <2>1. BlankLines(front) \in SUBSET Nat /\ BlankLines(front) # {}
    BY <1>2, <1>7
  <2>2. Min(BlankLines(front)) \in BlankLines(front) /\ \A i \in BlankLines(front) : Min(BlankLines(front)) <= i
    BY <2>1, MinIs
  <2> DEFINE first == Min(BlankLines(front))
  <2> HIDE DEF first
  <2>3. first \in Nat /\ first <= end /\ end <= first
    BY <1>7, <2>1, <2>2 DEF first
  <2>4. first = end
    BY <1>6, <2>3
  <2> QED
    BY <2>4 DEF HeaderEnd, first
<1>9. end + 3 <= k
  BY DEF end
<1>10. front[1] = cells[1] /\ SubSeq(front, 2, 3) = SubSeq(cells, 2, 3)
  <2>1. 1 \in 1 .. k /\ 2 \in Nat /\ 3 \in Nat /\ 1 <= 2 /\ 3 <= k
    BY <1>1, <1>6, <1>9
  <2>2. same(2, 3)
    BY <1>4, <2>1
  <2> QED
    BY <1>5, <2>1, <2>2 DEF same
<1>11. HasStatusLine(front, end) <=> HasStatusLine(cells, end)
  BY <1>10 DEF HasStatusLine
<1>12. ReadHeaders(front, end) = ReadHeaders(cells, end)
  <2>1. 4 \in Nat /\ end - 1 \in Nat /\ 1 <= 4 /\ end - 1 <= k
    BY <1>1, <1>6, <1>9
  <2>2. same(4, end - 1)
    BY <1>4, <2>1
  <2> QED
    BY <1>10, <2>2 DEF ReadHeaders, same
<1> QED
  BY <1>6, <1>7, <1>8, <1>11, <1>12 DEF front, end

\* Where the parser finds the end of a response: after the blank line and a
\* body of the announced length.
WholeAt(cells) == HeaderEnd(cells) + 3 + ReadHeaders(cells, HeaderEnd(cells)).length

\* A response of a stream is cut out at its own end, wherever the stream is cut:
\* of a front of the stream that ends before, nothing is read, and of every
\* front that ends there or after, with all that follows, exactly the same
\* response.  (The length is a size_t, rtsp_response.h; the cutting is that of
\* rtsp_response.c:109-174.)
THEOREM ResponseIsFramed ==
    ASSUME NEW T, NEW cells \in Seq(T), RtspResponseParse(cells).parsed,
           ReadHeaders(cells, HeaderEnd(cells)).length \in Nat
    PROVE  /\ WholeAt(cells) \in 0 .. Len(cells)
           /\ \A k \in 0 .. WholeAt(cells) - 1 : ~RtspResponseParse(Arrived(cells, k)).parsed
           /\ \A k \in WholeAt(cells) .. Len(cells) :
                 RtspResponseParse(Arrived(cells, k)) = RtspResponseParse(cells)
<1> DEFINE end == HeaderEnd(cells)
           out == ReadHeaders(cells, end)
           length == out.length
           whole == WholeAt(cells)
           reading(c) == [out EXCEPT !.parsed = TRUE, !.body = SubSeq(c, end + 4, end + 3 + length)]
           Good(c) == BlankLines(c) # {} /\ HasStatusLine(c, HeaderEnd(c))
<1>1. Len(cells) \in Nat
  BY LenProperties
<1>2. ~NoResponse.parsed
  BY DEF NoResponse
<1>3. Good(cells) /\ Whole(out, Len(cells) - (end + 3))
  <2>1. CASE ~Good(cells)
    BY <1>2, <2>1 DEF RtspResponseParse
  <2>2. CASE Good(cells) /\ ~Whole(out, Len(cells) - (end + 3))
    BY <1>2, <2>2 DEF RtspResponseParse
  <2> QED
    BY <2>1, <2>2
<1>4. end \in Nat /\ end >= 1 /\ length \in Nat /\ whole = end + 3 + length
  <2>1. BlankLines(cells) \in SUBSET Nat /\ BlankLines(cells) # {} /\ \A i \in BlankLines(cells) : i >= 1
    BY <1>3 DEF BlankLines
  <2>2. end \in BlankLines(cells)
    BY <2>1, MinIs DEF HeaderEnd
  <2> QED
    BY <2>1, <2>2 DEF WholeAt
<1>5. RtspResponseParse(cells) = reading(cells)
  BY <1>3 DEF RtspResponseParse
<1> HIDE DEF end, whole, reading, Good
<1>6. whole \in 0 .. Len(cells)
  <2>1. Len(cells) - (end + 3) >= length
    BY <1>3 DEF Whole
  <2> QED
    BY <1>1, <1>4, <2>1
<1>7. ASSUME NEW k \in 0 .. Len(cells), end + 3 <= k
      PROVE  LET front == Arrived(cells, k) IN
             /\ Len(front) = k /\ Good(front)
             /\ HeaderEnd(front) = end /\ ReadHeaders(front, end) = out
  <2>1. Len(Arrived(cells, k)) = k
    BY ArrivedIs
  <2> QED
    BY <1>3, <1>7, <2>1, HeaderOfFront DEF Good, end
<1>8. ASSUME NEW k \in 0 .. whole - 1
      PROVE  ~RtspResponseParse(Arrived(cells, k)).parsed
  <2> DEFINE front == Arrived(cells, k)
  <2>1. k \in 0 .. Len(cells) /\ k < whole
    BY <1>1, <1>6
  <2>2. CASE k < end + 3
    <3>1. BlankLines(front) = {i \in BlankLines(cells) : i + 3 <= k}
      BY <2>1, BlankLinesOfFront
    <3>2. \A i \in BlankLines(cells) : i \in Nat /\ end <= i
      <4>1. BlankLines(cells) \in SUBSET Nat /\ BlankLines(cells) # {}
        BY <1>3 DEF Good, BlankLines
      <4> QED
        BY <4>1, MinIs DEF HeaderEnd, end
    <3>3. BlankLines(front) = {}
      BY <1>4, <2>1, <2>2, <3>1, <3>2
    <3> QED
      BY <1>2, <3>3 DEF RtspResponseParse
  <2>3. CASE end + 3 <= k
    <3>1. Len(front) = k /\ Good(front) /\ HeaderEnd(front) = end /\ ReadHeaders(front, end) = out
      BY <1>7, <2>1, <2>3
    <3>2. ~Whole(out, k - (end + 3))
      BY <1>4, <2>1 DEF Whole
    <3> HIDE DEF front, out
    <3>3. RtspResponseParse(front) = NoResponse
      BY <3>1, <3>2 DEF RtspResponseParse, Good
    <3> QED
      BY <1>2, <3>3 DEF front
  <2> QED
    BY <1>4, <2>1, <2>2, <2>3
<1>9. ASSUME NEW k \in whole .. Len(cells)
      PROVE  RtspResponseParse(Arrived(cells, k)) = RtspResponseParse(cells)
  <2> DEFINE front == Arrived(cells, k)
             from == end + 4
             to == end + 3 + length
  <2>1. /\ k \in 0 .. Len(cells) /\ end + 3 <= k /\ k - (end + 3) >= length
        /\ from \in Nat /\ to \in Nat /\ 1 <= from /\ to <= k
    BY <1>1, <1>4, <1>6
  <2>2. Len(front) = k /\ Good(front) /\ HeaderEnd(front) = end /\ ReadHeaders(front, end) = out
    BY <1>7, <2>1
  <2>3. Whole(out, Len(front) - (end + 3))
    BY <2>1, <2>2 DEF Whole
  <2> HIDE DEF from, to
  <2>4. SubSeq(front, from, to) = SubSeq(cells, from, to)
    BY <2>1, WithinFront
  <2>5. reading(front) = reading(cells)
    BY <2>4 DEF reading, from, to
  <2> HIDE DEF front, out
  <2>6. RtspResponseParse(front) = reading(front)
    BY <2>2, <2>3 DEF RtspResponseParse, Good, reading
  <2> QED
    BY <1>5, <2>5, <2>6 DEF front
<1> QED
  BY <1>6, <1>8, <1>9 DEF whole

=============================================================================
