---------------------------- MODULE ConfigHostProofs ----------------------------
(***************************************************************************)
(* Proofs about the host build of the configuration store, for any keys and *)
(* any data: the list has one entry for a key, and whoever uses it through  *)
(* config.h sees the map of module Settings.                                *)
(*                                                                          *)
(* The value of a key is first read off a list that has one entry for it    *)
(* (ValueIs); then each operation's effect on the list is stated as its     *)
(* effect on the values (PutEffect, RemoveEffect), and so on the map.       *)
(***************************************************************************)
EXTENDS ConfigHost, SequenceTheorems, TLAPS

\* No key has two entries.
OneEach(es) == \A i, j \in DOMAIN es : es[i].key = es[j].key => i = j

\* The length kept with a blob is its length; that of a blob that could not be
\* copied is none.
LengthsRight(es) ==
    \A i \in DOMAIN es :
        es[i].type = "blob" => es[i].len = IF es[i].blob = Null THEN 0 ELSE es[i].blob

\* The lists the store can have.
Lists == {es \in Seq(Entries) : OneEach(es) /\ LengthsRight(es)}

\* The inductive invariant: the types do not say that the len of a blob, from
\* which cfg_get_blob copies, is the length of what was stored.
IInv == TypeOK /\ LengthsRight(entries)

\* The value in an entry.
EntryValue(e) ==
    IF e.type = "u32" THEN [type |-> "u32", data |-> e.u32]
    ELSE IF e.type = "str" /\ e.str # Null THEN [type |-> "str", data |-> e.str]
    ELSE IF e.type = "blob" /\ e.blob # Null THEN [type |-> "blob", data |-> e.blob]
    ELSE Spoilt

\* A key has an entry.
Has(es, k) == \E i \in DOMAIN es : es[i].key = k

\* The entry of a key that has one.
Of(es, k) == es[CHOOSE i \in DOMAIN es : es[i].key = k]

\* The value a list has for a key.
ValueIn(es, k) == IF Has(es, k) THEN EntryValue(Of(es, k)) ELSE Nothing

-----------------------------------------------------------------------------
(* Lists. *)

\* What a list is made of.
LEMMA ListFacts ==
    ASSUME NEW es \in Lists
    PROVE  /\ es \in Seq(Entries) /\ Len(es) \in Nat /\ DOMAIN es = 1 .. Len(es)
           /\ OneEach(es) /\ LengthsRight(es)
           /\ \A i \in 1 .. Len(es) : es[i] \in Entries
  BY LenProperties, ElementOfSeq DEF Lists

\* The search finds the one entry of the key, if there is one.
LEMMA FindsIt ==
    ASSUME NEW es \in Lists, NEW k
    PROVE  /\ \A i \in DOMAIN es : es[i].key = k => /\ FindEntry(es, k) = {i}
                                                   /\ Of(es, k) = es[i]
           /\ ~Has(es, k) => FindEntry(es, k) = {}
<1>1. DOMAIN es = 1 .. Len(es) /\ Len(es) \in Nat /\ OneEach(es)
  BY ListFacts
<1>2. ASSUME NEW i \in DOMAIN es, es[i].key = k
      PROVE  FindEntry(es, k) = {i} /\ Of(es, k) = es[i]
  <2>1. \A j \in DOMAIN es : es[j].key = k => j = i
    BY <1>1, <1>2 DEF OneEach
  <2>2. \A j \in 1 .. i - 1 : es[j].key # k
    BY <1>1, <2>1
  <2>3. FindEntry(es, k) = {i}
    BY <1>2, <2>1, <2>2 DEF FindEntry
  <2>4. (CHOOSE j \in DOMAIN es : es[j].key = k) = i
    BY <1>2, <2>1
  <2> QED
    BY <2>3, <2>4 DEF Of
<1>3. ~Has(es, k) => FindEntry(es, k) = {}
  BY DEF Has, FindEntry
<1> QED
  BY <1>2, <1>3

\* What the operations read of the list.
LEMMA Reads ==
    ASSUME entries \in Lists, NEW k \in Keys
    PROVE  /\ Known(k) <=> Has(entries, k)
           /\ Has(entries, k) => /\ Entry(k) = Of(entries, k)
                                 /\ Of(entries, k) \in Entries /\ Of(entries, k).key = k
                                 /\ Of(entries, k).type = "blob" =>
                                       Of(entries, k).len = IF Of(entries, k).blob = Null THEN 0
                                                            ELSE Of(entries, k).blob
           /\ \A type : Holds(k, type) <=> Has(entries, k) /\ Of(entries, k).type = type
<1>1. CASE Has(entries, k)
  <2>1. PICK i \in DOMAIN entries : entries[i].key = k
    BY <1>1 DEF Has
  <2>2. FindEntry(entries, k) = {i} /\ Of(entries, k) = entries[i]
    BY <2>1, FindsIt
  <2>3. Known(k) /\ Entry(k) = entries[i]
    BY <2>2 DEF Known, Entry
  <2>4. \A type : Holds(k, type) <=> entries[i].type = type
    BY <2>2 DEF Holds
  <2>5. entries[i] \in Entries /\ LengthsRight(entries)
    BY <2>1, ListFacts
  <2> QED
    BY <1>1, <2>1, <2>2, <2>3, <2>4, <2>5 DEF LengthsRight
<1>2. CASE ~Has(entries, k)
  <2>1. FindEntry(entries, k) = {}
    BY <1>2, FindsIt
  <2> QED
    BY <1>2, <2>1 DEF Known, Holds
<1> QED
  BY <1>1, <1>2

\* The value of a key is that of its entry.
LEMMA ValueIs ==
    ASSUME entries \in Lists, NEW k \in Keys
    PROVE  ValueOf(k) = ValueIn(entries, k)
<1>1. CASE ~Has(entries, k)
  <2>1. ~Known(k)
    BY <1>1, Reads
  <2> QED
    BY <1>1, <2>1, Reads DEF ValueOf, ValueIn
<1>2. CASE Has(entries, k)
  <2> DEFINE e == Of(entries, k)
  <2>1. /\ Known(k) /\ Entry(k) = e /\ e \in Entries
        /\ \A type : Holds(k, type) <=> e.type = type
    BY <1>2, Reads
  <2> HIDE DEF e
  <2>2. ValueOf(k) = EntryValue(e)
    <3>1. e.type \in {"str", "u32", "blob"}
      BY <2>1 DEF Entries
    <3>2. CASE e.type = "u32"
      BY <2>1, <3>2 DEF ValueOf, EntryValue
    <3>3. CASE e.type = "str"
      BY <2>1, <3>3 DEF ValueOf, EntryValue
    <3>4. CASE e.type = "blob"
      BY <2>1, <3>4 DEF ValueOf, EntryValue
    <3> QED
      BY <3>1, <3>2, <3>3, <3>4
  <2> QED
    BY <1>2, <2>2 DEF ValueIn, e
<1> QED
  BY <1>1, <1>2

-----------------------------------------------------------------------------
(* What happens to lists. *)

\* The value of the key of an entry is that of the entry.
LEMMA ValueAt ==
    ASSUME NEW es \in Lists, NEW i \in DOMAIN es
    PROVE  ValueIn(es, es[i].key) = EntryValue(es[i])
  BY FindsIt DEF ValueIn, Has

\* Put for any list.
PutIn(es, k, e) ==
    IF Has(es, k) THEN [i \in DOMAIN es |-> IF i \in FindEntry(es, k) THEN e ELSE es[i]]
    ELSE <<e>> \o es

\* An entry in front of the others.
LEMMA InFront ==
    ASSUME NEW es \in Seq(Entries), NEW e \in Entries
    PROVE  /\ <<e>> \o es \in Seq(Entries) /\ Len(<<e>> \o es) = Len(es) + 1
           /\ (<<e>> \o es)[1] = e
           /\ \A i \in 1 .. Len(es) : (<<e>> \o es)[i + 1] = es[i]
           /\ \A i \in 1 .. Len(es) + 1 : i # 1 => /\ i - 1 \in 1 .. Len(es)
                                                 /\ (<<e>> \o es)[i] = es[i - 1]
<1> DEFINE one == <<e>>
           new == one \o es
<1>1. one \in Seq(Entries) /\ Len(one) = 1 /\ one[1] = e /\ Len(es) \in Nat
  BY LenProperties
<1> HIDE DEF one
<1>2. /\ new \in Seq(Entries) /\ Len(new) = Len(one) + Len(es)
      /\ \A i \in 1 .. Len(one) + Len(es) :
            new[i] = IF i <= Len(one) THEN one[i] ELSE es[i - Len(one)]
  BY <1>1, ConcatProperties
<1> HIDE DEF new
<1>3. /\ Len(new) = Len(es) + 1
      /\ \A i \in 1 .. Len(es) + 1 : new[i] = IF i <= 1 THEN one[i] ELSE es[i - 1]
  BY <1>1, <1>2
<1>4. new[1] = e
  BY <1>1, <1>3
<1>5. ASSUME NEW i \in 1 .. Len(es) + 1, i # 1
      PROVE  i - 1 \in 1 .. Len(es) /\ new[i] = es[i - 1]
  BY <1>1, <1>3, <1>5
<1>6. ASSUME NEW i \in 1 .. Len(es) PROVE new[i + 1] = es[i]
  <2>1. i + 1 \in 1 .. Len(es) + 1 /\ i + 1 # 1 /\ i + 1 - 1 = i
    BY <1>1
  <2> QED
    BY <1>5, <2>1
<1> QED
  BY <1>2, <1>3, <1>4, <1>5, <1>6 DEF one, new

\* Put gives the key the new value and the other keys the values they had.
LEMMA PutEffect ==
    ASSUME NEW es \in Lists, NEW k \in Keys, NEW e \in Entries, e.key = k,
           e.type = "blob" => e.len = IF e.blob = Null THEN 0 ELSE e.blob
    PROVE  LET new == PutIn(es, k, e) IN
           /\ new \in Lists
           /\ ValueIn(new, k) = EntryValue(e)
           /\ \A j \in Keys : j # k => ValueIn(new, j) = ValueIn(es, j)
<1> DEFINE new == PutIn(es, k, e)
<1>0. /\ es \in Seq(Entries) /\ Len(es) \in Nat /\ DOMAIN es = 1 .. Len(es)
      /\ OneEach(es) /\ LengthsRight(es)
      /\ \A i \in 1 .. Len(es) : es[i] \in Entries
  BY ListFacts
<1>1. ASSUME Has(es, k)
      PROVE  /\ new \in Lists
             /\ ValueIn(new, k) = EntryValue(e)
             /\ \A j \in Keys : j # k => ValueIn(new, j) = ValueIn(es, j)
  <2>1. PICK at \in DOMAIN es : es[at].key = k
    BY <1>1 DEF Has
  <2>2. FindEntry(es, k) = {at}
    BY <2>1, FindsIt
  <2>3. new = [i \in DOMAIN es |-> IF i = at THEN e ELSE es[i]]
    BY <1>1, <2>2 DEF PutIn
  <2> HIDE DEF new
  <2>4. new \in Seq(Entries) /\ DOMAIN new = DOMAIN es
    BY <1>0, <2>3
  <2>5. \A i \in DOMAIN es : new[i].key = es[i].key
    BY <2>1, <2>3
  <2>6. OneEach(new)
    BY <1>0, <2>4, <2>5 DEF OneEach
  <2>7. LengthsRight(new)
    BY <1>0, <2>3, <2>4 DEF LengthsRight
  <2>8. new \in Lists
    BY <2>4, <2>6, <2>7 DEF Lists
  <2>9. ValueIn(new, k) = EntryValue(e)
    <3>1. new[at] = e /\ at \in DOMAIN new
      BY <2>1, <2>3, <2>4
    <3> QED
      BY <2>8, <3>1, ValueAt
  <2>10. ASSUME NEW j \in Keys, j # k PROVE ValueIn(new, j) = ValueIn(es, j)
    <3>1. CASE ~Has(es, j)
      BY <2>4, <2>5, <3>1 DEF Has, ValueIn
    <3>2. CASE Has(es, j)
      <4>1. PICK i \in DOMAIN es : es[i].key = j
        BY <3>2 DEF Has
      <4>2. i # at /\ new[i] = es[i] /\ i \in DOMAIN new
        BY <2>1, <2>3, <2>4, <2>10, <4>1
      <4>3. ValueIn(es, j) = EntryValue(es[i])
        BY <4>1, ValueAt
      <4>4. ValueIn(new, j) = EntryValue(new[i])
        BY <2>8, <4>1, <4>2, ValueAt
      <4> QED
        BY <4>2, <4>3, <4>4
    <3> QED
      BY <3>1, <3>2
  <2> QED
    BY <2>8, <2>9, <2>10
<1>2. ASSUME ~Has(es, k)
      PROVE  /\ new \in Lists
             /\ ValueIn(new, k) = EntryValue(e)
             /\ \A j \in Keys : j # k => ValueIn(new, j) = ValueIn(es, j)
  <2>1. new = <<e>> \o es
    BY <1>2 DEF PutIn
  <2>2. /\ new \in Seq(Entries) /\ Len(new) = Len(es) + 1
        /\ new[1] = e
        /\ \A i \in 1 .. Len(es) : new[i + 1] = es[i]
        /\ \A i \in 1 .. Len(es) + 1 : i # 1 => i - 1 \in 1 .. Len(es) /\ new[i] = es[i - 1]
    BY <1>0, <2>1, InFront
  <2> HIDE DEF new
  <2>3. DOMAIN new = 1 .. Len(es) + 1
    BY <2>2, LenProperties
  <2>4. \A i \in 1 .. Len(es) : es[i].key # k
    BY <1>0, <1>2 DEF Has
  <2>5. OneEach(new)
    <3>1. SUFFICES ASSUME NEW i \in DOMAIN new, NEW j \in DOMAIN new, new[i].key = new[j].key
                   PROVE  i = j
      BY DEF OneEach
    <3>2. CASE i = 1 \/ j = 1
      BY <2>2, <2>3, <2>4, <3>1, <3>2
    <3>3. CASE i # 1 /\ j # 1
      <4>1. /\ i - 1 \in 1 .. Len(es) /\ j - 1 \in 1 .. Len(es)
            /\ es[i - 1].key = es[j - 1].key
        BY <2>2, <2>3, <3>1, <3>3
      <4>2. i - 1 = j - 1
        BY <1>0, <4>1 DEF OneEach
      <4> QED
        BY <1>0, <2>3, <4>2
    <3> QED
      BY <3>2, <3>3
  <2>6. LengthsRight(new)
    <3>1. SUFFICES ASSUME NEW i \in DOMAIN new, new[i].type = "blob"
                   PROVE  new[i].len = IF new[i].blob = Null THEN 0 ELSE new[i].blob
      BY DEF LengthsRight
    <3>2. CASE i = 1
      BY <2>2, <3>1, <3>2
    <3>3. CASE i # 1
      BY <1>0, <2>2, <2>3, <3>1, <3>3 DEF LengthsRight
    <3> QED
      BY <3>2, <3>3
  <2>7. new \in Lists
    BY <2>2, <2>5, <2>6 DEF Lists
  <2>8. ValueIn(new, k) = EntryValue(e)
    <3>1. 1 \in DOMAIN new
      BY <1>0, <2>3
    <3> QED
      BY <2>2, <2>7, <3>1, ValueAt
  <2>9. ASSUME NEW j \in Keys, j # k PROVE ValueIn(new, j) = ValueIn(es, j)
    <3>1. CASE Has(es, j)
      <4>1. PICK i \in DOMAIN es : es[i].key = j
        BY <3>1 DEF Has
      <4>2. i + 1 \in DOMAIN new /\ new[i + 1] = es[i]
        BY <1>0, <2>2, <2>3
      <4>3. ValueIn(es, j) = EntryValue(es[i])
        BY <4>1, ValueAt
      <4>4. ValueIn(new, j) = EntryValue(new[i + 1])
        BY <2>7, <4>1, <4>2, ValueAt
      <4> QED
        BY <4>2, <4>3, <4>4
    <3>2. CASE ~Has(es, j)
      <4>1. \A i \in DOMAIN new : new[i].key # j
        <5>1. SUFFICES ASSUME NEW i \in DOMAIN new PROVE new[i].key # j
          OBVIOUS
        <5>2. CASE i = 1
          BY <2>2, <2>9, <5>2
        <5>3. CASE i # 1
          BY <1>0, <2>2, <2>3, <3>2, <5>3 DEF Has
        <5> QED
          BY <5>2, <5>3
      <4> QED
        BY <3>2, <4>1 DEF Has, ValueIn
    <3> QED
      BY <3>1, <3>2
  <2> QED
    BY <2>7, <2>8, <2>9
<1> QED
  BY <1>1, <1>2

\* A list without one of its entries.
LEMMA RemoveAtFacts ==
    ASSUME NEW es \in Seq(Entries), NEW at \in DOMAIN es
    PROVE  /\ RemoveAt(es, at) \in Seq(Entries) /\ Len(RemoveAt(es, at)) = Len(es) - 1
           /\ \A i \in 1 .. Len(es) - 1 :
                 RemoveAt(es, at)[i] = IF i < at THEN es[i] ELSE es[i + 1]
<1> DEFINE n == Len(es)
           left == SubSeq(es, 1, at - 1)
           right == SubSeq(es, at + 1, n)
<1>1. n \in Nat /\ DOMAIN es = 1 .. n /\ at \in Nat /\ 1 <= at /\ at <= n
  BY LenProperties
<1>2. \A i \in 1 .. n : es[i] \in Entries
  BY <1>1, ElementOfSeq
<1> HIDE DEF n
<1>3. /\ left \in Seq(Entries) /\ Len(left) = at - 1
      /\ \A i \in 1 .. at - 1 : left[i] = es[i]
  <2>1. at - 1 \in Int /\ 1 \in Int /\ at - 1 - 1 + 1 = at - 1 /\ (1 <= at - 1 \/ at - 1 = 0)
    BY <1>1
  <2>2. \A i \in 1 .. at - 1 : es[i] \in Entries
    BY <1>1, <1>2
  <2>3. /\ left \in Seq(Entries)
        /\ Len(left) = IF 1 <= at - 1 THEN at - 1 - 1 + 1 ELSE 0
        /\ \A i \in 1 .. at - 1 - 1 + 1 : left[i] = es[1 + i - 1]
    BY <2>1, <2>2, SubSeqProperties
  <2>4. \A i \in 1 .. at - 1 : 1 + i - 1 = i
    OBVIOUS
  <2>5. \A i \in 1 .. at - 1 : left[i] = es[i]
    BY <2>1, <2>3, <2>4
  <2> QED
    BY <2>1, <2>3, <2>5
<1>4. /\ right \in Seq(Entries) /\ Len(right) = n - at
      /\ \A i \in 1 .. n - at : right[i] = es[at + i]
  <2>1. at + 1 \in Int /\ n \in Int /\ n - (at + 1) + 1 = n - at
        /\ (at + 1 <= n \/ n - at = 0)
    BY <1>1
  <2>2. \A i \in at + 1 .. n : es[i] \in Entries
    BY <1>1, <1>2
  <2>3. /\ right \in Seq(Entries)
        /\ Len(right) = IF at + 1 <= n THEN n - (at + 1) + 1 ELSE 0
        /\ \A i \in 1 .. n - (at + 1) + 1 : right[i] = es[at + 1 + i - 1]
    BY <2>1, <2>2, SubSeqProperties
  <2>4. \A i \in 1 .. n - at : at + 1 + i - 1 = at + i
    BY <1>1
  <2>5. \A i \in 1 .. n - at : right[i] = es[at + i]
    BY <2>1, <2>3, <2>4
  <2>6. Len(right) = n - at
    BY <2>1, <2>3, <1>1
  <2> QED
    BY <2>3, <2>5, <2>6
<1> DEFINE new == left \o right
<1>5. RemoveAt(es, at) = new
  BY DEF RemoveAt, n
<1> HIDE DEF left, right
<1>6. /\ new \in Seq(Entries) /\ Len(new) = Len(left) + Len(right)
      /\ \A i \in 1 .. Len(left) + Len(right) :
            new[i] = IF i <= Len(left) THEN left[i] ELSE right[i - Len(left)]
  BY <1>3, <1>4, ConcatProperties
<1> HIDE DEF new
<1>7. Len(left) + Len(right) = n - 1
  BY <1>1, <1>3, <1>4
<1>8. ASSUME NEW i \in 1 .. n - 1 PROVE new[i] = IF i < at THEN es[i] ELSE es[i + 1]
  <2>1. new[i] = IF i <= at - 1 THEN left[i] ELSE right[i - (at - 1)]
    BY <1>3, <1>6, <1>7
  <2>2. CASE i < at
    <3>1. i \in 1 .. at - 1 /\ i <= at - 1
      BY <1>1, <2>2
    <3> QED
      BY <1>3, <2>1, <2>2, <3>1
  <2>3. CASE ~(i < at)
    <3>1. i - (at - 1) \in 1 .. n - at /\ ~(i <= at - 1) /\ at + (i - (at - 1)) = i + 1
      BY <1>1, <2>3
    <3> QED
      BY <1>4, <2>1, <2>3, <3>1
  <2> QED
    BY <2>2, <2>3
<1> QED
  BY <1>5, <1>6, <1>7, <1>8 DEF n

\* An erase leaves the key without a value, not with an older one, and the
\* other keys with the values they had.
LEMMA RemoveEffect ==
    ASSUME NEW es \in Lists, NEW at \in DOMAIN es
    PROVE  LET new == RemoveAt(es, at) IN
           /\ new \in Lists
           /\ ValueIn(new, es[at].key) = Nothing
           /\ \A j \in Keys : j # es[at].key => ValueIn(new, j) = ValueIn(es, j)
<1> DEFINE new == RemoveAt(es, at)
           n == Len(es)
           old(i) == IF i < at THEN i ELSE i + 1
<1>0. /\ es \in Seq(Entries) /\ n \in Nat /\ DOMAIN es = 1 .. n
      /\ OneEach(es) /\ LengthsRight(es)
      /\ at \in Nat /\ 1 <= at /\ at <= n
  BY ListFacts
<1>1. /\ new \in Seq(Entries) /\ Len(new) = n - 1
      /\ \A i \in 1 .. n - 1 : new[i] = IF i < at THEN es[i] ELSE es[i + 1]
  BY <1>0, RemoveAtFacts
<1>2. DOMAIN new = 1 .. n - 1
  BY <1>1, LenProperties
<1> HIDE DEF new, n
<1>3. \A i \in 1 .. n - 1 : old(i) \in 1 .. n /\ old(i) # at /\ new[i] = es[old(i)]
  BY <1>0, <1>1
<1>4. \A i, j \in 1 .. n - 1 : old(i) = old(j) => i = j
  BY <1>0
<1>5. ASSUME NEW m \in 1 .. n, m # at PROVE \E i \in 1 .. n - 1 : old(i) = m
  <2>1. CASE m < at
    <3>1. m \in 1 .. n - 1 /\ old(m) = m
      BY <1>0, <2>1
    <3> QED
      BY <3>1
  <2>2. CASE ~(m < at)
    <3>1. m - 1 \in 1 .. n - 1 /\ old(m - 1) = m
      BY <1>0, <1>5, <2>2
    <3> QED
      BY <3>1
  <2> QED
    BY <2>1, <2>2
<1> HIDE DEF old
<1>6. OneEach(new)
  <2>1. SUFFICES ASSUME NEW i \in 1 .. n - 1, NEW j \in 1 .. n - 1, new[i].key = new[j].key
                 PROVE  i = j
    BY <1>2 DEF OneEach
  <2>2. old(i) = old(j)
    BY <1>0, <1>3, <2>1 DEF OneEach
  <2> QED
    BY <1>4, <2>2
<1>7. LengthsRight(new)
  BY <1>0, <1>2, <1>3 DEF LengthsRight
<1>8. new \in Lists
  BY <1>1, <1>6, <1>7 DEF Lists
<1>9. ValueIn(new, es[at].key) = Nothing
  <2>1. \A i \in 1 .. n - 1 : new[i].key # es[at].key
    BY <1>0, <1>3 DEF OneEach
  <2> QED
    BY <1>2, <2>1 DEF Has, ValueIn
<1>10. ASSUME NEW j \in Keys, j # es[at].key PROVE ValueIn(new, j) = ValueIn(es, j)
  <2>1. CASE Has(es, j)
    <3>1. PICK m \in 1 .. n : es[m].key = j
      BY <1>0, <2>1 DEF Has
    <3>2. m # at
      BY <1>10, <3>1
    <3>3. PICK i \in 1 .. n - 1 : old(i) = m
      BY <1>5, <3>2
    <3>4. new[i] = es[m] /\ i \in DOMAIN new
      BY <1>2, <1>3, <3>3
    <3>5. ValueIn(es, j) = EntryValue(es[m])
      BY <1>0, <3>1, ValueAt
    <3>6. ValueIn(new, j) = EntryValue(new[i])
      BY <1>8, <3>1, <3>4, ValueAt
    <3> QED
      BY <3>4, <3>5, <3>6
  <2>2. CASE ~Has(es, j)
    <3>1. \A i \in 1 .. n - 1 : new[i].key # j
      BY <1>0, <1>3, <2>2 DEF Has
    <3> QED
      BY <1>2, <2>2, <3>1 DEF Has, ValueIn
  <2> QED
    BY <2>1, <2>2
<1> QED
  BY <1>8, <1>9, <1>10 DEF new

\* No key has a value in an empty list.
LEMMA EmptyList ==
    /\ <<>> \in Lists
    /\ \A k \in Keys : ValueIn(<<>>, k) = Nothing
<1>1. <<>> \in Seq(Entries) /\ DOMAIN <<>> = {}
  OBVIOUS
<1> QED
  BY <1>1 DEF Lists, OneEach, LengthsRight, Has, ValueIn

-----------------------------------------------------------------------------
(* What a set does, whichever type. *)

\* The list when the key has been set, or could not be.
SetEffect(k, type, data) ==
    \/ entries' = entries /\ reply' = No
    \/ entries' \in Lists /\ reply' = No
       /\ ValueIn(entries', k) = Spoilt
       /\ \A j \in Keys : j # k => ValueIn(entries', j) = ValueIn(entries, j)
    \/ entries' \in Lists /\ reply' = Yes
       /\ ValueIn(entries', k) = [type |-> type, data |-> data]
       /\ \A j \in Keys : j # k => ValueIn(entries', j) = ValueIn(entries, j)

\* Put is PutIn of the list.
LEMMA PutIsPutIn ==
    ASSUME entries \in Lists, NEW k \in Keys, NEW e
    PROVE  Put(k, e) = PutIn(entries, k, e)
  BY Reads DEF Put, PutIn

\* The entries the sets make.
StrEntry(k, d) == [NewEntry(k, "str") EXCEPT !.str = d]
U32Entry(k, d) == [NewEntry(k, "u32") EXCEPT !.u32 = d]
BlobEntry(k, d) == [NewEntry(k, "blob") EXCEPT !.blob = d, !.len = d]

\* An entry newly filled.
LEMMA NewEntryFacts ==
    ASSUME NEW k \in Keys, NEW d \in Data
    PROVE  /\ NewEntry(k, "str") \in Entries /\ EntryValue(NewEntry(k, "str")) = Spoilt
           /\ NewEntry(k, "blob") \in Entries /\ EntryValue(NewEntry(k, "blob")) = Spoilt
           /\ NewEntry(k, "blob").len = 0 /\ NewEntry(k, "blob").blob = Null
           /\ NewEntry(k, "str").key = k /\ NewEntry(k, "blob").key = k
           /\ NewEntry(k, "str").type = "str"
           /\ StrEntry(k, d) \in Entries /\ StrEntry(k, d).key = k /\ StrEntry(k, d).type = "str"
           /\ EntryValue(StrEntry(k, d)) = [type |-> "str", data |-> d]
           /\ U32Entry(k, d) \in Entries /\ U32Entry(k, d).key = k /\ U32Entry(k, d).type = "u32"
           /\ EntryValue(U32Entry(k, d)) = [type |-> "u32", data |-> d]
           /\ BlobEntry(k, d) \in Entries /\ BlobEntry(k, d).key = k /\ BlobEntry(k, d).type = "blob"
           /\ BlobEntry(k, d).blob = d /\ BlobEntry(k, d).len = d
           /\ EntryValue(BlobEntry(k, d)) = [type |-> "blob", data |-> d]
<1>1. 0 \in Data /\ d # Null /\ 0 # Null
  BY DataAssumption DEF Data
<1>2. "str" \in {"str", "u32", "blob"} /\ "u32" \in {"str", "u32", "blob"}
      /\ "blob" \in {"str", "u32", "blob"}
  OBVIOUS
<1>3. \A type \in {"str", "u32", "blob"} : NewEntry(k, type) \in Entries
  BY <1>1 DEF NewEntry, Entries
<1>4. /\ EntryValue(NewEntry(k, "str")) = Spoilt /\ EntryValue(NewEntry(k, "blob")) = Spoilt
      /\ NewEntry(k, "blob").len = 0 /\ NewEntry(k, "blob").blob = Null
      /\ NewEntry(k, "str").key = k /\ NewEntry(k, "blob").key = k
      /\ NewEntry(k, "str").type = "str"
  BY DEF NewEntry, EntryValue
<1>5. /\ StrEntry(k, d) \in Entries /\ StrEntry(k, d).key = k /\ StrEntry(k, d).type = "str"
      /\ EntryValue(StrEntry(k, d)) = [type |-> "str", data |-> d]
  BY <1>1 DEF NewEntry, Entries, EntryValue, StrEntry, U32Entry, BlobEntry
<1>6. /\ U32Entry(k, d) \in Entries /\ U32Entry(k, d).key = k /\ U32Entry(k, d).type = "u32"
      /\ EntryValue(U32Entry(k, d)) = [type |-> "u32", data |-> d]
  BY <1>1 DEF NewEntry, Entries, EntryValue, StrEntry, U32Entry, BlobEntry
<1>7. /\ BlobEntry(k, d) \in Entries /\ BlobEntry(k, d).key = k /\ BlobEntry(k, d).type = "blob"
      /\ BlobEntry(k, d).blob = d /\ BlobEntry(k, d).len = d
      /\ EntryValue(BlobEntry(k, d)) = [type |-> "blob", data |-> d]
  BY <1>1 DEF NewEntry, Entries, EntryValue, StrEntry, U32Entry, BlobEntry
<1> QED
  BY <1>2, <1>3, <1>4, <1>5, <1>6, <1>7

\* cfg_set_str stores the string, changes nothing, or spoils the entry it was to
\* fill; the other keys keep their values (config_host.c:100-112).
LEMMA SetStr ==
    ASSUME entries \in Lists, NEW k \in Keys, NEW d \in Data, CfgSetStr(k, d)
    PROVE  SetEffect(k, "str", d)
<1> DEFINE blank == NewEntry(k, "str")
           full == StrEntry(k, d)
<1>1. CASE CannotCreate(k)
  BY <1>1 DEF CannotCreate, SetEffect
<1>2. CASE CannotCopy(k, "str")
  <2>1. blank \in Entries /\ blank.key = k /\ blank.type = "str" /\ EntryValue(blank) = Spoilt
    BY NewEntryFacts
  <2>2. entries' = PutIn(entries, k, blank) /\ reply' = No
    BY <1>2, PutIsPutIn DEF CannotCopy, GetOrCreate
  <2> HIDE DEF blank
  <2>3. /\ entries' \in Lists /\ ValueIn(entries', k) = Spoilt
        /\ \A j \in Keys : j # k => ValueIn(entries', j) = ValueIn(entries, j)
    BY <2>1, <2>2, PutEffect
  <2> QED
    BY <2>2, <2>3 DEF SetEffect
<1>3. CASE entries' = Put(k, full) /\ reply' = Yes
  <2>1. full \in Entries /\ full.key = k /\ full.type = "str"
        /\ EntryValue(full) = [type |-> "str", data |-> d]
    BY NewEntryFacts
  <2>2. entries' = PutIn(entries, k, full)
    BY <1>3, PutIsPutIn
  <2> HIDE DEF full
  <2>3. /\ entries' \in Lists /\ ValueIn(entries', k) = [type |-> "str", data |-> d]
        /\ \A j \in Keys : j # k => ValueIn(entries', j) = ValueIn(entries, j)
    BY <2>1, <2>2, PutEffect
  <2> QED
    BY <1>3, <2>3 DEF SetEffect
<1> QED
  BY <1>1, <1>2, <1>3 DEF CfgSetStr, StrEntry

\* cfg_set_u32 stores the number or changes nothing (config_host.c:124-132).
LEMMA SetU32 ==
    ASSUME entries \in Lists, NEW k \in Keys, NEW d \in Data, CfgSetU32(k, d)
    PROVE  SetEffect(k, "u32", d)
<1> DEFINE full == U32Entry(k, d)
<1>1. CASE CannotCreate(k)
  BY <1>1 DEF CannotCreate, SetEffect
<1>2. CASE entries' = Put(k, full) /\ reply' = Yes
  <2>1. full \in Entries /\ full.key = k /\ full.type = "u32"
        /\ EntryValue(full) = [type |-> "u32", data |-> d]
    BY NewEntryFacts
  <2>2. entries' = PutIn(entries, k, full)
    BY <1>2, PutIsPutIn
  <2> HIDE DEF full
  <2>3. /\ entries' \in Lists /\ ValueIn(entries', k) = [type |-> "u32", data |-> d]
        /\ \A j \in Keys : j # k => ValueIn(entries', j) = ValueIn(entries, j)
    BY <2>1, <2>2, PutEffect
  <2> QED
    BY <1>2, <2>3 DEF SetEffect
<1> QED
  BY <1>1, <1>2 DEF CfgSetU32, U32Entry

\* cfg_set_blob does as cfg_set_str (config_host.c:153-167).
LEMMA SetBlob ==
    ASSUME entries \in Lists, NEW k \in Keys, NEW d \in Data, CfgSetBlob(k, d)
    PROVE  SetEffect(k, "blob", d)
<1> DEFINE blank == NewEntry(k, "blob")
           full == BlobEntry(k, d)
<1>1. CASE CannotCreate(k)
  BY <1>1 DEF CannotCreate, SetEffect
<1>2. CASE CannotCopy(k, "blob")
  <2>1. /\ blank \in Entries /\ blank.key = k /\ EntryValue(blank) = Spoilt
        /\ blank.len = 0 /\ blank.blob = Null
    BY NewEntryFacts
  <2>2. entries' = PutIn(entries, k, blank) /\ reply' = No
    BY <1>2, PutIsPutIn DEF CannotCopy, GetOrCreate
  <2> HIDE DEF blank
  <2>3. /\ entries' \in Lists /\ ValueIn(entries', k) = Spoilt
        /\ \A j \in Keys : j # k => ValueIn(entries', j) = ValueIn(entries, j)
    BY <2>1, <2>2, PutEffect
  <2> QED
    BY <2>2, <2>3 DEF SetEffect
<1>3. CASE entries' = Put(k, full) /\ reply' = Yes
  <2>1. /\ full \in Entries /\ full.key = k /\ full.blob = d /\ full.len = d
        /\ EntryValue(full) = [type |-> "blob", data |-> d]
    BY NewEntryFacts
  <2>2. entries' = PutIn(entries, k, full)
    BY <1>3, PutIsPutIn
  <2>4. d # Null
    BY DataAssumption DEF Data
  <2> HIDE DEF full
  <2>3. /\ entries' \in Lists /\ ValueIn(entries', k) = [type |-> "blob", data |-> d]
        /\ \A j \in Keys : j # k => ValueIn(entries', j) = ValueIn(entries, j)
    BY <2>1, <2>2, <2>4, PutEffect
  <2> QED
    BY <1>3, <2>3 DEF SetEffect
<1> QED
  BY <1>1, <1>2, <1>3 DEF CfgSetBlob, BlobEntry

-----------------------------------------------------------------------------
(* The invariant. *)

\* The invariant holds of a list as it should be and a reply that is yes or no.
LEMMA Invariant == IInv <=> entries \in Lists /\ reply.ok \in BOOLEAN
  BY DEF IInv, TypeOK, Lists, OneEach

\* An empty store satisfies the invariant.
LEMMA InitHolds == Init => IInv
<1>1. ASSUME Init PROVE entries \in Lists /\ reply.ok \in BOOLEAN
  BY <1>1, EmptyList DEF Init, No
<1> QED
  BY <1>1, Invariant

\* What each reply says.
LEMMA RepliesTyped ==
    /\ No.ok \in BOOLEAN /\ Yes.ok \in BOOLEAN
    /\ \A e, room : StrReply(e, room).ok \in BOOLEAN /\ BlobReply(e, room).ok \in BOOLEAN
    /\ \A d : [Yes EXCEPT !.data = d].ok \in BOOLEAN /\ [Yes EXCEPT !.len = d].ok \in BOOLEAN
  BY DEF No, Yes, Crash, StrReply, BlobReply

\* Every call leaves a list with one entry for a key.
LEMMA StepHolds == IInv /\ [Next]_vars => IInv'
<1> SUFFICES ASSUME IInv, [Next]_vars PROVE entries' \in Lists /\ reply'.ok \in BOOLEAN
  BY DEF IInv, TypeOK, Lists, OneEach
<1>0. entries \in Lists /\ reply.ok \in BOOLEAN
  BY Invariant
<1>1. ASSUME NEW k \in Keys, NEW d \in Data, CfgSetStr(k, d) \/ CfgSetU32(k, d) \/ CfgSetBlob(k, d)
      PROVE  entries' \in Lists /\ reply'.ok \in BOOLEAN
  <2>1. \E type : SetEffect(k, type, d)
    BY <1>0, <1>1, SetStr, SetU32, SetBlob
  <2> QED
    BY <1>0, <2>1, RepliesTyped DEF SetEffect
<1>2. ASSUME NEW k \in Keys, NEW room \in Rooms, CfgGetStr(k, room) \/ CfgGetBlob(k, room)
      PROVE  entries' \in Lists /\ reply'.ok \in BOOLEAN
  BY <1>0, <1>2, RepliesTyped DEF CfgGetStr, CfgGetBlob
<1>3. ASSUME NEW k \in Keys, CfgGetU32(k) \/ CfgGetBlobLength(k)
      PROVE  entries' \in Lists /\ reply'.ok \in BOOLEAN
  BY <1>0, <1>3, RepliesTyped DEF CfgGetU32, CfgGetBlobLength
<1>4. ASSUME NEW k \in Keys, CfgErase(k)
      PROVE  entries' \in Lists /\ reply'.ok \in BOOLEAN
  <2>1. CASE Known(k)
    <3>1. PICK i \in FindEntry(entries, k) : entries' = RemoveAt(entries, i)
      BY <1>4, <2>1 DEF CfgErase
    <3>2. i \in DOMAIN entries
      BY <3>1 DEF FindEntry
    <3>3. reply' = Yes
      BY <1>4, <2>1 DEF CfgErase
    <3> QED
      BY <1>0, <3>1, <3>2, <3>3, RemoveEffect, RepliesTyped
  <2>2. CASE ~Known(k)
    BY <1>0, <1>4, <2>2, RepliesTyped DEF CfgErase
  <2> QED
    BY <2>1, <2>2
<1>5. CASE CfgCommit
  BY <1>0, <1>5, RepliesTyped DEF CfgCommit
<1>6. CASE Reopen
  BY <1>6, EmptyList, RepliesTyped DEF Reopen
<1>7. CASE UNCHANGED vars
  BY <1>0, <1>7 DEF vars
<1> QED
  BY <1>1, <1>2, <1>3, <1>4, <1>5, <1>6, <1>7 DEF Next

\* The invariant with which the list is reasoned about.
THEOREM Invariance == Spec => []IInv
<1>1. Init => IInv
  BY InitHolds
<1>2. IInv /\ [Next]_vars => IInv'
  BY StepHolds
<1> QED
  BY <1>1, <1>2, PTL DEF Spec

\* However often keys are set, retyped and erased, and whichever allocations
\* fail, no key has two entries (config_host.c:48): an erase removes the value
\* for good.
THEOREM TypeCorrect == Spec => []TypeOK
<1>1. IInv => TypeOK
  BY DEF IInv
<1> QED
  BY <1>1, Invariance, PTL

-----------------------------------------------------------------------------
(* The store is the map of Settings. *)

\* The values the calls answer from are those of the list.
AsListed == \A k \in Keys : ValueOf(k) = ValueIn(entries, k)

\* A call's view of the key: what it finds in the entry is the key's value.
LEMMA Answers ==
    ASSUME entries \in Lists, AsListed, NEW k \in Keys
    PROVE  /\ Known(k) <=> ValueOf(k) # Nothing
           /\ Holds(k, "str") => /\ Entry(k).str \in Data \cup {Null}
                                 /\ ValueOf(k) = IF Entry(k).str = Null THEN Spoilt
                                                 ELSE [type |-> "str", data |-> Entry(k).str]
           /\ Holds(k, "u32") => /\ Entry(k).u32 \in Data
                                 /\ ValueOf(k) = [type |-> "u32", data |-> Entry(k).u32]
           /\ Holds(k, "blob") => /\ Entry(k).blob \in Data \cup {Null}
                                  /\ Entry(k).len = IF Entry(k).blob = Null THEN 0 ELSE Entry(k).blob
                                  /\ ValueOf(k) = IF Entry(k).blob = Null THEN Spoilt
                                                  ELSE [type |-> "blob", data |-> Entry(k).blob]
           /\ ValueOf(k) # Spoilt =>
                 \A type : Holds(k, type) <=> ValueOf(k) # Nothing /\ ValueOf(k).type = type
<1>1. ValueOf(k) = ValueIn(entries, k)
  BY DEF AsListed
<1>2. CASE ~Has(entries, k)
  <2>1. ValueOf(k) = Nothing
    BY <1>1, <1>2 DEF ValueIn
  <2> QED
    BY <1>2, <2>1, Reads
<1>3. CASE Has(entries, k)
  <2> DEFINE e == Of(entries, k)
  <2>1. /\ Known(k) /\ Entry(k) = e /\ e \in Entries
        /\ e.type = "blob" => e.len = IF e.blob = Null THEN 0 ELSE e.blob
        /\ \A type : Holds(k, type) <=> e.type = type
    BY <1>3, Reads
  <2>2. ValueOf(k) = EntryValue(e)
    BY <1>1, <1>3 DEF ValueIn
  <2> HIDE DEF e
  <2>3. /\ e.type \in {"str", "u32", "blob"} /\ e.str \in Data \cup {Null}
        /\ e.u32 \in Data /\ e.blob \in Data \cup {Null}
    BY <2>1 DEF Entries
  <2>4. EntryValue(e) # Nothing
    BY DEF EntryValue, Nothing, Spoilt
  <2>5. EntryValue(e) # Spoilt => EntryValue(e).type = e.type
    BY <2>3 DEF EntryValue
  <2>6. e.type = "str" => EntryValue(e) = IF e.str = Null THEN Spoilt
                                          ELSE [type |-> "str", data |-> e.str]
    BY DEF EntryValue
  <2>7. e.type = "u32" => EntryValue(e) = [type |-> "u32", data |-> e.u32]
    BY DEF EntryValue
  <2>8. e.type = "blob" => EntryValue(e) = IF e.blob = Null THEN Spoilt
                                           ELSE [type |-> "blob", data |-> e.blob]
    BY DEF EntryValue
  <2> QED
    BY <2>1, <2>2, <2>3, <2>4, <2>5, <2>6, <2>7, <2>8
<1> QED
  BY <1>2, <1>3

\* A set is the map's: the new value, or a failure that leaves the old value
\* or spoils it.
LEMMA SetRefines ==
    ASSUME AsListed, AsListed', NEW k \in Keys, NEW type \in {"str", "u32", "blob"},
           NEW d \in Data, SetEffect(k, type, d),
           call' = <<"set", k, [type |-> type, data |-> d]>>
    PROVE  S!Next
<1> DEFINE v == [type |-> type, data |-> d]
<1>1. ASSUME NEW x, ValueIn(entries', k) = x,
             \A j \in Keys : j # k => ValueIn(entries', j) = ValueIn(entries, j)
      PROVE  [j \in Keys |-> ValueOf(j)]' = [[j \in Keys |-> ValueOf(j)] EXCEPT ![k] = x]
  BY <1>1 DEF AsListed
<1>2. S!Set(k, v)
  <2>1. CASE entries' = entries /\ reply' = No
    <3>1. ValueIn(entries', k) = ValueOf(k)
      BY <2>1 DEF AsListed
    <3>2. [j \in Keys |-> ValueOf(j)]' = [[j \in Keys |-> ValueOf(j)] EXCEPT ![k] = ValueOf(k)]
      BY <1>1, <2>1, <3>1
    <3> QED
      BY <2>1, <3>2 DEF S!Set, S!No, No
  <2>2. CASE /\ reply' = No /\ ValueIn(entries', k) = Spoilt
             /\ \A j \in Keys : j # k => ValueIn(entries', j) = ValueIn(entries, j)
    <3>1. [j \in Keys |-> ValueOf(j)]' = [[j \in Keys |-> ValueOf(j)] EXCEPT ![k] = Spoilt]
      BY <1>1, <2>2
    <3> QED
      BY <2>2, <3>1 DEF S!Set, S!No, No
  <2>3. CASE /\ reply' = Yes /\ ValueIn(entries', k) = v
             /\ \A j \in Keys : j # k => ValueIn(entries', j) = ValueIn(entries, j)
    <3>1. [j \in Keys |-> ValueOf(j)]' = [[j \in Keys |-> ValueOf(j)] EXCEPT ![k] = v]
      BY <1>1, <2>3
    <3> QED
      BY <2>3, <3>1 DEF S!Set, S!Yes, S!No, Yes, No
  <2> QED
    BY <2>1, <2>2, <2>3 DEF SetEffect
<1>3. v \in [type : {"str", "u32", "blob"}, data : Data]
  OBVIOUS
<1> QED
  BY <1>2, <1>3 DEF S!Next

\* A list that keeps its entries keeps its values.
LEMMA SameMap ==
    ASSUME AsListed, AsListed', entries' = entries
    PROVE  [j \in Keys |-> ValueOf(j)]' = [j \in Keys |-> ValueOf(j)]
  BY DEF AsListed

\* Getting a string is the map's.
LEMMA GetStrRefines ==
    ASSUME entries \in Lists, AsListed, AsListed', NEW k \in Keys, NEW room \in Rooms,
           CfgGetStr(k, room)
    PROVE  S!Next
<1>0. [j \in Keys |-> ValueOf(j)]' = [j \in Keys |-> ValueOf(j)]
  BY SameMap DEF CfgGetStr
<1>1. CASE ValueOf(k) = Spoilt
  <2>1. reply' \in [ok : BOOLEAN, len : Data, data : Data \cup {Null, Undefined}]
    <3>1. 0 \in Data
      BY DataAssumption DEF Data
    <3>2. Holds(k, "str") => StrReply(Entry(k), room) = Crash
      BY <1>1, Answers DEF StrReply, Spoilt
    <3> QED
      BY <3>1, <3>2 DEF CfgGetStr, Crash, No
  <2>2. S!GetSpoilt(k)
    BY <1>0, <1>1, <2>1 DEF CfgGetStr, S!GetSpoilt
  <2> QED
    BY <2>2 DEF S!Next
<1>2. CASE ValueOf(k) # Spoilt
  <2>1. Holds(k, "str") => /\ Entry(k).str \in Nat /\ Entry(k).str # Null
                           /\ ValueOf(k) = [type |-> "str", data |-> Entry(k).str]
    BY <1>2, Answers DEF Data
  <2>2. Holds(k, "str") <=> ValueOf(k) # Nothing /\ ValueOf(k).type = "str"
    BY <1>2, Answers
  <2>3. room \in Nat
    BY DataAssumption DEF Rooms
  <2>4. reply' = IF Holds(k, "str") /\ ValueOf(k).data < room
                 THEN [Yes EXCEPT !.data = ValueOf(k).data] ELSE No
    BY <2>1, <2>3 DEF CfgGetStr, StrReply
  <2>5. S!GetStr(k, room)
    BY <1>0, <1>2, <2>2, <2>4 DEF CfgGetStr, S!GetStr, S!Has, S!Yes, S!No, Yes, No
  <2> QED
    BY <2>5 DEF S!Next
<1> QED
  BY <1>1, <1>2

\* Getting a number is the map's.
LEMMA GetU32Refines ==
    ASSUME entries \in Lists, AsListed, AsListed', NEW k \in Keys, CfgGetU32(k)
    PROVE  S!Next
<1>0. [j \in Keys |-> ValueOf(j)]' = [j \in Keys |-> ValueOf(j)]
  BY SameMap DEF CfgGetU32
<1>1. CASE ValueOf(k) = Spoilt
  <2>1. ~Holds(k, "u32")
    BY <1>1, Answers DEF Spoilt
  <2>2. reply' \in [ok : BOOLEAN, len : Data, data : Data \cup {Null, Undefined}]
    BY <2>1, DataAssumption DEF CfgGetU32, No, Data
  <2>3. 0 \in Rooms
    BY DataAssumption DEF Rooms
  <2>4. S!GetSpoilt(k)
    BY <1>0, <1>1, <2>2, <2>3 DEF CfgGetU32, S!GetSpoilt
  <2> QED
    BY <2>4 DEF S!Next
<1>2. CASE ValueOf(k) # Spoilt
  <2>1. Holds(k, "u32") => ValueOf(k).data = Entry(k).u32
    BY Answers
  <2>2. Holds(k, "u32") <=> ValueOf(k) # Nothing /\ ValueOf(k).type = "u32"
    BY <1>2, Answers
  <2>3. S!GetU32(k)
    BY <1>0, <1>2, <2>1, <2>2 DEF CfgGetU32, S!GetU32, S!Has, S!Yes, S!No, Yes, No
  <2> QED
    BY <2>3 DEF S!Next
<1> QED
  BY <1>1, <1>2

\* The answer to a blob is the map's, whether the blob fits or not.
LEMMA BlobReplyIs ==
    ASSUME NEW e, NEW room
    PROVE  /\ e.len <= room => BlobReply(e, room) = [ok |-> TRUE, len |-> e.len, data |-> e.blob]
           /\ ~(e.len <= room) => BlobReply(e, room) = [No EXCEPT !.len = e.len]
<1>1. CASE e.len <= room
  BY <1>1 DEF BlobReply
<1>2. CASE ~(e.len <= room)
  <2> DEFINE refused == FALSE
  <2>1. (e.len <= room) = FALSE /\ (IF e.len <= room THEN e.blob ELSE Null) = Null
    BY <1>2
  <2>2. BlobReply(e, room) = [ok |-> FALSE, len |-> e.len, data |-> Null]
    BY <2>1, Zenon DEF BlobReply
  <2>3. BlobReply(e, room) = [ok |-> refused, len |-> e.len, data |-> Null]
    BY <2>2, Zenon
  <2>4. No = [ok |-> refused, len |-> 0, data |-> Null]
    BY Zenon DEF No
  <2> HIDE DEF refused
  <2>5. BlobReply(e, room) = [No EXCEPT !.len = e.len]
    BY <2>3, <2>4
  <2> QED
    BY <1>2, <2>5
<1> QED
  BY <1>1, <1>2

\* Getting a blob, or its length, is the map's.
LEMMA GetBlobRefines ==
    ASSUME entries \in Lists, AsListed, AsListed', NEW k \in Keys, NEW room \in Rooms,
           CfgGetBlob(k, room) \/ CfgGetBlobLength(k)
    PROVE  S!Next
<1>0. [j \in Keys |-> ValueOf(j)]' = [j \in Keys |-> ValueOf(j)]
  BY SameMap DEF CfgGetBlob, CfgGetBlobLength
<1>1. 0 \in Data /\ 0 \in Rooms /\ room \in Nat
  BY DataAssumption DEF Data, Rooms
<1>2. CASE ValueOf(k) = Spoilt
  <2>1. Holds(k, "blob") => Entry(k).len = 0 /\ Entry(k).blob = Null
    BY <1>2, Answers DEF Spoilt
  <2>2. reply' \in [ok : BOOLEAN, len : Data, data : Data \cup {Null, Undefined}]
    <3>1. Holds(k, "blob") => BlobReply(Entry(k), room) = [ok |-> TRUE, len |-> 0, data |-> Null]
      <4>1. Holds(k, "blob") => Entry(k).len <= room
        BY <1>1, <2>1
      <4> QED
        BY <2>1, <4>1, BlobReplyIs
    <3>2. reply' = No \/ reply' = [ok |-> TRUE, len |-> 0, data |-> Null]
      BY <2>1, <3>1 DEF CfgGetBlob, CfgGetBlobLength, Yes, No
    <3>3. No \in [ok : BOOLEAN, len : Data, data : Data \cup {Null, Undefined}]
      BY <1>1 DEF No
    <3>4. [ok |-> TRUE, len |-> 0, data |-> Null]
              \in [ok : BOOLEAN, len : Data, data : Data \cup {Null, Undefined}]
      BY <1>1
    <3> QED
      BY <3>2, <3>3, <3>4
  <2>3. S!GetSpoilt(k)
    BY <1>0, <1>1, <1>2, <2>2 DEF CfgGetBlob, CfgGetBlobLength, S!GetSpoilt
  <2> QED
    BY <2>3 DEF S!Next
<1>3. CASE ValueOf(k) # Spoilt
  <2>1. Holds(k, "blob") => /\ Entry(k).blob = ValueOf(k).data
                            /\ Entry(k).len = ValueOf(k).data
    BY <1>3, Answers
  <2>2. Holds(k, "blob") <=> ValueOf(k) # Nothing /\ ValueOf(k).type = "blob"
    BY <1>3, Answers
  <2>3. CASE CfgGetBlob(k, room)
    <3>1. reply' = IF ~Holds(k, "blob") THEN No
                   ELSE IF ValueOf(k).data <= room
                   THEN [ok |-> TRUE, len |-> ValueOf(k).data, data |-> ValueOf(k).data]
                   ELSE [No EXCEPT !.len = ValueOf(k).data]
      BY <2>1, <2>3, BlobReplyIs DEF CfgGetBlob
    <3>2. S!GetBlob(k, room)
      BY <1>0, <1>3, <2>2, <2>3, <3>1 DEF CfgGetBlob, S!GetBlob, S!Has, S!No, No
    <3> QED
      BY <3>2 DEF S!Next
  <2>4. CASE CfgGetBlobLength(k)
    <3>1. S!BlobLength(k)
      BY <1>0, <1>3, <2>1, <2>2, <2>4
      DEF CfgGetBlobLength, S!BlobLength, S!Has, S!Yes, S!No, Yes, No
    <3> QED
      BY <3>1 DEF S!Next
  <2> QED
    BY <2>3, <2>4
<1> QED
  BY <1>2, <1>3

\* Erasing is the map's.
LEMMA EraseRefines ==
    ASSUME entries \in Lists, AsListed, AsListed', NEW k \in Keys, CfgErase(k)
    PROVE  S!Next
<1>1. Known(k) <=> ValueOf(k) # Nothing
  BY Answers
<1>2. CASE Known(k)
  <2>1. PICK i \in FindEntry(entries, k) : entries' = RemoveAt(entries, i)
    BY <1>2 DEF CfgErase
  <2>2. i \in DOMAIN entries /\ entries[i].key = k
    BY <2>1 DEF FindEntry
  <2>3. /\ ValueIn(entries', k) = Nothing
        /\ \A j \in Keys : j # k => ValueIn(entries', j) = ValueIn(entries, j)
    BY <2>1, <2>2, RemoveEffect
  <2>4. [j \in Keys |-> ValueOf(j)]' = [[j \in Keys |-> ValueOf(j)] EXCEPT ![k] = Nothing]
    BY <2>3 DEF AsListed
  <2>5. S!Erase(k)
    BY <1>1, <1>2, <2>4 DEF CfgErase, S!Erase, S!Yes, S!No, Yes, No
  <2> QED
    BY <2>5 DEF S!Next
<1>3. CASE ~Known(k)
  <2>1. [j \in Keys |-> ValueOf(j)]' = [j \in Keys |-> ValueOf(j)]
    BY <1>3, SameMap DEF CfgErase
  <2>2. S!Erase(k)
    BY <1>1, <1>3, <2>1 DEF CfgErase, S!Erase, S!Yes, S!No, Yes, No
  <2> QED
    BY <2>2 DEF S!Next
<1> QED
  BY <1>2, <1>3

\* Every call is one of the map's.
LEMMA StepRefines ==
    ASSUME entries \in Lists, AsListed, AsListed', [Next]_vars
    PROVE  [S!Next]_(S!vars)
<1>1. ASSUME NEW k \in Keys, NEW d \in Data, CfgSetStr(k, d) \/ CfgSetU32(k, d) \/ CfgSetBlob(k, d)
      PROVE  S!Next
  <2>1. CASE CfgSetStr(k, d)
    <3>1. SetEffect(k, "str", d) /\ call' = <<"set", k, [type |-> "str", data |-> d]>>
      BY <2>1, SetStr DEF CfgSetStr
    <3> QED
      BY <3>1, SetRefines
  <2>2. CASE CfgSetU32(k, d)
    <3>1. SetEffect(k, "u32", d) /\ call' = <<"set", k, [type |-> "u32", data |-> d]>>
      BY <2>2, SetU32 DEF CfgSetU32
    <3> QED
      BY <3>1, SetRefines
  <2>3. CASE CfgSetBlob(k, d)
    <3>1. SetEffect(k, "blob", d) /\ call' = <<"set", k, [type |-> "blob", data |-> d]>>
      BY <2>3, SetBlob DEF CfgSetBlob
    <3> QED
      BY <3>1, SetRefines
  <2> QED
    BY <1>1, <2>1, <2>2, <2>3
<1>2. ASSUME NEW k \in Keys, NEW room \in Rooms, CfgGetStr(k, room) \/ CfgGetBlob(k, room)
      PROVE  S!Next
  BY <1>2, GetStrRefines, GetBlobRefines
<1>3. ASSUME NEW k \in Keys, CfgGetU32(k) \/ CfgGetBlobLength(k) \/ CfgErase(k)
      PROVE  S!Next
  <2>1. 0 \in Rooms
    BY DataAssumption DEF Rooms
  <2> QED
    BY <1>3, <2>1, GetU32Refines, GetBlobRefines, EraseRefines
<1>4. CASE CfgCommit
  <2>1. S!Commit
    BY <1>4, SameMap DEF CfgCommit, S!Commit, S!Yes, S!No, Yes, No
  <2> QED
    BY <2>1 DEF S!Next
<1>5. CASE Reopen
  <2>1. [j \in Keys |-> ValueOf(j)]' = [j \in Keys |-> Nothing]
    BY <1>5, EmptyList DEF Reopen, AsListed
  <2>2. S!Reopen
    BY <1>5, <2>1 DEF Reopen, S!Reopen, S!Yes, S!No, Yes, No
  <2> QED
    BY <2>2 DEF S!Next
<1>6. CASE UNCHANGED vars
  <2>1. entries' = entries /\ call' = call /\ reply' = reply
    BY <1>6 DEF vars
  <2> QED
    BY <2>1, SameMap DEF S!vars
<1> QED
  BY <1>1, <1>2, <1>3, <1>4, <1>5, <1>6 DEF Next

\* Whoever uses the list through config.h sees the map of Settings, for any
\* keys and any data: a get answers with what was last set, whatever happened
\* in between, and only a set that failed for want of memory
\* (config_host.c:106, :159) spoils a value.
THEOREM Implements == Spec => ImplementsSettings
<1>1. Init /\ AsListed => S!Init
  <2> SUFFICES ASSUME Init, AsListed PROVE S!Init
    OBVIOUS
  <2>1. [j \in Keys |-> ValueOf(j)] = [j \in Keys |-> Nothing]
    BY EmptyList DEF Init, AsListed
  <2> QED
    BY <2>1 DEF Init, S!Init, S!No, No
<1>2. IInv => AsListed
  BY Invariant, ValueIs DEF AsListed
<1>3. IInv /\ AsListed /\ AsListed' /\ [Next]_vars => [S!Next]_(S!vars)
  BY Invariant, StepRefines
<1> QED
  BY <1>1, <1>2, <1>3, Invariance, PTL DEF Spec, ImplementsSettings, S!Spec

=============================================================================
