---------------------------- MODULE ToneHistoryProofs ----------------------------
(***************************************************************************)
(* Proofs that the tone detector fires on the frames its definition names,  *)
(* for any number of debounce frames and runs of any length.                *)
(*                                                                          *)
(* The detector keeps the length of the loud run up to multiples of the     *)
(* frames it needs, since it starts again from 0 each time it fires: that   *)
(* is the inductive invariant (Counted).                                    *)
(***************************************************************************)
EXTENDS ToneHistory, SequenceTheorems, TLAPS

\* The last n of the first i of some frames are a run of loud ones, and no
\* more than these n are.
IsRun(fs, i, n) ==
    /\ n \in 0 .. i
    /\ \A k \in i - n + 1 .. i : fs[k] = "loud"
    /\ n < i => fs[i - n] # "loud"

\* A run of some length ends at every frame, and the detector's count is the
\* length of the last, less the frames it has fired for.
Counted ==
    /\ \A i \in 1 .. Len(frames) : \E n : IsRun(frames, i, n)
    /\ \E n \in 0 .. Len(frames) :
          /\ IsRun(frames, Len(frames), n)
          /\ n % Need = tone.consecutive

\* The inductive invariant.
IInv ==
    /\ TypeOK
    /\ tone.ready
    /\ Counted
    /\ FiresAsDefined

-----------------------------------------------------------------------------
(* Remainders and runs. *)

\* A multiple of a positive number by a positive number is no less than it.
LEMMA MultipleIsMore ==
    ASSUME NEW d \in Nat, NEW m \in Nat, m >= 1
    PROVE  d * m >= d
<1>1. d * m = d + d * (m - 1) /\ m - 1 \in Nat
  OBVIOUS
<1>2. d * (m - 1) >= 0
  BY <1>1
<1> QED
  BY <1>1, <1>2

\* The remainder is the only one.
LEMMA RemainderIs ==
    ASSUME NEW d \in Nat, d > 0, NEW q \in Nat, NEW r \in Nat, r < d
    PROVE  (d * q + r) % d = r
<1> DEFINE n == d * q + r
           p == n \div d
           s == n % d
<1>1. n \in Nat /\ d * q \in Nat
  OBVIOUS
<1> HIDE DEF n
<1>2. p \in Nat /\ s \in Nat /\ s < d /\ n = d * p + s
  BY <1>1
<1> HIDE DEF p, s
<1>3. d * p + s = d * q + r
  BY <1>2 DEF n
<1>4. CASE p >= q + 1
  <2>1. p - q \in Nat /\ p - q >= 1 /\ d * (p - q) = d * p - d * q
    BY <1>2, <1>4
  <2>2. d * (p - q) >= d
    BY <2>1, MultipleIsMore
  <2> QED
    BY <1>2, <1>3, <2>1, <2>2
<1>5. CASE q >= p + 1
  <2>1. q - p \in Nat /\ q - p >= 1 /\ d * (q - p) = d * q - d * p
    BY <1>2, <1>5
  <2>2. d * (q - p) >= d
    BY <2>1, MultipleIsMore
  <2> QED
    BY <1>2, <1>3, <2>1, <2>2
<1>6. CASE p = q
  BY <1>2, <1>3, <1>6 DEF s, n
<1> QED
  BY <1>2, <1>4, <1>5, <1>6

\* Counting on, modulo d.
LEMMA NextRemainder ==
    ASSUME NEW d \in Nat, d > 0, NEW n \in Nat
    PROVE  /\ n % d \in Nat /\ n % d < d
           /\ (n + 1) % d = IF (n % d) + 1 = d THEN 0 ELSE (n % d) + 1
<1> DEFINE q == n \div d
           r == n % d
<1>1. q \in Nat /\ r \in Nat /\ r < d /\ n = d * q + r
  OBVIOUS
<1> HIDE DEF q, r
<1>2. CASE r + 1 = d
  <2>1. n + 1 = d * (q + 1) + 0
    BY <1>1, <1>2
  <2>2. (d * (q + 1) + 0) % d = 0
    BY <1>1, RemainderIs
  <2> QED
    BY <1>1, <1>2, <2>1, <2>2 DEF r
<1>3. CASE r + 1 # d
  <2>1. n + 1 = d * q + (r + 1) /\ r + 1 < d /\ r + 1 \in Nat
    BY <1>1, <1>3
  <2>2. (d * q + (r + 1)) % d = r + 1
    BY <1>1, <2>1, RemainderIs
  <2> QED
    BY <1>1, <1>3, <2>1, <2>2 DEF r
<1> QED
  BY <1>2, <1>3

\* There is only one run that ends at a frame.
LEMMA OneRun ==
    ASSUME NEW fs, NEW i \in Nat, NEW n, NEW m, IsRun(fs, i, n), IsRun(fs, i, m)
    PROVE  n = m
<1>1. n \in Nat /\ m \in Nat /\ n <= i /\ m <= i
  BY DEF IsRun
<1>2. CASE n < m
  <2>1. i - n \in i - m + 1 .. i /\ n < i
    BY <1>1, <1>2
  <2> QED
    BY <2>1 DEF IsRun
<1>3. CASE m < n
  <2>1. i - m \in i - n + 1 .. i /\ m < i
    BY <1>1, <1>3
  <2> QED
    BY <2>1 DEF IsRun
<1> QED
  BY <1>1, <1>2, <1>3

\* The run the definition speaks of.
RunAt(fs, i) ==
    CHOOSE n \in 0 .. i :
        /\ \A k \in i - n + 1 .. i : fs[k] = "loud"
        /\ n < i => fs[i - n] # "loud"

\* A run that ends at a frame is the one the definition speaks of.
LEMMA RunIs ==
    ASSUME NEW fs, NEW i \in Nat, NEW n, IsRun(fs, i, n)
    PROVE  RunAt(fs, i) = n
<1> DEFINE Is(m) == /\ \A k \in i - m + 1 .. i : fs[k] = "loud"
                    /\ m < i => fs[i - m] # "loud"
<1>1. n \in 0 .. i /\ Is(n)
  BY DEF IsRun
<1>2. \A m \in 0 .. i : Is(m) => m = n
  BY OneRun DEF IsRun
<1>3. RunAt(fs, i) = CHOOSE m \in 0 .. i : Is(m)
  BY DEF RunAt
<1> HIDE DEF Is
<1> QED
  BY <1>1, <1>2, <1>3

\* A frame more makes the run longer, or breaks it off.
LEMMA RunGoesOn ==
    ASSUME NEW fs \in Seq(Inputs), NEW x \in Inputs, NEW n, IsRun(fs, Len(fs), n)
    PROVE  IsRun(Append(fs, x), Len(fs) + 1, IF x = "loud" THEN n + 1 ELSE 0)
<1> DEFINE i == Len(fs)
           more == Append(fs, x)
<1>1. i \in Nat /\ n \in Nat /\ n <= i
  BY LenProperties DEF IsRun
<1>2. more[i + 1] = x /\ \A k \in 1 .. i : more[k] = fs[k]
  BY AppendProperties
<1>3. /\ \A k \in i - n + 1 .. i : fs[k] = "loud"
      /\ n < i => fs[i - n] # "loud"
  BY DEF IsRun
<1> HIDE DEF i, more
<1>4. CASE x = "loud"
  <2>1. ASSUME NEW k \in (i + 1) - (n + 1) + 1 .. i + 1 PROVE more[k] = "loud"
    <3>1. CASE k = i + 1
      BY <1>2, <1>4, <3>1
    <3>2. CASE k # i + 1
      <4>1. k \in i - n + 1 .. i /\ k \in 1 .. i
        BY <1>1, <2>1, <3>2
      <4> QED
        BY <1>2, <1>3, <4>1
    <3> QED
      BY <3>1, <3>2
  <2>2. ASSUME n + 1 < i + 1 PROVE more[(i + 1) - (n + 1)] # "loud"
    <3>1. (i + 1) - (n + 1) = i - n /\ i - n \in 1 .. i /\ n < i
      BY <1>1, <2>2
    <3> QED
      BY <1>2, <1>3, <3>1
  <2>3. n + 1 \in 0 .. i + 1
    BY <1>1
  <2> QED
    BY <1>4, <2>1, <2>2, <2>3 DEF IsRun, i, more
<1>5. CASE x # "loud"
  <2>1. (i + 1) - 0 = i + 1 /\ 0 \in 0 .. i + 1
        /\ \A k \in (i + 1) - 0 + 1 .. i + 1 : FALSE
    BY <1>1
  <2>2. IsRun(more, i + 1, 0)
    BY <1>2, <1>5, <2>1 DEF IsRun
  <2> QED
    BY <1>5, <2>2 DEF i, more
<1> QED
  BY <1>4, <1>5

\* A frame more does not change the runs before it.
LEMMA RunsStay ==
    ASSUME NEW fs \in Seq(Inputs), NEW x, NEW i \in 1 .. Len(fs), NEW n
    PROVE  IsRun(Append(fs, x), i, n) <=> IsRun(fs, i, n)
<1>1. Len(fs) \in Nat /\ \A k \in 1 .. Len(fs) : Append(fs, x)[k] = fs[k]
  BY LenProperties, AppendProperties
<1> DEFINE more == Append(fs, x)
<1> HIDE DEF more
<1>2. \A k \in 1 .. Len(fs) : more[k] = fs[k]
  BY <1>1 DEF more
<1>3. ASSUME n \in 0 .. i
      PROVE  /\ \A k \in i - n + 1 .. i : more[k] = fs[k]
             /\ n < i => more[i - n] = fs[i - n]
  <2>1. \A k \in i - n + 1 .. i : k \in 1 .. Len(fs)
    BY <1>1, <1>3
  <2>2. n < i => i - n \in 1 .. Len(fs)
    BY <1>1, <1>3
  <2> QED
    BY <1>2, <2>1, <2>2
<1> QED
  BY <1>3 DEF IsRun, more

-----------------------------------------------------------------------------
(* The invariant. *)

\* A new detector has seen nothing.
LEMMA InitHolds == Init => IInv
<1> SUFFICES ASSUME Init PROVE IInv
  OBVIOUS
<1>1. PICK d \in Debounces : tone = TdInit(d)
  BY DEF Init
<1>2. /\ d \in Nat /\ frames = <<>> /\ fired = <<>> /\ Len(frames) = 0
      /\ tone.ready /\ tone.debounce = d /\ tone.consecutive = 0 /\ tone \in Tones
  BY <1>1, DebounceAssumption DEF Init, TdInit, Tones
<1>3. TypeOK
  BY <1>2, MaxFramesAssumption DEF TypeOK
<1>4. Counted
  <2>1. IsRun(frames, 0, 0)
    BY <1>2 DEF IsRun
  <2>2. Need \in Nat /\ Need > 0
    BY <1>2 DEF Need
  <2>3. 0 % Need = 0
    BY <2>2, RemainderIs
  <2> QED
    BY <1>2, <2>1, <2>3 DEF Counted
<1>5. FiresAsDefined
  BY <1>2 DEF FiresAsDefined
<1> QED
  BY <1>2, <1>3, <1>4, <1>5 DEF IInv

\* What one call does to the detector, and what it answers.
LEMMA CallEffect ==
    ASSUME IInv, Next
    PROVE  \E x \in Inputs, fires \in BOOLEAN :
              /\ Len(frames) < MaxFrames
              /\ frames' = Append(frames, x) /\ fired' = Append(fired, fires)
              /\ tone' \in Tones /\ tone'.ready /\ tone'.debounce = tone.debounce
              /\ fires <=> x = "loud" /\ tone.consecutive + 1 = Need
              /\ tone'.consecutive = IF x = "loud" /\ ~fires THEN tone.consecutive + 1 ELSE 0
<1>1. /\ tone \in Tones /\ tone.ready /\ tone.debounce \in Nat /\ tone.consecutive \in Nat
      /\ tone.consecutive = 0 \/ tone.consecutive < tone.debounce
  BY DEF IInv, TypeOK, Tones
<1>2. tone.consecutive + 1 = Need <=> tone.consecutive + 1 >= tone.debounce
  BY <1>1 DEF Need
<1>3. CASE Frame(TRUE)
  <2>1. TdFires(tone, TRUE) <=> tone.consecutive + 1 = Need
    BY <1>1, <1>2 DEF TdFires, Over
  <2>2. CASE TdFires(tone, TRUE)
    <3>1. tone' = [tone EXCEPT !.consecutive = 0]
      BY <1>3, <2>2 DEF Frame, TdProcess, TdReset
    <3>2. tone' \in Tones /\ tone'.ready /\ tone'.debounce = tone.debounce /\ tone'.consecutive = 0
      BY <1>1, <3>1 DEF Tones
    <3>3. fired' = Append(fired, TRUE) /\ frames' = Append(frames, "loud") /\ Len(frames) < MaxFrames
      BY <1>3, <2>2 DEF Frame, TdFires, Over
    <3> QED
      BY <2>1, <2>2, <3>2, <3>3 DEF Inputs
  <2>3. CASE ~TdFires(tone, TRUE)
    <3>1. tone' = [tone EXCEPT !.consecutive = @ + 1]
      BY <1>1, <1>3, <2>3 DEF Frame, TdProcess, Over
    <3>2. /\ tone' \in Tones /\ tone'.ready /\ tone'.debounce = tone.debounce
          /\ tone'.consecutive = tone.consecutive + 1
      BY <1>1, <3>1 DEF Tones
    <3>3. fired' = Append(fired, FALSE) /\ frames' = Append(frames, "loud") /\ Len(frames) < MaxFrames
      BY <1>3, <2>3 DEF Frame, TdFires, Over
    <3> QED
      BY <2>1, <2>3, <3>2, <3>3 DEF Inputs
  <2> QED
    BY <2>2, <2>3
<1>4. CASE Frame(FALSE) \/ Reset
  <2>1. tone' = [tone EXCEPT !.consecutive = 0]
    BY <1>4 DEF Frame, Reset, TdProcess, TdReset, Over
  <2>2. tone' \in Tones /\ tone'.ready /\ tone'.debounce = tone.debounce /\ tone'.consecutive = 0
    BY <1>1, <2>1 DEF Tones
  <2>3. /\ fired' = Append(fired, FALSE) /\ Len(frames) < MaxFrames
        /\ frames' = Append(frames, "quiet") \/ frames' = Append(frames, "reset")
    BY <1>4 DEF Frame, Reset, TdFires, Over
  <2> QED
    BY <2>2, <2>3 DEF Inputs
<1> QED
  BY <1>3, <1>4 DEF Next

\* Every call keeps the count and answers as the definition does.
LEMMA StepHolds == IInv /\ [Next]_vars => IInv'
<1> SUFFICES ASSUME IInv, [Next]_vars PROVE IInv'
  OBVIOUS
<1>1. CASE UNCHANGED vars
  <2>1. tone' = tone /\ frames' = frames /\ fired' = fired
    BY <1>1 DEF vars
  <2>2. TypeOK' /\ tone'.ready
    BY <2>1 DEF IInv, TypeOK
  <2>3. Need' = Need
    BY <2>1 DEF Need
  <2>4. Counted'
    BY <2>1, <2>3 DEF IInv, Counted
  <2>5. \A i : ShouldFire(i)' = ShouldFire(i)
    BY <2>1, <2>3 DEF ShouldFire, RunEndingAt
  <2>6. FiresAsDefined'
    BY <2>1, <2>5 DEF IInv, FiresAsDefined
  <2> QED
    BY <2>2, <2>4, <2>6 DEF IInv
<1>2. CASE Next
  <2>1. PICK x \in Inputs, fires \in BOOLEAN :
              /\ Len(frames) < MaxFrames
              /\ frames' = Append(frames, x) /\ fired' = Append(fired, fires)
              /\ tone' \in Tones /\ tone'.ready /\ tone'.debounce = tone.debounce
              /\ fires <=> x = "loud" /\ tone.consecutive + 1 = Need
              /\ tone'.consecutive = IF x = "loud" /\ ~fires THEN tone.consecutive + 1 ELSE 0
    BY <1>2, CallEffect
  <2> DEFINE i == Len(frames)
  <2>2. /\ frames \in Seq(Inputs) /\ i \in Nat /\ i < MaxFrames /\ DOMAIN frames = 1 .. i
        /\ tone.debounce \in Nat /\ tone.consecutive \in Nat
        /\ tone.consecutive = 0 \/ tone.consecutive < tone.debounce
    BY <2>1, LenProperties DEF IInv, TypeOK, Tones
  <2>3. fired \in Seq(BOOLEAN) /\ Len(fired) = i
    BY <2>2, LenProperties DEF IInv, TypeOK
  <2>4. /\ frames' \in Seq(Inputs) /\ Len(frames') = i + 1 /\ DOMAIN frames' = 1 .. i + 1
        /\ fired' \in Seq(BOOLEAN) /\ DOMAIN fired' = 1 .. i + 1
        /\ fired'[i + 1] = fires /\ \A j \in 1 .. i : fired'[j] = fired[j]
    BY <2>1, <2>2, <2>3, AppendProperties, LenProperties
  <2>5. Need \in Nat /\ Need > 0 /\ Need' = Need
    BY <2>1, <2>2 DEF Need
  <2>6. PICK n \in 0 .. i : IsRun(frames, i, n) /\ n % Need = tone.consecutive
    BY DEF IInv, Counted
  <2> DEFINE m == IF x = "loud" THEN n + 1 ELSE 0
  <2> HIDE DEF i
  <2>7. IsRun(frames', i + 1, m)
    BY <2>1, <2>2, <2>6, RunGoesOn DEF i
  <2>8. m \in 0 .. i + 1
    BY <2>2
  <2>9. /\ m % Need = IF x = "loud" /\ ~fires THEN tone.consecutive + 1 ELSE 0
        /\ fires <=> m > 0 /\ m % Need = 0
    <3>1. CASE x = "loud"
      <4>1. n \in Nat
        BY <2>2
      <4>2. (n + 1) % Need = IF (n % Need) + 1 = Need THEN 0 ELSE (n % Need) + 1
        BY <2>5, <4>1, NextRemainder
      <4> QED
        BY <2>1, <2>2, <2>6, <3>1, <4>1, <4>2
    <3>2. CASE x # "loud"
      <4>1. 0 % Need = 0
        BY <2>5, RemainderIs
      <4> QED
        BY <2>1, <3>2, <4>1
    <3> QED
      BY <3>1, <3>2
  <2> HIDE DEF m
  <2>10. TypeOK'
    <3>1. tone'.consecutive = 0 \/ tone'.consecutive < tone'.debounce
      <4>1. CASE x = "loud" /\ ~fires
        <5>1. tone'.consecutive = tone.consecutive + 1 /\ tone'.debounce = tone.debounce
          BY <2>1, <4>1
        <5>2. tone.consecutive + 1 # Need
          BY <2>1, <4>1
        <5>3. tone.consecutive + 1 < tone.debounce
          BY <2>2, <5>2 DEF Need
        <5> QED
          BY <5>1, <5>3
      <4>2. CASE ~ (x = "loud" /\ ~fires)
        BY <2>1, <4>2
      <4> QED
        BY <4>1, <4>2
    <3>2. fired' \in [DOMAIN frames' -> BOOLEAN]
      BY <2>4
    <3> QED
      BY <2>1, <2>2, <2>4, <3>1, <3>2, MaxFramesAssumption DEF TypeOK
  <2>11. \A j \in 1 .. i : \A r : IsRun(frames', j, r) <=> IsRun(frames, j, r)
    BY <2>1, <2>2, RunsStay DEF i
  <2>12. \A j \in 1 .. i : \E r : IsRun(frames, j, r)
    BY DEF IInv, Counted, i
  <2>13. Counted'
    <3>1. ASSUME NEW j \in 1 .. i + 1 PROVE \E r : IsRun(frames', j, r)
      <4>1. CASE j = i + 1
        BY <2>7, <4>1
      <4>2. CASE j # i + 1
        <5>1. j \in 1 .. i
          BY <2>2, <4>2
        <5> QED
          BY <2>11, <2>12, <5>1
      <4> QED
        BY <4>1, <4>2
    <3>2. m % Need' = tone'.consecutive
      BY <2>1, <2>5, <2>9
    <3> QED
      BY <2>4, <2>7, <2>8, <3>1, <3>2 DEF Counted
  <2>14. FiresAsDefined'
    <3>1. \A j : RunEndingAt(j)' = RunAt(frames', j) /\ RunEndingAt(j) = RunAt(frames, j)
      BY DEF RunEndingAt, RunAt
    <3>2. ASSUME NEW j \in 1 .. i + 1 PROVE fired'[j] = ShouldFire(j)'
      <4>1. CASE j = i + 1
        <5>1. RunEndingAt(j)' = m
          BY <2>2, <2>7, <3>1, <4>1, RunIs
        <5> QED
          BY <2>4, <2>5, <2>9, <4>1, <5>1 DEF ShouldFire
      <4>2. CASE j # i + 1
        <5>1. j \in 1 .. i /\ j \in Nat
          BY <2>2, <4>2
        <5>2. PICK r : IsRun(frames, j, r)
          BY <2>12, <5>1
        <5>3. RunAt(frames, j) = r /\ RunAt(frames', j) = r
          BY <2>11, <5>1, <5>2, RunIs
        <5>4. ShouldFire(j)' = ShouldFire(j)
          BY <2>5, <3>1, <5>3 DEF ShouldFire
        <5>5. fired[j] = ShouldFire(j)
          BY <2>2, <2>3, <5>1, LenProperties DEF IInv, FiresAsDefined
        <5> QED
          BY <2>4, <5>1, <5>4, <5>5
      <4> QED
        BY <4>1, <4>2
    <3> QED
      BY <2>4, <3>2 DEF FiresAsDefined
  <2> QED
    BY <2>1, <2>10, <2>13, <2>14 DEF IInv
<1> QED
  BY <1>1, <1>2

\* The invariant with which the detector is reasoned about.
THEOREM Invariance == Spec => []IInv
<1>1. Init => IInv
  BY InitHolds
<1>2. IInv /\ [Next]_vars => IInv'
  BY StepHolds
<1> QED
  BY <1>1, <1>2, PTL DEF Spec

\* The count stays below debounce_frames, whatever that is, and starts again
\* when the detector fires (tone_detect.c:50-52).
THEOREM TypeCorrect == Spec => []TypeOK
<1>1. IInv => TypeOK
  BY DEF IInv
<1> QED
  BY <1>1, Invariance, PTL

\* The detector fires on exactly the frames that complete another
\* debounce_frames loud frames in a row: a quiet frame, a reset or the last
\* firing starts the count again (tone_detect.c:48-56), and 0 asks for no
\* debouncing, like 1.
THEOREM Fires == Spec => []FiresAsDefined
<1>1. IInv => FiresAsDefined
  BY DEF IInv
<1> QED
  BY <1>1, Invariance, PTL

=============================================================================
