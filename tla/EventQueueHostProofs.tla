------------------------- MODULE EventQueueHostProofs -------------------------
(***************************************************************************)
(* Proofs about the host event queue, for every capacity, every set of      *)
(* threads and events, with and without spurious wakeups.                   *)
(*                                                                          *)
(* Everything rests on the inductive invariant IInv: the properties proved, *)
(* and what a thread knows at each statement because of the mutex.          *)
(***************************************************************************)
EXTENDS EventQueueHost, FiniteSetTheorems, SequenceTheorems, TLAPS

\* Who may be where: a thread in eq_post posts an event, a thread in a wait
\* set is at its wait, and only a timed call ever runs out of time.
Placed ==
    /\ \A t \in Threads : pc[t] \in PostPCs => t \in Posters /\ evt[t] \in Events
    /\ \A t \in Threads : pc[t] \in RecvPCs => t \in Receivers
    /\ \A t \in notFull : pc[t] = "post_wait"
    /\ \A t \in notEmpty : pc[t] = "recv_wait"
    /\ \A t \in Threads : pc[t] \in {"post_expired", "recv_expired"} => wait[t] = "timed"

\* A receiver holds no event before it loads one.
NothingYet ==
    \A t \in Threads : pc[t] \in (RecvPCs \ {"recv_commit"}) \cup {"idle"} => evt[t] = NoEvent

\* Between the slot and the indices nobody else moves the ring.
MidUpdate ==
    \A t \in Threads :
        /\ pc[t] = "post_commit" => count < Cap /\ buf[tail] = evt[t]
        /\ pc[t] = "recv_commit" => count > 0 /\ buf[head] = evt[t]

\* The inductive invariant.
IInv == TypeOK /\ RingConsistent /\ MutexHeld /\ Placed /\ NothingYet /\ MidUpdate

-----------------------------------------------------------------------------
(* Arithmetic of the ring. *)

\* A remainder by Cap, for numbers below two rounds of the ring.
LEMMA ModTwice ==
    ASSUME NEW i \in Nat, i < 2 * Cap
    PROVE i % Cap = IF i < Cap THEN i ELSE i - Cap
  BY CapAssumption

\* (i + 1) % cap stays inside the ring.
LEMMA AfterInSlots ==
    ASSUME NEW i \in Slots
    PROVE After(i) \in Slots
  BY CapAssumption DEF After, Slots

\* Moving tail on by one slot is counting one event more.
LEMMA TailMoves ==
    ASSUME NEW h \in Slots, NEW n \in 0 .. Cap - 1
    PROVE After((h + n) % Cap) = (h + n + 1) % Cap
  BY CapAssumption, ModTwice DEF After, Slots

\* Moving head on by one slot and counting one event less leaves tail alone.
LEMMA HeadMoves ==
    ASSUME NEW h \in Slots, NEW n \in 1 .. Cap
    PROVE (After(h) + (n - 1)) % Cap = (h + n) % Cap
  BY CapAssumption, ModTwice DEF After, Slots

\* eq_create establishes the invariant.
LEMMA InitIInv == Init => IInv
  <1> SUFFICES ASSUME Init PROVE IInv
    OBVIOUS
  <1>1. TypeOK
    BY CapAssumption, ZeroAssumption DEF Init, TypeOK, Slots, PCs, Waits
  <1>2. RingConsistent
    BY CapAssumption DEF Init, RingConsistent
  <1>3. MutexHeld
    BY ThreadAssumption DEF Init, MutexHeld, Critical
  <1>4. Placed /\ NothingYet /\ MidUpdate
    BY DEF Init, Placed, NothingYet, MidUpdate, PostPCs, RecvPCs
  <1>5. QED
    BY <1>1, <1>2, <1>3, <1>4 DEF IInv

\* Every statement of eq_post and eq_receive keeps it, whatever the other
\* threads are at.
LEMMA StepIInv == IInv /\ [Next]_vars => IInv'
  <1> USE DEF IInv
  <1>1. ASSUME IInv, NEW t \in Threads, NEW e \in Events, NEW w \in Waits, CallPost(t, e, w) PROVE IInv'
    <2> USE <1>1 DEF CallPost, Go, ring, taken
    <2>1. TypeOK' /\ Placed' /\ NothingYet'
      BY DEF TypeOK, Placed, NothingYet, PCs, PostPCs, RecvPCs, Waits
    <2>2. RingConsistent'
      BY DEF RingConsistent
    <2>3. MutexHeld' /\ MidUpdate'
      BY ThreadAssumption DEF TypeOK, MutexHeld, MidUpdate, Critical
    <2>4. QED
      BY <2>1, <2>2, <2>3
  <1>2. ASSUME IInv, NEW t \in Threads, PostLock(t) PROVE IInv'
    <2> USE <1>2 DEF PostLock, Go, ring, taken, Acquire
    <2>1. TypeOK' /\ Placed' /\ NothingYet'
      BY DEF TypeOK, Placed, NothingYet, PCs, PostPCs, RecvPCs, Waits
    <2>2. RingConsistent'
      BY DEF RingConsistent
    <2>3. MutexHeld' /\ MidUpdate'
      BY ThreadAssumption DEF TypeOK, MutexHeld, MidUpdate, Critical
    <2>4. QED
      BY <2>1, <2>2, <2>3
  <1>3. ASSUME IInv, NEW t \in Threads, PostRefuse(t) PROVE IInv'
    <2> USE <1>3 DEF PostRefuse, Go, ring, taken, Release, Full, Empty
    <2>1. TypeOK' /\ Placed' /\ NothingYet'
      BY DEF TypeOK, Placed, NothingYet, PCs, PostPCs, RecvPCs, Waits
    <2>2. RingConsistent'
      BY DEF RingConsistent
    <2>3. MutexHeld' /\ MidUpdate'
      BY ThreadAssumption DEF TypeOK, MutexHeld, MidUpdate, Critical
    <2>4. QED
      BY <2>1, <2>2, <2>3
  <1>4. ASSUME IInv, NEW t \in Threads, PostWait(t) PROVE IInv'
    <2> USE <1>4 DEF PostWait, Go, ring, taken, Release, Full, Empty
    <2>1. TypeOK' /\ Placed' /\ NothingYet'
      BY DEF TypeOK, Placed, NothingYet, PCs, PostPCs, RecvPCs, Waits
    <2>2. RingConsistent'
      BY DEF RingConsistent
    <2>3. MutexHeld' /\ MidUpdate'
      BY ThreadAssumption DEF TypeOK, MutexHeld, MidUpdate, Critical
    <2>4. QED
      BY <2>1, <2>2, <2>3
  <1>5. ASSUME IInv, NEW t \in Threads, PostStore(t) PROVE IInv'
    <2> USE <1>5 DEF PostStore, Go, ring, taken, Full, Empty
    <2>1. TypeOK' /\ Placed' /\ NothingYet'
      BY DEF TypeOK, Placed, NothingYet, PCs, PostPCs, RecvPCs, Waits
    <2>2. RingConsistent'
      BY DEF RingConsistent
    <2>3. MutexHeld' /\ MidUpdate'
      BY ThreadAssumption, CapAssumption DEF TypeOK, MutexHeld, MidUpdate, Critical, Slots
    <2>4. QED
      BY <2>1, <2>2, <2>3
  <1>6. ASSUME IInv, NEW t \in Threads, PostCommit(t) PROVE IInv'
    <2> USE <1>6 DEF PostCommit, Go, ring, taken, Release, Signalled, Lesser
    <2>1. TypeOK' /\ Placed' /\ NothingYet'
      BY AfterInSlots, CapAssumption DEF TypeOK, Placed, NothingYet, PCs, PostPCs, RecvPCs, Waits, MidUpdate, Slots
    <2>2. RingConsistent'
      <3>1. head \in Slots /\ count \in 0 .. Cap - 1
        BY CapAssumption DEF TypeOK, MidUpdate
      <3>2. tail' = (head + count + 1) % Cap
        BY <3>1, TailMoves DEF RingConsistent
      <3>3. head' + count' = head + count + 1
        BY <3>1 DEF Slots
      <3>4. QED
        BY <3>2, <3>3 DEF RingConsistent
    <2>3. MutexHeld' /\ MidUpdate'
      BY ThreadAssumption, CapAssumption DEF TypeOK, MutexHeld, MidUpdate, Critical, Slots
    <2>4. QED
      BY <2>1, <2>2, <2>3
  <1>7. ASSUME IInv, NEW t \in Threads, PostTimeout(t) PROVE IInv'
    <2> USE <1>7 DEF PostTimeout, Go, ring, taken
    <2>1. TypeOK' /\ Placed' /\ NothingYet'
      <3>1. takenFull' \in 0 .. Cap
        BY CapAssumption DEF TypeOK, Lesser
      <3>2. QED
        BY <3>1 DEF TypeOK, Placed, NothingYet, PCs, PostPCs, RecvPCs, Waits
    <2>2. RingConsistent'
      BY DEF RingConsistent
    <2>3. MutexHeld' /\ MidUpdate'
      BY ThreadAssumption DEF TypeOK, MutexHeld, MidUpdate, Critical
    <2>4. QED
      BY <2>1, <2>2, <2>3
  <1>8. ASSUME IInv, NEW t \in Threads, PostSpurious(t) PROVE IInv'
    <2> USE <1>8 DEF PostSpurious, Go, ring, taken
    <2>1. TypeOK' /\ Placed' /\ NothingYet'
      BY DEF TypeOK, Placed, NothingYet, PCs, PostPCs, RecvPCs, Waits
    <2>2. RingConsistent'
      BY DEF RingConsistent
    <2>3. MutexHeld' /\ MidUpdate'
      BY ThreadAssumption DEF TypeOK, MutexHeld, MidUpdate, Critical
    <2>4. QED
      BY <2>1, <2>2, <2>3
  <1>9. ASSUME IInv, NEW t \in Threads, PostRelock(t) PROVE IInv'
    <2> USE <1>9 DEF PostRelock, Go, ring, taken, Acquire
    <2>1. TypeOK' /\ Placed' /\ NothingYet'
      BY DEF TypeOK, Placed, NothingYet, PCs, PostPCs, RecvPCs, Waits
    <2>2. RingConsistent'
      BY DEF RingConsistent
    <2>3. MutexHeld' /\ MidUpdate'
      BY ThreadAssumption DEF TypeOK, MutexHeld, MidUpdate, Critical
    <2>4. QED
      BY <2>1, <2>2, <2>3
  <1>10. ASSUME IInv, NEW t \in Threads, PostExpire(t) PROVE IInv'
    <2> USE <1>10 DEF PostExpire, Go, ring, taken
    <2>1. TypeOK' /\ Placed' /\ NothingYet'
      BY DEF TypeOK, Placed, NothingYet, PCs, PostPCs, RecvPCs, Waits
    <2>2. RingConsistent'
      BY DEF RingConsistent
    <2>3. MutexHeld' /\ MidUpdate'
      BY ThreadAssumption DEF TypeOK, MutexHeld, MidUpdate, Critical
    <2>4. QED
      BY <2>1, <2>2, <2>3
  <1>11. ASSUME IInv, NEW t \in Threads, NEW w \in Waits, CallReceive(t, w) PROVE IInv'
    <2> USE <1>11 DEF CallReceive, Go, ring, taken
    <2>1. TypeOK' /\ Placed' /\ NothingYet'
      BY DEF TypeOK, Placed, NothingYet, PCs, PostPCs, RecvPCs, Waits
    <2>2. RingConsistent'
      BY DEF RingConsistent
    <2>3. MutexHeld' /\ MidUpdate'
      BY ThreadAssumption DEF TypeOK, MutexHeld, MidUpdate, Critical
    <2>4. QED
      BY <2>1, <2>2, <2>3
  <1>12. ASSUME IInv, NEW t \in Threads, RecvLock(t) PROVE IInv'
    <2> USE <1>12 DEF RecvLock, Go, ring, taken, Acquire
    <2>1. TypeOK' /\ Placed' /\ NothingYet'
      BY DEF TypeOK, Placed, NothingYet, PCs, PostPCs, RecvPCs, Waits
    <2>2. RingConsistent'
      BY DEF RingConsistent
    <2>3. MutexHeld' /\ MidUpdate'
      BY ThreadAssumption DEF TypeOK, MutexHeld, MidUpdate, Critical
    <2>4. QED
      BY <2>1, <2>2, <2>3
  <1>13. ASSUME IInv, NEW t \in Threads, RecvRefuse(t) PROVE IInv'
    <2> USE <1>13 DEF RecvRefuse, Go, ring, taken, Release, Full, Empty
    <2>1. TypeOK' /\ Placed' /\ NothingYet'
      BY DEF TypeOK, Placed, NothingYet, PCs, PostPCs, RecvPCs, Waits
    <2>2. RingConsistent'
      BY DEF RingConsistent
    <2>3. MutexHeld' /\ MidUpdate'
      BY ThreadAssumption DEF TypeOK, MutexHeld, MidUpdate, Critical
    <2>4. QED
      BY <2>1, <2>2, <2>3
  <1>14. ASSUME IInv, NEW t \in Threads, RecvWait(t) PROVE IInv'
    <2> USE <1>14 DEF RecvWait, Go, ring, taken, Release, Full, Empty
    <2>1. TypeOK' /\ Placed' /\ NothingYet'
      BY DEF TypeOK, Placed, NothingYet, PCs, PostPCs, RecvPCs, Waits
    <2>2. RingConsistent'
      BY DEF RingConsistent
    <2>3. MutexHeld' /\ MidUpdate'
      BY ThreadAssumption DEF TypeOK, MutexHeld, MidUpdate, Critical
    <2>4. QED
      BY <2>1, <2>2, <2>3
  <1>15. ASSUME IInv, NEW t \in Threads, RecvLoad(t) PROVE IInv'
    <2> USE <1>15 DEF RecvLoad, Go, ring, taken, Full, Empty
    <2>1. TypeOK' /\ Placed' /\ NothingYet'
      BY DEF TypeOK, Placed, NothingYet, PCs, PostPCs, RecvPCs, Waits
    <2>2. RingConsistent'
      BY DEF RingConsistent
    <2>3. MutexHeld' /\ MidUpdate'
      BY ThreadAssumption, CapAssumption DEF TypeOK, MutexHeld, MidUpdate, Critical
    <2>4. QED
      BY <2>1, <2>2, <2>3
  <1>16. ASSUME IInv, NEW t \in Threads, RecvCommit(t) PROVE IInv'
    <2> USE <1>16 DEF RecvCommit, Go, ring, taken, Release, Signalled, Lesser
    <2>1. TypeOK' /\ Placed' /\ NothingYet'
      BY AfterInSlots, CapAssumption DEF TypeOK, Placed, NothingYet, PCs, PostPCs, RecvPCs, Waits, MidUpdate, Slots
    <2>2. RingConsistent'
      BY HeadMoves, CapAssumption DEF TypeOK, RingConsistent, MidUpdate
    <2>3. MutexHeld' /\ MidUpdate'
      BY ThreadAssumption, CapAssumption DEF TypeOK, MutexHeld, MidUpdate, Critical, Slots
    <2>4. QED
      BY <2>1, <2>2, <2>3
  <1>17. ASSUME IInv, NEW t \in Threads, RecvTimeout(t) PROVE IInv'
    <2> USE <1>17 DEF RecvTimeout, Go, ring, taken
    <2>1. TypeOK' /\ Placed' /\ NothingYet'
      <3>1. takenEmpty' \in 0 .. Cap
        BY CapAssumption DEF TypeOK, Lesser
      <3>2. QED
        BY <3>1 DEF TypeOK, Placed, NothingYet, PCs, PostPCs, RecvPCs, Waits
    <2>2. RingConsistent'
      BY DEF RingConsistent
    <2>3. MutexHeld' /\ MidUpdate'
      BY ThreadAssumption DEF TypeOK, MutexHeld, MidUpdate, Critical
    <2>4. QED
      BY <2>1, <2>2, <2>3
  <1>18. ASSUME IInv, NEW t \in Threads, RecvSpurious(t) PROVE IInv'
    <2> USE <1>18 DEF RecvSpurious, Go, ring, taken
    <2>1. TypeOK' /\ Placed' /\ NothingYet'
      BY DEF TypeOK, Placed, NothingYet, PCs, PostPCs, RecvPCs, Waits
    <2>2. RingConsistent'
      BY DEF RingConsistent
    <2>3. MutexHeld' /\ MidUpdate'
      BY ThreadAssumption DEF TypeOK, MutexHeld, MidUpdate, Critical
    <2>4. QED
      BY <2>1, <2>2, <2>3
  <1>19. ASSUME IInv, NEW t \in Threads, RecvRelock(t) PROVE IInv'
    <2> USE <1>19 DEF RecvRelock, Go, ring, taken, Acquire
    <2>1. TypeOK' /\ Placed' /\ NothingYet'
      BY DEF TypeOK, Placed, NothingYet, PCs, PostPCs, RecvPCs, Waits
    <2>2. RingConsistent'
      BY DEF RingConsistent
    <2>3. MutexHeld' /\ MidUpdate'
      BY ThreadAssumption DEF TypeOK, MutexHeld, MidUpdate, Critical
    <2>4. QED
      BY <2>1, <2>2, <2>3
  <1>20. ASSUME IInv, NEW t \in Threads, RecvExpire(t) PROVE IInv'
    <2> USE <1>20 DEF RecvExpire, Go, ring, taken
    <2>1. TypeOK' /\ Placed' /\ NothingYet'
      BY DEF TypeOK, Placed, NothingYet, PCs, PostPCs, RecvPCs, Waits
    <2>2. RingConsistent'
      BY DEF RingConsistent
    <2>3. MutexHeld' /\ MidUpdate'
      BY ThreadAssumption DEF TypeOK, MutexHeld, MidUpdate, Critical
    <2>4. QED
      BY <2>1, <2>2, <2>3
  <1>21. ASSUME IInv, NEW t \in Threads, Return(t) PROVE IInv'
    <2> USE <1>21 DEF Return, Go, ring, taken
    <2>1. TypeOK' /\ Placed' /\ NothingYet'
      BY DEF TypeOK, Placed, NothingYet, PCs, PostPCs, RecvPCs, Waits
    <2>2. RingConsistent'
      BY DEF RingConsistent
    <2>3. MutexHeld' /\ MidUpdate'
      BY ThreadAssumption DEF TypeOK, MutexHeld, MidUpdate, Critical
    <2>4. QED
      BY <2>1, <2>2, <2>3
  <1>22. ASSUME IInv, UNCHANGED vars PROVE IInv'
    BY <1>22 DEF vars, ring, taken, TypeOK, RingConsistent, MutexHeld, Placed, NothingYet, MidUpdate
  <1> QED
    BY <1>1, <1>2, <1>3, <1>4, <1>5, <1>6, <1>7, <1>8, <1>9, <1>10, <1>11, <1>12, <1>13, <1>14, <1>15, <1>16, <1>17, <1>18, <1>19, <1>20, <1>21, <1>22
       DEF Next, Step, BeginPost, BeginReceive, Run, TakeMutex, Timeout, Spurious

-----------------------------------------------------------------------------
(* No wakeup is lost. *)

\* The two halves of NoLostWakeup.
ReceiversWoken == notEmpty # {} => count <= Cardinality(AwakeReceivers) + takenEmpty
PostersWoken == notFull # {} => Cap - count <= Cardinality(AwakePosters) + takenFull

\* There are finitely many awake threads to count.
LEMMA AwakeFinite ==
    /\ IsFiniteSet(AwakeReceivers) /\ IsFiniteSet(AwakeReceivers')
    /\ IsFiniteSet(AwakePosters) /\ IsFiniteSet(AwakePosters')
  <1>1. /\ AwakeReceivers \subseteq Threads /\ AwakeReceivers' \subseteq Threads
        /\ AwakePosters \subseteq Threads /\ AwakePosters' \subseteq Threads
    BY DEF AwakeReceivers, AwakePosters, Threads
  <1>2. QED
    BY <1>1, ThreadAssumption, FS_Subset

\* Every step but five leaves count alone, puts nobody to sleep on not_empty
\* and sends no awake receiver away.
LEMMA ReceiversStayAwake ==
    ASSUME IInv, NEW t \in Threads, Step(t),
           ~PostCommit(t), ~RecvCommit(t), ~RecvRefuse(t), ~RecvWait(t), ~RecvTimeout(t)
    PROVE  /\ count' = count
           /\ takenEmpty' = takenEmpty
           /\ notEmpty' \subseteq notEmpty
           /\ AwakeReceivers \subseteq AwakeReceivers'
  <1> USE DEF IInv, TypeOK, Placed, Threads, AwakeReceivers, Go, ring, taken
  <1>1. CASE BeginPost(t) \/ BeginReceive(t)
    BY <1>1 DEF BeginPost, BeginReceive, CallPost, CallReceive
  <1>2. CASE Run(t)
    BY <1>2 DEF Run, PostRefuse, PostWait, PostStore, RecvLoad, Return
  <1>3. CASE TakeMutex(t)
    BY <1>3 DEF TakeMutex, PostLock, PostRelock, PostExpire, RecvLock, RecvRelock, RecvExpire
  <1>4. CASE Timeout(t) \/ Spurious(t)
    BY <1>4 DEF Timeout, Spurious, PostTimeout, RecvTimeout, PostSpurious, RecvSpurious
  <1>5. QED
    BY <1>1, <1>2, <1>3, <1>4 DEF Step

\* The same of posters and not_full.
LEMMA PostersStayAwake ==
    ASSUME IInv, NEW t \in Threads, Step(t),
           ~PostCommit(t), ~RecvCommit(t), ~PostRefuse(t), ~PostWait(t), ~PostTimeout(t)
    PROVE  /\ count' = count
           /\ takenFull' = takenFull
           /\ notFull' \subseteq notFull
           /\ AwakePosters \subseteq AwakePosters'
  <1> USE DEF IInv, TypeOK, Placed, Threads, AwakePosters, Go, ring, taken
  <1>1. CASE BeginPost(t) \/ BeginReceive(t)
    BY <1>1 DEF BeginPost, BeginReceive, CallPost, CallReceive
  <1>2. CASE Run(t)
    BY <1>2 DEF Run, RecvRefuse, RecvWait, PostStore, RecvLoad, Return
  <1>3. CASE TakeMutex(t)
    BY <1>3 DEF TakeMutex, PostLock, PostRelock, PostExpire, RecvLock, RecvRelock, RecvExpire
  <1>4. CASE Timeout(t) \/ Spurious(t)
    BY <1>4 DEF Timeout, Spurious, PostTimeout, RecvTimeout, PostSpurious, RecvSpurious
  <1>5. QED
    BY <1>1, <1>2, <1>3, <1>4 DEF Step

\* The signal of eq_post (event_queue_host.c:84) makes up for the event it
\* adds; a timed wait that takes one along is counted; the other steps do not
\* upset the balance.
LEMMA StepReceiversWoken ==
    ASSUME IInv, ReceiversWoken, [Next]_vars
    PROVE  ReceiversWoken'
  <1> USE DEF ReceiversWoken
  <1>1. CASE UNCHANGED vars
    BY <1>1 DEF vars, ring, taken, AwakeReceivers
  <1>2. ASSUME NEW t \in Threads, PostCommit(t) PROVE ReceiversWoken'
    <2>1. CASE notEmpty = {}
      BY <1>2, <2>1 DEF PostCommit, Signalled
    <2>2. CASE notEmpty # {}
      <3>1. PICK u \in notEmpty : notEmpty' = notEmpty \ {u}
        BY <1>2, <2>2 DEF PostCommit, Signalled
      <3>2. u \notin AwakeReceivers /\ AwakeReceivers' = AwakeReceivers \cup {u}
        BY <1>2, <3>1 DEF PostCommit, Go, IInv, TypeOK, Placed, AwakeReceivers, Threads
      <3>3. Cardinality(AwakeReceivers') = Cardinality(AwakeReceivers) + 1
        BY <3>2, AwakeFinite, FS_AddElement
      <3>4. /\ count' = count + 1 /\ takenEmpty' = takenEmpty
            /\ count <= Cardinality(AwakeReceivers) + takenEmpty
        BY <1>2, <2>2 DEF PostCommit
      <3>5. QED
        BY <3>3, <3>4, AwakeFinite, FS_CardinalityType, CapAssumption DEF IInv, TypeOK
    <2>3. QED
      BY <2>1, <2>2
  <1>3. ASSUME NEW t \in Threads, RecvCommit(t) PROVE ReceiversWoken'
    <2>1. t \in AwakeReceivers /\ AwakeReceivers' = AwakeReceivers \ {t}
      BY <1>3 DEF RecvCommit, Go, IInv, TypeOK, Placed, AwakeReceivers, RecvPCs
    <2>2. Cardinality(AwakeReceivers') = Cardinality(AwakeReceivers) - 1
      BY <2>1, AwakeFinite, FS_RemoveElement
    <2>3. count' = count - 1 /\ notEmpty' = notEmpty /\ takenEmpty' = Lesser(takenEmpty, count')
      BY <1>3 DEF RecvCommit
    <2>4. QED
      BY <2>2, <2>3, AwakeFinite, FS_CardinalityType, CapAssumption DEF IInv, TypeOK, Lesser
  <1>4. ASSUME NEW t \in Threads, RecvRefuse(t) \/ RecvWait(t) PROVE ReceiversWoken'
    <2>1. count' = 0 /\ takenEmpty' = takenEmpty
      BY <1>4 DEF RecvRefuse, RecvWait, Empty, ring, taken
    <2>2. QED
      BY <2>1, AwakeFinite, FS_CardinalityType, CapAssumption DEF IInv, TypeOK
  <1>5. ASSUME NEW t \in Threads, RecvTimeout(t) PROVE ReceiversWoken'
    <2>1. count' = count /\ notEmpty' = notEmpty \ {t}
      BY <1>5 DEF RecvTimeout, ring
    <2>2. CASE t \in notEmpty
      <3>1. AwakeReceivers' = AwakeReceivers /\ takenEmpty' = takenEmpty
        BY <1>5, <2>2 DEF RecvTimeout, Go, IInv, TypeOK, Placed, AwakeReceivers, Threads
      <3>2. QED
        BY <2>1, <3>1
    <2>3. CASE t \notin notEmpty
      <3>1. t \in AwakeReceivers /\ AwakeReceivers' = AwakeReceivers \ {t}
        BY <1>5, <2>3 DEF RecvTimeout, Go, IInv, TypeOK, Placed, AwakeReceivers, RecvPCs
      <3>2. Cardinality(AwakeReceivers') = Cardinality(AwakeReceivers) - 1
        BY <3>1, AwakeFinite, FS_RemoveElement
      <3>3. takenEmpty' = Lesser(takenEmpty + 1, count)
        BY <1>5, <2>3 DEF RecvTimeout
      <3>4. QED
        BY <2>1, <2>3, <3>2, <3>3, AwakeFinite, FS_CardinalityType, CapAssumption DEF IInv, TypeOK, Lesser
    <2>4. QED
      BY <2>2, <2>3
  <1>6. ASSUME NEW t \in Threads, Step(t),
               ~PostCommit(t), ~RecvCommit(t), ~RecvRefuse(t), ~RecvWait(t), ~RecvTimeout(t)
        PROVE  ReceiversWoken'
    <2>1. /\ count' = count /\ takenEmpty' = takenEmpty /\ notEmpty' \subseteq notEmpty
          /\ AwakeReceivers \subseteq AwakeReceivers'
      BY <1>6, ReceiversStayAwake
    <2>2. Cardinality(AwakeReceivers) <= Cardinality(AwakeReceivers')
      BY <2>1, AwakeFinite, FS_Subset
    <2>3. QED
      BY <2>1, <2>2, AwakeFinite, FS_CardinalityType, CapAssumption DEF IInv, TypeOK
  <1>7. QED
    BY <1>1, <1>2, <1>3, <1>4, <1>5, <1>6 DEF Next

\* The signal of eq_receive (event_queue_host.c:112) makes up for the slot it
\* frees.
LEMMA StepPostersWoken ==
    ASSUME IInv, PostersWoken, [Next]_vars
    PROVE  PostersWoken'
  <1> USE DEF PostersWoken
  <1>1. CASE UNCHANGED vars
    BY <1>1 DEF vars, ring, taken, AwakePosters
  <1>2. ASSUME NEW t \in Threads, RecvCommit(t) PROVE PostersWoken'
    <2>1. CASE notFull = {}
      BY <1>2, <2>1 DEF RecvCommit, Signalled
    <2>2. CASE notFull # {}
      <3>1. PICK u \in notFull : notFull' = notFull \ {u}
        BY <1>2, <2>2 DEF RecvCommit, Signalled
      <3>2. u \notin AwakePosters /\ AwakePosters' = AwakePosters \cup {u}
        BY <1>2, <3>1 DEF RecvCommit, Go, IInv, TypeOK, Placed, AwakePosters, Threads
      <3>3. Cardinality(AwakePosters') = Cardinality(AwakePosters) + 1
        BY <3>2, AwakeFinite, FS_AddElement
      <3>4. /\ count' = count - 1 /\ takenFull' = takenFull
            /\ Cap - count <= Cardinality(AwakePosters) + takenFull
        BY <1>2, <2>2 DEF RecvCommit
      <3>5. QED
        BY <3>3, <3>4, AwakeFinite, FS_CardinalityType, CapAssumption DEF IInv, TypeOK
    <2>3. QED
      BY <2>1, <2>2
  <1>3. ASSUME NEW t \in Threads, PostCommit(t) PROVE PostersWoken'
    <2>1. t \in AwakePosters /\ AwakePosters' = AwakePosters \ {t}
      BY <1>3 DEF PostCommit, Go, IInv, TypeOK, Placed, AwakePosters, PostPCs
    <2>2. Cardinality(AwakePosters') = Cardinality(AwakePosters) - 1
      BY <2>1, AwakeFinite, FS_RemoveElement
    <2>3. count' = count + 1 /\ notFull' = notFull /\ takenFull' = Lesser(takenFull, Cap - count')
      BY <1>3 DEF PostCommit
    <2>4. QED
      BY <2>2, <2>3, AwakeFinite, FS_CardinalityType, CapAssumption DEF IInv, TypeOK, Lesser
  <1>4. ASSUME NEW t \in Threads, PostRefuse(t) \/ PostWait(t) PROVE PostersWoken'
    <2>1. count' = Cap /\ takenFull' = takenFull
      BY <1>4 DEF PostRefuse, PostWait, Full, ring, taken
    <2>2. QED
      BY <2>1, AwakeFinite, FS_CardinalityType, CapAssumption DEF IInv, TypeOK
  <1>5. ASSUME NEW t \in Threads, PostTimeout(t) PROVE PostersWoken'
    <2>1. count' = count /\ notFull' = notFull \ {t}
      BY <1>5 DEF PostTimeout, ring
    <2>2. CASE t \in notFull
      <3>1. AwakePosters' = AwakePosters /\ takenFull' = takenFull
        BY <1>5, <2>2 DEF PostTimeout, Go, IInv, TypeOK, Placed, AwakePosters, Threads
      <3>2. QED
        BY <2>1, <3>1
    <2>3. CASE t \notin notFull
      <3>1. t \in AwakePosters /\ AwakePosters' = AwakePosters \ {t}
        BY <1>5, <2>3 DEF PostTimeout, Go, IInv, TypeOK, Placed, AwakePosters, PostPCs
      <3>2. Cardinality(AwakePosters') = Cardinality(AwakePosters) - 1
        BY <3>1, AwakeFinite, FS_RemoveElement
      <3>3. takenFull' = Lesser(takenFull + 1, Cap - count)
        BY <1>5, <2>3 DEF PostTimeout
      <3>4. QED
        BY <2>1, <2>3, <3>2, <3>3, AwakeFinite, FS_CardinalityType, CapAssumption DEF IInv, TypeOK, Lesser
    <2>4. QED
      BY <2>2, <2>3
  <1>6. ASSUME NEW t \in Threads, Step(t),
               ~PostCommit(t), ~RecvCommit(t), ~PostRefuse(t), ~PostWait(t), ~PostTimeout(t)
        PROVE  PostersWoken'
    <2>1. /\ count' = count /\ takenFull' = takenFull /\ notFull' \subseteq notFull
          /\ AwakePosters \subseteq AwakePosters'
      BY <1>6, PostersStayAwake
    <2>2. Cardinality(AwakePosters) <= Cardinality(AwakePosters')
      BY <2>1, AwakeFinite, FS_Subset
    <2>3. QED
      BY <2>1, <2>2, AwakeFinite, FS_CardinalityType, CapAssumption DEF IInv, TypeOK
  <1>7. QED
    BY <1>1, <1>2, <1>3, <1>4, <1>5, <1>6 DEF Next

-----------------------------------------------------------------------------
(* The theorems about the states a thread can find the queue in. *)

\* The strengthened invariant holds in every state of the host queue: the
\* fields agree, the mutex protects them, and a thread about to commit has its
\* event in the slot (event_queue_host.c:81, :109).
THEOREM InvariantHolds == Spec => []IInv
  BY InitIInv, StepIInv, PTL DEF Spec

\* The variables keep their types: in particular head and tail stay inside
\* the allocated slots and count never passes the capacity.
THEOREM TypeCorrect == Spec => []TypeOK
  <1>1. IInv => TypeOK
    BY DEF IInv
  <1>2. QED
    BY <1>1, InvariantHolds, PTL

\* head, tail and count always agree: each is moved in its own statement
\* (event_queue_host.c:82, :83, :110, :111), and tail stays count slots after head.
THEOREM RingStaysConsistent == Spec => []RingConsistent
  <1>1. IInv => RingConsistent
    BY DEF IInv
  <1>2. QED
    BY <1>1, InvariantHolds, PTL

\* Between lock and unlock a thread holds the mutex, and no call returns or
\* waits with it, the early returns (event_queue_host.c:66, :76, :94, :104)
\* included.
THEOREM MutexAlwaysHeld == Spec => []MutexHeld
  <1>1. IInv => MutexHeld
    BY DEF IInv
  <1>2. QED
    BY <1>1, InvariantHolds, PTL

\* pthread_cond_signal, one waiter per event and per freed slot, is enough as
\* far as the code goes: if a thread sleeps beside an event or a slot that no
\* awake thread is about to take, then a timed wait took the signal for it as
\* it expired, which POSIX allows and event_queue_host.c:75 and :103 let pass.
THEOREM NoWakeupIsLost == Spec => []NoLostWakeup
  <1>1. Init => ReceiversWoken /\ PostersWoken
    BY DEF Init, ReceiversWoken, PostersWoken
  <1>2. IInv /\ ReceiversWoken /\ PostersWoken /\ [Next]_vars
            => (ReceiversWoken /\ PostersWoken)'
    BY StepReceiversWoken, StepPostersWoken
  <1>3. ReceiversWoken /\ PostersWoken => NoLostWakeup
    BY DEF ReceiversWoken, PostersWoken, NoLostWakeup
  <1>4. QED
    BY <1>1, <1>2, <1>3, InvariantHolds, PTL DEF Spec

-----------------------------------------------------------------------------
(* The ring buffer implements the bounded FIFO of EventQueue. *)

\* Slots of queued events never are the slot being written.
LEMMA SlotsApart ==
    ASSUME NEW h \in Slots, NEW n \in 0 .. Cap - 1, NEW i \in 1 .. n
    PROVE  (h + i - 1) % Cap # (h + n) % Cap
  <1>1. h + i - 1 \in Nat /\ h + n \in Nat /\ h + i - 1 < h + n /\ h + n < h + i - 1 + Cap
    BY CapAssumption DEF Slots
  <1>2. h + n < 2 * Cap /\ h + i - 1 < 2 * Cap
    BY CapAssumption DEF Slots
  <1>3. QED
    BY <1>1, <1>2, ModTwice, CapAssumption

\* An index taken modulo Cap is a slot of the ring.
LEMMA SlotInRange ==
    ASSUME NEW i \in Nat
    PROVE  i % Cap \in Slots
  BY CapAssumption DEF Slots

\* The i-th event from the next head is the one after the i-th from this head.
LEMMA AfterShift ==
    ASSUME NEW h \in Slots, NEW i \in 1 .. Cap - 1
    PROVE  (After(h) + i - 1) % Cap = (h + (i + 1) - 1) % Cap
  BY CapAssumption, ModTwice DEF After, Slots

\* Contents is a sequence of count events.
LEMMA ContentsSeq ==
    ASSUME TypeOK
    PROVE  Contents \in Seq(Events) /\ Len(Contents) = count
  <1>1. count \in Nat
    BY CapAssumption DEF TypeOK
  <1>2. ASSUME NEW i \in 1 .. count PROVE buf[(head + i - 1) % Cap] \in Events
    <2>1. head + i - 1 \in Nat
      BY <1>1, CapAssumption DEF TypeOK, Slots
    <2>2. QED
      BY <2>1, SlotInRange DEF TypeOK
  <1>3. QED
    BY <1>1, <1>2 DEF Contents

\* The queue eq_create returns is the empty FIFO.
LEMMA RefinesInit == Init => EQ!Init
  <1> SUFFICES ASSUME Init PROVE EQ!Init
    OBVIOUS
  <1>1. Contents = <<>>
    BY DEF Init, Contents
  <1>2. [t \in Threads |-> PhaseOf(pc[t])] = [t \in Threads |-> "idle"]
    BY DEF Init, PhaseOf, PostPCs, RecvPCs
  <1>3. [t \in Threads |-> Held(t)] = [t \in Threads |-> NoEvent]
    BY DEF Init, Held
  <1>4. QED
    BY <1>1, <1>2, <1>3 DEF Init, EQ!Init, EQ!Threads, Threads

\* The steps inside a call that the caller of the queue cannot see.
LEMMA InsideACall ==
    ASSUME IInv, NEW t \in Threads,
           \/ PostLock(t) \/ PostWait(t) \/ PostStore(t) \/ PostRelock(t)
           \/ RecvLock(t) \/ RecvWait(t) \/ RecvLoad(t) \/ RecvRelock(t)
           \/ Timeout(t) \/ Spurious(t)
    PROVE  UNCHANGED EQ!vars
  <1>1. wait' = wait
    BY DEF PostLock, PostWait, PostStore, PostRelock, RecvLock, RecvWait, RecvLoad, RecvRelock,
           Timeout, Spurious, PostTimeout, RecvTimeout, PostSpurious, RecvSpurious
  <1>2. ASSUME NEW u \in Threads PROVE PhaseOf(pc'[u]) = PhaseOf(pc[u])
    BY DEF PostLock, PostWait, PostStore, PostRelock, RecvLock, RecvWait, RecvLoad, RecvRelock,
           Timeout, Spurious, PostTimeout, RecvTimeout, PostSpurious, RecvSpurious,
           Go, PhaseOf, PostPCs, RecvPCs, IInv, TypeOK
  <1>3. ASSUME NEW u \in Threads PROVE Held(u)' = Held(u)
    BY DEF PostLock, PostWait, PostStore, PostRelock, RecvLock, RecvWait, RecvLoad, RecvRelock,
           Timeout, Spurious, PostTimeout, RecvTimeout, PostSpurious, RecvSpurious,
           Go, Held, RecvPCs, IInv, TypeOK, NothingYet
  <1>4. Contents' = Contents
    <2>1. CASE PostStore(t)
      <3>1. /\ head \in Slots /\ count \in 0 .. Cap - 1 /\ tail = (head + count) % Cap
            /\ buf' = [buf EXCEPT ![tail] = evt[t]] /\ head' = head /\ count' = count
        BY <2>1, CapAssumption DEF PostStore, Full, IInv, TypeOK, RingConsistent
      <3>2. ASSUME NEW i \in 1 .. count
            PROVE  buf'[(head + i - 1) % Cap] = buf[(head + i - 1) % Cap]
        <4>1. (head + i - 1) % Cap # tail
          BY <3>1, SlotsApart
        <4>2. QED
          BY <3>1, <4>1 DEF IInv, TypeOK
      <3>3. QED
        BY <3>1, <3>2 DEF Contents
    <2>2. CASE ~PostStore(t)
      <3>1. UNCHANGED ring
        BY <2>2 DEF PostLock, PostWait, PostRelock, RecvLock, RecvWait, RecvLoad, RecvRelock,
           Timeout, Spurious, PostTimeout, RecvTimeout, PostSpurious, RecvSpurious
      <3>2. QED
        BY <3>1 DEF ring, Contents
    <2>3. QED
      BY <2>1, <2>2
  <1>5. QED
    BY <1>1, <1>2, <1>3, <1>4 DEF EQ!vars

\* How a step of thread t to statement p looks from outside.
LEMMA PhaseMoves ==
    ASSUME TypeOK, NEW t \in Threads, NEW p, pc' = [pc EXCEPT ![t] = p]
    PROVE  [u \in Threads |-> PhaseOf(pc[u])]' =
             [[u \in Threads |-> PhaseOf(pc[u])] EXCEPT ![t] = PhaseOf(p)]
  BY DEF TypeOK

\* The beginning of a call is the beginning of the same call of the FIFO.
LEMMA CallsRefine ==
    ASSUME IInv, NEW t \in Threads, BeginPost(t) \/ BeginReceive(t) \/ Return(t)
    PROVE  EQ!Step(t)
  <1>1. ASSUME NEW e \in Events, NEW w \in Waits, CallPost(t, e, w)
        PROVE  EQ!CallPost(t, e, w)
    <2>1. [u \in Threads |-> PhaseOf(pc[u])]' =
            [[u \in Threads |-> PhaseOf(pc[u])] EXCEPT ![t] = "post"]
      BY <1>1, PhaseMoves DEF CallPost, Go, IInv, PhaseOf, PostPCs, RecvPCs
    <2>2. PhaseOf(pc[t]) = "idle"
      BY <1>1 DEF CallPost, Go, PhaseOf, PostPCs, RecvPCs
    <2>3. [u \in Threads |-> Held(u)]' = [[u \in Threads |-> Held(u)] EXCEPT ![t] = e]
      BY <1>1 DEF CallPost, Go, Held, IInv, TypeOK
    <2>4. Contents' = Contents
      BY <1>1 DEF CallPost, ring, Contents
    <2>5. QED
      BY <1>1, <2>1, <2>2, <2>3, <2>4 DEF CallPost, EQ!CallPost
  <1>2. ASSUME NEW w \in Waits, CallReceive(t, w)
        PROVE  EQ!CallReceive(t, w)
    <2>1. [u \in Threads |-> PhaseOf(pc[u])]' =
            [[u \in Threads |-> PhaseOf(pc[u])] EXCEPT ![t] = "recv"]
      BY <1>2, PhaseMoves DEF CallReceive, Go, IInv, PhaseOf, PostPCs, RecvPCs
    <2>2. PhaseOf(pc[t]) = "idle"
      BY <1>2 DEF CallReceive, Go, PhaseOf, PostPCs, RecvPCs
    <2>3. [u \in Threads |-> Held(u)]' = [u \in Threads |-> Held(u)]
      BY <1>2 DEF CallReceive, Go, Held, IInv, TypeOK
    <2>4. Contents' = Contents
      BY <1>2 DEF CallReceive, ring, Contents
    <2>5. QED
      BY <1>2, <2>1, <2>2, <2>3, <2>4 DEF CallReceive, EQ!CallReceive
  <1>3. ASSUME Return(t)
        PROVE  EQ!Return(t)
    <2>1. [u \in Threads |-> PhaseOf(pc[u])]' =
            [[u \in Threads |-> PhaseOf(pc[u])] EXCEPT ![t] = "idle"]
      BY <1>3, PhaseMoves DEF Return, IInv, PhaseOf, PostPCs, RecvPCs
    <2>2. PhaseOf(pc[t]) \in {"done", "failed"}
      BY <1>3 DEF Return, PhaseOf, PostPCs, RecvPCs
    <2>3. [u \in Threads |-> Held(u)]' = [[u \in Threads |-> Held(u)] EXCEPT ![t] = NoEvent]
      BY <1>3 DEF Return, Held, IInv, TypeOK
    <2>4. Contents' = Contents
      BY <1>3 DEF Return, ring, Contents
    <2>5. QED
      BY <1>3, <2>1, <2>2, <2>3, <2>4 DEF Return, EQ!Return
  <1>4. QED
    BY <1>1, <1>2, <1>3 DEF BeginPost, BeginReceive, EQ!Step, EQ!Waits, Waits

\* Returning false is giving up: at once only because the queue is full or
\* empty, later only with a timeout.
LEMMA FailuresRefine ==
    ASSUME IInv, NEW t \in Threads,
           PostRefuse(t) \/ PostExpire(t) \/ RecvRefuse(t) \/ RecvExpire(t)
    PROVE  EQ!Step(t)
  <1>1. [u \in Threads |-> PhaseOf(pc[u])]' =
          [[u \in Threads |-> PhaseOf(pc[u])] EXCEPT ![t] = "failed"]
    BY PhaseMoves DEF PostRefuse, PostExpire, RecvRefuse, RecvExpire, Go, IInv,
                      PhaseOf, PostPCs, RecvPCs
  <1>2. [u \in Threads |-> Held(u)]' = [u \in Threads |-> Held(u)]
    BY DEF PostRefuse, PostExpire, RecvRefuse, RecvExpire, Go, Held, IInv, TypeOK
  <1>3. Contents' = Contents /\ wait' = wait
    BY DEF PostRefuse, PostExpire, RecvRefuse, RecvExpire, ring, Contents
  <1>4. Len(Contents) = count
    BY ContentsSeq DEF IInv
  <1>5. CASE PostRefuse(t) \/ PostExpire(t)
    <2>1. PhaseOf(pc[t]) = "post"
      BY <1>5 DEF PostRefuse, PostExpire, Go, PhaseOf, PostPCs, RecvPCs
    <2>2. wait[t] # "forever" /\ (wait[t] = "nowait" => Len(Contents) = Cap)
      BY <1>4, <1>5 DEF PostRefuse, PostExpire, Go, Full, IInv, Placed
    <2>3. EQ!PostFail(t)
      BY <1>1, <1>2, <1>3, <2>1, <2>2 DEF EQ!PostFail
    <2>4. QED
      BY <2>3 DEF EQ!Step
  <1>6. CASE RecvRefuse(t) \/ RecvExpire(t)
    <2>1. PhaseOf(pc[t]) = "recv"
      BY <1>6 DEF RecvRefuse, RecvExpire, Go, PhaseOf, PostPCs, RecvPCs
    <2>2. wait[t] # "forever" /\ (wait[t] = "nowait" => Contents = <<>>)
      <3>1. wait[t] # "forever" /\ (wait[t] = "nowait" => count = 0)
        BY <1>6 DEF RecvRefuse, RecvExpire, Go, Empty, IInv, Placed
      <3>2. count = 0 => Contents = <<>>
        BY DEF Contents
      <3>3. QED
        BY <3>1, <3>2
    <2>3. EQ!ReceiveFail(t)
      BY <1>1, <1>2, <1>3, <2>1, <2>2 DEF EQ!ReceiveFail
    <2>4. QED
      BY <2>3 DEF EQ!Step
  <1>7. QED
    BY <1>5, <1>6

\* PostCommit is where the event enters the queue.
LEMMA PostCommitRefines ==
    ASSUME IInv, NEW t \in Threads, PostCommit(t)
    PROVE  EQ!PostOk(t)
  <1>1. /\ head \in Slots /\ count \in 0 .. Cap - 1 /\ tail = (head + count) % Cap
        /\ buf[tail] = evt[t]
        /\ count' = count + 1 /\ buf' = buf /\ head' = head
    BY CapAssumption DEF PostCommit, Go, IInv, TypeOK, RingConsistent, MidUpdate
  <1>2. [u \in Threads |-> PhaseOf(pc[u])]' =
          [[u \in Threads |-> PhaseOf(pc[u])] EXCEPT ![t] = "done"]
    BY PhaseMoves DEF PostCommit, Go, IInv, PhaseOf, PostPCs, RecvPCs
  <1>3. PhaseOf(pc[t]) = "post" /\ Held(t) = evt[t]
    BY DEF PostCommit, Go, PhaseOf, PostPCs, RecvPCs, Held
  <1>4. [u \in Threads |-> Held(u)]' = [u \in Threads |-> Held(u)] /\ wait' = wait
    BY DEF PostCommit, Go, Held, IInv, TypeOK
  <1>5. Contents \in Seq(Events) /\ Len(Contents) = count
    BY ContentsSeq DEF IInv
  <1>6. Contents' = Append(Contents, evt[t])
    <2>1. Append(Contents, evt[t]) =
            [i \in 1 .. count + 1 |-> IF i = count + 1 THEN evt[t] ELSE Contents[i]]
      BY <1>5
    <2>2. Contents' = [i \in 1 .. count + 1 |-> buf[(head + i - 1) % Cap]]
      BY <1>1 DEF Contents
    <2>3. buf[(head + (count + 1) - 1) % Cap] = evt[t]
      <3>1. head + (count + 1) - 1 = head + count
        BY <1>1 DEF Slots
      <3>2. QED
        BY <1>1, <3>1
    <2>4. ASSUME NEW i \in 1 .. count + 1, i # count + 1
          PROVE  Contents[i] = buf[(head + i - 1) % Cap]
      BY <1>1, <2>4 DEF Contents
    <2>5. QED
      BY <2>1, <2>2, <2>3, <2>4
  <1>7. QED
    BY <1>1, <1>2, <1>3, <1>4, <1>5, <1>6, CapAssumption DEF EQ!PostOk

\* RecvCommit is where the event leaves it.
LEMMA RecvCommitRefines ==
    ASSUME IInv, NEW t \in Threads, RecvCommit(t)
    PROVE  EQ!ReceiveOk(t)
  <1>1. /\ head \in Slots /\ count \in 1 .. Cap /\ buf[head] = evt[t]
        /\ count' = count - 1 /\ buf' = buf /\ head' = After(head)
    BY CapAssumption DEF RecvCommit, Go, IInv, TypeOK, MidUpdate
  <1>2. [u \in Threads |-> PhaseOf(pc[u])]' =
          [[u \in Threads |-> PhaseOf(pc[u])] EXCEPT ![t] = "done"]
    BY PhaseMoves DEF RecvCommit, Go, IInv, PhaseOf, PostPCs, RecvPCs
  <1>3. PhaseOf(pc[t]) = "recv"
    BY DEF RecvCommit, Go, PhaseOf, PostPCs, RecvPCs
  <1>4. [u \in Threads |-> Held(u)]' = [[u \in Threads |-> Held(u)] EXCEPT ![t] = evt[t]]
        /\ wait' = wait
    BY DEF RecvCommit, Go, Held, IInv, TypeOK
  <1>5. Contents \in Seq(Events) /\ Len(Contents) = count
    BY ContentsSeq DEF IInv
  <1>6. Contents # <<>> /\ Head(Contents) = evt[t]
    <2>1. (head + 1 - 1) % Cap = head
      BY <1>1, CapAssumption DEF Slots
    <2>2. Contents[1] = evt[t]
      BY <1>1, <2>1 DEF Contents
    <2>3. QED
      BY <1>1, <1>5, <2>2
  <1>7. Contents' = Tail(Contents)
    <2>1. Tail(Contents) = [i \in 1 .. count - 1 |-> Contents[i + 1]]
      <3>1. /\ Tail(Contents) \in Seq(Events) /\ Len(Tail(Contents)) = count - 1
            /\ \A i \in 1 .. count - 1 : Tail(Contents)[i] = Contents[i + 1]
        BY <1>5, <1>6, HeadTailProperties
      <3> DEFINE Rest == [i \in 1 .. count - 1 |-> Contents[i + 1]]
      <3>2. \A i \in 1 .. count - 1 : Contents[i + 1] \in Events
        BY <1>1, <1>5, ElementOfSeq, CapAssumption
      <3>3. Rest \in Seq(Events) /\ Len(Rest) = count - 1
        BY <1>1, <3>2, CapAssumption
      <3>4. \A i \in 1 .. count - 1 : Tail(Contents)[i] = Rest[i]
        BY <3>1
      <3>5. Tail(Contents) = Rest
        BY <3>1, <3>3, <3>4, SeqEqual
      <3>6. QED
        BY <3>5
    <2>2. ASSUME NEW i \in 1 .. count - 1
          PROVE  Contents[i + 1] = buf[(After(head) + i - 1) % Cap]
      <3>1. (After(head) + i - 1) % Cap = (head + (i + 1) - 1) % Cap
        BY <1>1, AfterShift, CapAssumption
      <3>2. Contents[i + 1] = buf[(head + (i + 1) - 1) % Cap]
        BY <1>1, CapAssumption DEF Contents
      <3>3. QED
        BY <3>1, <3>2
    <2>3. Contents' = [i \in 1 .. count - 1 |-> buf[(After(head) + i - 1) % Cap]]
      BY <1>1 DEF Contents
    <2>4. QED
      BY <2>1, <2>2, <2>3
  <1>8. QED
    BY <1>2, <1>3, <1>4, <1>6, <1>7 DEF EQ!ReceiveOk

\* Every step of the host queue is a step of the FIFO or leaves it alone.
LEMMA RefinesStep == IInv /\ [Next]_vars => [EQ!Next]_EQ!vars
  <1> SUFFICES ASSUME IInv, [Next]_vars PROVE [EQ!Next]_EQ!vars
    OBVIOUS
  <1>1. CASE UNCHANGED vars
    <2>1. Contents' = Contents /\ wait' = wait
      BY <1>1 DEF vars, ring, Contents
    <2>2. /\ [u \in Threads |-> PhaseOf(pc[u])]' = [u \in Threads |-> PhaseOf(pc[u])]
          /\ [u \in Threads |-> Held(u)]' = [u \in Threads |-> Held(u)]
      BY <1>1 DEF vars, Held
    <2>3. QED
      BY <2>1, <2>2 DEF EQ!vars
  <1>2. ASSUME NEW t \in Threads, Step(t) PROVE EQ!Step(t) \/ UNCHANGED EQ!vars
    <2>1. CASE BeginPost(t) \/ BeginReceive(t) \/ Return(t)
      BY <2>1, CallsRefine
    <2>2. CASE PostRefuse(t) \/ PostExpire(t) \/ RecvRefuse(t) \/ RecvExpire(t)
      BY <2>2, FailuresRefine
    <2>3. CASE PostCommit(t)
      BY <2>3, PostCommitRefines DEF EQ!Step
    <2>4. CASE RecvCommit(t)
      BY <2>4, RecvCommitRefines DEF EQ!Step
    <2>5. CASE \/ PostLock(t) \/ PostWait(t) \/ PostStore(t) \/ PostRelock(t)
               \/ RecvLock(t) \/ RecvWait(t) \/ RecvLoad(t) \/ RecvRelock(t)
               \/ Timeout(t) \/ Spurious(t)
      BY <2>5, InsideACall
    <2>6. QED
      BY <1>2, <2>1, <2>2, <2>3, <2>4, <2>5 DEF Step, Run, TakeMutex
  <1>3. QED
    BY <1>1, <1>2 DEF Next, EQ!Next, EQ!Threads, Threads

\* The host queue does what event_queue.h promises, whatever the capacity, the
\* threads and their interleaving: every behaviour of the ring buffer, seen
\* through Contents, is a behaviour of the bounded FIFO.
THEOREM HostImplementsEventQueue == Spec => ImplementsEventQueue
  <1>1. Init => EQ!Init
    BY RefinesInit
  <1>2. IInv /\ [Next]_vars => [EQ!Next]_EQ!vars
    BY RefinesStep
  <1>3. QED
    BY <1>1, <1>2, InvariantHolds, PTL DEF Spec, EQ!Spec, ImplementsEventQueue

=============================================================================
