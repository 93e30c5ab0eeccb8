---------------------------- MODULE EventQueueHost ----------------------------
(***************************************************************************)
(* The host build of the event queue, event_queue/host/event_queue_host.c:  *)
(* a ring buffer under one pthread mutex, with the condition variables      *)
(* not_empty and not_full.                                                  *)
(*                                                                          *)
(* A step is what a thread does between two points where another thread     *)
(* can get in: taking the mutex, evaluating the while condition, writing or *)
(* reading the slot, moving the indices.  pthread_cond_wait is three steps  *)
(* (release the mutex and join the wait set; be signalled, time out or wake *)
(* for no reason; take the mutex again).  Signal and unlock are one step:   *)
(* a thread signalled earlier still has to wait for the mutex.              *)
(*                                                                          *)
(* The clock is left out.  A timed wait may time out at any moment; the     *)
(* wait is a new one, with a new deadline, every time the while loop comes  *)
(* round.                                                                   *)
(*                                                                          *)
(* POSIX lets a timed wait that is signalled as it expires return ETIMEDOUT *)
(* and keep the signal.  An implementation may pass such a signal on, and   *)
(* glibc means to; nothing here relies on it.  takenEmpty and takenFull     *)
(* count the signals that went this way.  They are history: no guard reads  *)
(* them.                                                                    *)
(***************************************************************************)
EXTENDS Integers, FiniteSets

CONSTANTS
    Posters, Receivers, Events, NoEvent, Cap,   \* as in EventQueue
    ZeroEvent,          \* the all-zero ev_t calloc leaves in every slot
    SpuriousWakeups,    \* whether pthread_cond_wait may return unsignalled
    NoThread            \* the holder of a free mutex

ASSUME CapAssumption == Cap \in Nat \ {0}
ASSUME EventAssumption == NoEvent \notin Events
ASSUME ZeroAssumption == ZeroEvent \in Events
ASSUME SpuriousAssumption == SpuriousWakeups \in BOOLEAN

Threads == Posters \cup Receivers

ASSUME ThreadAssumption == IsFiniteSet(Threads) /\ NoThread \notin Threads

Waits == {"nowait", "timed", "forever"}

VARIABLES
    buf, head, tail, count,     \* struct event_queue
    lock,                       \* the thread that holds the mutex
    notEmpty, notFull,          \* the threads waiting on each condition variable
    pc,                         \* the next statement of each thread
    evt,                        \* *evt of a post, *out of a receive
    wait,                       \* timeout_ms
    takenEmpty, takenFull       \* signals that timed-out waits may have taken

ring == <<buf, head, tail, count>>
taken == <<takenEmpty, takenFull>>
vars == <<ring, lock, notEmpty, notFull, pc, evt, wait, taken>>

Slots == 0 .. Cap - 1

\* The statements of eq_post, of eq_receive, and between calls.
PostPCs == {"post_enter", "post_loop", "post_wait", "post_expired", "post_commit"}
RecvPCs == {"recv_enter", "recv_loop", "recv_wait", "recv_expired", "recv_commit"}
PCs == PostPCs \cup RecvPCs \cup {"idle", "done", "failed"}

\* The statements executed with the mutex held.
Critical == {"post_loop", "post_commit", "recv_loop", "recv_commit"}

TypeOK ==
    /\ buf \in [Slots -> Events]
    /\ head \in Slots /\ tail \in Slots /\ count \in 0 .. Cap
    /\ lock \in Threads \cup {NoThread}
    /\ notEmpty \subseteq Receivers /\ notFull \subseteq Posters
    /\ pc \in [Threads -> PCs]
    /\ evt \in [Threads -> Events \cup {NoEvent}]
    /\ wait \in [Threads -> Waits]
    /\ takenEmpty \in 0 .. Cap /\ takenFull \in 0 .. Cap

Init ==
    /\ buf = [i \in Slots |-> ZeroEvent]
    /\ head = 0 /\ tail = 0 /\ count = 0
    /\ lock = NoThread
    /\ notEmpty = {} /\ notFull = {}
    /\ pc = [t \in Threads |-> "idle"]
    /\ evt = [t \in Threads |-> NoEvent]
    /\ wait = [t \in Threads |-> "nowait"]
    /\ takenEmpty = 0 /\ takenFull = 0

-----------------------------------------------------------------------------
(* The pthread primitives. *)

Go(t, from, to) == pc[t] = from /\ pc' = [pc EXCEPT ![t] = to]

Acquire(t) == lock = NoThread /\ lock' = t
Release == lock' = NoThread

\* W' after pthread_cond_signal: one waiter, if there is one, leaves.
Signalled(W) == IF W = {} THEN {W} ELSE {W \ {t} : t \in W}

Lesser(i, j) == IF i < j THEN i ELSE j

\* Bug variant of After: wraps one slot late.
AfterWrapsLate(i) == IF i = Cap THEN 0 ELSE i + 1

\* Where the ring index after i is.
After(i) == (i + 1) % Cap

\* Bug variant of Full: off by one.
FullOffByOne == count > Cap

Full == count = Cap

Empty == count = 0

-----------------------------------------------------------------------------
(* eq_post *)

CallPost(t, e, w) ==
    /\ t \in Posters
    /\ Go(t, "idle", "post_enter")
    /\ evt' = [evt EXCEPT ![t] = e]
    /\ wait' = [wait EXCEPT ![t] = w]
    /\ UNCHANGED <<ring, lock, notEmpty, notFull, taken>>

PostLock(t) ==
    /\ Go(t, "post_enter", "post_loop")
    /\ Acquire(t)
    /\ UNCHANGED <<ring, notEmpty, notFull, evt, wait, taken>>

PostRefuse(t) ==
    /\ Go(t, "post_loop", "failed")
    /\ Full
    /\ wait[t] = "nowait"
    /\ Release
    /\ UNCHANGED <<ring, notEmpty, notFull, evt, wait, taken>>

PostWait(t) ==
    /\ Go(t, "post_loop", "post_wait")
    /\ Full
    /\ wait[t] # "nowait"
    /\ notFull' = notFull \cup {t}
    /\ Release
    /\ UNCHANGED <<ring, notEmpty, evt, wait, taken>>

PostStore(t) ==
    /\ Go(t, "post_loop", "post_commit")
    /\ ~Full
    /\ buf' = [buf EXCEPT ![tail] = evt[t]]
    /\ UNCHANGED <<head, tail, count, lock, notEmpty, notFull, evt, wait, taken>>

\* Bug variant of PostCommit: signals only when the queue was empty.
PostCommitSignalsIfEmpty(t) ==
    /\ Go(t, "post_commit", "done")
    /\ tail' = After(tail)
    /\ count' = count + 1
    /\ takenFull' = Lesser(takenFull, Cap - count')
    /\ notEmpty' \in IF Empty THEN Signalled(notEmpty) ELSE {notEmpty}
    /\ Release
    /\ UNCHANGED <<buf, head, notFull, evt, wait, takenEmpty>>

\* Bug variant of PostCommit: signals the other condition variable.
PostCommitSignalsNotFull(t) ==
    /\ Go(t, "post_commit", "done")
    /\ tail' = After(tail)
    /\ count' = count + 1
    /\ takenFull' = Lesser(takenFull, Cap - count')
    /\ notFull' \in Signalled(notFull)
    /\ Release
    /\ UNCHANGED <<buf, head, notEmpty, evt, wait, takenEmpty>>

PostCommit(t) ==
    /\ Go(t, "post_commit", "done")
    /\ tail' = After(tail)
    /\ count' = count + 1
    /\ takenFull' = Lesser(takenFull, Cap - count')
    /\ notEmpty' \in Signalled(notEmpty)
    /\ Release
    /\ UNCHANGED <<buf, head, notFull, evt, wait, takenEmpty>>

\* The timer of the current pthread_cond_timedwait fires, in the wait set or
\* on the way out of it: then the signal that woke t is of no use to anyone.
PostTimeout(t) ==
    /\ Go(t, "post_wait", "post_expired")
    /\ wait[t] = "timed"
    /\ notFull' = notFull \ {t}
    /\ takenFull' = IF t \in notFull THEN takenFull ELSE Lesser(takenFull + 1, Cap - count)
    /\ UNCHANGED <<ring, lock, notEmpty, evt, wait, takenEmpty>>

PostSpurious(t) ==
    /\ SpuriousWakeups
    /\ t \in notFull
    /\ notFull' = notFull \ {t}
    /\ UNCHANGED <<ring, lock, notEmpty, pc, evt, wait, taken>>

\* Bug variant of PostRelock: if (full) wait, in place of while.
PostRelockWithoutLook(t) ==
    /\ Go(t, "post_wait", "post_commit")
    /\ t \notin notFull
    /\ Acquire(t)
    /\ buf' = [buf EXCEPT ![tail] = evt[t]]
    /\ UNCHANGED <<head, tail, count, notEmpty, notFull, evt, wait, taken>>

\* Out of the wait set without a timeout: take the mutex, look again.
PostRelock(t) ==
    /\ Go(t, "post_wait", "post_loop")
    /\ t \notin notFull
    /\ Acquire(t)
    /\ UNCHANGED <<ring, notEmpty, notFull, evt, wait, taken>>

\* ETIMEDOUT: take the mutex, release it, return false without looking again.
PostExpire(t) ==
    /\ Go(t, "post_expired", "failed")
    /\ lock = NoThread
    /\ UNCHANGED <<ring, lock, notEmpty, notFull, evt, wait, taken>>

-----------------------------------------------------------------------------
(* eq_receive *)

CallReceive(t, w) ==
    /\ t \in Receivers
    /\ Go(t, "idle", "recv_enter")
    /\ wait' = [wait EXCEPT ![t] = w]
    /\ UNCHANGED <<ring, lock, notEmpty, notFull, evt, taken>>

RecvLock(t) ==
    /\ Go(t, "recv_enter", "recv_loop")
    /\ Acquire(t)
    /\ UNCHANGED <<ring, notEmpty, notFull, evt, wait, taken>>

\* Bug variant of RecvRefuse: the early return forgets the unlock.
RecvRefuseKeepsMutex(t) ==
    /\ Go(t, "recv_loop", "failed")
    /\ Empty
    /\ wait[t] = "nowait"
    /\ UNCHANGED <<ring, lock, notEmpty, notFull, evt, wait, taken>>

RecvRefuse(t) ==
    /\ Go(t, "recv_loop", "failed")
    /\ Empty
    /\ wait[t] = "nowait"
    /\ Release
    /\ UNCHANGED <<ring, notEmpty, notFull, evt, wait, taken>>

RecvWait(t) ==
    /\ Go(t, "recv_loop", "recv_wait")
    /\ Empty
    /\ wait[t] # "nowait"
    /\ notEmpty' = notEmpty \cup {t}
    /\ Release
    /\ UNCHANGED <<ring, notFull, evt, wait, taken>>

RecvLoad(t) ==
    /\ Go(t, "recv_loop", "recv_commit")
    /\ ~Empty
    /\ evt' = [evt EXCEPT ![t] = buf[head]]
    /\ UNCHANGED <<ring, lock, notEmpty, notFull, wait, taken>>

\* Bug variant of RecvCommit: signals the other condition variable.
RecvCommitSignalsNotEmpty(t) ==
    /\ Go(t, "recv_commit", "done")
    /\ head' = After(head)
    /\ count' = count - 1
    /\ takenEmpty' = Lesser(takenEmpty, count')
    /\ notEmpty' \in Signalled(notEmpty)
    /\ Release
    /\ UNCHANGED <<buf, tail, notFull, evt, wait, takenFull>>

RecvCommit(t) ==
    /\ Go(t, "recv_commit", "done")
    /\ head' = After(head)
    /\ count' = count - 1
    /\ takenEmpty' = Lesser(takenEmpty, count')
    /\ notFull' \in Signalled(notFull)
    /\ Release
    /\ UNCHANGED <<buf, tail, notEmpty, evt, wait, takenFull>>

RecvTimeout(t) ==
    /\ Go(t, "recv_wait", "recv_expired")
    /\ wait[t] = "timed"
    /\ notEmpty' = notEmpty \ {t}
    /\ takenEmpty' = IF t \in notEmpty THEN takenEmpty ELSE Lesser(takenEmpty + 1, count)
    /\ UNCHANGED <<ring, lock, notFull, evt, wait, takenFull>>

RecvSpurious(t) ==
    /\ SpuriousWakeups
    /\ t \in notEmpty
    /\ notEmpty' = notEmpty \ {t}
    /\ UNCHANGED <<ring, lock, notFull, pc, evt, wait, taken>>

\* Bug variant of RecvRelock: if (empty) wait, in place of while.
RecvRelockWithoutLook(t) ==
    /\ Go(t, "recv_wait", "recv_commit")
    /\ t \notin notEmpty
    /\ Acquire(t)
    /\ evt' = [evt EXCEPT ![t] = buf[head]]
    /\ UNCHANGED <<ring, notEmpty, notFull, wait, taken>>

RecvRelock(t) ==
    /\ Go(t, "recv_wait", "recv_loop")
    /\ t \notin notEmpty
    /\ Acquire(t)
    /\ UNCHANGED <<ring, notEmpty, notFull, evt, wait, taken>>

RecvExpire(t) ==
    /\ Go(t, "recv_expired", "failed")
    /\ lock = NoThread
    /\ UNCHANGED <<ring, lock, notEmpty, notFull, evt, wait, taken>>

-----------------------------------------------------------------------------

\* The call returns to its caller, who has what it needs from evt.
Return(t) ==
    /\ pc[t] \in {"done", "failed"}
    /\ pc' = [pc EXCEPT ![t] = "idle"]
    /\ evt' = [evt EXCEPT ![t] = NoEvent]
    /\ wait' = [wait EXCEPT ![t] = "nowait"]
    /\ UNCHANGED <<ring, lock, notEmpty, notFull, taken>>

\* What a thread does by itself, without waiting for anyone.
Run(t) ==
    \/ PostRefuse(t) \/ PostWait(t) \/ PostStore(t) \/ PostCommit(t)
    \/ RecvRefuse(t) \/ RecvWait(t) \/ RecvLoad(t) \/ RecvCommit(t)
    \/ Return(t)

\* Every step that has to find the mutex free.
TakeMutex(t) ==
    \/ PostLock(t) \/ PostRelock(t) \/ PostExpire(t)
    \/ RecvLock(t) \/ RecvRelock(t) \/ RecvExpire(t)

Timeout(t) == PostTimeout(t) \/ RecvTimeout(t)
Spurious(t) == PostSpurious(t) \/ RecvSpurious(t)

BeginPost(t) == \E e \in Events, w \in Waits : CallPost(t, e, w)
BeginReceive(t) == \E w \in Waits : CallReceive(t, w)

Step(t) ==
    \/ BeginPost(t) \/ BeginReceive(t)
    \/ Run(t) \/ TakeMutex(t)
    \/ Timeout(t) \/ Spurious(t)

Next == \E t \in Threads : Step(t)

Spec == Init /\ [][Next]_vars

\* Threads are scheduled, the mutex starves nobody, a timer that stays armed
\* fires, and the state task keeps receiving.  Nobody has to post.
Fairness ==
    /\ \A t \in Threads : WF_vars(Run(t)) /\ SF_vars(TakeMutex(t)) /\ WF_vars(Timeout(t))
    /\ \A t \in Receivers : WF_vars(BeginReceive(t))

FairSpec == Spec /\ Fairness

-----------------------------------------------------------------------------
(* Safety. *)

\* The three ring fields tell one story: tail is count slots after head.
RingConsistent == tail = (head + count) % Cap

\* A thread between lock and unlock is the holder of the mutex; so two are
\* never there together, and no early return leaves the mutex locked.
MutexHeld ==
    \A t \in Threads : pc[t] \in Critical <=> lock = t

\* Receivers that will look at count, or have, before they wait again.
AwakeReceivers ==
    {t \in Receivers : \/ pc[t] \in {"recv_loop", "recv_commit"}
                       \/ pc[t] = "recv_wait" /\ t \notin notEmpty}

AwakePosters ==
    {t \in Posters : \/ pc[t] \in {"post_loop", "post_commit"}
                     \/ pc[t] = "post_wait" /\ t \notin notFull}

\* No lost wakeup: while a thread sleeps on a condition variable, everything
\* it could take is spoken for by a thread that is awake, or its signal was
\* taken by a timed wait as it expired.  The code itself drops no other: it
\* returns false on ETIMEDOUT without a look at count and without signalling
\* again (event_queue_host.c:75, :103).
NoLostWakeup ==
    /\ notEmpty # {} => count <= Cardinality(AwakeReceivers) + takenEmpty
    /\ notFull # {} => Cap - count <= Cardinality(AwakePosters) + takenFull

-----------------------------------------------------------------------------
(* Refinement: the ring buffer is the bounded FIFO of EventQueue. *)

\* The queued events, oldest first.
Contents == [i \in 1 .. count |-> buf[(head + i - 1) % Cap]]

\* Between its statements a thread is in the call it began.
PhaseOf(p) ==
    CASE p \in PostPCs -> "post"
      [] p \in RecvPCs -> "recv"
      [] OTHER -> p

\* *out is the caller's only once the event has left the ring.
Held(t) == IF pc[t] = "recv_commit" THEN NoEvent ELSE evt[t]

EQ == INSTANCE EventQueue WITH
          queue <- Contents,
          phase <- [t \in Threads |-> PhaseOf(pc[t])],
          evt <- [t \in Threads |-> Held(t)]

\* Every step of the host queue is a step of the contract, or none.
ImplementsEventQueue == EQ!Spec

-----------------------------------------------------------------------------
(* Liveness. *)

\* What is in the queue is received while the state task keeps receiving.
QueueDrains == ~Empty ~> \E t \in Receivers : pc[t] = "done"

\* A post that waits for room sees room used, by itself or by another post,
\* unless a timed post takes the signal of event_queue_host.c:112 as it expires.
BlockedPostersProgress ==
    (\E t \in Posters : pc[t] = "post_wait" /\ wait[t] = "forever")
        ~> (takenFull > 0 \/ \E t \in Posters : pc[t] = "done")

\* A call that gave a timeout returns.
TimedCallsReturn ==
    \A t \in Threads : wait[t] = "timed" ~> pc[t] = "idle"

=============================================================================
