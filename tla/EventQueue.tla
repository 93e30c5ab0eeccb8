------------------------------ MODULE EventQueue ------------------------------
(***************************************************************************)
(* What include/event_queue.h promises: a bounded FIFO of events that       *)
(* threads post to and receive from, each call giving up at once            *)
(* (timeout_ms = 0), after a while, or never (EQ_WAIT_FOREVER).             *)
(*                                                                          *)
(* This is the contract both builds offer.  The device build                *)
(* (event_queue/freertos) is a thin wrapper over the FreeRTOS queue, whose  *)
(* xQueueSend and xQueueReceive are these atomic steps; the host build      *)
(* (event_queue/host) earns the contract with a ring buffer, a mutex and    *)
(* two condition variables: module EventQueueHost, shown to implement this  *)
(* one.                                                                     *)
(*                                                                          *)
(* A call is three steps: it starts, it takes effect (or gives up), it      *)
(* returns.  Only the middle step touches the queue.                        *)
(***************************************************************************)
EXTENDS Naturals, Sequences

CONSTANTS
    Posters,    \* threads that call eq_post
    Receivers,  \* threads that call eq_receive; a thread may be in both sets
    Events,     \* the values of ev_t
    NoEvent,    \* what a thread holds when it holds no event
    Cap         \* eq_create's capacity

Threads == Posters \cup Receivers

\* timeout_ms: 0, a number of milliseconds, or EQ_WAIT_FOREVER
Waits == {"nowait", "timed", "forever"}

VARIABLES
    queue,  \* the queued events, oldest first
    phase,  \* where each thread is in its call
    evt,    \* the event a thread is posting, or has received
    wait    \* the timeout of a thread's call

vars == <<queue, phase, evt, wait>>

Phases == {"idle", "post", "recv", "done", "failed"}

TypeOK ==
    /\ queue \in Seq(Events)
    /\ Len(queue) <= Cap
    /\ phase \in [Threads -> Phases]
    /\ evt \in [Threads -> Events \cup {NoEvent}]
    /\ wait \in [Threads -> Waits]

Init ==
    /\ queue = <<>>
    /\ phase = [t \in Threads |-> "idle"]
    /\ evt = [t \in Threads |-> NoEvent]
    /\ wait = [t \in Threads |-> "nowait"]

CallPost(t, e, w) ==
    /\ t \in Posters
    /\ phase[t] = "idle"
    /\ phase' = [phase EXCEPT ![t] = "post"]
    /\ evt' = [evt EXCEPT ![t] = e]
    /\ wait' = [wait EXCEPT ![t] = w]
    /\ UNCHANGED queue

\* The event enters at the back; eq_post will return true.
PostOk(t) ==
    /\ phase[t] = "post"
    /\ Len(queue) < Cap
    /\ queue' = Append(queue, evt[t])
    /\ phase' = [phase EXCEPT ![t] = "done"]
    /\ UNCHANGED <<evt, wait>>

\* eq_post will return false.  Without a timeout only because the queue is
\* full; a timed call may find that room appeared just as its time ran out.
PostFail(t) ==
    /\ phase[t] = "post"
    /\ wait[t] # "forever"
    /\ wait[t] = "nowait" => Len(queue) = Cap
    /\ phase' = [phase EXCEPT ![t] = "failed"]
    /\ UNCHANGED <<queue, evt, wait>>

CallReceive(t, w) ==
    /\ t \in Receivers
    /\ phase[t] = "idle"
    /\ phase' = [phase EXCEPT ![t] = "recv"]
    /\ wait' = [wait EXCEPT ![t] = w]
    /\ UNCHANGED <<queue, evt>>

\* The oldest event leaves with the thread; eq_receive will return true.
ReceiveOk(t) ==
    /\ phase[t] = "recv"
    /\ queue # <<>>
    /\ evt' = [evt EXCEPT ![t] = Head(queue)]
    /\ queue' = Tail(queue)
    /\ phase' = [phase EXCEPT ![t] = "done"]
    /\ UNCHANGED wait

ReceiveFail(t) ==
    /\ phase[t] = "recv"
    /\ wait[t] # "forever"
    /\ wait[t] = "nowait" => queue = <<>>
    /\ phase' = [phase EXCEPT ![t] = "failed"]
    /\ UNCHANGED <<queue, evt, wait>>

Return(t) ==
    /\ phase[t] \in {"done", "failed"}
    /\ phase' = [phase EXCEPT ![t] = "idle"]
    /\ evt' = [evt EXCEPT ![t] = NoEvent]
    /\ wait' = [wait EXCEPT ![t] = "nowait"]
    /\ UNCHANGED queue

Step(t) ==
    \/ \E e \in Events, w \in Waits : CallPost(t, e, w)
    \/ PostOk(t)
    \/ PostFail(t)
    \/ \E w \in Waits : CallReceive(t, w)
    \/ ReceiveOk(t)
    \/ ReceiveFail(t)
    \/ Return(t)

Next == \E t \in Threads : Step(t)

Spec == Init /\ [][Next]_vars

=============================================================================
