------------------------------ MODULE Dispatcher ------------------------------
(***************************************************************************)
(* The dispatcher, components/dispatcher: tasks post events to a bounded    *)
(* queue (dispatcher_post) or feed it audio (dispatcher_process_audio); the *)
(* state task takes them off one by one (dispatcher_pump), steps the state  *)
(* machine and reports each change of state to a callback.                  *)
(*                                                                          *)
(* The queue is the one EventQueue specifies: a post that finds it full     *)
(* fails at once, because the dispatcher passes timeout 0.  One call of     *)
(* dispatcher_pump is three steps here, so that other tasks post while an   *)
(* event is handled and while the callback runs; a call that finds the      *)
(* queue empty until it times out changes nothing and is no step.           *)
(*                                                                          *)
(* Which events arrive, and when, is left open: any task may post any event *)
(* at any moment, stale timeouts and releases included.                     *)
(***************************************************************************)
EXTENDS StateMachine, ToneDetect, Sequences

CONSTANT QCap   \* the capacity the queue was created with

ASSUME QCapAssumption == QCap \in Nat \ {0}

VARIABLES
    queue,  \* the events accepted and not yet taken off, oldest first
    sm,     \* dispatcher_t.state
    tone,   \* dispatcher_t.tone
    pump,   \* the call of dispatcher_pump in progress: its locals e and prev
    seen    \* the state the callback was last told of

vars == <<queue, sm, tone, pump, seen>>

Pumps == [phase : {"idle", "handle", "notify"}, evt : SmEvents, prev : SmStates]

TypeOK ==
    /\ queue \in Seq(SmEvents) /\ Len(queue) <= QCap
    /\ sm \in SmContexts
    /\ tone \in Tones
    /\ pump \in Pumps
    /\ seen \in SmStates

NoPump == [phase |-> "idle", evt |-> "RING_DETECTED", prev |-> "IDLE"]

Init ==
    /\ queue = <<>>
    /\ sm = SmInit
    /\ tone = TdZero
    /\ pump = NoPump
    /\ seen = SmInit.current

\* Bug variant of Posted: off by one at the capacity.
PostedOffByOne(q, e) == IF Len(q) <= QCap THEN Append(q, e) ELSE q

\* The queue after eq_post(q, e, 0); a full queue drops e.
Posted(q, e) == IF Len(q) < QCap THEN Append(q, e) ELSE q

DispatcherPost(e) ==
    /\ queue' = Posted(queue, e)
    /\ UNCHANGED <<sm, tone, pump, seen>>

\* A frame that confirms the call tone posts a ring; nobody looks at whether
\* the queue took it, and the detector starts counting again either way.
DispatcherProcessAudio(loud) ==
    /\ tone' = TdProcess(tone, loud)
    /\ queue' = IF TdFires(tone, loud) THEN Posted(queue, "RING_DETECTED") ELSE queue
    /\ UNCHANGED <<sm, pump, seen>>

DispatcherInitTone(n) ==
    /\ tone' = TdInit(n)
    /\ UNCHANGED <<queue, sm, pump, seen>>

\* Bug variant of PumpReceive: the event stays in the queue.
PumpReceivePeeks ==
    /\ pump.phase = "idle"
    /\ queue # <<>>
    /\ pump' = [pump EXCEPT !.phase = "handle", !.evt = Head(queue)]
    /\ UNCHANGED <<queue, sm, tone, seen>>

PumpReceive ==
    /\ pump.phase = "idle"
    /\ queue # <<>>
    /\ pump' = [pump EXCEPT !.phase = "handle", !.evt = Head(queue)]
    /\ queue' = Tail(queue)
    /\ UNCHANGED <<sm, tone, seen>>

\* Bug variant of PumpHandle: a transition to ERROR is not reported.
PumpHandleHidesErrors ==
    /\ pump.phase = "handle"
    /\ sm' = SmHandleEvent(sm, pump.evt)
    /\ pump' = IF sm'.current # sm.current /\ pump.evt # "ERROR_RAISED"
               THEN [pump EXCEPT !.phase = "notify", !.prev = sm.current]
               ELSE NoPump
    /\ UNCHANGED <<queue, tone, seen>>

\* Only a change of state is reported.
PumpHandle ==
    /\ pump.phase = "handle"
    /\ sm' = SmHandleEvent(sm, pump.evt)
    /\ pump' = IF sm'.current # sm.current
               THEN [pump EXCEPT !.phase = "notify", !.prev = sm.current]
               ELSE NoPump
    /\ UNCHANGED <<queue, tone, seen>>

\* The callback, told (prev, next, evt), acts on next and returns.
PumpNotify ==
    /\ pump.phase = "notify"
    /\ seen' = sm.current
    /\ pump' = NoPump
    /\ UNCHANGED <<queue, sm, tone>>

Pump == PumpReceive \/ PumpHandle \/ PumpNotify

Next ==
    \/ \E e \in SmEvents : DispatcherPost(e)
    \/ \E loud \in BOOLEAN : DispatcherProcessAudio(loud)
    \/ \E n \in Debounces : DispatcherInitTone(n)
    \/ Pump

Spec == Init /\ [][Next]_vars

\* The state task calls dispatcher_pump over and over.  Nobody has to post.
FairSpec == Spec /\ WF_vars(Pump)

-----------------------------------------------------------------------------

\* The callback sees the state machine whole: every report starts from the
\* state the one before ended in, and between calls of dispatcher_pump the
\* callback's idea of the state is the state.
ObserverInStep ==
    IF pump.phase = "notify"
    THEN seen = pump.prev /\ seen # sm.current
    ELSE seen = sm.current

\* The call a context stands for.  While the door is released that is the
\* call it was tapped in.
CallOf(ctx) ==
    LET s == IF ctx.current = "DOOR_RELEASING" THEN ctx.prior ELSE ctx.current
    IN  CASE s = "RINGING" -> "ringing"
          [] s \in {"LISTENING", "TALKING"} -> "answered"
          [] OTHER -> "none"

AwayOf(ctx) ==
    CASE ctx.current = "CONFIG" -> "settings"
      [] ctx.current = "ERROR" -> "error"
      [] OTHER -> "no"

CF == INSTANCE CallFlow WITH
          call <- CallOf(sm),
          mic <- (sm.current = "TALKING"),
          door <- (sm.current = "DOOR_RELEASING"),
          away <- AwayOf(sm)

\* Whatever is posted, in whatever order, calls run as CallFlow says.
ImplementsCallFlow == CF!Spec

Queued(e) == \E i \in DOMAIN queue : queue[i] = e

\* An error the queue accepted reaches the callback.
AcceptedErrorIsReported == Queued("ERROR_RAISED") ~> seen = "ERROR"

\* A door timeout accepted while the door is released ends the release, as
\* the callback sees it too.
DoorTimeoutEndsRelease ==
    (seen = "DOOR_RELEASING" /\ Queued("TIMEOUT_DOOR")) ~> seen # "DOOR_RELEASING"

\* A full queue makes room again, however often every task posts and however
\* long the callback takes, so that a task whose post was refused
\* (dispatcher.c:30) can do with trying again.
QueueMakesRoom == []<>(Len(queue) < QCap)

=============================================================================
