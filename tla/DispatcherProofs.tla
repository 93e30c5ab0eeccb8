--------------------------- MODULE DispatcherProofs ---------------------------
(***************************************************************************)
(* Proofs about the dispatcher and the state machine in it, for every       *)
(* capacity of the queue and every debounce count, whatever events arrive.  *)
(***************************************************************************)
EXTENDS Dispatcher, SequenceTheorems, TLAPS

-----------------------------------------------------------------------------
(* The state machine and the detector. *)

\* The table leads from states to states.
LEMMA SmHandleEventType ==
    ASSUME NEW ctx \in SmContexts, NEW e \in SmEvents
    PROVE  SmHandleEvent(ctx, e) \in SmContexts
  <1>1. SmNext(ctx, e) \in SmStates
    BY DEF SmContexts, SmStates, SmNext, NextForRinging, NextForListening, NextForOthers
  <1>2. QED
    BY <1>1 DEF SmHandleEvent, SmContexts, SmStates, DoorTapped

\* td_process keeps the detector a detector.
LEMMA TdProcessType ==
    ASSUME NEW td \in Tones, NEW loud \in BOOLEAN
    PROVE  TdProcess(td, loud) \in Tones
  BY DEF Tones, TdProcess, TdReset

\* Posting never takes the queue past its capacity.
LEMMA PostedType ==
    ASSUME NEW q \in Seq(SmEvents), Len(q) <= QCap, NEW e \in SmEvents
    PROVE  Posted(q, e) \in Seq(SmEvents) /\ Len(Posted(q, e)) <= QCap
  BY QCapAssumption DEF Posted

\* dispatcher_init establishes the types.
LEMMA InitType == Init => TypeOK
  BY QCapAssumption DEF Init, TypeOK, SmInit, SmContexts, SmStates, SmEvents,
                        TdZero, Tones, NoPump, Pumps

\* Every call of the dispatcher keeps them.
LEMMA StepType == TypeOK /\ [Next]_vars => TypeOK'
  <1> SUFFICES ASSUME TypeOK, [Next]_vars PROVE TypeOK'
    OBVIOUS
  <1>1. ASSUME NEW e \in SmEvents, DispatcherPost(e) PROVE TypeOK'
    BY <1>1, PostedType DEF DispatcherPost, TypeOK
  <1>2. ASSUME NEW loud \in BOOLEAN, DispatcherProcessAudio(loud) PROVE TypeOK'
    <2>1. tone' \in Tones
      BY <1>2, TdProcessType DEF DispatcherProcessAudio, TypeOK
    <2>2. "RING_DETECTED" \in SmEvents
      BY DEF SmEvents
    <2>3. queue' \in Seq(SmEvents) /\ Len(queue') <= QCap
      BY <1>2, <2>2, PostedType DEF DispatcherProcessAudio, TypeOK
    <2>4. QED
      BY <1>2, <2>1, <2>3 DEF DispatcherProcessAudio, TypeOK
  <1>3. ASSUME NEW n \in Debounces, DispatcherInitTone(n) PROVE TypeOK'
    BY <1>3, DebounceAssumption DEF DispatcherInitTone, TdInit, Tones, TypeOK
  <1>4. CASE PumpReceive
    <2>1. Head(queue) \in SmEvents /\ Tail(queue) \in Seq(SmEvents)
          /\ Len(Tail(queue)) = Len(queue) - 1
      BY <1>4, HeadTailProperties DEF PumpReceive, TypeOK
    <2>2. pump' \in Pumps
      BY <1>4, <2>1 DEF PumpReceive, TypeOK, Pumps
    <2>3. Len(queue') <= QCap
      <3>1. Len(queue) \in Nat /\ Len(queue) <= QCap
        BY LenProperties DEF TypeOK
      <3>2. QED
        BY <1>4, <2>1, <3>1, QCapAssumption DEF PumpReceive
    <2>4. QED
      BY <1>4, <2>1, <2>2, <2>3 DEF PumpReceive, TypeOK
  <1>5. CASE PumpHandle
    <2>1. sm' \in SmContexts
      BY <1>5, SmHandleEventType DEF PumpHandle, TypeOK, Pumps
    <2>2. NoPump \in Pumps
      BY DEF NoPump, Pumps, SmEvents, SmStates
    <2>3. pump' \in Pumps
      BY <1>5, <2>2 DEF PumpHandle, TypeOK, Pumps, SmContexts
    <2>4. QED
      BY <1>5, <2>1, <2>3 DEF PumpHandle, TypeOK
  <1>6. CASE PumpNotify
    <2>1. NoPump \in Pumps
      BY DEF NoPump, Pumps, SmEvents, SmStates
    <2>2. QED
      BY <1>6, <2>1 DEF PumpNotify, TypeOK, SmContexts
  <1>7. CASE UNCHANGED vars
    BY <1>7 DEF vars, TypeOK
  <1>8. QED
    BY <1>1, <1>2, <1>3, <1>4, <1>5, <1>6, <1>7 DEF Next, Pump

\* Every variable keeps its type; dispatcher_post and dispatcher_process_audio
\* never take the queue past its capacity.
THEOREM TypeCorrect == Spec => []TypeOK
  BY InitType, StepType, PTL DEF Spec

-----------------------------------------------------------------------------
(* What the callback sees. *)

\* dispatcher_pump reports every change (dispatcher.c:47-51): the callback's
\* idea of the state is the state, but for the moment between
\* a transition and its report, when it is the state the report starts from.
THEOREM ObserverAlwaysInStep == Spec => []ObserverInStep
  <1>1. Init => ObserverInStep
    BY DEF Init, ObserverInStep, NoPump
  <1>2. TypeOK /\ ObserverInStep /\ [Next]_vars => ObserverInStep'
    <2> SUFFICES ASSUME TypeOK, ObserverInStep, [Next]_vars PROVE ObserverInStep'
      OBVIOUS
    <2>1. CASE \/ UNCHANGED vars
               \/ \E e \in SmEvents : DispatcherPost(e)
               \/ \E loud \in BOOLEAN : DispatcherProcessAudio(loud)
               \/ \E n \in Debounces : DispatcherInitTone(n)
      BY <2>1 DEF vars, DispatcherPost, DispatcherProcessAudio, DispatcherInitTone, ObserverInStep
    <2>2. CASE PumpReceive
      BY <2>2 DEF PumpReceive, ObserverInStep, TypeOK, Pumps
    <2>3. CASE PumpHandle
      BY <2>3 DEF PumpHandle, ObserverInStep, TypeOK, Pumps, NoPump
    <2>4. CASE PumpNotify
      BY <2>4 DEF PumpNotify, ObserverInStep, NoPump
    <2>5. QED
      BY <2>1, <2>2, <2>3, <2>4 DEF Next, Pump
  <1>3. QED
    BY <1>1, <1>2, TypeCorrect, PTL DEF Spec

-----------------------------------------------------------------------------
(* Calls run as CallFlow says. *)

\* CallFlow is implemented only because the door always remembers a state a
\* call can be in: this is the strengthening that makes the step provable.
DoorPrior == sm.current = "DOOR_RELEASING" => sm.prior \in {"RINGING", "LISTENING"}

\* One event keeps the strengthening: the door is entered by the two taps that
\* record where they came from (state_machine.c:19, :33).
LEMMA HandleKeepsDoorPrior ==
    ASSUME sm \in SmContexts, DoorPrior, NEW e \in SmEvents, sm' = SmHandleEvent(sm, e)
    PROVE  DoorPrior'
  BY DEF DoorPrior, SmHandleEvent, SmNext, DoorTapped, NextForRinging, NextForListening,
         NextForOthers, SmContexts, SmStates

\* One event takes the state machine through one step of CallFlow, or none.
LEMMA HandleRefines ==
    ASSUME sm \in SmContexts, DoorPrior, NEW e \in SmEvents, sm' = SmHandleEvent(sm, e)
    PROVE  [CF!Next]_CF!vars
  <1> USE DEF SmHandleEvent, SmNext, DoorTapped, SmContexts
  <1>1. ASSUME NEW s \in {"CONFIG", "ERROR"}, sm'.current = s
        PROVE  /\ CallOf(sm)' = "none"
               /\ (sm.current = "TALKING")' = FALSE
               /\ (sm.current = "DOOR_RELEASING")' = FALSE
               /\ AwayOf(sm)' = IF s = "CONFIG" THEN "settings" ELSE "error"
    BY <1>1 DEF CallOf, AwayOf
  <1>2. CASE e = "ERROR_RAISED" /\ sm.current # "ERROR"
    <2>1. sm'.current = "ERROR"
      BY <1>2
    <2>2. AwayOf(sm) # "error"
      BY <1>2 DEF AwayOf
    <2>3. CF!Leave("error")
      BY <1>1, <2>1, <2>2 DEF CF!Leave
    <2>4. QED
      BY <2>3 DEF CF!Next
  <1>3. CASE e = "USER_OPEN_SETTINGS" /\ sm.current # "CONFIG"
    <2>1. sm'.current = "CONFIG"
      BY <1>3
    <2>2. AwayOf(sm) # "settings"
      BY <1>3 DEF AwayOf
    <2>3. CF!Leave("settings")
      BY <1>1, <2>1, <2>2 DEF CF!Leave
    <2>4. QED
      BY <2>3 DEF CF!Next
  <1>4. CASE e = "ERROR_RAISED" /\ sm.current = "ERROR"
    BY <1>4 DEF CF!vars, CallOf, AwayOf
  <1>5. CASE e = "USER_OPEN_SETTINGS" /\ sm.current = "CONFIG"
    BY <1>5 DEF NextForOthers, CF!vars, CallOf, AwayOf
  <1>6. CASE e \notin {"ERROR_RAISED", "USER_OPEN_SETTINGS"}
    <2> USE DEF CallOf, AwayOf
    <2>1. CASE sm.current = "RINGING"
      BY <1>6, <2>1 DEF NextForRinging, CF!Next, CF!Answer, CF!HangUp, CF!ReleaseDoor, CF!Quiet, CF!vars
    <2>2. CASE sm.current = "LISTENING"
      BY <1>6, <2>2 DEF NextForListening, CF!Next, CF!Talk, CF!HangUp, CF!ReleaseDoor, CF!Quiet, CF!vars
    <2>3. CASE sm.current \in {"IDLE", "TALKING", "CONFIG", "ERROR"}
      BY <1>6, <2>3 DEF NextForOthers, CF!Next, CF!Ring, CF!StopTalking, CF!ComeBack, CF!vars
    <2>4. CASE sm.current = "DOOR_RELEASING"
      BY <1>6, <2>4 DEF DoorPrior, NextForOthers, CF!Next, CF!DoorReleased, CF!vars
    <2>5. QED
      BY <2>1, <2>2, <2>3, <2>4 DEF SmStates
  <1>7. QED
    BY <1>2, <1>3, <1>4, <1>5, <1>6

\* Every step of the dispatcher but PumpHandle leaves the state machine alone.
LEMMA OthersLeaveSmAlone ==
    ASSUME [Next]_vars, ~PumpHandle
    PROVE  sm' = sm
  BY DEF Next, Pump, vars, DispatcherPost, DispatcherProcessAudio, DispatcherInitTone,
         PumpReceive, PumpNotify

\* So it holds whenever the door is being released.
LEMMA DoorPriorInvariant == Spec => []DoorPrior
  <1>1. Init => DoorPrior
    BY DEF Init, SmInit, DoorPrior
  <1>2. TypeOK /\ DoorPrior /\ [Next]_vars => DoorPrior'
    <2> SUFFICES ASSUME TypeOK, DoorPrior, [Next]_vars PROVE DoorPrior'
      OBVIOUS
    <2>1. CASE PumpHandle
      BY <2>1, HandleKeepsDoorPrior DEF PumpHandle, TypeOK, Pumps
    <2>2. CASE ~PumpHandle
      BY <2>2, OthersLeaveSmAlone DEF DoorPrior
    <2>3. QED
      BY <2>1, <2>2
  <1>3. QED
    BY <1>1, <1>2, TypeCorrect, PTL DEF Spec

\* Whatever events are posted, and however they are interleaved with audio,
\* pumping and a full queue, every behaviour of the dispatcher is a behaviour
\* of CallFlow: no microphone without an answered call, no call without a
\* ring, and a door release that gives back the call it interrupted.
THEOREM DispatcherImplementsCallFlow == Spec => ImplementsCallFlow
  <1>1. Init => CF!Init
    BY DEF Init, SmInit, CF!Init, CallOf, AwayOf
  <1>2. TypeOK /\ DoorPrior /\ [Next]_vars => [CF!Next]_CF!vars
    <2> SUFFICES ASSUME TypeOK, DoorPrior, [Next]_vars PROVE [CF!Next]_CF!vars
      OBVIOUS
    <2>1. CASE PumpHandle
      BY <2>1, HandleRefines DEF PumpHandle, TypeOK, Pumps
    <2>2. CASE ~PumpHandle
      BY <2>2, OthersLeaveSmAlone DEF CF!vars
    <2>3. QED
      BY <2>1, <2>2
  <1>3. QED
    BY <1>1, <1>2, TypeCorrect, DoorPriorInvariant, PTL DEF Spec, CF!Spec, ImplementsCallFlow

=============================================================================
