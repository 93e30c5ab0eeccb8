----------------------------- MODULE StateMachine -----------------------------
(***************************************************************************)
(* The call state machine, components/state_machine: a pure step function   *)
(* on a context.  It keeps no queue and no clock; module Dispatcher feeds   *)
(* it, module CallFlow says what it promises.                               *)
(***************************************************************************)

\* sm_state_t, without the prefix SM_STATE_
SmStates == {"IDLE", "RINGING", "LISTENING", "TALKING", "DOOR_RELEASING",
             "CONFIG", "ERROR"}

\* sm_event_t, without the prefix SM_EVT_
SmEvents == {"RING_DETECTED",
             "USER_TAP_LISTEN", "USER_TAP_DOOR", "USER_TAP_DISMISS", "USER_TAP_END",
             "USER_HOLD_TALK", "USER_RELEASE_TALK",
             "USER_OPEN_SETTINGS", "USER_CLOSE_SETTINGS",
             "TIMEOUT_RINGING", "TIMEOUT_DOOR",
             "ERROR_RAISED", "ERROR_CLEARED"}

\* sm_context_t; prior is prior_before_door
SmContexts == [current : SmStates, prior : SmStates]

SmInit == [current |-> "IDLE", prior |-> "IDLE"]

NextForRinging(evt) ==
    CASE evt = "USER_TAP_LISTEN" -> "LISTENING"
      [] evt = "USER_TAP_DOOR" -> "DOOR_RELEASING"
      [] evt \in {"USER_TAP_DISMISS", "TIMEOUT_RINGING"} -> "IDLE"
      [] OTHER -> "RINGING"

NextForListening(evt) ==
    CASE evt = "USER_HOLD_TALK" -> "TALKING"
      [] evt = "USER_TAP_END" -> "IDLE"
      [] evt = "USER_TAP_DOOR" -> "DOOR_RELEASING"
      [] OTHER -> "LISTENING"

\* Bug variant of NextForOthers: the door waits for the other timer.
NextForOthersWrongTimer(ctx, evt) ==
    CASE ctx.current = "IDLE" /\ evt = "RING_DETECTED" -> "RINGING"
      [] ctx.current = "TALKING" /\ evt = "USER_RELEASE_TALK" -> "LISTENING"
      [] ctx.current = "DOOR_RELEASING" /\ evt = "TIMEOUT_RINGING" -> ctx.prior
      [] ctx.current = "CONFIG" /\ evt = "USER_CLOSE_SETTINGS" -> "IDLE"
      [] ctx.current = "ERROR" /\ evt = "ERROR_CLEARED" -> "IDLE"
      [] OTHER -> ctx.current

\* The one event that each remaining state answers.
NextForOthers(ctx, evt) ==
    CASE ctx.current = "IDLE" /\ evt = "RING_DETECTED" -> "RINGING"
      [] ctx.current = "TALKING" /\ evt = "USER_RELEASE_TALK" -> "LISTENING"
      [] ctx.current = "DOOR_RELEASING" /\ evt = "TIMEOUT_DOOR" -> ctx.prior
      [] ctx.current = "CONFIG" /\ evt = "USER_CLOSE_SETTINGS" -> "IDLE"
      [] ctx.current = "ERROR" /\ evt = "ERROR_CLEARED" -> "IDLE"
      [] OTHER -> ctx.current

SmNext(ctx, evt) ==
    IF evt = "ERROR_RAISED" THEN "ERROR"
    ELSE IF evt = "USER_OPEN_SETTINGS" /\ ctx.current # "CONFIG" THEN "CONFIG"
    ELSE CASE ctx.current = "RINGING" -> NextForRinging(evt)
           [] ctx.current = "LISTENING" -> NextForListening(evt)
           [] OTHER -> NextForOthers(ctx, evt)

DoorTapped(ctx, evt) ==
    evt = "USER_TAP_DOOR" /\ ctx.current \in {"RINGING", "LISTENING"}

\* Bug variant of SmHandleEvent: remembers where the door was tapped only once.
SmHandleEventKeepsPrior(ctx, evt) ==
    [current |-> SmNext(ctx, evt),
     prior |-> IF DoorTapped(ctx, evt) /\ ctx.prior = "IDLE" THEN ctx.current ELSE ctx.prior]

SmHandleEvent(ctx, evt) ==
    [current |-> SmNext(ctx, evt),
     prior |-> IF DoorTapped(ctx, evt) THEN ctx.current ELSE ctx.prior]

=============================================================================
