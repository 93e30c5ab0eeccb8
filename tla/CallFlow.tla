------------------------------- MODULE CallFlow -------------------------------
(***************************************************************************)
(* What the state machine promises about a visitor's call, without its      *)
(* states: a call starts with a ring, is answered, and ends; the microphone *)
(* is open only in an answered call; releasing the door interrupts a call   *)
(* and leaves it exactly where it was; the settings screen and an error end *)
(* the call, shut the microphone and stand in the way of the next one.      *)
(***************************************************************************)

VARIABLES
    call,   \* "none", "ringing" or "answered"
    mic,    \* the microphone is routed to the lobby (TALKING)
    door,   \* the door is being released (DOOR_RELEASING)
    away    \* "no", or what the unit shows in place of calls

vars == <<call, mic, door, away>>

TypeOK ==
    /\ call \in {"none", "ringing", "answered"}
    /\ mic \in BOOLEAN /\ door \in BOOLEAN
    /\ away \in {"no", "settings", "error"}

Init == call = "none" /\ mic = FALSE /\ door = FALSE /\ away = "no"

\* A call at rest: neither the microphone nor the door is in use.
Quiet == ~mic /\ ~door

Ring ==
    /\ call = "none" /\ away = "no"
    /\ call' = "ringing"
    /\ UNCHANGED <<mic, door, away>>

Answer ==
    /\ call = "ringing" /\ Quiet
    /\ call' = "answered"
    /\ UNCHANGED <<mic, door, away>>

HangUp ==
    /\ call # "none" /\ Quiet
    /\ call' = "none"
    /\ UNCHANGED <<mic, door, away>>

Talk ==
    /\ call = "answered" /\ Quiet
    /\ mic' = TRUE
    /\ UNCHANGED <<call, door, away>>

StopTalking ==
    /\ mic
    /\ mic' = FALSE
    /\ UNCHANGED <<call, door, away>>

ReleaseDoor ==
    /\ call # "none" /\ Quiet
    /\ door' = TRUE
    /\ UNCHANGED <<call, mic, away>>

DoorReleased ==
    /\ door
    /\ door' = FALSE
    /\ UNCHANGED <<call, mic, away>>

\* From anywhere, in the middle of anything.
Leave(to) ==
    /\ away # to
    /\ call' = "none" /\ mic' = FALSE /\ door' = FALSE
    /\ away' = to

ComeBack ==
    /\ away # "no"
    /\ away' = "no"
    /\ UNCHANGED <<call, mic, door>>

Next ==
    \/ Ring \/ Answer \/ HangUp
    \/ Talk \/ StopTalking
    \/ ReleaseDoor \/ DoorReleased
    \/ Leave("settings") \/ Leave("error") \/ ComeBack

Spec == Init /\ [][Next]_vars

=============================================================================
