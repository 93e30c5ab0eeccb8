------------------------------ MODULE ToneDetect ------------------------------
(***************************************************************************)
(* The tone detector, components/tone_detect, as a step function.  A frame  *)
(* of samples is loud when its Goertzel magnitude at the target frequency   *)
(* exceeds the threshold; the arithmetic behind that comparison is left     *)
(* out, the debouncing is kept.  Module ToneHistory checks it against a     *)
(* definition over the frames seen.                                         *)
(***************************************************************************)
EXTENDS Naturals

CONSTANT Debounces  \* the values of debounce_frames in use

ASSUME DebounceAssumption == Debounces \subseteq Nat

\* tone_detector_t.  ready: td_init has run.  A detector that is all zeroes
\* (memset in dispatcher_init) has no target: its magnitude is 0/0, not a
\* number, and exceeds no threshold.
Tones == [ready : BOOLEAN, debounce : Nat, consecutive : Nat]

TdZero == [ready |-> FALSE, debounce |-> 0, consecutive |-> 0]

TdInit(n) == [ready |-> TRUE, debounce |-> n, consecutive |-> 0]

TdReset(tone) == [tone EXCEPT !.consecutive = 0]

Over(tone, loud) == tone.ready /\ loud

\* td_process returns true
TdFires(tone, loud) ==
    Over(tone, loud) /\ tone.consecutive + 1 >= tone.debounce

\* Bug variant of TdProcess: the count is not cleared when it fires.
TdProcessKeepsCount(tone, loud) ==
    IF Over(tone, loud) THEN [tone EXCEPT !.consecutive = @ + 1] ELSE TdReset(tone)

\* Bug variant of TdProcess: a quiet frame does not interrupt the count.
TdProcessIgnoresQuiet(tone, loud) ==
    IF ~Over(tone, loud) THEN tone
    ELSE IF TdFires(tone, loud) THEN TdReset(tone)
    ELSE [tone EXCEPT !.consecutive = @ + 1]

\* td_process's effect on the detector
TdProcess(tone, loud) ==
    IF Over(tone, loud) /\ ~TdFires(tone, loud)
    THEN [tone EXCEPT !.consecutive = @ + 1]
    ELSE TdReset(tone)

=============================================================================
