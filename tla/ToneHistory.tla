------------------------------ MODULE ToneHistory ------------------------------
(***************************************************************************)
(* The tone detector run over every short sequence of frames, and what its  *)
(* answers should be, read off the whole sequence: it fires on the frames   *)
(* that complete another debounce_frames loud frames in a row.              *)
(***************************************************************************)
EXTENDS ToneDetect, Sequences

CONSTANT MaxFrames  \* bound on the frames of a run

ASSUME MaxFramesAssumption == MaxFrames \in Nat

VARIABLES
    tone,       \* the detector
    frames,     \* history: the frames since td_init, and the resets
    fired       \* history: whether td_process returned true at each

vars == <<tone, frames, fired>>

Inputs == {"loud", "quiet", "reset"}

Init ==
    /\ \E n \in Debounces : tone = TdInit(n)
    /\ frames = <<>> /\ fired = <<>>

Frame(loud) ==
    /\ Len(frames) < MaxFrames
    /\ fired' = Append(fired, TdFires(tone, loud))
    /\ tone' = TdProcess(tone, loud)
    /\ frames' = Append(frames, IF loud THEN "loud" ELSE "quiet")

Reset ==
    /\ Len(frames) < MaxFrames
    /\ fired' = Append(fired, FALSE)
    /\ tone' = TdReset(tone)
    /\ frames' = Append(frames, "reset")

Next == Frame(TRUE) \/ Frame(FALSE) \/ Reset

Spec == Init /\ [][Next]_vars

TypeOK ==
    /\ tone \in Tones
    /\ tone.consecutive = 0 \/ tone.consecutive < tone.debounce
    /\ frames \in Seq(Inputs) /\ Len(frames) <= MaxFrames
    /\ fired \in [DOMAIN frames -> BOOLEAN]

-----------------------------------------------------------------------------

\* The length of the run of loud frames that ends at frame i.
RunEndingAt(i) ==
    CHOOSE n \in 0 .. i :
        /\ \A k \in i - n + 1 .. i : frames[k] = "loud"
        /\ n < i => frames[i - n] # "loud"

\* debounce_frames, of which 0 asks for no debouncing, like 1
Need == IF tone.debounce = 0 THEN 1 ELSE tone.debounce

ShouldFire(i) == RunEndingAt(i) > 0 /\ RunEndingAt(i) % Need = 0

\* The detector answers true on exactly the frames the definition names.
FiresAsDefined == \A i \in DOMAIN fired : fired[i] = ShouldFire(i)

=============================================================================
