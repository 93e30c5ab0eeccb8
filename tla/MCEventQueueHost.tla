--------------------------- MODULE MCEventQueueHost ---------------------------
(* Instances of EventQueueHost for TLC. *)
EXTENDS EventQueueHost, TLC

\* Threads of one role are alike.
ThreadSymmetry == Permutations(Posters) \cup Permutations(Receivers)

=============================================================================
