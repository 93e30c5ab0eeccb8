------------------------------- MODULE MCConfigNvs -------------------------------
(* Instances of ConfigNvs for TLC. *)
EXTENDS ConfigNvs, TLC

\* Tasks, keys and values are only compared.
StoreSymmetry == Permutations(Tasks) \cup Permutations(Keys) \cup Permutations(Values)

=============================================================================
