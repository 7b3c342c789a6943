-------------------------- MODULE MCRunHostSettings --------------------------
(* Instances of RunHostSettings for TLC. *)
EXTENDS RunHostSettings, TLC

\* Threads, commands and jobs are told apart by identity only.
ThreadSymmetry == Permutations(Workers) \cup Permutations(Callers)
                      \cup Permutations(Refs)
=============================================================================
