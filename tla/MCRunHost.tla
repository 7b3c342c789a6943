----------------------------- MODULE MCRunHost -----------------------------
(* Instances of RunHost for TLC. *)
EXTENDS RunHost, TLC

\* Threads and commands are told apart by identity only, and so are jobs.
ThreadSymmetry == Permutations(Workers) \cup Permutations(Callers)
                       \cup Permutations(Refs)
=============================================================================
