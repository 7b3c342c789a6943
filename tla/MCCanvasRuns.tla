---------------------------- MODULE MCCanvasRuns ----------------------------
(* An instance of CanvasRuns for TLC. *)
EXTENDS CanvasRuns, TLC

\* Runs, documents and requests are told apart by identity only.
CanvasSymmetry == Permutations(Runs) \cup Permutations(Docs) \cup Permutations(Jobs)
=============================================================================
