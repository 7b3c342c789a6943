--------------------------- MODULE MCEditorWindow ---------------------------
(* An instance of EditorWindow for TLC. *)
EXTENDS EditorWindow, TLC

\* Edits, paths and requests are told apart by identity only.
SessionSymmetry == Permutations(Revisions) \cup Permutations(Paths) \cup Permutations(Calls)
=============================================================================
