---------------------------- MODULE MCGraphEdits ----------------------------
(* An instance of GraphEdits for TLC: the names the user types. *)
EXTENDS GraphEdits

MCNumbers == <<"2", "3", "4", "5", "6", "7", "8", "9">>
MCNames == {<<"m">>}
MCAllEdits == AllEdits
=============================================================================
