---------------------------- MODULE EditHistory ----------------------------
(***************************************************************************)
(* What undo and redo promise (README.md:39, "document-wide undo and       *)
(* redo"): the document's contents form one line, and the editor shows one *)
(* place of it.  Undo and redo move along the line and change nothing of   *)
(* it; an edit drops what lies ahead; only the oldest entries are ever     *)
(* forgotten, and only when an edit makes the line longer than its limit.  *)
(***************************************************************************)
EXTENDS Naturals, Sequences

CONSTANTS
    Contents,      \* what a document can hold
    HistoryLimit   \* how many contents can lie behind the one shown

VARIABLES
    line,  \* the contents, oldest first
    at     \* the place shown

lineVars == <<line, at>>

\* The last n entries of a sequence.
Newest(s, n) == IF Len(s) <= n THEN s ELSE SubSeq(s, Len(s) - n + 1, Len(s))

Begin == /\ \E c \in Contents : line = <<c>>
         /\ at = 1

\* Another document is opened: its line begins anew.
Reopen == /\ \E c \in Contents : line' = <<c>>
          /\ at' = 1

Edit == /\ \E c \in Contents \ {line[at]} :
             line' = Append(Newest(SubSeq(line, 1, at), HistoryLimit), c)
        /\ at' = Len(line')

StepBack == /\ at > 1
            /\ at' = at - 1
            /\ UNCHANGED line

StepForth == /\ at < Len(line)
             /\ at' = at + 1
             /\ UNCHANGED line

Move == Reopen \/ Edit \/ StepBack \/ StepForth

HistorySpec == Begin /\ [][Move]_lineVars
=============================================================================
