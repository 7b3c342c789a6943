------------------------------- MODULE Drafts -------------------------------
(***************************************************************************)
(* The JSON of one value edited as text (use-draft.ts), by the field on a  *)
(* material node, which commits when it is left (WorkflowNode.tsx), and by *)
(* the editors of the inspector and of the program, which commit with      *)
(* every keystroke that parses (Inspector.tsx, ProgramView.tsx).           *)
(***************************************************************************)
EXTENDS Naturals, Sequences

CONSTANTS
    Values,    \* what the value can be; a text that parses stands for one of them
    Malformed, \* a text that does not parse
    MaxSteps,  \* bound: keystrokes, edits, undos and redos
    None

Editors == {"material", "inspector"}

VARIABLES
    line, at,  \* the document's history of this value, and the place shown
    draft,     \* the draft of each editor
    focus,     \* the editor that has the focus, and whether something was typed since
    steps      \* bound: how many steps there were

draftVars == <<line, at, draft, focus, steps>>

value == line[at]
NoFocus == [editor |-> None, typed |-> FALSE]
Step == steps < MaxSteps /\ steps' = steps + 1

\* The draft counts while it was typed against the value, or describes it.
current(e) == draft[e] # None /\ (draft[e].base = value \/ draft[e].parsed = value)
text(e) == IF current(e) THEN draft[e].text ELSE value

\* edit: the text is the draft from now on.
edit(e, typed) ==
    draft' = [draft EXCEPT ![e] =
                 [text |-> typed, base |-> value, parsed |-> IF typed = Malformed THEN None ELSE typed]]

\* commitHistory: an edit that changes nothing is no edit.
commit(next) ==
    IF next \in Values \ {value}
    THEN line' = Append(SubSeq(line, 1, at), next) /\ at' = at + 1
    ELSE UNCHANGED <<line, at>>

Focus(e) ==
    /\ focus = NoFocus /\ focus' = [editor |-> e, typed |-> FALSE]
    /\ UNCHANGED <<line, at, draft, steps>>
Type(e, typed) ==
    /\ focus.editor = e /\ Step
    /\ edit(e, typed)
    /\ focus' = [focus EXCEPT !.typed = TRUE]
    /\ IF e = "inspector" THEN commit(typed) ELSE UNCHANGED <<line, at>>
Blur(e) ==
    /\ focus.editor = e /\ focus' = NoFocus
    /\ IF e = "material" THEN edit(e, text(e)) /\ commit(text(e)) ELSE UNCHANGED <<line, at, draft>>
    /\ UNCHANGED steps

\* Another editor, undo and redo, while no field has the focus.
OtherEdit ==
    /\ focus = NoFocus /\ Step
    /\ \E next \in Values \ {value} : commit(next)
    /\ UNCHANGED <<draft, focus>>
Undo == /\ focus = NoFocus /\ Step /\ at > 1 /\ at' = at - 1
        /\ UNCHANGED <<line, draft, focus>>
Redo == /\ focus = NoFocus /\ Step /\ at < Len(line) /\ at' = at + 1
        /\ UNCHANGED <<line, draft, focus>>

\* The editor goes away with the selection or the view, and its draft with it.
Unmount(e) ==
    /\ focus.editor # e /\ draft[e] # None
    /\ draft' = [draft EXCEPT ![e] = None]
    /\ UNCHANGED <<line, at, focus, steps>>

DraftsInit ==
    /\ line \in [1..1 -> Values] /\ at = 1
    /\ draft = [e \in Editors |-> None] /\ focus = NoFocus /\ steps = 0

DraftsNext ==
    \/ \E e \in Editors : \/ Focus(e) \/ Blur(e) \/ Unmount(e)
                          \/ \E typed \in Values \cup {Malformed} : Type(e, typed)
    \/ OtherEdit \/ Undo \/ Redo

DraftsSpec == DraftsInit /\ [][DraftsNext]_draftVars

(* ------------------------------ properties ----------------------------- *)

\* "undo or an Inspector edit replaces the text instead of being overwritten on
\* the next blur" (WorkflowNode.tsx:215-216): a field that is entered and left
\* without a keystroke changes nothing.
UndoIsNotOverwritten ==
    [][focus # NoFocus /\ focus' = NoFocus /\ ~focus.typed => UNCHANGED <<line, at>>]_draftVars
=============================================================================
