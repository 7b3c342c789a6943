------------------------------ MODULE AppForm -------------------------------
(***************************************************************************)
(* The form of a workflow that is run as an app (AppView.tsx, app-mode.ts):*)
(* the author hides, locks and moves its fields, and edits the inputs of   *)
(* the graph that the fields stand for.                                    *)
(***************************************************************************)
EXTENDS Integers, Sequences, SequencesExt, FiniteSets

CONSTANTS
    Names,        \* the names an input can have
    MaxArranged,  \* bound: edits of the form and of the inputs
    Unset

ASSUME FormAssumption == MaxArranged \in Nat /\ Unset \notin Int

VARIABLES
    inputs,   \* the inputs of the graph, in their order
    app,      \* sidecar.app.fields: what the author set, for every name
    arranged  \* bound: how many edits there were

formVars == <<inputs, app, arranged>>

Unarranged == [hidden |-> FALSE, locked |-> FALSE, order |-> Unset]
Position(name) == CHOOSE i \in DOMAIN inputs : inputs[i] = name
Visible == {name \in Range(inputs) : ~app[name].hidden}

\* Visible fields by their order, or else by their position in the graph; the
\* sort is stable.
SortKey(name) == IF app[name].order = Unset THEN Position(name) - 1 ELSE app[name].order
Before(a, b) == SortKey(a) < SortKey(b) \/ (SortKey(a) = SortKey(b) /\ Position(a) < Position(b))
appFields ==
    CHOOSE fields \in [1..Cardinality(Visible) -> Visible] :
        \A i, j \in DOMAIN fields : i < j => Before(fields[i], fields[j])

\* What is left of a sequence of names when only those in the set are looked at.
Among(s, set) ==
    LET left[n \in 0..Len(s)] ==
          IF n = 0 THEN <<>> ELSE IF s[n] \in set THEN Append(left[n - 1], s[n]) ELSE left[n - 1]
    IN  left[Len(s)]

Editing == arranged < MaxArranged /\ arranged' = arranged + 1

patchField(name, field, value) ==
    /\ Editing /\ app' = [app EXCEPT ![name][field] = value]
    /\ UNCHANGED inputs
ToggleHidden(name) == name \in Range(inputs) /\ patchField(name, "hidden", ~app[name].hidden)
ToggleLocked(name) == name \in Range(inputs) /\ patchField(name, "locked", ~app[name].locked)

\* Mutant: only the field that moves is given an order.
MoveAlone(name, direction) ==
    LET index == CHOOSE i \in DOMAIN appFields : appFields[i] = name
        target == index + direction
    IN /\ Editing
       /\ name \in Visible /\ target \in DOMAIN appFields
       /\ app' = [app EXCEPT ![name].order = target - 1]
       /\ UNCHANGED inputs

\* The field is taken out and put in one place on; all visible fields are then
\* numbered.
moveField(name, direction) ==
    LET index == CHOOSE i \in DOMAIN appFields : appFields[i] = name
        target == index + direction
        next == InsertAt(RemoveAt(appFields, index), target, name)
    IN /\ Editing
       /\ name \in Visible /\ target \in DOMAIN appFields
       /\ app' = [other \in Names |->
                     IF other \in Visible
                     THEN [app[other] EXCEPT !.order = (CHOOSE i \in DOMAIN next : next[i] = other) - 1]
                     ELSE app[other]]
       /\ UNCHANGED inputs

\* The inputs are edited on the canvas; the settings of the form stay with the
\* name, whatever becomes of the input.
EditInputs ==
    /\ Editing
    /\ \/ \E name \in Names \ Range(inputs) : inputs' = Append(inputs, name)
       \/ \E name \in Range(inputs) : inputs' = Among(inputs, Names \ {name})
       \/ \E name \in Range(inputs), other \in Names \ Range(inputs) :
            inputs' = Append(Among(inputs, Names \ {name}), other)
    /\ UNCHANGED app

FirstInputs == {s \in [1..2 -> Names] : s[1] # s[2]}

FormInit ==
    /\ inputs \in FirstInputs
    /\ app = [name \in Names |-> Unarranged]
    /\ arranged = 0

FormNext ==
    \/ \E name \in Names : ToggleHidden(name) \/ ToggleLocked(name) \/ moveField(name, -1) \/ moveField(name, 1)
    \/ EditInputs

FormSpec == FormInit /\ [][FormNext]_formVars

(* ------------------------------ properties ----------------------------- *)

\* Arranging the form does what it says: hiding, showing and locking a field
\* leaves the others in their order, and moving one exchanges it with its
\* neighbour, in whatever order the fields got there (AppView.tsx:404).
FieldsMoveByOne ==
    [][inputs' = inputs =>
        LET before == Among(appFields, Visible')
            after == Among(appFields', Visible)
        IN  \/ after = before
            \/ \E i \in 1..Len(before) - 1 :
                 after = [before EXCEPT ![i] = before[i + 1], ![i + 1] = before[i]]]_formVars

=============================================================================
