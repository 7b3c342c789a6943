---------------------------- MODULE Identifiers ----------------------------
(***************************************************************************)
(* The identifiers of nodes, inputs, groups, modules and steps             *)
(* (uniqueId in graph.ts).  A name is the sequence of its parts between    *)
(* hyphens.                                                                *)
(***************************************************************************)
EXTENDS Integers, Sequences, FiniteSetsExt

CONSTANT Numbers  \* "2", "3", ... as they are written; the source has no last one

ASSUME NumbersAssumption ==
    /\ Numbers \in Seq(STRING)
    /\ \A i, j \in DOMAIN Numbers : Numbers[i] = Numbers[j] => i = j

\* What has something under an identifier of its own, and what has two such things.
With(f, key, value) == [k \in DOMAIN f \cup {key} |-> IF k = key THEN value ELSE f[k]]
Joined(f, g) == [k \in DOMAIN f \cup DOMAIN g |-> IF k \in DOMAIN f THEN f[k] ELSE g[k]]

\* uniqueId: the base, or the first of base-2, base-3, ... that is free.
uniqueId(base, existing) ==
    IF base \notin existing THEN base
    ELSE LET free == {i \in DOMAIN Numbers : base \o <<Numbers[i]>> \notin existing}
         IN  base \o <<Numbers[Min(free)]>>
=============================================================================
