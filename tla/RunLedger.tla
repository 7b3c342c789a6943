----------------------------- MODULE RunLedger -----------------------------
(***************************************************************************)
(* What the run records promise a reader of the workspace: each run has a  *)
(* history that only grows, crashes and failed writes included, and that   *)
(* tells a possible story at every moment.                                 *)
(***************************************************************************)
EXTENDS Naturals, Sequences, FiniteSets

CONSTANTS
    Runs,      \* run identifiers
    Kinds      \* kinds of history entries

VARIABLE ledger   \* the saved history of every run, empty for an unknown run

Occurrences(history, kinds) == Cardinality({i \in DOMAIN history : history[i] \in kinds})

\* A run is created once, first.  Each of its launches executes at most once,
\* and ends and fails at most once.  Only a run that was cancelled or that ended
\* is resumed.  A fetch ends after it was begun.
Legal(history) ==
    /\ history[1] = "created"
    /\ \A n \in 1..Len(history) :
          LET past == SubSeq(history, 1, n)
              launches == Occurrences(past, {"created", "resumed"})
          IN  /\ n > 1 => history[n] # "created"
              /\ \A kind \in {"execution_started", "execution_finished", "execution_failed"} :
                    Occurrences(past, {kind}) <= launches
              /\ history[n] = "resumed" =>
                    Occurrences(past, {"cancelled", "execution_finished", "execution_failed"}) > 0
              /\ Occurrences(past, {"fetch_finished", "fetch_failed"})
                    <= Occurrences(past, {"fetch_started"})

Init == ledger = [r \in Runs |-> <<>>]

\* One write may carry the entries of earlier writes that failed.
Extend(r) ==
    /\ ledger' \in [Runs -> Seq(Kinds)]
    /\ \A q \in Runs \ {r} : ledger'[q] = ledger[q]
    /\ Len(ledger'[r]) > Len(ledger[r])
    /\ SubSeq(ledger'[r], 1, Len(ledger[r])) = ledger[r]
    /\ Legal(ledger'[r])

Next == \E r \in Runs : Extend(r)

Spec == Init /\ [][Next]_ledger
=============================================================================
