------------------------------ MODULE AppTiles ------------------------------
(***************************************************************************)
(* A set of variations of one workflow: a run for every value of an input, *)
(* or for every model, the tile that shows it, and the watches that keep   *)
(* the tiles up to date (App.tsx, AppView.tsx).                            *)
(***************************************************************************)
EXTENDS Naturals, FiniteSets

CONSTANTS
    Runs,      \* the runs a behaviour can start
    MaxBroken  \* bound: requests that fail

ASSUME TilesAssumption == MaxBroken \in Nat

VARIABLES
    batch,     \* the runs of runVariations: "asked", or as they were answered
    started,   \* every run that was started and its state
    tiles,     \* variations: the state each tile shows
    watchers,  \* the watch of each tile: "ask", "asked", or the state it read
    late,      \* answers to polls of watches that were aborted
    broken,    \* bound: how many requests failed
    silent     \* ghost: tiles whose watch ended with an error

tileVars == <<batch, started, tiles, watchers, late, broken, silent>>

Ended == {"finished", "failed"}
\* variationWatchKey: the tiles whose state says that more is to come. A run
\* that is planned or checks its requirements is not among them.
Watched(shownTiles) == {run \in Runs : shownTiles[run] = "running"}

\* Mutant: the watches of the tiles that are left are not started again.
WatchNewOnly(next, watching, answers) ==
    /\ tiles' = next /\ late' = answers
    /\ watchers' = IF Watched(next) = Watched(tiles) THEN watching
                   ELSE [run \in Runs |-> IF run \in Watched(next) \ Watched(tiles) THEN "ask" ELSE "none"]

\* setVariations, and the effect on the watch key: when it changes every watch
\* is aborted and one is started for each tile on it. A request on its way is
\* answered all the same.
SetTiles(next, watching, answers) ==
    /\ tiles' = next
    /\ IF Watched(next) = Watched(tiles) THEN watchers' = watching /\ late' = answers
       ELSE /\ watchers' = [run \in Runs |-> IF run \in Watched(next) THEN "ask" ELSE "none"]
            /\ late' = answers \cup {<<run, watching[run]>> : run \in
                          {run \in Runs : watching[run] \notin {"none", "ask"}}}

Break == broken < MaxBroken /\ broken' = broken + 1

\* runVariations and runModelRace: a run for every value, or every model.
RunVariations ==
    /\ DOMAIN batch = {}  \* variationBusy
    /\ \E chosen \in SUBSET {run \in Runs : started[run] = "none"} :
         /\ Cardinality(chosen) = 2
         /\ batch' = [run \in chosen |-> "asked"]
    /\ UNCHANGED <<started, tiles, watchers, late, broken, silent>>

\* Promise.all: with the last answer the tiles are there, and with the first
\* failure none will be, though the other runs go on.
RunStarted(run) ==
    /\ run \in DOMAIN batch /\ batch[run] = "asked"
    /\ started' = [started EXCEPT ![run] = "running"]
    /\ LET answered == [batch EXCEPT ![run] = "running"] IN
       IF \E other \in DOMAIN batch : answered[other] = "asked"
       THEN batch' = answered /\ UNCHANGED <<tiles, watchers, late>>
       ELSE /\ batch' = <<>>
            /\ SetTiles([r \in Runs |-> IF r \in DOMAIN answered THEN answered[r] ELSE "none"], watchers, late)
    /\ UNCHANGED <<broken, silent>>
RunRefused(run) ==
    /\ run \in DOMAIN batch /\ batch[run] = "asked" /\ Break
    /\ batch' = <<>>
    /\ started' = [r \in Runs |-> IF r = run THEN "failed"
                                  ELSE IF r \in DOMAIN batch THEN "running" ELSE started[r]]
    /\ UNCHANGED <<tiles, watchers, late, silent>>

clearVariations ==
    /\ \E run \in Runs : tiles[run] # "none"
    /\ SetTiles([run \in Runs |-> "none"], watchers, late)
    /\ UNCHANGED <<batch, started, broken, silent>>

RunMoves(run) ==
    /\ \/ started[run] = "running" /\ started' = [started EXCEPT ![run] = "planned"]
       \/ started[run] = "planned" /\ started' = [started EXCEPT ![run] = "running"]
       \/ started[run] \in {"running", "planned"} /\ \E state \in Ended : started' = [started EXCEPT ![run] = state]
    /\ UNCHANGED <<batch, tiles, watchers, late, broken, silent>>

\* watchRun: ask, read the run, hand it over; then wait, or stop at its end.
TileAsks(run) ==
    /\ watchers[run] = "ask" /\ watchers' = [watchers EXCEPT ![run] = "asked"]
    /\ UNCHANGED <<batch, started, tiles, late, broken, silent>>
TileReads(run) ==
    /\ watchers[run] = "asked" /\ watchers' = [watchers EXCEPT ![run] = started[run]]
    /\ UNCHANGED <<batch, started, tiles, late, broken, silent>>
TileAnswered(run) ==
    /\ watchers[run] \notin {"none", "ask", "asked"}
    /\ SetTiles([tiles EXCEPT ![run] = watchers[run]],
                [watchers EXCEPT ![run] = IF @ \in Ended THEN "none" ELSE "ask"], late)
    /\ silent' = silent \ {run}
    /\ UNCHANGED <<batch, started, broken>>

\* "A failed variation stream leaves that tile in its last state" (App.tsx:1377).
TileFails(run) ==
    /\ watchers[run] = "asked" /\ Break
    /\ watchers' = [watchers EXCEPT ![run] = "none"]
    /\ silent' = silent \cup {run}
    /\ UNCHANGED <<batch, started, tiles, late>>

\* The answer to a watch that was aborted counts like any other.
LateRead(run) ==
    /\ <<run, "asked">> \in late
    /\ late' = (late \ {<<run, "asked">>}) \cup {<<run, started[run]>>}
    /\ UNCHANGED <<batch, started, tiles, watchers, broken, silent>>
LateAnswered(run) ==
    \E answer \in late :
      /\ answer[1] = run /\ answer[2] # "asked"
      /\ SetTiles(IF tiles[run] = "none" THEN tiles ELSE [tiles EXCEPT ![run] = answer[2]],
                  watchers, late \ {answer})
      /\ UNCHANGED <<batch, started, broken, silent>>

TilesInit ==
    /\ batch = <<>>
    /\ started = [run \in Runs |-> "none"] /\ tiles = [run \in Runs |-> "none"]
    /\ watchers = [run \in Runs |-> "none"] /\ late = {} /\ broken = 0 /\ silent = {}

Polled(run) == TileAsks(run) \/ TileReads(run) \/ TileAnswered(run)
PolledLate(run) == LateRead(run) \/ LateAnswered(run)

TilesNext ==
    \/ RunVariations \/ clearVariations
    \/ \E run \in Runs : \/ RunStarted(run) \/ RunRefused(run) \/ RunMoves(run) \/ TileFails(run)
                         \/ Polled(run) \/ PolledLate(run)

\* A poll that is due is made and answered; runs may go on for ever.
TilesSpec ==
    /\ TilesInit /\ [][TilesNext]_tileVars
    /\ \A run \in Runs : WF_tileVars(Polled(run)) /\ WF_tileVars(PolledLate(run))

(* ------------------------------ properties ----------------------------- *)

\* A tile comes to show how its run ended, though the watches are aborted and
\* started over whenever the set of running tiles changes, and the answers to
\* aborted watches are taken too. Not so a tile whose watch failed, and one
\* that was seen planned, which is not watched any more (App.tsx:1366).
TilesSettle ==
    \A run \in Runs :
        started[run] \in Ended /\ tiles[run] # "none"
            ~> tiles[run] \in {"none", "planned", started[run]} \/ run \in silent

=============================================================================
