---------------------------- MODULE WatchPanels -----------------------------
(***************************************************************************)
(* The two panels that follow something to its end, the install sheet and  *)
(* the tiles of the variations. They share no state; a behaviour exercises *)
(* one of them and leaves the other as it is.                              *)
(***************************************************************************)
EXTENDS ModelInstall, AppTiles

VARIABLE
    panel  \* the panel that the behaviour exercises

panelVars == <<panel, vars, tileVars>>

\* The panel that stands still begins in some fixed state.
PanelsInit ==
    /\ panel \in {"install", "tiles"}
    /\ Init /\ (panel # "install" => scope = "local")
    /\ TilesInit

Install(action) == panel = "install" /\ action /\ UNCHANGED <<panel, tileVars>>
Tiles(action) == panel = "tiles" /\ action /\ UNCHANGED <<panel, vars>>

PanelsNext == Install(Next) \/ Tiles(TilesNext)

\* The fairness of ModelInstall and AppTiles: what is asked is answered or
\* fails, timers fire, and a child or a plan that was started ends.
PanelsSpec ==
    /\ PanelsInit /\ [][PanelsNext]_panelVars
    /\ \A c \in Confirms : WF_vars(Watcher(c)) /\ WF_vars(PlanEnds(c))
    /\ \A m \in Models : WF_vars(PullEnds(m))
    /\ \A run \in Runs : WF_tileVars(Polled(run)) /\ WF_tileVars(PolledLate(run))
=============================================================================
