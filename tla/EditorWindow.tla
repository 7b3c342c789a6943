---------------------------- MODULE EditorWindow ----------------------------
(***************************************************************************)
(* An editor window: the session of its document (EditorSession) and what  *)
(* its canvas shows of a node while a run goes on (NodeProgress).  The two *)
(* share no state; a behaviour exercises one and leaves the other as it    *)
(* is.                                                                     *)
(***************************************************************************)
EXTENDS EditorSession, NodeProgress

VARIABLE
    part  \* the part that the behaviour exercises

windowVars == <<part, vars, progressVars>>

\* The part that stands still begins in some fixed state.
WindowInit ==
    /\ part \in {"session", "node"}
    /\ Init
    /\ ProgressInit /\ (part # "node" => place = "desktop")

WindowNext ==
    \/ part = "session" /\ Next /\ UNCHANGED <<part, progressVars>>
    \/ part = "node" /\ ProgressNext /\ UNCHANGED <<part, vars>>

WindowSpec == WindowInit /\ [][WindowNext]_windowVars
=============================================================================
