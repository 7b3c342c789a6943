--------------------------- MODULE DocumentPanels ---------------------------
(***************************************************************************)
(* The parts of the document that share no state with each other: its      *)
(* graph, one argument of a node, its program, the job it is in the cloud, *)
(* the form it has as an app, and the files and answers it is read from    *)
(* and written to.  A behaviour exercises one of them and leaves the       *)
(* others as they are.                                                     *)
(***************************************************************************)
EXTENDS GraphEdits, ArgumentValues, Programs, FleetJob, AppForm, Documents

VARIABLE
    panel  \* the part that the behaviour exercises

panelVars == <<panel, vars, argumentVars, programVars, fleetVars, formVars, documentVars>>

\* A part that stands still begins in some fixed state.
Still(variable, states) == variable = CHOOSE state \in states : TRUE

PanelsInit ==
    /\ panel \in {"graph", "argument", "program", "job", "form", "document"}
    /\ Init /\ (panel # "graph" => Still(doc.nodes, OpenedNodes))
    /\ ValuesInit
    /\ panel # "argument" => Still(schema, Schemas) /\ argument = Missing
    /\ ProgramsInit /\ (panel # "program" => Still(drawn, Drawings))
    /\ FleetInit /\ (panel # "job" => Still(fleet, Fleets) /\ Still(task.nodes, Workflows) /\ Still(task.supplied, Supplied))
    /\ FormInit /\ (panel # "form" => Still(inputs, FirstInputs))
    /\ DocumentsInit
    /\ panel # "document" => /\ Still(shape, DOMAIN Writer) /\ Still(command, Askers(shape))
                             /\ Still(written, DocumentsOf(shape))

PanelsNext ==
    \/ panel = "graph" /\ Next /\ UNCHANGED <<panel, argumentVars, programVars, fleetVars, formVars, documentVars>>
    \/ panel = "argument" /\ ValuesNext /\ UNCHANGED <<panel, vars, programVars, fleetVars, formVars, documentVars>>
    \/ panel = "program" /\ ProgramsNext /\ UNCHANGED <<panel, vars, argumentVars, fleetVars, formVars, documentVars>>
    \/ panel = "job" /\ FleetNext /\ UNCHANGED <<panel, vars, argumentVars, programVars, formVars, documentVars>>
    \/ panel = "form" /\ FormNext /\ UNCHANGED <<panel, vars, argumentVars, programVars, fleetVars, documentVars>>
    \/ panel = "document" /\ DocumentsNext /\ UNCHANGED <<panel, vars, argumentVars, programVars, fleetVars, formVars>>

PanelsSpec == PanelsInit /\ [][PanelsNext]_panelVars
=============================================================================
