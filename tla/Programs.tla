------------------------------ MODULE Programs ------------------------------
(***************************************************************************)
(* The workflow program of a document (program.ts, ProgramView.tsx): its   *)
(* modules are cut out of the graph, which is edited meanwhile, and its    *)
(* steps call them.  A node has one argument, a value or a reference at    *)
(* some depth of it, and one catalog output or none.                       *)
(***************************************************************************)
EXTENDS Identifiers, SequencesExt, FiniteSets, Functions

CONSTANTS
    Drawings,         \* the graphs that are drawn while the program is made
    Selected,         \* what can be selected; it may name nodes that are gone
    MaxSteps,         \* bound: steps of the program
    MaxProgramEdits   \* bound: edits of the program and of the graph

VARIABLES
    drawn,       \* the graph: its nodes, inputs and outputs
    program,     \* document.program
    removed,     \* ghost: the steps that were deleted
    programEdits \* bound: how many edits there were

programVars == <<drawn, program, removed, programEdits>>

NoProgram == [inputs |-> {}, modules |-> [id \in {} |-> {}], steps |-> <<>>, outputs |-> {}]

\* The argument is the reference ("top"), or a list or record that holds it.
Literally == [at |-> "top", kind |-> "literal", name |-> <<>>]
InputAt(at, name) == [at |-> at, kind |-> "input", name |-> name]
NodeAt(at, name) == [at |-> at, kind |-> "node", name |-> name]

\* A drawing is a graph that refers to nothing else, and there is a name for
\* each step and module.
DrawnNode == [arg : [at : {"top", "list", "record"}, kind : {"literal", "input", "node"}, name : Seq(STRING)],
         deps : SUBSET Seq(STRING), output : BOOLEAN]
Resolves(graph) ==
    /\ \A node \in Range(graph.nodes) :
         /\ node.arg.kind = "input" => node.arg.name \in graph.inputs
         /\ node.arg.kind = "node" => node.arg.name \in DOMAIN graph.nodes
         /\ node.deps \subseteq DOMAIN graph.nodes
    /\ graph.outputs \subseteq DOMAIN graph.nodes
ASSUME ProgramAssumption ==
    /\ {MaxSteps, MaxProgramEdits} \subseteq 0..Len(Numbers)
    /\ \A graph \in Drawings :
         /\ graph.nodes \in [DOMAIN graph.nodes -> DrawnNode] /\ Resolves(graph)
         /\ graph.inputs \in SUBSET Seq(STRING)

EditProgram == programEdits < MaxProgramEdits /\ programEdits' = programEdits + 1

(* -------------------------------- modules ------------------------------ *)

\* Mutant: lists and records are not looked into.
ParameterizedAtTop(value) ==
    IF value.kind = "input" /\ value.at = "top" THEN [value EXCEPT !.kind = "param"] ELSE value

\* A reference to a graph input becomes one to a parameter of the module.
parameterize(value) ==
    IF value.kind = "input" THEN [value EXCEPT !.kind = "param"] ELSE value

Parameterized(nodes) == [id \in DOMAIN nodes |-> [nodes[id] EXCEPT !.arg = parameterize(@)]]
InputsOf(nodes) == {node.arg.name : node \in {n \in Range(nodes) : n.arg.kind = "input"}}

\* The nodes a selection depends on and does not have.
Outside(nodes) ==
    (UNION {node.deps \cup (IF node.arg.kind = "node" THEN {node.arg.name} ELSE {}) : node \in Range(nodes)})
    \ DOMAIN nodes

\* What the selection has is copied; it must stand for itself and have an output.
moduleForNodes(nodes) ==
    [parameters |-> InputsOf(nodes), nodes |-> Parameterized(nodes),
     outputs |-> {id \in DOMAIN nodes : nodes[id].output}]
IsModule(nodes) == Outside(nodes) = {} /\ \E id \in DOMAIN nodes : nodes[id].output

createProgramFromGraph ==
    LET id == <<"workflow">>
        module == [parameters |-> drawn.inputs, nodes |-> Parameterized(drawn.nodes), outputs |-> drawn.outputs]
    IN  [inputs |-> drawn.inputs,
         modules |-> [i \in {id} |-> module],
         steps |-> <<[id |-> id, module |-> id, when |-> "always", map |-> FALSE,
                      arguments |-> [name \in module.parameters |-> "input"]]>>,
         outputs |-> {[step |-> id, output |-> output] : output \in module.outputs}]

addProgramStep(moduleId) ==
    LET id == uniqueId(moduleId, {step.id : step \in Range(program.steps)})
    IN  [id |-> id, module |-> moduleId, when |-> "always", map |-> FALSE,
         arguments |-> [name \in program.modules[moduleId].parameters |->
                          IF name \in program.inputs THEN "input" ELSE "null"]]

(* ------------------------------- the view ------------------------------ *)

CreateProgram ==
    /\ EditProgram /\ program = NoProgram /\ DOMAIN drawn.nodes # {}
    /\ program' = createProgramFromGraph
    /\ UNCHANGED <<drawn, removed>>

AddModuleFromSelection(selection) ==
    LET nodes == Restrict(drawn.nodes, selection \cap DOMAIN drawn.nodes)
        id == uniqueId(<<"module">>, DOMAIN program.modules)
    IN  /\ EditProgram /\ program # NoProgram /\ selection # {}
        /\ IsModule(nodes)
        /\ program' = [program EXCEPT !.modules = With(@, id, moduleForNodes(nodes))]
        /\ UNCHANGED <<drawn, removed>>

AddStep(moduleId) ==
    /\ EditProgram /\ Len(program.steps) < MaxSteps
    /\ program' = [program EXCEPT !.steps = Append(@, addProgramStep(moduleId))]
    /\ UNCHANGED <<drawn, removed>>

\* The outputs of the program are left as they are.
DeleteStep(i) ==
    /\ EditProgram
    /\ program' = [program EXCEPT !.steps = RemoveAt(@, i)]
    /\ removed' = removed \cup {program.steps[i].id}
    /\ UNCHANGED drawn

UpdateStep(i) ==
    /\ EditProgram
    /\ \/ \E mode \in {"always", "include", "exclude", "expression"} \ {program.steps[i].when} :
            program' = [program EXCEPT !.steps[i].when = mode]
       \/ program' = [program EXCEPT !.steps[i].map = ~@]
       \/ \E name \in program.modules[program.steps[i].module].parameters :
            program' = [program EXCEPT !.steps[i].arguments[name] = "edited"]
    /\ UNCHANGED <<drawn, removed>>

\* The graph is edited beside the program.
EditDrawing ==
    /\ EditProgram
    /\ drawn' \in Drawings \ {drawn}
    /\ UNCHANGED <<program, removed>>

ProgramsInit ==
    /\ drawn \in Drawings
    /\ program = NoProgram /\ removed = {} /\ programEdits = 0

ProgramsNext ==
    \/ CreateProgram
    \/ \E selection \in Selected : AddModuleFromSelection(selection)
    \/ \E moduleId \in DOMAIN program.modules : AddStep(moduleId)
    \/ \E i \in DOMAIN program.steps : DeleteStep(i) \/ UpdateStep(i)
    \/ EditDrawing

ProgramsSpec == ProgramsInit /\ [][ProgramsNext]_programVars

(* ------------------------------ properties ----------------------------- *)

StandsAlone(module) ==
    \A node \in Range(module.nodes) :
        /\ node.arg.kind = "param" => node.arg.name \in module.parameters
        /\ node.arg.kind # "input"
        /\ node.arg.kind = "node" => node.arg.name \in DOMAIN module.nodes
        /\ node.deps \subseteq DOMAIN module.nodes

\* A program refers to nothing outside of it, whatever was selected and however
\* the graph was edited since: a module to its own nodes and parameters, a step
\* to inputs of the program and under a name of its own, an output to a step,
\* unless that was deleted (program.ts:20-24, ProgramView.tsx:104).
ProgramsAreWhole ==
    /\ \A module \in Range(program.modules) : StandsAlone(module) /\ module.outputs \subseteq DOMAIN module.nodes
    /\ \A i \in DOMAIN program.steps :
         LET step == program.steps[i] IN
         /\ DOMAIN step.arguments = program.modules[step.module].parameters
         /\ \A name \in DOMAIN step.arguments : step.arguments[name] = "input" => name \in program.inputs
         /\ \A j \in DOMAIN program.steps : program.steps[j].id = step.id => j = i
    /\ \A output \in program.outputs :
         \/ output.step \in removed
         \/ \E step \in Range(program.steps) :
              output.step = step.id /\ output.output \in program.modules[step.module].outputs

=============================================================================
