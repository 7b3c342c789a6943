----------------------------- MODULE GraphEdits -----------------------------
(***************************************************************************)
(* The edits of a workflow document: web/src/graph.ts, document-edits.ts   *)
(* and presets.ts, in the order the canvas (GraphCanvas.tsx), the          *)
(* inspector (Inspector.tsx) and the handlers of App.tsx apply them.       *)
(*                                                                         *)
(* As in the source every edit maps one document to the next.  A node has  *)
(* one argument, since every edit treats the arguments of a node alike; a  *)
(* value is missing, plain, or a list that holds one value.  Field types   *)
(* and the vertical position of a card are left out.                       *)
(***************************************************************************)
EXTENDS Identifiers, SequencesExt, FiniteSets, Functions

CONSTANTS
    Edits,      \* the kinds of edits a behaviour may have
    MaxEdits,   \* bound: how many there are
    MaxNodes,   \* bound: nodes of the document
    MaxInputs,  \* bound: graph inputs
    NewNames    \* the names the user types into a rename field

AllEdits == {"add", "argument", "promote", "inline", "rename", "input", "connect",
             "output", "delete", "group", "preset", "move"}

ASSUME EditAssumption ==
    /\ Edits \subseteq AllEdits
    /\ MaxEdits \in Nat /\ {2 * MaxNodes, MaxInputs} \subseteq 0..Len(Numbers)
    /\ MaxNodes \in Nat \ {0, 1} \* an opened document has two nodes
    /\ \A name \in NewNames : name \in Seq(STRING) /\ name # <<>>

VARIABLES
    doc,      \* the StudioDocument
    preset,   \* the preset that was saved last
    edits,    \* bound: how many edits there were
    clipped,  \* ghost: a rename of one input met a reference to another
    orphaned, \* ghost: a node was inlined that an ordering, group or selection names
    looped    \* ghost: a reference was chosen in the inspector against the order

vars == <<doc, preset, edits, clipped, orphaned, looped>>

(* ------------------------------- values -------------------------------- *)

Literal == [kind |-> "literal", name |-> <<>>]
Null == [kind |-> "null", name |-> <<>>]
NodeRef(id) == [kind |-> "node", name |-> id]
InputRef(name) == [kind |-> "input", name |-> name]

Plain(leaf) == [shape |-> "plain", leaf |-> leaf]
List(leaf) == [shape |-> "list", leaf |-> leaf]
Absent == [shape |-> "absent", leaf |-> Null]

isGraphReference(value) == value.shape = "plain" /\ value.leaf.kind \in {"node", "input"}
referencesIn(value) == {value.leaf} \ {Literal, Null}

nodeDependencies(node) == node.deps \cup {r.name : r \in {s \in referencesIn(node.arg) : s.kind = "node"}}

Without(f, S) == Restrict(f, DOMAIN f \ S)
Renamed(f, from, to) == [k \in (DOMAIN f \ {from}) \cup {to} |-> IF k = to THEN f[from] ELSE f[k]]
NoFunction == [k \in {} |-> {}]

Ids(d) == DOMAIN d.nodes
Leftmost(xs) == IF xs = {} THEN 320 ELSE Min(xs)

(* ------------------------------ dependencies --------------------------- *)

\* Everything that depends on one of the nodes, in up to n steps.
Downstream(d, id) ==
    LET reach[n \in 0..MaxNodes] ==
          IF n = 0 THEN {id}
          ELSE reach[n - 1] \cup {t \in Ids(d) : nodeDependencies(d.nodes[t]) \cap reach[n - 1] # {}}
    IN  reach[MaxNodes]

\* Mutant: only edges that close a loop at once are refused.
LoopsAtOnce(d, source, target) ==
    source \in {target} \cup {t \in Ids(d) : target \in nodeDependencies(d.nodes[t])}

wouldCreateDependencyCycle(d, source, target) == source \in Downstream(d, target)

\* Mutant: a node is placed after the first of its dependencies.
LayerAfterAny(before, deps) == IF deps = {} THEN 0 ELSE 1 + Min({before[s] : s \in deps})

LayerAfter(before, deps) == IF deps = {} THEN 0 ELSE 1 + Max({before[s] : s \in deps})

\* graphLayers: a node comes after the last of its dependencies; nodes that wait
\* for each other, and those behind them, stay in the first layer.
graphLayers(d) ==
    LET deps(id) == nodeDependencies(d.nodes[id]) \cap Ids(d)
        layered[n \in 0..MaxNodes] ==
          IF n = 0 THEN [id \in {} |-> 0]
          ELSE LET before == layered[n - 1]
                   next == {id \in Ids(d) \ DOMAIN before : deps(id) \subseteq DOMAIN before}
               IN  Joined(before, [id \in next |-> LayerAfter(before, deps(id))])
    IN  Joined(layered[MaxNodes], [id \in Ids(d) |-> 0])

EDITOR_COLUMN_SPACING == 420

autoLayoutGraph(d) ==
    LET layers == graphLayers(d)
        origin == IF d.inputs = {} THEN 80 ELSE 328
    IN  [d EXCEPT !.x = [id \in Ids(d) |-> origin + layers[id] * EDITOR_COLUMN_SPACING]]

(* -------------------------------- nodes -------------------------------- *)

addCatalogNode(d, base) ==
    LET id == uniqueId(base, Ids(d))
    IN  [d EXCEPT !.nodes = With(@, id, [kind |-> "task", arg |-> Plain(Literal), deps |-> {}]),
                  !.x = With(@, id, 80 + (Cardinality(Ids(d)) % 3) * EDITOR_COLUMN_SPACING)]

updateArgument(d, id, value) == [d EXCEPT !.nodes[id].arg = value]

materialId(d, id) == uniqueId(id \o <<"a">>, Ids(d))

CanPromote(d, id) ==
    d.nodes[id].kind = "task" /\ d.nodes[id].arg # Absent /\ ~isGraphReference(d.nodes[id].arg)

\* A consumer at the left edge makes room.
positionMaterialNode(positions, id, x, material) ==
    LET consumerX == IF x < 360 THEN x + 340 ELSE x
    IN  With(With(positions, id, consumerX), material, consumerX - 340)

\* promoteNodeArgument: the value moves into a node of its own, left of the consumer.
promoteNodeArgument(d, id) ==
    LET material == materialId(d, id)
        x == IF id \in DOMAIN d.x THEN d.x[id] ELSE 360
    IN  [d EXCEPT !.nodes = With([d.nodes EXCEPT ![id].arg = Plain(NodeRef(material))], material,
                                 [kind |-> "value", arg |-> d.nodes[id].arg, deps |-> {}]),
                  !.x = positionMaterialNode(@, id, x, material),
                  !.promotions = With(@, material, [consumer |-> id, x |-> x])]

Refers(d, leaf) ==
    (\E id \in Ids(d) : leaf \in referencesIn(d.nodes[id].arg))
    \/ (\E name \in DOMAIN d.outputs : NodeRef(d.outputs[name]) = leaf)

CanInline(d, material, targets) ==
    /\ d.nodes[material].kind = "value"
    /\ d.nodes[material].arg # Absent /\ ~isGraphReference(d.nodes[material].arg)
    /\ targets = Ids(d) => \A name \in DOMAIN d.outputs : d.outputs[name] # material

\* replaceExactReference; a list inside a list counts as a list.
Inlined(value, leaf, by) ==
    IF value.leaf # leaf THEN value
    ELSE IF value.shape = "plain" THEN by ELSE List(by.leaf)

\* Mutant: the consumer stays where the promotion moved it.
DeleteMaterialInPlace(d, material) ==
    [d EXCEPT !.nodes = Without(@, {material}), !.x = Without(@, {material}),
              !.promotions = Without(@, {material})]

\* deleteMaterialNode: the consumer goes back to where it was before the promotion.
deleteMaterialNode(d, material) ==
    LET promotion == d.promotions[material]
        back == material \in DOMAIN d.promotions /\ promotion.consumer \in DOMAIN d.x
        x == Without(d.x, {material})
    IN  [d EXCEPT !.nodes = Without(@, {material}),
                  !.x = IF back THEN [x EXCEPT ![promotion.consumer] = promotion.x] ELSE x,
                  !.promotions = Without(@, {material})]

\* inlineMaterialNode, for one consumer or for all nodes.
inlineMaterialNode(d, material, targets) ==
    LET leaf == NodeRef(material)
        inlined(node) == [node EXCEPT !.arg = Inlined(@, leaf, d.nodes[material].arg)]
        nodes == [id \in Ids(d) |-> IF id \in targets THEN inlined(d.nodes[id]) ELSE d.nodes[id]]
        next == [d EXCEPT !.nodes = nodes]
    IN  IF Refers(next, leaf) THEN next ELSE deleteMaterialNode(next, material)

\* Mutant: the note of a promotion keeps the old name of its consumer.
RenamedMaterialOnly(notes, from, to) ==
    IF from \in DOMAIN notes THEN Renamed(notes, from, to) ELSE notes

RenamedPromotions(notes, from, to) ==
    LET moved == [m \in DOMAIN notes |->
                    IF notes[m].consumer = from THEN [notes[m] EXCEPT !.consumer = to] ELSE notes[m]]
    IN  IF from \in DOMAIN notes THEN Renamed(moved, from, to) ELSE moved

Moved(id, from, to) == IF id = from THEN to ELSE id

\* References in arguments, orderings and outputs.
renameGraphReferences(d, from, to) ==
    LET leaf(l) == IF l = NodeRef(from) THEN NodeRef(to) ELSE l
        renamed(node) == [node EXCEPT !.arg.leaf = leaf(@), !.deps = {Moved(s, from, to) : s \in @}]
        nodes == [id \in Ids(d) |-> renamed(d.nodes[id])]
    IN  [d EXCEPT !.nodes = nodes,
                  !.outputs = [name \in DOMAIN @ |-> Moved(@[name], from, to)]]

\* Positions, promotions, groups and selections.
renameSidecarReferences(d, from, to) ==
    LET members(f) == [name \in DOMAIN f |-> {Moved(id, from, to) : id \in f[name]}]
    IN  [d EXCEPT !.x = Renamed(@, from, to),
                  !.promotions = RenamedPromotions(@, from, to),
                  !.groups = members(@), !.sets = members(@)]

renameNode(d, from, to) ==
    LET named == [d EXCEPT !.nodes = Renamed(@, from, to)]
    IN  renameSidecarReferences(renameGraphReferences(named, from, to), from, to)

\* Mutant: a reference inside a list is left alone.
WithoutPlain(value, leaf) == IF value = Plain(leaf) THEN Absent ELSE value

\* An argument that is a reference goes, one inside a list becomes null.
WithoutReference(value, leaf) ==
    IF value.leaf # leaf \/ value = Absent THEN value
    ELSE IF value.shape = "plain" THEN Absent ELSE List(Null)

deleteNodeReferences(node, gone) ==
    [node EXCEPT !.deps = @ \ {gone}, !.arg = WithoutReference(@, NodeRef(gone))]

\* A saved selection that is left empty goes too, a group stays.
deleteSidecarReferences(d, gone) ==
    LET named == {m \in DOMAIN d.promotions : gone \in {m, d.promotions[m].consumer}}
        members(f) == [name \in DOMAIN f |-> f[name] \ {gone}]
    IN  [d EXCEPT !.x = Without(@, {gone}),
                  !.promotions = Without(@, named),
                  !.groups = members(@),
                  !.sets = Without(members(@), {name \in DOMAIN @ : @[name] \subseteq {gone}})]

deleteNode(d, gone) ==
    LET nodes == [id \in Ids(d) \ {gone} |-> deleteNodeReferences(d.nodes[id], gone)]
        outputs == Without(d.outputs, {name \in DOMAIN d.outputs : d.outputs[name] = gone})
    IN  deleteSidecarReferences([d EXCEPT !.nodes = nodes, !.outputs = outputs], gone)

removeNodes(d, gone) == FoldSet(LAMBDA id, e : deleteNode(e, id), d, gone)

(* --------------------------- edges and connections --------------------- *)

\* A connection lands in the whole argument, or in the list it holds.
Wired(value, leaf, shape) == IF shape = "plain" THEN Plain(leaf) ELSE List(leaf)
CanWire(d, target, shape) == shape = "plain" \/ d.nodes[target].arg.shape = "list"

connectNodeOutput(d, source, target, shape) ==
    [d EXCEPT !.nodes[target].arg = Wired(@, NodeRef(source), shape)]
connectGraphInput(d, name, target, shape) ==
    [d EXCEPT !.nodes[target].arg = Wired(@, InputRef(name), shape)]
connectOrderingDependency(d, source, target) ==
    [d EXCEPT !.nodes[target].deps = @ \cup {source}]

disconnectNodeInput(d, target, leaf) ==
    [d EXCEPT !.nodes[target].arg = WithoutReference(@, leaf)]
disconnectOrderingDependency(d, source, target) ==
    [d EXCEPT !.nodes[target].deps = @ \ {source}]

removeEdge(d, edge) ==
    IF edge.kind = "data" THEN disconnectNodeInput(d, edge.target, edge.leaf)
    ELSE disconnectOrderingDependency(d, edge.leaf.name, edge.target)
removeEdges(d, edges) == FoldSet(LAMBDA edge, e : removeEdge(e, edge), d, edges)

\* The edges on the canvas (referenceEdge, orderingEdge).  An output has at most
\* one edge, which goes with it.
Edge(kind, leaf, target) == [kind |-> kind, leaf |-> leaf, target |-> target]
referenceEdges(d, id) == {Edge("data", leaf, id) : leaf \in referencesIn(d.nodes[id].arg)}
orderingEdges(d, id) == {Edge("order", NodeRef(s), id) : s \in d.nodes[id].deps}
CanvasEdges(d) == UNION {referenceEdges(d, id) \cup orderingEdges(d, id) : id \in Ids(d)}

(* --------------------------- inputs and outputs ------------------------ *)

\* The first input makes room on the left of the canvas.
addGraphInput(d) ==
    LET name == uniqueId(<<"input">>, d.inputs)
        missing == 320 - Leftmost(Range(d.x))
        shift == IF d.inputs = {} /\ missing > 0 THEN missing ELSE 0
        promotions == [m \in DOMAIN d.promotions |-> [d.promotions[m] EXCEPT !.x = @ + shift]]
    IN  [d EXCEPT !.inputs = @ \cup {name}, !.values = @ \cup {name},
                  !.x = [id \in DOMAIN @ |-> @[id] + shift],
                  !.promotions = promotions]

\* addAssetInputs: one input for each file, none with a name that is taken.
addAssetInputs(d, bases) ==
    FoldLeft(LAMBDA e, base : [e EXCEPT !.inputs = @ \cup {uniqueId(base, e.inputs)},
                                       !.values = @ \cup {uniqueId(base, e.inputs)}], d, bases)

\* replaceReference replaces the text "inputs.<from>" wherever it stands, also at
\* the head of a longer name.
Hit(from, leaf) == leaf.kind = "input" /\ IsPrefix(from, leaf.name)
Replaced(leaf, from, to) ==
    IF Hit(from, leaf) THEN InputRef(to \o SubSeq(leaf.name, Len(from) + 1, Len(leaf.name))) ELSE leaf

renameGraphInput(d, from, to) ==
    LET moved(names) == IF from \in names THEN (names \ {from}) \cup {to} ELSE names
        nodes == [id \in Ids(d) |-> [d.nodes[id] EXCEPT !.arg.leaf = Replaced(@, from, to)]]
    IN  [d EXCEPT !.inputs = moved(@), !.values = moved(@), !.nodes = nodes]

\* removeInputs: an argument that refers to one of them anywhere goes.
removeInputs(d, names) ==
    LET hit(id) == \E name \in names : InputRef(name) \in referencesIn(d.nodes[id].arg)
        nodes == [id \in Ids(d) |-> IF hit(id) THEN [d.nodes[id] EXCEPT !.arg = Absent] ELSE d.nodes[id]]
    IN  [d EXCEPT !.inputs = @ \ names, !.values = @ \ names, !.nodes = nodes]

addGraphOutput(d, source) ==
    [d EXCEPT !.outputs = With(@, uniqueId(<<"out">>, DOMAIN @), source)]
renameGraphOutput(d, from, to) == [d EXCEPT !.outputs = Renamed(@, from, to)]
removeOutputs(d, names) == [d EXCEPT !.outputs = Without(@, names)]

\* deleteElements: what is selected on the canvas, with the edges at its ends.
deleteElements(d, nodes, inputs, outputs, edges) ==
    removeOutputs(removeInputs(removeNodes(removeEdges(d, edges), nodes), inputs), outputs)

(* --------------------------- groups and presets ------------------------ *)

addEditorGroup(d, ids) == [d EXCEPT !.groups = With(@, uniqueId(<<"group">>, DOMAIN @), ids)]
saveEditorSelection(d, ids) == [d EXCEPT !.sets = With(@, uniqueId(<<"selection">>, DOMAIN @), ids)]

removeEditorItems(d, names) == [d EXCEPT !.groups = Without(@, names)]

NoPreset == [nodes |-> NoFunction, x |-> NoFunction]

\* validateSelection: whatever a node refers to is part of the preset.
CanCapture(d, ids) ==
    /\ ids # {} /\ ids \subseteq Ids(d)
    /\ \A id \in ids : /\ d.nodes[id].deps \subseteq ids
                       /\ referencesIn(d.nodes[id].arg) \subseteq {NodeRef(s) : s \in ids}

capturePreset(d, ids) == [nodes |-> Restrict(d.nodes, ids), x |-> Restrict(d.x, ids)]

\* The new names, given one after the other in the order of the preset.
NewIds(d, order) ==
    LET given[i \in 0..Len(order)] ==
          IF i = 0 THEN <<>>
          ELSE Append(given[i - 1], uniqueId(order[i], Ids(d) \cup ToSet(given[i - 1])))
    IN  [id \in ToSet(order) |-> given[Len(order)][CHOOSE i \in DOMAIN order : order[i] = id]]

\* Mutant: references inside lists keep the names of the preset.
RemapPlain(value, ids) ==
    IF value.shape = "plain" /\ value.leaf.kind = "node" THEN Plain(NodeRef(ids[value.leaf.name])) ELSE value

remapValue(value, ids) ==
    IF value.leaf.kind = "node" /\ value.leaf.name \in DOMAIN ids
    THEN [value EXCEPT !.leaf.name = ids[value.leaf.name]] ELSE value

insertPreset(d, p, order) ==
    LET ids == NewIds(d, order)
        old(new) == CHOOSE id \in DOMAIN ids : ids[id] = new
        left == Leftmost(Range(p.x))
        copies == [new \in Range(ids) |->
                     [p.nodes[old(new)] EXCEPT !.arg = remapValue(@, ids), !.deps = {ids[s] : s \in @}]]
        next == [d EXCEPT !.nodes = Joined(@, copies),
                          !.x = Joined(@, [new \in Range(ids) |-> 120 + p.x[old(new)] - left])]
    IN  IF Len(order) > 1 THEN addEditorGroup(next, Range(ids)) ELSE next

Orders(p) == SetToSeqs(DOMAIN p.nodes)

(* ------------------------------- the editor ---------------------------- *)

Edit(kind) == kind \in Edits /\ edits < MaxEdits /\ edits' = edits + 1
Commit(d) == doc' = d
Pure == UNCHANGED <<preset, clipped, orphaned, looped>>

\* What the reference menus of the inspector offer for a node; an empty menu
\* leaves an empty reference behind.
ReferenceOptions(d, id) ==
    LET offered == {InputRef(name) : name \in d.inputs} \cup {NodeRef(s) : s \in Ids(d) \ {id}}
    IN  IF offered = {} THEN {NodeRef(<<>>)} ELSE offered

AddNode ==
    /\ Edit("add") /\ Cardinality(Ids(doc)) < MaxNodes
    /\ Commit(addCatalogNode(doc, <<"n">>))
    /\ Pure

\* ArgumentField: a constant, nothing, or any reference of the menus, without
\* the canvas's check for cycles.
ArgumentChange ==
    /\ Edit("argument")
    /\ \E id \in Ids(doc) :
         \E value \in {Absent, Plain(Literal), List(Literal)}
                      \cup {Plain(r) : r \in ReferenceOptions(doc, id)}
                      \cup {List(r) : r \in ReferenceOptions(doc, id)} :
           /\ value # doc.nodes[id].arg
           /\ Commit(updateArgument(doc, id, value))
           /\ looped' = (looped \/ \E r \in referencesIn(value) :
                           r.kind = "node" /\ wouldCreateDependencyCycle(doc, r.name, id))
    /\ UNCHANGED <<preset, clipped, orphaned>>

PromoteArgument ==
    /\ Edit("promote") /\ Cardinality(Ids(doc)) < MaxNodes
    /\ \E id \in Ids(doc) : CanPromote(doc, id) /\ Commit(promoteNodeArgument(doc, id))
    /\ Pure

\* The inspector offers to inline into one consumer or everywhere.
InlineMaterial ==
    /\ Edit("inline")
    /\ \E material \in Ids(doc) :
         LET consumers == {id \in Ids(doc) \ {material} : NodeRef(material) \in referencesIn(doc.nodes[id].arg)}
         IN  /\ consumers # {}
             /\ \E targets \in {{c} : c \in consumers} \cup {Ids(doc)} :
                  /\ CanInline(doc, material, targets)
                  /\ Commit(inlineMaterialNode(doc, material, targets))
             /\ orphaned' = (orphaned \/ (material \notin Ids(doc')
                  /\ \/ \E id \in Ids(doc) : material \in doc.nodes[id].deps
                     \/ \E name \in DOMAIN doc.groups : material \in doc.groups[name]
                     \/ \E name \in DOMAIN doc.sets : material \in doc.sets[name]))
    /\ UNCHANGED <<preset, clipped, looped>>

RenameSelectedNode ==
    /\ Edit("rename")
    /\ \E id \in Ids(doc), desired \in NewNames \ Ids(doc) : Commit(renameNode(doc, id, desired))
    /\ Pure

AddInput ==
    /\ Edit("input") /\ Cardinality(doc.inputs) < MaxInputs
    /\ \/ Commit(addGraphInput(doc))
       \/ \E base \in NewNames : Commit(addAssetInputs(doc, <<base>>))
    /\ Pure

RenameInput ==
    /\ Edit("rename")
    /\ \E name \in doc.inputs, desired \in NewNames \ doc.inputs :
         /\ Commit(renameGraphInput(doc, name, desired))
         /\ clipped' = (clipped \/ \E id \in Ids(doc) :
                          Hit(name, doc.nodes[id].arg.leaf) /\ doc.nodes[id].arg.leaf.name # name)
    /\ UNCHANGED <<preset, orphaned, looped>>

\* The canvas lets nothing be drawn that closes a cycle.
ValidNodeConnection(source, target) == ~wouldCreateDependencyCycle(doc, source, target)

Connect ==
    /\ Edit("connect")
    /\ \E target \in Ids(doc), shape \in {"plain", "list"} :
         \/ /\ CanWire(doc, target, shape)
            /\ \/ \E source \in Ids(doc) :
                    /\ ValidNodeConnection(source, target)
                    /\ Commit(connectNodeOutput(doc, source, target, shape))
               \/ \E name \in doc.inputs : Commit(connectGraphInput(doc, name, target, shape))
         \/ \E source \in Ids(doc) :
              /\ ValidNodeConnection(source, target)
              /\ Commit(connectOrderingDependency(doc, source, target))
    /\ Pure

ExposeOutput ==
    /\ Edit("output") /\ doc.outputs = NoFunction
    /\ \E source \in Ids(doc) : Commit(addGraphOutput(doc, source))
    /\ Pure

\* A wire drawn to an output, and the source menu of the inspector.
connectGraphOutput(d, name, source) == [d EXCEPT !.outputs[name] = source]
ChangeOutputSource ==
    /\ Edit("output")
    /\ \E name \in DOMAIN doc.outputs, source \in Ids(doc) : Commit(connectGraphOutput(doc, name, source))
    /\ Pure

RenameOutput ==
    /\ Edit("output")
    /\ \E name \in DOMAIN doc.outputs, desired \in NewNames \ DOMAIN doc.outputs :
         Commit(renameGraphOutput(doc, name, desired))
    /\ Pure

\* The Delete key takes what is selected and the edges at its ends, or one edge.
DeleteElements ==
    /\ Edit("delete")
    /\ \/ \E nodes \in SUBSET Ids(doc), inputs \in SUBSET doc.inputs, outputs \in SUBSET DOMAIN doc.outputs :
            LET gone == {NodeRef(id) : id \in nodes} \cup {InputRef(name) : name \in inputs}
                edges == {e \in CanvasEdges(doc) : e.leaf \in gone \/ e.target \in nodes}
            IN  /\ gone # {} \/ outputs # {}
                /\ Commit(deleteElements(doc, nodes, inputs, outputs, edges))
       \/ \E edge \in CanvasEdges(doc) : Commit(removeEdges(doc, {edge}))
    /\ Pure

\* The delete buttons of the inspector know no edges.
InspectorDelete ==
    /\ Edit("delete")
    /\ \/ \E id \in Ids(doc) : Commit(removeNodes(doc, {id}))
       \/ \E name \in doc.inputs : Commit(removeInputs(doc, {name}))
       \/ \E name \in DOMAIN doc.groups : Commit(removeEditorItems(doc, {name}))
       \/ \E name \in DOMAIN doc.sets : Commit([doc EXCEPT !.sets = Without(@, {name})])
    /\ Pure

\* The selected nodes: some of the canvas, or those of a saved selection.
Selections == ((SUBSET Ids(doc)) \cup Range(doc.sets)) \ {{}}

GroupSelection ==
    /\ Edit("group")
    /\ \E ids \in Selections :
         \/ ids \cap DOMAIN doc.x # {} /\ doc.groups = NoFunction /\ Commit(addEditorGroup(doc, ids))
         \/ doc.sets = NoFunction /\ Commit(saveEditorSelection(doc, ids))
    /\ Pure

SaveReusablePreset ==
    /\ Edit("preset")
    /\ \E ids \in Selections : CanCapture(doc, ids) /\ preset' = capturePreset(doc, ids)
    /\ UNCHANGED <<doc, clipped, orphaned, looped>>

AddPreset ==
    /\ Edit("preset") /\ preset # NoPreset
    /\ Cardinality(Ids(doc)) + Cardinality(DOMAIN preset.nodes) <= MaxNodes
    /\ \E order \in Orders(preset) : Commit(insertPreset(doc, preset, order))
    /\ Pure

\* The end of a drag.
moveElement(d, id, x) == [d EXCEPT !.x[id] = x]
MoveElements ==
    /\ Edit("move")
    /\ Commit(autoLayoutGraph(doc)) \/ \E id \in Ids(doc) : Commit(moveElement(doc, id, 16))
    /\ Pure

\* An opened document: two nodes wired in order in one of the ways there are, an
\* input and an output.
OpenedNodes ==
    LET first == {Plain(Literal), List(Literal), Plain(InputRef(<<"input">>))}
        second == {Absent, Plain(NodeRef(<<"n">>)), List(NodeRef(<<"n">>)), List(InputRef(<<"input">>))}
    IN  {With(With(NoFunction, <<"n">>, [kind |-> "task", arg |-> a, deps |-> {}]),
              <<"n", "2">>, [kind |-> "task", arg |-> b, deps |-> IF b = Absent THEN {<<"n">>} ELSE {}]) :
           a \in first, b \in second}

Init ==
    /\ \E nodes \in OpenedNodes :
         doc = [nodes |-> nodes, inputs |-> {<<"input">>}, values |-> {<<"input">>},
                outputs |-> With(NoFunction, <<"out">>, <<"n">>),
                x |-> With(With(NoFunction, <<"n">>, 80), <<"n", "2">>, 500),
                promotions |-> NoFunction, groups |-> NoFunction, sets |-> NoFunction]
    /\ preset = NoPreset /\ edits = 0
    /\ clipped = FALSE /\ orphaned = FALSE /\ looped = FALSE

Next ==
    \/ AddNode \/ ArgumentChange \/ PromoteArgument \/ InlineMaterial \/ RenameSelectedNode
    \/ AddInput \/ RenameInput \/ Connect \/ ExposeOutput \/ ChangeOutputSource \/ RenameOutput
    \/ DeleteElements \/ InspectorDelete \/ GroupSelection
    \/ SaveReusablePreset \/ AddPreset \/ MoveElements

Spec == Init /\ [][Next]_vars

(* ------------------------------ properties ----------------------------- *)

Leaves == {Literal, Null} \cup [kind : {"node", "input"}, name : Seq(STRING)]
Values == [shape : {"plain", "list"}, leaf : Leaves] \cup {Absent}

\* Types, and every node is where the bound lets it be.
TypeOK ==
    /\ Cardinality(Ids(doc)) <= MaxNodes
    /\ \A id \in Ids(doc) : doc.nodes[id].kind \in {"task", "value"} /\ doc.nodes[id].arg \in Values
    /\ doc.inputs \subseteq Seq(STRING) /\ doc.values \subseteq Seq(STRING)
    /\ \A id \in DOMAIN doc.x : doc.x[id] \in Int
    /\ edits \in 0..MaxEdits /\ {clipped, orphaned, looped} \subseteq BOOLEAN

\* No sequence of edits leaves a reference to what is gone (graph.test.ts:68,
\* "without leaving stale references"): not in an argument, a list, an ordering
\* or an output.  An empty menu's empty reference is no reference.  Two edits of
\* the code do: a rename of an input that other inputs' names begin with, and
\* inlining a value that an ordering names.
ReferencesResolve ==
    /\ \A id \in Ids(doc) : \A r \in referencesIn(doc.nodes[id].arg) :
         \/ r.kind = "node" /\ r.name \in Ids(doc) \cup {<<>>}
         \/ r.kind = "input" /\ (r.name \in doc.inputs \/ clipped)
    /\ \A id \in Ids(doc) : doc.nodes[id].deps \subseteq Ids(doc) \/ orphaned
    /\ Range(doc.outputs) \subseteq Ids(doc)

\* However connections, renames, deletions, promotions and presets alternate, the
\* graph can be run in some order, as long as references are drawn on the canvas.
NoCycle ==
    looped \/ orphaned
    \/ \A id \in Ids(doc) : \A s \in nodeDependencies(doc.nodes[id]) : s \notin Downstream(doc, id)

\* The sidecar and the supplied values speak of the graph that is there: each
\* node has a position, and promotions, groups, selections and values name what
\* exists.
SidecarFollowsGraph ==
    /\ DOMAIN doc.x = Ids(doc)
    /\ \A m \in DOMAIN doc.promotions : {m, doc.promotions[m].consumer} \subseteq Ids(doc)
    /\ orphaned \/ \A ids \in Range(doc.groups) \cup Range(doc.sets) : ids \subseteq Ids(doc)
    /\ doc.values = doc.inputs

\* Inlining takes a promotion back, in any document: the graph and the place of
\* every card are as before (roadmap.md:37).
InlineUndoesPromote ==
    \A id \in Ids(doc) : CanPromote(doc, id) =>
      LET promoted == promoteNodeArgument(doc, id)
          material == materialId(doc, id)
      IN  \A targets \in {{id}, Ids(promoted)} :
            CanInline(promoted, material, targets) /\ inlineMaterialNode(promoted, material, targets) = doc

Connections(nodes) == UNION {{<<s, t>> : s \in nodeDependencies(nodes[t])} : t \in DOMAIN nodes}

\* A preset is a world of its own wherever it is inserted: the nodes that were
\* there are untouched, and the new ones refer to each other only, in as many
\* places as the nodes that were saved, so that they can be saved again.
PresetsAreSelfContained ==
    \A order \in Orders(preset) :
      LET next == insertPreset(doc, preset, order)
          new == Ids(next) \ Ids(doc)
      IN  /\ Restrict(next.nodes, Ids(doc)) = doc.nodes
          /\ Cardinality(new) = Cardinality(DOMAIN preset.nodes)
          /\ preset # NoPreset => CanCapture(next, new)
          /\ Cardinality(Connections(Restrict(next.nodes, new))) = Cardinality(Connections(preset.nodes))

\* Automatic layout puts each node to the right of all that it needs, when the
\* graph has an order.
LayoutFollowsDependencies ==
    looped \/ orphaned
    \/ LET x == autoLayoutGraph(doc).x
       IN  \A id \in Ids(doc) : \A s \in nodeDependencies(doc.nodes[id]) \cap Ids(doc) : x[s] < x[id]

\* "without leaving stale references" (graph.test.ts:68), of renamed inputs too.
InputReferencesResolve ==
    \A id \in Ids(doc) : \A r \in referencesIn(doc.nodes[id].arg) :
      r.kind = "input" => r.name \in doc.inputs
=============================================================================
