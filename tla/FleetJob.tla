------------------------------ MODULE FleetJob ------------------------------
(***************************************************************************)
(* The job that a run in the cloud becomes (cloud-contract.ts,             *)
(* CloudRuntime.prepareSubmission): the graph with its defaults filled in, *)
(* and what it requires of the worker that takes it, computed from the     *)
(* catalog of the fleet that the page keeps.                               *)
(*                                                                         *)
(* A node has the arguments "model", "seed" and "image", the last standing *)
(* for every other one; the graph has one asset input, "photo".            *)
(* Fingerprints, outputs and bytes are left out.                           *)
(***************************************************************************)
EXTENDS Integers, FiniteSets, FiniteSetsExt, Functions

CONSTANTS
    Fleets,        \* the capabilities the relay can report
    Workflows,     \* graphs: from the identifier of a node to the node
    Workers,       \* workers the relay can hand a job to
    MaxFleetMoves  \* bound: changes of the fleet

VARIABLES
    fleet,         \* the capabilities the relay would report now
    capabilities,  \* CloudRuntime.capabilities, or NoFleet
    task,          \* the run that is asked for; its catalog is a ghost: the one it was built with
    submission,    \* the job that was built, or NoJob
    fleetMoves     \* bound: how often the fleet changed

fleetVars == <<fleet, capabilities, task, submission, fleetMoves>>

NoFleet == [catalog |-> {}, providers |-> {}, secrets |-> {}, backend |-> "", version |-> <<0, 0, 0>>]
NoJob == [nodes |-> [id \in {} |-> {}], photo |-> "nothing", models |-> {}, secrets |-> {},
          backends |-> {}, providers |-> {}, version |-> <<0, 0, 0>>]

NoArgument == [is |-> "absent", name |-> ""]
Text(name) == [is |-> "text", name |-> name]
SecretAt(depth, name) == [is |-> depth, name |-> name]
RefTo(name) == [is |-> "reference", name |-> name]
Arguments(node) == Range(node.arguments)

\* What is supplied for the asset input: nothing, while it has a default or not;
\* an artifact of a run; a path; or files for an input that takes several.
Supplied == {"nothing", "default", "artifact", "path", "files"}

\* A worker has one version of a provider; a fleet may have several.
Versions == [1..3 -> Nat]
JobArgument == {NoArgument} \cup [is : {"text", "secret", "nested", "reference"}, name : STRING]
JobNode == [kind : STRING, provider : STRING, arguments : [{"model", "seed", "image"} -> JobArgument]]
ASSUME FleetAssumption ==
    /\ MaxFleetMoves \in Nat
    /\ \A nodes \in Workflows : nodes \in [DOMAIN nodes -> JobNode] /\ IsFiniteSet(DOMAIN nodes)
    /\ \A worker \in Workers :
         /\ worker.version \in Versions
         /\ \A provider, other \in worker.providers : provider.id = other.id => provider = other
    /\ \A capable \in Fleets :
         /\ capable.version \in Versions /\ IsFiniteSet(capable.providers)
         /\ \A entry \in capable.catalog : entry.version \in Versions \cup {<<>>}

(* ------------------------------ the catalog ---------------------------- *)

IsEntryOf(entry, node) == entry.kind = node.kind /\ entry.provider = node.provider
catalogEntry(node, catalog) == CHOOSE entry \in catalog : IsEntryOf(entry, node)
EntriesOf(nodes, catalog) == {catalogEntry(node, catalog) : node \in Range(nodes)}

AtLeast(left, right) ==
    \A i \in 1..3 : left[i] < right[i] => \E j \in 1..i - 1 : left[j] > right[j]
highestVersion(versions) ==
    IF versions = {} THEN <<0, 23, 0>>
    ELSE CHOOSE highest \in versions : \A version \in versions : AtLeast(highest, version)

(* -------------------------------- the job ------------------------------ *)

\* Defaults of the catalog, and a seed of its own for a node that takes one.
materializeGraph(nodes, catalog) ==
    [id \in DOMAIN nodes |->
        LET defaults == catalogEntry(nodes[id], catalog).defaults
        IN  [nodes[id] EXCEPT !.arguments =
               [name \in DOMAIN @ |->
                  IF @[name] # NoArgument \/ name \notin DOMAIN defaults THEN @[name]
                  ELSE IF name = "seed" /\ defaults[name] = NoArgument THEN Text("random") ELSE defaults[name]]]]

\* What the job carries for the asset input.
materializeInputs(supplied, groups) ==
    IF groups # {} THEN "asset" ELSE IF supplied = "default" THEN "path" ELSE supplied

\* An asset is uploaded, or is the output of another node.
assertCloudAssetsAbsent(nodes, supplied, groups, catalog) ==
    /\ supplied \in {"nothing", "default"} \/ "photo" \in groups
    /\ \A node \in Range(nodes) :
         "image" \in catalogEntry(node, catalog).assets => node.arguments["image"].is \in {"absent", "reference"}

requiredProviders(nodes, providers) ==
    {provider \in providers : provider.id # "mere.run" /\ \E node \in Range(nodes) : node.provider = provider.id}
ProvidersConnected(nodes, providers) ==
    Cardinality(requiredProviders(nodes, providers)) =
        Cardinality({node.provider : node \in Range(nodes)} \ {"mere.run"})

\* Mutant: what one of the nodes can run on.
AcceleratorsOfAny(entries, backend) ==
    LET sets == {entry.backends : entry \in entries} \ {{}}
    IN  IF sets = {} THEN {backend} \ {"", "mixed"} ELSE UNION sets

requiredAccelerators(entries, backend) ==
    LET sets == {entry.backends : entry \in entries} \ {{}}
    IN  IF sets = {} THEN {backend} \ {"", "mixed"}
        ELSE {accelerator \in UNION sets : \A set \in sets : accelerator \in set}

requiredModels(nodes, entries) ==
    (UNION {entry.models : entry \in entries})
    \cup {node.arguments["model"].name : node \in {n \in Range(nodes) : n.arguments["model"].is = "text"}}

requiredSecrets(nodes) ==
    {value.name : value \in {v \in UNION {Arguments(node) : node \in Range(nodes)} : v.is \in {"secret", "nested"}}}

requiredVersion(entries, capable) ==
    highestVersion({IF entry.version = <<>> THEN capable.version ELSE entry.version :
                      entry \in {e \in entries : e.provider = "mere.run"}})

\* What buildGraphSubmission throws an error for, and what it returns otherwise.
Submittable(nodes, supplied, groups, capable) ==
    /\ \A node \in Range(nodes) : \E entry \in capable.catalog : IsEntryOf(entry, node)
    /\ assertCloudAssetsAbsent(nodes, supplied, groups, capable.catalog)
    /\ LET full == materializeGraph(nodes, capable.catalog)
           entries == EntriesOf(full, capable.catalog)
       IN  /\ ProvidersConnected(full, capable.providers)
           /\ requiredAccelerators(entries, capable.backend) # {}
           /\ requiredSecrets(full) \subseteq capable.secrets

buildGraphSubmission(nodes, supplied, groups, capable) ==
    LET full == materializeGraph(nodes, capable.catalog)
        entries == EntriesOf(full, capable.catalog)
    IN  [nodes |-> full,
         photo |-> materializeInputs(supplied, groups),
         models |-> requiredModels(full, entries),
         secrets |-> requiredSecrets(full),
         backends |-> requiredAccelerators(entries, capable.backend),
         providers |-> requiredProviders(full, capable.providers),
         version |-> requiredVersion(entries, capable)]

(* -------------------------------- the page ----------------------------- *)

\* A fleet without a catalog is asked again the next time.
Remembered(reported) == IF reported.catalog # {} THEN reported ELSE capabilities

executors ==
    /\ capabilities' = Remembered(fleet)
    /\ UNCHANGED <<fleet, task, submission, fleetMoves>>

\* An artifact is fetched; a path, or a fetch that fails, refuses the run.
FetchAssets ==
    /\ task.stage = "asked"
    /\ \/ task.supplied \notin {"artifact", "path"} /\ task' = [task EXCEPT !.stage = "fetched"]
       \/ task.supplied = "artifact" /\ task' = [task EXCEPT !.stage = "fetched", !.groups = {"photo"}]
       \/ task.supplied \in {"artifact", "path"} /\ task' = [task EXCEPT !.stage = "refused"]
    /\ UNCHANGED <<fleet, capabilities, submission, fleetMoves>>

\* The fleet is asked if the page has none.
BuildSubmission ==
    LET capable == IF capabilities # NoFleet THEN capabilities ELSE fleet IN
    /\ task.stage = "fetched"
    /\ capabilities' = Remembered(capable)
    /\ IF Submittable(task.nodes, task.supplied, task.groups, capable)
       THEN /\ submission' = buildGraphSubmission(task.nodes, task.supplied, task.groups, capable)
            /\ task' = [task EXCEPT !.stage = "submitted", !.catalog = capable.catalog]
       ELSE task' = [task EXCEPT !.stage = "refused"] /\ UNCHANGED submission
    /\ UNCHANGED <<fleet, fleetMoves>>

FleetFails ==
    /\ task.stage = "fetched" /\ capabilities = NoFleet
    /\ task' = [task EXCEPT !.stage = "refused"]
    /\ UNCHANGED <<fleet, capabilities, submission, fleetMoves>>

\* External: workers come and go, and are updated.
FleetMoves ==
    /\ fleetMoves < MaxFleetMoves /\ fleetMoves' = fleetMoves + 1
    /\ fleet' \in Fleets \ {fleet}
    /\ UNCHANGED <<capabilities, task, submission>>

FleetInit ==
    /\ fleet \in Fleets
    /\ task \in [nodes : Workflows, supplied : Supplied, stage : {"asked"}, groups : {{}}, catalog : {{}}]
    /\ capabilities = NoFleet /\ submission = NoJob /\ fleetMoves = 0

FleetNext == executors \/ FetchAssets \/ BuildSubmission \/ FleetFails \/ FleetMoves

FleetSpec == FleetInit /\ [][FleetNext]_fleetVars

(* ------------------------------ properties ----------------------------- *)

\* A worker that has everything the job asks for.
Meets(worker) ==
    /\ submission.models \subseteq worker.models
    /\ submission.secrets \subseteq worker.secrets
    /\ worker.backend \in submission.backends
    /\ submission.providers \subseteq worker.providers
    /\ AtLeast(worker.version, submission.version)

\* A worker that can run a node; the model may also come from elsewhere in the graph.
CanRun(worker, node, entry) ==
    /\ entry.models \subseteq worker.models
    /\ node.arguments["model"].is = "text" => node.arguments["model"].name \in worker.models
    /\ \A value \in Arguments(node) : value.is \in {"secret", "nested"} => value.name \in worker.secrets
    /\ entry.backends = {} \/ worker.backend \in entry.backends
    /\ node.provider # "mere.run" => \E provider \in worker.providers : provider.id = node.provider
    /\ node.provider = "mere.run" /\ entry.version # <<>> => AtLeast(worker.version, entry.version)

\* Whatever the fleet becomes while the job is made, a worker that meets what it
\* requires can run every node, with what the catalog fills in; and no worker
\* needs a file of the user's machine, unless it is the default of the asset
\* input or of an argument (cloud-contract.ts:118-126, 200-251).
JobsAskForWhatTheyRun ==
    task.stage = "submitted" =>
        /\ \A worker \in Workers : Meets(worker) =>
             \A node \in Range(submission.nodes) : CanRun(worker, node, catalogEntry(node, task.catalog))
        /\ submission.photo \in {"nothing", "asset"} \/ task.supplied = "default"
        /\ \A id \in DOMAIN submission.nodes :
             "image" \in catalogEntry(submission.nodes[id], task.catalog).assets =>
               \/ submission.nodes[id].arguments["image"].is \in {"absent", "reference"}
               \/ task.nodes[id].arguments["image"] = NoArgument

=============================================================================
