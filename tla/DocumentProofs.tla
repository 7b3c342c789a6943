--------------------------- MODULE DocumentProofs ---------------------------
(***************************************************************************)
(* Theorems about the parts of a document: the identifiers it gives, the   *)
(* job it is in the cloud, its program, and the edits of its graph; for    *)
(* every number of nodes, inputs, steps and edits, and for every fleet.    *)
(***************************************************************************)
EXTENDS GraphEdits, Programs, FleetJob, FiniteSetTheorems, WellFoundedInduction, TLAPS

-----------------------------------------------------------------------------
(* Numbers and names. *)

\* Induction, for a set of numbers.
LEMMA AllNumbers ==
    ASSUME NEW G, 0 \in G, \A n \in Nat : n \in G => n + 1 \in G
    PROVE  \A n \in Nat : n \in G
<1> DEFINE T == Nat \ G
<1>1. SUFFICES ASSUME T # {} PROVE FALSE
  OBVIOUS
<1>2. IsWellFoundedOn(OpToRel(<, Nat), Nat)
  BY NatLessThanWellFounded
<1>3. PICK n \in T : \A m \in T : ~ (<<m, n>> \in OpToRel(<, Nat))
  <2>1. T \subseteq Nat
    OBVIOUS
  <2> HIDE DEF T
  <2> QED BY <1>1, <1>2, <2>1, WFMin
<1>4. \A m \in T : ~ (m < n)
  BY <1>3 DEF OpToRel
<1>5. n # 0 /\ n - 1 \in Nat
  OBVIOUS
<1>6. n - 1 \in G
  BY <1>4, <1>5
<1> QED BY <1>5, <1>6

LEMMA Smallest ==
    ASSUME NEW S \in SUBSET Nat, S # {}
    PROVE  Min(S) \in S /\ \A n \in S : Min(S) <= n
<1>1. \E n \in S : \A m \in S : n <= m
  <2>1. IsWellFoundedOn(OpToRel(<, Nat), Nat)
    BY NatLessThanWellFounded
  <2>2. PICK n \in S : \A m \in S : ~ (<<m, n>> \in OpToRel(<, Nat))
    BY <2>1, WFMin
  <2>3. \A m \in S : ~ (m < n)
    BY <2>2 DEF OpToRel
  <2> QED BY <2>3
<1> QED BY <1>1 DEF Min

\* Induction, for the subsets of a finite set.
LEMMA AllSubsets ==
    ASSUME NEW S, IsFiniteSet(S), NEW G, {} \in G,
           \A T \in SUBSET S, x \in S : T \in G /\ x \notin T => T \cup {x} \in G
    PROVE  S \in G
<1> DEFINE H == {n \in Nat : \A T \in SUBSET S : Cardinality(T) = n => T \in G}
<1>1. \A T \in SUBSET S : IsFiniteSet(T) /\ Cardinality(T) \in Nat
  BY FS_Subset, FS_CardinalityType
<1>2. 0 \in H
  BY <1>1, FS_EmptySet
<1>3. ASSUME NEW n \in Nat, n \in H PROVE n + 1 \in H
  <2> SUFFICES ASSUME NEW T \in SUBSET S, Cardinality(T) = n + 1 PROVE T \in G
    OBVIOUS
  <2> HIDE DEF H
  <2>1. ASSUME T = {} PROVE FALSE
    <3>1. Cardinality(T) = 0
      BY <2>1, FS_EmptySet, Zenon
    <3> QED BY <3>1
  <2>2. PICK x : x \in T
    BY <2>1
  <2>3. Cardinality(T \ {x}) = n
    <3>1. Cardinality(T \ {x}) = Cardinality(T) - 1
      BY <1>1, <2>2, FS_RemoveElement, Zenon
    <3> QED BY <3>1
  <2>4. T \ {x} \in G /\ T = (T \ {x}) \cup {x}
    BY <1>3, <2>2, <2>3 DEF H
  <2> QED BY <2>2, <2>4
<1> HIDE DEF H
<1>4. \A n \in Nat : n \in H
  BY <1>2, <1>3, AllNumbers
<1> QED BY <1>1, <1>4 DEF H

LEMMA ImageIsFinite ==
    ASSUME NEW S, IsFiniteSet(S), NEW f
    PROVE  IsFiniteSet({f[x] : x \in S}) /\ Cardinality({f[x] : x \in S}) <= Cardinality(S)
<1> DEFINE T == {f[x] : x \in S}
           g == [x \in S |-> f[x]]
<1>1. g \in Surjection(S, T)
  BY DEF Surjection
<1> HIDE DEF T, g
<1>2. IsFiniteSet(T) /\ Cardinality(T) <= Cardinality(S)
  BY <1>1, FS_Surjection
<1> QED BY <1>2 DEF T

\* The provers do not know that the words spelt out here are among STRING.
Words == STRING \cup {"workflow", "module", "n", "2", "a", "input", "out"}
Names == Seq(Words)

\* There is a number for a name, as long as there are as many as names are taken.
LEMMA UniqueIdIsFree ==
    ASSUME NEW W, STRING \subseteq W, NEW base \in Seq(W), NEW taken, IsFiniteSet(taken), Cardinality(taken) <= Len(Numbers)
    PROVE  /\ uniqueId(base, taken) \in Seq(W) /\ uniqueId(base, taken) \notin taken
           /\ base # <<>> => uniqueId(base, taken) # <<>>
<1>1. CASE base \notin taken
  BY <1>1 DEF uniqueId
<1>2. CASE base \in taken
  <2> DEFINE name(i) == base \o <<Numbers[i]>>
             free == {i \in DOMAIN Numbers : name(i) \notin taken}
             f == [i \in 0..Len(Numbers) |-> IF i = 0 THEN base ELSE name(i)]
  <2>1. Numbers \in Seq(W) /\ Len(Numbers) \in Nat /\ DOMAIN Numbers = 1..Len(Numbers)
    <3>1. Numbers \in Seq(STRING)
      BY NumbersAssumption
    <3>2. \A i \in 1..Len(Numbers) : Numbers[i] \in STRING
      BY <3>1
    <3>3. \A i \in 1..Len(Numbers) : Numbers[i] \in W
      BY <3>2, Zenon
    <3> QED BY <3>1, <3>3
  <2>2. \A i \in DOMAIN Numbers : /\ name(i) \in Seq(W) /\ Len(name(i)) = Len(base) + 1
                                  /\ name(i)[Len(base) + 1] = Numbers[i]
    BY <2>1
  <2>3. \A i, j \in DOMAIN Numbers : name(i) = name(j) => i = j
    BY <2>2, NumbersAssumption
  <2>4. \A i \in DOMAIN Numbers : name(i) # base
    BY <2>2
  <2>5. free # {}
    <3> SUFFICES ASSUME free = {} PROVE FALSE
      OBVIOUS
    <3>1. \A i \in DOMAIN Numbers : name(i) \in taken
      OBVIOUS
    <3> HIDE DEF name, free
    <3>2. f \in [0..Len(Numbers) -> taken]
      BY <1>2, <2>1, <3>1
    <3>3. \A i, j \in 0..Len(Numbers) : f[i] = f[j] => i = j
      BY <2>1, <2>3, <2>4
    <3>4. IsFiniteSet(0..Len(Numbers)) /\ Cardinality(0..Len(Numbers)) = Len(Numbers) + 1
      BY <2>1, FS_Interval
    <3>5. Cardinality(taken) \in Nat
      BY FS_CardinalityType
    <3> HIDE DEF f
    <3>6. \E i, j \in 0..Len(Numbers) : i # j /\ f[i] = f[j]
      BY <2>1, <3>2, <3>4, <3>5, FS_PigeonHole
    <3> QED BY <3>3, <3>6
  <2>6. Min(free) \in free
    <3>1. free \in SUBSET Nat
      BY <2>1
    <3> HIDE DEF free
    <3> QED BY <2>5, <3>1, Smallest
  <2>7. uniqueId(base, taken) = name(Min(free))
    BY <1>2, Zenon DEF uniqueId
  <2> HIDE DEF name
  <2> QED BY <2>2, <2>6, <2>7
<1> QED BY <1>1, <1>2

\* A set that is as large as another, and is told apart by its values in it, has
\* them all.
LEMMA AsManyAreAll ==
    ASSUME NEW S, NEW T, IsFiniteSet(S), IsFiniteSet(T), Cardinality(S) = Cardinality(T),
           NEW f \in [S -> T], \A x, y \in S : f[x] = f[y] => x = y
    PROVE  \A t \in T : \E x \in S : f[x] = t
<1> SUFFICES ASSUME NEW t \in T, \A x \in S : f[x] # t PROVE FALSE
  OBVIOUS
<1>1. f \in [S -> T \ {t}]
  OBVIOUS
<1>2. IsFiniteSet(T \ {t}) /\ Cardinality(T \ {t}) = Cardinality(T) - 1
  BY FS_RemoveElement, Zenon
<1>3. Cardinality(T) \in Nat
  BY FS_CardinalityType
<1>4. Cardinality(T \ {t}) < Cardinality(S)
  BY <1>2, <1>3
<1>5. \E x, y \in S : x # y /\ f[x] = f[y]
  <2> DEFINE others == T \ {t}
  <2>1. IsFiniteSet(others) /\ f \in [S -> others] /\ Cardinality(others) < Cardinality(S)
    BY <1>1, <1>2, <1>4
  <2> HIDE DEF others
  <2> QED BY <2>1, FS_PigeonHole
<1> QED BY <1>5

-----------------------------------------------------------------------------
(* Versions, and the highest of them. *)

LEMMA AtLeastCompares ==
    ASSUME NEW left \in Versions, NEW right \in Versions
    PROVE  AtLeast(left, right) <=> \/ left[1] > right[1]
                                    \/ left[1] = right[1] /\ left[2] > right[2]
                                    \/ left[1] = right[1] /\ left[2] = right[2] /\ left[3] >= right[3]
<1>1. \A i \in 1..3 : left[i] \in Nat /\ right[i] \in Nat
  BY DEF Versions
<1>2. 1..3 = {1, 2, 3} /\ 1..1 - 1 = {} /\ 1..2 - 1 = {1} /\ 1..3 - 1 = {1, 2}
  OBVIOUS
<1>3. AtLeast(left, right) <=>
        \A i \in {1, 2, 3} : left[i] < right[i] => \E j \in 1..i - 1 : left[j] > right[j]
  BY <1>2, Zenon DEF AtLeast
<1>4. @ <=> /\ left[1] < right[1] => FALSE
            /\ left[2] < right[2] => left[1] > right[1]
            /\ left[3] < right[3] => left[1] > right[1] \/ left[2] > right[2]
  BY <1>2
<1> QED BY <1>1, <1>3, <1>4

LEMMA AtLeastOrders ==
    /\ \A one, other \in Versions : AtLeast(one, other) \/ AtLeast(other, one)
    /\ \A one, other, third \in Versions :
         AtLeast(one, other) /\ AtLeast(other, third) => AtLeast(one, third)
<1>1. \A one \in Versions : one[1] \in Nat /\ one[2] \in Nat /\ one[3] \in Nat
  BY DEF Versions
<1> QED BY <1>1, AtLeastCompares

LEMMA HighestIsAtLeastAll ==
    ASSUME NEW versions \in SUBSET Versions, IsFiniteSet(versions), versions # {}
    PROVE  /\ highestVersion(versions) \in versions
           /\ \A version \in versions : AtLeast(highestVersion(versions), version)
<1> DEFINE G == {T \in SUBSET versions : T = {} \/ \E h \in T : \A version \in T : AtLeast(h, version)}
<1>1. ASSUME NEW T \in SUBSET versions, NEW x \in versions, T \in G PROVE T \cup {x} \in G
  <2>1. AtLeast(x, x)
    BY AtLeastOrders
  <2>2. CASE T = {}
    BY <2>1, <2>2
  <2>3. ASSUME NEW h \in T, \A version \in T : AtLeast(h, version) PROVE T \cup {x} \in G
    <3>1. h \in Versions /\ x \in Versions /\ T \subseteq Versions
      OBVIOUS
    <3>2. CASE AtLeast(h, x)
      BY <2>3, <3>2
    <3>3. CASE AtLeast(x, h)
      <4>1. \A version \in T \cup {x} : AtLeast(x, version)
        BY <2>1, <2>3, <3>1, <3>3, AtLeastOrders
      <4> QED BY <4>1
    <3> QED BY <3>1, <3>2, <3>3, AtLeastOrders
  <2> QED BY <1>1, <2>2, <2>3
<1>2. {} \in G
  OBVIOUS
<1> HIDE DEF G
<1>3. versions \in G
  BY <1>1, <1>2, AllSubsets
<1>4. \E h \in versions : \A version \in versions : AtLeast(h, version)
  BY <1>3 DEF G
<1> QED BY <1>4, Zenon DEF highestVersion

-----------------------------------------------------------------------------
(* The job of a run in the cloud. *)

JobTypeOK ==
    /\ fleet \in Fleets
    /\ capabilities \in Fleets \cup {NoFleet}
    /\ task \in [nodes : Workflows, supplied : Supplied,
                 stage : {"asked", "fetched", "refused", "submitted"},
                 groups : SUBSET {"photo"}, catalog : {{}} \cup {capable.catalog : capable \in Fleets}]

\* A job that was submitted is the one that the capabilities of a fleet allow.
BuiltFor(capable) ==
    /\ task.catalog = capable.catalog
    /\ Submittable(task.nodes, task.supplied, task.groups, capable)
    /\ submission = buildGraphSubmission(task.nodes, task.supplied, task.groups, capable)
JobInv == JobTypeOK /\ (task.stage = "submitted" => \E capable \in Fleets : BuiltFor(capable))

\* Filling in the defaults changes no argument that was there.
LEMMA DefaultsFillIn ==
    ASSUME NEW nodes \in Workflows, NEW catalog, NEW id \in DOMAIN nodes
    PROVE  LET full == materializeGraph(nodes, catalog)
           IN  /\ DOMAIN full = DOMAIN nodes
               /\ full[id].kind = nodes[id].kind /\ full[id].provider = nodes[id].provider
               /\ DOMAIN full[id].arguments = DOMAIN nodes[id].arguments
               /\ \A name \in DOMAIN nodes[id].arguments :
                    nodes[id].arguments[name] # NoArgument =>
                      full[id].arguments[name] = nodes[id].arguments[name]
<1>1. nodes[id] \in JobNode
  BY FleetAssumption
<1> QED BY <1>1 DEF materializeGraph, JobNode

\* The entry of a node depends on its kind and its provider.
LEMMA EntryOfKind ==
    ASSUME NEW catalog, NEW node, NEW other, node.kind = other.kind, node.provider = other.provider
    PROVE  catalogEntry(node, catalog) = catalogEntry(other, catalog)
<1> DEFINE Entry(kind, provider) ==
             CHOOSE entry \in catalog : entry.kind = kind /\ entry.provider = provider
<1>1. catalogEntry(node, catalog) = Entry(node.kind, node.provider)
  BY Zenon DEF catalogEntry, IsEntryOf
<1>2. catalogEntry(other, catalog) = Entry(other.kind, other.provider)
  BY Zenon DEF catalogEntry, IsEntryOf
<1> HIDE DEF Entry
<1> QED BY <1>1, <1>2

LEMMA EntryIsOfNode ==
    ASSUME NEW catalog, NEW node, \E entry \in catalog : IsEntryOf(entry, node)
    PROVE  catalogEntry(node, catalog) \in catalog /\ IsEntryOf(catalogEntry(node, catalog), node)
BY Zenon DEF catalogEntry

\* A worker that has the providers of the job has one for each of its nodes: it
\* has them in one version, and there are as many as the nodes name.
LEMMA ProvidersAreThere ==
    ASSUME NEW nodes, IsFiniteSet(DOMAIN nodes), NEW providers, IsFiniteSet(providers),
           ProvidersConnected(nodes, providers),
           NEW worker \in Workers, requiredProviders(nodes, providers) \subseteq worker.providers,
           NEW node \in Range(nodes), node.provider # "mere.run"
    PROVE  \E provider \in worker.providers : provider.id = node.provider
<1> DEFINE S == requiredProviders(nodes, providers)
           named == {n.provider : n \in Range(nodes)}
           T == named \ {"mere.run"}
           f == [provider \in S |-> provider.id]
<1>1. IsFiniteSet(S)
  <2>1. S \in SUBSET providers
    BY DEF requiredProviders
  <2> HIDE DEF S
  <2> QED BY <2>1, FS_Subset
<1>2. IsFiniteSet(T)
  <2>1. named = {nodes[id].provider : id \in DOMAIN nodes}
    BY DEF Range
  <2> DEFINE g == [id \in DOMAIN nodes |-> nodes[id].provider]
  <2>2. IsFiniteSet({g[id] : id \in DOMAIN nodes})
    <3> HIDE DEF g
    <3> QED BY ImageIsFinite
  <2>3. IsFiniteSet(named)
    BY <2>1, <2>2
  <2> HIDE DEF named
  <2> QED BY <2>3, FS_Difference
<1>3. Cardinality(S) = Cardinality(T)
  BY Zenon DEF ProvidersConnected
<1>4. f \in [S -> T]
  BY DEF requiredProviders
<1>5. \A x, y \in S : f[x] = f[y] => x = y
  BY FleetAssumption
<1>6. node.provider \in T
  OBVIOUS
<1>7. \A x \in S : f[x] = x.id /\ x \in worker.providers
  OBVIOUS
<1> HIDE DEF S, T, f
<1>8. \E x \in S : f[x] = node.provider
  BY <1>1, <1>2, <1>3, <1>4, <1>5, <1>6, AsManyAreAll
<1> QED BY <1>7, <1>8

\* What the job asks of a worker is enough for each of its nodes.
LEMMA WorkersCanRun ==
    ASSUME NEW nodes \in Workflows, NEW supplied, NEW groups, NEW capable \in Fleets,
           Submittable(nodes, supplied, groups, capable),
           submission = buildGraphSubmission(nodes, supplied, groups, capable),
           NEW worker \in Workers, Meets(worker), NEW node \in Range(submission.nodes)
    PROVE  CanRun(worker, node, catalogEntry(node, capable.catalog))
<1> DEFINE catalog == capable.catalog
           full == materializeGraph(nodes, catalog)
           entries == EntriesOf(full, catalog)
           entry == catalogEntry(node, catalog)
<1>1. DOMAIN full = DOMAIN nodes /\ submission.nodes = full
  BY DEF materializeGraph, buildGraphSubmission
<1>2. PICK id \in DOMAIN nodes : node = full[id]
  <2> HIDE DEF full
  <2> QED BY <1>1 DEF Range
<1>3. /\ submission.nodes = full /\ submission.models = requiredModels(full, entries)
      /\ submission.secrets = requiredSecrets(full)
      /\ submission.backends = requiredAccelerators(entries, capable.backend)
      /\ submission.providers = requiredProviders(full, capable.providers)
      /\ submission.version = requiredVersion(entries, capable)
  BY DEF buildGraphSubmission
<1>4. ProvidersConnected(full, capable.providers)
  BY DEF Submittable
<1>5. entry \in catalog /\ IsEntryOf(entry, node)
  <2>1. IsEntryOf(catalogEntry(nodes[id], catalog), nodes[id]) /\ catalogEntry(nodes[id], catalog) \in catalog
    BY EntryIsOfNode DEF Submittable, Range
  <2>2. node.kind = nodes[id].kind /\ node.provider = nodes[id].provider
    BY <1>2, DefaultsFillIn
  <2>3. catalogEntry(node, catalog) = catalogEntry(nodes[id], catalog)
    BY <2>2, EntryOfKind
  <2> QED BY <2>1, <2>2, <2>3 DEF IsEntryOf
<1>6. node \in Range(full) /\ entry \in entries
  BY <1>3 DEF EntriesOf
<1>7. IsFiniteSet(DOMAIN full) /\ DOMAIN full = DOMAIN nodes /\ IsFiniteSet(Range(full))
  <2>1. DOMAIN full = DOMAIN nodes /\ IsFiniteSet(DOMAIN nodes)
    BY <1>2, DefaultsFillIn, FleetAssumption
  <2> HIDE DEF full
  <2>2. IsFiniteSet({full[i] : i \in DOMAIN full})
    BY <2>1, ImageIsFinite
  <2> QED BY <2>1, <2>2 DEF Range
<1>8. IsFiniteSet(entries)
  <2> DEFINE g == [n \in Range(full) |-> catalogEntry(n, catalog)]
  <2>1. entries = {g[n] : n \in Range(full)}
    BY DEF EntriesOf
  <2>2. IsFiniteSet({g[n] : n \in Range(full)})
    <3> HIDE DEF g, full
    <3> QED BY <1>7, ImageIsFinite
  <2> QED BY <2>1, <2>2
<1> HIDE DEF full, entries, entry, catalog
<1>9. entry.models \subseteq worker.models
  BY <1>3, <1>6 DEF Meets, requiredModels
<1>10. node.arguments["model"].is = "text" => node.arguments["model"].name \in worker.models
  <2> SUFFICES ASSUME node.arguments["model"].is = "text"
               PROVE  node.arguments["model"].name \in requiredModels(full, entries)
    BY <1>3 DEF Meets
  <2> DEFINE names == {n.arguments["model"].name : n \in {m \in Range(full) : m.arguments["model"].is = "text"}}
  <2>1. node.arguments["model"].name \in names
    BY <1>6
  <2> QED BY <2>1 DEF requiredModels
<1>11. \A value \in Arguments(node) : value.is \in {"secret", "nested"} => value.name \in worker.secrets
  BY <1>3, <1>6 DEF Meets, requiredSecrets
<1>12. entry.backends = {} \/ worker.backend \in entry.backends
  <2> SUFFICES ASSUME entry.backends # {} PROVE worker.backend \in entry.backends
    OBVIOUS
  <2> DEFINE sets == {e.backends : e \in entries} \ {{}}
  <2>1. entry.backends \in sets
    BY <1>6
  <2> HIDE DEF sets
  <2>2. requiredAccelerators(entries, capable.backend) =
          {accelerator \in UNION sets : \A set \in sets : accelerator \in set}
    BY <2>1, Zenon DEF requiredAccelerators, sets
  <2>3. worker.backend \in requiredAccelerators(entries, capable.backend)
    BY <1>3 DEF Meets
  <2> QED BY <2>1, <2>2, <2>3
<1>13. node.provider # "mere.run" => \E provider \in worker.providers : provider.id = node.provider
  <2>1. IsFiniteSet(capable.providers) /\ requiredProviders(full, capable.providers) \subseteq worker.providers
    BY <1>3, FleetAssumption DEF Meets
  <2> QED BY <1>4, <1>6, <1>7, <2>1, ProvidersAreThere
<1>14. ASSUME node.provider = "mere.run", entry.version # <<>> PROVE AtLeast(worker.version, entry.version)
  <2> DEFINE ours == {e \in entries : e.provider = "mere.run"}
             h == [e \in ours |-> IF e.version = <<>> THEN capable.version ELSE e.version]
             versions == {h[e] : e \in ours}
  <2>1. entry \in ours /\ h[entry] = entry.version
    BY <1>5, <1>6, <1>14 DEF IsEntryOf
  <2>2. entries \subseteq catalog
    <3>1. \A n \in Range(full) : catalogEntry(n, catalog) \in catalog
      <4> SUFFICES ASSUME NEW i \in DOMAIN nodes PROVE catalogEntry(full[i], catalog) \in catalog
        BY <1>7 DEF Range
      <4>1. catalogEntry(nodes[i], catalog) \in catalog
        BY EntryIsOfNode DEF Submittable, Range, catalog
      <4>2. full[i].kind = nodes[i].kind /\ full[i].provider = nodes[i].provider
        BY DefaultsFillIn DEF full
      <4> QED BY <4>1, <4>2, EntryOfKind
    <3> QED BY <3>1 DEF entries, EntriesOf
  <2>3. versions \in SUBSET Versions
    BY <2>2, FleetAssumption DEF catalog
  <2>4. IsFiniteSet(versions)
    <3>1. IsFiniteSet(ours)
      <4>1. ours \in SUBSET entries
        OBVIOUS
      <4> HIDE DEF ours
      <4> QED BY <1>8, <4>1, FS_Subset
    <3> HIDE DEF h, ours
    <3> QED BY <3>1, ImageIsFinite
  <2>5. submission.version = highestVersion(versions)
    <3>1. versions = {IF e.version = <<>> THEN capable.version ELSE e.version : e \in ours}
      OBVIOUS
    <3> HIDE DEF versions, h
    <3> QED BY <1>3, <3>1, Zenon DEF requiredVersion
  <2>6. entry.version \in versions
    BY <2>1
  <2> HIDE DEF versions
  <2>7. submission.version \in Versions /\ AtLeast(submission.version, entry.version) /\ entry.version \in Versions
    BY <2>3, <2>4, <2>5, <2>6, HighestIsAtLeastAll
  <2>8. AtLeast(worker.version, submission.version) /\ worker.version \in Versions
    BY FleetAssumption DEF Meets
  <2> QED BY <2>7, <2>8, AtLeastOrders
<1> QED BY <1>9, <1>10, <1>11, <1>12, <1>13, <1>14 DEF CanRun, entry, catalog

LEMMA JobIsWhole ==
    ASSUME JobInv
    PROVE  JobsAskForWhatTheyRun
<1> SUFFICES ASSUME task.stage = "submitted", NEW capable \in Fleets, BuiltFor(capable)
             PROVE JobsAskForWhatTheyRun
  BY DEF JobInv, JobsAskForWhatTheyRun
<1>1. task.nodes \in Workflows
  BY DEF JobInv, JobTypeOK
<1>2. /\ task.catalog = capable.catalog
      /\ Submittable(task.nodes, task.supplied, task.groups, capable)
      /\ submission = buildGraphSubmission(task.nodes, task.supplied, task.groups, capable)
  BY DEF BuiltFor
<1>3. assertCloudAssetsAbsent(task.nodes, task.supplied, task.groups, capable.catalog)
  BY <1>2 DEF Submittable
<1>4. \A worker \in Workers : Meets(worker) =>
        \A node \in Range(submission.nodes) : CanRun(worker, node, catalogEntry(node, task.catalog))
  BY <1>1, <1>2, WorkersCanRun
<1>5. submission.photo \in {"nothing", "asset"} \/ task.supplied = "default"
  BY <1>2, <1>3 DEF buildGraphSubmission, materializeInputs, assertCloudAssetsAbsent
<1>6. ASSUME NEW id \in DOMAIN submission.nodes,
             "image" \in catalogEntry(submission.nodes[id], task.catalog).assets,
             task.nodes[id].arguments["image"] # NoArgument
      PROVE  submission.nodes[id].arguments["image"].is \in {"absent", "reference"}
  <2> DEFINE full == materializeGraph(task.nodes, task.catalog)
  <2>1. submission.nodes = full
    BY <1>2 DEF buildGraphSubmission
  <2>2. id \in DOMAIN task.nodes
    BY <1>6, <2>1 DEF materializeGraph
  <2>3. task.nodes[id] \in JobNode
    BY <1>1, <2>2, FleetAssumption
  <2>4. full[id].arguments["image"] = task.nodes[id].arguments["image"]
    BY <1>1, <1>6, <2>2, <2>3, DefaultsFillIn DEF JobNode
  <2>5. catalogEntry(task.nodes[id], task.catalog) = catalogEntry(full[id], task.catalog)
    <3>1. full[id].kind = task.nodes[id].kind /\ full[id].provider = task.nodes[id].provider
      BY <1>1, <2>2, DefaultsFillIn
    <3> QED BY <3>1, EntryOfKind
  <2> HIDE DEF full
  <2> QED BY <1>2, <1>3, <1>6, <2>1, <2>2, <2>4, <2>5 DEF assertCloudAssetsAbsent, Range
<1> QED BY <1>4, <1>5, <1>6 DEF JobsAskForWhatTheyRun

\* The job's invariant holds, whatever the fleet becomes while it is made.
THEOREM JobsAreKnown == FleetSpec => []JobInv
<1>1. FleetInit => JobInv
  BY DEF FleetInit, JobInv, JobTypeOK
<1>2. JobInv /\ [FleetNext]_fleetVars => JobInv'
  <2> SUFFICES ASSUME JobInv, [FleetNext]_fleetVars PROVE JobInv'
    OBVIOUS
  <2> USE DEF JobInv, JobTypeOK
  <2>1. CASE executors
    BY <2>1 DEF executors, Remembered, BuiltFor
  <2>2. CASE FetchAssets
    BY <2>2 DEF FetchAssets
  <2>3. CASE BuildSubmission
    <3>1. PICK capable \in Fleets : capable = IF capabilities # NoFleet THEN capabilities ELSE fleet
      OBVIOUS
    <3>2. task.stage = "fetched" /\ UNCHANGED <<fleet, fleetMoves>> /\ capabilities' = Remembered(capable)
      BY <2>3, <3>1 DEF BuildSubmission
    <3>3. capabilities' \in Fleets \cup {NoFleet}
      BY <3>1, <3>2 DEF Remembered
    <3>4. CASE /\ Submittable(task.nodes, task.supplied, task.groups, capable)
               /\ submission' = buildGraphSubmission(task.nodes, task.supplied, task.groups, capable)
               /\ task' = [task EXCEPT !.stage = "submitted", !.catalog = capable.catalog]
      <4>1. /\ task'.nodes = task.nodes /\ task'.supplied = task.supplied /\ task'.groups = task.groups
            /\ task'.catalog = capable.catalog /\ JobTypeOK'
        BY <3>1, <3>2, <3>3, <3>4
      <4>2. BuiltFor(capable)'
        BY <3>4, <4>1 DEF BuiltFor
      <4> QED BY <3>1, <4>1, <4>2
    <3>5. CASE task' = [task EXCEPT !.stage = "refused"] /\ UNCHANGED submission
      BY <3>2, <3>3, <3>5
    <3> QED BY <2>3, <3>1, <3>4, <3>5, Zenon DEF BuildSubmission
  <2>4. CASE FleetFails
    BY <2>4 DEF FleetFails
  <2>5. CASE FleetMoves
    BY <2>5 DEF FleetMoves, BuiltFor
  <2>6. CASE UNCHANGED fleetVars
    BY <2>6 DEF fleetVars, BuiltFor
  <2> QED BY <2>1, <2>2, <2>3, <2>4, <2>5, <2>6 DEF FleetNext
<1> QED BY <1>1, <1>2, PTL DEF FleetSpec

\* A worker that meets what a job requires can run each of its nodes, and needs
\* no file of the user's machine but a default (cloud-contract.ts:118-126, 200-251).
THEOREM JobsAskForWhatTheyRunAlways == FleetSpec => []JobsAskForWhatTheyRun
<1>1. JobInv => JobsAskForWhatTheyRun
  BY JobIsWhole
<1> QED BY <1>1, JobsAreKnown, PTL

-----------------------------------------------------------------------------
(* The program of a document. *)

LEMMA RemoveAtShifts ==
    ASSUME NEW X, NEW s \in Seq(X), NEW i \in DOMAIN s
    PROVE  /\ RemoveAt(s, i) \in Seq(X) /\ Len(RemoveAt(s, i)) = Len(s) - 1
           /\ \A j \in DOMAIN RemoveAt(s, i) :
                /\ (IF j < i THEN j ELSE j + 1) \in DOMAIN s \ {i}
                /\ RemoveAt(s, i)[j] = s[IF j < i THEN j ELSE j + 1]
           /\ \A j \in DOMAIN s \ {i} :
                /\ (IF j < i THEN j ELSE j - 1) \in DOMAIN RemoveAt(s, i)
                /\ RemoveAt(s, i)[IF j < i THEN j ELSE j - 1] = s[j]
<1>1. i \in 1..Len(s) /\ Len(s) \in Nat /\ DOMAIN s = 1..Len(s)
  OBVIOUS
<1>2. PICK before : before = SubSeq(s, 1, i - 1)
  OBVIOUS
<1>3. PICK after : after = SubSeq(s, i + 1, Len(s))
  OBVIOUS
<1>4. before \in Seq(X) /\ Len(before) = i - 1 /\ \A j \in 1..i - 1 : before[j] = s[j]
  BY <1>1, <1>2
<1>5. after \in Seq(X) /\ Len(after) = Len(s) - i /\ \A j \in 1..Len(s) - i : after[j] = s[i + j]
  BY <1>1, <1>3
<1>6. RemoveAt(s, i) = before \o after
  BY <1>2, <1>3 DEF RemoveAt
<1>7. RemoveAt(s, i) \in Seq(X) /\ Len(RemoveAt(s, i)) = Len(s) - 1
  <2>1. before \o after \in Seq(X) /\ Len(before \o after) = Len(before) + Len(after)
    <3>1. before \in Seq(X) /\ after \in Seq(X)
      BY <1>4, <1>5
    <3> QED BY <3>1
  <2>2. Len(before) + Len(after) = Len(s) - 1
    BY <1>1, <1>4, <1>5
  <2> QED BY <1>6, <2>1, <2>2
<1>8. ASSUME NEW j \in 1..Len(s) - 1
      PROVE  RemoveAt(s, i)[j] = s[IF j < i THEN j ELSE j + 1]
  <2>1. CASE j < i
    <3>1. j \in 1..i - 1 /\ (before \o after)[j] = before[j]
      BY <1>1, <1>4, <1>5, <2>1
    <3> QED BY <1>4, <1>6, <2>1, <3>1
  <2>2. CASE ~(j < i)
    <3>1. j - (i - 1) \in 1..Len(s) - i /\ i + (j - (i - 1)) = j + 1
      BY <1>1, <2>2
    <3>2. (before \o after)[j] = after[j - (i - 1)]
      BY <1>1, <1>4, <1>5, <2>2, <3>1
    <3> QED BY <1>5, <1>6, <2>2, <3>1, <3>2
  <2> QED BY <2>1, <2>2
<1>9. DOMAIN RemoveAt(s, i) = 1..Len(s) - 1
  BY <1>7
<1> HIDE DEF RemoveAt
<1> QED BY <1>1, <1>7, <1>8, <1>9

ProgramStep ==
    [id : Names, module : Names, when : {"always", "include", "exclude", "expression"}, map : BOOLEAN,
     arguments : UNION {[names -> {"input", "null", "edited"}] : names \in SUBSET Names}]

ProgramTypeOK ==
    /\ drawn \in Drawings /\ programEdits \in 0..MaxProgramEdits
    /\ program = [inputs |-> program.inputs, modules |-> program.modules,
                  steps |-> program.steps, outputs |-> program.outputs]
    /\ program.steps \in Seq(ProgramStep)
    /\ DOMAIN program.modules \in SUBSET Names /\ IsFiniteSet(DOMAIN program.modules)
    /\ Cardinality(DOMAIN program.modules) <= programEdits

ModulesStand ==
    \A id \in DOMAIN program.modules :
        /\ program.modules[id].parameters \in SUBSET Names
        /\ StandsAlone(program.modules[id])
        /\ program.modules[id].outputs \subseteq DOMAIN program.modules[id].nodes

\* A step calls a module of the program.
StepCalls(step) ==
    /\ step.module \in DOMAIN program.modules
    /\ DOMAIN step.arguments = program.modules[step.module].parameters
    /\ \A name \in DOMAIN step.arguments : step.arguments[name] = "input" => name \in program.inputs
StepsCall == \A i \in DOMAIN program.steps : StepCalls(program.steps[i])
StepsDiffer == \A i, j \in DOMAIN program.steps : program.steps[i].id = program.steps[j].id => i = j
OutputsResolve ==
    \A output \in program.outputs :
        \/ output.step \in removed
        \/ \E i \in DOMAIN program.steps :
             /\ output.step = program.steps[i].id
             /\ output.output \in program.modules[program.steps[i].module].outputs

ProgramInv == ProgramTypeOK /\ ModulesStand /\ StepsCall /\ StepsDiffer /\ OutputsResolve

LEMMA WholeByProgramInv == ProgramInv => ProgramsAreWhole
<1> SUFFICES ASSUME ProgramInv PROVE ProgramsAreWhole
  OBVIOUS
<1>1. \A module \in Range(program.modules) : StandsAlone(module) /\ module.outputs \subseteq DOMAIN module.nodes
  BY DEF ProgramInv, ModulesStand, Range
<1>2. \A i \in DOMAIN program.steps :
        /\ DOMAIN program.steps[i].arguments = program.modules[program.steps[i].module].parameters
        /\ \A name \in DOMAIN program.steps[i].arguments :
             program.steps[i].arguments[name] = "input" => name \in program.inputs
        /\ \A j \in DOMAIN program.steps : program.steps[j].id = program.steps[i].id => j = i
  BY DEF ProgramInv, StepsCall, StepCalls, StepsDiffer
<1>3. \A output \in program.outputs :
         \/ output.step \in removed
         \/ \E step \in Range(program.steps) :
              output.step = step.id /\ output.output \in program.modules[step.module].outputs
  BY DEF ProgramInv, OutputsResolve, Range
<1> QED BY <1>1, <1>2, <1>3, Zenon DEF ProgramsAreWhole

LEMMA ProgramInit == ProgramsInit => ProgramInv
<1> SUFFICES ASSUME ProgramsInit PROVE ProgramInv
  OBVIOUS
<1>1. /\ drawn \in Drawings /\ programEdits = 0 /\ program = NoProgram
      /\ MaxProgramEdits \in Nat
  BY ProgramAssumption, NumbersAssumption DEF ProgramsInit
<1>2. /\ program = [inputs |-> program.inputs, modules |-> program.modules,
                    steps |-> program.steps, outputs |-> program.outputs]
      /\ DOMAIN program.modules = {} /\ program.steps = <<>> /\ program.outputs = {}
  BY <1>1 DEF NoProgram
<1>3. ProgramTypeOK
  BY <1>1, <1>2, FS_EmptySet DEF ProgramTypeOK
<1> QED BY <1>2, <1>3 DEF ProgramInv, ModulesStand, StepsCall, StepsDiffer, OutputsResolve

\* A module is cut out whole: what it refers to is among its nodes and parameters.
LEMMA ModuleOfNodesStands ==
    ASSUME NEW nodes, nodes \in [DOMAIN nodes -> DrawnNode], NEW parameters, NEW outputs,
           \A id \in DOMAIN nodes :
              /\ nodes[id].arg.kind = "input" => nodes[id].arg.name \in parameters
              /\ nodes[id].arg.kind = "node" => nodes[id].arg.name \in DOMAIN nodes
              /\ nodes[id].deps \subseteq DOMAIN nodes
    PROVE  StandsAlone([parameters |-> parameters, nodes |-> Parameterized(nodes), outputs |-> outputs])
<1> DEFINE made == Parameterized(nodes)
<1>1. SUFFICES ASSUME NEW id \in DOMAIN nodes
               PROVE  /\ made[id].arg.kind = "param" => made[id].arg.name \in parameters
                      /\ made[id].arg.kind # "input"
                      /\ made[id].arg.kind = "node" => made[id].arg.name \in DOMAIN nodes
                      /\ made[id].deps \subseteq DOMAIN nodes
  <2>1. DOMAIN made = DOMAIN nodes
    BY DEF Parameterized
  <2> HIDE DEF made
  <2> QED BY <2>1 DEF StandsAlone, Range, made
<1>2. nodes[id] \in DrawnNode
  OBVIOUS
<1>3. made[id].deps = nodes[id].deps /\ made[id].arg = parameterize(nodes[id].arg)
  BY <1>2 DEF Parameterized, DrawnNode
<1>4. CASE nodes[id].arg.kind = "input"
  <2>1. made[id].arg.kind = "param" /\ made[id].arg.name = nodes[id].arg.name
    BY <1>2, <1>3, <1>4 DEF parameterize, DrawnNode
  <2> QED BY <1>3, <1>4, <2>1
<1>5. CASE nodes[id].arg.kind # "input"
  <2>1. made[id].arg = nodes[id].arg
    BY <1>3, <1>5 DEF parameterize
  <2>2. nodes[id].arg.kind \in {"literal", "node"}
    BY <1>2, <1>5 DEF DrawnNode
  <2> QED BY <1>3, <2>1, <2>2
<1> QED BY <1>4, <1>5

LEMMA CreatePreserves ==
    ASSUME ProgramInv, CreateProgram
    PROVE  ProgramInv'
<1> DEFINE id == <<"workflow">>
           module == [parameters |-> drawn.inputs, nodes |-> Parameterized(drawn.nodes), outputs |-> drawn.outputs]
           step == [id |-> id, module |-> id, when |-> "always", map |-> FALSE,
                    arguments |-> [name \in module.parameters |-> "input"]]
<1>1. /\ drawn \in Drawings /\ programEdits' = programEdits + 1 /\ UNCHANGED <<drawn, removed>>
      /\ programEdits' \in 0..MaxProgramEdits /\ programEdits \in Nat
  BY ProgramAssumption, NumbersAssumption DEF ProgramInv, ProgramTypeOK, CreateProgram, EditProgram
<1>2. /\ drawn.nodes \in [DOMAIN drawn.nodes -> DrawnNode] /\ Resolves(drawn)
      /\ drawn.inputs \in SUBSET Names
  BY <1>1, ProgramAssumption DEF Names, Words
<1>3. StandsAlone(module) /\ module.outputs \subseteq DOMAIN module.nodes
  <2>1. \A i \in DOMAIN drawn.nodes :
          /\ drawn.nodes[i].arg.kind = "input" => drawn.nodes[i].arg.name \in drawn.inputs
          /\ drawn.nodes[i].arg.kind = "node" => drawn.nodes[i].arg.name \in DOMAIN drawn.nodes
          /\ drawn.nodes[i].deps \subseteq DOMAIN drawn.nodes
    BY <1>2 DEF Resolves, Range
  <2>2. StandsAlone(module)
    BY <1>2, <2>1, ModuleOfNodesStands, Zenon
  <2>3. DOMAIN module.nodes = DOMAIN drawn.nodes
    BY DEF Parameterized
  <2> QED BY <1>2, <2>2, <2>3 DEF Resolves
<1>4. module.parameters = drawn.inputs
  OBVIOUS
<1> HIDE DEF module
<1>5. /\ program' = [inputs |-> drawn.inputs, modules |-> [i \in {id} |-> module], steps |-> <<step>>,
                     outputs |-> {[step |-> id, output |-> output] : output \in module.outputs}]
  BY Zenon DEF CreateProgram, createProgramFromGraph, module
<1>6. id \in Names
  <2>1. "workflow" \in Words
    BY DEF Words
  <2> QED BY <2>1 DEF Names
<1>7. /\ program'.modules = [i \in {id} |-> module] /\ program'.steps = <<step>> /\ program'.inputs = drawn.inputs
      /\ program'.outputs = {[step |-> id, output |-> output] : output \in module.outputs}
  BY <1>5
<1>8. step \in ProgramStep
  <2>1. step.arguments \in [drawn.inputs -> {"input", "null", "edited"}]
    BY <1>4
  <2> QED BY <1>2, <1>6, <2>1 DEF ProgramStep
<1>9. /\ step.id = id /\ step.module = id /\ DOMAIN step.arguments = module.parameters
  OBVIOUS
<1> HIDE DEF id, step
<1>10. DOMAIN program'.steps = {1} /\ program'.steps[1] = step /\ program'.steps \in Seq(ProgramStep)
  BY <1>7, <1>8
<1>11. ProgramTypeOK'
  <2>1. IsFiniteSet(DOMAIN program'.modules) /\ Cardinality(DOMAIN program'.modules) = 1
    <3>1. DOMAIN program'.modules = {id}
      BY <1>7
    <3> QED BY <3>1, FS_Singleton, Zenon
  <2>2. program' = [inputs |-> program'.inputs, modules |-> program'.modules,
                    steps |-> program'.steps, outputs |-> program'.outputs]
    BY <1>5, <1>7
  <2> QED BY <1>1, <1>6, <1>7, <1>10, <2>1, <2>2 DEF ProgramTypeOK
<1>12. ModulesStand'
  BY <1>2, <1>3, <1>4, <1>6, <1>7 DEF ModulesStand
<1>13. StepsCall'
  <2>1. \A i \in DOMAIN program'.steps : program'.steps[i] = step
    BY <1>10
  <2>2. /\ step.module \in DOMAIN program'.modules
        /\ DOMAIN step.arguments = program'.modules[step.module].parameters
        /\ \A name \in DOMAIN step.arguments : step.arguments[name] = "input" => name \in program'.inputs
    BY <1>4, <1>7, <1>9
  <2> QED BY <2>1, <2>2 DEF StepsCall, StepCalls
<1>14. StepsDiffer'
  BY <1>10 DEF StepsDiffer
<1>15. OutputsResolve'
  BY <1>6, <1>7, <1>9, <1>10 DEF OutputsResolve
<1> QED BY <1>11, <1>12, <1>13, <1>14, <1>15 DEF ProgramInv

\* What an edit of the steps must keep to.
LEMMA StepsPreserve ==
    ASSUME ProgramInv, NEW steps \in Seq(ProgramStep),
           program' = [program EXCEPT !.steps = steps],
           programEdits' = programEdits + 1, programEdits < MaxProgramEdits, UNCHANGED drawn,
           \A i \in DOMAIN steps : StepCalls(steps[i]),
           \A i, j \in DOMAIN steps : steps[i].id = steps[j].id => i = j,
           removed \subseteq removed',
           \A i \in DOMAIN program.steps :
              \/ program.steps[i].id \in removed'
              \/ \E j \in DOMAIN steps : steps[j].id = program.steps[i].id /\ steps[j].module = program.steps[i].module
    PROVE  ProgramInv'
<1>1. ProgramTypeOK /\ ModulesStand /\ OutputsResolve
  BY DEF ProgramInv
<1>2. /\ program'.steps = steps /\ program'.modules = program.modules
      /\ program'.inputs = program.inputs /\ program'.outputs = program.outputs
      /\ program' = [inputs |-> program'.inputs, modules |-> program'.modules,
                     steps |-> program'.steps, outputs |-> program'.outputs]
  BY <1>1 DEF ProgramTypeOK
<1>3. programEdits' \in 0..MaxProgramEdits /\ programEdits \in Nat
  BY <1>1, ProgramAssumption, NumbersAssumption DEF ProgramTypeOK
<1>4. Cardinality(DOMAIN program.modules) \in Nat
  BY <1>1, FS_CardinalityType DEF ProgramTypeOK
<1>5. ProgramTypeOK'
  BY <1>1, <1>2, <1>3, <1>4 DEF ProgramTypeOK
<1>6. ModulesStand'
  BY <1>1, <1>2 DEF ModulesStand
<1>7. StepsCall' /\ StepsDiffer'
  BY <1>2 DEF StepsCall, StepsDiffer, StepCalls
<1>8. OutputsResolve'
  <2> SUFFICES ASSUME NEW output \in program.outputs, output.step \notin removed'
               PROVE  \E j \in DOMAIN steps : /\ output.step = steps[j].id
                                              /\ output.output \in program.modules[steps[j].module].outputs
    BY <1>2 DEF OutputsResolve
  <2>1. PICK i \in DOMAIN program.steps : /\ output.step = program.steps[i].id
                                          /\ output.output \in program.modules[program.steps[i].module].outputs
    BY <1>1 DEF OutputsResolve
  <2> QED BY <2>1
<1> QED BY <1>5, <1>6, <1>7, <1>8 DEF ProgramInv

LEMMA AddStepPreserves ==
    ASSUME ProgramInv, NEW moduleId \in DOMAIN program.modules, AddStep(moduleId)
    PROVE  ProgramInv'
<1> DEFINE taken == {step.id : step \in Range(program.steps)}
           ids == [i \in DOMAIN program.steps |-> program.steps[i].id]
<1>1. /\ program.steps \in Seq(ProgramStep) /\ DOMAIN program.modules \in SUBSET Names
      /\ program.modules[moduleId].parameters \in SUBSET Names
      /\ StepsCall /\ StepsDiffer /\ ProgramTypeOK
  BY DEF ProgramInv, ProgramTypeOK, ModulesStand
<1>2. /\ programEdits' = programEdits + 1 /\ programEdits < MaxProgramEdits /\ UNCHANGED <<drawn, removed>>
      /\ Len(program.steps) < MaxSteps
      /\ program' = [program EXCEPT !.steps = Append(program.steps, addProgramStep(moduleId))]
  BY DEF AddStep, EditProgram
<1>3. /\ taken = {ids[i] : i \in DOMAIN ids} /\ IsFiniteSet(DOMAIN ids)
      /\ Cardinality(DOMAIN ids) = Len(program.steps) /\ Len(program.steps) \in Nat
  <2>1. Len(program.steps) \in Nat /\ DOMAIN program.steps = 1..Len(program.steps)
    BY <1>1
  <2>2. IsFiniteSet(1..Len(program.steps)) /\ Cardinality(1..Len(program.steps)) = Len(program.steps)
    BY <2>1, FS_Interval
  <2> QED BY <2>1, <2>2 DEF Range
<1>4. IsFiniteSet(taken) /\ Cardinality(taken) <= Len(Numbers)
  <2>1. IsFiniteSet(taken) /\ Cardinality(taken) <= Len(program.steps)
    <3> HIDE DEF ids, taken
    <3> QED BY <1>3, ImageIsFinite
  <2>2. MaxSteps \in Nat /\ MaxSteps <= Len(Numbers) /\ Len(Numbers) \in Nat /\ Cardinality(taken) \in Nat
    BY <2>1, FS_CardinalityType, ProgramAssumption, NumbersAssumption
  <2> QED BY <1>2, <1>3, <2>1, <2>2
<1>5. uniqueId(moduleId, taken) \in Names /\ uniqueId(moduleId, taken) \notin taken
  <2> HIDE DEF taken
  <2>1. STRING \subseteq Words /\ moduleId \in Seq(Words)
    BY <1>1 DEF Words, Names
  <2> QED BY <1>4, <2>1, UniqueIdIsFree DEF Names
<1>6. PICK step : step = addProgramStep(moduleId)
  OBVIOUS
<1>7. /\ step.id = uniqueId(moduleId, taken) /\ step.module = moduleId
      /\ step.arguments = [name \in program.modules[moduleId].parameters |->
                             IF name \in program.inputs THEN "input" ELSE "null"]
      /\ step.when = "always" /\ step.map = FALSE
      /\ step = [id |-> step.id, module |-> step.module, when |-> step.when, map |-> step.map,
                 arguments |-> step.arguments]
  BY <1>6, Zenon DEF addProgramStep
<1>8. \A i \in DOMAIN program.steps : program.steps[i].id \in taken
  BY DEF Range
<1> HIDE DEF taken
<1>9. step \in ProgramStep
  <2>1. step.arguments \in [program.modules[moduleId].parameters -> {"input", "null", "edited"}]
    BY <1>7
  <2>2. PICK args : args = step.arguments
    OBVIOUS
  <2> DEFINE Passed == UNION {[names -> {"input", "null", "edited"}] : names \in SUBSET Names}
  <2>3. args \in Passed
    <3>1. PICK names : names = program.modules[moduleId].parameters /\ names \in SUBSET Names
      BY <1>1
    <3> QED BY <2>1, <2>2, <3>1
  <2>4. step.id \in Names /\ moduleId \in Names
    BY <1>1, <1>5, <1>7
  <2> DEFINE Times == {"always", "include", "exclude", "expression"}
  <2>5. PICK id \in Names, when \in Times, map \in BOOLEAN :
           step = [id |-> id, module |-> moduleId, when |-> when, map |-> map, arguments |-> args]
    BY <1>7, <2>2, <2>4, Zenon
  <2>6. ProgramStep = [id : Names, module : Names, when : Times, map : BOOLEAN, arguments : Passed]
    BY Zenon DEF ProgramStep
  <2> HIDE DEF Passed, Times
  <2> QED BY <2>3, <2>4, <2>5, <2>6
<1>10. StepCalls(step)
  BY <1>7 DEF StepCalls
<1>11. PICK steps : steps = Append(program.steps, step)
  OBVIOUS
<1>12. /\ steps \in Seq(ProgramStep) /\ DOMAIN steps = DOMAIN program.steps \cup {Len(program.steps) + 1}
       /\ \A i \in DOMAIN program.steps : steps[i] = program.steps[i] /\ i # Len(program.steps) + 1
       /\ steps[Len(program.steps) + 1] = step
  BY <1>1, <1>9, <1>11
<1>13. \A i \in DOMAIN steps : StepCalls(steps[i])
  BY <1>1, <1>10, <1>12 DEF StepsCall
<1>14. \A i, j \in DOMAIN steps : steps[i].id = steps[j].id => i = j
  BY <1>1, <1>5, <1>7, <1>8, <1>12 DEF StepsDiffer
<1>15. program' = [program EXCEPT !.steps = steps]
  BY <1>2, <1>6, <1>11
<1> QED BY <1>2, <1>12, <1>13, <1>14, <1>15, StepsPreserve

LEMMA DeleteStepPreserves ==
    ASSUME ProgramInv, NEW i \in DOMAIN program.steps, DeleteStep(i)
    PROVE  ProgramInv'
<1>1. program.steps \in Seq(ProgramStep) /\ StepsCall /\ StepsDiffer
  BY DEF ProgramInv, ProgramTypeOK
<1>2. PICK steps : steps = RemoveAt(program.steps, i)
  OBVIOUS
<1>3. /\ programEdits' = programEdits + 1 /\ programEdits < MaxProgramEdits /\ UNCHANGED drawn
      /\ program' = [program EXCEPT !.steps = steps]
      /\ removed' = removed \cup {program.steps[i].id}
  BY <1>2 DEF DeleteStep, EditProgram
<1>4. /\ steps \in Seq(ProgramStep)
      /\ \A j \in DOMAIN steps : /\ (IF j < i THEN j ELSE j + 1) \in DOMAIN program.steps
                                 /\ steps[j] = program.steps[IF j < i THEN j ELSE j + 1]
      /\ \A j \in DOMAIN program.steps \ {i} : \E k \in DOMAIN steps : steps[k] = program.steps[j]
  <2> DEFINE before == program.steps
  <2>1. before \in Seq(ProgramStep) /\ i \in DOMAIN before /\ steps = RemoveAt(before, i)
    BY <1>1, <1>2
  <2> HIDE DEF before
  <2>2. /\ steps \in Seq(ProgramStep)
        /\ \A j \in DOMAIN steps : /\ (IF j < i THEN j ELSE j + 1) \in DOMAIN before \ {i}
                                   /\ steps[j] = before[IF j < i THEN j ELSE j + 1]
        /\ \A j \in DOMAIN before \ {i} : /\ (IF j < i THEN j ELSE j - 1) \in DOMAIN steps
                                          /\ steps[IF j < i THEN j ELSE j - 1] = before[j]
    <3>1. /\ RemoveAt(before, i) \in Seq(ProgramStep)
          /\ \A j \in DOMAIN RemoveAt(before, i) :
               /\ (IF j < i THEN j ELSE j + 1) \in DOMAIN before \ {i}
               /\ RemoveAt(before, i)[j] = before[IF j < i THEN j ELSE j + 1]
          /\ \A j \in DOMAIN before \ {i} :
               /\ (IF j < i THEN j ELSE j - 1) \in DOMAIN RemoveAt(before, i)
               /\ RemoveAt(before, i)[IF j < i THEN j ELSE j - 1] = before[j]
      BY <2>1, RemoveAtShifts, SMTT(20)
    <3>2. steps \in Seq(ProgramStep)
      BY <2>1, <3>1, Zenon
    <3>3. \A j \in DOMAIN steps : /\ (IF j < i THEN j ELSE j + 1) \in DOMAIN before \ {i}
                                 /\ steps[j] = before[IF j < i THEN j ELSE j + 1]
      BY <2>1, <3>1, Zenon
    <3>4. \A j \in DOMAIN before \ {i} : /\ (IF j < i THEN j ELSE j - 1) \in DOMAIN steps
                                        /\ steps[IF j < i THEN j ELSE j - 1] = before[j]
      BY <2>1, <3>1, Zenon
    <3> QED BY <3>2, <3>3, <3>4
  <2>3. \A j \in DOMAIN before \ {i} : \E k \in DOMAIN steps : steps[k] = before[j]
    BY <2>2
  <2> QED BY <2>2, <2>3 DEF before
<1>5. \A j \in DOMAIN steps : StepCalls(steps[j])
  BY <1>1, <1>4 DEF StepsCall
<1>6. \A j, k \in DOMAIN steps : steps[j].id = steps[k].id => j = k
  <2>1. \A j \in DOMAIN steps : j \in Nat
    BY <1>4
  <2>2. i \in Nat
    BY <1>1
  <2>3. SUFFICES ASSUME NEW j \in DOMAIN steps, NEW k \in DOMAIN steps, steps[j].id = steps[k].id PROVE j = k
    OBVIOUS
  <2>4. (IF j < i THEN j ELSE j + 1) = (IF k < i THEN k ELSE k + 1)
    <3>1. PICK j2 : j2 = IF j < i THEN j ELSE j + 1
      OBVIOUS
    <3>2. PICK k2 : k2 = IF k < i THEN k ELSE k + 1
      OBVIOUS
    <3>3. j2 \in DOMAIN program.steps /\ k2 \in DOMAIN program.steps
      BY <1>4, <3>1, <3>2, Zenon
    <3>4. program.steps[j2].id = program.steps[k2].id
      BY <1>4, <2>3, <3>1, <3>2, Zenon
    <3> QED BY <1>1, <3>1, <3>2, <3>3, <3>4, Zenon DEF StepsDiffer
  <2> QED BY <2>1, <2>2, <2>4
<1> QED BY <1>3, <1>4, <1>5, <1>6, StepsPreserve

LEMMA OneStepPreserves ==
    ASSUME ProgramInv, NEW i \in DOMAIN program.steps, NEW step \in ProgramStep,
           step.id = program.steps[i].id, step.module = program.steps[i].module, StepCalls(step),
           program' = [program EXCEPT !.steps = [program.steps EXCEPT ![i] = step]],
           programEdits' = programEdits + 1, programEdits < MaxProgramEdits, UNCHANGED <<drawn, removed>>
    PROVE  ProgramInv'
<1>1. program.steps \in Seq(ProgramStep) /\ StepsCall /\ StepsDiffer
  BY DEF ProgramInv, ProgramTypeOK
<1>2. PICK steps : steps = [program.steps EXCEPT ![i] = step]
  OBVIOUS
<1>3. /\ steps \in Seq(ProgramStep) /\ DOMAIN steps = DOMAIN program.steps /\ steps[i] = step
      /\ \A j \in DOMAIN program.steps \ {i} : steps[j] = program.steps[j]
  BY <1>1, <1>2
<1>4. \A j \in DOMAIN steps : /\ StepCalls(steps[j]) /\ steps[j].id = program.steps[j].id
                              /\ steps[j].module = program.steps[j].module
  BY <1>1, <1>3 DEF StepsCall
<1>5. \A j, k \in DOMAIN steps : steps[j].id = steps[k].id => j = k
  BY <1>1, <1>3, <1>4 DEF StepsDiffer
<1>6. program' = [program EXCEPT !.steps = steps]
  BY <1>2
<1> QED BY <1>3, <1>4, <1>5, <1>6, StepsPreserve

LEMMA UpdateStepPreserves ==
    ASSUME ProgramInv, NEW i \in DOMAIN program.steps, UpdateStep(i)
    PROVE  ProgramInv'
<1>1. /\ program.steps \in Seq(ProgramStep) /\ ProgramTypeOK /\ ModulesStand
      /\ program.steps[i] \in ProgramStep /\ StepCalls(program.steps[i])
  BY DEF ProgramInv, ProgramTypeOK, StepsCall
<1>2. PICK old : old = program.steps[i]
  OBVIOUS
<1>3. PICK steps : steps = program.steps
  OBVIOUS
<1>4. /\ programEdits' = programEdits + 1 /\ programEdits < MaxProgramEdits /\ UNCHANGED <<drawn, removed>>
      /\ program = [inputs |-> program.inputs, modules |-> program.modules,
                    steps |-> program.steps, outputs |-> program.outputs]
  BY <1>1 DEF UpdateStep, EditProgram, ProgramTypeOK
<1>5. CASE \E mode \in {"always", "include", "exclude", "expression"} \ {program.steps[i].when} :
             program' = [program EXCEPT !.steps[i].when = mode]
  <2>1. PICK mode \in {"always", "include", "exclude", "expression"} :
          program' = [program EXCEPT !.steps[i].when = mode]
    BY <1>5
  <2>2. PICK step : step = [old EXCEPT !.when = mode]
    OBVIOUS
  <2>3. step \in ProgramStep /\ step.id = old.id /\ step.module = old.module /\ step.arguments = old.arguments
    BY <1>1, <1>2, <2>2 DEF ProgramStep
  <2>4. StepCalls(step)
    BY <1>1, <1>2, <2>3 DEF StepCalls
  <2>5. program' = [program EXCEPT !.steps = [program.steps EXCEPT ![i] = step]]
    BY <1>2, <1>4, <2>1, <2>2
  <2> QED BY <1>2, <1>4, <2>3, <2>4, <2>5, OneStepPreserves
<1>6. CASE program' = [program EXCEPT !.steps[i].map = ~@]
  <2>1. PICK step : step = [old EXCEPT !.map = ~@]
    OBVIOUS
  <2>2. (~old.map) \in BOOLEAN
    BY <1>1, <1>2 DEF ProgramStep
  <2>3. step \in ProgramStep /\ step.id = old.id /\ step.module = old.module /\ step.arguments = old.arguments
    BY <1>1, <1>2, <2>1, <2>2 DEF ProgramStep
  <2>4. StepCalls(step)
    BY <1>1, <1>2, <2>3 DEF StepCalls
  <2>5. program' = [program EXCEPT !.steps = [program.steps EXCEPT ![i] = step]]
    BY <1>2, <1>4, <1>6, <2>1
  <2> QED BY <1>2, <1>4, <2>3, <2>4, <2>5, OneStepPreserves
<1>7. CASE \E name \in program.modules[program.steps[i].module].parameters :
             program' = [program EXCEPT !.steps[i].arguments[name] = "edited"]
  <2>1. PICK name \in program.modules[old.module].parameters :
          program' = [program EXCEPT !.steps[i].arguments[name] = "edited"]
    BY <1>2, <1>7
  <2>2. PICK arguments : arguments = [old.arguments EXCEPT ![name] = "edited"]
    OBVIOUS
  <2>3. PICK names \in SUBSET Names : old.arguments \in [names -> {"input", "null", "edited"}]
    BY <1>1, <1>2 DEF ProgramStep
  <2>4. /\ DOMAIN arguments = DOMAIN old.arguments /\ arguments \in [names -> {"input", "null", "edited"}]
        /\ \A n \in DOMAIN arguments : arguments[n] = "input" => old.arguments[n] = "input"
    BY <2>2, <2>3
  <2>5. PICK step : step = [old EXCEPT !.arguments = arguments]
    OBVIOUS
  <2>6. step \in ProgramStep /\ step.id = old.id /\ step.module = old.module /\ step.arguments = arguments
    BY <1>1, <1>2, <2>4, <2>5 DEF ProgramStep
  <2>7. StepCalls(step)
    BY <1>1, <1>2, <2>4, <2>6 DEF StepCalls
  <2>8. program' = [program EXCEPT !.steps = [program.steps EXCEPT ![i] = step]]
    BY <1>2, <1>4, <2>1, <2>2, <2>5
  <2> QED BY <1>2, <1>4, <2>6, <2>7, <2>8, OneStepPreserves
<1> QED BY <1>5, <1>6, <1>7 DEF UpdateStep

\* A module is added under an identifier of its own, so the others stand as they did.
LEMMA AddModulePreserves ==
    ASSUME ProgramInv, NEW selection, AddModuleFromSelection(selection)
    PROVE  ProgramInv'
<1> DEFINE nodes == Restrict(drawn.nodes, selection \cap DOMAIN drawn.nodes)
           id == uniqueId(<<"module">>, DOMAIN program.modules)
           module == moduleForNodes(nodes)
<1>1. ProgramTypeOK /\ ModulesStand /\ StepsCall /\ StepsDiffer /\ OutputsResolve
  BY DEF ProgramInv
<1>2. /\ programEdits' = programEdits + 1 /\ programEdits < MaxProgramEdits /\ UNCHANGED <<drawn, removed>>
      /\ IsModule(nodes) /\ program' = [program EXCEPT !.modules = With(program.modules, id, module)]
  BY DEF AddModuleFromSelection, EditProgram
<1>3. programEdits \in Nat /\ programEdits' \in 0..MaxProgramEdits /\ MaxProgramEdits <= Len(Numbers)
  BY <1>1, <1>2, ProgramAssumption, NumbersAssumption DEF ProgramTypeOK
<1>4. /\ DOMAIN program.modules \in SUBSET Names /\ IsFiniteSet(DOMAIN program.modules)
      /\ Cardinality(DOMAIN program.modules) <= programEdits /\ Cardinality(DOMAIN program.modules) \in Nat
  BY <1>1, FS_CardinalityType DEF ProgramTypeOK
<1>5. id \in Names /\ id \notin DOMAIN program.modules
  <2>1. Cardinality(DOMAIN program.modules) <= Len(Numbers) /\ Len(Numbers) \in Nat
    BY <1>2, <1>3, <1>4, ProgramAssumption, NumbersAssumption
  <2>2. STRING \subseteq Words /\ <<"module">> \in Seq(Words)
    BY DEF Words
  <2> QED BY <1>4, <2>1, <2>2, UniqueIdIsFree, Zenon DEF Names
<1>6. /\ drawn \in Drawings /\ drawn.nodes \in [DOMAIN drawn.nodes -> DrawnNode]
      /\ nodes \in [DOMAIN nodes -> DrawnNode] /\ DOMAIN nodes \subseteq DOMAIN drawn.nodes
  BY <1>1, ProgramAssumption DEF ProgramTypeOK, Restrict
<1>7. \A i \in DOMAIN nodes :
        /\ nodes[i].arg.kind = "input" => nodes[i].arg.name \in InputsOf(nodes)
        /\ nodes[i].arg.kind = "node" => nodes[i].arg.name \in DOMAIN nodes
        /\ nodes[i].deps \subseteq DOMAIN nodes
  <2> HIDE DEF nodes
  <2> SUFFICES ASSUME NEW i \in DOMAIN nodes
               PROVE  /\ nodes[i].arg.kind = "input" => nodes[i].arg.name \in InputsOf(nodes)
                      /\ nodes[i].arg.kind = "node" => nodes[i].arg.name \in DOMAIN nodes
                      /\ nodes[i].deps \subseteq DOMAIN nodes
    OBVIOUS
  <2>1. nodes[i] \in Range(nodes)
    BY DEF Range
  <2>2. nodes[i].arg.kind = "input" => nodes[i].arg.name \in InputsOf(nodes)
    BY <2>1 DEF InputsOf
  <2>3. Outside(nodes) = {}
    BY <1>2 DEF IsModule
  <2>4. nodes[i].deps \cup (IF nodes[i].arg.kind = "node" THEN {nodes[i].arg.name} ELSE {}) \subseteq DOMAIN nodes
    BY <2>1, <2>3 DEF Outside
  <2> QED BY <2>2, <2>4
<1>8. InputsOf(nodes) \in SUBSET Names
  <2>1. \A n \in Range(nodes) : n.arg.name \in Seq(STRING)
    BY <1>6 DEF Range, DrawnNode
  <2>2. \A name \in Seq(STRING) : name \in Names
    BY DEF Names, Words
  <2> HIDE DEF nodes
  <2> QED BY <2>1, <2>2 DEF InputsOf
<1>9. /\ StandsAlone(module) /\ module.parameters \in SUBSET Names
      /\ module.outputs \subseteq DOMAIN module.nodes
  <2> HIDE DEF nodes
  <2>1. StandsAlone(module)
    BY <1>6, <1>7, ModuleOfNodesStands, Zenon DEF moduleForNodes
  <2>2. module.parameters = InputsOf(nodes)
    BY DEF moduleForNodes
  <2>3. module.outputs \subseteq DOMAIN nodes /\ DOMAIN module.nodes = DOMAIN nodes
    BY DEF moduleForNodes, Parameterized
  <2> QED BY <1>8, <2>1, <2>2, <2>3
<1> HIDE DEF module, id
<1>10. PICK modules : modules = With(program.modules, id, module)
  OBVIOUS
<1>11. /\ DOMAIN modules = DOMAIN program.modules \cup {id} /\ modules[id] = module
       /\ \A m \in DOMAIN program.modules : modules[m] = program.modules[m]
  BY <1>5, <1>10 DEF With
<1>12. /\ program'.steps = program.steps /\ program'.modules = modules
       /\ program'.inputs = program.inputs /\ program'.outputs = program.outputs
       /\ program' = [inputs |-> program'.inputs, modules |-> program'.modules,
                      steps |-> program'.steps, outputs |-> program'.outputs]
  BY <1>1, <1>2, <1>10 DEF ProgramTypeOK
<1>13. ProgramTypeOK'
  <2>1. /\ IsFiniteSet(DOMAIN program.modules \cup {id})
        /\ Cardinality(DOMAIN program.modules \cup {id}) = Cardinality(DOMAIN program.modules) + 1
    BY <1>4, <1>5, FS_AddElement
  <2>2. Cardinality(DOMAIN modules) <= programEdits'
    BY <1>2, <1>3, <1>4, <1>11, <2>1
  <2> QED BY <1>1, <1>2, <1>3, <1>4, <1>5, <1>11, <1>12, <2>1, <2>2 DEF ProgramTypeOK
<1>14. ModulesStand'
  BY <1>1, <1>9, <1>11, <1>12 DEF ModulesStand
<1>15. StepsCall' /\ StepsDiffer'
  BY <1>1, <1>11, <1>12 DEF StepsCall, StepCalls, StepsDiffer
<1>16. OutputsResolve'
  <2>1. \A i \in DOMAIN program.steps : program.steps[i].module \in DOMAIN program.modules
    BY <1>1 DEF StepsCall, StepCalls
  <2> QED BY <1>1, <1>2, <1>11, <1>12, <2>1 DEF OutputsResolve
<1> QED BY <1>13, <1>14, <1>15, <1>16 DEF ProgramInv

LEMMA EditDrawingPreserves ==
    ASSUME ProgramInv, EditDrawing
    PROVE  ProgramInv'
<1>1. ProgramTypeOK /\ programEdits' = programEdits + 1 /\ programEdits < MaxProgramEdits /\ drawn' \in Drawings
  BY DEF ProgramInv, EditDrawing, EditProgram
<1>2. UNCHANGED <<program, removed>>
  BY DEF EditDrawing
<1>3. ProgramTypeOK'
  BY <1>1, <1>2, FS_CardinalityType, ProgramAssumption, NumbersAssumption DEF ProgramTypeOK
<1> QED BY <1>2, <1>3 DEF ProgramInv, ModulesStand, StepsCall, StepCalls, StepsDiffer, OutputsResolve

THEOREM ProgramsAreKnown == ProgramsSpec => []ProgramInv
<1>1. ProgramInv /\ [ProgramsNext]_programVars => ProgramInv'
  <2> SUFFICES ASSUME ProgramInv, [ProgramsNext]_programVars PROVE ProgramInv'
    OBVIOUS
  <2>1. CASE CreateProgram
    BY <2>1, CreatePreserves
  <2>2. CASE \E selection \in Selected : AddModuleFromSelection(selection)
    BY <2>2, AddModulePreserves
  <2>3. CASE \E moduleId \in DOMAIN program.modules : AddStep(moduleId)
    BY <2>3, AddStepPreserves
  <2>4. CASE \E i \in DOMAIN program.steps : DeleteStep(i) \/ UpdateStep(i)
    BY <2>4, DeleteStepPreserves, UpdateStepPreserves
  <2>5. CASE EditDrawing
    BY <2>5, EditDrawingPreserves
  <2>6. CASE UNCHANGED programVars
    BY <2>6 DEF programVars, ProgramInv, ProgramTypeOK, ModulesStand, StepsCall, StepCalls, StepsDiffer,
                OutputsResolve
  <2> QED BY <2>1, <2>2, <2>3, <2>4, <2>5, <2>6 DEF ProgramsNext
<1> QED BY <1>1, ProgramInit, PTL DEF ProgramsSpec

\* A program refers to nothing outside of it (program.ts:20-24, ProgramView.tsx:104).
THEOREM ProgramsStayWhole == ProgramsSpec => []ProgramsAreWhole
<1>1. ProgramInv => ProgramsAreWhole
  BY WholeByProgramInv
<1> QED BY <1>1, ProgramsAreKnown, PTL

-----------------------------------------------------------------------------
(* The edits of a document. *)

Leaf == {leaf \in [kind : {"literal", "null", "node", "input"}, name : Names] :
           leaf.kind \in {"literal", "null"} => leaf.name = <<>>}
Value == [shape : {"plain", "list", "absent"}, leaf : Leaf]
Ordering == {ids \in SUBSET Names : IsFiniteSet(ids)}
GraphNode == [kind : {"task", "value"}, arg : Value, deps : Ordering]

IsDocument(d) ==
    d = [nodes |-> d.nodes, inputs |-> d.inputs, values |-> d.values, outputs |-> d.outputs, x |-> d.x,
         promotions |-> d.promotions, groups |-> d.groups, sets |-> d.sets]
NodesOK(d) ==
    /\ d.nodes \in [Ids(d) -> GraphNode] /\ Ids(d) \in SUBSET Names /\ IsFiniteSet(Ids(d))
    /\ \A id \in Ids(d) : d.nodes[id].arg.leaf.kind = "node" => d.nodes[id].arg.leaf.name \in Ids(d) \cup {<<>>}
EndsOK(d) ==
    /\ d.inputs \in SUBSET Names /\ IsFiniteSet(d.inputs) /\ d.values = d.inputs
    /\ d.outputs \in [DOMAIN d.outputs -> Ids(d)]
PlacesOK(d) == d.x = [id \in Ids(d) |-> d.x[id]]

\* A value that was promoted is in a node that holds values, and its consumer is a task.
IsPromotion(d, m) ==
    /\ d.promotions[m] = [consumer |-> d.promotions[m].consumer, x |-> d.promotions[m].x]
    /\ m \in Ids(d) /\ d.nodes[m].kind = "value"
    /\ d.promotions[m].consumer \in Ids(d) /\ d.nodes[d.promotions[m].consumer].kind = "task"
PromotionsOK(d) ==
    /\ d.promotions = [m \in DOMAIN d.promotions |-> d.promotions[m]]
    /\ \A m \in DOMAIN d.promotions : IsPromotion(d, m)
DocOK(d) == IsDocument(d) /\ NodesOK(d) /\ EndsOK(d) /\ PlacesOK(d) /\ PromotionsOK(d)

\* What holds unless a rename has clipped a reference, or an inlined node was named.
InputRefsOK(d) ==
    \A id \in Ids(d) : d.nodes[id].arg.leaf.kind = "input" => d.nodes[id].arg.leaf.name \in d.inputs
OrderOK(d) ==
    /\ \A id \in Ids(d) : d.nodes[id].deps \subseteq Ids(d)
    /\ \A name \in DOMAIN d.groups : d.groups[name] \subseteq Ids(d)
    /\ \A name \in DOMAIN d.sets : d.sets[name] \subseteq Ids(d)

Kept(d, e) == DocOK(e) /\ (InputRefsOK(d) => InputRefsOK(e)) /\ (OrderOK(d) => OrderOK(e))

\* What a node waits for.
LEMMA DependenciesAre ==
    ASSUME NEW node, NEW s
    PROVE  s \in nodeDependencies(node) <=>
             \/ s \in node.deps
             \/ node.arg.leaf.kind = "node" /\ node.arg.leaf.name = s
BY DEF nodeDependencies, referencesIn, Literal, Null

\* A node can be given a number that is above those of all that it depends on.
Ranks(nodes, r) ==
    /\ r \in [DOMAIN nodes -> Nat]
    /\ \A t \in DOMAIN nodes : \A s \in nodeDependencies(nodes[t]) \cap DOMAIN nodes : r[s] < r[t]
Ranked(nodes) == \E r : Ranks(nodes, r)

\* Nothing new is waited for.
Fewer(nodes, left) ==
    /\ DOMAIN left \subseteq DOMAIN nodes
    /\ \A t \in DOMAIN left : \A s \in DOMAIN left : s \in nodeDependencies(left[t]) => s \in nodeDependencies(nodes[t])

LEMMA FewerOn ==
    ASSUME NEW nodes, NEW some, NEW left, Fewer(nodes, some), Fewer(some, left)
    PROVE  Fewer(nodes, left)
BY DEF Fewer

LEMMA FewerAreRanked ==
    ASSUME NEW nodes, NEW left, Ranked(nodes), Fewer(nodes, left)
    PROVE  Ranked(left)
<1>1. PICK r : Ranks(nodes, r)
  BY DEF Ranked
<1>2. PICK q : q = [id \in DOMAIN left |-> r[id]]
  OBVIOUS
<1>3. Ranks(left, q)
  BY <1>1, <1>2 DEF Ranks, Fewer
<1> QED BY <1>3 DEF Ranked

\* Nodes that each stand for another one, and wait for no more than it does.
LEMMA ImageIsRanked ==
    ASSUME NEW nodes, Ranked(nodes), NEW image, NEW f,
           \A t \in DOMAIN image : f[t] \in DOMAIN nodes,
           \A t, s \in DOMAIN image : s \in nodeDependencies(image[t]) => f[s] \in nodeDependencies(nodes[f[t]])
    PROVE  Ranked(image)
<1>1. PICK r : Ranks(nodes, r)
  BY DEF Ranked
<1>2. PICK q : q = [t \in DOMAIN image |-> r[f[t]]]
  OBVIOUS
<1>3. q \in [DOMAIN image -> Nat]
  BY <1>1, <1>2 DEF Ranks
<1>4. ASSUME NEW t \in DOMAIN image, NEW s \in nodeDependencies(image[t]) \cap DOMAIN image PROVE q[s] < q[t]
  <2>1. f[s] \in nodeDependencies(nodes[f[t]]) \cap DOMAIN nodes /\ f[t] \in DOMAIN nodes
    OBVIOUS
  <2>2. r[f[s]] < r[f[t]]
    BY <1>1, <2>1, Zenon DEF Ranks
  <2> QED BY <1>2, <2>2
<1>5. Ranks(image, q)
  BY <1>3, <1>4 DEF Ranks
<1> QED BY <1>5 DEF Ranked

LEMMA KeptOn ==
    ASSUME NEW d, NEW e, NEW f, Kept(d, e), Kept(e, f)
    PROVE  Kept(d, f)
BY DEF Kept

LEMMA Orderings ==
    /\ {} \in Ordering
    /\ \A ids \in Ordering : (\A id : ids \ {id} \in Ordering) /\ \A id \in Names : ids \cup {id} \in Ordering
    /\ \A ids \in Ordering : \A f : (\A id \in ids : f[id] \in Names) => {f[id] : id \in ids} \in Ordering
<1>1. {} \in Ordering
  BY FS_EmptySet DEF Ordering
<1>2. ASSUME NEW ids \in Ordering, NEW id
      PROVE  ids \ {id} \in Ordering /\ (id \in Names => ids \cup {id} \in Ordering)
  <2>1. IsFiniteSet(ids \ {id}) /\ IsFiniteSet(ids \cup {id})
    BY FS_Subset, FS_AddElement DEF Ordering
  <2> QED BY <2>1 DEF Ordering
<1>3. ASSUME NEW ids \in Ordering, NEW f, \A id \in ids : f[id] \in Names
      PROVE  {f[id] : id \in ids} \in Ordering
  BY <1>3, ImageIsFinite DEF Ordering
<1> QED BY <1>1, <1>2, <1>3

\* Promotions stand as long as their nodes do.
LEMMA PromotionsHold ==
    ASSUME NEW d, NEW e, PromotionsOK(d),
           e.promotions = [m \in DOMAIN e.promotions |-> e.promotions[m]],
           \A m \in DOMAIN e.promotions :
              /\ m \in DOMAIN d.promotions /\ e.promotions[m] = d.promotions[m]
              /\ m \in Ids(e) /\ d.promotions[m].consumer \in Ids(e),
           \A id \in Ids(d) \cap Ids(e) : e.nodes[id].kind = d.nodes[id].kind
    PROVE  PromotionsOK(e)
<1>1. ASSUME NEW m \in DOMAIN e.promotions PROVE IsPromotion(e, m)
  <2>1. IsPromotion(d, m)
    BY DEF PromotionsOK
  <2> QED BY <2>1 DEF IsPromotion
<1> QED BY <1>1 DEF PromotionsOK

\* An edit of nodes that stay.
LEMMA NodesKept ==
    ASSUME NEW d, DocOK(d), NEW nodes \in [Ids(d) -> GraphNode],
           \A id \in Ids(d) :
              /\ nodes[id].kind = d.nodes[id].kind
              /\ nodes[id].arg.leaf.kind = "node" => nodes[id].arg.leaf.name \in Ids(d) \cup {<<>>}
              /\ InputRefsOK(d) /\ nodes[id].arg.leaf.kind = "input" => nodes[id].arg.leaf.name \in d.inputs
              /\ OrderOK(d) => nodes[id].deps \subseteq Ids(d)
    PROVE  Kept(d, [d EXCEPT !.nodes = nodes]) /\ Ids([d EXCEPT !.nodes = nodes]) = Ids(d)
<1>1. PICK e : e = [d EXCEPT !.nodes = nodes]
  OBVIOUS
<1>2. /\ e.nodes = nodes /\ e.inputs = d.inputs /\ e.values = d.values /\ e.outputs = d.outputs
      /\ e.x = d.x /\ e.promotions = d.promotions /\ e.groups = d.groups /\ e.sets = d.sets
      /\ IsDocument(e)
  BY <1>1 DEF DocOK, IsDocument
<1>3. Ids(e) = Ids(d)
  BY <1>2 DEF Ids
<1>4. DocOK(e)
  <2>1. PromotionsOK(e)
    <3>1. PromotionsOK(d) /\ \A m \in DOMAIN d.promotions : m \in Ids(d) /\ d.promotions[m].consumer \in Ids(d)
      BY DEF DocOK, PromotionsOK, IsPromotion
    <3>2. e.promotions = [m \in DOMAIN e.promotions |-> e.promotions[m]]
      BY <1>2 DEF DocOK, PromotionsOK
    <3> QED BY <1>2, <1>3, <3>1, <3>2, PromotionsHold
  <2> QED BY <1>2, <1>3, <2>1 DEF DocOK, NodesOK, EndsOK, PlacesOK
<1>5. InputRefsOK(d) => InputRefsOK(e)
  BY <1>2, <1>3 DEF InputRefsOK
<1>6. OrderOK(d) => OrderOK(e)
  BY <1>2, <1>3 DEF OrderOK
<1> QED BY <1>1, <1>3, <1>4, <1>5, <1>6 DEF Kept

LEMMA ArgumentKept ==
    ASSUME NEW d, DocOK(d), NEW id \in Ids(d), NEW value \in Value,
           value.leaf.kind = "node" => value.leaf.name \in Ids(d) \cup {<<>>},
           InputRefsOK(d) /\ value.leaf.kind = "input" => value.leaf.name \in d.inputs
    PROVE  Kept(d, [d EXCEPT !.nodes[id].arg = value]) /\ Ids([d EXCEPT !.nodes[id].arg = value]) = Ids(d)
<1>1. PICK nodes : nodes = [d.nodes EXCEPT ![id].arg = value]
  OBVIOUS
<1>2. d.nodes \in [Ids(d) -> GraphNode]
  BY DEF DocOK, NodesOK
<1>3. /\ nodes \in [Ids(d) -> GraphNode] /\ nodes[id].arg = value
      /\ \A i \in Ids(d) : nodes[i].kind = d.nodes[i].kind /\ nodes[i].deps = d.nodes[i].deps
      /\ \A i \in Ids(d) \ {id} : nodes[i] = d.nodes[i]
  BY <1>1, <1>2 DEF GraphNode
<1>4. \A i \in Ids(d) :
        /\ nodes[i].arg.leaf.kind = "node" => nodes[i].arg.leaf.name \in Ids(d) \cup {<<>>}
        /\ InputRefsOK(d) /\ nodes[i].arg.leaf.kind = "input" => nodes[i].arg.leaf.name \in d.inputs
        /\ OrderOK(d) => nodes[i].deps \subseteq Ids(d)
  BY <1>3 DEF DocOK, NodesOK, InputRefsOK, OrderOK
<1>5. [d EXCEPT !.nodes = nodes] = [d EXCEPT !.nodes[id].arg = value]
  BY <1>1 DEF DocOK, IsDocument
<1> QED BY <1>3, <1>4, <1>5, NodesKept

LEMMA OrderingKept ==
    ASSUME NEW d, DocOK(d), NEW id \in Ids(d), NEW deps \in Ordering,
           deps \subseteq d.nodes[id].deps \cup Ids(d)
    PROVE  Kept(d, [d EXCEPT !.nodes[id].deps = deps]) /\ Ids([d EXCEPT !.nodes[id].deps = deps]) = Ids(d)
<1>1. PICK nodes : nodes = [d.nodes EXCEPT ![id].deps = deps]
  OBVIOUS
<1>2. d.nodes \in [Ids(d) -> GraphNode]
  BY DEF DocOK, NodesOK
<1>3. /\ nodes \in [Ids(d) -> GraphNode] /\ nodes[id].deps = deps
      /\ \A i \in Ids(d) : nodes[i].kind = d.nodes[i].kind /\ nodes[i].arg = d.nodes[i].arg
      /\ \A i \in Ids(d) \ {id} : nodes[i] = d.nodes[i]
  BY <1>1, <1>2 DEF GraphNode
<1>4. \A i \in Ids(d) :
        /\ nodes[i].arg.leaf.kind = "node" => nodes[i].arg.leaf.name \in Ids(d) \cup {<<>>}
        /\ InputRefsOK(d) /\ nodes[i].arg.leaf.kind = "input" => nodes[i].arg.leaf.name \in d.inputs
        /\ OrderOK(d) => nodes[i].deps \subseteq Ids(d)
  BY <1>3 DEF DocOK, NodesOK, InputRefsOK, OrderOK
<1>5. [d EXCEPT !.nodes = nodes] = [d EXCEPT !.nodes[id].deps = deps]
  BY <1>1 DEF DocOK, IsDocument
<1> QED BY <1>3, <1>4, <1>5, NodesKept

LEMMA FreshNodeId ==
    ASSUME NEW d, DocOK(d), Cardinality(Ids(d)) <= 2 * MaxNodes, NEW base \in Names
    PROVE  LET id == uniqueId(base, Ids(d))
           IN  id \in Names /\ id \notin Ids(d) /\ (base # <<>> => id # <<>>)
<1>1. IsFiniteSet(Ids(d)) /\ Cardinality(Ids(d)) \in Nat
  BY FS_CardinalityType DEF DocOK, NodesOK
<1>2. Cardinality(Ids(d)) <= Len(Numbers)
  BY <1>1, EditAssumption, NumbersAssumption
<1>3. STRING \subseteq Words /\ base \in Seq(Words)
  BY DEF Words, Names
<1> QED BY <1>1, <1>2, <1>3, UniqueIdIsFree DEF Names

LEMMA AddNodeKept ==
    ASSUME NEW d, DocOK(d), NEW base \in Names, Cardinality(Ids(d)) < MaxNodes
    PROVE  Kept(d, addCatalogNode(d, base))
<1>1. PICK id : id = uniqueId(base, Ids(d))
  OBVIOUS
<1>2. id \in Names /\ id \notin Ids(d)
  <2>1. Cardinality(Ids(d)) <= 2 * MaxNodes
    BY FS_CardinalityType, EditAssumption DEF DocOK, NodesOK
  <2> QED BY <1>1, <2>1, FreshNodeId
<1>3. PICK node : node = [kind |-> "task", arg |-> Plain(Literal), deps |-> {}]
  OBVIOUS
<1>4. node \in GraphNode /\ node.arg.leaf.kind = "literal" /\ node.deps = {} /\ node.kind = "task"
  BY <1>3, Orderings DEF GraphNode, Value, Leaf, Plain, Literal, Names
<1>5. PICK e : e = addCatalogNode(d, base)
  OBVIOUS
<1>6. /\ e.nodes = With(d.nodes, id, node) /\ e.inputs = d.inputs /\ e.values = d.values
      /\ e.outputs = d.outputs /\ e.promotions = d.promotions /\ e.groups = d.groups /\ e.sets = d.sets
      /\ e.x = With(d.x, id, 80 + (Cardinality(Ids(d)) % 3) * EDITOR_COLUMN_SPACING)
      /\ IsDocument(e)
  BY <1>1, <1>3, <1>5 DEF addCatalogNode, DocOK, IsDocument
<1>7. /\ Ids(e) = Ids(d) \cup {id} /\ e.nodes[id] = node /\ DOMAIN e.nodes = Ids(d) \cup {id}
      /\ \A i \in Ids(d) : e.nodes[i] = d.nodes[i]
  BY <1>2, <1>6 DEF Ids, With
<1>8. NodesOK(e)
  <2>1. IsFiniteSet(Ids(d) \cup {id})
    BY FS_AddElement DEF DocOK, NodesOK
  <2>2. e.nodes \in [Ids(e) -> GraphNode]
    BY <1>4, <1>6, <1>7 DEF DocOK, NodesOK, With
  <2> QED BY <1>2, <1>4, <1>7, <2>1, <2>2 DEF DocOK, NodesOK
<1>9. EndsOK(e)
  BY <1>6, <1>7 DEF DocOK, EndsOK
<1>10. PlacesOK(e)
  BY <1>6, <1>7 DEF DocOK, PlacesOK, With
<1>11. PromotionsOK(e)
  BY <1>6, <1>7 DEF DocOK, PromotionsOK, IsPromotion
<1>12. (InputRefsOK(d) => InputRefsOK(e)) /\ (OrderOK(d) => OrderOK(e))
  BY <1>4, <1>6, <1>7 DEF InputRefsOK, OrderOK
<1> QED BY <1>5, <1>6, <1>8, <1>9, <1>10, <1>11, <1>12 DEF Kept, DocOK

Promoted(d, nodes, x, promotions) == [d EXCEPT !.nodes = nodes, !.x = x, !.promotions = promotions]
LEMMA PromotedFields ==
    ASSUME NEW d, IsDocument(d), NEW nodes, NEW x, NEW promotions
    PROVE  LET e == Promoted(d, nodes, x, promotions)
           IN  /\ e.nodes = nodes /\ e.inputs = d.inputs /\ e.values = d.values
               /\ e.outputs = d.outputs /\ e.groups = d.groups /\ e.sets = d.sets
               /\ e.x = x /\ e.promotions = promotions /\ IsDocument(e)
<1>1. PICK e : e = [d EXCEPT !.nodes = nodes, !.x = x, !.promotions = promotions]
  OBVIOUS
<1>2. e = [nodes |-> nodes, inputs |-> d.inputs, values |-> d.values, outputs |-> d.outputs, x |-> x,
           promotions |-> promotions, groups |-> d.groups, sets |-> d.sets]
  BY <1>1 DEF IsDocument
<1>3. /\ e.nodes = nodes /\ e.inputs = d.inputs /\ e.values = d.values
      /\ e.outputs = d.outputs /\ e.groups = d.groups /\ e.sets = d.sets
      /\ e.x = x /\ e.promotions = promotions /\ IsDocument(e)
  BY <1>2 DEF IsDocument
<1> QED BY <1>1, <1>3, Zenon DEF Promoted

LEMMA MaterialIsNew ==
    ASSUME NEW d, DocOK(d), NEW id \in Ids(d), Cardinality(Ids(d)) <= MaxNodes
    PROVE  materialId(d, id) \in Names /\ materialId(d, id) \notin Ids(d) /\ materialId(d, id) # <<>>
<1>1. Cardinality(Ids(d)) <= 2 * MaxNodes
  BY FS_CardinalityType, EditAssumption DEF DocOK, NodesOK
<1>2. id \o <<"a">> \in Names /\ id \o <<"a">> # <<>>
  BY DEF DocOK, NodesOK, Names, Words
<1> QED BY <1>1, <1>2, FreshNodeId DEF materialId

\* The value of an argument moves into a new node.
LEMMA PromoteKept ==
    ASSUME NEW d, DocOK(d), NEW id \in Ids(d), d.nodes[id].kind = "task",
           Cardinality(Ids(d)) < MaxNodes
    PROVE  Kept(d, promoteNodeArgument(d, id))
<1>1. PICK m : m = materialId(d, id)
  OBVIOUS
<1>2. m \in Names /\ m \notin Ids(d) /\ m # <<>>
  <2>1. Cardinality(Ids(d)) <= MaxNodes
    BY FS_CardinalityType, EditAssumption DEF DocOK, NodesOK
  <2> QED BY <1>1, <2>1, MaterialIsNew
<1>3. PICK material : material = [kind |-> "value", arg |-> d.nodes[id].arg, deps |-> {}]
  OBVIOUS
<1>4. PICK consumer : consumer = [d.nodes[id] EXCEPT !.arg = Plain(NodeRef(m))]
  OBVIOUS
<1>5. d.nodes[id] \in GraphNode
  BY DEF DocOK, NodesOK
<1>6. /\ material \in GraphNode /\ material.kind = "value" /\ material.deps = {}
      /\ material.arg = d.nodes[id].arg
  BY <1>3, <1>5, Orderings DEF GraphNode
<1>7. /\ consumer \in GraphNode /\ consumer.kind = "task" /\ consumer.deps = d.nodes[id].deps
      /\ consumer.arg = Plain(NodeRef(m))
  BY <1>2, <1>4, <1>5 DEF GraphNode, Value, Leaf, Plain, NodeRef
<1>8. consumer.arg.leaf.kind = "node" /\ consumer.arg.leaf.name = m
  BY <1>7 DEF Plain, NodeRef
<1>9. PICK nodes : nodes = [d.nodes EXCEPT ![id].arg = Plain(NodeRef(m))]
  OBVIOUS
<1>10. /\ DOMAIN nodes = Ids(d) /\ nodes[id] = consumer
       /\ \A i \in Ids(d) \ {id} : nodes[i] = d.nodes[i]
  BY <1>4, <1>9 DEF DocOK, NodesOK
<1>11. PICK x : x = IF id \in DOMAIN d.x THEN d.x[id] ELSE 360
  OBVIOUS
<1>12. PICK e : e = promoteNodeArgument(d, id)
  OBVIOUS
<1>13. /\ e.nodes = With(nodes, m, material) /\ e.inputs = d.inputs /\ e.values = d.values
       /\ e.outputs = d.outputs /\ e.groups = d.groups /\ e.sets = d.sets
       /\ e.x = positionMaterialNode(d.x, id, x, m)
       /\ e.promotions = With(d.promotions, m, [consumer |-> id, x |-> x])
       /\ IsDocument(e)
  <2>1. PICK place, notes : /\ place = positionMaterialNode(d.x, id, x, m)
                            /\ notes = With(d.promotions, m, [consumer |-> id, x |-> x])
    OBVIOUS
  <2>2. PICK filled : filled = With(nodes, m, material)
    OBVIOUS
  <2>3. e = Promoted(d, filled, place, notes)
    BY <1>1, <1>3, <1>9, <1>11, <1>12, <2>1, <2>2 DEF promoteNodeArgument, Promoted
  <2>4. /\ e.nodes = filled /\ e.inputs = d.inputs /\ e.values = d.values
        /\ e.outputs = d.outputs /\ e.groups = d.groups /\ e.sets = d.sets
        /\ e.x = place /\ e.promotions = notes /\ IsDocument(e)
    <3>1. IsDocument(d)
      BY DEF DocOK
    <3> QED BY <2>3, <3>1, PromotedFields
  <2> QED BY <2>1, <2>2, <2>4
<1>14. /\ Ids(e) = Ids(d) \cup {m} /\ DOMAIN e.nodes = Ids(e)
       /\ e.nodes[m] = material /\ e.nodes[id] = consumer
       /\ \A i \in Ids(d) \ {id} : e.nodes[i] = d.nodes[i]
  BY <1>2, <1>10, <1>13 DEF Ids, With
<1>15. NodesOK(e)
  <2>1. IsFiniteSet(Ids(e)) /\ Ids(e) \in SUBSET Names
    BY <1>2, <1>14, FS_AddElement DEF DocOK, NodesOK
  <2>2. e.nodes \in [Ids(e) -> GraphNode]
    <3>1. e.nodes = [i \in Ids(e) |-> e.nodes[i]]
      BY <1>13, <1>14 DEF With
    <3>2. \A i \in Ids(e) : e.nodes[i] \in GraphNode
      BY <1>6, <1>7, <1>14 DEF DocOK, NodesOK
    <3> QED BY <3>1, <3>2
  <2>3. \A i \in Ids(e) : e.nodes[i].arg.leaf.kind = "node" => e.nodes[i].arg.leaf.name \in Ids(e) \cup {<<>>}
    BY <1>6, <1>8, <1>14 DEF DocOK, NodesOK
  <2> QED BY <2>1, <2>2, <2>3 DEF NodesOK
<1>16. EndsOK(e)
  BY <1>13, <1>14 DEF DocOK, EndsOK
<1>17. PlacesOK(e)
  BY <1>13, <1>14 DEF DocOK, PlacesOK, positionMaterialNode, With
<1>18. PromotionsOK(e)
  <2>1. /\ DOMAIN e.promotions = DOMAIN d.promotions \cup {m}
        /\ e.promotions[m] = [consumer |-> id, x |-> x]
        /\ \A k \in DOMAIN d.promotions \ {m} : e.promotions[k] = d.promotions[k]
        /\ e.promotions = [k \in DOMAIN e.promotions |-> e.promotions[k]]
    BY <1>13 DEF With
  <2>2. \A k \in DOMAIN d.promotions \ {m} : IsPromotion(e, k)
    BY <1>2, <1>7, <1>14, <2>1 DEF DocOK, PromotionsOK, IsPromotion
  <2>3. IsPromotion(e, m)
    BY <1>6, <1>7, <1>14, <2>1 DEF IsPromotion
  <2> QED BY <2>1, <2>2, <2>3 DEF PromotionsOK
<1>19. InputRefsOK(d) => InputRefsOK(e)
  BY <1>6, <1>8, <1>13, <1>14 DEF InputRefsOK
<1>20. OrderOK(d) => OrderOK(e)
  BY <1>6, <1>7, <1>13, <1>14 DEF OrderOK
<1> QED BY <1>12, <1>13, <1>15, <1>16, <1>17, <1>18, <1>19, <1>20 DEF Kept, DocOK

\* A value that nothing refers to goes; an ordering, group or selection may name it.
IsNamed(d, id) ==
    \/ \E i \in Ids(d) : id \in d.nodes[i].deps
    \/ \E name \in DOMAIN d.groups : id \in d.groups[name]
    \/ \E name \in DOMAIN d.sets : id \in d.sets[name]

LEMMA DeleteMaterialKept ==
    ASSUME NEW d, DocOK(d), NEW material \in Ids(d), d.nodes[material].kind = "value",
           ~Refers(d, NodeRef(material))
    PROVE  LET e == deleteMaterialNode(d, material)
           IN  /\ DocOK(e) /\ (InputRefsOK(d) => InputRefsOK(e))
               /\ (OrderOK(d) /\ ~IsNamed(d, material) => OrderOK(e))
               /\ Ids(e) = Ids(d) \ {material}
<1>1. PICK e : e = deleteMaterialNode(d, material)
  OBVIOUS
<1>2. PICK x : x = Without(d.x, {material})
  OBVIOUS
<1>3. /\ e.nodes = Without(d.nodes, {material}) /\ e.inputs = d.inputs /\ e.values = d.values
      /\ e.outputs = d.outputs /\ e.groups = d.groups /\ e.sets = d.sets
      /\ e.promotions = Without(d.promotions, {material})
      /\ e.x = x \/ \E c, y : e.x = [x EXCEPT ![c] = y]
      /\ IsDocument(e)
  BY <1>1, <1>2 DEF deleteMaterialNode, DocOK, IsDocument
<1>4. /\ Ids(e) = Ids(d) \ {material} /\ DOMAIN e.nodes = Ids(e)
      /\ e.nodes = [i \in Ids(e) |-> e.nodes[i]]
      /\ \A i \in Ids(e) : e.nodes[i] = d.nodes[i]
  BY <1>3 DEF Ids, Without, Restrict
<1>5. \A i \in Ids(d) : d.nodes[i].arg.leaf.kind = "node" => d.nodes[i].arg.leaf.name # material
  <2> SUFFICES ASSUME NEW i \in Ids(d), d.nodes[i].arg.leaf.kind = "node",
                      d.nodes[i].arg.leaf.name = material
               PROVE  FALSE
    OBVIOUS
  <2>1. d.nodes[i].arg.leaf \in Leaf
    BY DEF DocOK, NodesOK, GraphNode, Value
  <2>2. d.nodes[i].arg.leaf = NodeRef(material)
    BY <2>1 DEF Leaf, NodeRef
  <2>3. NodeRef(material) \in referencesIn(d.nodes[i].arg)
    BY <2>2 DEF referencesIn, NodeRef, Literal, Null
  <2> QED BY <2>3 DEF Refers
<1>6. \A name \in DOMAIN d.outputs : d.outputs[name] # material
  BY DEF Refers
<1>7. NodesOK(e)
  <2>1. IsFiniteSet(Ids(e))
    BY <1>4, FS_Subset DEF DocOK, NodesOK
  <2>2. \A i \in Ids(e) : e.nodes[i] \in GraphNode
    BY <1>4 DEF DocOK, NodesOK
  <2>3. e.nodes \in [Ids(e) -> GraphNode]
    BY <1>4, <2>2
  <2> QED BY <1>4, <1>5, <2>1, <2>3 DEF DocOK, NodesOK
<1>8. EndsOK(e)
  BY <1>3, <1>4, <1>6 DEF DocOK, EndsOK
<1>9. PlacesOK(e)
  <2>1. DOMAIN x = Ids(d) \ {material} /\ x = [i \in Ids(d) \ {material} |-> x[i]]
    BY <1>2 DEF DocOK, PlacesOK, Without, Restrict
  <2>2. \A c, y : LET z == [x EXCEPT ![c] = y] IN z = [i \in Ids(d) \ {material} |-> z[i]]
    BY <2>1
  <2> QED BY <1>3, <1>4, <2>1, <2>2 DEF PlacesOK
<1>10. PromotionsOK(e)
  <2>1. \A m \in DOMAIN d.promotions : IsPromotion(d, m)
    BY DEF DocOK, PromotionsOK
  <2>2. /\ e.promotions = [m \in DOMAIN e.promotions |-> e.promotions[m]]
        /\ \A m \in DOMAIN e.promotions :
             m \in DOMAIN d.promotions /\ m # material /\ e.promotions[m] = d.promotions[m]
    BY <1>3 DEF Without, Restrict
  <2>3. \A m \in DOMAIN e.promotions : m \in Ids(e) /\ d.promotions[m].consumer \in Ids(e)
    BY <1>4, <2>1, <2>2 DEF IsPromotion
  <2> QED BY <1>4, <2>2, <2>3, PromotionsHold DEF DocOK
<1>11. InputRefsOK(d) => InputRefsOK(e)
  BY <1>3, <1>4 DEF InputRefsOK
<1>12. OrderOK(d) /\ ~IsNamed(d, material) => OrderOK(e)
  BY <1>3, <1>4 DEF OrderOK, IsNamed
<1> QED BY <1>1, <1>3, <1>4, <1>7, <1>8, <1>9, <1>10, <1>11, <1>12 DEF DocOK

LEMMA InlineKept ==
    ASSUME NEW d, DocOK(d), NEW material \in Ids(d), NEW targets, CanInline(d, material, targets)
    PROVE  LET e == inlineMaterialNode(d, material, targets)
           IN  /\ DocOK(e) /\ (InputRefsOK(d) => InputRefsOK(e))
               /\ (OrderOK(d) /\ ~(material \notin Ids(e) /\ IsNamed(d, material)) => OrderOK(e))
               /\ Ids(e) \subseteq Ids(d)
<1>1. PICK leaf : leaf = NodeRef(material)
  OBVIOUS
<1>2. PICK value : value = d.nodes[material].arg
  OBVIOUS
<1>3. PICK nodes : nodes = [id \in Ids(d) |->
                              IF id \in targets THEN [d.nodes[id] EXCEPT !.arg = Inlined(@, leaf, value)]
                              ELSE d.nodes[id]]
  OBVIOUS
<1>4. PICK next : next = [d EXCEPT !.nodes = nodes]
  OBVIOUS
<1>5. DOMAIN d.nodes = Ids(d) /\ \A id \in Ids(d) : d.nodes[id] \in GraphNode
  BY DEF DocOK, NodesOK
<1>6. value \in Value /\ value.leaf \in Leaf
  BY <1>2, <1>5 DEF GraphNode, Value
<1>7. ASSUME NEW id \in Ids(d)
      PROVE  /\ nodes[id] \in GraphNode
             /\ nodes[id].kind = d.nodes[id].kind /\ nodes[id].deps = d.nodes[id].deps
             /\ nodes[id].arg.leaf \in {d.nodes[id].arg.leaf, value.leaf}
  <2>1. PICK old : old = d.nodes[id].arg
    OBVIOUS
  <2>2. Inlined(old, leaf, value) \in Value /\ Inlined(old, leaf, value).leaf \in {old.leaf, value.leaf}
    <3>1. old \in Value
      BY <1>5, <2>1 DEF GraphNode
    <3> QED BY <1>6, <3>1 DEF Inlined, List, Value
  <2>3. CASE id \in targets
    <3>1. nodes[id] = [d.nodes[id] EXCEPT !.arg = Inlined(old, leaf, value)]
      BY <1>3, <1>5, <2>1, <2>3
    <3> QED BY <1>5, <2>1, <2>2, <3>1 DEF GraphNode
  <2>4. CASE id \notin targets
    BY <1>3, <1>5, <2>4
  <2> QED BY <2>3, <2>4
<1>8. nodes \in [Ids(d) -> GraphNode]
  BY <1>3, <1>5, <1>7
<1>9. Kept(d, next)
  <2>1. \A id \in Ids(d) :
          /\ nodes[id].arg.leaf.kind = "node" => nodes[id].arg.leaf.name \in Ids(d) \cup {<<>>}
          /\ InputRefsOK(d) /\ nodes[id].arg.leaf.kind = "input" => nodes[id].arg.leaf.name \in d.inputs
          /\ OrderOK(d) => nodes[id].deps \subseteq Ids(d)
    BY <1>2, <1>7 DEF DocOK, NodesOK, InputRefsOK, OrderOK
  <2> QED BY <1>4, <1>7, <1>8, <2>1, NodesKept
<1>10. next.nodes = nodes /\ next.groups = d.groups /\ next.sets = d.sets /\ Ids(next) = Ids(d)
  BY <1>4, <1>8 DEF DocOK, IsDocument, Ids
<1>11. PICK e : e = inlineMaterialNode(d, material, targets)
  OBVIOUS
<1>12. e = IF Refers(next, leaf) THEN next ELSE deleteMaterialNode(next, material)
  BY <1>1, <1>2, <1>3, <1>4, <1>11 DEF inlineMaterialNode
<1>13. CASE Refers(next, leaf)
  <2>1. e = next
    BY <1>12, <1>13
  <2>2. Kept(d, e) /\ Ids(e) = Ids(d) /\ material \in Ids(e)
    BY <1>9, <1>10, <2>1
  <2> QED BY <1>11, <2>2 DEF Kept
<1>14. CASE ~Refers(next, leaf)
  <2>1. next.nodes[material].kind = "value"
    BY <1>7, <1>10 DEF CanInline
  <2>2. IsNamed(next, material) => IsNamed(d, material)
    BY <1>7, <1>10 DEF IsNamed
  <2>3. DocOK(next)
    BY <1>9 DEF Kept
  <2>4. /\ DocOK(e) /\ (InputRefsOK(next) => InputRefsOK(e))
        /\ (OrderOK(next) /\ ~IsNamed(next, material) => OrderOK(e))
        /\ Ids(e) = Ids(next) \ {material}
    BY <1>1, <1>10, <1>12, <1>14, <2>1, <2>3, DeleteMaterialKept
  <2> QED BY <1>9, <1>10, <1>11, <2>2, <2>4 DEF Kept
<1> QED BY <1>13, <1>14

LEMMA RenameKept ==
    ASSUME NEW d, DocOK(d), NEW from \in Ids(d), NEW to \in Names, to \notin Ids(d)
    PROVE  /\ Kept(d, renameNode(d, from, to)) /\ Ids(renameNode(d, from, to)) = (Ids(d) \ {from}) \cup {to}
           /\ to # <<>> /\ OrderOK(d) /\ Ranked(d.nodes) => Ranked(renameNode(d, from, to).nodes)
<1> DEFINE Leaf1(l) == IF l = NodeRef(from) THEN NodeRef(to) ELSE l
           Node1(node) == [node EXCEPT !.arg.leaf = Leaf1(@), !.deps = {Moved(s, from, to) : s \in @}]
           Members(f) == [name \in DOMAIN f |-> {Moved(id, from, to) : id \in f[name]}]
<1>1. PICK named : named = Renamed(d.nodes, from, to)
  OBVIOUS
<1>2. /\ DOMAIN named = (Ids(d) \ {from}) \cup {to} /\ named[to] = d.nodes[from]
      /\ \A id \in Ids(d) \ {from} : named[id] = d.nodes[id]
  <2>1. from \in DOMAIN d.nodes /\ to \notin DOMAIN d.nodes /\ DOMAIN d.nodes = Ids(d)
    BY DEF Ids
  <2> QED BY <1>1, <2>1 DEF Renamed
<1>3. PICK e : e = renameNode(d, from, to)
  OBVIOUS
<1>4. /\ e.nodes = [id \in DOMAIN named |-> Node1(named[id])]
      /\ e.inputs = d.inputs /\ e.values = d.values
      /\ e.outputs = [name \in DOMAIN d.outputs |-> Moved(d.outputs[name], from, to)]
      /\ e.x = Renamed(d.x, from, to)
      /\ e.promotions = RenamedPromotions(d.promotions, from, to)
      /\ e.groups = Members(d.groups) /\ e.sets = Members(d.sets)
      /\ IsDocument(e)
  BY <1>1, <1>3 DEF renameNode, renameSidecarReferences, renameGraphReferences, DocOK, IsDocument, Ids
<1>5. Ids(e) = (Ids(d) \ {from}) \cup {to} /\ DOMAIN e.nodes = Ids(e)
  BY <1>2, <1>4 DEF Ids
<1>6. \A id \in Ids(d) : Moved(id, from, to) \in Ids(e) /\ Moved(id, from, to) \in Names
  BY <1>5 DEF Moved, DocOK, NodesOK
<1>7. ASSUME NEW node \in GraphNode
      PROVE  /\ Node1(node) \in GraphNode /\ Node1(node).kind = node.kind
             /\ Node1(node).arg.leaf = Leaf1(node.arg.leaf)
             /\ Node1(node).deps = {Moved(s, from, to) : s \in node.deps}
  <2>1. Leaf1(node.arg.leaf) \in Leaf
    BY DEF GraphNode, Value, Leaf, NodeRef
  <2>2. {Moved(s, from, to) : s \in node.deps} \in Ordering
    <3>1. PICK deps \in Ordering : deps = node.deps
      BY DEF GraphNode
    <3>2. PICK moved : moved = [s \in deps |-> Moved(s, from, to)]
      OBVIOUS
    <3>3. {moved[s] : s \in deps} = {Moved(s, from, to) : s \in node.deps}
      BY <3>1, <3>2
    <3>4. \A s \in deps : moved[s] \in Names
      BY <3>2 DEF Moved, Ordering
    <3> QED BY <3>3, <3>4, Orderings
  <2> HIDE DEF Leaf1
  <2> QED BY <2>1, <2>2 DEF GraphNode, Value
<1>8. ASSUME NEW l \in Leaf
      PROVE  /\ Leaf1(l).kind = l.kind
             /\ Leaf1(l).name = IF l.kind = "node" THEN Moved(l.name, from, to) ELSE l.name
  BY DEF Leaf, NodeRef, Moved
<1>9. ASSUME NEW id \in Ids(e)
      PROVE  \E o \in Ids(d) : /\ e.nodes[id] = Node1(d.nodes[o]) /\ d.nodes[o] \in GraphNode
                               /\ d.nodes[o].arg.leaf \in Leaf
                               /\ d.nodes[o].arg.leaf.kind = "node" => d.nodes[o].arg.leaf.name \in Ids(d) \cup {<<>>}
  <2>1. id \in DOMAIN named /\ e.nodes[id] = Node1(named[id])
    BY <1>2, <1>4, <1>5
  <2>2. \E o \in Ids(d) : named[id] = d.nodes[o]
    BY <1>2, <2>1
  <2>3. \A o \in Ids(d) : /\ d.nodes[o] \in GraphNode /\ d.nodes[o].arg.leaf \in Leaf
                          /\ d.nodes[o].arg.leaf.kind = "node" => d.nodes[o].arg.leaf.name \in Ids(d) \cup {<<>>}
    BY DEF DocOK, NodesOK, GraphNode, Value
  <2> HIDE DEF Node1
  <2> QED BY <2>1, <2>2, <2>3
<1> HIDE DEF Node1, Leaf1
<1>10. NodesOK(e)
  <2>1. IsFiniteSet(Ids(e)) /\ Ids(e) \in SUBSET Names
    <3>1. IsFiniteSet(Ids(d)) /\ Ids(d) \in SUBSET Names
      BY DEF DocOK, NodesOK
    <3>2. IsFiniteSet(Ids(d) \ {from})
      BY <3>1, FS_RemoveElement
    <3> QED BY <1>5, <3>1, <3>2, FS_AddElement
  <2>2. e.nodes \in [Ids(e) -> GraphNode]
    <3>1. \A id \in Ids(e) : e.nodes[id] \in GraphNode
      BY <1>7, <1>9
    <3>2. e.nodes = [id \in Ids(e) |-> e.nodes[id]]
      BY <1>4, <1>5
    <3> QED BY <3>1, <3>2
  <2>3. ASSUME NEW id \in Ids(e), e.nodes[id].arg.leaf.kind = "node"
        PROVE  e.nodes[id].arg.leaf.name \in Ids(e) \cup {<<>>}
    <3>1. PICK o \in Ids(d) : /\ e.nodes[id] = Node1(d.nodes[o]) /\ d.nodes[o] \in GraphNode
                              /\ d.nodes[o].arg.leaf \in Leaf
                              /\ d.nodes[o].arg.leaf.kind = "node" => d.nodes[o].arg.leaf.name \in Ids(d) \cup {<<>>}
      BY <1>9
    <3>2. PICK l \in Leaf : l = d.nodes[o].arg.leaf
      BY <3>1
    <3>3. e.nodes[id].arg.leaf = Leaf1(l)
      BY <1>7, <3>1, <3>2
    <3>4. l.kind = "node" /\ e.nodes[id].arg.leaf.name = Moved(l.name, from, to) /\ l.name \in Ids(d) \cup {<<>>}
      BY <1>8, <2>3, <3>1, <3>2, <3>3
    <3> QED BY <1>5, <1>6, <3>4 DEF Moved
  <2> QED BY <2>1, <2>2, <2>3 DEF NodesOK
<1>11. EndsOK(e)
  BY <1>4, <1>6 DEF DocOK, EndsOK
<1>12. PlacesOK(e)
  <2>1. DOMAIN d.x = Ids(d)
    BY DEF DocOK, PlacesOK
  <2> QED BY <1>4, <1>5, <2>1 DEF PlacesOK, Renamed
<1>13. ASSUME NEW id \in Ids(d)
       PROVE  e.nodes[Moved(id, from, to)].kind = d.nodes[id].kind
  <2>1. e.nodes[Moved(id, from, to)] = Node1(d.nodes[id])
    BY <1>2, <1>4 DEF Moved
  <2> QED BY <1>7, <2>1 DEF DocOK, NodesOK
<1>14. PromotionsOK(e)
  <2>1. PICK moved : moved = [m \in DOMAIN d.promotions |->
                                IF d.promotions[m].consumer = from
                                THEN [d.promotions[m] EXCEPT !.consumer = to] ELSE d.promotions[m]]
    OBVIOUS
  <2>2. \A m \in DOMAIN d.promotions :
          /\ m \in Ids(d) /\ d.nodes[m].kind = "value" /\ d.promotions[m].consumer \in Ids(d)
          /\ d.nodes[d.promotions[m].consumer].kind = "task"
          /\ d.promotions[m] = [consumer |-> d.promotions[m].consumer, x |-> d.promotions[m].x]
    BY DEF DocOK, PromotionsOK, IsPromotion
  <2>3. /\ DOMAIN moved = DOMAIN d.promotions /\ moved = [m \in DOMAIN moved |-> moved[m]]
        /\ \A m \in DOMAIN moved : /\ moved[m] = [consumer |-> moved[m].consumer, x |-> moved[m].x]
                                   /\ moved[m].consumer = Moved(d.promotions[m].consumer, from, to)
    <3>1. DOMAIN moved = DOMAIN d.promotions /\ moved = [m \in DOMAIN moved |-> moved[m]]
      BY <2>1
    <3>2. ASSUME NEW m \in DOMAIN moved
          PROVE  /\ moved[m] = [consumer |-> moved[m].consumer, x |-> moved[m].x]
                 /\ moved[m].consumer = Moved(d.promotions[m].consumer, from, to)
      <4>1. PICK note : note = d.promotions[m] /\ note = [consumer |-> note.consumer, x |-> note.x]
        BY <2>2, <3>1
      <4>2. moved[m] = IF note.consumer = from THEN [note EXCEPT !.consumer = to] ELSE note
        BY <2>1, <3>1, <4>1
      <4>3. moved[m] = [consumer |-> Moved(note.consumer, from, to), x |-> note.x]
        BY <4>1, <4>2 DEF Moved
      <4> QED BY <4>1, <4>3
    <3> QED BY <3>1, <3>2
  <2>4. e.promotions = IF from \in DOMAIN moved THEN Renamed(moved, from, to) ELSE moved
    BY <1>4, <2>1, <2>3 DEF RenamedPromotions
  <2>5. to \notin DOMAIN moved
    BY <2>2, <2>3
  <2>6. /\ e.promotions = [m \in DOMAIN e.promotions |-> e.promotions[m]]
        /\ \A k \in DOMAIN e.promotions :
             \E m \in DOMAIN moved : k = Moved(m, from, to) /\ e.promotions[k] = moved[m]
    <3>1. CASE from \in DOMAIN moved
      <4>1. e.promotions = Renamed(moved, from, to)
        BY <2>4, <3>1
      <4>2. /\ DOMAIN e.promotions = (DOMAIN moved \ {from}) \cup {to}
            /\ e.promotions = [m \in DOMAIN e.promotions |-> e.promotions[m]]
            /\ e.promotions[to] = moved[from]
            /\ \A k \in DOMAIN moved \ {from} : e.promotions[k] = moved[k]
        BY <2>5, <3>1, <4>1 DEF Renamed
      <4> QED BY <3>1, <4>2 DEF Moved
    <3>2. CASE from \notin DOMAIN moved
      BY <2>3, <2>4, <3>2 DEF Moved
    <3> QED BY <3>1, <3>2
  <2>7. ASSUME NEW k \in DOMAIN e.promotions PROVE IsPromotion(e, k)
    <3>1. PICK m \in DOMAIN moved : k = Moved(m, from, to) /\ e.promotions[k] = moved[m]
      BY <2>6
    <3>2. m \in Ids(d) /\ d.nodes[m].kind = "value" /\ d.promotions[m].consumer \in Ids(d)
          /\ d.nodes[d.promotions[m].consumer].kind = "task"
      BY <2>2, <2>3
    <3>3. e.promotions[k] = [consumer |-> e.promotions[k].consumer, x |-> e.promotions[k].x]
          /\ e.promotions[k].consumer = Moved(d.promotions[m].consumer, from, to)
      BY <2>3, <3>1
    <3> QED BY <1>6, <1>13, <3>1, <3>2, <3>3 DEF IsPromotion
  <2> QED BY <2>6, <2>7 DEF PromotionsOK
<1>15. InputRefsOK(d) => InputRefsOK(e)
  <2> SUFFICES ASSUME InputRefsOK(d), NEW id \in Ids(e), e.nodes[id].arg.leaf.kind = "input"
               PROVE  e.nodes[id].arg.leaf.name \in e.inputs
    BY DEF InputRefsOK
  <2>1. PICK o \in Ids(d) : e.nodes[id] = Node1(d.nodes[o]) /\ d.nodes[o] \in GraphNode
                            /\ d.nodes[o].arg.leaf \in Leaf
    BY <1>9
  <2>2. e.nodes[id].arg.leaf = Leaf1(d.nodes[o].arg.leaf)
    BY <1>7, <2>1
  <2> QED BY <1>4, <1>8, <2>1, <2>2 DEF InputRefsOK
<1>16. OrderOK(d) => OrderOK(e)
  <2> SUFFICES ASSUME OrderOK(d) PROVE OrderOK(e)
    OBVIOUS
  <2>1. ASSUME NEW id \in Ids(e) PROVE e.nodes[id].deps \subseteq Ids(e)
    <3>1. PICK o \in Ids(d) : e.nodes[id] = Node1(d.nodes[o]) /\ d.nodes[o] \in GraphNode
      BY <1>9
    <3>2. e.nodes[id].deps = {Moved(s, from, to) : s \in d.nodes[o].deps} /\ d.nodes[o].deps \subseteq Ids(d)
      BY <1>7, <3>1 DEF OrderOK
    <3> QED BY <1>6, <3>2
  <2>2. (\A name \in DOMAIN e.groups : e.groups[name] \subseteq Ids(e))
        /\ \A name \in DOMAIN e.sets : e.sets[name] \subseteq Ids(e)
    BY <1>4, <1>6 DEF OrderOK
  <2> QED BY <2>1, <2>2 DEF OrderOK
<1>17. ASSUME to # <<>>, OrderOK(d), Ranked(d.nodes) PROVE Ranked(e.nodes)
  <2>1. PICK back : back = [id \in Ids(e) |-> IF id = to THEN from ELSE id]
    OBVIOUS
  <2>2. \A id \in Ids(e) : back[id] \in Ids(d) /\ e.nodes[id] = Node1(d.nodes[back[id]])
    BY <1>2, <1>4, <1>5, <2>1
  <2>3. ASSUME NEW t \in Ids(e), NEW s \in Ids(e), s \in nodeDependencies(e.nodes[t])
        PROVE  back[s] \in nodeDependencies(d.nodes[back[t]])
    <3>1. PICK node \in GraphNode : node = d.nodes[back[t]] /\ e.nodes[t] = Node1(node) /\ node.deps \subseteq Ids(d)
                                    /\ (node.arg.leaf.kind = "node" => node.arg.leaf.name \in Ids(d) \cup {<<>>})
      BY <1>17, <2>2 DEF DocOK, NodesOK, OrderOK
    <3>2. CASE s \in e.nodes[t].deps
      <4>1. PICK u \in node.deps : s = Moved(u, from, to)
        BY <1>7, <3>1, <3>2
      <4>2. back[s] = u
        BY <2>1, <3>1, <4>1 DEF Moved
      <4> QED BY <3>1, <4>2, DependenciesAre
    <3>3. CASE e.nodes[t].arg.leaf.kind = "node" /\ e.nodes[t].arg.leaf.name = s
      <4>1. PICK leaf \in Leaf : leaf = node.arg.leaf
        BY DEF GraphNode, Value
      <4>2. e.nodes[t].arg.leaf = Leaf1(leaf)
        BY <1>7, <3>1, <4>1
      <4>3. leaf.kind = "node" /\ s = Moved(leaf.name, from, to)
        BY <1>8, <3>3, <4>2
      <4>4. back[s] = leaf.name
        BY <1>17, <2>1, <3>1, <4>1, <4>3 DEF Moved
      <4> QED BY <3>1, <4>1, <4>3, <4>4, DependenciesAre
    <3> QED BY <2>3, <3>2, <3>3, DependenciesAre
  <2>4. DOMAIN e.nodes = Ids(e) /\ DOMAIN d.nodes = Ids(d)
    BY <1>5 DEF Ids
  <2> HIDE DEF Node1
  <2> QED BY <1>17, <2>2, <2>3, <2>4, ImageIsRanked
<1> HIDE DEF Node1, Members
<1> QED BY <1>3, <1>4, <1>5, <1>10, <1>11, <1>12, <1>14, <1>15, <1>16, <1>17 DEF Kept, DocOK

LEMMA ReferenceGoes ==
    ASSUME NEW value \in Value, NEW leaf \in Leaf, leaf # Null
    PROVE  /\ WithoutReference(value, leaf) \in Value
           /\ WithoutReference(value, leaf).leaf \in {value.leaf, Null} \ {leaf}
<1>1. Null \in Leaf /\ Absent \in Value /\ List(Null) \in Value /\ Absent.leaf = Null /\ List(Null).leaf = Null
  BY DEF Null, Absent, List, Value, Leaf, Names
<1> HIDE DEF Null, Absent, List
<1> QED BY <1>1 DEF WithoutReference

LEMMA DeleteKept ==
    ASSUME NEW d, DocOK(d), NEW gone \in Ids(d)
    PROVE  /\ Kept(d, deleteNode(d, gone)) /\ Ids(deleteNode(d, gone)) = Ids(d) \ {gone}
           /\ Fewer(d.nodes, deleteNode(d, gone).nodes)
<1>1. PICK e : e = deleteNode(d, gone)
  OBVIOUS
<1>2. PICK named : named = {m \in DOMAIN d.promotions : gone \in {m, d.promotions[m].consumer}}
  OBVIOUS
<1>3. PICK without : without = {name \in DOMAIN d.outputs : d.outputs[name] = gone}
  OBVIOUS
<1> DEFINE Members(f) == [name \in DOMAIN f |-> f[name] \ {gone}]
<1>4. /\ e.nodes = [id \in Ids(d) \ {gone} |-> deleteNodeReferences(d.nodes[id], gone)]
      /\ e.inputs = d.inputs /\ e.values = d.values
      /\ e.outputs = Without(d.outputs, without)
      /\ e.x = Without(d.x, {gone})
      /\ e.promotions = Without(d.promotions, named)
      /\ e.groups = Members(d.groups)
      /\ \E names : e.sets = Without(Members(d.sets), names)
      /\ IsDocument(e)
  BY <1>1, <1>2, <1>3 DEF deleteNode, deleteSidecarReferences, DocOK, IsDocument
<1>5. Ids(e) = Ids(d) \ {gone} /\ DOMAIN e.nodes = Ids(e)
  BY <1>4 DEF Ids
<1>6. ASSUME NEW id \in Ids(e)
      PROVE  /\ e.nodes[id] \in GraphNode /\ e.nodes[id].kind = d.nodes[id].kind
             /\ e.nodes[id].deps = d.nodes[id].deps \ {gone}
             /\ e.nodes[id].arg.leaf \in {d.nodes[id].arg.leaf, Null} \ {NodeRef(gone)}
  <2>1. PICK node \in GraphNode : node = d.nodes[id]
    BY <1>5 DEF DocOK, NodesOK
  <2>2. NodeRef(gone) \in Leaf /\ NodeRef(gone) # Null
    BY DEF NodeRef, Null, Leaf, DocOK, NodesOK
  <2>3. PICK arg : arg = WithoutReference(node.arg, NodeRef(gone))
    OBVIOUS
  <2>4. arg \in Value /\ arg.leaf \in {node.arg.leaf, Null} \ {NodeRef(gone)}
    BY <2>2, <2>3, ReferenceGoes DEF GraphNode
  <2>5. e.nodes[id] = [node EXCEPT !.deps = node.deps \ {gone}, !.arg = arg]
    BY <1>4, <1>5, <2>1, <2>3 DEF deleteNodeReferences
  <2>6. /\ node.kind \in {"task", "value"} /\ node.deps \ {gone} \in Ordering
        /\ node = [kind |-> node.kind, arg |-> node.arg, deps |-> node.deps]
    BY <2>1, Orderings DEF GraphNode
  <2>7. e.nodes[id] = [kind |-> node.kind, arg |-> arg, deps |-> node.deps \ {gone}]
    BY <2>5, <2>6
  <2>8. e.nodes[id] \in GraphNode
    BY <2>4, <2>6, <2>7 DEF GraphNode
  <2> QED BY <2>1, <2>4, <2>7, <2>8
<1>7. NodesOK(e)
  <2>1. IsFiniteSet(Ids(e)) /\ Ids(e) \in SUBSET Names
    BY <1>5, FS_RemoveElement DEF DocOK, NodesOK
  <2>2. e.nodes \in [Ids(e) -> GraphNode]
    BY <1>4, <1>5, <1>6
  <2>3. ASSUME NEW id \in Ids(e), e.nodes[id].arg.leaf.kind = "node"
        PROVE  e.nodes[id].arg.leaf.name \in Ids(e) \cup {<<>>}
    <3>1. PICK leaf \in Leaf : leaf = d.nodes[id].arg.leaf
      BY <1>5 DEF DocOK, NodesOK, GraphNode, Value
    <3>2. e.nodes[id].arg.leaf = leaf /\ leaf # NodeRef(gone)
      BY <1>6, <2>3, <3>1 DEF Null
    <3>3. leaf.name # gone
      BY <2>3, <3>2 DEF Leaf, NodeRef
    <3>4. leaf.name \in Ids(d) \cup {<<>>}
      BY <1>5, <2>3, <3>1, <3>2 DEF DocOK, NodesOK
    <3> QED BY <1>5, <3>2, <3>3, <3>4
  <2> QED BY <2>1, <2>2, <2>3 DEF NodesOK
<1>8. EndsOK(e)
  BY <1>3, <1>4, <1>5 DEF DocOK, EndsOK, Without, Restrict
<1>9. PlacesOK(e)
  BY <1>4, <1>5 DEF DocOK, PlacesOK, Without, Restrict
<1>10. PromotionsOK(e)
  <2>1. \A m \in DOMAIN d.promotions : IsPromotion(d, m)
    BY DEF DocOK, PromotionsOK
  <2>2. /\ e.promotions = [m \in DOMAIN e.promotions |-> e.promotions[m]]
        /\ \A m \in DOMAIN e.promotions :
             m \in DOMAIN d.promotions /\ gone \notin {m, d.promotions[m].consumer}
             /\ e.promotions[m] = d.promotions[m]
    BY <1>2, <1>4 DEF Without, Restrict
  <2>3. \A m \in DOMAIN e.promotions : m \in Ids(e) /\ d.promotions[m].consumer \in Ids(e)
    BY <1>5, <2>1, <2>2 DEF IsPromotion
  <2> QED BY <1>6, <2>2, <2>3, PromotionsHold DEF DocOK
<1>11. InputRefsOK(d) => InputRefsOK(e)
  <2> SUFFICES ASSUME InputRefsOK(d), NEW id \in Ids(e), e.nodes[id].arg.leaf.kind = "input"
               PROVE  e.nodes[id].arg.leaf.name \in e.inputs
    BY DEF InputRefsOK
  <2>1. e.nodes[id].arg.leaf = d.nodes[id].arg.leaf /\ id \in Ids(d)
    BY <1>5, <1>6 DEF Null
  <2> QED BY <1>4, <2>1 DEF InputRefsOK
<1>12. OrderOK(d) => OrderOK(e)
  <2> SUFFICES ASSUME OrderOK(d) PROVE OrderOK(e)
    OBVIOUS
  <2>1. \A id \in Ids(e) : e.nodes[id].deps \subseteq Ids(e)
    BY <1>5, <1>6 DEF OrderOK
  <2>2. \A name \in DOMAIN e.groups : e.groups[name] \subseteq Ids(e)
    BY <1>4, <1>5 DEF OrderOK
  <2>3. \A name \in DOMAIN e.sets : e.sets[name] \subseteq Ids(e)
    BY <1>4, <1>5 DEF OrderOK, Without, Restrict
  <2> QED BY <2>1, <2>2, <2>3 DEF OrderOK
<1>13. Fewer(d.nodes, e.nodes)
  <2>1. ASSUME NEW t \in Ids(e), NEW s, s \in nodeDependencies(e.nodes[t])
        PROVE  s \in nodeDependencies(d.nodes[t])
    <3>1. \/ s \in d.nodes[t].deps
          \/ e.nodes[t].arg.leaf = d.nodes[t].arg.leaf /\ d.nodes[t].arg.leaf.kind = "node"
             /\ d.nodes[t].arg.leaf.name = s
      BY <1>6, <2>1, DependenciesAre DEF Null
    <3> QED BY <3>1, DependenciesAre
  <2> QED BY <1>5, <2>1 DEF Fewer, Ids
<1> QED BY <1>1, <1>4, <1>5, <1>7, <1>8, <1>9, <1>10, <1>11, <1>12, <1>13 DEF Kept, DocOK

\* Nodes are deleted one after the other: what is left when some are gone.
NodesGo(h, d, gone) ==
    /\ h[{}] = d /\ h[gone] = removeNodes(d, gone)
    /\ \A s \in SUBSET gone : s # {} => \E x \in s : h[s] = deleteNode(h[s \ {x}], x)

LEMMA NodesGoInTurn ==
    ASSUME NEW d, NEW gone, IsFiniteSet(gone)
    PROVE  \E h : NodesGo(h, d, gone)
<1> DEFINE First(s) == CHOOSE x \in s : TRUE
           Body(h, s) == IF s = {} THEN d ELSE deleteNode(h[s \ {First(s)}], First(s))
           Small(n) == {t \in SUBSET gone : Cardinality(t) <= n}
           Folds(h, n) == h = [s \in Small(n) |-> Body(h, s)]
           H == {n \in Nat : \E h : Folds(h, n)}
<1>1. ASSUME NEW s \in SUBSET gone
      PROVE  /\ IsFiniteSet(s) /\ Cardinality(s) \in Nat
             /\ s # {} => /\ First(s) \in s /\ Cardinality(s) > 0
                         /\ Cardinality(s \ {First(s)}) = Cardinality(s) - 1
  <2>1. IsFiniteSet(s) /\ Cardinality(s) \in Nat
    BY FS_Subset, FS_CardinalityType
  <2>2. s # {} => First(s) \in s
    OBVIOUS
  <2>3. s # {} => Cardinality(s) # 0
    BY <2>1, FS_EmptySet
  <2> HIDE DEF First
  <2>4. s # {} => Cardinality(s \ {First(s)}) = Cardinality(s) - 1
    BY <2>1, <2>2, FS_RemoveElement
  <2> QED BY <2>1, <2>2, <2>3, <2>4
<1>2. \A h : Body(h, {}) = d
  OBVIOUS
<1>3. \A s : s # {} => \A h, k : h[s \ {First(s)}] = k[s \ {First(s)}] => Body(h, s) = Body(k, s)
  <2> HIDE DEF First
  <2> QED OBVIOUS
<1>4. \A h : \A s : s # {} => Body(h, s) = deleteNode(h[s \ {First(s)}], First(s))
  OBVIOUS
<1>5. removeNodes(d, gone) = (CHOOSE h : h = [s \in SUBSET gone |-> Body(h, s)])[gone]
  BY DEF removeNodes, FoldSet, MapThenFoldSet
<1> HIDE DEF First, Body
<1>6. /\ \A n \in Nat : Small(n) \subseteq Small(n + 1)
      /\ \A s \in Small(0) : s = {}
      /\ \A n \in Nat : \A s \in Small(n + 1) : s # {} => s \ {First(s)} \in Small(n)
  <2>1. \A s \in SUBSET gone : Cardinality(s) \in Nat /\ (s # {} => Cardinality(s) > 0)
    BY <1>1
  <2>2. \A s \in SUBSET gone : s # {} => Cardinality(s \ {First(s)}) = Cardinality(s) - 1
    BY <1>1
  <2>3. \A n \in Nat : Small(n) \subseteq Small(n + 1)
    BY <2>1
  <2>4. \A s \in Small(0) : s = {}
    BY <2>1
  <2>5. \A n \in Nat : \A s \in Small(n + 1) : s # {} => s \ {First(s)} \in Small(n)
    BY <2>1, <2>2
  <2> QED BY <2>3, <2>4, <2>5
<1> HIDE DEF Small
<1>7. 0 \in H
  <2>1. PICK h : h = [s \in Small(0) |-> d]
    OBVIOUS
  <2>2. Folds(h, 0)
    BY <1>2, <1>6, <2>1
  <2> QED BY <2>2
<1>8. ASSUME NEW n \in Nat, n \in H PROVE n + 1 \in H
  <2>1. PICK h : Folds(h, n)
    BY <1>8
  <2>2. PICK k : k = [s \in Small(n + 1) |-> Body(h, s)]
    OBVIOUS
  <2>3. \A s \in Small(n) : s \in Small(n + 1) /\ k[s] = h[s]
    BY <1>6, <2>1, <2>2
  <2>4. \A s \in Small(n + 1) : Body(h, s) = Body(k, s)
    BY <1>2, <1>3, <1>6, <2>3
  <2>5. Folds(k, n + 1)
    BY <2>2, <2>4
  <2> HIDE DEF Folds
  <2> QED BY <2>5
<1>9. \A n \in Nat : n \in H
  <2> HIDE DEF H
  <2> QED BY <1>7, <1>8, AllNumbers
<1>10. PICK n \in Nat : n = Cardinality(gone)
  BY <1>1
<1>11. \A s \in SUBSET gone : Cardinality(s) <= n
  BY <1>10, FS_Subset
<1>12. Small(n) = SUBSET gone
  BY <1>11 DEF Small
<1>13. \E h : h = [s \in SUBSET gone |-> Body(h, s)]
  BY <1>9, <1>12
<1>14. PICK h : h = [s \in SUBSET gone |-> Body(h, s)] /\ removeNodes(d, gone) = h[gone]
  BY <1>5, <1>13
<1>15. \A s \in SUBSET gone : h[s] = Body(h, s)
  BY <1>14
<1>16. h[{}] = d
  BY <1>2, <1>15
<1>17. ASSUME NEW s \in SUBSET gone, s # {}
       PROVE  \E x \in s : h[s] = deleteNode(h[s \ {x}], x)
  BY <1>1, <1>4, <1>15, <1>17
<1> QED BY <1>14, <1>16, <1>17 DEF NodesGo

LEMMA NodesKeptInTurn ==
    ASSUME NEW d, DocOK(d), NEW gone \in SUBSET Ids(d)
    PROVE  /\ Kept(d, removeNodes(d, gone)) /\ Ids(removeNodes(d, gone)) = Ids(d) \ gone
           /\ Fewer(d.nodes, removeNodes(d, gone).nodes)
<1>1. IsFiniteSet(gone)
  BY FS_Subset DEF DocOK, NodesOK
<1>2. PICK h : NodesGo(h, d, gone)
  BY <1>1, NodesGoInTurn
<1> DEFINE Done(s) == Kept(d, h[s]) /\ Ids(h[s]) = Ids(d) \ s /\ Fewer(d.nodes, h[s].nodes)
           H == {n \in Nat : \A s \in SUBSET gone : Cardinality(s) = n => Done(s)}
<1>3. \A s \in SUBSET gone : IsFiniteSet(s) /\ Cardinality(s) \in Nat
  BY <1>1, FS_Subset, FS_CardinalityType
<1>4. Done({})
  BY <1>2 DEF Kept, NodesGo, Fewer
<1>5. ASSUME NEW s \in SUBSET gone, NEW x \in s, h[s] = deleteNode(h[s \ {x}], x), Done(s \ {x})
      PROVE  Done(s)
  <2>1. PICK e : e = h[s \ {x}]
    OBVIOUS
  <2>2. Kept(d, e) /\ DocOK(e) /\ x \in Ids(e) /\ Ids(e) = Ids(d) \ (s \ {x})
    BY <1>5, <2>1 DEF Kept
  <2>3. Kept(e, h[s]) /\ Ids(h[s]) = Ids(e) \ {x} /\ Fewer(e.nodes, h[s].nodes)
    <3>1. PICK f : f = deleteNode(e, x)
      OBVIOUS
    <3>2. Kept(e, f) /\ Ids(f) = Ids(e) \ {x} /\ Fewer(e.nodes, f.nodes)
      BY <2>2, <3>1, DeleteKept
    <3>3. h[s] = f
      BY <1>5, <2>1, <3>1
    <3> QED BY <3>2, <3>3
  <2>4. Kept(d, h[s]) /\ Fewer(d.nodes, h[s].nodes)
    BY <1>5, <2>1, <2>2, <2>3, KeptOn, FewerOn
  <2> QED BY <2>2, <2>3, <2>4
<1> HIDE DEF Done
<1>6. 0 \in H
  BY <1>3, <1>4, FS_EmptySet
<1>7. ASSUME NEW n \in Nat, n \in H PROVE n + 1 \in H
  <2> SUFFICES ASSUME NEW s \in SUBSET gone, Cardinality(s) = n + 1 PROVE Done(s)
    OBVIOUS
  <2>1. IsFiniteSet(s) /\ s # {}
    BY <1>3, FS_EmptySet
  <2>2. PICK x \in s : h[s] = deleteNode(h[s \ {x}], x)
    BY <1>2, <2>1 DEF NodesGo
  <2>3. Cardinality(s \ {x}) = n
    <3>1. Cardinality(s \ {x}) = Cardinality(s) - 1
      BY <2>1, FS_RemoveElement, Zenon
    <3> QED BY <3>1
  <2>4. Done(s \ {x})
    BY <1>7, <2>3
  <2> QED BY <1>5, <2>2, <2>4
<1>8. \A n \in Nat : n \in H
  <2> HIDE DEF H
  <2> QED BY <1>6, <1>7, AllNumbers
<1>9. Done(gone)
  BY <1>3, <1>8
<1> QED BY <1>2, <1>9 DEF Done, NodesGo

\* An edge on the canvas.
IsEdge(d, edge) ==
    /\ edge.kind \in {"data", "order"} /\ edge.leaf \in Leaf /\ edge.leaf # Null
    /\ edge.target \in Ids(d)

LEMMA EdgeKept ==
    ASSUME NEW d, DocOK(d), NEW edge, IsEdge(d, edge)
    PROVE  /\ Kept(d, removeEdge(d, edge)) /\ Ids(removeEdge(d, edge)) = Ids(d)
           /\ Fewer(d.nodes, removeEdge(d, edge).nodes)
<1>1. PICK id \in Ids(d) : id = edge.target
  BY DEF IsEdge
<1>2. PICK node \in GraphNode : node = d.nodes[id]
  BY DEF DocOK, NodesOK
<1>3. CASE edge.kind = "data"
  <2>1. PICK value : value = WithoutReference(node.arg, edge.leaf)
    OBVIOUS
  <2>2. value \in Value /\ value.leaf \in {node.arg.leaf, Null}
    BY <1>2, <2>1, ReferenceGoes DEF IsEdge, GraphNode
  <2>3. /\ value.leaf.kind = "node" => value.leaf.name \in Ids(d) \cup {<<>>}
        /\ InputRefsOK(d) /\ value.leaf.kind = "input" => value.leaf.name \in d.inputs
    BY <1>2, <2>2 DEF DocOK, NodesOK, InputRefsOK, Null
  <2>4. removeEdge(d, edge) = [d EXCEPT !.nodes[id].arg = value]
    BY <1>1, <1>2, <1>3, <2>1 DEF removeEdge, disconnectNodeInput, DocOK, IsDocument, NodesOK
  <2>5. Fewer(d.nodes, [d EXCEPT !.nodes[id].arg = value].nodes)
    <3>1. PICK changed : changed = [node EXCEPT !.arg = value]
      OBVIOUS
    <3>2. changed.arg = value /\ changed.deps = node.deps
      BY <3>1 DEF GraphNode
    <3>3. [d EXCEPT !.nodes[id].arg = value].nodes = [d.nodes EXCEPT ![id] = changed]
      BY <1>2, <3>1 DEF DocOK, IsDocument, NodesOK
    <3>4. \A s : s \in nodeDependencies(changed) => s \in nodeDependencies(node)
      BY <2>2, <3>2, DependenciesAre DEF Null
    <3> QED BY <1>2, <3>3, <3>4 DEF Fewer
  <2> QED BY <2>2, <2>3, <2>4, <2>5, ArgumentKept
<1>4. CASE edge.kind = "order"
  <2>1. PICK deps : deps = node.deps \ {edge.leaf.name}
    OBVIOUS
  <2>2. deps \in Ordering /\ deps \subseteq d.nodes[id].deps \cup Ids(d)
    BY <1>2, <2>1, Orderings DEF GraphNode
  <2>3. removeEdge(d, edge) = [d EXCEPT !.nodes[id].deps = deps]
    BY <1>1, <1>2, <1>4, <2>1 DEF removeEdge, disconnectOrderingDependency, DocOK, IsDocument, NodesOK
  <2>4. Fewer(d.nodes, [d EXCEPT !.nodes[id].deps = deps].nodes)
    <3>1. PICK changed : changed = [node EXCEPT !.deps = deps]
      OBVIOUS
    <3>2. changed.arg = node.arg /\ changed.deps = deps
      BY <3>1 DEF GraphNode
    <3>3. [d EXCEPT !.nodes[id].deps = deps].nodes = [d.nodes EXCEPT ![id] = changed]
      BY <1>2, <3>1 DEF DocOK, IsDocument, NodesOK
    <3>4. \A s : s \in nodeDependencies(changed) => s \in nodeDependencies(node)
      BY <2>1, <3>2, DependenciesAre
    <3> QED BY <1>2, <3>3, <3>4 DEF Fewer
  <2> QED BY <2>2, <2>3, <2>4, OrderingKept
<1> QED BY <1>3, <1>4 DEF IsEdge

\* Edges are removed one after the other: what is left when some are gone.
EdgesGo(h, d, edgeSet) ==
    /\ h[{}] = d /\ h[edgeSet] = removeEdges(d, edgeSet)
    /\ \A s \in SUBSET edgeSet : s # {} => \E x \in s : h[s] = removeEdge(h[s \ {x}], x)

LEMMA EdgesGoInTurn ==
    ASSUME NEW d, NEW edgeSet, IsFiniteSet(edgeSet)
    PROVE  \E h : EdgesGo(h, d, edgeSet)
<1> DEFINE First(s) == CHOOSE x \in s : TRUE
           Body(h, s) == IF s = {} THEN d ELSE removeEdge(h[s \ {First(s)}], First(s))
           Small(n) == {t \in SUBSET edgeSet : Cardinality(t) <= n}
           Folds(h, n) == h = [s \in Small(n) |-> Body(h, s)]
           H == {n \in Nat : \E h : Folds(h, n)}
<1>1. ASSUME NEW s \in SUBSET edgeSet
      PROVE  /\ IsFiniteSet(s) /\ Cardinality(s) \in Nat
             /\ s # {} => /\ First(s) \in s /\ Cardinality(s) > 0
                         /\ Cardinality(s \ {First(s)}) = Cardinality(s) - 1
  <2>1. IsFiniteSet(s) /\ Cardinality(s) \in Nat
    BY FS_Subset, FS_CardinalityType
  <2>2. s # {} => First(s) \in s
    OBVIOUS
  <2>3. s # {} => Cardinality(s) # 0
    BY <2>1, FS_EmptySet
  <2> HIDE DEF First
  <2>4. s # {} => Cardinality(s \ {First(s)}) = Cardinality(s) - 1
    BY <2>1, <2>2, FS_RemoveElement
  <2> QED BY <2>1, <2>2, <2>3, <2>4
<1>2. \A h : Body(h, {}) = d
  OBVIOUS
<1>3. \A s : s # {} => \A h, k : h[s \ {First(s)}] = k[s \ {First(s)}] => Body(h, s) = Body(k, s)
  <2> HIDE DEF First
  <2> QED OBVIOUS
<1>4. \A h : \A s : s # {} => Body(h, s) = removeEdge(h[s \ {First(s)}], First(s))
  OBVIOUS
<1>5. removeEdges(d, edgeSet) = (CHOOSE h : h = [s \in SUBSET edgeSet |-> Body(h, s)])[edgeSet]
  BY DEF removeEdges, FoldSet, MapThenFoldSet
<1> HIDE DEF First, Body
<1>6. /\ \A n \in Nat : Small(n) \subseteq Small(n + 1)
      /\ \A s \in Small(0) : s = {}
      /\ \A n \in Nat : \A s \in Small(n + 1) : s # {} => s \ {First(s)} \in Small(n)
  <2>1. \A s \in SUBSET edgeSet : Cardinality(s) \in Nat /\ (s # {} => Cardinality(s) > 0)
    BY <1>1
  <2>2. \A s \in SUBSET edgeSet : s # {} => Cardinality(s \ {First(s)}) = Cardinality(s) - 1
    BY <1>1
  <2>3. \A n \in Nat : Small(n) \subseteq Small(n + 1)
    BY <2>1
  <2>4. \A s \in Small(0) : s = {}
    BY <2>1
  <2>5. \A n \in Nat : \A s \in Small(n + 1) : s # {} => s \ {First(s)} \in Small(n)
    BY <2>1, <2>2
  <2> QED BY <2>3, <2>4, <2>5
<1> HIDE DEF Small
<1>7. 0 \in H
  <2>1. PICK h : h = [s \in Small(0) |-> d]
    OBVIOUS
  <2>2. Folds(h, 0)
    BY <1>2, <1>6, <2>1
  <2> QED BY <2>2
<1>8. ASSUME NEW n \in Nat, n \in H PROVE n + 1 \in H
  <2>1. PICK h : Folds(h, n)
    BY <1>8
  <2>2. PICK k : k = [s \in Small(n + 1) |-> Body(h, s)]
    OBVIOUS
  <2>3. \A s \in Small(n) : s \in Small(n + 1) /\ k[s] = h[s]
    BY <1>6, <2>1, <2>2
  <2>4. \A s \in Small(n + 1) : Body(h, s) = Body(k, s)
    BY <1>2, <1>3, <1>6, <2>3
  <2>5. Folds(k, n + 1)
    BY <2>2, <2>4
  <2> HIDE DEF Folds
  <2> QED BY <2>5
<1>9. \A n \in Nat : n \in H
  <2> HIDE DEF H
  <2> QED BY <1>7, <1>8, AllNumbers
<1>10. PICK n \in Nat : n = Cardinality(edgeSet)
  BY <1>1
<1>11. \A s \in SUBSET edgeSet : Cardinality(s) <= n
  BY <1>10, FS_Subset
<1>12. Small(n) = SUBSET edgeSet
  BY <1>11 DEF Small
<1>13. \E h : h = [s \in SUBSET edgeSet |-> Body(h, s)]
  BY <1>9, <1>12
<1>14. PICK h : h = [s \in SUBSET edgeSet |-> Body(h, s)] /\ removeEdges(d, edgeSet) = h[edgeSet]
  BY <1>5, <1>13
<1>15. \A s \in SUBSET edgeSet : h[s] = Body(h, s)
  BY <1>14
<1>16. h[{}] = d
  BY <1>2, <1>15
<1>17. ASSUME NEW s \in SUBSET edgeSet, s # {}
       PROVE  \E x \in s : h[s] = removeEdge(h[s \ {x}], x)
  BY <1>1, <1>4, <1>15, <1>17
<1> QED BY <1>14, <1>16, <1>17 DEF EdgesGo

LEMMA EdgesKeptInTurn ==
    ASSUME NEW d, DocOK(d), NEW edgeSet, IsFiniteSet(edgeSet), \A edge \in edgeSet : IsEdge(d, edge)
    PROVE  /\ Kept(d, removeEdges(d, edgeSet)) /\ Ids(removeEdges(d, edgeSet)) = Ids(d)
           /\ Fewer(d.nodes, removeEdges(d, edgeSet).nodes)
<1>1. PICK h : EdgesGo(h, d, edgeSet)
  BY EdgesGoInTurn
<1> DEFINE Done(s) == Kept(d, h[s]) /\ Ids(h[s]) = Ids(d) /\ Fewer(d.nodes, h[s].nodes)
           H == {n \in Nat : \A s \in SUBSET edgeSet : Cardinality(s) = n => Done(s)}
<1>2. \A s \in SUBSET edgeSet : IsFiniteSet(s) /\ Cardinality(s) \in Nat
  BY FS_Subset, FS_CardinalityType
<1>3. Done({})
  BY <1>1 DEF Kept, EdgesGo, Fewer
<1>4. ASSUME NEW s \in SUBSET edgeSet, NEW x \in s, h[s] = removeEdge(h[s \ {x}], x), Done(s \ {x})
      PROVE  Done(s)
  <2>1. PICK e : e = h[s \ {x}]
    OBVIOUS
  <2>2. Kept(d, e) /\ DocOK(e) /\ Ids(e) = Ids(d) /\ IsEdge(e, x)
    BY <1>4, <2>1 DEF Kept, IsEdge
  <2>3. Kept(e, h[s]) /\ Ids(h[s]) = Ids(e) /\ Fewer(e.nodes, h[s].nodes)
    BY <1>4, <2>1, <2>2, EdgeKept
  <2>4. Kept(d, h[s]) /\ Fewer(d.nodes, h[s].nodes)
    BY <1>4, <2>1, <2>2, <2>3, KeptOn, FewerOn
  <2> QED BY <2>2, <2>3, <2>4
<1> HIDE DEF Done
<1>5. 0 \in H
  BY <1>2, <1>3, FS_EmptySet
<1>6. ASSUME NEW n \in Nat, n \in H PROVE n + 1 \in H
  <2> SUFFICES ASSUME NEW s \in SUBSET edgeSet, Cardinality(s) = n + 1 PROVE Done(s)
    OBVIOUS
  <2>1. IsFiniteSet(s) /\ s # {}
    BY <1>2, FS_EmptySet
  <2>2. PICK x \in s : h[s] = removeEdge(h[s \ {x}], x)
    BY <1>1, <2>1 DEF EdgesGo
  <2>3. Cardinality(s \ {x}) = n
    <3>1. Cardinality(s \ {x}) = Cardinality(s) - 1
      BY <2>1, FS_RemoveElement, Zenon
    <3> QED BY <3>1
  <2>4. Done(s \ {x})
    BY <1>6, <2>3
  <2> QED BY <1>4, <2>2, <2>4
<1>7. \A n \in Nat : n \in H
  <2> HIDE DEF H
  <2> QED BY <1>5, <1>6, AllNumbers
<1>8. Done(edgeSet)
  BY <1>2, <1>7
<1> QED BY <1>1, <1>8 DEF Done, EdgesGo

LEMMA CanvasEdgesAre ==
    ASSUME NEW d, DocOK(d)
    PROVE  IsFiniteSet(CanvasEdges(d)) /\ \A edge \in CanvasEdges(d) : IsEdge(d, edge)
<1>1. ASSUME NEW id \in Ids(d)
      PROVE  /\ IsFiniteSet(referenceEdges(d, id)) /\ \A edge \in referenceEdges(d, id) : IsEdge(d, edge)
             /\ IsFiniteSet(orderingEdges(d, id)) /\ \A edge \in orderingEdges(d, id) : IsEdge(d, edge)
  <2>1. PICK node \in GraphNode : node = d.nodes[id]
    BY DEF DocOK, NodesOK
  <2>2. node.arg.leaf \in Leaf
    BY DEF GraphNode, Value
  <2>3. referenceEdges(d, id) \in {{}, {Edge("data", node.arg.leaf, id)}}
    BY <2>1 DEF referenceEdges, referencesIn
  <2>4. IsFiniteSet(referenceEdges(d, id))
    <3>1. PICK edge : edge = Edge("data", node.arg.leaf, id)
      OBVIOUS
    <3>2. IsFiniteSet({edge}) /\ referenceEdges(d, id) \in {{}, {edge}}
      BY <2>3, <3>1, FS_Singleton
    <3> QED BY <3>2, FS_EmptySet
  <2>5. \A edge \in referenceEdges(d, id) : IsEdge(d, edge)
    BY <2>1, <2>2 DEF referenceEdges, referencesIn, Edge, IsEdge
  <2>6. node.deps \in Ordering
    BY DEF GraphNode
  <2>7. IsFiniteSet(orderingEdges(d, id))
    <3>1. PICK f : f = [s \in node.deps |-> Edge("order", NodeRef(s), id)]
      OBVIOUS
    <3>2. orderingEdges(d, id) = {f[s] : s \in node.deps}
      BY <2>1, <3>1 DEF orderingEdges
    <3> QED BY <2>6, <3>2, ImageIsFinite DEF Ordering
  <2>8. \A edge \in orderingEdges(d, id) : IsEdge(d, edge)
    <3>1. \A s \in node.deps : NodeRef(s) \in Leaf /\ NodeRef(s) # Null
      BY <2>6 DEF Ordering, NodeRef, Leaf, Null
    <3> QED BY <2>1, <3>1 DEF orderingEdges, Edge, IsEdge
  <2> QED BY <2>4, <2>5, <2>7, <2>8
<1>2. PICK f : f = [id \in Ids(d) |-> referenceEdges(d, id) \cup orderingEdges(d, id)]
  OBVIOUS
<1>3. \A id \in Ids(d) : IsFiniteSet(f[id])
  BY <1>1, <1>2, FS_Union
<1>4. CanvasEdges(d) = UNION {f[id] : id \in Ids(d)}
  BY <1>2 DEF CanvasEdges
<1>5. IsFiniteSet({f[id] : id \in Ids(d)})
  BY ImageIsFinite DEF DocOK, NodesOK
<1>6. \A s \in {f[id] : id \in Ids(d)} : IsFiniteSet(s)
  BY <1>3
<1>7. IsFiniteSet(CanvasEdges(d))
  <2>1. PICK sets : sets = {f[id] : id \in Ids(d)}
    OBVIOUS
  <2> QED BY <1>4, <1>5, <1>6, <2>1, FS_UNION
<1>8. \A edge \in CanvasEdges(d) : IsEdge(d, edge)
  BY <1>1 DEF CanvasEdges
<1> QED BY <1>7, <1>8

\* An edit that leaves the nodes alone.
LEMMA RestKept ==
    ASSUME NEW d, DocOK(d), NEW e, IsDocument(e), e.nodes = d.nodes, EndsOK(e),
           e.x = [id \in Ids(d) |-> e.x[id]], e.promotions = d.promotions \/ PromotionsOK(e),
           d.inputs \subseteq e.inputs,
           OrderOK(d) => \A name \in DOMAIN e.groups : e.groups[name] \subseteq Ids(d),
           OrderOK(d) => \A name \in DOMAIN e.sets : e.sets[name] \subseteq Ids(d)
    PROVE  Kept(d, e) /\ Ids(e) = Ids(d)
<1>1. Ids(e) = Ids(d)
  BY DEF Ids
<1>2. NodesOK(e)
  BY <1>1 DEF DocOK, NodesOK
<1>3. PlacesOK(e)
  BY <1>1 DEF PlacesOK
<1>4. PromotionsOK(e)
  <2>1. CASE e.promotions = d.promotions
    <3>1. PromotionsOK(d) /\ \A m \in DOMAIN d.promotions : m \in Ids(d) /\ d.promotions[m].consumer \in Ids(d)
      BY DEF DocOK, PromotionsOK, IsPromotion
    <3>2. e.promotions = [m \in DOMAIN e.promotions |-> e.promotions[m]]
      BY <2>1 DEF DocOK, PromotionsOK
    <3> QED BY <1>1, <2>1, <3>1, <3>2, PromotionsHold
  <2> QED BY <2>1
<1>5. InputRefsOK(d) => InputRefsOK(e)
  BY <1>1 DEF InputRefsOK
<1>6. OrderOK(d) => OrderOK(e)
  BY <1>1 DEF OrderOK
<1> QED BY <1>1, <1>2, <1>3, <1>4, <1>5, <1>6 DEF Kept, DocOK

LEMMA InputIsNew ==
    ASSUME NEW d, DocOK(d), Cardinality(d.inputs) < MaxInputs, NEW base \in Names
    PROVE  /\ uniqueId(base, d.inputs) \in Names
           /\ IsFiniteSet(d.inputs \cup {uniqueId(base, d.inputs)})
<1>1. IsFiniteSet(d.inputs) /\ Cardinality(d.inputs) \in Nat
  BY FS_CardinalityType DEF DocOK, EndsOK
<1>2. Cardinality(d.inputs) <= Len(Numbers)
  BY <1>1, EditAssumption, NumbersAssumption
<1>3. STRING \subseteq Words /\ base \in Seq(Words)
  BY DEF Words, Names
<1>4. uniqueId(base, d.inputs) \in Names
  BY <1>1, <1>2, <1>3, UniqueIdIsFree, Zenon DEF Names
<1> QED BY <1>1, <1>4, FS_AddElement

LEMMA AddInputKept ==
    ASSUME NEW d, DocOK(d), Cardinality(d.inputs) < MaxInputs
    PROVE  /\ Kept(d, addGraphInput(d)) /\ Ids(addGraphInput(d)) = Ids(d)
           /\ addGraphInput(d).nodes = d.nodes
<1>1. PICK name : name = uniqueId(<<"input">>, d.inputs)
  OBVIOUS
<1>2. name \in Names /\ IsFiniteSet(d.inputs \cup {name})
  <2>1. <<"input">> \in Names
    BY DEF Names, Words
  <2> QED BY <1>1, <2>1, InputIsNew
<1>3. PICK e : e = addGraphInput(d)
  OBVIOUS
<1>4. PICK shift : /\ e.x = [id \in DOMAIN d.x |-> d.x[id] + shift]
                   /\ e.promotions = [m \in DOMAIN d.promotions |-> [d.promotions[m] EXCEPT !.x = @ + shift]]
                   /\ e.nodes = d.nodes /\ e.outputs = d.outputs /\ e.groups = d.groups /\ e.sets = d.sets
                   /\ e.inputs = d.inputs \cup {name} /\ e.values = d.values \cup {name}
                   /\ IsDocument(e)
  <2>1. PICK missing : missing = 320 - Leftmost(Range(d.x))
    OBVIOUS
  <2>2. PICK shift : shift = IF d.inputs = {} /\ missing > 0 THEN missing ELSE 0
    OBVIOUS
  <2>3. e = [d EXCEPT !.inputs = @ \cup {name}, !.values = @ \cup {name},
                      !.x = [id \in DOMAIN d.x |-> d.x[id] + shift],
                      !.promotions = [m \in DOMAIN d.promotions |-> [d.promotions[m] EXCEPT !.x = @ + shift]]]
    BY <1>1, <1>3, <2>1, <2>2 DEF addGraphInput
  <2> QED BY <2>3 DEF DocOK, IsDocument
<1>5. EndsOK(e)
  <2>1. Ids(e) = Ids(d)
    BY <1>4 DEF Ids
  <2> QED BY <1>2, <1>4, <2>1 DEF DocOK, EndsOK
<1>6. PromotionsOK(e)
  <2>1. DOMAIN e.promotions = DOMAIN d.promotions /\ e.promotions = [m \in DOMAIN e.promotions |-> e.promotions[m]]
    BY <1>4
  <2>2. ASSUME NEW m \in DOMAIN e.promotions PROVE IsPromotion(e, m)
    <3>1. IsPromotion(d, m)
      BY <2>1 DEF DocOK, PromotionsOK
    <3>2. e.promotions[m] = [d.promotions[m] EXCEPT !.x = @ + shift]
      BY <1>4
    <3>3. e.promotions[m] = [consumer |-> e.promotions[m].consumer, x |-> e.promotions[m].x]
          /\ e.promotions[m].consumer = d.promotions[m].consumer
      BY <3>1, <3>2 DEF IsPromotion
    <3> QED BY <1>4, <3>1, <3>3 DEF IsPromotion, Ids
  <2> QED BY <2>1, <2>2 DEF PromotionsOK
<1>7. e.x = [id \in Ids(d) |-> e.x[id]]
  BY <1>4 DEF DocOK, PlacesOK
<1> QED BY <1>3, <1>4, <1>5, <1>6, <1>7, RestKept DEF OrderOK

LEMMA AddAssetKept ==
    ASSUME NEW d, DocOK(d), Cardinality(d.inputs) < MaxInputs, NEW base \in Names
    PROVE  /\ Kept(d, addAssetInputs(d, <<base>>)) /\ Ids(addAssetInputs(d, <<base>>)) = Ids(d)
           /\ addAssetInputs(d, <<base>>).nodes = d.nodes
<1> DEFINE Taken(f, name) == [f EXCEPT !.inputs = @ \cup {uniqueId(name, f.inputs)},
                                       !.values = @ \cup {uniqueId(name, f.inputs)}]
<1>1. PICK bases : bases = <<base>>
  OBVIOUS
<1> DEFINE Is(h) == h = [s \in SUBSET (DOMAIN bases) |-> IF s = {} THEN d ELSE Taken(h[s \ {Max(s)}], bases[Max(s)])]
<1>2. DOMAIN bases = {1} /\ bases[1] = base
  BY <1>1
<1>3. addAssetInputs(d, bases) = (CHOOSE h : Is(h))[DOMAIN bases]
  BY DEF addAssetInputs, FoldLeft, MapThenFoldSet
<1>4. \A s \in SUBSET {1} : s # {} => s = {1} /\ Max(s) = 1 /\ s \ {Max(s)} = {}
  <2>1. Max({1}) = 1
    BY DEF Max
  <2>2. \A s \in SUBSET {1} : s # {} => s = {1}
    OBVIOUS
  <2> QED BY <2>1, <2>2
<1>5. PICK name : name = uniqueId(base, d.inputs)
  OBVIOUS
<1>6. PICK e : e = Taken(d, base)
  OBVIOUS
<1>7. \E h : Is(h)
  <2>1. PICK h : h = [s \in SUBSET {1} |-> IF s = {} THEN d ELSE e]
    OBVIOUS
  <2>2. h[{}] = d
    BY <2>1
  <2> HIDE DEF Taken
  <2>3. \A s \in SUBSET {1} : s # {} => Taken(h[s \ {Max(s)}], bases[Max(s)]) = e
    BY <1>2, <1>4, <1>6, <2>2
  <2> QED BY <1>2, <2>1, <2>3
<1>8. PICK h : Is(h) /\ addAssetInputs(d, bases) = h[{1}]
  BY <1>2, <1>3, <1>7
<1>9. addAssetInputs(d, bases) = e
  <2> HIDE DEF Taken
  <2>1. h[{}] = d
    BY <1>2, <1>8
  <2>2. h[{1}] = Taken(h[{1} \ {Max({1})}], bases[Max({1})])
    BY <1>2, <1>8
  <2> QED BY <1>2, <1>4, <1>6, <1>8, <2>1, <2>2
<1>10. /\ e.nodes = d.nodes /\ e.outputs = d.outputs /\ e.groups = d.groups /\ e.sets = d.sets
       /\ e.x = d.x /\ e.promotions = d.promotions
       /\ e.inputs = d.inputs \cup {name} /\ e.values = d.values \cup {name}
       /\ IsDocument(e)
  BY <1>5, <1>6 DEF DocOK, IsDocument
<1>11. name \in Names /\ IsFiniteSet(d.inputs \cup {name})
  BY <1>5, InputIsNew
<1>12. EndsOK(e)
  <2>1. Ids(e) = Ids(d)
    BY <1>10 DEF Ids
  <2> QED BY <1>10, <1>11, <2>1 DEF DocOK, EndsOK
<1>13. e.x = [id \in Ids(d) |-> e.x[id]]
  BY <1>10 DEF DocOK, PlacesOK
<1> QED BY <1>1, <1>9, <1>10, <1>12, <1>13, RestKept DEF OrderOK

\* A rename of an input meets a reference to another.
Clips(d, name) ==
    \E id \in Ids(d) : Hit(name, d.nodes[id].arg.leaf) /\ d.nodes[id].arg.leaf.name # name

LEMMA RenameInputKept ==
    ASSUME NEW d, DocOK(d), NEW from \in d.inputs, NEW to \in Names
    PROVE  LET e == renameGraphInput(d, from, to)
           IN  /\ DocOK(e) /\ (OrderOK(d) => OrderOK(e)) /\ Ids(e) = Ids(d)
               /\ InputRefsOK(d) /\ ~Clips(d, from) => InputRefsOK(e)
               /\ Fewer(d.nodes, e.nodes)
<1>1. PICK e : e = renameGraphInput(d, from, to)
  OBVIOUS
<1>2. PICK inputs : inputs = (d.inputs \ {from}) \cup {to}
  OBVIOUS
<1>3. from \in Names
  BY DEF DocOK, EndsOK
<1>4. /\ e.inputs = inputs /\ e.values = inputs
      /\ e.nodes = [id \in Ids(d) |-> [d.nodes[id] EXCEPT !.arg.leaf = Replaced(@, from, to)]]
      /\ e.outputs = d.outputs /\ e.x = d.x /\ e.promotions = d.promotions
      /\ e.groups = d.groups /\ e.sets = d.sets
      /\ IsDocument(e)
  <2>1. d.values = d.inputs
    BY DEF DocOK, EndsOK
  <2> QED BY <1>1, <1>2, <2>1 DEF renameGraphInput, DocOK, IsDocument
<1>5. Ids(e) = Ids(d) /\ DOMAIN e.nodes = Ids(e)
  BY <1>4 DEF Ids
<1>6. ASSUME NEW leaf \in Leaf
      PROVE  /\ Replaced(leaf, from, to) \in Leaf /\ Replaced(leaf, from, to).kind = leaf.kind
             /\ leaf.kind # "input" => Replaced(leaf, from, to) = leaf
             /\ leaf.kind = "input" =>
                  \/ Hit(from, leaf) /\ leaf.name # from
                  \/ Replaced(leaf, from, to).name = IF leaf.name = from THEN to ELSE leaf.name
  <2>1. to \o SubSeq(leaf.name, Len(from) + 1, Len(leaf.name)) \in Names
    <3>1. leaf.name \in Names
      BY DEF Leaf
    <3> QED BY <1>3, <3>1 DEF Names
  <2>2. leaf.name = from => to \o SubSeq(leaf.name, Len(from) + 1, Len(leaf.name)) = to
    BY <1>3 DEF Names
  <2>3. leaf.kind = "input" /\ leaf.name = from => Hit(from, leaf)
    BY <1>3 DEF Hit, IsPrefix, Names
  <2> HIDE DEF Hit
  <2>4. CASE ~Hit(from, leaf)
    BY <2>3, <2>4 DEF Replaced
  <2>5. CASE Hit(from, leaf)
    <3>1. leaf.kind = "input"
      BY <2>5 DEF Hit
    <3>2. Replaced(leaf, from, to) = InputRef(to \o SubSeq(leaf.name, Len(from) + 1, Len(leaf.name)))
      BY <2>5 DEF Replaced
    <3> QED BY <2>1, <2>2, <2>5, <3>1, <3>2 DEF InputRef, Leaf
  <2> QED BY <2>4, <2>5
<1>7. ASSUME NEW id \in Ids(d)
      PROVE  /\ e.nodes[id] \in GraphNode /\ e.nodes[id].kind = d.nodes[id].kind
             /\ e.nodes[id].deps = d.nodes[id].deps
             /\ e.nodes[id].arg.leaf = Replaced(d.nodes[id].arg.leaf, from, to)
             /\ d.nodes[id].arg.leaf \in Leaf
  <2>1. PICK node \in GraphNode : node = d.nodes[id]
    BY DEF DocOK, NodesOK
  <2>2. PICK leaf : leaf = Replaced(node.arg.leaf, from, to)
    OBVIOUS
  <2>3. leaf \in Leaf /\ node.arg.leaf \in Leaf
    BY <1>6, <2>2 DEF GraphNode, Value
  <2>4. e.nodes[id] = [node EXCEPT !.arg.leaf = leaf]
    BY <1>4, <2>1, <2>2
  <2> QED BY <2>1, <2>2, <2>3, <2>4 DEF GraphNode, Value
<1>8. NodesOK(e)
  <2>1. e.nodes \in [Ids(e) -> GraphNode]
    BY <1>4, <1>5, <1>7
  <2>2. ASSUME NEW id \in Ids(e), e.nodes[id].arg.leaf.kind = "node"
        PROVE  e.nodes[id].arg.leaf.name \in Ids(e) \cup {<<>>}
    <3>1. e.nodes[id].arg.leaf = d.nodes[id].arg.leaf
      BY <1>5, <1>6, <1>7, <2>2
    <3> QED BY <1>5, <2>2, <3>1 DEF DocOK, NodesOK
  <2> QED BY <1>5, <2>1, <2>2 DEF DocOK, NodesOK
<1>9. EndsOK(e)
  <2>1. IsFiniteSet(inputs) /\ inputs \in SUBSET Names
    <3>1. IsFiniteSet(d.inputs \ {from})
      BY FS_RemoveElement DEF DocOK, EndsOK
    <3> QED BY <1>2, <3>1, FS_AddElement DEF DocOK, EndsOK
  <2> QED BY <1>4, <1>5, <2>1 DEF DocOK, EndsOK
<1>10. PlacesOK(e)
  BY <1>4, <1>5 DEF DocOK, PlacesOK
<1>11. PromotionsOK(e)
  <2>1. PromotionsOK(d) /\ \A m \in DOMAIN d.promotions : m \in Ids(d) /\ d.promotions[m].consumer \in Ids(d)
    BY DEF DocOK, PromotionsOK, IsPromotion
  <2>2. e.promotions = [m \in DOMAIN e.promotions |-> e.promotions[m]]
    BY <1>4 DEF DocOK, PromotionsOK
  <2> QED BY <1>4, <1>5, <1>7, <2>1, <2>2, PromotionsHold
<1>12. OrderOK(d) => OrderOK(e)
  BY <1>4, <1>5, <1>7 DEF OrderOK
<1>13. InputRefsOK(d) /\ ~Clips(d, from) => InputRefsOK(e)
  <2> SUFFICES ASSUME InputRefsOK(d), ~Clips(d, from), NEW id \in Ids(e), e.nodes[id].arg.leaf.kind = "input"
               PROVE  e.nodes[id].arg.leaf.name \in e.inputs
    BY DEF InputRefsOK
  <2>1. PICK leaf \in Leaf : leaf = d.nodes[id].arg.leaf
    BY <1>5, <1>7
  <2>2. leaf.kind = "input" /\ e.nodes[id].arg.leaf = Replaced(leaf, from, to)
    BY <1>5, <1>6, <1>7, <2>1
  <2>3. leaf.name \in d.inputs /\ ~(Hit(from, leaf) /\ leaf.name # from)
    BY <1>5, <2>1, <2>2 DEF InputRefsOK, Clips
  <2>4. e.nodes[id].arg.leaf.name = IF leaf.name = from THEN to ELSE leaf.name
    BY <1>6, <2>2, <2>3
  <2> QED BY <1>2, <1>4, <2>3, <2>4
<1>14. Fewer(d.nodes, e.nodes)
  <2>1. ASSUME NEW t \in Ids(e), NEW s, s \in nodeDependencies(e.nodes[t])
        PROVE  s \in nodeDependencies(d.nodes[t])
    <3>1. PICK leaf \in Leaf : leaf = d.nodes[t].arg.leaf /\ e.nodes[t].arg.leaf = Replaced(leaf, from, to)
      BY <1>5, <1>7
    <3>2. Replaced(leaf, from, to).kind = "node" => Replaced(leaf, from, to) = leaf
      BY <1>6
    <3> QED BY <1>5, <1>7, <2>1, <3>1, <3>2, DependenciesAre
  <2> QED BY <1>5, <2>1 DEF Fewer, Ids
<1> QED BY <1>1, <1>4, <1>5, <1>8, <1>9, <1>10, <1>11, <1>12, <1>13, <1>14 DEF DocOK

LEMMA RemoveInputsKept ==
    ASSUME NEW d, DocOK(d), NEW names
    PROVE  /\ Kept(d, removeInputs(d, names)) /\ Ids(removeInputs(d, names)) = Ids(d)
           /\ Fewer(d.nodes, removeInputs(d, names).nodes)
<1>1. PICK e : e = removeInputs(d, names)
  OBVIOUS
<1> DEFINE Hits(id) == \E name \in names : InputRef(name) \in referencesIn(d.nodes[id].arg)
<1>2. /\ e.inputs = d.inputs \ names /\ e.values = d.values \ names
      /\ e.nodes = [id \in Ids(d) |-> IF Hits(id) THEN [d.nodes[id] EXCEPT !.arg = Absent] ELSE d.nodes[id]]
      /\ e.outputs = d.outputs /\ e.x = d.x /\ e.promotions = d.promotions
      /\ e.groups = d.groups /\ e.sets = d.sets
      /\ IsDocument(e)
  BY <1>1 DEF removeInputs, DocOK, IsDocument
<1>3. Ids(e) = Ids(d) /\ DOMAIN e.nodes = Ids(e)
  BY <1>2 DEF Ids
<1>4. Absent \in Value /\ Absent.leaf.kind = "null"
  BY DEF Absent, Null, Value, Leaf, Names
<1>5. ASSUME NEW id \in Ids(d)
      PROVE  /\ e.nodes[id] \in GraphNode /\ e.nodes[id].kind = d.nodes[id].kind
             /\ e.nodes[id].deps = d.nodes[id].deps
             /\ \/ e.nodes[id].arg.leaf.kind = "null"
                \/ ~Hits(id) /\ e.nodes[id].arg.leaf = d.nodes[id].arg.leaf
  <2>1. PICK node \in GraphNode : node = d.nodes[id]
    BY DEF DocOK, NodesOK
  <2> HIDE DEF Hits
  <2>2. CASE Hits(id)
    <3>1. e.nodes[id] = [node EXCEPT !.arg = Absent]
      BY <1>2, <2>1, <2>2
    <3> QED BY <1>4, <2>1, <3>1 DEF GraphNode
  <2>3. CASE ~Hits(id)
    BY <1>2, <2>1, <2>3
  <2> QED BY <2>2, <2>3
<1>6. NodesOK(e)
  <2>1. e.nodes \in [Ids(e) -> GraphNode]
    BY <1>2, <1>3, <1>5
  <2>2. ASSUME NEW id \in Ids(e), e.nodes[id].arg.leaf.kind = "node"
        PROVE  e.nodes[id].arg.leaf.name \in Ids(e) \cup {<<>>}
    <3>1. e.nodes[id].arg.leaf = d.nodes[id].arg.leaf
      BY <1>3, <1>5, <2>2
    <3> QED BY <1>3, <2>2, <3>1 DEF DocOK, NodesOK
  <2> QED BY <1>3, <2>1, <2>2 DEF DocOK, NodesOK
<1>7. EndsOK(e)
  <2>1. IsFiniteSet(d.inputs \ names)
    BY FS_Subset DEF DocOK, EndsOK
  <2> QED BY <1>2, <1>3, <2>1 DEF DocOK, EndsOK
<1>8. PlacesOK(e)
  BY <1>2, <1>3 DEF DocOK, PlacesOK
<1>9. PromotionsOK(e)
  <2>1. PromotionsOK(d) /\ \A m \in DOMAIN d.promotions : m \in Ids(d) /\ d.promotions[m].consumer \in Ids(d)
    BY DEF DocOK, PromotionsOK, IsPromotion
  <2>2. e.promotions = [m \in DOMAIN e.promotions |-> e.promotions[m]]
    BY <1>2 DEF DocOK, PromotionsOK
  <2> QED BY <1>2, <1>3, <1>5, <2>1, <2>2, PromotionsHold
<1>10. InputRefsOK(d) => InputRefsOK(e)
  <2> SUFFICES ASSUME InputRefsOK(d), NEW id \in Ids(e), e.nodes[id].arg.leaf.kind = "input"
               PROVE  e.nodes[id].arg.leaf.name \in e.inputs
    BY DEF InputRefsOK
  <2>1. PICK leaf \in Leaf : leaf = d.nodes[id].arg.leaf
    BY <1>3 DEF DocOK, NodesOK, GraphNode, Value
  <2>2. e.nodes[id].arg.leaf = leaf /\ ~Hits(id)
    BY <1>3, <1>5, <2>1
  <2>3. leaf.kind = "input" /\ leaf.name \in d.inputs
    BY <1>3, <2>1, <2>2 DEF InputRefsOK
  <2>4. leaf.name \notin names
    <3>1. leaf = InputRef(leaf.name) /\ leaf \in referencesIn(d.nodes[id].arg)
      BY <2>1, <2>3 DEF Leaf, InputRef, referencesIn, Literal, Null
    <3> QED BY <2>2, <3>1
  <2> QED BY <1>2, <2>2, <2>3, <2>4
<1>11. OrderOK(d) => OrderOK(e)
  <2> HIDE DEF Hits
  <2> QED BY <1>2, <1>3, <1>5 DEF OrderOK
<1>12. Fewer(d.nodes, e.nodes)
  <2> HIDE DEF Hits
  <2>1. ASSUME NEW t \in Ids(e), NEW s, s \in nodeDependencies(e.nodes[t])
        PROVE  s \in nodeDependencies(d.nodes[t])
    BY <1>3, <1>5, <2>1, DependenciesAre
  <2> QED BY <1>3, <2>1 DEF Fewer, Ids
<1> HIDE DEF Hits
<1> QED BY <1>1, <1>2, <1>3, <1>6, <1>7, <1>8, <1>9, <1>10, <1>11, <1>12 DEF Kept, DocOK

LEMMA OutputsKept ==
    ASSUME NEW d, DocOK(d), NEW outputs, outputs \in [DOMAIN outputs -> Ids(d)]
    PROVE  LET e == [d EXCEPT !.outputs = outputs] IN Kept(d, e) /\ Ids(e) = Ids(d)
<1>1. PICK e : e = [d EXCEPT !.outputs = outputs]
  OBVIOUS
<1>2. /\ e.outputs = outputs /\ e.nodes = d.nodes /\ e.inputs = d.inputs /\ e.values = d.values
      /\ e.x = d.x /\ e.promotions = d.promotions /\ e.groups = d.groups /\ e.sets = d.sets
      /\ IsDocument(e)
  BY <1>1 DEF DocOK, IsDocument
<1>3. EndsOK(e)
  <2>1. Ids(e) = Ids(d)
    BY <1>2 DEF Ids
  <2> QED BY <1>2, <2>1 DEF DocOK, EndsOK
<1>4. e.x = [id \in Ids(d) |-> e.x[id]]
  BY <1>2 DEF DocOK, PlacesOK
<1> QED BY <1>1, <1>2, <1>3, <1>4, RestKept DEF OrderOK

\* Groups, selections and places.
Arranged(d, x, groups, sets) == [d EXCEPT !.x = x, !.groups = groups, !.sets = sets]

LEMMA SidecarKept ==
    ASSUME NEW d, DocOK(d), NEW x, x = [id \in Ids(d) |-> x[id]], NEW groups, NEW sets,
           OrderOK(d) => \A name \in DOMAIN groups : groups[name] \subseteq Ids(d),
           OrderOK(d) => \A name \in DOMAIN sets : sets[name] \subseteq Ids(d)
    PROVE  Kept(d, Arranged(d, x, groups, sets)) /\ Ids(Arranged(d, x, groups, sets)) = Ids(d)
<1>1. PICK e : e = Arranged(d, x, groups, sets)
  OBVIOUS
<1>2. /\ e.outputs = d.outputs /\ e.nodes = d.nodes /\ e.inputs = d.inputs /\ e.values = d.values
      /\ e.x = x /\ e.promotions = d.promotions /\ e.groups = groups /\ e.sets = sets
      /\ IsDocument(e)
  BY <1>1 DEF DocOK, IsDocument, Arranged
<1>3. EndsOK(e)
  <2>1. Ids(e) = Ids(d)
    BY <1>2 DEF Ids
  <2> QED BY <1>2, <2>1 DEF DocOK, EndsOK
<1>4. e.x = [id \in Ids(d) |-> e.x[id]]
  BY <1>2
<1> QED BY <1>1, <1>2, <1>3, <1>4, RestKept

\* The order of a preset names each of its nodes once.
LEMMA OrdersAre ==
    ASSUME NEW S, IsFiniteSet(S), NEW order \in SetToSeqs(S)
    PROVE  /\ order \in Seq(S) /\ Len(order) = Cardinality(S) /\ ToSet(order) = S
           /\ \A i, j \in DOMAIN order : order[i] = order[j] => i = j
<1>1. PICK n \in Nat : n = Cardinality(S)
  BY FS_CardinalityType
<1>2. order \in [1..n -> S] /\ \A i, j \in 1..n : order[i] = order[j] => i = j
  BY <1>1 DEF SetToSeqs
<1>3. order \in Seq(S) /\ Len(order) = n /\ DOMAIN order = 1..n
  BY <1>2
<1>4. \A s \in S : \E i \in 1..n : order[i] = s
  <2>1. PICK I : I = 1..n
    OBVIOUS
  <2>2. IsFiniteSet(I) /\ Cardinality(I) = Cardinality(S)
    <3>1. 1 \in Int /\ n \in Int
      OBVIOUS
    <3>2. IsFiniteSet(1..n) /\ Cardinality(1..n) = IF 1 > n THEN 0 ELSE n - 1 + 1
      BY <3>1, FS_Interval, Zenon
    <3>3. Cardinality(1..n) = n
      BY <3>2
    <3> QED BY <1>1, <2>1, <3>2, <3>3, Zenon
  <2>3. order \in [I -> S] /\ \A i, j \in I : order[i] = order[j] => i = j
    BY <1>2, <2>1
  <2>4. \A s \in S : \E i \in I : order[i] = s
    BY <2>2, <2>3, AsManyAreAll
  <2> QED BY <2>1, <2>4
<1>5. ToSet(order) = S
  BY <1>2, <1>3, <1>4 DEF ToSet
<1> QED BY <1>1, <1>2, <1>3, <1>5

\* The names that are given, one after the other.
Given(taken, order) ==
    LET given[i \in 0..Len(order)] ==
          IF i = 0 THEN <<>>
          ELSE Append(given[i - 1], uniqueId(order[i], taken \cup ToSet(given[i - 1])))
    IN  given[Len(order)]

LEMMA GivenAre ==
    ASSUME NEW taken, IsFiniteSet(taken), NEW order \in Seq(Names),
           Cardinality(taken) + Len(order) <= Len(Numbers)
    PROVE  LET last == Given(taken, order)
           IN  /\ last \in Seq(Names) /\ Len(last) = Len(order)
               /\ \A i \in 1..Len(order) : last[i] \notin taken /\ (order[i] # <<>> => last[i] # <<>>)
               /\ \A i, j \in 1..Len(order) : last[i] = last[j] => i = j
<1> DEFINE Next1(g, i) == Append(g, uniqueId(order[i], taken \cup ToSet(g)))
           Body(h, i) == IF i = 0 THEN <<>> ELSE Next1(h[i - 1], i)
           Is(h, n) == h = [i \in 0..n |-> Body(h, i)]
           H == {n \in Nat : \E h : Is(h, n)}
<1>1. PICK n \in Nat : n = Len(order)
  OBVIOUS
<1>2. \A h : Body(h, 0) = <<>>
  OBVIOUS
<1>3. \A h, k : \A i : i # 0 /\ h[i - 1] = k[i - 1] => Body(h, i) = Body(k, i)
  <2> HIDE DEF Next1
  <2> QED OBVIOUS
<1>4. \A h : \A i : i # 0 => Body(h, i) = Next1(h[i - 1], i)
  OBVIOUS
<1> HIDE DEF Body, Next1
<1>5. 0 \in H
  <2>1. PICK h : h = [i \in 0..0 |-> <<>>]
    OBVIOUS
  <2>2. Is(h, 0)
    BY <1>2, <2>1
  <2> QED BY <2>2
<1>6. ASSUME NEW m \in Nat, m \in H PROVE m + 1 \in H
  <2>1. PICK h : Is(h, m)
    BY <1>6
  <2>2. PICK k : k = [i \in 0..(m + 1) |-> Body(h, i)]
    OBVIOUS
  <2>3. \A i \in 0..m : k[i] = h[i]
    BY <2>1, <2>2
  <2>4. \A i \in 0..(m + 1) : Body(h, i) = Body(k, i)
    BY <1>2, <1>3, <2>3
  <2>5. Is(k, m + 1)
    BY <2>2, <2>4
  <2> HIDE DEF Is
  <2> QED BY <2>5
<1>7. \A m \in Nat : m \in H
  <2> HIDE DEF H
  <2> QED BY <1>5, <1>6, AllNumbers
<1>8. \E h : Is(h, n)
  BY <1>7
<1>9. PICK h : Is(h, n) /\ h = CHOOSE g : Is(g, n)
  BY <1>8
<1>10. h[0] = <<>> /\ \A i \in Nat : i + 1 <= n => h[i + 1] = Next1(h[i], i + 1)
  <2>1. \A i \in 0..n : h[i] = Body(h, i)
    BY <1>9
  <2>2. h[0] = <<>>
    BY <1>2, <2>1
  <2>3. ASSUME NEW i \in Nat, i + 1 <= n PROVE h[i + 1] = Next1(h[i], i + 1)
    <3>1. i + 1 \in 0..n /\ i + 1 # 0 /\ (i + 1) - 1 = i
      BY <2>3
    <3>2. h[i + 1] = Next1(h[(i + 1) - 1], i + 1)
      BY <1>4, <2>1, <3>1, Zenon
    <3> QED BY <3>1, <3>2
  <2> QED BY <2>2, <2>3
<1> DEFINE Good(i) == /\ h[i] \in Seq(Names) /\ Len(h[i]) = i
                      /\ \A j \in 1..i : h[i][j] \notin taken /\ (order[j] # <<>> => h[i][j] # <<>>)
                      /\ \A j, k \in 1..i : h[i][j] = h[i][k] => j = k
           G == {i \in Nat : i <= n => Good(i)}
<1>11. Good(0)
  BY <1>10
<1>12. ASSUME NEW i \in Nat, i + 1 <= n, Good(i) PROVE Good(i + 1)
  <2>1. PICK g \in Seq(Names) : g = h[i]
    BY <1>12
  <2>2. /\ Len(g) = i /\ DOMAIN g = 1..i
        /\ \A j \in 1..i : g[j] \notin taken /\ (order[j] # <<>> => g[j] # <<>>)
        /\ \A j, k \in 1..i : g[j] = g[k] => j = k
    BY <1>12, <2>1
  <2>3. IsFiniteSet(ToSet(g)) /\ Cardinality(ToSet(g)) <= i
    <3>1. IsFiniteSet(1..i) /\ Cardinality(1..i) = i
      BY FS_Interval
    <3>2. ToSet(g) = {g[j] : j \in 1..i}
      BY <2>2 DEF ToSet
    <3> QED BY <3>1, <3>2, ImageIsFinite
  <2>4. PICK used : used = taken \cup ToSet(g)
    OBVIOUS
  <2>5. IsFiniteSet(used) /\ Cardinality(used) <= Len(Numbers)
    <3>1. /\ IsFiniteSet(used) /\ Cardinality(used) = Cardinality(taken) + Cardinality(ToSet(g)) - Cardinality(taken \cap ToSet(g))
      BY <2>3, <2>4, FS_Union
    <3>2. Cardinality(taken) \in Nat /\ Cardinality(ToSet(g)) \in Nat /\ Cardinality(taken \cap ToSet(g)) \in Nat
      BY <2>3, FS_CardinalityType, FS_Intersection
    <3> QED BY <1>1, <1>12, <2>3, <3>1, <3>2, NumbersAssumption
  <2>6. PICK name : name = uniqueId(order[i + 1], used)
    OBVIOUS
  <2>7. name \in Names /\ name \notin used /\ (order[i + 1] # <<>> => name # <<>>)
    <3>1. order[i + 1] \in Seq(Words)
      BY <1>1, <1>12 DEF Names
    <3>2. STRING \subseteq Words
      BY DEF Words
    <3> QED BY <2>5, <2>6, <3>1, <3>2, UniqueIdIsFree DEF Names
  <2>8. h[i + 1] = Append(g, name)
    BY <1>10, <1>12, <2>1, <2>4, <2>6 DEF Next1
  <2>9. /\ h[i + 1] \in Seq(Names) /\ Len(h[i + 1]) = i + 1 /\ h[i + 1][i + 1] = name
        /\ \A j \in 1..i : h[i + 1][j] = g[j]
    BY <2>2, <2>7, <2>8
  <2>10. \A j \in 1..i : g[j] \in ToSet(g)
    BY <2>2 DEF ToSet
  <2>11. name \notin taken /\ \A j \in 1..i : g[j] # name
    BY <2>4, <2>7, <2>10
  <2>12. \A j \in 1..(i + 1) : h[i + 1][j] \notin taken /\ (order[j] # <<>> => h[i + 1][j] # <<>>)
    BY <2>2, <2>7, <2>9, <2>11
  <2>13. \A j, k \in 1..(i + 1) : h[i + 1][j] = h[i + 1][k] => j = k
    BY <2>2, <2>9, <2>11
  <2> QED BY <2>9, <2>12, <2>13
<1> HIDE DEF Good
<1>13. 0 \in G /\ \A i \in Nat : i \in G => i + 1 \in G
  BY <1>11, <1>12
<1>14. \A i \in Nat : i \in G
  <2> HIDE DEF G
  <2> QED BY <1>13, AllNumbers
<1>15. Good(n)
  BY <1>14
<1> QED BY <1>1, <1>9, <1>15 DEF Good, Body, Next1, Given

\* A preset refers to nothing outside of it.
IsPreset(p) ==
    /\ p = [nodes |-> p.nodes, x |-> p.x]
    /\ p.nodes \in [DOMAIN p.nodes -> GraphNode] /\ DOMAIN p.nodes \in SUBSET Names
    /\ IsFiniteSet(DOMAIN p.nodes) /\ Cardinality(DOMAIN p.nodes) <= MaxNodes
    /\ p.x = [id \in DOMAIN p.nodes |-> p.x[id]]
    /\ \A id \in DOMAIN p.nodes :
         /\ p.nodes[id].deps \subseteq DOMAIN p.nodes /\ p.nodes[id].arg.leaf.kind # "input"
         /\ p.nodes[id].arg.leaf.kind = "node" => p.nodes[id].arg.leaf.name \in DOMAIN p.nodes

LEMMA NewIdsAre ==
    ASSUME NEW d, DocOK(d), Cardinality(Ids(d)) <= MaxNodes, NEW p, IsPreset(p), NEW order \in Orders(p)
    PROVE  LET ids == NewIds(d, order)
           IN  /\ ids \in [DOMAIN p.nodes -> Names]
               /\ \A s \in DOMAIN p.nodes : ids[s] \notin Ids(d) /\ (s # <<>> => ids[s] # <<>>)
               /\ \A s, t \in DOMAIN p.nodes : ids[s] = ids[t] => s = t
<1>1. PICK S : S = DOMAIN p.nodes /\ IsFiniteSet(S) /\ S \in SUBSET Names /\ Cardinality(S) <= MaxNodes
  BY DEF IsPreset
<1>2. /\ order \in Seq(S) /\ Len(order) = Cardinality(S) /\ ToSet(order) = S
      /\ \A i, j \in DOMAIN order : order[i] = order[j] => i = j
  BY <1>1, OrdersAre DEF Orders
<1>3. order \in Seq(Names)
  BY <1>1, <1>2
<1>4. PICK taken : taken = Ids(d) /\ IsFiniteSet(taken)
  BY DEF DocOK, NodesOK
<1>5. Cardinality(taken) + Len(order) <= Len(Numbers)
  <2>1. Cardinality(taken) \in Nat /\ Cardinality(S) \in Nat /\ Cardinality(taken) <= MaxNodes
    BY <1>1, <1>4, FS_CardinalityType
  <2> QED BY <1>1, <1>2, <2>1, EditAssumption, NumbersAssumption
<1>6. PICK last : last = Given(taken, order)
  OBVIOUS
<1>7. /\ last \in Seq(Names) /\ Len(last) = Len(order)
      /\ \A i \in 1..Len(order) : last[i] \notin taken /\ (order[i] # <<>> => last[i] # <<>>)
      /\ \A i, j \in 1..Len(order) : last[i] = last[j] => i = j
  BY <1>3, <1>4, <1>5, <1>6, GivenAre
<1>8. PICK ids : ids = NewIds(d, order)
  OBVIOUS
<1>9. ids = [id \in ToSet(order) |-> last[CHOOSE i \in DOMAIN order : order[i] = id]]
  BY <1>4, <1>6, <1>8 DEF NewIds, Given
<1>10. PICK place : place = [id \in S |-> CHOOSE i \in DOMAIN order : order[i] = id]
  OBVIOUS
<1>11. \A id \in S : place[id] \in 1..Len(order) /\ order[place[id]] = id
  <2>1. DOMAIN order = 1..Len(order)
    BY <1>2
  <2>2. \A id \in S : \E i \in DOMAIN order : order[i] = id
    BY <1>2 DEF ToSet
  <2> QED BY <1>10, <2>1, <2>2
<1>12. DOMAIN ids = S /\ ids = [id \in S |-> last[place[id]]]
  BY <1>2, <1>9, <1>10
<1>13. \A id \in S : last[place[id]] \in Names
  BY <1>7, <1>11
<1>14. \A s, t \in S : last[place[s]] = last[place[t]] => s = t
  BY <1>7, <1>11, Zenon
<1> QED BY <1>1, <1>4, <1>7, <1>8, <1>11, <1>12, <1>13, <1>14

\* The nodes of a preset where they are inserted; the names are those of the preset.
Copied(node, ids) ==
    [kind |-> node.kind, arg |-> remapValue(node.arg, ids), deps |-> {ids[s] : s \in node.deps}]
Inserted(d, p, ids, e) ==
    /\ Ids(e) = Ids(d) \cup {ids[s] : s \in DOMAIN p.nodes}
    /\ e.nodes = [id \in Ids(e) |-> e.nodes[id]]
    /\ \A id \in Ids(d) : e.nodes[id] = d.nodes[id]
    /\ \A s \in DOMAIN p.nodes : e.nodes[ids[s]] = Copied(p.nodes[s], ids)

\* insertPreset, for the names that are given.
Insertion(d, p, order, ids) ==
    LET old(new) == CHOOSE id \in DOMAIN ids : ids[id] = new
        left == Leftmost(Range(p.x))
        copies == [new \in Range(ids) |->
                     [p.nodes[old(new)] EXCEPT !.arg = remapValue(@, ids), !.deps = {ids[s] : s \in @}]]
        next == [d EXCEPT !.nodes = Joined(@, copies),
                          !.x = Joined(@, [new \in Range(ids) |-> 120 + p.x[old(new)] - left])]
    IN  IF Len(order) > 1 THEN addEditorGroup(next, Range(ids)) ELSE next

\* What else an insertion leaves, and the group it may add.
Around(d, p, ids, e) ==
    /\ IsDocument(e)
    /\ e.inputs = d.inputs /\ e.values = d.values /\ e.outputs = d.outputs
    /\ e.promotions = d.promotions /\ e.sets = d.sets
    /\ e.groups = d.groups \/ \E name : e.groups = With(d.groups, name, {ids[s] : s \in DOMAIN p.nodes})
    /\ e.x = [id \in Ids(e) |-> e.x[id]]

LEMMA InsertedAre ==
    ASSUME NEW d, DocOK(d), Cardinality(Ids(d)) <= MaxNodes, NEW p, IsPreset(p), NEW order \in Orders(p)
    PROVE  /\ Inserted(d, p, NewIds(d, order), insertPreset(d, p, order))
           /\ Around(d, p, NewIds(d, order), insertPreset(d, p, order))
<1>1. PICK ids : ids = NewIds(d, order)
  OBVIOUS
<1>2. PICK S : S = DOMAIN p.nodes
  OBVIOUS
<1>3. /\ ids \in [S -> Names] /\ \A s \in S : ids[s] \notin Ids(d)
      /\ \A s, t \in S : ids[s] = ids[t] => s = t
  BY <1>1, <1>2, NewIdsAre
<1> DEFINE Old(new) == CHOOSE id \in DOMAIN ids : ids[id] = new
<1>4. \A s \in S : Old(ids[s]) = s
  BY <1>3
<1>5. PICK new : new = {ids[s] : s \in S}
  OBVIOUS
<1>6. Range(ids) = new
  BY <1>3, <1>5 DEF Range
<1> DEFINE copies == [n \in Range(ids) |->
                        [p.nodes[Old(n)] EXCEPT !.arg = remapValue(@, ids), !.deps = {ids[s] : s \in @}]]
           x == [n \in Range(ids) |-> 120 + p.x[Old(n)] - Leftmost(Range(p.x))]
           Next1 == [d EXCEPT !.nodes = Joined(@, copies), !.x = Joined(@, x)]
<1>7. PICK e : e = insertPreset(d, p, order)
  OBVIOUS
<1>8. insertPreset(d, p, order) = Insertion(d, p, order, NewIds(d, order))
  BY DEF insertPreset, Insertion
<1>9. e = Insertion(d, p, order, ids)
  BY <1>1, <1>7, <1>8
<1>10. e = IF Len(order) > 1 THEN addEditorGroup(Next1, Range(ids)) ELSE Next1
  BY <1>9 DEF Insertion
<1>11. DOMAIN copies = new /\ DOMAIN x = new
  BY <1>6
<1>12. ASSUME NEW s \in S PROVE copies[ids[s]] = Copied(p.nodes[s], ids)
  <2>1. PICK node \in GraphNode : node = p.nodes[s]
    BY <1>2 DEF IsPreset
  <2>2. PICK arg : arg = remapValue(node.arg, ids)
    OBVIOUS
  <2>3. ids[s] \in Range(ids) /\ Old(ids[s]) = s
    BY <1>3, <1>4 DEF Range
  <2> HIDE DEF Old
  <2>4. copies[ids[s]] = [node EXCEPT !.arg = arg, !.deps = {ids[t] : t \in node.deps}]
    BY <2>1, <2>2, <2>3
  <2> QED BY <2>1, <2>2, <2>4 DEF Copied, GraphNode
<1> HIDE DEF copies, x, Old
<1>13. PICK next : next = Next1
  OBVIOUS
<1>14. /\ next.nodes = Joined(d.nodes, copies) /\ next.x = Joined(d.x, x)
       /\ next.inputs = d.inputs /\ next.values = d.values /\ next.outputs = d.outputs
       /\ next.promotions = d.promotions /\ next.sets = d.sets /\ next.groups = d.groups
       /\ IsDocument(next)
  BY <1>13 DEF DocOK, IsDocument
<1>15. PICK name : name = uniqueId(<<"group">>, DOMAIN next.groups)
  OBVIOUS
<1>16. /\ e.nodes = Joined(d.nodes, copies) /\ e.x = Joined(d.x, x)
       /\ e.inputs = d.inputs /\ e.values = d.values /\ e.outputs = d.outputs
       /\ e.promotions = d.promotions /\ e.sets = d.sets
       /\ e.groups = d.groups \/ e.groups = With(d.groups, name, Range(ids))
       /\ IsDocument(e)
  <2>1. CASE e = next
    BY <1>14, <2>1
  <2>2. CASE e = addEditorGroup(next, Range(ids))
    <3>1. PICK groups : groups = With(next.groups, name, Range(ids))
      OBVIOUS
    <3>2. e = [next EXCEPT !.groups = groups]
      BY <1>15, <2>2, <3>1, Zenon DEF addEditorGroup
    <3>3. e = [nodes |-> next.nodes, inputs |-> next.inputs, values |-> next.values, outputs |-> next.outputs,
               x |-> next.x, promotions |-> next.promotions, groups |-> groups, sets |-> next.sets]
      BY <1>14, <3>2 DEF IsDocument
    <3> QED BY <1>14, <3>1, <3>3 DEF IsDocument
  <2> QED BY <1>10, <1>13, <2>1, <2>2
<1>17. /\ DOMAIN copies = new
       /\ \A s \in S : copies[ids[s]] = Copied(p.nodes[s], ids)
  BY <1>11, <1>12
<1>18. Inserted(d, p, ids, e)
  <2>1. DOMAIN d.nodes = Ids(d) /\ Ids(e) = DOMAIN e.nodes
    BY DEF Ids
  <2>2. Ids(e) = Ids(d) \cup new
    BY <1>16, <1>17, <2>1 DEF Joined
  <2>3. \A id \in Ids(d) : e.nodes[id] = d.nodes[id]
    BY <1>16, <2>1 DEF Joined
  <2>4. \A n \in new : n \notin Ids(d) /\ e.nodes[n] = copies[n]
    BY <1>3, <1>5, <1>16, <1>17, <2>1 DEF Joined
  <2>5. e.nodes = [id \in Ids(e) |-> e.nodes[id]]
    BY <1>16, <2>1 DEF Joined
  <2> QED BY <1>2, <1>5, <1>17, <2>2, <2>3, <2>4, <2>5 DEF Inserted
<1>19. e.x = [id \in Ids(e) |-> e.x[id]]
  <2>1. DOMAIN d.x = Ids(d)
    BY DEF DocOK, PlacesOK
  <2>2. Ids(e) = Ids(d) \cup new
    BY <1>2, <1>5, <1>18 DEF Inserted
  <2> QED BY <1>11, <1>16, <2>1, <2>2 DEF Joined
<1>20. e.groups = d.groups \/ e.groups = With(d.groups, name, {ids[s] : s \in DOMAIN p.nodes})
  BY <1>2, <1>5, <1>6, <1>16
<1> QED BY <1>1, <1>7, <1>16, <1>18, <1>19, <1>20 DEF Around

LEMMA RemappedIs ==
    ASSUME NEW S, NEW ids \in [S -> Names], NEW value \in Value,
           value.leaf.kind = "node" => value.leaf.name \in S
    PROVE  /\ remapValue(value, ids) \in Value /\ remapValue(value, ids).leaf.kind = value.leaf.kind
           /\ remapValue(value, ids).shape = value.shape
           /\ value.leaf.kind = "node" => remapValue(value, ids).leaf.name = ids[value.leaf.name]
           /\ value.leaf.kind # "node" => remapValue(value, ids) = value
<1>1. CASE value.leaf.kind = "node"
  <2>1. PICK name \in Names : name = ids[value.leaf.name]
    BY <1>1
  <2>2. remapValue(value, ids) = [value EXCEPT !.leaf.name = name]
    BY <1>1, <2>1 DEF remapValue
  <2> QED BY <1>1, <2>1, <2>2 DEF Value, Leaf
<1>2. CASE value.leaf.kind # "node"
  BY <1>2 DEF remapValue
<1> QED BY <1>1, <1>2

LEMMA CopiedIs ==
    ASSUME NEW p, IsPreset(p), NEW ids \in [DOMAIN p.nodes -> Names], NEW s \in DOMAIN p.nodes
    PROVE  LET node == Copied(p.nodes[s], ids)
               all == {ids[t] : t \in DOMAIN p.nodes}
           IN  /\ node \in GraphNode /\ node.deps \subseteq all /\ node.arg.leaf.kind # "input"
               /\ node.arg.leaf.kind = "node" => node.arg.leaf.name \in all
<1>1. PICK node \in GraphNode : node = p.nodes[s]
  BY DEF IsPreset
<1>2. /\ node.deps \subseteq DOMAIN p.nodes /\ node.arg.leaf.kind # "input"
      /\ node.arg.leaf.kind = "node" => node.arg.leaf.name \in DOMAIN p.nodes
  BY <1>1 DEF IsPreset
<1>3. PICK arg : arg = remapValue(node.arg, ids)
  OBVIOUS
<1>4. node.arg \in Value
  BY DEF GraphNode
<1>5. /\ arg \in Value /\ arg.leaf.kind = node.arg.leaf.kind
      /\ node.arg.leaf.kind = "node" => arg.leaf.name = ids[node.arg.leaf.name]
  BY <1>2, <1>3, <1>4, RemappedIs
<1>6. {ids[t] : t \in node.deps} \in Ordering
  <2>1. node.deps \in Ordering
    BY DEF GraphNode
  <2> QED BY <1>2, <2>1, Orderings
<1>7. Copied(p.nodes[s], ids) = [kind |-> node.kind, arg |-> arg, deps |-> {ids[t] : t \in node.deps}]
  BY <1>1, <1>3 DEF Copied
<1>8. Copied(p.nodes[s], ids) \in GraphNode
  BY <1>5, <1>6, <1>7 DEF GraphNode
<1> QED BY <1>2, <1>5, <1>7, <1>8

LEMMA InsertKept ==
    ASSUME NEW d, DocOK(d), Cardinality(Ids(d)) <= MaxNodes, NEW p, IsPreset(p), NEW order \in Orders(p)
    PROVE  Kept(d, insertPreset(d, p, order))
<1>1. PICK ids : ids = NewIds(d, order)
  OBVIOUS
<1>2. PICK e : e = insertPreset(d, p, order)
  OBVIOUS
<1>3. PICK all : all = {ids[s] : s \in DOMAIN p.nodes}
  OBVIOUS
<1>4. /\ ids \in [DOMAIN p.nodes -> Names] /\ \A s \in DOMAIN p.nodes : ids[s] \notin Ids(d)
  BY <1>1, NewIdsAre
<1>5. /\ Inserted(d, p, ids, e) /\ IsDocument(e)
      /\ e.inputs = d.inputs /\ e.values = d.values /\ e.outputs = d.outputs
      /\ e.promotions = d.promotions /\ e.sets = d.sets
      /\ e.groups = d.groups \/ \E name : e.groups = With(d.groups, name, all)
      /\ e.x = [id \in Ids(e) |-> e.x[id]]
  <2>1. Inserted(d, p, ids, e) /\ Around(d, p, ids, e)
    BY <1>1, <1>2, InsertedAre
  <2> QED BY <1>3, <2>1 DEF Around
<1>6. /\ Ids(e) = Ids(d) \cup all /\ e.nodes = [id \in Ids(e) |-> e.nodes[id]]
      /\ \A id \in Ids(d) : e.nodes[id] = d.nodes[id]
  BY <1>3, <1>5 DEF Inserted
<1>7. ASSUME NEW id \in all
      PROVE  /\ e.nodes[id] \in GraphNode /\ e.nodes[id].deps \subseteq all
             /\ e.nodes[id].arg.leaf.kind # "input"
             /\ e.nodes[id].arg.leaf.kind = "node" => e.nodes[id].arg.leaf.name \in all
  <2>1. PICK s \in DOMAIN p.nodes : id = ids[s]
    BY <1>3
  <2>2. e.nodes[id] = Copied(p.nodes[s], ids)
    BY <1>5, <2>1 DEF Inserted
  <2>3. /\ Copied(p.nodes[s], ids) \in GraphNode /\ Copied(p.nodes[s], ids).deps \subseteq {ids[t] : t \in DOMAIN p.nodes}
        /\ Copied(p.nodes[s], ids).arg.leaf.kind # "input"
        /\ Copied(p.nodes[s], ids).arg.leaf.kind = "node"
             => Copied(p.nodes[s], ids).arg.leaf.name \in {ids[t] : t \in DOMAIN p.nodes}
    BY <1>4, CopiedIs, Zenon
  <2> QED BY <1>3, <2>2, <2>3
<1>8. NodesOK(e)
  <2>1. all \in SUBSET Names /\ IsFiniteSet(all)
    BY <1>3, <1>4, ImageIsFinite DEF IsPreset
  <2>2. IsFiniteSet(Ids(e)) /\ Ids(e) \in SUBSET Names
    <3>1. IsFiniteSet(Ids(d)) /\ Ids(d) \in SUBSET Names
      BY DEF DocOK, NodesOK
    <3>2. IsFiniteSet(Ids(d) \cup all)
      BY <2>1, <3>1, FS_Union
    <3> QED BY <1>6, <2>1, <3>1, <3>2
  <2>3. \A id \in Ids(e) : e.nodes[id] \in GraphNode
    BY <1>6, <1>7 DEF DocOK, NodesOK
  <2>4. e.nodes \in [Ids(e) -> GraphNode]
    BY <1>6, <2>3
  <2>5. \A id \in Ids(e) : e.nodes[id].arg.leaf.kind = "node" => e.nodes[id].arg.leaf.name \in Ids(e) \cup {<<>>}
    BY <1>6, <1>7 DEF DocOK, NodesOK
  <2> QED BY <2>2, <2>4, <2>5 DEF NodesOK
<1>9. EndsOK(e)
  BY <1>5, <1>6 DEF DocOK, EndsOK
<1>10. PlacesOK(e)
  BY <1>5 DEF PlacesOK
<1>11. PromotionsOK(e)
  <2>1. PromotionsOK(d) /\ \A m \in DOMAIN d.promotions : m \in Ids(d) /\ d.promotions[m].consumer \in Ids(d)
    BY DEF DocOK, PromotionsOK, IsPromotion
  <2>2. e.promotions = [m \in DOMAIN e.promotions |-> e.promotions[m]]
    BY <1>5 DEF DocOK, PromotionsOK
  <2> QED BY <1>5, <1>6, <2>1, <2>2, PromotionsHold
<1>12. InputRefsOK(d) => InputRefsOK(e)
  BY <1>5, <1>6, <1>7 DEF InputRefsOK
<1>13. OrderOK(d) => OrderOK(e)
  <2> SUFFICES ASSUME OrderOK(d) PROVE OrderOK(e)
    OBVIOUS
  <2>1. \A id \in Ids(e) : e.nodes[id].deps \subseteq Ids(e)
    BY <1>6, <1>7 DEF OrderOK
  <2>2. \A name \in DOMAIN e.sets : e.sets[name] \subseteq Ids(e)
    BY <1>5, <1>6 DEF OrderOK
  <2>3. \A name \in DOMAIN e.groups : e.groups[name] \subseteq Ids(e)
    <3>1. \A name \in DOMAIN d.groups : d.groups[name] \subseteq Ids(e)
      BY <1>6 DEF OrderOK
    <3>2. \A name : \A n \in DOMAIN With(d.groups, name, all) : With(d.groups, name, all)[n] \subseteq Ids(e)
      BY <1>6, <3>1 DEF With
    <3> QED BY <1>5, <3>1, <3>2
  <2> QED BY <2>1, <2>2, <2>3 DEF OrderOK
<1> QED BY <1>2, <1>5, <1>8, <1>9, <1>10, <1>11, <1>12, <1>13 DEF Kept, DocOK

-----------------------------------------------------------------------------
(* The editor: each edit keeps the document whole, and its size in bounds. *)

\* The inductive invariant of the editor.
GraphInv ==
    /\ DocOK(doc) /\ Cardinality(Ids(doc)) <= MaxNodes
    /\ {clipped, orphaned} \subseteq BOOLEAN
    /\ clipped \/ InputRefsOK(doc)
    /\ orphaned \/ OrderOK(doc)
    /\ IsPreset(preset)

LEMMA KeptStep ==
    ASSUME GraphInv, UNCHANGED <<preset, clipped, orphaned>>, Kept(doc, doc'), Cardinality(Ids(doc')) <= MaxNodes
    PROVE  GraphInv'
BY DEF GraphInv, Kept

\* An edit that adds no node.
LEMMA KeptStepInPlace ==
    ASSUME GraphInv, UNCHANGED <<preset, clipped, orphaned>>, Kept(doc, doc'), Ids(doc') \subseteq Ids(doc)
    PROVE  GraphInv'
<1>1. Cardinality(Ids(doc')) <= MaxNodes
  <2>1. PICK ids : ids = Ids(doc) /\ IsFiniteSet(ids) /\ Cardinality(ids) <= MaxNodes
    BY DEF GraphInv, DocOK, NodesOK
  <2>2. PICK left : left = Ids(doc') /\ left \in SUBSET ids
    BY <2>1
  <2>3. Cardinality(left) <= Cardinality(ids) /\ Cardinality(left) \in Nat /\ Cardinality(ids) \in Nat
    BY <2>1, <2>2, FS_Subset, FS_CardinalityType
  <2> QED BY <2>1, <2>2, <2>3, EditAssumption
<1> QED BY <1>1, KeptStep

\* One more node.
LEMMA OneMore ==
    ASSUME NEW d, DocOK(d), Cardinality(Ids(d)) < MaxNodes, NEW e, NEW id, Ids(e) = Ids(d) \cup {id}
    PROVE  Cardinality(Ids(e)) <= MaxNodes
<1>1. IsFiniteSet(Ids(d)) /\ Cardinality(Ids(d)) \in Nat
  BY FS_CardinalityType DEF DocOK, NodesOK
<1>2. Cardinality(Ids(e)) <= Cardinality(Ids(d)) + 1
  BY <1>1, FS_AddElement
<1>3. Cardinality(Ids(e)) \in Nat
  BY <1>1, FS_AddElement, FS_CardinalityType
<1> QED BY <1>1, <1>2, <1>3, EditAssumption

\* The second node of an opened document may wait for the first.
LEMMA GraphInit == Init => GraphInv /\ <<>> \notin Ids(doc) /\ Ranked(doc.nodes)
<1> SUFFICES ASSUME Init PROVE GraphInv /\ <<>> \notin Ids(doc) /\ Ranked(doc.nodes)
  OBVIOUS
<1>1. /\ <<"n">> \in Names /\ <<"n", "2">> \in Names /\ <<"input">> \in Names /\ <<>> \in Names
      /\ <<"n">> # <<"n", "2">> /\ <<>> \notin {<<"n">>, <<"n", "2">>}
  BY DEF Names, Words
<1> DEFINE A == {Plain(Literal), List(Literal), Plain(InputRef(<<"input">>))}
           B == {Absent, Plain(NodeRef(<<"n">>)), List(NodeRef(<<"n">>)), List(InputRef(<<"input">>))}
<1>2. PICK nodes \in OpenedNodes :
        doc = [nodes |-> nodes, inputs |-> {<<"input">>}, values |-> {<<"input">>},
               outputs |-> With(NoFunction, <<"out">>, <<"n">>),
               x |-> With(With(NoFunction, <<"n">>, 80), <<"n", "2">>, 500),
               promotions |-> NoFunction, groups |-> NoFunction, sets |-> NoFunction]
  BY Zenon DEF Init
<1>3. PICK a \in A, b \in B :
         nodes = With(With(NoFunction, <<"n">>, [kind |-> "task", arg |-> a, deps |-> {}]),
                      <<"n", "2">>, [kind |-> "task", arg |-> b, deps |-> IF b = Absent THEN {<<"n">>} ELSE {}])
  BY <1>2, SMT DEF OpenedNodes
<1>4. PICK deps : deps = IF b = Absent THEN {<<"n">>} ELSE {}
  OBVIOUS
<1>5. /\ doc.inputs = {<<"input">>} /\ doc.values = {<<"input">>}
      /\ doc.outputs = With(NoFunction, <<"out">>, <<"n">>)
      /\ doc.x = With(With(NoFunction, <<"n">>, 80), <<"n", "2">>, 500)
      /\ doc.promotions = NoFunction /\ doc.groups = NoFunction /\ doc.sets = NoFunction
      /\ IsDocument(doc) /\ doc.nodes = nodes
  BY <1>2 DEF IsDocument
<1>6. a \in Value /\ b \in Value
  BY <1>1 DEF Value, Leaf, Plain, List, Absent, Literal, Null, NodeRef, InputRef
<1>7. /\ \A v \in {a, b} : v.leaf.kind = "node" => v.leaf.name = <<"n">>
      /\ \A v \in {a, b} : v.leaf.kind = "input" => v.leaf.name = <<"input">>
      /\ a.leaf.kind # "node"
  BY DEF Plain, List, Absent, Literal, Null, NodeRef, InputRef
<1> HIDE DEF A, B
<1>8. deps \in Ordering
  <2>1. IsFiniteSet({<<"n">>}) /\ {<<"n">>} \in SUBSET Names
    BY <1>1, FS_Singleton
  <2>2. {<<"n">>} \in Ordering
    BY <2>1 DEF Ordering
  <2> QED BY <1>4, <2>2, Orderings
<1>9. PICK first \in GraphNode : first = [kind |-> "task", arg |-> a, deps |-> {}]
  BY <1>6, Orderings DEF GraphNode
<1>10. PICK second \in GraphNode : second = [kind |-> "task", arg |-> b, deps |-> deps]
  BY <1>6, <1>8 DEF GraphNode
<1>11. DOMAIN NoFunction = {}
  BY DEF NoFunction
<1>12. doc.nodes = With(With(NoFunction, <<"n">>, first), <<"n", "2">>, second)
  BY <1>5, <1>3, <1>4, <1>9, <1>10
<1>13. /\ Ids(doc) = {<<"n">>, <<"n", "2">>} /\ doc.nodes \in [Ids(doc) -> GraphNode]
       /\ doc.nodes[<<"n">>] = first /\ doc.nodes[<<"n", "2">>] = second
  BY <1>1, <1>9, <1>11, <1>12 DEF Ids, With
<1>14. IsFiniteSet(Ids(doc)) /\ Cardinality(Ids(doc)) = 2
  <2>1. IsFiniteSet({<<"n">>}) /\ Cardinality({<<"n">>}) = 1
    BY FS_Singleton
  <2>2. PICK one : one = {<<"n">>}
    OBVIOUS
  <2>3. PICK id : id = <<"n", "2">>
    OBVIOUS
  <2>4. Ids(doc) = one \cup {id} /\ id \notin one
    BY <1>1, <1>13, <2>2, <2>3
  <2>5. IsFiniteSet(one \cup {id}) /\ Cardinality(one \cup {id}) = Cardinality(one) + 1
    BY <2>1, <2>2, <2>4, FS_AddElement
  <2> QED BY <2>1, <2>2, <2>4, <2>5
<1>15. NodesOK(doc)
  BY <1>1, <1>7, <1>9, <1>10, <1>13, <1>14 DEF NodesOK
<1>16. EndsOK(doc)
  <2>1. DOMAIN doc.outputs = {<<"out">>} /\ doc.outputs[<<"out">>] = <<"n">>
    BY <1>5, <1>11 DEF With
  <2>2. doc.outputs \in [DOMAIN doc.outputs -> Ids(doc)]
    BY <1>5, <1>11, <1>13 DEF With
  <2>3. IsFiniteSet({<<"input">>}) /\ {<<"input">>} \in SUBSET Names
    BY <1>1, FS_Singleton
  <2> QED BY <1>5, <2>2, <2>3 DEF EndsOK
<1>17. PlacesOK(doc)
  BY <1>5, <1>11, <1>13 DEF PlacesOK, With
<1>18. PromotionsOK(doc) /\ DOMAIN doc.groups = {} /\ DOMAIN doc.sets = {}
  BY <1>5, <1>11 DEF PromotionsOK, NoFunction
<1>19. InputRefsOK(doc)
  BY <1>5, <1>7, <1>9, <1>10, <1>13 DEF InputRefsOK
<1>20. OrderOK(doc)
  BY <1>9, <1>10, <1>13, <1>18, <1>4 DEF OrderOK
<1>21. IsPreset(preset)
  <2>1. preset = NoPreset
    BY DEF Init
  <2>2. IsFiniteSet({}) /\ Cardinality({}) = 0
    BY FS_EmptySet
  <2> QED BY <1>11, <2>1, <2>2, EditAssumption DEF NoPreset, NoFunction, IsPreset
<1>22. {clipped, orphaned} \subseteq BOOLEAN
  BY DEF Init
<1>23. GraphInv
  BY <1>5, <1>14, <1>15, <1>16, <1>17, <1>18, <1>19, <1>20, <1>21, <1>22, EditAssumption DEF GraphInv, DocOK
<1>24. Ranked(doc.nodes)
  <2>1. /\ \A s : s \notin nodeDependencies(first)
        /\ \A s : s \in nodeDependencies(second) => s = <<"n">>
    <3>1. first.deps = {} /\ first.arg = a /\ second.deps \subseteq {<<"n">>} /\ second.arg = b
      BY <1>4, <1>9, <1>10
    <3>2. ASSUME NEW s PROVE s \notin nodeDependencies(first)
      BY <1>7, <3>1, DependenciesAre
    <3>3. ASSUME NEW s, s \in nodeDependencies(second) PROVE s = <<"n">>
      <4>1. s \in second.deps \/ (b.leaf.kind = "node" /\ b.leaf.name = s)
        BY <3>1, <3>3, DependenciesAre
      <4> QED BY <1>7, <3>1, <4>1
    <3> QED BY <3>2, <3>3
  <2>2. PICK r : r = [id \in Ids(doc) |-> IF id = <<"n">> THEN 0 ELSE 1]
    OBVIOUS
  <2>3. Ranks(doc.nodes, r)
    BY <1>1, <1>13, <2>1, <2>2 DEF Ranks
  <2> QED BY <2>3 DEF Ranked
<1> QED BY <1>1, <1>13, <1>23, <1>24

LEMMA NamesTyped ==
    /\ NewNames \subseteq Names /\ <<"n">> \in Names /\ <<>> \in Names
    /\ \A name \in NewNames : name # <<>>
<1>1. \A name \in NewNames : name \in Seq(STRING) /\ name # <<>>
  BY EditAssumption
<1>2. ASSUME NEW V, NEW W, V \subseteq W, NEW name \in Seq(V)
      PROVE  name \in Seq(W)
  <2>1. Len(name) \in Nat /\ name = [i \in 1..Len(name) |-> name[i]] /\ \A i \in 1..Len(name) : name[i] \in W
    BY <1>2
  <2> QED BY <2>1
<1>3. NewNames \subseteq Names
  BY <1>1, <1>2 DEF Names, Words
<1> QED BY <1>1, <1>3 DEF Names, Words

LEMMA AddNodePreserves == GraphInv /\ AddNode => GraphInv'
<1> SUFFICES ASSUME GraphInv, AddNode PROVE GraphInv'
  OBVIOUS
<1>1. /\ doc' = addCatalogNode(doc, <<"n">>) /\ Cardinality(Ids(doc)) < MaxNodes
      /\ UNCHANGED <<preset, clipped, orphaned>> /\ DocOK(doc)
  BY DEF AddNode, Commit, Pure, GraphInv
<1>2. Kept(doc, doc')
  BY <1>1, NamesTyped, AddNodeKept
<1>3. doc'.nodes = With(doc.nodes, uniqueId(<<"n">>, Ids(doc)), [kind |-> "task", arg |-> Plain(Literal), deps |-> {}])
  BY <1>1 DEF addCatalogNode, DocOK, IsDocument
<1>4. Ids(doc') = Ids(doc) \cup {uniqueId(<<"n">>, Ids(doc))}
  BY <1>3 DEF Ids, With
<1>5. Cardinality(Ids(doc')) <= MaxNodes
  BY <1>1, <1>4, OneMore
<1> QED BY <1>1, <1>2, <1>5, KeptStep

\* What the menus offer, and what the user enters.
LEMMA ChoicesAre ==
    ASSUME NEW d, DocOK(d), NEW id \in Ids(d),
           NEW value \in {Absent, Plain(Literal), List(Literal)}
                         \cup {Plain(r) : r \in ReferenceOptions(d, id)}
                         \cup {List(r) : r \in ReferenceOptions(d, id)}
    PROVE  /\ value \in Value
           /\ value.leaf.kind = "node" => value.leaf.name \in Ids(d) \cup {<<>>}
           /\ value.leaf.kind = "input" => value.leaf.name \in d.inputs
<1>1. \A r \in ReferenceOptions(d, id) :
        /\ r \in Leaf
        /\ r.kind = "node" => r.name \in Ids(d) \cup {<<>>}
        /\ r.kind = "input" => r.name \in d.inputs
  BY NamesTyped DEF ReferenceOptions, DocOK, NodesOK, EndsOK, Leaf, NodeRef, InputRef
<1>2. CASE value \in {Absent, Plain(Literal), List(Literal)}
  BY <1>2, NamesTyped DEF Absent, Plain, List, Literal, Null, Value, Leaf
<1>3. CASE value \in {Plain(r) : r \in ReferenceOptions(d, id)} \cup {List(r) : r \in ReferenceOptions(d, id)}
  <2>1. PICK r \in ReferenceOptions(d, id) : value = Plain(r) \/ value = List(r)
    BY <1>3
  <2> QED BY <1>1, <2>1 DEF Plain, List, Value
<1> QED BY <1>2, <1>3

LEMMA ArgumentChangePreserves == GraphInv /\ ArgumentChange => GraphInv'
<1> SUFFICES ASSUME GraphInv, ArgumentChange PROVE GraphInv'
  OBVIOUS
<1>1. PICK id \in Ids(doc) :
        \E value \in {Absent, Plain(Literal), List(Literal)}
                     \cup {Plain(r) : r \in ReferenceOptions(doc, id)}
                     \cup {List(r) : r \in ReferenceOptions(doc, id)} : doc' = updateArgument(doc, id, value)
  BY DEF ArgumentChange, Commit
<1>2. PICK value \in {Absent, Plain(Literal), List(Literal)}
                     \cup {Plain(r) : r \in ReferenceOptions(doc, id)}
                     \cup {List(r) : r \in ReferenceOptions(doc, id)} : doc' = updateArgument(doc, id, value)
  BY <1>1
<1>3. UNCHANGED <<preset, clipped, orphaned>> /\ DocOK(doc)
  BY DEF ArgumentChange, GraphInv
<1>4. /\ value \in Value
      /\ value.leaf.kind = "node" => value.leaf.name \in Ids(doc) \cup {<<>>}
      /\ value.leaf.kind = "input" => value.leaf.name \in doc.inputs
  BY <1>3, ChoicesAre
<1>5. Kept(doc, doc') /\ Ids(doc') = Ids(doc)
  BY <1>2, <1>3, <1>4, ArgumentKept DEF updateArgument
<1> QED BY <1>3, <1>5, KeptStepInPlace

LEMMA PromotePreserves == GraphInv /\ PromoteArgument => GraphInv'
<1> SUFFICES ASSUME GraphInv, PromoteArgument PROVE GraphInv'
  OBVIOUS
<1>1. PICK id \in Ids(doc) : CanPromote(doc, id) /\ doc' = promoteNodeArgument(doc, id)
  BY DEF PromoteArgument, Commit
<1>2. UNCHANGED <<preset, clipped, orphaned>> /\ DocOK(doc) /\ Cardinality(Ids(doc)) < MaxNodes
  BY DEF PromoteArgument, Pure, GraphInv
<1>3. Kept(doc, doc')
  BY <1>1, <1>2, PromoteKept DEF CanPromote
<1>4. Ids(doc') = Ids(doc) \cup {materialId(doc, id)}
  <2>1. doc'.nodes = With([doc.nodes EXCEPT ![id].arg = Plain(NodeRef(materialId(doc, id)))], materialId(doc, id),
                          [kind |-> "value", arg |-> doc.nodes[id].arg, deps |-> {}])
    BY <1>1, <1>2 DEF promoteNodeArgument, DocOK, IsDocument
  <2>2. PICK material : material = materialId(doc, id)
    OBVIOUS
  <2>3. PICK nodes : nodes = [doc.nodes EXCEPT ![id].arg = Plain(NodeRef(materialId(doc, id)))]
    OBVIOUS
  <2>4. DOMAIN nodes = DOMAIN doc.nodes
    BY <2>3
  <2> QED BY <2>1, <2>2, <2>3, <2>4 DEF Ids, With
<1>5. Cardinality(Ids(doc')) <= MaxNodes
  BY <1>2, <1>4, OneMore
<1> QED BY <1>2, <1>3, <1>5, KeptStep

LEMMA InlinePreserves == GraphInv /\ InlineMaterial => GraphInv'
<1> SUFFICES ASSUME GraphInv, InlineMaterial PROVE GraphInv'
  OBVIOUS
<1>1. PICK material \in Ids(doc) :
        /\ \E targets : CanInline(doc, material, targets) /\ doc' = inlineMaterialNode(doc, material, targets)
        /\ orphaned' = (orphaned \/ (material \notin Ids(doc') /\ IsNamed(doc, material)))
  BY DEF InlineMaterial, Commit, IsNamed
<1>2. PICK targets : CanInline(doc, material, targets) /\ doc' = inlineMaterialNode(doc, material, targets)
  BY <1>1
<1>3. UNCHANGED <<preset, clipped>> /\ DocOK(doc)
  BY DEF InlineMaterial, GraphInv
<1>4. /\ DocOK(doc') /\ (InputRefsOK(doc) => InputRefsOK(doc'))
      /\ (OrderOK(doc) /\ ~(material \notin Ids(doc') /\ IsNamed(doc, material)) => OrderOK(doc'))
      /\ Ids(doc') \subseteq Ids(doc)
  BY <1>2, <1>3, InlineKept
<1>5. Cardinality(Ids(doc')) <= MaxNodes
  <2>1. PICK ids : ids = Ids(doc) /\ IsFiniteSet(ids) /\ Cardinality(ids) <= MaxNodes
    BY DEF GraphInv, DocOK, NodesOK
  <2>2. PICK left : left = Ids(doc') /\ left \in SUBSET ids
    BY <1>4, <2>1
  <2>3. Cardinality(left) <= Cardinality(ids) /\ Cardinality(left) \in Nat /\ Cardinality(ids) \in Nat
    BY <2>1, <2>2, FS_Subset, FS_CardinalityType
  <2> QED BY <2>1, <2>2, <2>3, EditAssumption
<1>6. orphaned' \in BOOLEAN /\ (orphaned' \/ OrderOK(doc'))
  BY <1>1, <1>4 DEF GraphInv
<1> QED BY <1>3, <1>4, <1>5, <1>6 DEF GraphInv

LEMMA RenameNodePreserves == GraphInv /\ RenameSelectedNode => GraphInv'
<1> SUFFICES ASSUME GraphInv, RenameSelectedNode PROVE GraphInv'
  OBVIOUS
<1>1. PICK id \in Ids(doc), desired \in NewNames \ Ids(doc) : doc' = renameNode(doc, id, desired)
  BY DEF RenameSelectedNode, Commit
<1>2. UNCHANGED <<preset, clipped, orphaned>> /\ DocOK(doc)
  BY DEF RenameSelectedNode, Pure, GraphInv
<1>3. Kept(doc, doc')
  BY <1>1, <1>2, NamesTyped, RenameKept
<1>4. Ids(doc') = (Ids(doc) \ {id}) \cup {desired}
  BY <1>1, <1>2, NamesTyped, RenameKept
<1>5. Cardinality(Ids(doc')) <= MaxNodes
  <2>1. PICK ids : ids = Ids(doc) /\ IsFiniteSet(ids) /\ Cardinality(ids) <= MaxNodes
    BY DEF GraphInv, DocOK, NodesOK
  <2>2. PICK left : left = ids \ {id} /\ IsFiniteSet(left) /\ Cardinality(left) = Cardinality(ids) - 1
    BY <2>1, FS_RemoveElement
  <2>3. Cardinality(left \cup {desired}) = Cardinality(left) + 1
    BY <1>1, <2>1, <2>2, FS_AddElement
  <2>4. Cardinality(left) \in Nat /\ Cardinality(ids) \in Nat
    BY <2>1, <2>2, FS_CardinalityType
  <2> QED BY <1>4, <2>1, <2>2, <2>3, <2>4
<1> QED BY <1>2, <1>3, <1>5, KeptStep

LEMMA AddInputPreserves == GraphInv /\ AddInput => GraphInv'
<1> SUFFICES ASSUME GraphInv, AddInput PROVE GraphInv'
  OBVIOUS
<1>1. UNCHANGED <<preset, clipped, orphaned>> /\ DocOK(doc) /\ Cardinality(doc.inputs) < MaxInputs
  BY DEF AddInput, Pure, GraphInv
<1>2. CASE doc' = addGraphInput(doc)
  BY <1>1, <1>2, AddInputKept, KeptStepInPlace
<1>3. CASE \E base \in NewNames : doc' = addAssetInputs(doc, <<base>>)
  <2>1. PICK base \in Names : doc' = addAssetInputs(doc, <<base>>)
    BY <1>3, NamesTyped
  <2> QED BY <1>1, <2>1, AddAssetKept, KeptStepInPlace
<1> QED BY <1>2, <1>3 DEF AddInput, Commit

LEMMA RenameInputPreserves == GraphInv /\ RenameInput => GraphInv'
<1> SUFFICES ASSUME GraphInv, RenameInput PROVE GraphInv'
  OBVIOUS
<1>1. PICK name \in doc.inputs, desired \in NewNames :
        /\ doc' = renameGraphInput(doc, name, desired)
        /\ clipped' = (clipped \/ Clips(doc, name))
  BY DEF RenameInput, Commit, Clips
<1>2. UNCHANGED <<preset, orphaned>> /\ DocOK(doc)
  BY DEF RenameInput, GraphInv
<1>3. /\ DocOK(doc') /\ (OrderOK(doc) => OrderOK(doc')) /\ Ids(doc') = Ids(doc)
      /\ InputRefsOK(doc) /\ ~Clips(doc, name) => InputRefsOK(doc')
  <2>1. desired \in Names
    BY NamesTyped
  <2> QED BY <1>1, <1>2, <2>1, RenameInputKept
<1>4. clipped' \in BOOLEAN /\ (clipped' \/ InputRefsOK(doc'))
  BY <1>1, <1>3 DEF GraphInv
<1> QED BY <1>2, <1>3, <1>4 DEF GraphInv

\* A wire on the canvas, from a node or an input.
LEMMA WiredKept ==
    ASSUME NEW d, DocOK(d), NEW target \in Ids(d), NEW shape, NEW leaf \in Leaf,
           leaf.kind = "node" => leaf.name \in Ids(d), leaf.kind = "input" => leaf.name \in d.inputs
    PROVE  LET e == [d EXCEPT !.nodes[target].arg = Wired(@, leaf, shape)]
           IN  Kept(d, e) /\ Ids(e) = Ids(d)
<1>1. PICK value : value = IF shape = "plain" THEN Plain(leaf) ELSE List(leaf)
  OBVIOUS
<1>2. value \in Value /\ value.leaf = leaf
  BY <1>1 DEF Plain, List, Value
<1>3. [d EXCEPT !.nodes[target].arg = Wired(@, leaf, shape)] = [d EXCEPT !.nodes[target].arg = value]
  BY <1>1 DEF Wired
<1> QED BY <1>2, <1>3, ArgumentKept

LEMMA ConnectPreserves == GraphInv /\ Connect => GraphInv'
<1> SUFFICES ASSUME GraphInv, Connect PROVE GraphInv'
  OBVIOUS
<1>1. UNCHANGED <<preset, clipped, orphaned>> /\ DocOK(doc) /\ Ids(doc) \in SUBSET Names /\ doc.inputs \in SUBSET Names
  BY DEF Connect, Pure, GraphInv, DocOK, NodesOK, EndsOK
<1>2. PICK target \in Ids(doc), shape \in {"plain", "list"} :
        \/ \E source \in Ids(doc) : doc' = connectNodeOutput(doc, source, target, shape)
        \/ \E name \in doc.inputs : doc' = connectGraphInput(doc, name, target, shape)
        \/ \E source \in Ids(doc) : doc' = connectOrderingDependency(doc, source, target)
  BY DEF Connect, Commit
<1>3. CASE \E source \in Ids(doc) : doc' = connectNodeOutput(doc, source, target, shape)
  <2>1. PICK source \in Ids(doc) : doc' = connectNodeOutput(doc, source, target, shape)
    BY <1>3
  <2>2. PICK leaf : leaf = NodeRef(source)
    OBVIOUS
  <2>3. leaf \in Leaf /\ leaf.kind = "node" /\ leaf.name = source
    BY <1>1, <2>2 DEF NodeRef, Leaf
  <2>4. doc' = [doc EXCEPT !.nodes[target].arg = Wired(@, leaf, shape)]
    BY <2>1, <2>2 DEF connectNodeOutput
  <2>5. Kept(doc, doc') /\ Ids(doc') = Ids(doc)
    BY <1>1, <2>3, <2>4, WiredKept
  <2> QED BY <1>1, <2>5, KeptStepInPlace
<1>4. CASE \E name \in doc.inputs : doc' = connectGraphInput(doc, name, target, shape)
  <2>1. PICK name \in doc.inputs : doc' = connectGraphInput(doc, name, target, shape)
    BY <1>4
  <2>2. PICK leaf : leaf = InputRef(name)
    OBVIOUS
  <2>3. leaf \in Leaf /\ leaf.kind = "input" /\ leaf.name = name
    BY <1>1, <2>2 DEF InputRef, Leaf
  <2>4. doc' = [doc EXCEPT !.nodes[target].arg = Wired(@, leaf, shape)]
    BY <2>1, <2>2 DEF connectGraphInput
  <2>5. Kept(doc, doc') /\ Ids(doc') = Ids(doc)
    BY <1>1, <2>3, <2>4, WiredKept
  <2> QED BY <1>1, <2>5, KeptStepInPlace
<1>5. CASE \E source \in Ids(doc) : doc' = connectOrderingDependency(doc, source, target)
  <2>1. PICK source \in Ids(doc) : doc' = connectOrderingDependency(doc, source, target)
    BY <1>5
  <2>2. PICK deps : deps = doc.nodes[target].deps \cup {source}
    OBVIOUS
  <2>3. deps \in Ordering
    <3>1. doc.nodes[target] \in GraphNode
      BY <1>1 DEF DocOK, NodesOK
    <3>2. doc.nodes[target].deps \in Ordering
      BY <3>1 DEF GraphNode
    <3> QED BY <1>1, <2>2, <3>2, Orderings
  <2>4. doc' = [doc EXCEPT !.nodes[target].deps = deps]
    BY <1>1, <2>1, <2>2 DEF connectOrderingDependency, DocOK, IsDocument, NodesOK
  <2>5. Kept(doc, doc') /\ Ids(doc') = Ids(doc)
    <3>1. deps \subseteq doc.nodes[target].deps \cup Ids(doc)
      BY <2>1, <2>2
    <3> QED BY <1>1, <2>3, <2>4, <3>1, OrderingKept
  <2> QED BY <1>1, <2>5, KeptStepInPlace
<1> QED BY <1>2, <1>3, <1>4, <1>5

\* The outputs are exposed, moved and renamed.
LEMMA OutputsPreserve == GraphInv /\ (ExposeOutput \/ ChangeOutputSource \/ RenameOutput) => GraphInv'
<1> SUFFICES ASSUME GraphInv, ExposeOutput \/ ChangeOutputSource \/ RenameOutput PROVE GraphInv'
  OBVIOUS
<1>1. UNCHANGED <<preset, clipped, orphaned>> /\ DocOK(doc) /\ doc.outputs \in [DOMAIN doc.outputs -> Ids(doc)]
  BY DEF ExposeOutput, ChangeOutputSource, RenameOutput, Pure, GraphInv, DocOK, EndsOK
<1>2. PICK outputs : outputs \in [DOMAIN outputs -> Ids(doc)] /\ doc' = [doc EXCEPT !.outputs = outputs]
  <2>1. CASE ExposeOutput
    <3>1. PICK source \in Ids(doc) : doc' = addGraphOutput(doc, source)
      BY <2>1 DEF ExposeOutput, Commit
    <3>2. PICK name : name = uniqueId(<<"out">>, DOMAIN doc.outputs)
      OBVIOUS
    <3>3. PICK outputs : outputs = With(doc.outputs, name, source)
      OBVIOUS
    <3>4. doc' = [doc EXCEPT !.outputs = outputs]
      BY <1>1, <3>1, <3>2, <3>3 DEF addGraphOutput, DocOK, IsDocument
    <3>5. outputs \in [DOMAIN outputs -> Ids(doc)]
      BY <1>1, <3>3 DEF With
    <3> QED BY <3>4, <3>5
  <2>2. CASE ChangeOutputSource
    <3>1. PICK name \in DOMAIN doc.outputs, source \in Ids(doc) : doc' = connectGraphOutput(doc, name, source)
      BY <2>2 DEF ChangeOutputSource, Commit
    <3>2. PICK outputs : outputs = [doc.outputs EXCEPT ![name] = source]
      OBVIOUS
    <3>3. doc' = [doc EXCEPT !.outputs = outputs]
      BY <1>1, <3>1, <3>2 DEF connectGraphOutput, DocOK, IsDocument
    <3>4. outputs \in [DOMAIN outputs -> Ids(doc)]
      BY <1>1, <3>2
    <3> QED BY <3>3, <3>4
  <2>3. CASE RenameOutput
    <3>1. PICK name \in DOMAIN doc.outputs, desired \in NewNames \ DOMAIN doc.outputs :
            doc' = renameGraphOutput(doc, name, desired)
      BY <2>3 DEF RenameOutput, Commit
    <3>2. PICK outputs : outputs = Renamed(doc.outputs, name, desired)
      OBVIOUS
    <3>3. doc' = [doc EXCEPT !.outputs = outputs]
      BY <1>1, <3>1, <3>2 DEF renameGraphOutput, DocOK, IsDocument
    <3>4. outputs \in [DOMAIN outputs -> Ids(doc)]
      BY <1>1, <3>2 DEF Renamed
    <3> QED BY <3>3, <3>4
  <2> QED BY <2>1, <2>2, <2>3
<1>3. Kept(doc, doc') /\ Ids(doc') = Ids(doc)
  BY <1>1, <1>2, OutputsKept
<1> QED BY <1>1, <1>3, KeptStepInPlace

LEMMA RemoveOutputsKept ==
    ASSUME NEW d, DocOK(d), NEW names
    PROVE  Kept(d, removeOutputs(d, names)) /\ Ids(removeOutputs(d, names)) = Ids(d)
<1>1. PICK outputs : outputs = Without(d.outputs, names)
  OBVIOUS
<1>2. outputs \in [DOMAIN outputs -> Ids(d)]
  BY <1>1 DEF DocOK, EndsOK, Without, Restrict
<1>3. removeOutputs(d, names) = [d EXCEPT !.outputs = outputs]
  BY <1>1 DEF removeOutputs, DocOK, IsDocument
<1> QED BY <1>2, <1>3, OutputsKept

LEMMA DeleteElementsKept ==
    ASSUME NEW d, DocOK(d), NEW nodes \in SUBSET Ids(d), NEW inputs, NEW outputs,
           NEW edgeSet, IsFiniteSet(edgeSet), \A edge \in edgeSet : IsEdge(d, edge)
    PROVE  /\ Kept(d, deleteElements(d, nodes, inputs, outputs, edgeSet))
           /\ Ids(deleteElements(d, nodes, inputs, outputs, edgeSet)) = Ids(d) \ nodes
           /\ Fewer(d.nodes, deleteElements(d, nodes, inputs, outputs, edgeSet).nodes)
<1>1. PICK d1 : d1 = removeEdges(d, edgeSet)
  OBVIOUS
<1>2. Kept(d, d1) /\ Ids(d1) = Ids(d) /\ DocOK(d1) /\ Fewer(d.nodes, d1.nodes)
  BY <1>1, EdgesKeptInTurn DEF Kept
<1>3. PICK d2 : d2 = removeNodes(d1, nodes)
  OBVIOUS
<1>4. Kept(d1, d2) /\ Ids(d2) = Ids(d) \ nodes /\ DocOK(d2) /\ Fewer(d1.nodes, d2.nodes)
  BY <1>2, <1>3, NodesKeptInTurn DEF Kept
<1>5. PICK d3 : d3 = removeInputs(d2, inputs)
  OBVIOUS
<1>6. Kept(d2, d3) /\ Ids(d3) = Ids(d2) /\ DocOK(d3) /\ Fewer(d2.nodes, d3.nodes)
  BY <1>4, <1>5, RemoveInputsKept DEF Kept
<1>7. PICK d4 : d4 = removeOutputs(d3, outputs)
  OBVIOUS
<1>8. Kept(d3, d4) /\ Ids(d4) = Ids(d3) /\ d4.nodes = d3.nodes
  BY <1>6, <1>7, RemoveOutputsKept DEF removeOutputs, DocOK, IsDocument
<1>9. deleteElements(d, nodes, inputs, outputs, edgeSet) = d4
  BY <1>1, <1>3, <1>5, <1>7 DEF deleteElements
<1>10. Kept(d, d4)
  BY <1>2, <1>4, <1>6, <1>8, KeptOn
<1>11. Fewer(d.nodes, d4.nodes)
  BY <1>2, <1>4, <1>6, <1>8, FewerOn
<1> QED BY <1>4, <1>6, <1>8, <1>9, <1>10, <1>11

LEMMA DeletePreserves == GraphInv /\ DeleteElements => GraphInv'
<1> SUFFICES ASSUME GraphInv, DeleteElements PROVE GraphInv'
  OBVIOUS
<1>1. UNCHANGED <<preset, clipped, orphaned>> /\ DocOK(doc)
  BY DEF DeleteElements, Pure, GraphInv
<1>2. IsFiniteSet(CanvasEdges(doc)) /\ \A edge \in CanvasEdges(doc) : IsEdge(doc, edge)
  BY <1>1, CanvasEdgesAre
<1>3. \/ \E nodes \in SUBSET Ids(doc), inputs \in SUBSET doc.inputs, outputs \in SUBSET DOMAIN doc.outputs :
            \E edgeSet \in SUBSET CanvasEdges(doc) : doc' = deleteElements(doc, nodes, inputs, outputs, edgeSet)
      \/ \E edge \in CanvasEdges(doc) : doc' = removeEdges(doc, {edge})
  BY DEF DeleteElements, Commit
<1>4. CASE \E nodes \in SUBSET Ids(doc), inputs \in SUBSET doc.inputs, outputs \in SUBSET DOMAIN doc.outputs :
             \E edgeSet \in SUBSET CanvasEdges(doc) : doc' = deleteElements(doc, nodes, inputs, outputs, edgeSet)
  <2>1. PICK nodes \in SUBSET Ids(doc), inputs \in SUBSET doc.inputs, outputs \in SUBSET DOMAIN doc.outputs :
          \E edgeSet \in SUBSET CanvasEdges(doc) : doc' = deleteElements(doc, nodes, inputs, outputs, edgeSet)
    BY <1>4
  <2>2. PICK edgeSet \in SUBSET CanvasEdges(doc) : doc' = deleteElements(doc, nodes, inputs, outputs, edgeSet)
    BY <2>1
  <2>3. IsFiniteSet(edgeSet) /\ \A edge \in edgeSet : IsEdge(doc, edge)
    BY <1>2, <2>2, FS_Subset
  <2>4. Kept(doc, doc') /\ Ids(doc') = Ids(doc) \ nodes
    BY <1>1, <2>1, <2>2, <2>3, DeleteElementsKept
  <2> QED BY <1>1, <2>4, KeptStepInPlace
<1>5. CASE \E edge \in CanvasEdges(doc) : doc' = removeEdges(doc, {edge})
  <2>1. PICK edge \in CanvasEdges(doc) : doc' = removeEdges(doc, {edge})
    BY <1>5
  <2>2. PICK edgeSet : edgeSet = {edge}
    OBVIOUS
  <2>3. IsFiniteSet(edgeSet) /\ \A e \in edgeSet : IsEdge(doc, e)
    BY <1>2, <2>1, <2>2, FS_Singleton
  <2>4. Kept(doc, doc') /\ Ids(doc') = Ids(doc)
    BY <1>1, <2>1, <2>2, <2>3, EdgesKeptInTurn
  <2> QED BY <1>1, <2>4, KeptStepInPlace
<1> QED BY <1>3, <1>4, <1>5

LEMMA InspectorDeletePreserves == GraphInv /\ InspectorDelete => GraphInv'
<1> SUFFICES ASSUME GraphInv, InspectorDelete PROVE GraphInv'
  OBVIOUS
<1>1. UNCHANGED <<preset, clipped, orphaned>> /\ DocOK(doc) /\ doc.x = [id \in Ids(doc) |-> doc.x[id]]
  BY DEF InspectorDelete, Pure, GraphInv, DocOK, PlacesOK
<1>2. CASE \E id \in Ids(doc) : doc' = removeNodes(doc, {id})
  <2>1. PICK nodes \in SUBSET Ids(doc) : doc' = removeNodes(doc, nodes)
    BY <1>2
  <2>2. Kept(doc, doc') /\ Ids(doc') = Ids(doc) \ nodes
    BY <1>1, <2>1, NodesKeptInTurn
  <2> QED BY <1>1, <2>2, KeptStepInPlace
<1>3. CASE \E name \in doc.inputs : doc' = removeInputs(doc, {name})
  BY <1>1, <1>3, RemoveInputsKept, KeptStepInPlace
<1>4. CASE \E name \in DOMAIN doc.groups : doc' = removeEditorItems(doc, {name})
  <2>1. PICK name : doc' = removeEditorItems(doc, {name})
    BY <1>4
  <2>2. PICK groups : groups = Without(doc.groups, {name})
    OBVIOUS
  <2>3. doc' = Arranged(doc, doc.x, groups, doc.sets)
    BY <1>1, <2>1, <2>2 DEF removeEditorItems, DocOK, IsDocument, Arranged
  <2>4. OrderOK(doc) => \A n \in DOMAIN groups : groups[n] \subseteq Ids(doc)
    BY <2>2 DEF OrderOK, Without, Restrict
  <2>5. OrderOK(doc) => \A n \in DOMAIN doc.sets : doc.sets[n] \subseteq Ids(doc)
    BY DEF OrderOK
  <2>6. Kept(doc, doc') /\ Ids(doc') = Ids(doc)
    BY <1>1, <2>3, <2>4, <2>5, SidecarKept
  <2> QED BY <1>1, <2>6, KeptStepInPlace
<1>5. CASE \E name \in DOMAIN doc.sets : doc' = [doc EXCEPT !.sets = Without(@, {name})]
  <2>1. PICK name : doc' = [doc EXCEPT !.sets = Without(@, {name})]
    BY <1>5
  <2>2. PICK sets : sets = Without(doc.sets, {name})
    OBVIOUS
  <2>3. doc' = Arranged(doc, doc.x, doc.groups, sets)
    BY <1>1, <2>1, <2>2 DEF DocOK, IsDocument, Arranged
  <2>4. OrderOK(doc) => \A n \in DOMAIN sets : sets[n] \subseteq Ids(doc)
    BY <2>2 DEF OrderOK, Without, Restrict
  <2>5. OrderOK(doc) => \A n \in DOMAIN doc.groups : doc.groups[n] \subseteq Ids(doc)
    BY DEF OrderOK
  <2>6. Kept(doc, doc') /\ Ids(doc') = Ids(doc)
    BY <1>1, <2>3, <2>4, <2>5, SidecarKept
  <2> QED BY <1>1, <2>6, KeptStepInPlace
<1> QED BY <1>2, <1>3, <1>4, <1>5 DEF InspectorDelete, Commit

LEMMA GroupPreserves == GraphInv /\ GroupSelection => GraphInv'
<1> SUFFICES ASSUME GraphInv, GroupSelection PROVE GraphInv'
  OBVIOUS
<1>1. UNCHANGED <<preset, clipped, orphaned>> /\ DocOK(doc) /\ doc.x = [id \in Ids(doc) |-> doc.x[id]]
  BY DEF GroupSelection, Pure, GraphInv, DocOK, PlacesOK
<1>2. PICK ids \in Selections : doc' = addEditorGroup(doc, ids) \/ doc' = saveEditorSelection(doc, ids)
  BY DEF GroupSelection, Commit
<1>3. OrderOK(doc) => ids \subseteq Ids(doc)
  BY <1>2 DEF OrderOK, Selections, Range
<1>4. PICK groupName, setName :
        groupName = uniqueId(<<"group">>, DOMAIN doc.groups) /\ setName = uniqueId(<<"selection">>, DOMAIN doc.sets)
  OBVIOUS
<1>5. PICK groups, sets : groups = With(doc.groups, groupName, ids) /\ sets = With(doc.sets, setName, ids)
  OBVIOUS
<1>6. /\ OrderOK(doc) => \A n \in DOMAIN groups : groups[n] \subseteq Ids(doc)
      /\ OrderOK(doc) => \A n \in DOMAIN sets : sets[n] \subseteq Ids(doc)
      /\ OrderOK(doc) => \A n \in DOMAIN doc.groups : doc.groups[n] \subseteq Ids(doc)
      /\ OrderOK(doc) => \A n \in DOMAIN doc.sets : doc.sets[n] \subseteq Ids(doc)
  BY <1>3, <1>5 DEF OrderOK, With
<1>7. \/ doc' = Arranged(doc, doc.x, groups, doc.sets)
      \/ doc' = Arranged(doc, doc.x, doc.groups, sets)
  BY <1>1, <1>2, <1>4, <1>5 DEF addEditorGroup, saveEditorSelection, DocOK, IsDocument, Arranged
<1>8. Kept(doc, doc') /\ Ids(doc') = Ids(doc)
  BY <1>1, <1>6, <1>7, SidecarKept
<1> QED BY <1>1, <1>8, KeptStepInPlace

LEMMA MovePreserves == GraphInv /\ MoveElements => GraphInv'
<1> SUFFICES ASSUME GraphInv, MoveElements PROVE GraphInv'
  OBVIOUS
<1>1. UNCHANGED <<preset, clipped, orphaned>> /\ DocOK(doc) /\ doc.x = [id \in Ids(doc) |-> doc.x[id]]
  BY DEF MoveElements, Pure, GraphInv, DocOK, PlacesOK
<1>2. PICK x : x = [id \in Ids(doc) |-> x[id]]
               /\ doc' = Arranged(doc, x, doc.groups, doc.sets)
  <2>1. CASE doc' = autoLayoutGraph(doc)
    <3>1. PICK layers, origin : layers = graphLayers(doc) /\ origin = IF doc.inputs = {} THEN 80 ELSE 328
      OBVIOUS
    <3>2. PICK x : x = [id \in Ids(doc) |-> origin + layers[id] * EDITOR_COLUMN_SPACING]
      OBVIOUS
    <3>3. doc' = [doc EXCEPT !.x = x]
      BY <2>1, <3>1, <3>2 DEF autoLayoutGraph
    <3>4. doc' = Arranged(doc, x, doc.groups, doc.sets)
      BY <1>1, <3>3 DEF DocOK, IsDocument, Arranged
    <3> QED BY <3>2, <3>4
  <2>2. CASE \E id \in Ids(doc) : doc' = moveElement(doc, id, 16)
    <3>1. PICK id \in Ids(doc) : doc' = moveElement(doc, id, 16)
      BY <2>2
    <3>2. PICK x : x = [doc.x EXCEPT ![id] = 16]
      OBVIOUS
    <3>3. doc' = Arranged(doc, x, doc.groups, doc.sets)
      BY <1>1, <3>1, <3>2 DEF moveElement, DocOK, IsDocument, Arranged
    <3>4. x = [i \in Ids(doc) |-> x[i]]
      BY <1>1, <3>2
    <3> QED BY <3>3, <3>4
  <2> QED BY <2>1, <2>2 DEF MoveElements, Commit
<1>3. /\ OrderOK(doc) => \A n \in DOMAIN doc.groups : doc.groups[n] \subseteq Ids(doc)
      /\ OrderOK(doc) => \A n \in DOMAIN doc.sets : doc.sets[n] \subseteq Ids(doc)
  BY DEF OrderOK
<1>4. Kept(doc, doc') /\ Ids(doc') = Ids(doc)
  BY <1>1, <1>2, <1>3, SidecarKept
<1> QED BY <1>1, <1>4, KeptStepInPlace

\* What is captured refers to nothing outside of it.
LEMMA CapturedIs ==
    ASSUME NEW d, DocOK(d), Cardinality(Ids(d)) <= MaxNodes, NEW ids, CanCapture(d, ids)
    PROVE  IsPreset(capturePreset(d, ids))
<1>1. PICK p : p = capturePreset(d, ids)
  OBVIOUS
<1>2. /\ p.nodes = [id \in ids |-> d.nodes[id]] /\ p.x = [id \in ids |-> d.x[id]]
      /\ p = [nodes |-> p.nodes, x |-> p.x]
  BY <1>1 DEF capturePreset, Restrict
<1>3. ids \subseteq Ids(d) /\ Ids(d) \in SUBSET Names /\ IsFiniteSet(Ids(d)) /\ d.nodes \in [Ids(d) -> GraphNode]
  BY DEF CanCapture, DocOK, NodesOK
<1>4. IsFiniteSet(ids) /\ Cardinality(ids) <= MaxNodes
  <2>1. PICK all : all = Ids(d) /\ IsFiniteSet(all) /\ ids \in SUBSET all
    BY <1>3
  <2>2. IsFiniteSet(ids) /\ Cardinality(ids) <= Cardinality(all) /\ Cardinality(ids) \in Nat /\ Cardinality(all) \in Nat
    BY <2>1, FS_Subset, FS_CardinalityType
  <2> QED BY <2>1, <2>2, EditAssumption
<1>5. ASSUME NEW id \in ids
      PROVE  /\ d.nodes[id].deps \subseteq ids /\ d.nodes[id].arg.leaf.kind # "input"
             /\ d.nodes[id].arg.leaf.kind = "node" => d.nodes[id].arg.leaf.name \in ids
  <2>1. PICK leaf : leaf = d.nodes[id].arg.leaf
    OBVIOUS
  <2>2. d.nodes[id].deps \subseteq ids /\ {leaf} \ {Literal, Null} \subseteq {NodeRef(s) : s \in ids}
    BY <2>1 DEF CanCapture, referencesIn
  <2>3. leaf = Literal \/ leaf = Null \/ \E s \in ids : leaf = NodeRef(s)
    BY <2>2
  <2> QED BY <2>1, <2>2, <2>3 DEF Literal, Null, NodeRef
<1> QED BY <1>1, <1>2, <1>3, <1>4, <1>5 DEF IsPreset

LEMMA SavePresetPreserves == GraphInv /\ SaveReusablePreset => GraphInv'
<1> SUFFICES ASSUME GraphInv, SaveReusablePreset PROVE GraphInv'
  OBVIOUS
<1>1. PICK ids : CanCapture(doc, ids) /\ preset' = capturePreset(doc, ids)
  BY DEF SaveReusablePreset
<1>2. UNCHANGED <<doc, clipped, orphaned>>
  BY DEF SaveReusablePreset
<1>3. IsPreset(preset')
  BY <1>1, CapturedIs DEF GraphInv
<1> QED BY <1>2, <1>3 DEF GraphInv

LEMMA AddPresetPreserves == GraphInv /\ AddPreset => GraphInv'
<1> SUFFICES ASSUME GraphInv, AddPreset PROVE GraphInv'
  OBVIOUS
<1>1. PICK order \in Orders(preset) : doc' = insertPreset(doc, preset, order)
  BY DEF AddPreset, Commit
<1>2. /\ UNCHANGED <<preset, clipped, orphaned>> /\ DocOK(doc) /\ Cardinality(Ids(doc)) <= MaxNodes
      /\ IsPreset(preset) /\ Cardinality(Ids(doc)) + Cardinality(DOMAIN preset.nodes) <= MaxNodes
  BY DEF AddPreset, Pure, GraphInv
<1>3. Kept(doc, doc')
  BY <1>1, <1>2, InsertKept
<1>4. PICK ids : ids = NewIds(doc, order)
  OBVIOUS
<1>5. Ids(doc') = Ids(doc) \cup {ids[s] : s \in DOMAIN preset.nodes}
  <2>1. Inserted(doc, preset, ids, doc')
    BY <1>1, <1>2, <1>4, InsertedAre
  <2> QED BY <2>1 DEF Inserted
<1>6. Cardinality(Ids(doc')) <= MaxNodes
  <2>1. PICK S, old : S = DOMAIN preset.nodes /\ old = Ids(doc)
    OBVIOUS
  <2>2. IsFiniteSet(S) /\ IsFiniteSet(old)
    BY <1>2, <2>1 DEF IsPreset, DocOK, NodesOK
  <2>3. PICK new : new = {ids[s] : s \in S}
    OBVIOUS
  <2>4. IsFiniteSet(new) /\ Cardinality(new) <= Cardinality(S)
    BY <2>2, <2>3, ImageIsFinite
  <2>5. Cardinality(old \cup new) = Cardinality(old) + Cardinality(new) - Cardinality(old \cap new)
        /\ IsFiniteSet(old \cup new) /\ IsFiniteSet(old \cap new)
    BY <2>2, <2>4, FS_Union, FS_Intersection
  <2>6. /\ Cardinality(old) \in Nat /\ Cardinality(new) \in Nat /\ Cardinality(S) \in Nat
        /\ Cardinality(old \cap new) \in Nat
    BY <2>2, <2>4, <2>5, FS_CardinalityType
  <2>7. Cardinality(old) + Cardinality(S) <= MaxNodes
    BY <1>2, <2>1
  <2>8. Ids(doc') = old \cup new
    BY <1>5, <2>1, <2>3
  <2> QED BY <2>4, <2>5, <2>6, <2>7, <2>8, EditAssumption
<1> QED BY <1>2, <1>3, <1>6, KeptStep

\* Whatever the user does, the document stays whole: this is the invariant the
\* theorems about the editor follow from.
THEOREM GraphsAreKnown == Spec => []GraphInv
<1>1. GraphInv /\ [Next]_vars => GraphInv'
  <2> SUFFICES ASSUME GraphInv, [Next]_vars PROVE GraphInv'
    OBVIOUS
  <2>1. CASE Next
    BY <2>1, AddNodePreserves, ArgumentChangePreserves, PromotePreserves, InlinePreserves, RenameNodePreserves,
       AddInputPreserves, RenameInputPreserves, ConnectPreserves, OutputsPreserve, DeletePreserves,
       InspectorDeletePreserves, GroupPreserves, SavePresetPreserves, AddPresetPreserves, MovePreserves DEF Next
  <2>2. CASE UNCHANGED vars
    BY <2>2 DEF vars, GraphInv
  <2> QED BY <2>1, <2>2
<1> QED BY GraphInit, <1>1, PTL DEF Spec

\* The sidecar follows the graph: every node has a place, and promotions, groups
\* and selections name nodes that are there.
THEOREM SidecarFollowsGraphAlways == Spec => []SidecarFollowsGraph
<1>1. GraphInv => SidecarFollowsGraph
  <2> SUFFICES ASSUME GraphInv PROVE SidecarFollowsGraph
    OBVIOUS
  <2>1. DOMAIN doc.x = Ids(doc) /\ doc.values = doc.inputs
    BY DEF GraphInv, DocOK, PlacesOK, EndsOK
  <2>2. \A m \in DOMAIN doc.promotions : {m, doc.promotions[m].consumer} \subseteq Ids(doc)
    <3>1. \A m \in DOMAIN doc.promotions : IsPromotion(doc, m)
      BY DEF GraphInv, DocOK, PromotionsOK
    <3>2. \A m \in DOMAIN doc.promotions : m \in Ids(doc) /\ doc.promotions[m].consumer \in Ids(doc)
      BY <3>1 DEF IsPromotion
    <3> QED BY <3>2
  <2>3. orphaned \/ \A ids \in Range(doc.groups) \cup Range(doc.sets) : ids \subseteq Ids(doc)
    BY DEF GraphInv, OrderOK, Range
  <2> QED BY <2>1, <2>2, <2>3 DEF SidecarFollowsGraph
<1> QED BY <1>1, GraphsAreKnown, PTL

\* No edit leaves a reference to what is gone: deletions, renames, promotions and
\* inserted presets take the references in arguments, lists, orderings and outputs
\* with them.
THEOREM ReferencesAlwaysResolve == Spec => []ReferencesResolve
<1>1. GraphInv => ReferencesResolve
  <2> SUFFICES ASSUME GraphInv PROVE ReferencesResolve
    OBVIOUS
  <2>1. ASSUME NEW id \in Ids(doc), NEW r \in referencesIn(doc.nodes[id].arg)
        PROVE  \/ r.kind = "node" /\ r.name \in Ids(doc) \cup {<<>>}
               \/ r.kind = "input" /\ (r.name \in doc.inputs \/ clipped)
    <3>1. r = doc.nodes[id].arg.leaf /\ r # Literal /\ r # Null
      BY DEF referencesIn
    <3>2. doc.nodes[id] \in GraphNode
      BY DEF GraphInv, DocOK, NodesOK
    <3>3. r \in Leaf
      BY <3>1, <3>2 DEF GraphNode, Value
    <3>4. r.kind \in {"node", "input"}
      BY <3>1, <3>3 DEF Leaf, Literal, Null
    <3> QED BY <3>1, <3>4 DEF GraphInv, DocOK, NodesOK, InputRefsOK
  <2>2. \A id \in Ids(doc) : doc.nodes[id].deps \subseteq Ids(doc) \/ orphaned
    BY DEF GraphInv, OrderOK
  <2>3. Range(doc.outputs) \subseteq Ids(doc)
    BY DEF GraphInv, DocOK, EndsOK, Range
  <2> QED BY <2>1, <2>2, <2>3 DEF ReferencesResolve
<1> QED BY <1>1, GraphsAreKnown, PTL

\* A value that was promoted goes back where it came from, and the card with it.
LEMMA InlineTakesBack ==
    ASSUME NEW d, DocOK(d), Cardinality(Ids(d)) <= MaxNodes, NEW id \in Ids(d), CanPromote(d, id),
           NEW targets, targets = {id} \/ targets = Ids(promoteNodeArgument(d, id))
    PROVE  /\ CanInline(promoteNodeArgument(d, id), materialId(d, id), targets)
           /\ inlineMaterialNode(promoteNodeArgument(d, id), materialId(d, id), targets) = d
<1>1. PICK m : m = materialId(d, id)
  OBVIOUS
<1>2. m \notin Ids(d) /\ m # <<>> /\ id # m
  BY <1>1, MaterialIsNew
<1>3. PICK node \in GraphNode : node = d.nodes[id]
  BY DEF DocOK, NodesOK
<1>4. PICK material : material = [kind |-> "value", arg |-> node.arg, deps |-> {}]
  OBVIOUS
<1>5. PICK nodes : nodes = [d.nodes EXCEPT ![id].arg = Plain(NodeRef(m))]
  OBVIOUS
<1>6. PICK leaf : leaf = NodeRef(m)
  OBVIOUS
<1>7. DOMAIN d.nodes = Ids(d) /\ d.nodes \in [Ids(d) -> GraphNode]
  BY DEF DocOK, NodesOK
<1>8. /\ DOMAIN nodes = Ids(d) /\ nodes[id] = [node EXCEPT !.arg = Plain(leaf)]
      /\ \A i \in Ids(d) \ {id} : nodes[i] = d.nodes[i]
  BY <1>3, <1>5, <1>6, <1>7
<1>9. PICK x : x = d.x[id]
  OBVIOUS
<1>10. d.x = [i \in Ids(d) |-> d.x[i]] /\ DOMAIN d.x = Ids(d)
  BY DEF DocOK, PlacesOK
<1>11. PICK p : p = promoteNodeArgument(d, id)
  OBVIOUS
<1>12. PICK note : note = [consumer |-> id, x |-> x]
  OBVIOUS
<1>13. /\ p.nodes = With(nodes, m, material) /\ p.inputs = d.inputs /\ p.values = d.values
       /\ p.outputs = d.outputs /\ p.groups = d.groups /\ p.sets = d.sets
       /\ p.x = positionMaterialNode(d.x, id, x, m)
       /\ p.promotions = With(d.promotions, m, note)
       /\ IsDocument(p)
  <2>1. PICK place, notes : place = positionMaterialNode(d.x, id, x, m) /\ notes = With(d.promotions, m, note)
    OBVIOUS
  <2>2. PICK filled : filled = With(nodes, m, material)
    OBVIOUS
  <2>3. x = IF id \in DOMAIN d.x THEN d.x[id] ELSE 360
    BY <1>9, <1>10
  <2>4. p = [d EXCEPT !.nodes = With([d.nodes EXCEPT ![id].arg = Plain(NodeRef(m))], m,
                                     [kind |-> "value", arg |-> d.nodes[id].arg, deps |-> {}]),
                      !.x = positionMaterialNode(@, id, x, m),
                      !.promotions = With(@, m, [consumer |-> id, x |-> x])]
    BY <1>1, <1>11, <2>3 DEF promoteNodeArgument
  <2>5. p = Promoted(d, filled, place, notes)
    BY <1>3, <1>4, <1>5, <1>12, <2>1, <2>2, <2>4 DEF Promoted
  <2>6. /\ p.nodes = filled /\ p.inputs = d.inputs /\ p.values = d.values
        /\ p.outputs = d.outputs /\ p.groups = d.groups /\ p.sets = d.sets
        /\ p.x = place /\ p.promotions = notes /\ IsDocument(p)
    <3>1. IsDocument(d)
      BY DEF DocOK
    <3> QED BY <2>5, <3>1, PromotedFields
  <2> QED BY <2>1, <2>2, <2>6
<1>14. /\ Ids(p) = Ids(d) \cup {m} /\ p.nodes[m] = material /\ p.nodes[id] = [node EXCEPT !.arg = Plain(leaf)]
       /\ \A i \in Ids(d) \ {id} : p.nodes[i] = d.nodes[i]
  BY <1>2, <1>8, <1>13 DEF Ids, With
\* Nothing else refers to the new node.
<1>15. \A i \in Ids(d) : d.nodes[i].arg.leaf # leaf
  BY <1>2, <1>6 DEF DocOK, NodesOK, NodeRef
<1>16. \A name \in DOMAIN d.outputs : d.outputs[name] # m /\ NodeRef(d.outputs[name]) # leaf
  BY <1>2, <1>6 DEF DocOK, EndsOK, NodeRef
<1>17. CanInline(p, m, targets)
  <2>1. node.arg # Absent /\ ~isGraphReference(node.arg)
    BY <1>3 DEF CanPromote
  <2> QED BY <1>4, <1>13, <1>14, <1>16, <2>1 DEF CanInline
<1>18. PICK left : left = [i \in Ids(p) |-> IF i \in targets THEN [p.nodes[i] EXCEPT !.arg = Inlined(@, leaf, node.arg)]
                                            ELSE p.nodes[i]]
  OBVIOUS
<1>19. left[m] = material
  <2>1. Inlined(node.arg, leaf, node.arg) = node.arg
    BY <1>3, <1>15 DEF Inlined
  <2>2. [material EXCEPT !.arg = Inlined(@, leaf, node.arg)] = material
    BY <1>4, <2>1
  <2> QED BY <1>14, <1>18, <2>2
<1>20. left[id] = d.nodes[id]
  <2>1. id \in targets /\ id \in Ids(p)
    BY <1>11, <1>14
  <2>2. Inlined(Plain(leaf), leaf, node.arg) = node.arg
    BY DEF Inlined, Plain
  <2>3. PICK consumer : consumer = [node EXCEPT !.arg = Plain(leaf)]
    OBVIOUS
  <2>4. /\ consumer.arg = Plain(leaf) /\ [consumer EXCEPT !.arg = node.arg] = node
    BY <2>3 DEF GraphNode
  <2>5. left[id] = [consumer EXCEPT !.arg = Inlined(@, leaf, node.arg)]
    BY <1>14, <1>18, <2>1, <2>3
  <2> QED BY <1>3, <2>2, <2>4, <2>5
<1>21. ASSUME NEW i \in Ids(d) \ {id} PROVE left[i] = d.nodes[i]
  <2>1. PICK other \in GraphNode : other = d.nodes[i]
    BY <1>7
  <2>2. Inlined(other.arg, leaf, node.arg) = other.arg
    BY <1>15, <2>1 DEF Inlined
  <2>3. [other EXCEPT !.arg = Inlined(@, leaf, node.arg)] = other
    BY <2>2 DEF GraphNode
  <2> QED BY <1>14, <1>18, <2>1, <2>3
<1>22. DOMAIN left = Ids(d) \cup {m} /\ left[m] = material /\ \A i \in Ids(d) : left[i] = d.nodes[i]
  BY <1>14, <1>18, <1>19, <1>20, <1>21
<1>23. PICK next : next = [p EXCEPT !.nodes = left]
  OBVIOUS
<1>24. /\ next.nodes = left /\ next.inputs = d.inputs /\ next.values = d.values
       /\ next.outputs = d.outputs /\ next.groups = d.groups /\ next.sets = d.sets
       /\ next.x = p.x /\ next.promotions = p.promotions /\ IsDocument(next)
  BY <1>13, <1>23 DEF IsDocument
<1>25. ~Refers(next, leaf)
  <2>1. \A i \in Ids(next) : next.nodes[i].arg.leaf # leaf
    BY <1>3, <1>4, <1>15, <1>22, <1>24 DEF Ids
  <2> QED BY <1>16, <1>24, <2>1 DEF Refers, referencesIn
<1>26. PICK e : e = deleteMaterialNode(next, m)
  OBVIOUS
<1>27. inlineMaterialNode(p, m, targets) = e
  <2>1. p.nodes[m].arg = node.arg
    BY <1>4, <1>14
  <2> QED BY <1>6, <1>18, <1>23, <1>25, <1>26, <2>1 DEF inlineMaterialNode
<1>28. e.nodes = d.nodes
  <2>1. e.nodes = Without(left, {m})
    BY <1>24, <1>26 DEF deleteMaterialNode, IsDocument
  <2>2. e.nodes = [i \in Ids(d) |-> d.nodes[i]]
    BY <1>2, <1>22, <2>1 DEF Without, Restrict
  <2> QED BY <1>7, <2>2
<1>29. e.promotions = d.promotions
  <2>1. m \notin DOMAIN d.promotions /\ d.promotions = [k \in DOMAIN d.promotions |-> d.promotions[k]]
    BY <1>2 DEF DocOK, PromotionsOK, IsPromotion
  <2>2. e.promotions = Without(With(d.promotions, m, note), {m})
    BY <1>13, <1>24, <1>26 DEF deleteMaterialNode, IsDocument
  <2>3. e.promotions = [k \in DOMAIN d.promotions |-> d.promotions[k]]
    BY <2>1, <2>2 DEF Without, Restrict, With
  <2> QED BY <2>1, <2>3
<1>30. e.x = d.x
  <2>1. m \in DOMAIN next.promotions /\ next.promotions[m] = note
    BY <1>13, <1>24 DEF With
  <2>2. PICK moved : moved = IF x < 360 THEN x + 340 ELSE x
    OBVIOUS
  <2>3. next.x = With(With(d.x, id, moved), m, moved - 340)
    BY <1>13, <1>24, <2>2 DEF positionMaterialNode
  <2>4. PICK y : y = moved - 340
    OBVIOUS
  <2>5. PICK rest : rest = Without(next.x, {m})
    OBVIOUS
  <2>6. rest = [i \in Ids(d) |-> IF i = id THEN moved ELSE d.x[i]]
    BY <1>2, <1>10, <2>3, <2>4, <2>5 DEF Without, Restrict, With
  <2>7. note.consumer = id /\ note.x = x /\ id \in DOMAIN next.x
    BY <1>10, <1>12, <2>3 DEF With
  <2>8. e.x = [rest EXCEPT ![id] = x]
    BY <1>24, <1>26, <2>1, <2>5, <2>7 DEF deleteMaterialNode, IsDocument
  <2> QED BY <1>9, <1>10, <2>6, <2>8
<1>31. /\ e.inputs = d.inputs /\ e.values = d.values /\ e.outputs = d.outputs
       /\ e.groups = d.groups /\ e.sets = d.sets /\ IsDocument(e)
  BY <1>24, <1>26 DEF deleteMaterialNode, IsDocument
<1>32. e = d
  BY <1>28, <1>29, <1>30, <1>31 DEF DocOK, IsDocument
<1> QED BY <1>1, <1>11, <1>17, <1>27, <1>32

\* A promotion can always be taken back: inlined into its consumer or everywhere,
\* the value leaves the document exactly as it was.
THEOREM InlineAlwaysUndoesPromote == Spec => []InlineUndoesPromote
<1>1. GraphInv => InlineUndoesPromote
  BY InlineTakesBack DEF GraphInv, InlineUndoesPromote
<1> QED BY <1>1, GraphsAreKnown, PTL

\* The connections of some nodes.
LEMMA ConnectionsAre ==
    ASSUME NEW nodes, NEW c
    PROVE  c \in Connections(nodes) <=> \E t \in DOMAIN nodes : \E s \in nodeDependencies(nodes[t]) : c = <<s, t>>
BY DEF Connections

\* As many, when each of one kind has its own of the other.
LEMMA AsMany ==
    ASSUME NEW C, IsFiniteSet(C), NEW D, NEW f, f \in [C -> D],
           \A a, b \in C : f[a] = f[b] => a = b, \A e \in D : \E a \in C : f[a] = e
    PROVE  Cardinality(D) = Cardinality(C)
<1>1. f \in Bijection(C, D)
  <2>1. f \in Injection(C, D)
    BY Zenon DEF Injection, IsInjective
  <2>2. f \in Surjection(C, D)
    BY Zenon DEF Surjection
  <2> QED BY <2>1, <2>2 DEF Bijection
<1>2. ExistsBijection(C, D)
  BY <1>1 DEF ExistsBijection
<1> QED BY <1>2, FS_Bijection

LEMMA InsertedIsWhole ==
    ASSUME NEW d, DocOK(d), Cardinality(Ids(d)) <= MaxNodes, NEW p, IsPreset(p), NEW order \in Orders(p)
    PROVE  LET next == insertPreset(d, p, order)
               new == Ids(next) \ Ids(d)
           IN  /\ Restrict(next.nodes, Ids(d)) = d.nodes
               /\ Cardinality(new) = Cardinality(DOMAIN p.nodes)
               /\ p # NoPreset => CanCapture(next, new)
               /\ Cardinality(Connections(Restrict(next.nodes, new))) = Cardinality(Connections(p.nodes))
<1>1. PICK ids : ids = NewIds(d, order)
  OBVIOUS
<1>2. PICK next : next = insertPreset(d, p, order)
  OBVIOUS
<1>3. PICK S : S = DOMAIN p.nodes
  OBVIOUS
<1>4. /\ ids \in [S -> Names] /\ \A s \in S : ids[s] \notin Ids(d)
      /\ \A s, t \in S : ids[s] = ids[t] => s = t
  BY <1>1, <1>3, NewIdsAre
<1>5. Inserted(d, p, ids, next)
  BY <1>1, <1>2, InsertedAre
<1>6. PICK new : new = {ids[s] : s \in S}
  OBVIOUS
<1>7. /\ Ids(next) \ Ids(d) = new /\ DOMAIN next.nodes = Ids(d) \cup new
      /\ \A id \in Ids(d) : next.nodes[id] = d.nodes[id]
      /\ \A s \in S : next.nodes[ids[s]] = Copied(p.nodes[s], ids)
  BY <1>3, <1>4, <1>5, <1>6 DEF Inserted, Ids
<1>8. IsFiniteSet(S)
  BY <1>3 DEF IsPreset
<1>9. Restrict(next.nodes, Ids(d)) = d.nodes
  <2>1. d.nodes = [id \in Ids(d) |-> d.nodes[id]]
    BY DEF DocOK, NodesOK
  <2> QED BY <1>7, <2>1 DEF Restrict
<1>10. Cardinality(new) = Cardinality(S)
  <2>1. ids \in [S -> new]
    BY <1>4, <1>6
  <2> QED BY <1>4, <1>6, <1>8, <2>1, AsMany
<1>11. ASSUME NEW s \in S
       PROVE  LET node == next.nodes[ids[s]]
              IN  /\ node \in GraphNode /\ node.deps \subseteq new /\ node.arg.leaf.kind # "input"
                  /\ node.arg.leaf.kind = "node" => node.arg.leaf.name \in new
  <2>1. next.nodes[ids[s]] = Copied(p.nodes[s], ids)
    BY <1>7
  <2>2. /\ Copied(p.nodes[s], ids) \in GraphNode
        /\ Copied(p.nodes[s], ids).deps \subseteq {ids[t] : t \in DOMAIN p.nodes}
        /\ Copied(p.nodes[s], ids).arg.leaf.kind # "input"
        /\ Copied(p.nodes[s], ids).arg.leaf.kind = "node"
             => Copied(p.nodes[s], ids).arg.leaf.name \in {ids[t] : t \in DOMAIN p.nodes}
    <3>1. ids \in [DOMAIN p.nodes -> Names] /\ s \in DOMAIN p.nodes
      BY <1>3, <1>4
    <3> QED BY <3>1, CopiedIs, Zenon
  <2> QED BY <1>3, <1>6, <2>1, <2>2
<1>12. p # NoPreset => CanCapture(next, new)
  <2>1. p # NoPreset => S # {}
    <3> SUFFICES ASSUME S = {} PROVE p = NoPreset
      OBVIOUS
    <3>1. p.nodes = NoFunction /\ p.x = NoFunction
      BY <1>3 DEF IsPreset, NoFunction
    <3> QED BY <3>1 DEF IsPreset, NoPreset
  <2>2. ASSUME NEW id \in new
        PROVE  /\ next.nodes[id].deps \subseteq new
               /\ referencesIn(next.nodes[id].arg) \subseteq {NodeRef(s) : s \in new}
    <3>1. PICK s \in S : id = ids[s]
      BY <1>6
    <3>2. PICK node \in GraphNode : node = next.nodes[id]
      BY <1>11, <3>1
    <3>3. /\ node.deps \subseteq new /\ node.arg.leaf.kind # "input"
          /\ node.arg.leaf.kind = "node" => node.arg.leaf.name \in new
      BY <1>11, <3>1, <3>2
    <3>4. PICK leaf \in Leaf : leaf = node.arg.leaf
      BY DEF GraphNode, Value
    <3>5. leaf \in {Literal, Null} \cup {NodeRef(u) : u \in new}
      BY <3>3, <3>4 DEF Leaf, Literal, Null, NodeRef
    <3> QED BY <3>2, <3>3, <3>4, <3>5 DEF referencesIn
  <2>3. S # {} => new # {}
    BY <1>6
  <2> QED BY <1>7, <2>1, <2>2, <2>3 DEF CanCapture
<1>13. Cardinality(Connections(Restrict(next.nodes, new))) = Cardinality(Connections(p.nodes))
  <2>1. PICK C, D : C = Connections(p.nodes) /\ D = Connections(Restrict(next.nodes, new))
    OBVIOUS
  <2>2. \A t \in S : \A s \in nodeDependencies(p.nodes[t]) : s \in S
    BY <1>3, DependenciesAre DEF IsPreset
  <2>3. ASSUME NEW t \in S, NEW s
        PROVE  s \in nodeDependencies(next.nodes[ids[t]]) <=> \E r \in nodeDependencies(p.nodes[t]) : s = ids[r]
    <3>1. PICK node \in GraphNode : node = p.nodes[t]
      BY <1>3 DEF IsPreset
    <3>2. PICK arg : arg = remapValue(node.arg, ids)
      OBVIOUS
    <3>3. next.nodes[ids[t]].deps = {ids[r] : r \in node.deps} /\ next.nodes[ids[t]].arg = arg
      <4>1. next.nodes[ids[t]] = [kind |-> node.kind, arg |-> arg, deps |-> {ids[r] : r \in node.deps}]
        BY <1>7, <3>1, <3>2 DEF Copied
      <4> QED BY <4>1
    <3>4. node.arg.leaf.kind = "node" => node.arg.leaf.name \in S
      BY <1>3, <3>1 DEF IsPreset
    <3>5. /\ arg.leaf.kind = node.arg.leaf.kind
          /\ node.arg.leaf.kind = "node" => arg.leaf.name = ids[node.arg.leaf.name]
      <4>1. node.arg \in Value
        BY DEF GraphNode
      <4> QED BY <1>4, <3>2, <3>4, <4>1, RemappedIs
    <3>6. \A r : r \in nodeDependencies(node) <=>
                   r \in node.deps \/ (node.arg.leaf.kind = "node" /\ node.arg.leaf.name = r)
      BY DependenciesAre
    <3>7. s \in nodeDependencies(next.nodes[ids[t]]) <=>
            \/ s \in {ids[r] : r \in node.deps}
            \/ arg.leaf.kind = "node" /\ arg.leaf.name = s
      BY <3>3, DependenciesAre
    <3> QED BY <3>1, <3>5, <3>6, <3>7
  <2>4. \A c : c \in C <=> \E t \in S : \E s \in nodeDependencies(p.nodes[t]) : c = <<s, t>>
    BY <1>3, <2>1, ConnectionsAre
  <2>5. ASSUME NEW c
        PROVE  c \in D <=> \E t \in S : \E s \in nodeDependencies(p.nodes[t]) : c = <<ids[s], ids[t]>>
    <3>1. PICK part : part = Restrict(next.nodes, new)
      OBVIOUS
    <3>2. DOMAIN part = new /\ \A t \in S : part[ids[t]] = next.nodes[ids[t]]
      BY <1>6, <3>1 DEF Restrict
    <3>3. c \in D <=> \E n \in new : \E s \in nodeDependencies(part[n]) : c = <<s, n>>
      BY <2>1, <3>1, <3>2, ConnectionsAre
    <3>4. c \in D <=> \E t \in S : \E s \in nodeDependencies(next.nodes[ids[t]]) : c = <<s, ids[t]>>
      BY <1>6, <3>2, <3>3
    <3> QED BY <2>3, <3>4
  <2>6. C \in SUBSET (S \X S)
    BY <2>2, <2>4
  <2>7. IsFiniteSet(C)
    <3>1. IsFiniteSet(S \X S)
      BY <1>8, FS_Product
    <3> QED BY <2>6, <3>1, FS_Subset
  <2>8. PICK f : f = [c \in C |-> <<ids[c[1]], ids[c[2]]>>]
    OBVIOUS
  <2>9. \A t \in S : \A s \in nodeDependencies(p.nodes[t]) :
          <<s, t>> \in C /\ f[<<s, t>>] = <<ids[s], ids[t]>> /\ <<ids[s], ids[t]>> \in D
    BY <2>4, <2>5, <2>8
  <2>10. f \in [C -> D]
    <3>1. ASSUME NEW c \in C PROVE f[c] \in D
      <4>1. PICK t \in S : \E s \in nodeDependencies(p.nodes[t]) : c = <<s, t>>
        BY <2>4
      <4>2. PICK s \in nodeDependencies(p.nodes[t]) : c = <<s, t>>
        BY <4>1
      <4> QED BY <2>9, <4>2
    <3> QED BY <2>8, <3>1
  <2>11. \A a, b \in C : f[a] = f[b] => a = b
    <3> SUFFICES ASSUME NEW a \in C, NEW b \in C, f[a] = f[b] PROVE a = b
      OBVIOUS
    <3>1. PICK r, s, t, u : r \in S /\ s \in S /\ t \in S /\ u \in S /\ a = <<r, s>> /\ b = <<t, u>>
      BY <2>6
    <3>2. ids[r] = ids[t] /\ ids[s] = ids[u]
      BY <2>8, <3>1
    <3> QED BY <1>4, <3>1, <3>2
  <2>12. ASSUME NEW e \in D PROVE \E a \in C : f[a] = e
    <3>1. PICK t \in S : \E s \in nodeDependencies(p.nodes[t]) : e = <<ids[s], ids[t]>>
      BY <2>5
    <3>2. PICK s \in nodeDependencies(p.nodes[t]) : e = <<ids[s], ids[t]>>
      BY <3>1
    <3> QED BY <2>9, <3>2
  <2> QED BY <2>1, <2>7, <2>10, <2>11, <2>12, AsMany
<1> QED BY <1>2, <1>3, <1>7, <1>9, <1>10, <1>12, <1>13

\* A preset is a world of its own wherever it is inserted: the nodes that were
\* there are untouched, and those that come refer to each other only, in as many
\* places as the nodes that were saved.
THEOREM PresetsAreAlwaysSelfContained == Spec => []PresetsAreSelfContained
<1>1. GraphInv => PresetsAreSelfContained
  BY InsertedIsWhole DEF GraphInv, PresetsAreSelfContained
<1> QED BY <1>1, GraphsAreKnown, PTL

-----------------------------------------------------------------------------
(* The order of the graph. *)

\* What Downstream computes, as steps of a function.
Reached(d, id, n) ==
    LET reach[i \in 0..n] ==
          IF i = 0 THEN {id}
          ELSE reach[i - 1] \cup {t \in Ids(d) : nodeDependencies(d.nodes[t]) \cap reach[i - 1] # {}}
    IN  reach

LEMMA ReachedIs ==
    ASSUME NEW d, NEW id, NEW n \in Nat
    PROVE  LET h == Reached(d, id, n)
           IN  /\ h[0] = {id}
               /\ \A i \in Nat : i + 1 <= n =>
                    h[i + 1] = h[i] \cup {t \in Ids(d) : nodeDependencies(d.nodes[t]) \cap h[i] # {}}
<1> DEFINE Next1(g) == g \cup {t \in Ids(d) : nodeDependencies(d.nodes[t]) \cap g # {}}
           Body(h, i) == IF i = 0 THEN {id} ELSE Next1(h[i - 1])
           Is(h, m) == h = [i \in 0..m |-> Body(h, i)]
           H == {m \in Nat : \E h : Is(h, m)}
<1>1. \A h : Body(h, 0) = {id}
  OBVIOUS
<1>2. \A h, k : \A i : i # 0 /\ h[i - 1] = k[i - 1] => Body(h, i) = Body(k, i)
  <2> HIDE DEF Next1
  <2> QED OBVIOUS
<1>3. \A h : \A i : i # 0 => Body(h, i) = Next1(h[i - 1])
  OBVIOUS
<1> HIDE DEF Body, Next1
<1>4. 0 \in H
  <2>1. PICK h : h = [i \in 0..0 |-> {id}]
    OBVIOUS
  <2>2. Is(h, 0)
    BY <1>1, <2>1
  <2> QED BY <2>2
<1>5. ASSUME NEW m \in Nat, m \in H PROVE m + 1 \in H
  <2>1. PICK h : Is(h, m)
    BY <1>5
  <2>2. PICK k : k = [i \in 0..(m + 1) |-> Body(h, i)]
    OBVIOUS
  <2>3. \A i \in 0..m : k[i] = h[i]
    BY <2>1, <2>2
  <2>4. \A i \in 0..(m + 1) : Body(h, i) = Body(k, i)
    BY <1>1, <1>2, <2>3
  <2>5. Is(k, m + 1)
    BY <2>2, <2>4
  <2> HIDE DEF Is
  <2> QED BY <2>5
<1>6. \A m \in Nat : m \in H
  <2> HIDE DEF H
  <2> QED BY <1>4, <1>5, AllNumbers
<1>7. \E h : Is(h, n)
  BY <1>6
<1>8. PICK h : Is(h, n) /\ h = CHOOSE g : Is(g, n)
  BY <1>7
<1>9. h = Reached(d, id, n)
  BY <1>8, Zenon DEF Reached, Body, Next1
<1>10. \A i \in 0..n : h[i] = Body(h, i)
  BY <1>8
<1>11. h[0] = {id}
  BY <1>1, <1>10
<1>12. ASSUME NEW i \in Nat, i + 1 <= n PROVE h[i + 1] = Next1(h[i])
  <2>1. i + 1 \in 0..n /\ i + 1 # 0 /\ (i + 1) - 1 = i
    BY <1>12
  <2>2. h[i + 1] = Next1(h[(i + 1) - 1])
    BY <1>3, <1>10, <2>1, Zenon
  <2> QED BY <2>1, <2>2
<1> QED BY <1>9, <1>11, <1>12 DEF Next1

\* There are enough steps: what depends on a node that is reached is reached.
LEMMA DownstreamIsClosed ==
    ASSUME NEW d, DocOK(d), Cardinality(Ids(d)) <= MaxNodes, NEW id \in Ids(d)
    PROVE  /\ id \in Downstream(d, id) /\ Downstream(d, id) \subseteq Ids(d)
           /\ \A t \in Ids(d) : nodeDependencies(d.nodes[t]) \cap Downstream(d, id) # {} => t \in Downstream(d, id)
<1>1. PICK h : h = Reached(d, id, MaxNodes)
  OBVIOUS
<1> DEFINE More(g) == {t \in Ids(d) : nodeDependencies(d.nodes[t]) \cap g # {}}
<1>2. h[0] = {id} /\ \A i \in Nat : i + 1 <= MaxNodes => h[i + 1] = h[i] \cup More(h[i])
  <2>1. MaxNodes \in Nat
    BY EditAssumption
  <2> QED BY <1>1, <2>1, ReachedIs
<1>3. Downstream(d, id) = h[MaxNodes]
  BY <1>1 DEF Downstream, Reached
<1>4. PICK all : all = Ids(d) /\ IsFiniteSet(all) /\ Cardinality(all) <= MaxNodes
  BY DEF DocOK, NodesOK
<1> DEFINE Good(i) == /\ id \in h[i] /\ h[i] \in SUBSET all
                      /\ Cardinality(h[i]) >= i + 1 \/ More(h[i]) \subseteq h[i]
           G == {i \in Nat : i <= MaxNodes => Good(i)}
<1>5. Good(0)
  <2>1. Cardinality({id}) = 1
    BY FS_Singleton
  <2> QED BY <1>2, <1>4, <2>1
<1>6. ASSUME NEW i \in Nat, i + 1 <= MaxNodes, Good(i) PROVE Good(i + 1)
  <2>1. PICK g \in SUBSET all : g = h[i] /\ id \in g
    BY <1>6
  <2>2. PICK k : k = g \cup More(g)
    OBVIOUS
  <2>3. h[i + 1] = k /\ k \in SUBSET all
    BY <1>2, <1>4, <1>6, <2>1, <2>2
  <2>4. CASE More(g) \subseteq g
    <3>1. k = g
      BY <2>2, <2>4
    <3> QED BY <2>1, <2>3, <2>4, <3>1
  <2>5. CASE ~(More(g) \subseteq g)
    <3>1. PICK t \in all : t \in k /\ t \notin g
      BY <1>4, <2>2, <2>5
    <3> HIDE DEF More
    <3>2. IsFiniteSet(g) /\ IsFiniteSet(k)
      BY <1>4, <2>3, FS_Subset
    <3>3. IsFiniteSet(g \cup {t}) /\ Cardinality(g \cup {t}) = Cardinality(g) + 1
      BY <3>1, <3>2, FS_AddElement
    <3>4. g \cup {t} \in SUBSET k
      BY <2>2, <3>1
    <3>5. Cardinality(g \cup {t}) <= Cardinality(k)
      BY <3>2, <3>4, FS_Subset
    <3>6. Cardinality(g) \in Nat /\ Cardinality(k) \in Nat /\ Cardinality(g \cup {t}) \in Nat
      BY <3>2, <3>3, FS_CardinalityType
    <3>7. Cardinality(g) >= i + 1
      BY <1>6, <2>1, <2>5
    <3>8. Cardinality(k) >= (i + 1) + 1
      BY <3>3, <3>5, <3>6, <3>7
    <3> QED BY <2>1, <2>2, <2>3, <3>8
  <2> QED BY <2>4, <2>5
<1> HIDE DEF Good
<1>7. 0 \in G /\ \A i \in Nat : i \in G => i + 1 \in G
  BY <1>5, <1>6, EditAssumption
<1>8. \A i \in Nat : i \in G
  <2> HIDE DEF G
  <2> QED BY <1>7, AllNumbers
<1>9. Good(MaxNodes)
  BY <1>8, EditAssumption
<1>10. PICK R : R = h[MaxNodes]
  OBVIOUS
<1>11. id \in R /\ R \in SUBSET all /\ (Cardinality(R) >= MaxNodes + 1 \/ More(R) \subseteq R)
  BY <1>9, <1>10 DEF Good
<1>12. More(R) \subseteq R
  <2>1. Cardinality(R) <= Cardinality(all) /\ Cardinality(R) \in Nat /\ Cardinality(all) \in Nat
    BY <1>4, <1>11, FS_Subset, FS_CardinalityType
  <2> HIDE DEF More
  <2> QED BY <1>4, <1>11, <2>1, EditAssumption
<1> QED BY <1>3, <1>4, <1>10, <1>11, <1>12

\* What depends on a node comes after it.
LEMMA DownstreamIsAbove ==
    ASSUME NEW d, DocOK(d), NEW r, Ranks(d.nodes, r), NEW id \in Ids(d)
    PROVE  \A t \in Downstream(d, id) : t \in Ids(d) /\ (t = id \/ r[t] > r[id])
<1>1. PICK h : h = Reached(d, id, MaxNodes)
  OBVIOUS
<1>2. PICK nodes : nodes = d.nodes /\ DOMAIN nodes = Ids(d)
  BY DEF Ids
<1>3. MaxNodes \in Nat
  BY EditAssumption
<1>4. /\ h[0] = {id}
      /\ \A i \in Nat : i + 1 <= MaxNodes =>
           h[i + 1] = h[i] \cup {t \in Ids(d) : nodeDependencies(nodes[t]) \cap h[i] # {}}
  BY <1>1, <1>2, <1>3, ReachedIs
<1>5. Downstream(d, id) = h[MaxNodes]
  BY <1>1 DEF Downstream, Reached
<1> DEFINE Good(i) == \A t \in h[i] : t \in Ids(d) /\ (t = id \/ r[t] > r[id])
           G == {i \in Nat : i <= MaxNodes => Good(i)}
<1>6. /\ \A t \in Ids(d) : r[t] \in Nat
      /\ \A t \in Ids(d) : \A s \in nodeDependencies(nodes[t]) \cap Ids(d) : r[s] < r[t]
  BY <1>2 DEF Ranks
<1>7. Good(0)
  BY <1>4
<1>8. ASSUME NEW i \in Nat, i + 1 <= MaxNodes, Good(i) PROVE Good(i + 1)
  <2> SUFFICES ASSUME NEW t \in h[i + 1] PROVE t \in Ids(d) /\ (t = id \/ r[t] > r[id])
    OBVIOUS
  <2>1. CASE t \in h[i]
    BY <1>8, <2>1
  <2>2. CASE t \in Ids(d) /\ nodeDependencies(nodes[t]) \cap h[i] # {}
    <3>1. PICK s \in h[i] : s \in nodeDependencies(nodes[t])
      BY <2>2
    <3>2. s \in Ids(d) /\ (s = id \/ r[s] > r[id])
      BY <1>8
    <3>3. r[s] < r[t] /\ r[s] \in Nat /\ r[t] \in Nat /\ r[id] \in Nat
      BY <1>6, <2>2, <3>1, <3>2
    <3> QED BY <2>2, <3>2, <3>3
  <2> QED BY <1>4, <1>8, <2>1, <2>2
<1> HIDE DEF Good
<1>9. 0 \in G /\ \A i \in Nat : i \in G => i + 1 \in G
  BY <1>3, <1>7, <1>8
<1>10. \A i \in Nat : i \in G
  <2> HIDE DEF G
  <2> QED BY <1>9, AllNumbers
<1>11. Good(MaxNodes)
  BY <1>3, <1>10
<1> QED BY <1>5, <1>11 DEF Good

\* A wire that does not come from behind its target leaves an order.
LEMMA WireIsRanked ==
    ASSUME NEW d, DocOK(d), Cardinality(Ids(d)) <= MaxNodes, Ranked(d.nodes),
           NEW source, NEW target \in Ids(d), source \in Ids(d) => ~wouldCreateDependencyCycle(d, source, target),
           NEW nodes, DOMAIN nodes = Ids(d), \A t \in Ids(d) \ {target} : nodes[t] = d.nodes[t],
           \A s \in nodeDependencies(nodes[target]) : s \in nodeDependencies(d.nodes[target]) \cup {source}
    PROVE  Ranked(nodes)
<1>1. PICK r : Ranks(d.nodes, r)
  BY DEF Ranked
<1>2. /\ r \in [Ids(d) -> Nat]
      /\ \A t \in Ids(d) : \A s \in nodeDependencies(d.nodes[t]) \cap Ids(d) : r[s] < r[t]
  BY <1>1 DEF Ranks, Ids
<1>3. CASE source \notin Ids(d)
  <2>1. Ranks(nodes, r)
    BY <1>2, <1>3 DEF Ranks
  <2> QED BY <2>1 DEF Ranked
<1>4. CASE source \in Ids(d)
  <2>1. PICK R : R = Downstream(d, target)
    OBVIOUS
  <2>2. source \notin R /\ target \in R /\ R \subseteq Ids(d)
        /\ \A t \in Ids(d) : nodeDependencies(d.nodes[t]) \cap R # {} => t \in R
    BY <1>4, <2>1, DownstreamIsClosed DEF wouldCreateDependencyCycle
  <2>3. PICK n \in Nat : n = r[source] + 1
    BY <1>2, <1>4
  <2>4. PICK q : q = [t \in Ids(d) |-> IF t \in R THEN r[t] + n ELSE r[t]]
    OBVIOUS
  <2>5. q \in [Ids(d) -> Nat]
    BY <1>2, <2>3, <2>4
  <2>6. ASSUME NEW t \in Ids(d), NEW s \in nodeDependencies(nodes[t]) \cap Ids(d) PROVE q[s] < q[t]
    <3>1. r[s] \in Nat /\ r[t] \in Nat
      BY <1>2
    <3>2. CASE s \in nodeDependencies(d.nodes[t])
      <4>1. r[s] < r[t] /\ (s \in R => t \in R)
        BY <1>2, <2>2, <3>2
      <4> QED BY <2>3, <2>4, <3>1, <4>1
    <3>3. CASE t = target /\ s = source
      <4>1. q[s] = r[s] /\ q[t] = r[t] + n
        BY <2>2, <2>4, <3>3
      <4> QED BY <2>3, <3>1, <3>3, <4>1
    <3> QED BY <3>2, <3>3
  <2>7. Ranks(nodes, q)
    BY <2>5, <2>6 DEF Ranks
  <2> QED BY <2>7 DEF Ranked
<1> QED BY <1>3, <1>4

\* A document whose references are in order refers to its nodes, or to nothing.
LEMMA RefersInside ==
    ASSUME NEW d, DocOK(d), OrderOK(d), NEW t \in Ids(d), NEW s \in nodeDependencies(d.nodes[t])
    PROVE  s \in Ids(d) \cup {<<>>}
<1>1. s \in d.nodes[t].deps \/ (d.nodes[t].arg.leaf.kind = "node" /\ d.nodes[t].arg.leaf.name = s)
  BY DependenciesAre
<1> QED BY <1>1 DEF DocOK, NodesOK, OrderOK

\* Nodes that come in beside the others.
LEMMA JoinedAreRanked ==
    ASSUME NEW a, NEW b, NEW nodes, Ranked(a), Ranked(b),
           DOMAIN nodes = DOMAIN a \cup DOMAIN b, DOMAIN a \cap DOMAIN b = {},
           \A t \in DOMAIN a : nodes[t] = a[t] /\ nodeDependencies(a[t]) \cap DOMAIN b = {},
           \A t \in DOMAIN b : nodes[t] = b[t] /\ nodeDependencies(b[t]) \cap DOMAIN a = {}
    PROVE  Ranked(nodes)
<1>1. PICK r : Ranks(a, r)
  BY DEF Ranked
<1>2. PICK s : Ranks(b, s)
  BY DEF Ranked
<1>3. PICK q : q = [t \in DOMAIN nodes |-> IF t \in DOMAIN a THEN r[t] ELSE s[t]]
  OBVIOUS
<1>4. Ranks(nodes, q)
  BY <1>1, <1>2, <1>3 DEF Ranks
<1> QED BY <1>4 DEF Ranked

LEMMA ArgumentIsRanked ==
    ASSUME NEW d, DocOK(d), Cardinality(Ids(d)) <= MaxNodes, Ranked(d.nodes), NEW id \in Ids(d), NEW value,
           value.leaf.kind = "node" /\ value.leaf.name \in Ids(d) => ~wouldCreateDependencyCycle(d, value.leaf.name, id)
    PROVE  Ranked([d EXCEPT !.nodes[id].arg = value].nodes)
<1>1. PICK e : e = [d EXCEPT !.nodes[id].arg = value]
  OBVIOUS
<1>2. PICK node \in GraphNode : node = d.nodes[id]
  BY DEF DocOK, NodesOK
<1>3. PICK changed : changed = [node EXCEPT !.arg = value]
  OBVIOUS
<1>4. changed.arg = value /\ changed.deps = node.deps
  BY <1>3 DEF GraphNode
<1>5. e.nodes = [d.nodes EXCEPT ![id] = changed]
  BY <1>1, <1>2, <1>3 DEF DocOK, IsDocument, NodesOK
<1>6. DOMAIN e.nodes = Ids(d) /\ e.nodes[id] = changed /\ \A t \in Ids(d) \ {id} : e.nodes[t] = d.nodes[t]
  BY <1>5 DEF DocOK, NodesOK
<1>7. \A s : s \in nodeDependencies(changed) =>
               s \in nodeDependencies(d.nodes[id]) \/ (value.leaf.kind = "node" /\ s = value.leaf.name)
  BY <1>2, <1>4, DependenciesAre
<1>8. CASE value.leaf.kind = "node"
  <2>1. PICK source : source = value.leaf.name
    OBVIOUS
  <2>2. \A s \in nodeDependencies(e.nodes[id]) : s \in nodeDependencies(d.nodes[id]) \cup {source}
    BY <1>6, <1>7, <2>1
  <2> QED BY <1>1, <1>6, <1>8, <2>1, <2>2, WireIsRanked
<1>9. CASE value.leaf.kind # "node"
  <2>1. Fewer(d.nodes, e.nodes)
    BY <1>6, <1>7, <1>9 DEF Fewer, Ids
  <2> QED BY <1>1, <2>1, FewerAreRanked
<1> QED BY <1>8, <1>9

\* The invariant of the order; it holds as long as no reference was chosen against
\* it, and no node was inlined that an ordering names.
GraphOrderInv ==
    /\ <<>> \notin Ids(doc) /\ <<>> \notin DOMAIN preset.nodes
    /\ looped \in BOOLEAN
    /\ looped \/ orphaned \/ (Ranked(doc.nodes) /\ Ranked(preset.nodes))

LEMMA RankedStep ==
    ASSUME GraphInv, GraphOrderInv, UNCHANGED <<preset, orphaned, looped>>, <<>> \notin Ids(doc'),
           ~looped /\ ~orphaned /\ Ranked(doc.nodes) /\ OrderOK(doc) => Ranked(doc'.nodes)
    PROVE  GraphOrderInv'
BY DEF GraphInv, GraphOrderInv

LEMMA FewerStep ==
    ASSUME GraphInv, GraphOrderInv, UNCHANGED <<preset, orphaned, looped>>, Fewer(doc.nodes, doc'.nodes)
    PROVE  GraphOrderInv'
<1>1. <<>> \notin Ids(doc')
  BY DEF GraphOrderInv, Fewer, Ids
<1>2. Ranked(doc.nodes) => Ranked(doc'.nodes)
  BY FewerAreRanked
<1> QED BY <1>1, <1>2, RankedStep

LEMMA SameNodesStep ==
    ASSUME GraphInv, GraphOrderInv, UNCHANGED <<preset, orphaned, looped>>, doc'.nodes = doc.nodes
    PROVE  GraphOrderInv'
BY FewerStep DEF Fewer

LEMMA AddNodeOrders == GraphInv /\ GraphOrderInv /\ AddNode => GraphOrderInv'
<1> SUFFICES ASSUME GraphInv, GraphOrderInv, AddNode PROVE GraphOrderInv'
  OBVIOUS
<1>1. /\ doc' = addCatalogNode(doc, <<"n">>) /\ DocOK(doc) /\ Cardinality(Ids(doc)) <= MaxNodes
      /\ UNCHANGED <<preset, orphaned, looped>>
  BY DEF AddNode, Commit, Pure, GraphInv
<1>2. PICK id : id = uniqueId(<<"n">>, Ids(doc))
  OBVIOUS
<1>3. id \notin Ids(doc) /\ id # <<>>
  <2>1. Cardinality(Ids(doc)) <= 2 * MaxNodes
    BY <1>1, FS_CardinalityType, EditAssumption DEF DocOK, NodesOK
  <2> QED BY <1>1, <1>2, <2>1, NamesTyped, FreshNodeId
<1>4. PICK node : node = [kind |-> "task", arg |-> Plain(Literal), deps |-> {}]
  OBVIOUS
<1>5. doc'.nodes = With(doc.nodes, id, node)
  BY <1>1, <1>2, <1>4 DEF addCatalogNode, DocOK, IsDocument
<1>6. /\ DOMAIN doc'.nodes = Ids(doc) \cup {id} /\ doc'.nodes[id] = node
      /\ \A t \in Ids(doc) : doc'.nodes[t] = doc.nodes[t]
  BY <1>3, <1>5 DEF With, Ids
<1>7. <<>> \notin Ids(doc')
  BY <1>3, <1>6 DEF Ids, GraphOrderInv
<1>8. ASSUME Ranked(doc.nodes), OrderOK(doc) PROVE Ranked(doc'.nodes)
  <2>1. PICK b : b = [t \in {id} |-> node]
    OBVIOUS
  <2>2. nodeDependencies(node) = {}
    BY <1>4, DependenciesAre DEF Plain, Literal
  <2>3. Ranked(b)
    <3>1. PICK r : r = [t \in {id} |-> 0]
      OBVIOUS
    <3>2. Ranks(b, r)
      BY <2>1, <2>2, <3>1 DEF Ranks
    <3> QED BY <3>2 DEF Ranked
  <2>4. \A t \in Ids(doc) : nodeDependencies(doc.nodes[t]) \cap {id} = {}
    BY <1>1, <1>3, <1>8, RefersInside
  <2>5. DOMAIN doc.nodes = Ids(doc) /\ DOMAIN b = {id} /\ b[id] = node
    BY <2>1 DEF Ids
  <2>6. DOMAIN doc'.nodes = DOMAIN doc.nodes \cup DOMAIN b /\ DOMAIN doc.nodes \cap DOMAIN b = {}
    BY <1>3, <1>6, <2>5
  <2>7. \A t \in DOMAIN doc.nodes : doc'.nodes[t] = doc.nodes[t] /\ nodeDependencies(doc.nodes[t]) \cap DOMAIN b = {}
    BY <1>6, <2>4, <2>5
  <2>8. ASSUME NEW t \in DOMAIN b PROVE doc'.nodes[t] = b[t] /\ nodeDependencies(b[t]) \cap DOMAIN doc.nodes = {}
    <3>1. t = id
      BY <2>5
    <3>2. doc'.nodes[t] = node /\ b[t] = node
      BY <1>6, <2>5, <3>1
    <3>3. \A s : s \notin nodeDependencies(node)
      BY <2>2
    <3> QED BY <3>2, <3>3
  <2> QED BY <1>8, <2>3, <2>6, <2>7, <2>8, JoinedAreRanked
<1> QED BY <1>1, <1>7, <1>8, RankedStep

LEMMA ArgumentChangeOrders == GraphInv /\ GraphOrderInv /\ ArgumentChange => GraphOrderInv'
<1> SUFFICES ASSUME GraphInv, GraphOrderInv, ArgumentChange PROVE GraphOrderInv'
  OBVIOUS
<1>1. PICK id \in Ids(doc) : \E value :
        /\ doc' = updateArgument(doc, id, value)
        /\ looped' = (looped \/ \E r \in referencesIn(value) :
                        r.kind = "node" /\ wouldCreateDependencyCycle(doc, r.name, id))
  BY DEF ArgumentChange, Commit
<1>2. PICK value :
        /\ doc' = [doc EXCEPT !.nodes[id].arg = value]
        /\ looped' = (looped \/ \E r \in referencesIn(value) :
                        r.kind = "node" /\ wouldCreateDependencyCycle(doc, r.name, id))
  BY <1>1 DEF updateArgument
<1>3. UNCHANGED <<preset, orphaned>> /\ DocOK(doc) /\ Cardinality(Ids(doc)) <= MaxNodes
  BY DEF ArgumentChange, GraphInv
<1>4. DOMAIN doc'.nodes = Ids(doc)
  BY <1>2, <1>3 DEF DocOK, IsDocument, NodesOK
<1>5. ASSUME ~looped', Ranked(doc.nodes) PROVE Ranked(doc'.nodes)
  <2>1. value.leaf.kind = "node" => value.leaf \in referencesIn(value)
    BY DEF referencesIn, Literal, Null
  <2>2. value.leaf.kind = "node" => ~wouldCreateDependencyCycle(doc, value.leaf.name, id)
    BY <1>2, <1>5, <2>1
  <2> QED BY <1>2, <1>3, <1>5, <2>2, ArgumentIsRanked
<1>6. looped' \in BOOLEAN /\ (looped => looped')
  BY <1>2 DEF GraphOrderInv
<1> QED BY <1>3, <1>4, <1>5, <1>6 DEF GraphOrderInv, Ids

LEMMA ConnectOrders == GraphInv /\ GraphOrderInv /\ Connect => GraphOrderInv'
<1> SUFFICES ASSUME GraphInv, GraphOrderInv, Connect PROVE GraphOrderInv'
  OBVIOUS
<1>1. UNCHANGED <<preset, orphaned, looped>> /\ DocOK(doc) /\ Cardinality(Ids(doc)) <= MaxNodes
  BY DEF Connect, Pure, GraphInv
<1>2. PICK target \in Ids(doc), shape \in {"plain", "list"} :
        \/ \E source \in Ids(doc) : ~wouldCreateDependencyCycle(doc, source, target)
                                    /\ doc' = connectNodeOutput(doc, source, target, shape)
        \/ \E name \in doc.inputs : doc' = connectGraphInput(doc, name, target, shape)
        \/ \E source \in Ids(doc) : ~wouldCreateDependencyCycle(doc, source, target)
                                    /\ doc' = connectOrderingDependency(doc, source, target)
  BY DEF Connect, Commit, ValidNodeConnection
<1>3. ASSUME NEW leaf, doc' = [doc EXCEPT !.nodes[target].arg = Wired(@, leaf, shape)],
             leaf.kind = "node" => ~wouldCreateDependencyCycle(doc, leaf.name, target)
      PROVE  GraphOrderInv'
  <2>1. PICK value : value = IF shape = "plain" THEN Plain(leaf) ELSE List(leaf)
    OBVIOUS
  <2>2. value.leaf = leaf
    BY <2>1 DEF Plain, List
  <2>3. doc' = [doc EXCEPT !.nodes[target].arg = value]
    BY <1>3, <2>1 DEF Wired
  <2>4. DOMAIN doc'.nodes = Ids(doc)
    BY <1>1, <2>3 DEF DocOK, IsDocument, NodesOK
  <2>5. Ranked(doc.nodes) => Ranked(doc'.nodes)
    <3>1. value.leaf.kind = "node" => ~wouldCreateDependencyCycle(doc, value.leaf.name, target)
      BY <1>3, <2>2
    <3> QED BY <1>1, <2>3, <3>1, ArgumentIsRanked
  <2>6. <<>> \notin Ids(doc')
    BY <2>4 DEF GraphOrderInv, Ids
  <2> QED BY <1>1, <2>5, <2>6, RankedStep
<1>4. CASE \E source \in Ids(doc) : ~wouldCreateDependencyCycle(doc, source, target)
                                    /\ doc' = connectNodeOutput(doc, source, target, shape)
  <2>1. PICK source \in Ids(doc) : ~wouldCreateDependencyCycle(doc, source, target)
                                   /\ doc' = connectNodeOutput(doc, source, target, shape)
    BY <1>4
  <2>2. PICK leaf : leaf = NodeRef(source)
    OBVIOUS
  <2>3. leaf.name = source
    BY <2>2 DEF NodeRef
  <2>4. doc' = [doc EXCEPT !.nodes[target].arg = Wired(@, leaf, shape)]
    BY <2>1, <2>2 DEF connectNodeOutput
  <2> QED BY <1>3, <2>1, <2>3, <2>4
<1>5. CASE \E name \in doc.inputs : doc' = connectGraphInput(doc, name, target, shape)
  <2>1. PICK name : doc' = connectGraphInput(doc, name, target, shape)
    BY <1>5
  <2>2. PICK leaf : leaf = InputRef(name)
    OBVIOUS
  <2>3. leaf.kind = "input"
    BY <2>2 DEF InputRef
  <2>4. doc' = [doc EXCEPT !.nodes[target].arg = Wired(@, leaf, shape)]
    BY <2>1, <2>2 DEF connectGraphInput
  <2> QED BY <1>3, <2>3, <2>4
<1>6. CASE \E source \in Ids(doc) : ~wouldCreateDependencyCycle(doc, source, target)
                                    /\ doc' = connectOrderingDependency(doc, source, target)
  <2>1. PICK source \in Ids(doc) : ~wouldCreateDependencyCycle(doc, source, target)
                                   /\ doc' = connectOrderingDependency(doc, source, target)
    BY <1>6
  <2>2. PICK node \in GraphNode : node = doc.nodes[target]
    BY <1>1 DEF DocOK, NodesOK
  <2>3. PICK changed : changed = [node EXCEPT !.deps = node.deps \cup {source}]
    OBVIOUS
  <2>4. changed.arg = node.arg /\ changed.deps = node.deps \cup {source}
    BY <2>3 DEF GraphNode
  <2>5. doc'.nodes = [doc.nodes EXCEPT ![target] = changed]
    BY <1>1, <2>1, <2>2, <2>3 DEF connectOrderingDependency, DocOK, IsDocument, NodesOK
  <2>6. DOMAIN doc'.nodes = Ids(doc) /\ doc'.nodes[target] = changed
        /\ \A t \in Ids(doc) \ {target} : doc'.nodes[t] = doc.nodes[t]
    BY <1>1, <2>5 DEF DocOK, NodesOK
  <2>7. \A s \in nodeDependencies(doc'.nodes[target]) : s \in nodeDependencies(doc.nodes[target]) \cup {source}
    BY <2>2, <2>4, <2>6, DependenciesAre
  <2>8. Ranked(doc.nodes) => Ranked(doc'.nodes)
    BY <1>1, <2>1, <2>6, <2>7, WireIsRanked
  <2>9. <<>> \notin Ids(doc')
    BY <2>6 DEF GraphOrderInv, Ids
  <2> QED BY <1>1, <2>8, <2>9, RankedStep
<1> QED BY <1>2, <1>4, <1>5, <1>6

LEMMA PromoteOrders == GraphInv /\ GraphOrderInv /\ PromoteArgument => GraphOrderInv'
<1> SUFFICES ASSUME GraphInv, GraphOrderInv, PromoteArgument PROVE GraphOrderInv'
  OBVIOUS
<1>1. PICK id \in Ids(doc) : doc' = promoteNodeArgument(doc, id)
  BY DEF PromoteArgument, Commit
<1>2. UNCHANGED <<preset, orphaned, looped>> /\ DocOK(doc) /\ Cardinality(Ids(doc)) <= MaxNodes
  BY DEF PromoteArgument, Pure, GraphInv
<1>3. PICK m : m = materialId(doc, id)
  OBVIOUS
<1>4. m \notin Ids(doc) /\ m # <<>> /\ id # m
  BY <1>2, <1>3, MaterialIsNew
<1>5. PICK node \in GraphNode : node = doc.nodes[id]
  BY <1>2 DEF DocOK, NodesOK
<1>6. PICK material, consumer : /\ material = [kind |-> "value", arg |-> node.arg, deps |-> {}]
                                /\ consumer = [node EXCEPT !.arg = Plain(NodeRef(m))]
  OBVIOUS
<1>7. PICK nodes : nodes = [doc.nodes EXCEPT ![id].arg = Plain(NodeRef(m))]
  OBVIOUS
<1>8. DOMAIN doc.nodes = Ids(doc) /\ doc.nodes \in [Ids(doc) -> GraphNode]
  BY <1>2 DEF DocOK, NodesOK
<1>9. DOMAIN nodes = Ids(doc) /\ nodes[id] = consumer /\ \A t \in Ids(doc) \ {id} : nodes[t] = doc.nodes[t]
  BY <1>5, <1>6, <1>7, <1>8
<1>10. doc'.nodes = With(nodes, m, material)
  BY <1>1, <1>2, <1>3, <1>5, <1>6, <1>7 DEF promoteNodeArgument, DocOK, IsDocument
<1>11. /\ DOMAIN doc'.nodes = Ids(doc) \cup {m} /\ doc'.nodes[m] = material /\ doc'.nodes[id] = consumer
       /\ \A t \in Ids(doc) \ {id} : doc'.nodes[t] = doc.nodes[t]
  BY <1>4, <1>9, <1>10 DEF With
<1>12. \A s : /\ s \in nodeDependencies(material) => s \in nodeDependencies(node)
              /\ s \in nodeDependencies(consumer) => s \in nodeDependencies(node) \cup {m}
  <2>1. material.arg = node.arg /\ material.deps = {}
    BY <1>6
  <2>2. consumer.deps = node.deps /\ consumer.arg.leaf.name = m
    BY <1>6 DEF Plain, NodeRef, GraphNode
  <2> QED BY <2>1, <2>2, DependenciesAre
<1>13. <<>> \notin Ids(doc')
  BY <1>4, <1>11 DEF GraphOrderInv, Ids
\* Every other number is free: the new node comes right before its consumer.
<1>14. ASSUME Ranked(doc.nodes), OrderOK(doc) PROVE Ranked(doc'.nodes)
  <2>1. PICK r : Ranks(doc.nodes, r)
    BY <1>14 DEF Ranked
  <2>2. /\ \A t \in Ids(doc) : r[t] \in Nat
        /\ \A t \in Ids(doc) : \A s \in nodeDependencies(doc.nodes[t]) \cap Ids(doc) : r[s] < r[t]
    BY <1>8, <2>1 DEF Ranks
  <2>3. PICK q : q = [t \in Ids(doc) \cup {m} |-> IF t = m THEN 2 * r[id] ELSE 2 * r[t] + 1]
    OBVIOUS
  <2>4. /\ q \in [Ids(doc) \cup {m} -> Nat] /\ q[m] = 2 * r[id]
        /\ \A t \in Ids(doc) : q[t] = 2 * r[t] + 1
    BY <1>4, <2>2, <2>3
  <2>5. ASSUME NEW t \in Ids(doc) \cup {m}, NEW s \in Ids(doc) \cup {m}, s \in nodeDependencies(doc'.nodes[t])
        PROVE  q[s] < q[t]
    <3>1. CASE t = m
      <4>1. s \in nodeDependencies(doc.nodes[id])
        BY <1>5, <1>11, <1>12, <2>5, <3>1
      <4>2. s \in Ids(doc)
        BY <1>2, <1>4, <1>14, <2>5, <4>1, RefersInside
      <4>3. r[s] < r[id] /\ r[s] \in Nat /\ r[id] \in Nat
        BY <2>2, <4>1, <4>2
      <4> QED BY <2>4, <3>1, <4>2, <4>3
    <3>2. CASE t \in Ids(doc) /\ s = m
      <4>1. t = id
        <5>1. m \notin nodeDependencies(doc.nodes[t])
          BY <1>2, <1>4, <1>14, <3>2, RefersInside
        <5> QED BY <1>11, <2>5, <3>2, <5>1
      <4> QED BY <2>2, <2>4, <3>2, <4>1
    <3>3. CASE t \in Ids(doc) /\ s # m
      <4>1. s \in nodeDependencies(doc.nodes[t])
        BY <1>5, <1>11, <1>12, <2>5, <3>3
      <4>2. r[s] < r[t] /\ r[s] \in Nat /\ r[t] \in Nat
        BY <2>2, <2>5, <3>3, <4>1
      <4> QED BY <2>4, <2>5, <3>3, <4>2
    <3> QED BY <3>1, <3>2, <3>3
  <2>6. Ranks(doc'.nodes, q)
    BY <1>11, <2>4, <2>5 DEF Ranks
  <2> QED BY <2>6 DEF Ranked
<1> QED BY <1>2, <1>13, <1>14, RankedStep

\* What referred to the node now refers to what it refers to.
LEMMA InlinedAreRanked ==
    ASSUME NEW d, DocOK(d), Ranked(d.nodes), NEW material \in Ids(d), NEW targets
    PROVE  Ranked(inlineMaterialNode(d, material, targets).nodes)
<1>1. PICK leaf : leaf = NodeRef(material)
  OBVIOUS
<1>2. PICK value : value = d.nodes[material].arg
  OBVIOUS
<1>3. PICK nodes : nodes = [id \in Ids(d) |->
                              IF id \in targets THEN [d.nodes[id] EXCEPT !.arg = Inlined(@, leaf, value)]
                              ELSE d.nodes[id]]
  OBVIOUS
<1>4. PICK next : next = [d EXCEPT !.nodes = nodes]
  OBVIOUS
<1>5. PICK e : e = inlineMaterialNode(d, material, targets)
  OBVIOUS
<1>6. e = IF Refers(next, leaf) THEN next ELSE deleteMaterialNode(next, material)
  BY <1>1, <1>2, <1>3, <1>4, <1>5 DEF inlineMaterialNode
<1>7. next.nodes = nodes /\ IsDocument(next)
  BY <1>4 DEF DocOK, IsDocument
<1>8. ASSUME NEW t \in Ids(d), NEW s, s \in nodeDependencies(nodes[t])
      PROVE  \/ s \in nodeDependencies(d.nodes[t])
             \/ material \in nodeDependencies(d.nodes[t]) /\ s \in nodeDependencies(d.nodes[material])
  <2>1. PICK node \in GraphNode : node = d.nodes[t]
    BY DEF DocOK, NodesOK
  <2>2. PICK arg : arg = Inlined(node.arg, leaf, value)
    OBVIOUS
  <2>3. nodes[t] = node \/ nodes[t] = [node EXCEPT !.arg = arg]
    BY <1>3, <2>1, <2>2
  <2>4. nodes[t].deps = node.deps /\ (nodes[t].arg = node.arg \/ nodes[t].arg = arg)
    BY <2>3 DEF GraphNode
  <2>5. arg = node.arg \/ (node.arg.leaf = leaf /\ arg.leaf = value.leaf)
    BY <2>2 DEF Inlined, List
  <2>6. s \in node.deps \/ (nodes[t].arg.leaf.kind = "node" /\ nodes[t].arg.leaf.name = s)
    BY <1>8, <2>4, DependenciesAre
  <2>7. node.arg.leaf = leaf => material \in nodeDependencies(node)
    BY <1>1, DependenciesAre DEF NodeRef
  <2>8. value.leaf.kind = "node" /\ value.leaf.name = s => s \in nodeDependencies(d.nodes[material])
    BY <1>2, DependenciesAre
  <2> QED BY <2>1, <2>4, <2>5, <2>6, <2>7, <2>8, DependenciesAre
<1>9. Ranked(nodes)
  <2>1. PICK r : Ranks(d.nodes, r)
    BY DEF Ranked
  <2>2. /\ r \in [Ids(d) -> Nat]
        /\ \A t \in Ids(d) : \A s \in nodeDependencies(d.nodes[t]) \cap Ids(d) : r[s] < r[t]
    BY <2>1 DEF Ranks, Ids
  <2>3. ASSUME NEW t \in Ids(d), NEW s \in Ids(d), s \in nodeDependencies(nodes[t]) PROVE r[s] < r[t]
    <3>1. r[s] \in Nat /\ r[t] \in Nat /\ r[material] \in Nat
      BY <2>2
    <3>2. CASE s \in nodeDependencies(d.nodes[t])
      BY <2>2, <3>2
    <3>3. CASE material \in nodeDependencies(d.nodes[t]) /\ s \in nodeDependencies(d.nodes[material])
      <4>1. r[material] < r[t] /\ r[s] < r[material]
        BY <2>2, <3>3
      <4> QED BY <3>1, <4>1
    <3> QED BY <1>8, <2>3, <3>2, <3>3
  <2>4. Ranks(nodes, r)
    BY <1>3, <2>2, <2>3 DEF Ranks
  <2> QED BY <2>4 DEF Ranked
<1>10. CASE Refers(next, leaf)
  <2>1. e.nodes = nodes
    BY <1>6, <1>7, <1>10
  <2> QED BY <1>5, <1>9, <2>1
<1>11. CASE ~Refers(next, leaf)
  <2>1. e.nodes = Without(nodes, {material})
    BY <1>6, <1>7, <1>11 DEF deleteMaterialNode, IsDocument
  <2>2. DOMAIN e.nodes \subseteq DOMAIN nodes /\ \A t \in DOMAIN e.nodes : e.nodes[t] = nodes[t]
    BY <2>1 DEF Without, Restrict
  <2>3. Fewer(nodes, e.nodes)
    BY <2>2 DEF Fewer
  <2>4. Ranked(e.nodes)
    BY <1>9, <2>3, FewerAreRanked
  <2> QED BY <1>5, <2>4
<1> QED BY <1>10, <1>11

LEMMA InlineOrders == GraphInv /\ GraphOrderInv /\ InlineMaterial => GraphOrderInv'
<1> SUFFICES ASSUME GraphInv, GraphOrderInv, InlineMaterial PROVE GraphOrderInv'
  OBVIOUS
<1>1. PICK material \in Ids(doc) :
        /\ \E targets : doc' = inlineMaterialNode(doc, material, targets)
        /\ orphaned => orphaned'
  BY DEF InlineMaterial, Commit
<1>2. PICK targets : doc' = inlineMaterialNode(doc, material, targets)
  BY <1>1
<1>3. UNCHANGED <<preset, looped>> /\ DocOK(doc)
  BY DEF InlineMaterial, GraphInv
<1>4. Ranked(doc.nodes) => Ranked(doc'.nodes)
  BY <1>2, <1>3, InlinedAreRanked
<1>5. Ids(doc') \subseteq Ids(doc)
  <2>1. PICK m, some : CanInline(doc, m, some) /\ m \in Ids(doc) /\ doc' = inlineMaterialNode(doc, m, some)
    BY DEF InlineMaterial, Commit
  <2> QED BY <1>3, <2>1, InlineKept
<1> QED BY <1>1, <1>3, <1>4, <1>5 DEF GraphOrderInv

LEMMA RenameNodeOrders == GraphInv /\ GraphOrderInv /\ RenameSelectedNode => GraphOrderInv'
<1> SUFFICES ASSUME GraphInv, GraphOrderInv, RenameSelectedNode PROVE GraphOrderInv'
  OBVIOUS
<1>1. PICK id \in Ids(doc), desired \in NewNames \ Ids(doc) : doc' = renameNode(doc, id, desired)
  BY DEF RenameSelectedNode, Commit
<1>2. UNCHANGED <<preset, orphaned, looped>> /\ DocOK(doc)
  BY DEF RenameSelectedNode, Pure, GraphInv
<1>3. desired \in Names /\ desired # <<>>
  BY NamesTyped
<1>4. Ids(doc') = (Ids(doc) \ {id}) \cup {desired}
  BY <1>1, <1>2, <1>3, RenameKept
<1>5. Ranked(doc.nodes) /\ OrderOK(doc) => Ranked(doc'.nodes)
  BY <1>1, <1>2, <1>3, RenameKept
<1>6. <<>> \notin Ids(doc')
  BY <1>3, <1>4 DEF GraphOrderInv
<1> QED BY <1>2, <1>5, <1>6, RankedStep

\* Inputs and outputs are no part of the order.
LEMMA InputsOrder == GraphInv /\ GraphOrderInv /\ (AddInput \/ RenameInput) => GraphOrderInv'
<1> SUFFICES ASSUME GraphInv, GraphOrderInv, AddInput \/ RenameInput PROVE GraphOrderInv'
  OBVIOUS
<1>1. UNCHANGED <<preset, orphaned, looped>> /\ DocOK(doc)
  BY DEF AddInput, RenameInput, Pure, GraphInv
<1>2. CASE AddInput
  <2>1. Cardinality(doc.inputs) < MaxInputs
        /\ (doc' = addGraphInput(doc) \/ \E base \in Names : doc' = addAssetInputs(doc, <<base>>))
    BY <1>2, NamesTyped DEF AddInput, Commit
  <2>2. doc'.nodes = doc.nodes
    BY <1>1, <2>1, AddInputKept, AddAssetKept
  <2> QED BY <1>1, <2>2, SameNodesStep
<1>3. CASE RenameInput
  <2>1. PICK name \in doc.inputs, desired \in NewNames : doc' = renameGraphInput(doc, name, desired)
    BY <1>3 DEF RenameInput, Commit
  <2>2. desired \in Names
    BY NamesTyped
  <2>3. Fewer(doc.nodes, doc'.nodes)
    BY <1>1, <2>1, <2>2, RenameInputKept
  <2> QED BY <1>1, <2>3, FewerStep
<1> QED BY <1>2, <1>3

LEMMA OutputsOrder ==
    GraphInv /\ GraphOrderInv /\ (ExposeOutput \/ ChangeOutputSource \/ RenameOutput) => GraphOrderInv'
<1> SUFFICES ASSUME GraphInv, GraphOrderInv, ExposeOutput \/ ChangeOutputSource \/ RenameOutput
             PROVE  GraphOrderInv'
  OBVIOUS
<1>1. UNCHANGED <<preset, orphaned, looped>> /\ IsDocument(doc)
  BY DEF ExposeOutput, ChangeOutputSource, RenameOutput, Pure, GraphInv, DocOK
<1>2. \/ \E source : doc' = addGraphOutput(doc, source)
      \/ \E name, source : doc' = connectGraphOutput(doc, name, source)
      \/ \E name, desired : doc' = renameGraphOutput(doc, name, desired)
  BY DEF ExposeOutput, ChangeOutputSource, RenameOutput, Commit
<1>3. doc'.nodes = doc.nodes
  BY <1>1, <1>2 DEF addGraphOutput, connectGraphOutput, renameGraphOutput, IsDocument
<1> QED BY <1>1, <1>3, SameNodesStep

LEMMA DeleteOrders == GraphInv /\ GraphOrderInv /\ DeleteElements => GraphOrderInv'
<1> SUFFICES ASSUME GraphInv, GraphOrderInv, DeleteElements PROVE GraphOrderInv'
  OBVIOUS
<1>1. UNCHANGED <<preset, orphaned, looped>> /\ DocOK(doc)
  BY DEF DeleteElements, Pure, GraphInv
<1>2. IsFiniteSet(CanvasEdges(doc)) /\ \A edge \in CanvasEdges(doc) : IsEdge(doc, edge)
  BY <1>1, CanvasEdgesAre
<1>3. PICK edgeSet \in SUBSET CanvasEdges(doc) :
        \/ \E nodes \in SUBSET Ids(doc) : \E inputs, outputs : doc' = deleteElements(doc, nodes, inputs, outputs, edgeSet)
        \/ doc' = removeEdges(doc, edgeSet)
  <2>1. CASE \E edge \in CanvasEdges(doc) : doc' = removeEdges(doc, {edge})
    BY <2>1
  <2>2. CASE \E nodes \in SUBSET Ids(doc), inputs \in SUBSET doc.inputs, outputs \in SUBSET DOMAIN doc.outputs :
               \E edgeSet \in SUBSET CanvasEdges(doc) : doc' = deleteElements(doc, nodes, inputs, outputs, edgeSet)
    BY <2>2
  <2> QED BY <2>1, <2>2 DEF DeleteElements, Commit
<1>4. IsFiniteSet(edgeSet) /\ \A edge \in edgeSet : IsEdge(doc, edge)
  BY <1>2, <1>3, FS_Subset
<1>5. Fewer(doc.nodes, doc'.nodes)
  BY <1>1, <1>3, <1>4, DeleteElementsKept, EdgesKeptInTurn
<1> QED BY <1>1, <1>5, FewerStep

LEMMA InspectorDeleteOrders == GraphInv /\ GraphOrderInv /\ InspectorDelete => GraphOrderInv'
<1> SUFFICES ASSUME GraphInv, GraphOrderInv, InspectorDelete PROVE GraphOrderInv'
  OBVIOUS
<1>1. UNCHANGED <<preset, orphaned, looped>> /\ DocOK(doc)
  BY DEF InspectorDelete, Pure, GraphInv
<1>2. \/ \E nodes \in SUBSET Ids(doc) : doc' = removeNodes(doc, nodes)
      \/ \E names : doc' = removeInputs(doc, names)
      \/ \E names : doc' = removeEditorItems(doc, names)
      \/ \E name : doc' = [doc EXCEPT !.sets = Without(@, {name})]
  BY DEF InspectorDelete, Commit
<1>3. Fewer(doc.nodes, doc'.nodes)
  <2>1. CASE \E nodes \in SUBSET Ids(doc) : doc' = removeNodes(doc, nodes)
    BY <1>1, <2>1, NodesKeptInTurn
  <2>2. CASE \E names : doc' = removeInputs(doc, names)
    BY <1>1, <2>2, RemoveInputsKept
  <2>3. CASE \/ \E names : doc' = removeEditorItems(doc, names)
             \/ \E name : doc' = [doc EXCEPT !.sets = Without(@, {name})]
    <3>1. doc'.nodes = doc.nodes
      BY <1>1, <2>3 DEF removeEditorItems, DocOK, IsDocument
    <3> QED BY <3>1 DEF Fewer
  <2> QED BY <1>2, <2>1, <2>2, <2>3
<1> QED BY <1>1, <1>3, FewerStep

LEMMA SidecarOrders == GraphInv /\ GraphOrderInv /\ (GroupSelection \/ MoveElements) => GraphOrderInv'
<1> SUFFICES ASSUME GraphInv, GraphOrderInv, GroupSelection \/ MoveElements PROVE GraphOrderInv'
  OBVIOUS
<1>1. UNCHANGED <<preset, orphaned, looped>> /\ IsDocument(doc)
  BY DEF GroupSelection, MoveElements, Pure, GraphInv, DocOK
<1>2. \/ \E ids : doc' = addEditorGroup(doc, ids) \/ doc' = saveEditorSelection(doc, ids)
      \/ doc' = autoLayoutGraph(doc)
      \/ \E id : doc' = moveElement(doc, id, 16)
  BY DEF GroupSelection, MoveElements, Commit
<1>3. doc'.nodes = doc.nodes
  BY <1>1, <1>2 DEF addEditorGroup, saveEditorSelection, autoLayoutGraph, moveElement, IsDocument
<1> QED BY <1>1, <1>3, SameNodesStep

\* A preset has the order of the nodes that were saved, wherever it is inserted.
LEMMA SavePresetOrders == GraphInv /\ GraphOrderInv /\ SaveReusablePreset => GraphOrderInv'
<1> SUFFICES ASSUME GraphInv, GraphOrderInv, SaveReusablePreset PROVE GraphOrderInv'
  OBVIOUS
<1>1. PICK ids : CanCapture(doc, ids) /\ preset' = capturePreset(doc, ids)
  BY DEF SaveReusablePreset
<1>2. UNCHANGED <<doc, orphaned, looped>>
  BY DEF SaveReusablePreset
<1>3. preset'.nodes = [id \in ids |-> doc.nodes[id]] /\ ids \subseteq Ids(doc)
  BY <1>1 DEF capturePreset, Restrict, CanCapture, Ids
<1>4. Fewer(doc.nodes, preset'.nodes) /\ <<>> \notin DOMAIN preset'.nodes
  BY <1>3 DEF Fewer, Ids, GraphOrderInv
<1>5. Ranked(doc.nodes) => Ranked(preset'.nodes)
  BY <1>4, FewerAreRanked
<1> QED BY <1>2, <1>4, <1>5 DEF GraphOrderInv

LEMMA AddPresetOrders == GraphInv /\ GraphOrderInv /\ AddPreset => GraphOrderInv'
<1> SUFFICES ASSUME GraphInv, GraphOrderInv, AddPreset PROVE GraphOrderInv'
  OBVIOUS
<1>1. PICK order \in Orders(preset) : doc' = insertPreset(doc, preset, order)
  BY DEF AddPreset, Commit
<1>2. /\ UNCHANGED <<preset, orphaned, looped>> /\ DocOK(doc) /\ Cardinality(Ids(doc)) <= MaxNodes
      /\ IsPreset(preset)
  BY DEF AddPreset, Pure, GraphInv
<1>3. PICK ids : ids = NewIds(doc, order)
  OBVIOUS
<1>4. PICK S : S = DOMAIN preset.nodes
  OBVIOUS
<1>5. /\ ids \in [S -> Names]
      /\ \A s \in S : ids[s] \notin Ids(doc) /\ ids[s] # <<>>
      /\ \A s, t \in S : ids[s] = ids[t] => s = t
  BY <1>2, <1>3, <1>4, NewIdsAre DEF GraphOrderInv
<1>6. PICK new : new = {ids[s] : s \in S}
  OBVIOUS
<1>7. /\ Ids(doc') = Ids(doc) \cup new
      /\ \A id \in Ids(doc) : doc'.nodes[id] = doc.nodes[id]
      /\ \A s \in S : doc'.nodes[ids[s]] = Copied(preset.nodes[s], ids)
  <2>1. Inserted(doc, preset, ids, doc')
    BY <1>1, <1>2, <1>3, InsertedAre
  <2> QED BY <1>4, <1>6, <2>1 DEF Inserted
<1>8. <<>> \notin Ids(doc') /\ Ids(doc) \cap new = {}
  BY <1>5, <1>6, <1>7 DEF GraphOrderInv
<1>9. ASSUME NEW s \in S, NEW t, t \in nodeDependencies(Copied(preset.nodes[s], ids))
      PROVE  \E u \in nodeDependencies(preset.nodes[s]) \cap S : t = ids[u]
  <2>1. PICK node \in GraphNode : node = preset.nodes[s] /\ node.deps \subseteq S
                                  /\ (node.arg.leaf.kind = "node" => node.arg.leaf.name \in S)
    BY <1>2, <1>4 DEF IsPreset
  <2>2. PICK copy : copy = Copied(node, ids)
    OBVIOUS
  <2>3. copy.deps = {ids[u] : u \in node.deps} /\ copy.arg = remapValue(node.arg, ids)
    BY <2>2 DEF Copied
  <2>4. /\ copy.arg.leaf.kind = node.arg.leaf.kind
        /\ node.arg.leaf.kind = "node" => copy.arg.leaf.name = ids[node.arg.leaf.name]
    BY <1>5, <2>1, <2>3, RemappedIs DEF GraphNode
  <2>5. t \in copy.deps \/ (copy.arg.leaf.kind = "node" /\ copy.arg.leaf.name = t)
    BY <1>9, <2>1, <2>2, DependenciesAre
  <2>6. CASE t \in copy.deps
    BY <2>1, <2>3, <2>6, DependenciesAre
  <2>7. CASE copy.arg.leaf.kind = "node" /\ copy.arg.leaf.name = t
    BY <2>1, <2>4, <2>7, DependenciesAre
  <2> QED BY <2>5, <2>6, <2>7
<1>10. ASSUME Ranked(doc.nodes), Ranked(preset.nodes), OrderOK(doc) PROVE Ranked(doc'.nodes)
  <2>1. PICK b : b = [id \in new |-> doc'.nodes[id]]
    OBVIOUS
  <2>2. PICK old : old = [id \in new |-> CHOOSE s \in S : ids[s] = id]
    OBVIOUS
  <2>3. \A s \in S : ids[s] \in new /\ old[ids[s]] = s
    BY <1>5, <1>6, <2>2
  <2>4. \A id \in new : old[id] \in S /\ ids[old[id]] = id
    BY <1>6, <2>3
  <2>5. \A id \in new : b[id] = Copied(preset.nodes[old[id]], ids) /\ b[id] = doc'.nodes[id]
    BY <1>7, <2>1, <2>4
  <2>6. ASSUME NEW t \in new, NEW s, s \in nodeDependencies(b[t])
        PROVE  s \in new /\ old[s] \in nodeDependencies(preset.nodes[old[t]])
    <3>1. PICK u \in nodeDependencies(preset.nodes[old[t]]) \cap S : s = ids[u]
      BY <1>9, <2>4, <2>5, <2>6
    <3> QED BY <2>3, <3>1
  <2>7. DOMAIN b = new /\ DOMAIN doc.nodes = Ids(doc) /\ DOMAIN doc'.nodes = Ids(doc) \cup new
    BY <1>7, <2>1 DEF Ids
  <2>8. Ranked(b)
    BY <1>4, <1>10, <2>4, <2>6, <2>7, ImageIsRanked
  <2>9. ASSUME NEW t \in Ids(doc)
        PROVE  doc'.nodes[t] = doc.nodes[t] /\ nodeDependencies(doc.nodes[t]) \cap new = {}
    BY <1>2, <1>5, <1>6, <1>7, <1>10, RefersInside
  <2>10. ASSUME NEW t \in new
         PROVE  doc'.nodes[t] = b[t] /\ nodeDependencies(b[t]) \cap Ids(doc) = {}
    BY <1>8, <2>5, <2>6
  <2> QED BY <1>8, <1>10, <2>7, <2>8, <2>9, <2>10, JoinedAreRanked
<1> QED BY <1>2, <1>8, <1>10 DEF GraphInv, GraphOrderInv

LEMMA OrderInit == Init => GraphOrderInv
<1> SUFFICES ASSUME Init PROVE GraphOrderInv
  OBVIOUS
<1>1. <<>> \notin Ids(doc) /\ Ranked(doc.nodes)
  BY GraphInit
<1>2. DOMAIN preset.nodes = {} /\ looped = FALSE
  BY DEF Init, NoPreset, NoFunction
<1>3. Ranked(preset.nodes)
  <2>1. PICK r : r = [id \in {} |-> 0]
    OBVIOUS
  <2>2. Ranks(preset.nodes, r)
    BY <1>2, <2>1 DEF Ranks
  <2> QED BY <2>2 DEF Ranked
<1> QED BY <1>1, <1>2, <1>3 DEF GraphOrderInv

\* As long as references are drawn on the canvas and no ordered value is inlined,
\* every edit leaves nodes that can be numbered in the order of their dependencies.
THEOREM GraphsStayOrdered == Spec => []GraphOrderInv
<1>1. GraphInv /\ GraphOrderInv /\ [Next]_vars => GraphOrderInv'
  <2> SUFFICES ASSUME GraphInv, GraphOrderInv, [Next]_vars PROVE GraphOrderInv'
    OBVIOUS
  <2>1. CASE Next
    BY <2>1, AddNodeOrders, ArgumentChangeOrders, PromoteOrders, InlineOrders, RenameNodeOrders, InputsOrder,
       ConnectOrders, OutputsOrder, DeleteOrders, InspectorDeleteOrders, SidecarOrders, SavePresetOrders,
       AddPresetOrders DEF Next
  <2>2. CASE UNCHANGED vars
    BY <2>2 DEF vars, GraphOrderInv
  <2> QED BY <2>1, <2>2
<1> QED BY OrderInit, <1>1, GraphsAreKnown, PTL DEF Spec

\* No node ever waits for itself through others, whatever is connected, renamed,
\* promoted, deleted and inserted (GraphCanvas.tsx refuses the wires that would).
THEOREM GraphsNeverCycle == Spec => []NoCycle
<1>1. GraphInv /\ GraphOrderInv => NoCycle
  <2> SUFFICES ASSUME GraphInv, Ranked(doc.nodes),
                      NEW id \in Ids(doc), NEW s \in nodeDependencies(doc.nodes[id]), s \in Downstream(doc, id)
               PROVE  FALSE
    BY DEF GraphOrderInv, NoCycle
  <2>1. PICK r : Ranks(doc.nodes, r)
    BY DEF Ranked
  <2>2. s \in Ids(doc) /\ (s = id \/ r[s] > r[id])
    BY <2>1, DownstreamIsAbove DEF GraphInv
  <2>3. r[s] < r[id] /\ r[s] \in Nat /\ r[id] \in Nat
    BY <2>1, <2>2 DEF Ranks, Ids
  <2> QED BY <2>2, <2>3
<1> QED BY <1>1, GraphsAreKnown, GraphsStayOrdered, PTL

-----------------------------------------------------------------------------
(* Automatic layout. *)

LEMMA Largest ==
    ASSUME NEW n \in Nat, NEW S \in SUBSET (0..n), S # {}
    PROVE  Max(S) \in S /\ \A m \in S : Max(S) >= m
<1>1. PICK T : T = {n - m : m \in S}
  OBVIOUS
<1>2. Min(T) \in T /\ \A k \in T : Min(T) <= k
  <2>1. \A m \in S : n - m \in Nat
    OBVIOUS
  <2>2. T \in SUBSET Nat /\ T # {}
    BY <1>1, <2>1
  <2> QED BY <2>2, Smallest
<1>3. PICK m \in S : n - m = Min(T)
  BY <1>1, <1>2
<1>4. \A k \in S : n - k \in T /\ k \in 0..n /\ m \in 0..n
  BY <1>1
<1>5. \A k \in S : m >= k
  BY <1>2, <1>3, <1>4
<1> QED BY <1>5 DEF Max

Waited(d, id) == nodeDependencies(d.nodes[id]) \cap Ids(d)
Waiting(d, before) == {id \in Ids(d) \ DOMAIN before : Waited(d, id) \subseteq DOMAIN before}
OneMoreLayer(d, before) == Joined(before, [id \in Waiting(d, before) |-> LayerAfter(before, Waited(d, id))])

\* What graphLayers computes, as steps of a function.
Layered(d, n) ==
    LET layered[i \in 0..n] == IF i = 0 THEN [id \in {} |-> 0] ELSE OneMoreLayer(d, layered[i - 1])
    IN  layered

LEMMA LayeredIs ==
    ASSUME NEW d, NEW n \in Nat
    PROVE  LET h == Layered(d, n)
           IN  h[0] = [id \in {} |-> 0] /\ \A i \in Nat : i + 1 <= n => h[i + 1] = OneMoreLayer(d, h[i])
<1> DEFINE Body(h, i) == IF i = 0 THEN [id \in {} |-> 0] ELSE OneMoreLayer(d, h[i - 1])
           Is(h, m) == h = [i \in 0..m |-> Body(h, i)]
           H == {m \in Nat : \E h : Is(h, m)}
<1>1. \A h : Body(h, 0) = [id \in {} |-> 0]
  OBVIOUS
<1>2. \A h, k : \A i : i # 0 /\ h[i - 1] = k[i - 1] => Body(h, i) = Body(k, i)
  OBVIOUS
<1>3. \A h : \A i : i # 0 => Body(h, i) = OneMoreLayer(d, h[i - 1])
  OBVIOUS
<1> HIDE DEF Body
<1>4. 0 \in H
  <2>1. PICK h : h = [i \in 0..0 |-> [id \in {} |-> 0]]
    OBVIOUS
  <2>2. Is(h, 0)
    BY <1>1, <2>1
  <2> QED BY <2>2
<1>5. ASSUME NEW m \in Nat, m \in H PROVE m + 1 \in H
  <2>1. PICK h : Is(h, m)
    BY <1>5
  <2>2. PICK k : k = [i \in 0..(m + 1) |-> Body(h, i)]
    OBVIOUS
  <2>3. \A i \in 0..m : k[i] = h[i]
    BY <2>1, <2>2
  <2>4. \A i \in 0..(m + 1) : Body(h, i) = Body(k, i)
    BY <1>1, <1>2, <2>3
  <2>5. Is(k, m + 1)
    BY <2>2, <2>4
  <2> HIDE DEF Is
  <2> QED BY <2>5
<1>6. \A m \in Nat : m \in H
  <2> HIDE DEF H
  <2> QED BY <1>4, <1>5, AllNumbers
<1>7. \E h : Is(h, n)
  BY <1>6
<1>8. PICK h : Is(h, n) /\ h = CHOOSE g : Is(g, n)
  BY <1>7
<1>9. h = Layered(d, n)
  BY <1>8, Zenon DEF Layered, Body
<1>10. \A i \in 0..n : h[i] = Body(h, i)
  BY <1>8
<1>11. h[0] = [id \in {} |-> 0]
  BY <1>1, <1>10
<1>12. ASSUME NEW i \in Nat, i + 1 <= n PROVE h[i + 1] = OneMoreLayer(d, h[i])
  <2>1. i + 1 \in 0..n /\ i + 1 # 0 /\ (i + 1) - 1 = i
    BY <1>12
  <2>2. h[i + 1] = OneMoreLayer(d, h[(i + 1) - 1])
    BY <1>3, <1>10, <2>1, Zenon
  <2> QED BY <2>1, <2>2
<1> QED BY <1>9, <1>11, <1>12

\* The first layers: whatever a node in them waits for is in an earlier one.
Layers(d, f, i) ==
    /\ DOMAIN f \subseteq Ids(d) /\ \A t \in DOMAIN f : f[t] \in 0..i
    /\ \A t \in DOMAIN f : \A s \in Waited(d, t) : s \in DOMAIN f /\ f[s] < f[t]

LEMMA OneMoreLayerIs ==
    ASSUME NEW d, NEW i \in Nat, NEW f, Layers(d, f, i)
    PROVE  /\ Layers(d, OneMoreLayer(d, f), i + 1)
           /\ DOMAIN OneMoreLayer(d, f) = DOMAIN f \cup Waiting(d, f)
<1>1. PICK g : g = OneMoreLayer(d, f)
  OBVIOUS
<1>2. /\ DOMAIN g = DOMAIN f \cup Waiting(d, f)
      /\ \A t \in DOMAIN f : g[t] = f[t]
      /\ \A t \in Waiting(d, f) : g[t] = LayerAfter(f, Waited(d, t))
  BY <1>1 DEF OneMoreLayer, Joined, Waiting
<1>3. ASSUME NEW t \in Waiting(d, f)
      PROVE  g[t] \in 0..(i + 1) /\ \A s \in Waited(d, t) : s \in DOMAIN f /\ f[s] < g[t]
  <2>1. PICK deps : deps = Waited(d, t) /\ deps \subseteq DOMAIN f
    BY DEF Waiting
  <2>2. PICK S : S = {f[s] : s \in deps}
    OBVIOUS
  <2>3. S \in SUBSET (0..i)
    BY <2>1, <2>2 DEF Layers
  <2>4. g[t] = IF deps = {} THEN 0 ELSE 1 + Max(S)
    BY <1>2, <2>1, <2>2 DEF LayerAfter
  <2>5. CASE deps = {}
    BY <2>1, <2>4, <2>5
  <2>6. CASE deps # {}
    <3>1. Max(S) \in S /\ \A m \in S : Max(S) >= m
      BY <2>2, <2>3, <2>6, Largest
    <3>2. PICK m : m = Max(S) /\ m \in 0..i /\ g[t] = 1 + m
      BY <2>3, <2>4, <2>6, <3>1
    <3>3. ASSUME NEW s \in deps PROVE f[s] \in 0..i /\ f[s] <= m
      BY <2>2, <2>3, <3>1, <3>2
    <3> QED BY <2>1, <3>2, <3>3
  <2> QED BY <2>5, <2>6
<1>4. DOMAIN g \subseteq Ids(d)
  BY <1>2 DEF Layers, Waiting
<1>5. \A t \in DOMAIN g : g[t] \in 0..(i + 1)
  BY <1>2, <1>3 DEF Layers
<1>6. \A t \in DOMAIN g : \A s \in Waited(d, t) : s \in DOMAIN g /\ g[s] < g[t]
  BY <1>2, <1>3 DEF Layers
<1> QED BY <1>1, <1>2, <1>4, <1>5, <1>6 DEF Layers

\* In a graph that has an order some node can always come next.
LEMMA SomeNodeIsNext ==
    ASSUME NEW d, NEW r, Ranks(d.nodes, r), NEW f, Ids(d) \ DOMAIN f # {}
    PROVE  Waiting(d, f) # {}
<1>1. PICK S : S = Ids(d) \ DOMAIN f
  OBVIOUS
<1>2. /\ \A t \in Ids(d) : r[t] \in Nat
      /\ \A t \in Ids(d) : \A s \in Waited(d, t) : s \in Ids(d) /\ r[s] < r[t]
  BY DEF Ranks, Ids, Waited
<1>3. PICK T \in SUBSET Nat : T = {r[t] : t \in S}
  BY <1>1, <1>2
<1>4. Min(T) \in T /\ \A n \in T : Min(T) <= n
  <2>1. T # {}
    BY <1>1, <1>3
  <2> QED BY <2>1, Smallest
<1>5. PICK t \in S : r[t] = Min(T)
  BY <1>3, <1>4
<1>6. ASSUME NEW s \in Waited(d, t) PROVE s \in DOMAIN f
  <2>1. s \in Ids(d) /\ r[s] < r[t] /\ r[s] \in Nat /\ r[t] \in Nat
    BY <1>1, <1>2
  <2>2. s \in S => r[t] <= r[s]
    BY <1>3, <1>4, <1>5
  <2> QED BY <1>1, <2>1, <2>2
<1> QED BY <1>1, <1>6 DEF Waiting

\* As many layers as there are nodes hold all of them.
LEMMA AllAreLayered ==
    ASSUME NEW d, DocOK(d), Cardinality(Ids(d)) <= MaxNodes, Ranked(d.nodes)
    PROVE  LET f == Layered(d, MaxNodes)[MaxNodes] IN Layers(d, f, MaxNodes) /\ DOMAIN f = Ids(d)
<1>1. PICK h : h = Layered(d, MaxNodes)
  OBVIOUS
<1>2. MaxNodes \in Nat
  BY EditAssumption
<1>3. h[0] = [id \in {} |-> 0] /\ \A i \in Nat : i + 1 <= MaxNodes => h[i + 1] = OneMoreLayer(d, h[i])
  BY <1>1, <1>2, LayeredIs
<1>4. PICK r : Ranks(d.nodes, r)
  BY DEF Ranked
<1>5. PICK all : all = Ids(d) /\ IsFiniteSet(all) /\ Cardinality(all) <= MaxNodes
  BY DEF DocOK, NodesOK
<1> DEFINE Good(i) == Layers(d, h[i], i) /\ (Cardinality(DOMAIN h[i]) >= i \/ DOMAIN h[i] = all)
           G == {i \in Nat : i <= MaxNodes => Good(i)}
<1>6. Good(0)
  <2>1. DOMAIN h[0] = {}
    BY <1>3
  <2>2. Cardinality({}) = 0
    BY FS_EmptySet
  <2> QED BY <2>1, <2>2 DEF Layers
<1>7. ASSUME NEW i \in Nat, i + 1 <= MaxNodes, Good(i) PROVE Good(i + 1)
  <2>1. PICK f, g : f = h[i] /\ g = OneMoreLayer(d, f) /\ h[i + 1] = g /\ Layers(d, f, i)
    BY <1>3, <1>7
  <2>2. Layers(d, g, i + 1) /\ DOMAIN g = DOMAIN f \cup Waiting(d, f)
    BY <2>1, OneMoreLayerIs
  <2>3. DOMAIN f \in SUBSET all /\ DOMAIN g \in SUBSET all
    BY <1>5, <2>1, <2>2 DEF Layers
  <2>4. CASE DOMAIN f = all
    BY <2>1, <2>2, <2>3, <2>4
  <2>5. CASE DOMAIN f # all
    <3>1. PICK t \in all : t \in DOMAIN g /\ t \notin DOMAIN f
      <4>1. Ids(d) \ DOMAIN f # {}
        BY <1>5, <2>3, <2>5
      <4>2. PICK t : t \in Waiting(d, f)
        BY <1>4, <4>1, SomeNodeIsNext
      <4> QED BY <1>5, <2>2, <4>2 DEF Waiting
    <3>2. PICK F, K : F = DOMAIN f /\ K = DOMAIN g
      OBVIOUS
    <3>3. IsFiniteSet(F) /\ IsFiniteSet(K)
      BY <1>5, <2>3, <3>2, FS_Subset
    <3>4. IsFiniteSet(F \cup {t}) /\ Cardinality(F \cup {t}) = Cardinality(F) + 1
      BY <3>1, <3>2, <3>3, FS_AddElement
    <3>5. F \cup {t} \in SUBSET K
      BY <2>2, <3>1, <3>2
    <3>6. Cardinality(F \cup {t}) <= Cardinality(K)
      BY <3>3, <3>5, FS_Subset
    <3>7. Cardinality(F) \in Nat /\ Cardinality(K) \in Nat /\ Cardinality(F) >= i
      BY <1>7, <2>1, <2>5, <3>2, <3>3, FS_CardinalityType
    <3>8. Cardinality(K) >= i + 1
      BY <3>4, <3>6, <3>7
    <3> QED BY <2>1, <2>2, <3>2, <3>8
  <2> QED BY <2>4, <2>5
<1> HIDE DEF Good
<1>8. 0 \in G /\ \A i \in Nat : i \in G => i + 1 \in G
  BY <1>2, <1>6, <1>7
<1>9. \A i \in Nat : i \in G
  <2> HIDE DEF G
  <2> QED BY <1>8, AllNumbers
<1>10. Good(MaxNodes)
  BY <1>2, <1>9
<1>11. PICK f : f = h[MaxNodes] /\ Layers(d, f, MaxNodes) /\ (Cardinality(DOMAIN f) >= MaxNodes \/ DOMAIN f = all)
  BY <1>10 DEF Good
<1>12. DOMAIN f = all
  <2> SUFFICES ASSUME DOMAIN f # all PROVE FALSE
    OBVIOUS
  <2>1. PICK F \in SUBSET all : F = DOMAIN f
    BY <1>5, <1>11 DEF Layers
  <2>2. PICK t \in all : t \notin F
    BY <2>1
  <2>3. IsFiniteSet(F) /\ F \cup {t} \in SUBSET all
    BY <1>5, <2>1, FS_Subset
  <2>4. IsFiniteSet(F \cup {t}) /\ Cardinality(F \cup {t}) = Cardinality(F) + 1
    BY <2>2, <2>3, FS_AddElement
  <2>5. Cardinality(F \cup {t}) <= Cardinality(all)
    BY <1>5, <2>3, FS_Subset
  <2>6. Cardinality(F) \in Nat /\ Cardinality(all) \in Nat /\ Cardinality(F) >= MaxNodes
    BY <1>5, <1>11, <2>1, <2>3, FS_CardinalityType
  <2> QED BY <1>2, <1>5, <2>4, <2>5, <2>6
<1> QED BY <1>1, <1>5, <1>11, <1>12

LEMMA LayoutFollows ==
    ASSUME NEW d, DocOK(d), Cardinality(Ids(d)) <= MaxNodes, Ranked(d.nodes)
    PROVE  LET x == autoLayoutGraph(d).x
           IN  \A id \in Ids(d) : \A s \in nodeDependencies(d.nodes[id]) \cap Ids(d) : x[s] < x[id]
<1>1. PICK f : f = Layered(d, MaxNodes)[MaxNodes]
  OBVIOUS
<1>2. Layers(d, f, MaxNodes) /\ DOMAIN f = Ids(d)
  BY <1>1, AllAreLayered
<1>3. PICK layers : layers = graphLayers(d)
  OBVIOUS
<1>4. layers = Joined(f, [id \in Ids(d) |-> 0])
  BY <1>1, <1>3, Zenon DEF graphLayers, Layered, OneMoreLayer, Waiting, Waited
<1>5. \A id \in Ids(d) : layers[id] = f[id]
  BY <1>2, <1>4 DEF Joined
<1>6. PICK origin \in Nat : origin = IF d.inputs = {} THEN 80 ELSE 328
  OBVIOUS
<1>7. PICK x : x = [id \in Ids(d) |-> origin + layers[id] * EDITOR_COLUMN_SPACING]
  OBVIOUS
<1>8. autoLayoutGraph(d).x = x
  BY <1>3, <1>6, <1>7 DEF autoLayoutGraph, DocOK, IsDocument
<1>9. ASSUME NEW id \in Ids(d), NEW s \in nodeDependencies(d.nodes[id]) \cap Ids(d) PROVE x[s] < x[id]
  <2>1. PICK a, b : a = f[s] /\ b = f[id]
    OBVIOUS
  <2>2. a \in Nat /\ b \in Nat /\ a < b
    BY <1>2, <2>1, EditAssumption DEF Layers, Waited
  <2>3. x[s] = origin + a * 420 /\ x[id] = origin + b * 420
    BY <1>5, <1>7, <2>1 DEF EDITOR_COLUMN_SPACING
  <2> QED BY <2>2, <2>3
<1> QED BY <1>8, <1>9

\* Automatic layout puts each node to the right of all that it needs.
THEOREM LayoutAlwaysFollowsDependencies == Spec => []LayoutFollowsDependencies
<1>1. GraphInv /\ GraphOrderInv => LayoutFollowsDependencies
  BY LayoutFollows DEF GraphInv, GraphOrderInv, LayoutFollowsDependencies
<1> QED BY <1>1, GraphsAreKnown, GraphsStayOrdered, PTL
=============================================================================
