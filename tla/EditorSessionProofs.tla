------------------------ MODULE EditorSessionProofs ------------------------
(***************************************************************************)
(* Theorems about an editor window.  Its document, for every number of     *)
(* contents, paths and requests and every limit of the history; and what   *)
(* it shows of a node, for every number of events and every window of them.*)
(*                                                                         *)
(* The history implements EditHistory because past and future together     *)
(* never exceed the limit (Bounded).  What is on the disk agrees with the  *)
(* window as long as nothing has crossed (Calm): one write is under way at *)
(* most, it is of the workflow that is shown, and nobody reads meanwhile.  *)
(*                                                                         *)
(* What is shown of a node is true because a manifest that was read tells  *)
(* the state of a time the disk knows (ManifestTells), which is never cut, *)
(* and because after each event the state is the manifest's or the newest  *)
(* event's (StateTells).                                                   *)
(***************************************************************************)
EXTENDS EditorWindow, FiniteSetTheorems, SequenceTheorems, WellFoundedInduction, TLAPS

Writers == {"save", "publish", "orphan"}
CallRecord == [op : AllOps \cup {"none", "orphan"}, stage : Stages, path : Paths \cup {NoPath},
               content : Contents, workflow : Nat]

\* A file has both documents or none from its first save on.
FilesOK == \A p \in Paths : disk[p].first = NoDoc => disk[p] = NoFile

\* What a request knows of the files d.
CallOK(v, d) ==
    /\ v.op = "none" => v = Idle
    /\ v.op \in Writers =>
         /\ v.path \in Paths
         /\ v.stage \in {"sent", "half", "done"} \/ (v.op = "publish" /\ v.stage \in {"publishing", "published"})
         /\ v.stage # "sent" => d[v.path].first # NoDoc
    /\ v.op = "load" => v.path \in Paths /\ v.stage \in {"sent", "done"} /\ d[v.path].first # NoDoc
    /\ v.op \in {"open", "edit", "run"} => v.stage = "sent"
CallsOK == \A k \in Calls : CallOK(call[k], disk)

Bounded == Len(past) + Len(future) <= HistoryLimit

Kept ==
    /\ dirty => recovery = present
    /\ ~dirty => recovery = NoDoc

\* What a request that is on its way has to do with the files d and the window,
\* which shows the workflow w with the path p.
Agrees(v, d, w, p) ==
    /\ v.op \in Writers =>
         /\ v.op # "orphan" /\ v.workflow = w /\ v.content \in Whole
         /\ v.op = "publish" => v.path = p
         /\ v.stage = "half" => d[v.path].first = v.content /\ d[v.path].workflow = v.workflow
         /\ v.stage \in {"done", "publishing"} =>
              d[v.path] = [first |-> v.content, second |-> v.content, workflow |-> v.workflow]
         /\ v.stage = "published" => d[v.path].first = d[v.path].second
    /\ v.op = "load" /\ v.stage = "done" =>
         d[v.path] = [first |-> v.content, second |-> v.content, workflow |-> v.workflow]
AllAgree == \A k \in Calls : Agrees(call[k], disk, workflow, projectPath)

Halfway(p) == \E k \in Calls : call[k].op \in Writers /\ call[k].stage = "half" /\ call[k].path = p

OneWriter ==
    /\ \A k, l \in Calls : call[k].op \in Writers /\ call[l].op \in Writers => k = l
    /\ Writing => ~InFlight({"load"})
FilesWhole ==
    \A p \in Paths :
      /\ disk[p].first \in Whole \cup {NoDoc}
      /\ disk[p].first = disk[p].second \/ Halfway(p)
\* The file at the project path is the workflow's, and holds what counts as saved
\* until a write has begun to replace it.
PathKept ==
    projectPath # NoPath =>
      /\ disk[projectPath].workflow = workflow
      /\ \/ savedKey = NoKey
         \/ disk[projectPath].first = savedKey /\ disk[projectPath].second = savedKey
         \/ \E k \in Calls : call[k].op \in Writers /\ call[k].stage \in {"half", "done"}
ContentsWhole ==
    /\ past \in Seq(Whole) /\ present \in Whole /\ future \in Seq(Whole)
    /\ recovery \in Whole \cup {NoDoc}
Calm == ~crossed => OneWriter /\ FilesWhole /\ PathKept /\ ContentsWhole /\ AllAgree

SessionInv == TypeOK /\ FilesOK /\ CallsOK /\ Bounded /\ Kept /\ Calm

-----------------------------------------------------------------------------
(* Identities and sequences. *)

LEMMA FewIdentities ==
    ASSUME NEW S, IsFiniteSet(S), NEW f, f \in [S -> Nat]
    PROVE  /\ IsFiniteSet({f[x] : x \in S}) /\ Cardinality({f[x] : x \in S}) <= Cardinality(S)
           /\ Cardinality(S) \in Nat /\ Cardinality({f[x] : x \in S}) \in Nat
<1> DEFINE T == {f[x] : x \in S}
<1>1. f \in Surjection(S, T)
  BY DEF Surjection
<1> HIDE DEF T
<1>2. IsFiniteSet(T) /\ Cardinality(T) <= Cardinality(S)
  BY <1>1, FS_Surjection
<1>3. Cardinality(S) \in Nat /\ Cardinality(T) \in Nat
  BY <1>2, FS_CardinalityType
<1> QED BY <1>2, <1>3 DEF T

\* A workflow that begins gets an identity that nothing has.
LEMMA FreshIdentity ==
    ASSUME TypeOK
    PROVE  Unused \in Workflows /\ Unused \in Nat
<1> DEFINE files == {disk[p].workflow : p \in Paths}
           asked == {call[k].workflow : k \in Calls}
           used == {workflow} \cup files \cup asked
<1>1. IsFiniteSet(files) /\ Cardinality(files) <= Cardinality(Paths) /\ Cardinality(files) \in Nat
  <2> DEFINE f == [p \in Paths |-> disk[p].workflow]
  <2>1. f \in [Paths -> Nat] /\ files = {f[p] : p \in Paths}
    BY DEF TypeOK
  <2> HIDE DEF f, files
  <2> QED BY <2>1, FewIdentities, SessionAssumption
<1>2. IsFiniteSet(asked) /\ Cardinality(asked) <= Cardinality(Calls) /\ Cardinality(asked) \in Nat
  <2> DEFINE f == [k \in Calls |-> call[k].workflow]
  <2>1. f \in [Calls -> Nat] /\ asked = {f[k] : k \in Calls}
    BY DEF TypeOK
  <2> HIDE DEF f, asked
  <2> QED BY <2>1, FewIdentities, SessionAssumption
<1> HIDE DEF files, asked
<1>3. IsFiniteSet(files \cup asked)
      /\ Cardinality(files \cup asked) <= Cardinality(files) + Cardinality(asked)
  <2>1. IsFiniteSet(files \cap asked)
    <3>1. files \cap asked \in SUBSET files
      OBVIOUS
    <3> QED BY <1>1, <3>1, FS_Subset
  <2>2. Cardinality(files \cap asked) \in Nat
    BY <2>1, FS_CardinalityType
  <2>3. /\ IsFiniteSet(files \cup asked)
        /\ Cardinality(files \cup asked)
             = Cardinality(files) + Cardinality(asked) - Cardinality(files \cap asked)
    BY <1>1, <1>2, FS_Union
  <2> QED BY <1>1, <1>2, <2>2, <2>3
<1>4. IsFiniteSet(used) /\ Cardinality(used) <= Cardinality(files \cup asked) + 1
  <2>1. used = (files \cup asked) \cup {workflow}
    OBVIOUS
  <2> HIDE DEF used
  <2>2. Cardinality(files \cup asked) \in Nat
    BY <1>3, FS_CardinalityType
  <2>3. /\ IsFiniteSet((files \cup asked) \cup {workflow})
        /\ Cardinality((files \cup asked) \cup {workflow})
             = IF workflow \in files \cup asked THEN Cardinality(files \cup asked)
               ELSE Cardinality(files \cup asked) + 1
    BY <1>3, FS_AddElement
  <2> QED BY <2>1, <2>2, <2>3
<1>5. /\ Cardinality(Paths) \in Nat /\ Cardinality(Calls) \in Nat /\ Cardinality(Workflows) \in Nat
      /\ Cardinality(used) \in Nat /\ Cardinality(files \cup asked) \in Nat
  BY <1>3, <1>4, FS_CardinalityType, SessionAssumption
<1>6. Cardinality(used) < Cardinality(Workflows)
  <2> HIDE DEF used
  <2> QED BY <1>1, <1>2, <1>3, <1>4, <1>5, SessionAssumption
<1>7. \E w \in Workflows : w \notin used
  <2> SUFFICES ASSUME Workflows \subseteq used PROVE FALSE
    OBVIOUS
  <2> HIDE DEF used
  <2>1. Cardinality(Workflows) <= Cardinality(used)
    BY <1>4, FS_Subset
  <2> QED BY <1>5, <1>6, <2>1
<1>8. Unused = CHOOSE w \in Workflows : w \notin used
  BY DEF Unused, files, asked
<1> QED BY <1>7, <1>8, SessionAssumption

\* The last n entries of a sequence.
LEMMA NewestEntries ==
    ASSUME NEW S, NEW s \in Seq(S), NEW n \in Nat \ {0}
    PROVE  /\ Newest(s, n) \in Seq(S)
           /\ Len(Newest(s, n)) <= n
           /\ Len(s) <= n => Newest(s, n) = s
<1>1. Len(s) \in Nat /\ \A i \in 1..Len(s) : s[i] \in S
  BY LenProperties
<1>2. CASE Len(s) <= n
  BY <1>2 DEF Newest
<1>3. CASE Len(s) > n
  <2> DEFINE m == Len(s) - n + 1
  <2>1. m \in Int /\ m <= Len(s) /\ m >= 1 /\ \A i \in m..Len(s) : s[i] \in S
    BY <1>1, <1>3
  <2>2. Newest(s, n) = SubSeq(s, m, Len(s))
    BY <1>1, <1>3 DEF Newest
  <2> HIDE DEF m
  <2>3. SubSeq(s, m, Len(s)) \in Seq(S) /\ Len(SubSeq(s, m, Len(s))) = Len(s) - m + 1
    BY <1>1, <2>1, SubSeqProperties
  <2> QED BY <1>1, <1>3, <2>2, <2>3 DEF m
<1> QED BY <1>1, <1>2, <1>3

\* Past, present and future as one line.
LEMMA LineEntries ==
    ASSUME NEW S, NEW p \in Seq(S), NEW c \in S, NEW f \in Seq(S)
    PROVE  /\ p \o <<c>> \o f \in Seq(S)
           /\ Len(p \o <<c>> \o f) = Len(p) + 1 + Len(f)
           /\ \A i \in 1..(Len(p) + 1 + Len(f)) :
                (p \o <<c>> \o f)[i] = IF i <= Len(p) THEN p[i]
                                       ELSE IF i = Len(p) + 1 THEN c ELSE f[i - (Len(p) + 1)]
<1>1. <<c>> \in Seq(S) /\ Len(<<c>>) = 1 /\ <<c>>[1] = c
  OBVIOUS
<1>2. /\ p \o <<c>> \in Seq(S) /\ Len(p \o <<c>>) = Len(p) + 1
      /\ \A i \in 1..(Len(p) + 1) : (p \o <<c>>)[i] = IF i <= Len(p) THEN p[i] ELSE <<c>>[i - Len(p)]
  BY <1>1, ConcatProperties
<1> DEFINE q == p \o <<c>>
<1>3. /\ q \o f \in Seq(S) /\ Len(q \o f) = Len(q) + Len(f)
      /\ \A i \in 1..(Len(q) + Len(f)) : (q \o f)[i] = IF i <= Len(q) THEN q[i] ELSE f[i - Len(q)]
  <2>1. q \in Seq(S)
    BY <1>2
  <2> HIDE DEF q
  <2> QED BY <2>1, ConcatProperties
<1>4. Len(p) \in Nat /\ Len(f) \in Nat
  BY LenProperties
<1>5. q = p \o <<c>> /\ p \o <<c>> \o f = q \o f
  OBVIOUS
<1> HIDE DEF q
<1>6. \A i \in 1..(Len(p) + 1 + Len(f)) :
        (q \o f)[i] = IF i <= Len(p) THEN p[i] ELSE IF i = Len(p) + 1 THEN c ELSE f[i - (Len(p) + 1)]
  <2> SUFFICES ASSUME NEW i \in 1..(Len(p) + 1 + Len(f))
               PROVE  (q \o f)[i] = IF i <= Len(p) THEN p[i]
                                    ELSE IF i = Len(p) + 1 THEN c ELSE f[i - (Len(p) + 1)]
    OBVIOUS
  <2>1. Len(q) = Len(p) + 1
    BY <1>2, <1>5
  <2>2. CASE i <= Len(p) + 1
    <3>1. (q \o f)[i] = q[i] /\ i \in 1..(Len(p) + 1)
      BY <1>3, <1>4, <2>1, <2>2
    <3>2. q[i] = IF i <= Len(p) THEN p[i] ELSE <<c>>[i - Len(p)]
      BY <1>2, <1>5, <3>1
    <3>3. i <= Len(p) \/ i - Len(p) = 1
      BY <1>4, <2>2
    <3> QED BY <1>1, <1>4, <2>2, <3>1, <3>2, <3>3
  <2>3. CASE i > Len(p) + 1
    BY <1>3, <1>4, <2>1, <2>3
  <2>4. i <= Len(p) + 1 \/ i > Len(p) + 1
    BY <1>4
  <2> QED BY <2>2, <2>3, <2>4
<1>7. q \o f \in Seq(S) /\ Len(q \o f) = Len(p) + 1 + Len(f)
  BY <1>2, <1>3, <1>5
<1> QED BY <1>5, <1>6, <1>7

-----------------------------------------------------------------------------
(* The history. *)

HistoryIn(S) ==
    past \in Seq(S) /\ present \in S /\ future \in Seq(S) /\ recovery \in S \cup {NoDoc}

ReloadHistory ==
    /\ past' = <<>> /\ future' = <<>>
    /\ present' = Recovered.content /\ savedKey' = Recovered.key
    /\ RecoveryFollows

\* What can become of the history, in whichever handler.
HistoryMoves ==
    \/ UNCHANGED <<history, recovery>>
    \/ \E c \in Whole : Commit(c)
    \/ UndoHistory \/ RedoHistory \/ ReloadHistory
    \/ \E c \in Contents, saved \in BOOLEAN :
         /\ Replace(c, saved)
         /\ c \in Whole \/ \E k \in Calls : LoadAnswered(k) /\ c = call[k].content
    \/ \E c \in Contents : MarkSaved(c)

LEMMA HistoryKinds == TypeOK /\ [Next]_vars => HistoryMoves
<1> SUFFICES ASSUME TypeOK, [Next]_vars PROVE HistoryMoves
  OBVIOUS
<1> USE DEF HistoryMoves
<1>1. CASE UNCHANGED <<history, recovery>>
  BY <1>1
<1>2. ASSUME NEW k \in Calls, NEW p \in Paths, SaveProject(k, p) \/ LoadProject(k, p) PROVE HistoryMoves
  BY <1>1, <1>2 DEF SaveProject, LoadProject
<1>3. ASSUME NEW k \in Calls,
             \/ RunGraph(k) \/ PublishAppVersion(k) \/ (\E op \in AllOps : Ask(k, op)) \/ HostWritesFirst(k)
             \/ HostWritesSecond(k) \/ HostReads(k) \/ HostPublishes(k) \/ PublishAnswered(k)
             \/ RunAnswered(k) \/ RequestFails(k) \/ OrphanEnds(k)
      PROVE  UNCHANGED <<history, recovery>>
  BY <1>3 DEF RunGraph, PublishAppVersion, Ask, HostWritesFirst, HostWritesSecond, HostReads, HostPublishes,
     HostOnly, PublishAnswered, RunAnswered, RequestFails, OrphanEnds
<1>4. ASSUME NEW k \in Calls PROVE call[k].content \in Contents
  BY <1>4 DEF TypeOK
<1>5. ASSUME NEW k \in Calls, SaveAnswered(k) \/ PublishSaved(k) PROVE HistoryMoves
  BY <1>4, <1>5 DEF SaveAnswered, PublishSaved
<1>6. ASSUME NEW k \in Calls, LoadAnswered(k) PROVE HistoryMoves
  BY <1>4, <1>6 DEF LoadAnswered, Open
<1>7. ASSUME NEW k \in Calls, ImportAnswered(k) PROVE HistoryMoves
  BY <1>7 DEF ImportAnswered, ImportProject, ImportComfy, OpenSharedApp, Open, Contents
<1>8. ASSUME NEW k \in Calls, EditAnswered(k) PROVE HistoryMoves
  BY <1>8 DEF EditAnswered, CompileProgram, ImportDroppedFiles, ApplyBoardOutput
<1>9. ASSUME NEW c \in Whole, EditDocument(c) \/ ApplyTemplate(c) PROVE HistoryMoves
  BY <1>9 DEF EditDocument, ApplyTemplate, Open, Contents
<1>10. ASSUME Undo \/ Redo \/ NewWorkflow PROVE HistoryMoves
  BY <1>10 DEF Undo, Redo, NewWorkflow, Open, Contents, Whole
<1>11. CASE Reload
  BY <1>11 DEF Reload, ReloadHistory
<1>12. CASE UNCHANGED vars
  BY <1>1, <1>12 DEF vars, history
<1> QED
  BY <1>1, <1>2, <1>3, <1>5, <1>6, <1>7, <1>8, <1>9, <1>10, <1>11, <1>12 DEF Next, CallStep

LEMMA RecoveryIn ==
    ASSUME NEW S, present' \in S, RecoveryFollows
    PROVE  recovery' \in S \cup {NoDoc}
BY DEF RecoveryFollows

LEMMA CommitIn ==
    ASSUME NEW S, HistoryIn(S), NEW c \in S, Commit(c)
    PROVE  HistoryIn(S)' /\ (Bounded => Bounded')
<1>1. CASE c = present
  BY <1>1, RecoveryIn DEF Commit, HistoryIn, Bounded
<1>2. CASE c # present
  <2>1. past' = Newest(Append(past, present), HistoryLimit) /\ present' = c /\ future' = <<>>
    BY <1>2 DEF Commit
  <2>2. Append(past, present) \in Seq(S)
    BY DEF HistoryIn
  <2>3. past' \in Seq(S) /\ Len(past') <= HistoryLimit
    BY <2>1, <2>2, NewestEntries, SessionAssumption
  <2>4. recovery' \in S \cup {NoDoc}
    BY <2>1, RecoveryIn DEF Commit
  <2>5. Len(future') = 0 /\ Len(past') \in Nat
    BY <2>1, <2>3, LenProperties
  <2> QED BY <2>1, <2>3, <2>4, <2>5, SessionAssumption DEF HistoryIn, Bounded
<1> QED BY <1>1, <1>2

LEMMA UndoIn ==
    ASSUME NEW S, HistoryIn(S), UndoHistory
    PROVE  /\ HistoryIn(S)'
           /\ Len(past) \in Nat \ {0} /\ Len(past') = Len(past) - 1 /\ Len(future') = Len(future) + 1
           /\ \A i \in 1..(Len(past) - 1) : past'[i] = past[i]
           /\ \A i \in 1..Len(future) : future'[i + 1] = future[i]
           /\ future'[1] = present /\ present' = past[Len(past)]
<1>1. /\ past \in Seq(S) /\ future \in Seq(S) /\ present \in S /\ Len(past) \in Nat \ {0}
      /\ Len(future) \in Nat /\ \A i \in 1..Len(past) : past[i] \in S
  BY EmptySeq, LenProperties DEF HistoryIn, UndoHistory
<1> DEFINE n == Len(past) - 1
<1>2. n \in Int /\ 1 \in Int /\ \A i \in 1..n : past[i] \in S
  BY <1>1
<1>3. past' = SubSeq(past, 1, n) /\ present' = past[Len(past)] /\ future' = <<present>> \o future
  BY DEF UndoHistory
<1>4. n \in Nat
  BY <1>1
<1>5. past' \in Seq(S) /\ Len(past') = n /\ \A i \in 1..n : past'[i] = past[i]
  <2> HIDE DEF n
  <2>1. /\ SubSeq(past, 1, n) \in Seq(S)
        /\ Len(SubSeq(past, 1, n)) = IF 1 <= n THEN n - 1 + 1 ELSE 0
        /\ \A i \in 1..(n - 1 + 1) : SubSeq(past, 1, n)[i] = past[1 + i - 1]
    BY <1>2, SubSeqProperties
  <2> QED BY <1>3, <1>4, <2>1
<1>6. <<present>> \in Seq(S) /\ Len(<<present>>) = 1 /\ <<present>>[1] = present
  BY <1>1
<1>7. /\ future' \in Seq(S) /\ Len(future') = 1 + Len(future)
      /\ \A i \in 1..(1 + Len(future)) : future'[i] = IF i <= 1 THEN <<present>>[i] ELSE future[i - 1]
  BY <1>1, <1>3, <1>6, ConcatProperties
<1>8. present' \in S
  BY <1>1, <1>3
<1>9. recovery' \in S \cup {NoDoc}
  BY <1>8, RecoveryIn DEF UndoHistory
<1>10. HistoryIn(S)'
  BY <1>5, <1>7, <1>8, <1>9 DEF HistoryIn
<1>11. future'[1] = present
  BY <1>1, <1>6, <1>7
<1>12. \A i \in 1..Len(future) : future'[i + 1] = future[i]
  BY <1>1, <1>7
<1> QED BY <1>1, <1>3, <1>5, <1>7, <1>10, <1>11, <1>12

LEMMA RedoIn ==
    ASSUME NEW S, HistoryIn(S), Bounded, RedoHistory
    PROVE  /\ HistoryIn(S)'
           /\ past' = Append(past, present) /\ Len(past') = Len(past) + 1
           /\ Len(future) \in Nat \ {0} /\ Len(future') = Len(future) - 1
           /\ \A i \in 1..(Len(future) - 1) : future'[i] = future[i + 1]
           /\ present' = future[1]
<1>1. /\ past \in Seq(S) /\ future \in Seq(S) /\ present \in S /\ Len(past) \in Nat
      /\ Len(future) \in Nat \ {0} /\ future # <<>> /\ future[1] \in S
  BY EmptySeq, LenProperties DEF HistoryIn, RedoHistory
<1>2. Append(past, present) \in Seq(S) /\ Len(Append(past, present)) = Len(past) + 1
  BY <1>1
<1>3. Len(Append(past, present)) <= HistoryLimit
  BY <1>1, <1>2, SessionAssumption DEF Bounded
<1>4. past' = Append(past, present)
  BY <1>2, <1>3, NewestEntries, SessionAssumption DEF RedoHistory
<1>5. /\ future' \in Seq(S) /\ Len(future') = Len(future) - 1
      /\ \A i \in 1..Len(future') : future'[i] = future[i + 1]
  BY <1>1, HeadTailProperties DEF RedoHistory
<1>6. present' = future[1]
  BY <1>1 DEF RedoHistory
<1>7. recovery' \in S \cup {NoDoc}
  BY <1>1, <1>6, RecoveryIn DEF RedoHistory
<1> QED BY <1>1, <1>2, <1>4, <1>5, <1>6, <1>7 DEF HistoryIn

LEMMA ReplaceIn ==
    ASSUME NEW S, NEW c \in S, NEW saved, Replace(c, saved)
    PROVE  HistoryIn(S)' /\ Bounded'
BY RecoveryIn, EmptySeq, SessionAssumption DEF Replace, HistoryIn, Bounded

LEMMA ReloadIn ==
    ASSUME NEW S, HistoryIn(S), Blank \in S, ReloadHistory
    PROVE  HistoryIn(S)' /\ Bounded'
<1>1. present' \in S
  BY DEF ReloadHistory, Recovered, HistoryIn
<1> QED BY <1>1, RecoveryIn, EmptySeq, SessionAssumption DEF ReloadHistory, HistoryIn, Bounded

LEMMA MarkIn ==
    ASSUME NEW S, HistoryIn(S), NEW c, MarkSaved(c)
    PROVE  HistoryIn(S)' /\ (Bounded => Bounded')
BY RecoveryIn DEF MarkSaved, HistoryIn, Bounded

LEMMA BoundedStep == TypeOK /\ Bounded /\ [Next]_vars => Bounded'
<1> SUFFICES ASSUME TypeOK, Bounded, [Next]_vars PROVE Bounded'
  OBVIOUS
<1>1. HistoryIn(Contents) /\ Blank \in Contents
  BY DEF TypeOK, HistoryIn, Contents, Whole
<1>2. CASE UNCHANGED <<history, recovery>>
  BY <1>2 DEF history, Bounded
<1>3. ASSUME NEW c \in Whole, Commit(c) PROVE Bounded'
  <2>1. c \in Contents
    BY DEF Contents
  <2> QED BY <1>1, <1>3, <2>1, CommitIn
<1>4. CASE UndoHistory
  <2>1. Len(past) \in Nat /\ Len(future) \in Nat
    BY LenProperties DEF TypeOK
  <2>2. Len(past') = Len(past) - 1 /\ Len(future') = Len(future) + 1
    BY <1>1, <1>4, UndoIn
  <2> QED BY <2>1, <2>2, SessionAssumption DEF Bounded
<1>5. CASE RedoHistory
  <2>1. Len(past) \in Nat /\ Len(future) \in Nat
    BY LenProperties DEF TypeOK
  <2>2. Len(past') = Len(past) + 1 /\ Len(future') = Len(future) - 1
    BY <1>1, <1>5, RedoIn
  <2> QED BY <2>1, <2>2, SessionAssumption DEF Bounded
<1>6. ASSUME NEW c \in Contents, NEW saved \in BOOLEAN, Replace(c, saved) PROVE Bounded'
  BY <1>6, ReplaceIn
<1>7. ASSUME NEW c \in Contents, MarkSaved(c) PROVE Bounded'
  BY <1>1, <1>7, MarkIn
<1>8. CASE ReloadHistory
  BY <1>1, <1>8, ReloadIn
<1> QED BY <1>2, <1>3, <1>4, <1>5, <1>6, <1>7, <1>8, HistoryKinds DEF HistoryMoves

\* Typing of the history.
LEMMA HistoryTypeStep ==
    ASSUME TypeOK, Bounded, [Next]_vars
    PROVE  HistoryIn(Contents)' /\ savedKey' \in Contents \cup {NoKey}
<1>1. HistoryIn(Contents) /\ Blank \in Contents /\ savedKey \in Contents \cup {NoKey}
  BY DEF TypeOK, HistoryIn, Contents, Whole
<1>2. CASE UNCHANGED <<history, recovery>>
  BY <1>1, <1>2 DEF history, HistoryIn
<1>3. ASSUME NEW c \in Whole, Commit(c)
      PROVE HistoryIn(Contents)' /\ savedKey' \in Contents \cup {NoKey}
  <2>1. c \in Contents
    BY DEF Contents
  <2>2. HistoryIn(Contents)'
    BY <1>1, <1>3, <2>1, CommitIn
  <2> QED BY <1>1, <1>3, <2>2 DEF Commit
<1>4. CASE UndoHistory
  BY <1>1, <1>4, UndoIn DEF UndoHistory
<1>5. CASE RedoHistory
  BY <1>1, <1>5, RedoIn DEF RedoHistory
<1>6. ASSUME NEW c \in Contents, NEW saved \in BOOLEAN, Replace(c, saved)
      PROVE HistoryIn(Contents)' /\ savedKey' \in Contents \cup {NoKey}
  BY <1>6, ReplaceIn DEF Replace
<1>7. ASSUME NEW c \in Contents, MarkSaved(c)
      PROVE HistoryIn(Contents)' /\ savedKey' \in Contents \cup {NoKey}
  BY <1>1, <1>7, MarkIn DEF MarkSaved
<1>8. CASE ReloadHistory
  <2>1. Recovered.key \in Contents \cup {NoKey}
    BY <1>1 DEF Recovered
  <2> QED BY <1>1, <1>8, <2>1, ReloadIn DEF ReloadHistory
<1> QED BY <1>2, <1>3, <1>4, <1>5, <1>6, <1>7, <1>8, HistoryKinds DEF HistoryMoves

\* The recovery document holds what is not saved, and nothing else.
LEMMA KeptStep == TypeOK /\ Kept /\ [Next]_vars => Kept'
<1> SUFFICES ASSUME TypeOK, Kept, [Next]_vars PROVE Kept'
  OBVIOUS
<1>1. CASE UNCHANGED <<history, recovery>>
  BY <1>1 DEF history, Kept, dirty
<1>2. CASE RecoveryFollows
  BY <1>2 DEF RecoveryFollows, Kept, dirty
<1> QED BY <1>1, <1>2, HistoryKinds DEF HistoryMoves, Commit, UndoHistory, RedoHistory, ReloadHistory, Replace, MarkSaved

-----------------------------------------------------------------------------
(* Types of the requests and the files. *)

FileRecord == [first : Contents \cup {NoDoc}, second : Contents \cup {NoDoc}, workflow : Nat]

\* One request changes and the others stay as they are.
Put(k, v) == /\ v \in CallRecord /\ call' \in [Calls -> CallRecord] /\ call'[k] = v
             /\ \A l \in Calls \ {k} : call'[l] = call[l]

LEMMA Puts ==
    ASSUME TypeOK, NEW k \in Calls, NEW v \in CallRecord, call' = [call EXCEPT ![k] = v]
    PROVE  Put(k, v)
BY DEF TypeOK, CallRecord, Put

LEMMA IdleTyped == Idle \in CallRecord
BY DEF Idle, CallRecord, Stages, Contents, Whole

LEMMA Settles ==
    ASSUME TypeOK, NEW k \in Calls, Settle(k)
    PROVE  Put(k, Idle)
BY Puts, IdleTyped DEF Settle

LEMMA Advances ==
    ASSUME TypeOK, NEW k \in Calls, NEW stage \in Stages, Advance(k, stage)
    PROVE  /\ Put(k, [call[k] EXCEPT !.stage = stage])
           /\ [call[k] EXCEPT !.stage = stage] \in CallRecord
<1>1. call \in [Calls -> CallRecord] /\ call[k] \in CallRecord
  BY DEF TypeOK, CallRecord
<1>2. [call[k] EXCEPT !.stage = stage] \in CallRecord
  BY <1>1 DEF CallRecord
<1>3. call' = [call EXCEPT ![k] = [call[k] EXCEPT !.stage = stage]]
  BY <1>1 DEF Advance
<1>4. call' \in [Calls -> CallRecord] /\ call'[k] = [call[k] EXCEPT !.stage = stage]
      /\ \A l \in Calls \ {k} : call'[l] = call[l]
  BY <1>1, <1>2, <1>3
<1> QED BY <1>2, <1>4 DEF Put

Sent(op, path) == [Idle EXCEPT !.op = op, !.stage = "sent", !.path = path]

LEMMA Sends ==
    ASSUME TypeOK, NEW k \in Calls, NEW op \in AllOps, NEW path \in Paths \cup {NoPath}, Send(k, op, path)
    PROVE  Put(k, Sent(op, path))
<1>1. Sent(op, path) \in CallRecord
  BY DEF Sent, Idle, CallRecord, Stages, Contents, Whole
<1>2. call' = [call EXCEPT ![k] = Sent(op, path)]
  BY DEF Send, Sent
<1> QED BY <1>1, <1>2, Puts

Document(op, path) == [op |-> op, stage |-> "sent", path |-> path, content |-> present, workflow |-> workflow]

LEMMA SendsDocument ==
    ASSUME TypeOK, NEW k \in Calls, NEW op \in AllOps, NEW path \in Paths \cup {NoPath}, SendDocument(k, op, path)
    PROVE  Put(k, Document(op, path))
<1>1. Document(op, path) \in CallRecord
  BY DEF Document, CallRecord, Stages, TypeOK
<1>2. call' = [call EXCEPT ![k] = Document(op, path)]
  BY DEF SendDocument, Document
<1> QED BY <1>1, <1>2, Puts

\* The request a host has read for.
Read(k) == [call[k] EXCEPT !.stage = "done", !.content = FileContent(disk[call[k].path]),
                           !.workflow = disk[call[k].path].workflow]
Published(k) == [call[k] EXCEPT !.stage = "published", !.content = FileContent(disk[call[k].path])]

LEMMA ReadsFile ==
    ASSUME TypeOK, CallsOK, NEW k \in Calls, HostReads(k)
    PROVE  Put(k, Read(k)) /\ call[k].path \in Paths /\ disk[call[k].path].first # NoDoc
<1>1. call \in [Calls -> CallRecord] /\ call[k] \in CallRecord /\ call[k].op = "load" /\ disk \in [Paths -> FileRecord]
  BY DEF TypeOK, CallRecord, FileRecord, HostReads
<1>2. call[k].path \in Paths /\ disk[call[k].path].first # NoDoc
  BY <1>1 DEF CallsOK, CallOK
<1>3. FileContent(disk[call[k].path]) \in Contents /\ disk[call[k].path].workflow \in Nat
  BY <1>1, <1>2 DEF FileContent, FileRecord, Contents
<1>4. Read(k) \in CallRecord
  BY <1>1, <1>3 DEF Read, CallRecord, Stages
<1>5. call' = [call EXCEPT ![k] = Read(k)]
  BY <1>1 DEF HostReads, Read
<1> QED BY <1>2, <1>4, <1>5, Puts

LEMMA PublishesFile ==
    ASSUME TypeOK, CallsOK, NEW k \in Calls, HostPublishes(k)
    PROVE  Put(k, Published(k)) /\ call[k].path \in Paths /\ disk[call[k].path].first # NoDoc
<1>1. call \in [Calls -> CallRecord] /\ call[k] \in CallRecord /\ call[k].op = "publish"
      /\ call[k].stage = "publishing" /\ disk \in [Paths -> FileRecord]
  BY DEF TypeOK, CallRecord, FileRecord, HostPublishes
<1>2. call[k].path \in Paths /\ disk[call[k].path].first # NoDoc
  BY <1>1 DEF CallsOK, CallOK, Writers
<1>3. FileContent(disk[call[k].path]) \in Contents
  BY <1>1, <1>2 DEF FileContent, FileRecord, Contents
<1>4. Published(k) \in CallRecord
  BY <1>1, <1>3 DEF Published, CallRecord, Stages
<1>5. call' = [call EXCEPT ![k] = Published(k)]
  BY <1>1 DEF HostPublishes, Published
<1> QED BY <1>2, <1>4, <1>5, Puts

\* The host writes the one document or the other of the request's file.
WrittenFirst(k) == [disk[call[k].path] EXCEPT !.first = call[k].content, !.workflow = call[k].workflow]
WrittenSecond(k) == [disk[call[k].path] EXCEPT !.second = call[k].content]
PutFile(p, file) == /\ disk' \in [Paths -> FileRecord] /\ disk'[p] = file
                    /\ \A q \in Paths \ {p} : disk'[q] = disk[q]

LEMMA WritesFirst ==
    ASSUME TypeOK, CallsOK, NEW k \in Calls, HostWritesFirst(k)
    PROVE  /\ PutFile(call[k].path, WrittenFirst(k)) /\ call[k].path \in Paths
           /\ WrittenFirst(k).first = call[k].content /\ WrittenFirst(k).workflow = call[k].workflow
           /\ WrittenFirst(k).first # NoDoc
           /\ Put(k, [call[k] EXCEPT !.stage = "half"])
<1>1. call[k] \in CallRecord /\ disk \in [Paths -> FileRecord]
  BY DEF TypeOK, CallRecord, FileRecord
<1>2. call[k].path \in Paths
  BY DEF HostWritesFirst, CallsOK, CallOK, Writers
<1>3. WrittenFirst(k) \in FileRecord
      /\ WrittenFirst(k).first = call[k].content /\ WrittenFirst(k).workflow = call[k].workflow
  BY <1>1, <1>2 DEF WrittenFirst, FileRecord, CallRecord
<1>4. disk' = [disk EXCEPT ![call[k].path] = WrittenFirst(k)]
  BY <1>1, <1>2 DEF HostWritesFirst, WrittenFirst
<1>5. PutFile(call[k].path, WrittenFirst(k))
  BY <1>1, <1>2, <1>3, <1>4 DEF PutFile
<1>6. Put(k, [call[k] EXCEPT !.stage = "half"])
  BY Advances DEF HostWritesFirst, Stages
<1>7. call[k].content # NoDoc
  BY <1>1, SessionAssumption DEF CallRecord
<1> QED BY <1>2, <1>3, <1>5, <1>6, <1>7

LEMMA WritesSecond ==
    ASSUME TypeOK, CallsOK, NEW k \in Calls, HostWritesSecond(k)
    PROVE  /\ PutFile(call[k].path, WrittenSecond(k)) /\ call[k].path \in Paths
           /\ WrittenSecond(k).first = disk[call[k].path].first /\ WrittenSecond(k).first # NoDoc
           /\ WrittenSecond(k) = [first |-> disk[call[k].path].first, second |-> call[k].content,
                                  workflow |-> disk[call[k].path].workflow]
           /\ Put(k, [call[k] EXCEPT !.stage = "done"])
<1>1. call[k] \in CallRecord /\ disk \in [Paths -> FileRecord]
  BY DEF TypeOK, CallRecord, FileRecord
<1>2. call[k].path \in Paths /\ disk[call[k].path].first # NoDoc
  BY DEF HostWritesSecond, CallsOK, CallOK, Writers
<1>3. WrittenSecond(k) \in FileRecord
      /\ WrittenSecond(k) = [first |-> disk[call[k].path].first, second |-> call[k].content,
                             workflow |-> disk[call[k].path].workflow]
  BY <1>1, <1>2 DEF WrittenSecond, FileRecord, CallRecord
<1>4. disk' = [disk EXCEPT ![call[k].path] = WrittenSecond(k)]
  BY <1>1, <1>2 DEF HostWritesSecond, WrittenSecond
<1>5. PutFile(call[k].path, WrittenSecond(k))
  BY <1>1, <1>2, <1>3, <1>4 DEF PutFile
<1>6. Put(k, [call[k] EXCEPT !.stage = "done"])
  BY Advances DEF HostWritesSecond, Stages
<1>7. WrittenSecond(k).first = disk[call[k].path].first
  BY <1>1, <1>2 DEF WrittenSecond, FileRecord
<1> QED BY <1>2, <1>3, <1>5, <1>6, <1>7

\* A file that was written keeps its first document.
DiskGrows == \A p \in Paths : disk[p].first # NoDoc => disk'[p].first # NoDoc

\* The request that changes, and what it changes into.
Becomes(k, v) == Put(k, v) /\ (CallOK(v, disk'))

LEMMA StagesOK ==
    ASSUME TypeOK, CallsOK, NEW k \in Calls, NEW stage \in {"half", "done", "publishing"},
           call[k].op \in Writers, stage = "publishing" => call[k].op = "publish",
           NEW d, d[call[k].path].first # NoDoc
    PROVE  CallOK([call[k] EXCEPT !.stage = stage], d)
<1>1. call[k] \in CallRecord
  BY DEF TypeOK, CallRecord
<1>2. LET v == [call[k] EXCEPT !.stage = stage]
      IN v.op = call[k].op /\ v.stage = stage /\ v.path = call[k].path
  BY <1>1 DEF CallRecord
<1>3. call[k].path \in Paths
  BY DEF CallsOK, CallOK
<1> QED BY <1>2, <1>3 DEF CallOK, Writers

LEMMA SentOK ==
    ASSUME NEW op \in AllOps, NEW path \in Paths \cup {NoPath}, NEW d,
           op \in {"load", "save", "publish"} => path \in Paths, op = "load" => d[path].first # NoDoc
    PROVE  CallOK(Sent(op, path), d) /\ CallOK(Document(op, path), d)
<1>1. Sent(op, path).op = op /\ Sent(op, path).stage = "sent" /\ Sent(op, path).path = path
  BY DEF Sent, Idle
<1>2. Document(op, path).op = op /\ Document(op, path).stage = "sent" /\ Document(op, path).path = path
  BY DEF Document
<1> HIDE DEF Sent, Document
<1> QED BY <1>1, <1>2 DEF CallOK, AllOps, Writers

LEMMA IdleOK == ASSUME NEW d PROVE CallOK(Idle, d)
BY DEF CallOK, Idle, Writers

\* A request that is made.
LEMMA MakeStep ==
    ASSUME TypeOK, FilesOK, CallsOK, NEW k \in Calls,
           \/ \E p \in Paths : SaveProject(k, p) \/ LoadProject(k, p)
           \/ RunGraph(k) \/ PublishAppVersion(k) \/ \E op \in AllOps : Ask(k, op)
    PROVE  UNCHANGED disk /\ \E v \in CallRecord : Becomes(k, v)
<1>1. ASSUME NEW p \in Paths, SaveProject(k, p) PROVE Becomes(k, Document("save", p)) /\ UNCHANGED disk
  BY <1>1, SendsDocument, SentOK DEF SaveProject, AllOps, Becomes
<1>2. ASSUME NEW p \in Paths, LoadProject(k, p) PROVE Becomes(k, Sent("load", p)) /\ UNCHANGED disk
  <2>1. disk[p].first # NoDoc /\ UNCHANGED disk /\ Send(k, "load", p)
    BY <1>2 DEF LoadProject, FilesOK
  <2> QED BY <2>1, Sends, SentOK DEF AllOps, Becomes
<1>3. ASSUME RunGraph(k) PROVE Becomes(k, Sent("run", NoPath)) /\ UNCHANGED disk
  BY <1>3, Sends, SentOK DEF RunGraph, AllOps, Becomes
<1>4. ASSUME PublishAppVersion(k) PROVE Becomes(k, Document("publish", projectPath)) /\ UNCHANGED disk
  <2>1. projectPath \in Paths
    BY <1>4 DEF PublishAppVersion, TypeOK
  <2> QED BY <1>4, <2>1, SendsDocument, SentOK DEF PublishAppVersion, AllOps, Becomes
<1>5. ASSUME NEW op \in AllOps, Ask(k, op) PROVE Becomes(k, Sent(op, NoPath)) /\ UNCHANGED disk
  <2>1. op \in {"open", "edit"} /\ Send(k, op, NoPath) /\ UNCHANGED disk
    BY <1>5 DEF Ask
  <2> QED BY <2>1, Sends, SentOK DEF Becomes
<1> QED BY <1>1, <1>2, <1>3, <1>4, <1>5 DEF Becomes, Put

\* The host works on a request.
LEMMA HostStep ==
    ASSUME TypeOK, CallsOK, NEW k \in Calls,
           HostWritesFirst(k) \/ HostWritesSecond(k) \/ HostReads(k) \/ HostPublishes(k)
    PROVE  DiskGrows /\ \E v \in CallRecord : Becomes(k, v)
<1>1. call[k] \in CallRecord /\ disk \in [Paths -> FileRecord] /\ NoDoc \notin Contents
  BY SessionAssumption DEF TypeOK, CallRecord, FileRecord
<1>2. CASE HostWritesFirst(k)
  <2>1. DiskGrows /\ disk'[call[k].path].first # NoDoc
    <3>1. PutFile(call[k].path, WrittenFirst(k)) /\ WrittenFirst(k).first # NoDoc /\ call[k].path \in Paths
      BY <1>2, WritesFirst
    <3> QED BY <3>1 DEF PutFile, DiskGrows
  <2>2. CallOK([call[k] EXCEPT !.stage = "half"], disk')
    BY <1>2, <2>1, StagesOK DEF HostWritesFirst, Writers
  <2> QED BY <1>2, <2>1, <2>2, WritesFirst DEF Becomes, Put
<1>3. CASE HostWritesSecond(k)
  <2>1. DiskGrows /\ disk'[call[k].path].first # NoDoc
    <3>1. PutFile(call[k].path, WrittenSecond(k)) /\ WrittenSecond(k).first # NoDoc /\ call[k].path \in Paths
      BY <1>3, WritesSecond
    <3> QED BY <3>1 DEF PutFile, DiskGrows
  <2>2. CallOK([call[k] EXCEPT !.stage = "done"], disk')
    BY <1>3, <2>1, StagesOK DEF HostWritesSecond, Writers
  <2> QED BY <1>3, <2>1, <2>2, WritesSecond DEF Becomes, Put
<1>4. CASE HostReads(k)
  <2>1. Read(k).op = "load" /\ Read(k).stage = "done" /\ Read(k).path = call[k].path
    BY <1>1, <1>4 DEF Read, CallRecord, HostReads
  <2>2. CallOK(Read(k), disk') /\ DiskGrows
    BY <1>4, <2>1, ReadsFile DEF CallOK, Writers, HostReads, DiskGrows
  <2> QED BY <1>4, <2>2, ReadsFile DEF Becomes, Put
<1>5. CASE HostPublishes(k)
  <2>1. Published(k).op = "publish" /\ Published(k).stage = "published" /\ Published(k).path = call[k].path
    BY <1>1, <1>5 DEF Published, CallRecord, HostPublishes
  <2>2. CallOK(Published(k), disk') /\ DiskGrows
    BY <1>5, <2>1, PublishesFile DEF CallOK, Writers, HostPublishes, DiskGrows
  <2> QED BY <1>5, <2>2, PublishesFile DEF Becomes, Put
<1> QED BY <1>2, <1>3, <1>4, <1>5

Answers(k) ==
    \/ SaveAnswered(k) \/ PublishAnswered(k) \/ LoadAnswered(k) \/ ImportAnswered(k) \/ EditAnswered(k)
    \/ RunAnswered(k) \/ RequestFails(k) \/ OrphanEnds(k)

\* An answer ends its request; only a publication goes on.
LEMMA AnswerStep ==
    ASSUME TypeOK, CallsOK, NEW k \in Calls, Answers(k) \/ PublishSaved(k)
    PROVE  UNCHANGED disk /\ \E v \in CallRecord : Becomes(k, v)
<1>1. CASE Answers(k)
  <2>1. Settle(k) /\ UNCHANGED disk
    BY <1>1 DEF Answers, SaveAnswered, PublishAnswered, LoadAnswered, ImportAnswered, EditAnswered,
       RunAnswered, RequestFails, OrphanEnds
  <2> QED BY <2>1, Settles, IdleOK DEF Becomes, Put
<1>2. CASE PublishSaved(k)
  <2>1. Advance(k, "publishing") /\ UNCHANGED disk /\ call[k].op = "publish" /\ call[k].stage = "done"
    BY <1>2 DEF PublishSaved
  <2>2. disk[call[k].path].first # NoDoc
    BY <2>1 DEF CallsOK, CallOK, Writers
  <2>3. CallOK([call[k] EXCEPT !.stage = "publishing"], disk')
    BY <2>1, <2>2, StagesOK DEF Writers
  <2> QED BY <2>1, <2>3, Advances DEF Becomes, Stages
<1> QED BY <1>1, <1>2

\* Every step leaves the requests alone, or one changes, or the window is reloaded.
LEMMA CallKinds ==
    ASSUME TypeOK, FilesOK, CallsOK, [Next]_vars
    PROVE  \/ DiskGrows /\ \E k \in Calls, v \in CallRecord : Becomes(k, v)
           \/ UNCHANGED <<disk, call>>
           \/ Reload
<1>1. ASSUME NEW k \in Calls, CallStep(k) PROVE DiskGrows /\ \E v \in CallRecord : Becomes(k, v)
  BY <1>1, MakeStep, HostStep, AnswerStep DEF CallStep, Answers, DiskGrows
<1>2. ASSUME NEW c \in Whole, EditDocument(c) \/ ApplyTemplate(c) PROVE UNCHANGED <<disk, call>>
  BY <1>2 DEF EditDocument, ApplyTemplate, DocumentOnly
<1>3. ASSUME Undo \/ Redo \/ NewWorkflow PROVE UNCHANGED <<disk, call>>
  BY <1>3 DEF Undo, Redo, NewWorkflow, DocumentOnly
<1>4. CASE UNCHANGED vars
  BY <1>4 DEF vars
<1> QED BY <1>1, <1>2, <1>3, <1>4 DEF Next

LEMMA CallsOKStep ==
    ASSUME TypeOK, FilesOK, CallsOK, [Next]_vars
    PROVE  CallsOK' /\ call' \in [Calls -> CallRecord]
<1>1. call \in [Calls -> CallRecord]
  BY DEF TypeOK, CallRecord
<1>2. ASSUME DiskGrows, NEW k \in Calls, NEW v \in CallRecord, Becomes(k, v)
      PROVE  CallsOK' /\ call' \in [Calls -> CallRecord]
  <2>1. ASSUME NEW l \in Calls, l # k PROVE CallOK(call'[l], disk')
    <3>1. call'[l] = call[l] /\ CallOK(call[l], disk)
      BY <1>2, <2>1 DEF Becomes, Put, CallsOK
    <3> QED BY <1>2, <3>1 DEF CallOK, DiskGrows
  <2>2. CallOK(call'[k], disk')
    BY <1>2 DEF Becomes, Put
  <2> QED BY <1>2, <2>1, <2>2 DEF CallsOK, Becomes, Put
<1>3. CASE UNCHANGED <<disk, call>>
  BY <1>1, <1>3 DEF CallsOK
<1>4. CASE Reload
  <2> DEFINE next(k) == IF call[k].op \in {"save", "publish", "orphan"}
                           /\ call[k].stage \in {"sent", "half", "done"}
                        THEN [call[k] EXCEPT !.op = "orphan"] ELSE Idle
  <2>1. call' = [k \in Calls |-> next(k)] /\ UNCHANGED disk
    BY <1>4 DEF Reload
  <2>2. ASSUME NEW k \in Calls PROVE next(k) \in CallRecord /\ CallOK(next(k), disk)
    <3>1. CASE call[k].op \in {"save", "publish", "orphan"} /\ call[k].stage \in {"sent", "half", "done"}
      <4>1. next(k) = [call[k] EXCEPT !.op = "orphan"] /\ call[k] \in CallRecord /\ CallOK(call[k], disk)
        BY <1>1, <3>1 DEF CallsOK
      <4>2. next(k) \in CallRecord /\ next(k).op = "orphan" /\ next(k).stage = call[k].stage
            /\ next(k).path = call[k].path
        BY <4>1 DEF CallRecord
      <4> HIDE DEF next
      <4> QED BY <3>1, <4>1, <4>2 DEF CallOK, Writers
    <3>2. CASE ~(call[k].op \in {"save", "publish", "orphan"} /\ call[k].stage \in {"sent", "half", "done"})
      BY <3>2, IdleTyped, IdleOK
    <3> QED BY <3>1, <3>2
  <2> HIDE DEF next
  <2> QED BY <2>1, <2>2 DEF CallsOK
<1> QED BY <1>2, <1>3, <1>4, CallKinds

LEMMA FilesStep ==
    ASSUME TypeOK, FilesOK, CallsOK, [Next]_vars
    PROVE  FilesOK' /\ disk' \in [Paths -> FileRecord]
<1>1. disk \in [Paths -> FileRecord] /\ NoDoc \notin Contents /\ \A k \in Calls : call[k].content \in Contents
  BY SessionAssumption DEF TypeOK, FileRecord
<1>2. CASE UNCHANGED disk
  BY <1>1, <1>2 DEF FilesOK
<1>3. ASSUME NEW k \in Calls, HostWritesFirst(k) PROVE FilesOK' /\ disk' \in [Paths -> FileRecord]
  <2>1. PutFile(call[k].path, WrittenFirst(k)) /\ WrittenFirst(k).first # NoDoc /\ call[k].path \in Paths
    BY <1>3, WritesFirst
  <2> QED BY <1>1, <2>1 DEF FilesOK, PutFile
<1>4. ASSUME NEW k \in Calls, HostWritesSecond(k) PROVE FilesOK' /\ disk' \in [Paths -> FileRecord]
  <2>1. PutFile(call[k].path, WrittenSecond(k)) /\ WrittenSecond(k).first # NoDoc /\ call[k].path \in Paths
    BY <1>4, WritesSecond
  <2> QED BY <1>1, <2>1 DEF FilesOK, PutFile
<1>5. ASSUME NEW k \in Calls, HostReads(k) \/ HostPublishes(k) PROVE UNCHANGED disk
  BY <1>5 DEF HostReads, HostPublishes
<1>6. ASSUME NEW c \in Whole, EditDocument(c) \/ ApplyTemplate(c) PROVE UNCHANGED disk
  BY <1>6 DEF EditDocument, ApplyTemplate, DocumentOnly
<1>7. ASSUME Undo \/ Redo \/ NewWorkflow \/ Reload PROVE UNCHANGED disk
  BY <1>7 DEF Undo, Redo, NewWorkflow, Reload, DocumentOnly
<1>8. CASE UNCHANGED vars
  BY <1>2, <1>8 DEF vars
<1> QED
  BY <1>2, <1>3, <1>4, <1>5, <1>6, <1>7, <1>8, MakeStep, AnswerStep DEF Next, CallStep, Answers

\* The flags, the path, the identity and the bound.
LEMMA FlagsStep ==
    ASSUME TypeOK, FilesOK, CallsOK, [Next]_vars
    PROVE  /\ projectPath' \in Paths \cup {NoPath} /\ workflow' \in Nat /\ sent' \in 0..MaxSent
           /\ exclusive' \in BOOLEAN /\ shareBusy' \in BOOLEAN /\ crossed' \in BOOLEAN
<1> DEFINE Flags == exclusive' \in BOOLEAN /\ shareBusy' \in BOOLEAN /\ crossed' \in BOOLEAN
           Window == projectPath' \in Paths \cup {NoPath} /\ workflow' \in Nat /\ sent' \in 0..MaxSent
<1>1. /\ projectPath \in Paths \cup {NoPath} /\ workflow \in Nat /\ sent \in 0..MaxSent
      /\ exclusive \in BOOLEAN /\ shareBusy \in BOOLEAN /\ crossed \in BOOLEAN
      /\ Writing \in BOOLEAN /\ InFlight({"load"}) \in BOOLEAN /\ MaxSent \in Nat
      /\ \A k \in Calls : call[k].path \in Paths \cup {NoPath} /\ call[k].workflow \in Nat
  BY SessionAssumption DEF TypeOK, Writing, InFlight
<1>2. Unused \in Nat
  BY FreshIdentity
<1>3. CASE UNCHANGED <<projectPath, workflow, sent, exclusive, shareBusy, crossed>>
  BY <1>1, <1>3
<1>4. ASSUME NEW k \in Calls, NEW p \in Paths, SaveProject(k, p) \/ LoadProject(k, p) PROVE Flags /\ Window
  <2>1. /\ UNCHANGED <<projectPath, workflow, shareBusy>>
        /\ exclusive' \in {exclusive, TRUE}
        /\ crossed' = (crossed \/ Writing) \/ crossed' = (crossed \/ Writing \/ InFlight({"load"}))
    BY <1>4 DEF SaveProject, LoadProject, BeginExclusive
  <2>2. OneMore
    BY <1>4 DEF SaveProject, LoadProject, SendDocument, Send
  <2>3. sent' \in 0..MaxSent
    BY <1>1, <2>2 DEF OneMore
  <2>4. crossed' \in BOOLEAN
    BY <1>1, <2>1
  <2>5. exclusive' \in BOOLEAN /\ shareBusy' \in BOOLEAN
    BY <1>1, <2>1
  <2> QED BY <1>1, <2>1, <2>3, <2>4, <2>5
<1>5. ASSUME NEW k \in Calls, RunGraph(k) \/ PublishAppVersion(k) \/ (\E op \in AllOps : Ask(k, op))
      PROVE Flags /\ Window
  <2>1. /\ UNCHANGED <<projectPath, workflow>>
        /\ exclusive' \in {exclusive, TRUE} /\ shareBusy' \in {shareBusy, TRUE}
        /\ crossed' = crossed \/ crossed' = (crossed \/ Writing \/ InFlight({"load"}))
    BY <1>5 DEF RunGraph, PublishAppVersion, Ask, BeginExclusive
  <2>2. OneMore
    BY <1>5 DEF RunGraph, PublishAppVersion, Ask, SendDocument, Send
  <2>3. sent' \in 0..MaxSent
    BY <1>1, <2>2 DEF OneMore
  <2>4. crossed' \in BOOLEAN
    BY <1>1, <2>1
  <2>5. exclusive' \in BOOLEAN /\ shareBusy' \in BOOLEAN
    BY <1>1, <2>1
  <2> QED BY <1>1, <2>1, <2>3, <2>4, <2>5
<1>6. ASSUME NEW k \in Calls, HostWritesFirst(k) \/ HostWritesSecond(k) \/ HostReads(k) \/ HostPublishes(k)
      PROVE  UNCHANGED <<projectPath, workflow, sent, exclusive, shareBusy, crossed>>
  BY <1>6 DEF HostWritesFirst, HostWritesSecond, HostReads, HostPublishes, HostOnly
<1>7. ASSUME NEW k \in Calls, \/ SaveAnswered(k) \/ PublishSaved(k) \/ PublishAnswered(k) \/ EditAnswered(k)
                              \/ RunAnswered(k) \/ OrphanEnds(k)
      PROVE  Flags /\ Window
  BY <1>1, <1>7 DEF SaveAnswered, PublishSaved, PublishAnswered, EditAnswered, RunAnswered, OrphanEnds,
     EndExclusive
<1>8. ASSUME NEW k \in Calls, RequestFails(k) PROVE Flags /\ Window
  BY <1>1, <1>8 DEF RequestFails
<1>9. ASSUME NEW k \in Calls, LoadAnswered(k) \/ ImportAnswered(k) PROVE Flags /\ Window
  BY <1>1, <1>2, <1>9 DEF LoadAnswered, ImportAnswered, ImportProject, ImportComfy, OpenSharedApp, Open
<1>10. ASSUME NEW c \in Whole, EditDocument(c) \/ ApplyTemplate(c) PROVE Flags /\ Window
  BY <1>1, <1>2, <1>10 DEF EditDocument, ApplyTemplate, DocumentOnly, Open
<1>11. ASSUME Undo \/ Redo \/ NewWorkflow \/ Reload PROVE Flags /\ Window
  BY <1>1, <1>2, <1>11 DEF Undo, Redo, NewWorkflow, Reload, DocumentOnly, Open
<1>12. CASE UNCHANGED vars
  BY <1>3, <1>12 DEF vars
<1> QED
  BY <1>3, <1>4, <1>5, <1>6, <1>7, <1>8, <1>9, <1>10, <1>11, <1>12 DEF Next, CallStep

LEMMA TypeStep ==
    ASSUME TypeOK, FilesOK, CallsOK, Bounded, [Next]_vars
    PROVE  TypeOK' /\ FilesOK' /\ CallsOK'
BY HistoryTypeStep, CallsOKStep, FilesStep, FlagsStep DEF TypeOK, HistoryIn, CallRecord, FileRecord

-----------------------------------------------------------------------------
(* The history implements EditHistory. *)

OneLine == past \o <<present>> \o future
Place == Len(past) + 1

LEMMA OneLineEntries ==
    ASSUME HistoryIn(Contents)
    PROVE  /\ OneLine \in Seq(Contents) /\ Len(OneLine) = Len(past) + 1 + Len(future)
           /\ \A i \in 1..(Len(past) + 1 + Len(future)) :
                OneLine[i] = IF i <= Len(past) THEN past[i]
                             ELSE IF i = Len(past) + 1 THEN present ELSE future[i - (Len(past) + 1)]
           /\ Len(past) \in Nat /\ Len(future) \in Nat
BY LineEntries, LenProperties DEF HistoryIn, OneLine

LEMMA OneLineEntriesNext ==
    ASSUME HistoryIn(Contents)'
    PROVE  /\ OneLine' \in Seq(Contents) /\ Len(OneLine') = Len(past') + 1 + Len(future')
           /\ \A i \in 1..(Len(past') + 1 + Len(future')) :
                OneLine'[i] = IF i <= Len(past') THEN past'[i]
                              ELSE IF i = Len(past') + 1 THEN present' ELSE future'[i - (Len(past') + 1)]
           /\ Len(past') \in Nat /\ Len(future') \in Nat
BY LineEntries, LenProperties DEF HistoryIn, OneLine

\* The content that is shown is the one at its place, and what lies up to there is
\* the past and it.
LEMMA UpToPlace ==
    ASSUME HistoryIn(Contents)
    PROVE  /\ OneLine[Place] = present
           /\ SubSeq(OneLine, 1, Place) = Append(past, present)
<1>1. /\ OneLine \in Seq(Contents) /\ Len(OneLine) = Len(past) + 1 + Len(future)
      /\ \A i \in 1..(Len(past) + 1 + Len(future)) :
           OneLine[i] = IF i <= Len(past) THEN past[i]
                        ELSE IF i = Len(past) + 1 THEN present ELSE future[i - (Len(past) + 1)]
      /\ Len(past) \in Nat /\ Len(future) \in Nat
  BY OneLineEntries
<1>2. \A i \in 1..Place : OneLine[i] \in Contents
  <2> SUFFICES ASSUME NEW i \in 1..Place PROVE OneLine[i] \in Contents
    OBVIOUS
  <2>1. i \in 1..Len(OneLine)
    BY <1>1 DEF Place
  <2> QED BY <1>1, <2>1, ElementOfSeq
<1>3. Place \in Int /\ Place >= 1
  BY <1>1 DEF Place
<1>4. /\ SubSeq(OneLine, 1, Place) \in Seq(Contents)
      /\ Len(SubSeq(OneLine, 1, Place)) = IF 1 <= Place THEN Place - 1 + 1 ELSE 0
      /\ \A i \in 1..(Place - 1 + 1) : SubSeq(OneLine, 1, Place)[i] = OneLine[1 + i - 1]
  BY <1>2, <1>3, SubSeqProperties
<1>5. /\ Append(past, present) \in Seq(Contents) /\ Len(Append(past, present)) = Len(past) + 1
      /\ \A i \in 1..(Len(past) + 1) :
           Append(past, present)[i] = IF i = Len(past) + 1 THEN present ELSE past[i]
  BY AppendProperties DEF HistoryIn
<1>6. Len(SubSeq(OneLine, 1, Place)) = Len(Append(past, present))
  BY <1>1, <1>3, <1>4, <1>5 DEF Place
<1>7. ASSUME NEW i \in 1..Len(SubSeq(OneLine, 1, Place))
      PROVE  SubSeq(OneLine, 1, Place)[i] = Append(past, present)[i]
  <2>1. i \in 1..(Len(past) + 1) /\ i \in Int /\ Place = Len(past) + 1
    BY <1>1, <1>5, <1>6 DEF Place
  <2>2. SubSeq(OneLine, 1, Place)[i] = OneLine[i]
    BY <1>1, <1>4, <2>1
  <2>3. OneLine[i] = IF i <= Len(past) THEN past[i] ELSE present
    BY <1>1, <2>1
  <2> QED BY <1>1, <1>5, <2>1, <2>2, <2>3
<1>8. SubSeq(OneLine, 1, Place) = Append(past, present)
  BY <1>4, <1>5, <1>6, <1>7, SeqEqual
<1> QED BY <1>1, <1>8 DEF Place

LEMMA AloneOnLine ==
    ASSUME NEW c, past' = <<>>, present' = c, future' = <<>>
    PROVE  OneLine' = <<c>> /\ Place' = 1
BY DEF OneLine, Place

LEMMA CommitOnLine ==
    ASSUME HistoryIn(Contents), NEW c \in Contents, Commit(c), c # present
    PROVE  /\ OneLine' = Append(Newest(SubSeq(OneLine, 1, Place), HistoryLimit), c)
           /\ Place' = Len(OneLine')
<1>1. past' = Newest(Append(past, present), HistoryLimit) /\ present' = c /\ future' = <<>>
  BY DEF Commit
<1>2. HistoryIn(Contents)'
  BY CommitIn
<1>3. past' \in Seq(Contents) /\ Len(past') \in Nat /\ Len(future') = 0
  BY <1>1, <1>2, LenProperties DEF HistoryIn
<1>4. OneLine' = past' \o <<c>> \o <<>> /\ past' \o <<c>> \in Seq(Contents)
  BY <1>1, <1>3, ConcatProperties DEF OneLine
<1>5. OneLine' = past' \o <<c>>
  BY <1>4, ConcatEmptySeq
<1>6. Append(past', c) = past' \o <<c>>
  BY <1>3, AppendIsConcat
<1>7. Len(OneLine') = Len(past') + 1
  BY <1>2, <1>3, OneLineEntriesNext
<1> QED BY <1>1, <1>5, <1>6, <1>7, UpToPlace DEF Place

LEMMA UndoOnLine ==
    ASSUME HistoryIn(Contents), UndoHistory
    PROVE  OneLine' = OneLine /\ Place > 1 /\ Place' = Place - 1
<1>1. /\ HistoryIn(Contents)'
      /\ Len(past) \in Nat \ {0} /\ Len(past') = Len(past) - 1 /\ Len(future') = Len(future) + 1
      /\ \A i \in 1..(Len(past) - 1) : past'[i] = past[i]
      /\ \A i \in 1..Len(future) : future'[i + 1] = future[i]
      /\ future'[1] = present /\ present' = past[Len(past)]
  BY UndoIn
<1>2. /\ OneLine \in Seq(Contents) /\ Len(OneLine) = Len(past) + 1 + Len(future)
      /\ \A i \in 1..(Len(past) + 1 + Len(future)) :
           OneLine[i] = IF i <= Len(past) THEN past[i]
                        ELSE IF i = Len(past) + 1 THEN present ELSE future[i - (Len(past) + 1)]
      /\ Len(past) \in Nat /\ Len(future) \in Nat
  BY OneLineEntries
<1>3. /\ OneLine' \in Seq(Contents) /\ Len(OneLine') = Len(past') + 1 + Len(future')
      /\ \A i \in 1..(Len(past') + 1 + Len(future')) :
           OneLine'[i] = IF i <= Len(past') THEN past'[i]
                         ELSE IF i = Len(past') + 1 THEN present' ELSE future'[i - (Len(past') + 1)]
  BY <1>1, OneLineEntriesNext
<1>4. Len(OneLine') = Len(OneLine)
  BY <1>1, <1>2, <1>3
<1>5. ASSUME NEW i \in 1..Len(OneLine') PROVE OneLine'[i] = OneLine[i]
  <2>1. i \in Int /\ i >= 1 /\ i <= Len(past) + 1 + Len(future)
    BY <1>1, <1>2, <1>3
  <2>2. CASE i <= Len(past) - 1
    <3>1. OneLine[i] = past[i] /\ OneLine'[i] = past'[i] /\ past'[i] = past[i]
      BY <1>1, <1>2, <1>3, <2>1, <2>2
    <3> QED BY <3>1
  <2>3. CASE i = Len(past)
    <3>1. OneLine[i] = past[i] /\ OneLine'[i] = present'
      BY <1>1, <1>2, <1>3, <2>1, <2>3
    <3> QED BY <1>1, <2>3, <3>1
  <2>4. CASE i = Len(past) + 1
    <3>1. OneLine[i] = present /\ OneLine'[i] = future'[i - Len(past)]
      BY <1>1, <1>2, <1>3, <2>1, <2>4
    <3>2. i - Len(past) = 1
      BY <1>2, <2>4
    <3> QED BY <1>1, <3>1, <3>2
  <2>5. CASE i > Len(past) + 1
    <3>1. OneLine[i] = future[i - (Len(past) + 1)] /\ OneLine'[i] = future'[i - Len(past)]
      BY <1>1, <1>2, <1>3, <2>1, <2>5
    <3>2. i - (Len(past) + 1) \in 1..Len(future) /\ (i - (Len(past) + 1)) + 1 = i - Len(past)
      BY <1>2, <2>1, <2>5
    <3> QED BY <1>1, <3>1, <3>2
  <2> QED BY <1>2, <2>1, <2>2, <2>3, <2>4, <2>5
<1>6. OneLine' = OneLine
  BY <1>2, <1>3, <1>4, <1>5, SeqEqual
<1> QED BY <1>1, <1>6 DEF Place

LEMMA RedoOnLine ==
    ASSUME HistoryIn(Contents), Bounded, RedoHistory
    PROVE  OneLine' = OneLine /\ Place < Len(OneLine) /\ Place' = Place + 1
<1>1. /\ HistoryIn(Contents)'
      /\ past' = Append(past, present) /\ Len(past') = Len(past) + 1
      /\ Len(future) \in Nat \ {0} /\ Len(future') = Len(future) - 1
      /\ \A i \in 1..(Len(future) - 1) : future'[i] = future[i + 1]
      /\ present' = future[1]
  BY RedoIn
<1>2. /\ OneLine \in Seq(Contents) /\ Len(OneLine) = Len(past) + 1 + Len(future)
      /\ \A i \in 1..(Len(past) + 1 + Len(future)) :
           OneLine[i] = IF i <= Len(past) THEN past[i]
                        ELSE IF i = Len(past) + 1 THEN present ELSE future[i - (Len(past) + 1)]
      /\ Len(past) \in Nat /\ Len(future) \in Nat
  BY OneLineEntries
<1>3. /\ OneLine' \in Seq(Contents) /\ Len(OneLine') = Len(past') + 1 + Len(future')
      /\ \A i \in 1..(Len(past') + 1 + Len(future')) :
           OneLine'[i] = IF i <= Len(past') THEN past'[i]
                         ELSE IF i = Len(past') + 1 THEN present' ELSE future'[i - (Len(past') + 1)]
  BY <1>1, OneLineEntriesNext
<1>4. Len(OneLine') = Len(OneLine)
  BY <1>1, <1>2, <1>3
<1>5. \A i \in 1..(Len(past) + 1) : past'[i] = IF i = Len(past) + 1 THEN present ELSE past[i]
  BY <1>1, AppendProperties DEF HistoryIn
<1>6. ASSUME NEW i \in 1..Len(OneLine') PROVE OneLine'[i] = OneLine[i]
  <2>1. i \in Int /\ i >= 1 /\ i <= Len(past) + 1 + Len(future)
    BY <1>1, <1>2, <1>3
  <2>2. CASE i <= Len(past) + 1
    <3>1. OneLine[i] = IF i <= Len(past) THEN past[i] ELSE present
      BY <1>2, <2>1, <2>2
    <3>2. OneLine'[i] = past'[i]
      BY <1>1, <1>2, <1>3, <2>1, <2>2
    <3>3. past'[i] = IF i = Len(past) + 1 THEN present ELSE past[i]
      BY <1>2, <1>5, <2>1, <2>2
    <3> QED BY <1>2, <2>1, <2>2, <3>1, <3>2, <3>3
  <2>3. CASE i = Len(past) + 2
    <3>1. OneLine[i] = future[i - (Len(past) + 1)] /\ OneLine'[i] = present'
      BY <1>1, <1>2, <1>3, <2>1, <2>3
    <3>2. i - (Len(past) + 1) = 1
      BY <1>2, <2>3
    <3> QED BY <1>1, <3>1, <3>2
  <2>4. CASE i > Len(past) + 2
    <3>1. OneLine[i] = future[i - (Len(past) + 1)] /\ OneLine'[i] = future'[i - (Len(past) + 2)]
      BY <1>1, <1>2, <1>3, <2>1, <2>4
    <3>2. i - (Len(past) + 2) \in 1..(Len(future) - 1) /\ (i - (Len(past) + 2)) + 1 = i - (Len(past) + 1)
      BY <1>2, <2>1, <2>4
    <3> QED BY <1>1, <3>1, <3>2
  <2> QED BY <1>2, <2>1, <2>2, <2>3, <2>4
<1>7. OneLine' = OneLine
  BY <1>2, <1>3, <1>4, <1>6, SeqEqual
<1> QED BY <1>1, <1>2, <1>7 DEF Place

LEMMA LineBegins == Init => Line!Begin
<1> SUFFICES ASSUME Init PROVE Line!Begin
  OBVIOUS
<1>1. past \o <<present>> \o future = <<Blank>> /\ Len(past) + 1 = 1 /\ Blank \in Contents
  BY DEF Init, Contents, Whole
<1> QED BY <1>1 DEF Line!Begin

LEMMA LineMoves == TypeOK /\ Bounded /\ [Next]_vars => [Line!Move]_(Line!lineVars)
<1> SUFFICES ASSUME TypeOK, Bounded, [Next]_vars PROVE [Line!Move]_(Line!lineVars)
  OBVIOUS
<1> DEFINE Stays == OneLine' = OneLine /\ Place' = Place
           Reopens == (\E c \in Contents : OneLine' = <<c>>) /\ Place' = 1
           Edits == /\ \E c \in Contents \ {OneLine[Place]} :
                         OneLine' = Append(Newest(SubSeq(OneLine, 1, Place), HistoryLimit), c)
                    /\ Place' = Len(OneLine')
           Back == Place > 1 /\ Place' = Place - 1 /\ OneLine' = OneLine
           Forth == Place < Len(OneLine) /\ Place' = Place + 1 /\ OneLine' = OneLine
           Goal == Stays \/ Reopens \/ Edits \/ Back \/ Forth
<1>1. HistoryIn(Contents) /\ Blank \in Contents
  BY DEF TypeOK, HistoryIn, Contents, Whole
<1>2. ASSUME UNCHANGED <<past, present, future>> PROVE Stays
  BY <1>2 DEF OneLine, Place
<1>3. ASSUME NEW c \in Whole, Commit(c) PROVE Stays \/ Edits
  <2>1. CASE c = present
    BY <1>2, <1>3, <2>1 DEF Commit
  <2>2. CASE c # present
    <3>1. c \in Contents /\ c # OneLine[Place]
      BY <1>1, <2>2, UpToPlace DEF Contents
    <3> QED BY <1>1, <1>3, <2>2, <3>1, CommitOnLine
  <2> QED BY <2>1, <2>2
<1>4. ASSUME UndoHistory PROVE Back
  BY <1>1, <1>4, UndoOnLine
<1>5. ASSUME RedoHistory PROVE Forth
  BY <1>1, <1>5, RedoOnLine
<1>6. ASSUME NEW c \in Contents, NEW saved \in BOOLEAN, Replace(c, saved) PROVE Reopens
  BY <1>6, AloneOnLine DEF Replace
<1>7. ASSUME NEW c \in Contents, MarkSaved(c) PROVE Stays
  BY <1>2, <1>7 DEF MarkSaved
<1>8. ASSUME ReloadHistory PROVE Reopens
  <2>1. Recovered.content \in Contents
    BY <1>1 DEF Recovered, HistoryIn
  <2> QED BY <1>8, <2>1, AloneOnLine DEF ReloadHistory
<1>9. ASSUME UNCHANGED <<history, recovery>> PROVE Stays
  BY <1>2, <1>9 DEF history
<1> HIDE DEF Stays, Reopens, Edits, Back, Forth
<1>10. Goal
  BY <1>3, <1>4, <1>5, <1>6, <1>7, <1>8, <1>9, HistoryKinds DEF HistoryMoves
<1>11. Line!Move <=> Reopens \/ Edits \/ Back \/ Forth
  BY DEF Line!Move, Line!Reopen, Line!Edit, Line!StepBack, Line!StepForth, Line!Newest, Newest, OneLine, Place,
         Reopens, Edits, Back, Forth
<1>12. Stays => UNCHANGED Line!lineVars
  BY DEF Line!lineVars, Stays, OneLine, Place
<1> QED BY <1>10, <1>11, <1>12 DEF Goal

-----------------------------------------------------------------------------
(* The files and the window agree as long as nothing has crossed. *)

InCalm == OneWriter /\ FilesWhole /\ PathKept /\ AllAgree
Busy(v) == v.op \in Writers /\ v.stage \in {"half", "done"}

LEMMA Flying ==
    ASSUME NEW k \in Calls, NEW ops, call[k].op \in ops
    PROVE  InFlight(ops)
BY DEF InFlight

LEMMA CrossedStays == TypeOK /\ FilesOK /\ CallsOK /\ [Next]_vars /\ ~crossed' => ~crossed
<1> SUFFICES ASSUME TypeOK, FilesOK, CallsOK, [Next]_vars, crossed PROVE crossed'
  OBVIOUS
<1>1. CASE UNCHANGED crossed
  BY <1>1
<1>2. ASSUME NEW k \in Calls, NEW p \in Paths, SaveProject(k, p) \/ LoadProject(k, p) PROVE crossed'
  BY <1>2 DEF SaveProject, LoadProject
<1>3. ASSUME NEW k \in Calls,
             \/ RunGraph(k) \/ PublishAppVersion(k) \/ (\E op \in AllOps : Ask(k, op)) \/ HostWritesFirst(k)
             \/ HostWritesSecond(k) \/ HostReads(k) \/ HostPublishes(k) \/ SaveAnswered(k) \/ PublishSaved(k)
             \/ PublishAnswered(k) \/ EditAnswered(k) \/ RunAnswered(k) \/ RequestFails(k) \/ OrphanEnds(k)
      PROVE  crossed'
  BY <1>3 DEF RunGraph, PublishAppVersion, Ask, HostWritesFirst, HostWritesSecond, HostReads, HostPublishes,
     HostOnly, SaveAnswered, PublishSaved, PublishAnswered, EditAnswered, RunAnswered, RequestFails, OrphanEnds
<1>4. ASSUME NEW k \in Calls, LoadAnswered(k) \/ ImportAnswered(k) PROVE crossed'
  BY <1>4 DEF LoadAnswered, ImportAnswered, ImportProject, ImportComfy, OpenSharedApp, Open
<1>5. ASSUME NEW c \in Whole, EditDocument(c) \/ ApplyTemplate(c) PROVE crossed'
  BY <1>5 DEF EditDocument, ApplyTemplate, DocumentOnly, Open
<1>6. ASSUME Undo \/ Redo \/ NewWorkflow \/ Reload PROVE crossed'
  BY <1>6 DEF Undo, Redo, NewWorkflow, Reload, DocumentOnly, Open
<1>7. CASE UNCHANGED vars
  BY <1>1, <1>7 DEF vars
<1> QED BY <1>1, <1>2, <1>3, <1>4, <1>5, <1>6, <1>7 DEF Next, CallStep

\* A request changes that is not in the middle of a write.
LEMMA QuietCall ==
    ASSUME InCalm, NEW k \in Calls, NEW v \in CallRecord, Put(k, v),
           UNCHANGED <<disk, workflow, projectPath, savedKey>>, ~Busy(call[k]),
           v.op \in Writers => call[k].op \in Writers \/ (~Writing /\ ~InFlight({"load"})),
           v.op = "load" => call[k].op = "load" \/ ~Writing,
           Agrees(v, disk, workflow, projectPath)
    PROVE  InCalm'
<1>1. call'[k] = v /\ \A l \in Calls \ {k} : call'[l] = call[l]
  BY DEF Put
<1>2. OneWriter'
  <2>1. ASSUME NEW i \in Calls, NEW j \in Calls, call'[i].op \in Writers, call'[j].op \in Writers PROVE i = j
    BY <1>1, <2>1 DEF InCalm, OneWriter, Writing, InFlight, Writers
  <2>2. ASSUME Writing', InFlight({"load"})' PROVE FALSE
    BY <1>1, <2>2 DEF InCalm, OneWriter, Writing, InFlight, Writers
  <2> QED BY <2>1, <2>2 DEF OneWriter
<1>3. FilesWhole'
  <2> SUFFICES ASSUME NEW p \in Paths
               PROVE  /\ disk'[p].first \in Whole \cup {NoDoc}
                      /\ disk'[p].first = disk'[p].second \/ Halfway(p)'
    BY DEF FilesWhole
  <2>1. Halfway(p) => Halfway(p)'
    BY <1>1 DEF Halfway, Busy
  <2> QED BY <2>1 DEF InCalm, FilesWhole
<1>4. PathKept'
  <2>1. (\E l \in Calls : call[l].op \in Writers /\ call[l].stage \in {"half", "done"})
          => \E l \in Calls : call'[l].op \in Writers /\ call'[l].stage \in {"half", "done"}
    BY <1>1 DEF Busy
  <2> QED BY <2>1 DEF InCalm, PathKept
<1>5. AllAgree'
  BY <1>1 DEF InCalm, AllAgree
<1> QED BY <1>2, <1>3, <1>4, <1>5 DEF InCalm

\* Another document is opened while nothing is written.
LEMMA QuietOpening ==
    ASSUME InCalm, ~Writing, UNCHANGED disk, \A l \in Calls : call'[l] \in {call[l], Idle}, PathKept'
    PROVE  InCalm'
<1>1. \A l \in Calls : call[l].op \notin Writers /\ call'[l].op \notin Writers
  BY DEF Writing, InFlight, Writers, Idle
<1>2. OneWriter'
  BY <1>1 DEF OneWriter, Writing, InFlight, Writers
<1>3. FilesWhole'
  BY <1>1 DEF InCalm, FilesWhole, Halfway
<1>4. AllAgree'
  <2> SUFFICES ASSUME NEW l \in Calls PROVE Agrees(call'[l], disk', workflow', projectPath')
    BY DEF AllAgree
  <2>1. CASE call'[l] = Idle
    BY <2>1 DEF Agrees, Idle, Writers
  <2>2. CASE call'[l] = call[l]
    BY <1>1, <2>2 DEF InCalm, AllAgree, Agrees
  <2> QED BY <2>1, <2>2
<1> QED BY <1>2, <1>3, <1>4 DEF InCalm

LEMMA OpeningPutsNoPath == ASSUME projectPath' = NoPath PROVE PathKept'
BY DEF PathKept

\* A request is made: a write only while nothing else is written or read.
LEMMA MakeCalm ==
    ASSUME TypeOK, CallsOK, InCalm, ContentsWhole, ~crossed', NEW k \in Calls,
           \/ \E p \in Paths : SaveProject(k, p) \/ LoadProject(k, p)
           \/ RunGraph(k) \/ PublishAppVersion(k) \/ \E op \in AllOps : Ask(k, op)
    PROVE  InCalm'
<1>1. ~Busy(call[k]) /\ UNCHANGED <<disk, workflow, projectPath, savedKey>> /\ call[k].op \notin Writers
  BY DEF SaveProject, LoadProject, RunGraph, PublishAppVersion, Ask, history, Busy, Idle, Writers
<1>2. ASSUME NEW op \in {"save", "publish"}, NEW path \in Paths, SendDocument(k, op, path),
             ~Writing, ~InFlight({"load"}), op = "publish" => path = projectPath
      PROVE  InCalm'
  <2>1. Put(k, Document(op, path))
    BY <1>2, SendsDocument DEF AllOps
  <2>2. Document(op, path) \in CallRecord /\ Document(op, path).op = op
    BY <2>1 DEF Put, Document
  <2>3. Agrees(Document(op, path), disk, workflow, projectPath)
    BY <1>2 DEF Agrees, Document, ContentsWhole
  <2> QED BY <1>1, <1>2, <2>1, <2>2, <2>3, QuietCall
<1>3. ASSUME NEW op \in {"load", "open", "edit", "run"}, NEW path \in Paths \cup {NoPath}, Send(k, op, path),
             op = "load" => ~Writing
      PROVE  InCalm'
  <2>1. Put(k, Sent(op, path))
    BY <1>3, Sends DEF AllOps
  <2>2. Sent(op, path) \in CallRecord /\ Sent(op, path).op = op /\ Sent(op, path).stage = "sent"
    BY <2>1 DEF Put, Sent, Idle
  <2>3. op \notin Writers
    BY DEF Writers
  <2>4. Agrees(Sent(op, path), disk, workflow, projectPath)
    BY <2>2, <2>3 DEF Agrees
  <2> QED BY <1>1, <1>3, <2>1, <2>2, <2>3, <2>4, QuietCall
<1>4. ASSUME NEW p \in Paths, SaveProject(k, p) PROVE InCalm'
  BY <1>2, <1>4 DEF SaveProject
<1>5. ASSUME NEW p \in Paths, LoadProject(k, p) PROVE InCalm'
  BY <1>3, <1>5 DEF LoadProject
<1>6. CASE PublishAppVersion(k)
  <2>1. projectPath \in Paths
    BY <1>6 DEF PublishAppVersion, TypeOK
  <2> QED BY <1>2, <1>6, <2>1 DEF PublishAppVersion
<1>7. CASE RunGraph(k)
  BY <1>3, <1>7 DEF RunGraph
<1>8. ASSUME NEW op \in AllOps, Ask(k, op) PROVE InCalm'
  <2>1. op \in {"open", "edit"} /\ Send(k, op, NoPath)
    BY <1>8 DEF Ask
  <2> QED BY <1>3, <2>1
<1> QED BY <1>4, <1>5, <1>6, <1>7, <1>8

\* A write goes on: nobody else writes or reads.
LEMMA WriteCalm ==
    ASSUME TypeOK, CallsOK, InCalm, NEW k \in Calls, HostWritesFirst(k) \/ HostWritesSecond(k)
    PROVE  InCalm'
<1> DEFINE p == call[k].path
           c == call[k].content
           file == disk'[p]
           v == call'[k]
<1>1. /\ call[k].op \in Writers /\ call[k] \in CallRecord /\ disk \in [Paths -> FileRecord]
      /\ UNCHANGED <<workflow, projectPath, savedKey>> /\ p \in Paths
  BY DEF HostWritesFirst, HostWritesSecond, HostOnly, history, Writers, TypeOK, CallRecord, FileRecord,
     CallsOK, CallOK
<1>2. Agrees(call[k], disk, workflow, projectPath)
  BY DEF InCalm, AllAgree
<1>3. \A l \in Calls \ {k} : call[l].op \notin Writers /\ call[l].op # "load"
  BY <1>1 DEF InCalm, OneWriter, Writing, InFlight, Writers
<1>4. /\ \A l \in Calls \ {k} : call'[l] = call[l]
      /\ \A q \in Paths \ {p} : disk'[q] = disk[q]
      /\ v.op = call[k].op /\ v.path = p /\ v.content = c /\ v.workflow = call[k].workflow
      /\ v.stage \in {"half", "done"}
      /\ v.stage = "half" => file.first = c /\ file.workflow = v.workflow
      /\ v.stage = "done" => file = [first |-> c, second |-> c, workflow |-> v.workflow]
  <2>1. CASE HostWritesFirst(k)
    <3>1. /\ PutFile(p, WrittenFirst(k)) /\ Put(k, [call[k] EXCEPT !.stage = "half"])
          /\ WrittenFirst(k).first = c /\ WrittenFirst(k).workflow = call[k].workflow
      BY <2>1, WritesFirst
    <3> QED BY <1>1, <3>1 DEF PutFile, Put, CallRecord
  <2>2. CASE HostWritesSecond(k)
    <3>1. /\ PutFile(p, WrittenSecond(k)) /\ Put(k, [call[k] EXCEPT !.stage = "done"])
          /\ WrittenSecond(k) = [first |-> disk[p].first, second |-> c, workflow |-> disk[p].workflow]
      BY <2>2, WritesSecond
    <3>2. disk[p].first = c /\ disk[p].workflow = call[k].workflow
      BY <1>1, <1>2, <2>2 DEF Agrees, HostWritesSecond
    <3> QED BY <1>1, <3>1, <3>2 DEF PutFile, Put, CallRecord
  <2> QED BY <2>1, <2>2
<1> HIDE DEF p, c, file, v
<1>5. file.first = c /\ file.workflow = call[k].workflow /\ (v.stage = "done" => file.second = c)
  BY <1>4
<1>6. c \in Whole /\ call[k].workflow = workflow /\ call[k].op # "orphan"
      /\ (call[k].op = "publish" => p = projectPath)
  BY <1>1, <1>2 DEF Agrees, c, p
<1>7. \A l \in Calls : call'[l].op \in Writers => l = k
  BY <1>3, <1>4
<1>8. OneWriter'
  <2>1. \A i, j \in Calls : call'[i].op \in Writers /\ call'[j].op \in Writers => i = j
    BY <1>7
  <2>2. v.op # "load"
    BY <1>1, <1>4 DEF Writers
  <2>3. ~InFlight({"load"})'
    BY <1>3, <1>4, <2>2 DEF InFlight, v
  <2> QED BY <2>1, <2>3 DEF OneWriter
<1>9. FilesWhole'
  <2> SUFFICES ASSUME NEW q \in Paths
               PROVE  /\ disk'[q].first \in Whole \cup {NoDoc}
                      /\ disk'[q].first = disk'[q].second \/ Halfway(q)'
    BY DEF FilesWhole
  <2>1. CASE q = p
    <3>1. disk'[q].first = c
      BY <1>5, <2>1 DEF file
    <3>2. v.stage = "half" => Halfway(q)'
      BY <1>1, <1>4, <2>1 DEF Halfway, v
    <3>3. v.stage = "done" => disk'[q].second = c
      BY <1>5, <2>1 DEF file
    <3> QED BY <1>4, <1>6, <3>1, <3>2, <3>3
  <2>2. CASE q # p
    <3>1. ~Halfway(q)
      BY <1>3, <2>2 DEF Halfway, p
    <3> QED BY <1>4, <2>2, <3>1 DEF InCalm, FilesWhole
  <2> QED BY <2>1, <2>2
<1>10. PathKept'
  <2> SUFFICES ASSUME projectPath # NoPath
               PROVE  /\ disk'[projectPath].workflow = workflow
                      /\ \E l \in Calls : call'[l].op \in Writers /\ call'[l].stage \in {"half", "done"}
    BY <1>1 DEF PathKept
  <2>1. disk'[projectPath].workflow = workflow
    <3>1. CASE projectPath = p
      BY <1>5, <1>6, <3>1 DEF file
    <3>2. CASE projectPath # p
      <4>1. projectPath \in Paths
        BY DEF TypeOK
      <4> QED BY <1>4, <3>2, <4>1 DEF InCalm, PathKept
    <3> QED BY <3>1, <3>2
  <2>2. call'[k].op \in Writers /\ call'[k].stage \in {"half", "done"}
    BY <1>1, <1>4 DEF v
  <2> QED BY <2>1, <2>2
<1>11. AllAgree'
  <2> SUFFICES ASSUME NEW l \in Calls PROVE Agrees(call'[l], disk', workflow', projectPath')
    BY DEF AllAgree
  <2>1. CASE l = k
    <3>1. Agrees(v, disk', workflow, projectPath)
      BY <1>1, <1>4, <1>6 DEF Agrees, file, Writers
    <3> QED BY <1>1, <2>1, <3>1 DEF v
  <2>2. CASE l # k
    BY <1>3, <1>4, <2>2 DEF Agrees
  <2> QED BY <2>1, <2>2
<1> QED BY <1>8, <1>9, <1>10, <1>11 DEF InCalm

\* The host reads a file or publishes it: it is whole, for nobody is writing it.
LEMMA ReadCalm ==
    ASSUME TypeOK, CallsOK, InCalm, NEW k \in Calls, HostReads(k) \/ HostPublishes(k)
    PROVE  InCalm'
<1>1. /\ call[k] \in CallRecord /\ disk \in [Paths -> FileRecord]
      /\ UNCHANGED <<disk, workflow, projectPath, savedKey>> /\ ~Busy(call[k])
      /\ Agrees(call[k], disk, workflow, projectPath)
  BY DEF HostReads, HostPublishes, HostOnly, history, Busy, Writers, TypeOK, CallRecord, FileRecord, InCalm, AllAgree
<1>2. CASE HostReads(k)
  <2> DEFINE file == disk[call[k].path]
  <2>1. Put(k, Read(k)) /\ call[k].path \in Paths /\ call[k].op = "load"
    BY <1>2, ReadsFile DEF HostReads
  <2>2. file.first = file.second
    <3>1. ~Writing
      BY <2>1, Flying DEF InCalm, OneWriter
    <3>2. ~Halfway(call[k].path)
      BY <3>1 DEF Halfway, Writing, InFlight, Writers
    <3> QED BY <2>1, <3>2 DEF InCalm, FilesWhole
  <2>3. /\ Read(k) \in CallRecord /\ Read(k).op = "load" /\ Read(k).stage = "done" /\ Read(k).path = call[k].path
        /\ Read(k).content = FileContent(file) /\ Read(k).workflow = file.workflow
    BY <1>1, <2>1 DEF Read, Put, CallRecord
  <2>4. file = [first |-> file.first, second |-> file.second, workflow |-> file.workflow]
        /\ FileContent(file) = file.first
    BY <1>1, <2>1, <2>2 DEF FileRecord, FileContent
  <2> HIDE DEF file
  <2>5. Agrees(Read(k), disk, workflow, projectPath)
    BY <2>2, <2>3, <2>4 DEF Agrees, Writers, file
  <2>6. Read(k).op \notin Writers
    BY <2>3 DEF Writers
  <2> QED BY <1>1, <2>1, <2>3, <2>5, <2>6, QuietCall
<1>3. CASE HostPublishes(k)
  <2> DEFINE file == disk[call[k].path]
  <2>1. Put(k, Published(k)) /\ call[k].op = "publish" /\ call[k].stage = "publishing"
    BY <1>3, PublishesFile DEF HostPublishes
  <2>2. /\ Published(k) \in CallRecord /\ Published(k).op = "publish" /\ Published(k).stage = "published"
        /\ Published(k).path = call[k].path /\ Published(k).content = FileContent(file)
        /\ Published(k).workflow = call[k].workflow
    BY <1>1, <2>1 DEF Published, Put, CallRecord
  <2>3. /\ file.first = file.second /\ FileContent(file) = call[k].content
        /\ call[k].content \in Whole /\ call[k].workflow = workflow /\ call[k].path = projectPath
    BY <1>1, <2>1 DEF Agrees, Writers, FileContent
  <2> HIDE DEF file
  <2>4. Agrees(Published(k), disk, workflow, projectPath)
    BY <2>2, <2>3 DEF Agrees, file
  <2>5. call[k].op \in Writers /\ Published(k).op # "load"
    BY <2>1, <2>2 DEF Writers
  <2> QED BY <1>1, <2>1, <2>2, <2>4, <2>5, QuietCall
<1> QED BY <1>2, <1>3

\* The write is over: the file is the window's own, and what counts as saved is in it.
LEMMA SavedCalm ==
    ASSUME TypeOK, CallsOK, InCalm, NEW k \in Calls, SaveAnswered(k) \/ PublishSaved(k)
    PROVE  InCalm'
<1> DEFINE p == call[k].path
           c == call[k].content
           v == call'[k]
<1>1. /\ call[k] \in CallRecord /\ call[k].op \in {"save", "publish"} /\ call[k].stage = "done"
      /\ UNCHANGED <<disk, workflow>> /\ savedKey' = c
      /\ Agrees(call[k], disk, workflow, projectPath)
  BY DEF SaveAnswered, PublishSaved, MarkSaved, TypeOK, CallRecord, InCalm, AllAgree
<1>2. /\ p \in Paths /\ c \in Whole /\ call[k].workflow = workflow
      /\ disk[p] = [first |-> c, second |-> c, workflow |-> workflow]
      /\ (call[k].op = "publish" => p = projectPath)
  BY <1>1 DEF Agrees, Writers, CallsOK, CallOK
<1>3. \A l \in Calls \ {k} : call[l].op \notin Writers /\ call[l].op # "load"
  BY <1>1 DEF InCalm, OneWriter, Writing, InFlight, Writers
<1>4. /\ \A l \in Calls \ {k} : call'[l] = call[l]
      /\ v = Idle \/ v = [call[k] EXCEPT !.stage = "publishing"]
      /\ projectPath' = p
      /\ v # Idle => call[k].op = "publish"
  <2>1. CASE SaveAnswered(k)
    <3>1. Put(k, Idle)
      BY <2>1, Settles DEF SaveAnswered
    <3> QED BY <2>1, <3>1 DEF SaveAnswered, Put
  <2>2. CASE PublishSaved(k)
    <3>1. Put(k, [call[k] EXCEPT !.stage = "publishing"])
      BY <2>2, Advances DEF PublishSaved, Stages
    <3> QED BY <1>2, <2>2, <3>1 DEF PublishSaved, Put
  <2> QED BY <2>1, <2>2
<1>5. \/ v.op = "none"
      \/ /\ v.op = "publish" /\ v.stage = "publishing" /\ v.path = p /\ v.content = c
         /\ v.workflow = workflow
  BY <1>1, <1>2, <1>4 DEF Idle, CallRecord
<1> HIDE DEF p, c, v
<1>6. OneWriter'
  <2>1. \A l \in Calls : call'[l].op \in Writers => l = k
    BY <1>3, <1>4
  <2>2. ~InFlight({"load"})'
    BY <1>3, <1>4, <1>5 DEF InFlight, v
  <2> QED BY <2>1, <2>2 DEF OneWriter
<1>7. FilesWhole'
  <2> SUFFICES ASSUME NEW q \in Paths
               PROVE  disk'[q].first \in Whole \cup {NoDoc} /\ disk'[q].first = disk'[q].second
    BY DEF FilesWhole
  <2>1. ~Halfway(q)
    BY <1>1, <1>3 DEF Halfway
  <2> QED BY <1>1, <2>1 DEF InCalm, FilesWhole
<1>8. PathKept'
  BY <1>1, <1>2, <1>4 DEF PathKept
<1>9. AllAgree'
  <2> SUFFICES ASSUME NEW l \in Calls PROVE Agrees(call'[l], disk', workflow', projectPath')
    BY DEF AllAgree
  <2>1. CASE l # k
    BY <1>3, <1>4, <2>1 DEF Agrees
  <2>2. CASE l = k
    <3>1. Agrees(v, disk, workflow, p)
      BY <1>2, <1>5 DEF Agrees, Writers
    <3> QED BY <1>1, <1>4, <2>2, <3>1 DEF v
  <2> QED BY <2>1, <2>2
<1> QED BY <1>6, <1>7, <1>8, <1>9 DEF InCalm

\* A request ends that leaves the document and the files alone.
LEMMA EndCalm ==
    ASSUME TypeOK, CallsOK, InCalm, ~crossed', ~crossed, NEW k \in Calls,
           PublishAnswered(k) \/ EditAnswered(k) \/ RunAnswered(k) \/ RequestFails(k) \/ OrphanEnds(k)
    PROVE  InCalm'
<1>1. Put(k, Idle) /\ Idle \in CallRecord /\ UNCHANGED <<disk, workflow, projectPath, savedKey>>
  BY Settles, IdleTyped DEF PublishAnswered, EditAnswered, RunAnswered, RequestFails, OrphanEnds, history,
     CompileProgram, ImportDroppedFiles, ApplyBoardOutput, Commit
<1>2. call[k].op # "orphan"
  BY DEF InCalm, AllAgree, Agrees, Writers
<1>3. ~Busy(call[k])
  BY <1>2 DEF PublishAnswered, EditAnswered, RunAnswered, RequestFails, OrphanEnds, Busy, Writers
<1>4. Agrees(Idle, disk, workflow, projectPath)
  BY DEF Agrees, Idle, Writers
<1>5. Idle.op \notin Writers /\ Idle.op # "load"
  BY DEF Idle, Writers
<1> QED BY <1>1, <1>3, <1>4, <1>5, QuietCall

\* Another document is opened.
LEMMA OpenCalm ==
    ASSUME TypeOK, FilesOK, CallsOK, InCalm, ~crossed',
           \/ \E k \in Calls : LoadAnswered(k) \/ ImportAnswered(k)
           \/ \E c \in Whole : ApplyTemplate(c)
           \/ NewWorkflow \/ Reload
    PROVE  InCalm'
<1>1. ~Writing /\ UNCHANGED disk
  BY DEF LoadAnswered, ImportAnswered, ImportProject, ImportComfy, OpenSharedApp, ApplyTemplate, NewWorkflow,
     Reload, Open
<1>2. ASSUME NEW k \in Calls, Settle(k) PROVE \A l \in Calls : call'[l] \in {call[l], Idle}
  BY <1>2, Settles DEF Put
<1>3. ASSUME NEW k \in Calls, LoadAnswered(k) PROVE InCalm'
  <2>1. /\ Settle(k) /\ projectPath' = call[k].path /\ workflow' = call[k].workflow
        /\ savedKey' = call[k].content /\ call[k].op = "load" /\ call[k].stage = "done"
    BY <1>3 DEF LoadAnswered, Open, Replace
  <2>2. disk[call[k].path] = [first |-> call[k].content, second |-> call[k].content, workflow |-> call[k].workflow]
    BY <2>1 DEF InCalm, AllAgree, Agrees
  <2>3. PathKept'
    BY <1>1, <2>1, <2>2 DEF PathKept
  <2> QED BY <1>1, <1>2, <2>1, <2>3, QuietOpening
<1>4. ASSUME NEW k \in Calls, ImportAnswered(k) PROVE InCalm'
  <2>1. Settle(k) /\ projectPath' = NoPath
    BY <1>4 DEF ImportAnswered, ImportProject, ImportComfy, OpenSharedApp, Open
  <2> QED BY <1>1, <1>2, <2>1, OpeningPutsNoPath, QuietOpening
<1>5. ASSUME NEW c \in Whole, ApplyTemplate(c) PROVE InCalm'
  <2>1. UNCHANGED call /\ projectPath' = NoPath
    BY <1>5 DEF ApplyTemplate, Open
  <2> QED BY <1>1, <2>1, OpeningPutsNoPath, QuietOpening
<1>6. ASSUME NewWorkflow PROVE InCalm'
  <2>1. UNCHANGED call /\ projectPath' = NoPath
    BY <1>6 DEF NewWorkflow, Open
  <2> QED BY <1>1, <2>1, OpeningPutsNoPath, QuietOpening
<1>7. ASSUME Reload PROVE InCalm'
  <2>1. projectPath' = NoPath
    BY <1>7 DEF Reload
  <2>2. \A l \in Calls : call'[l] \in {call[l], Idle}
    <3>1. \A l \in Calls : call[l].op \notin {"save", "publish", "orphan"}
      BY <1>1 DEF Writing, InFlight
    <3> QED BY <1>7, <3>1 DEF Reload
  <2> QED BY <1>1, <2>1, <2>2, OpeningPutsNoPath, QuietOpening
<1> QED BY <1>3, <1>4, <1>5, <1>6, <1>7

\* The document is edited.
LEMMA EditCalm ==
    ASSUME InCalm, UNCHANGED <<call, disk, workflow, projectPath, savedKey>>
    PROVE  InCalm'
BY DEF InCalm, OneWriter, Writing, InFlight, FilesWhole, Halfway, PathKept, AllAgree

LEMMA FilesCalm ==
    ASSUME TypeOK, FilesOK, CallsOK, InCalm, ContentsWhole, ~crossed', [Next]_vars
    PROVE  InCalm'
<1>1. ASSUME NEW k \in Calls, CallStep(k) PROVE InCalm'
  <2>1. ~crossed
    BY CrossedStays
  <2> QED BY <1>1, <2>1, MakeCalm, WriteCalm, ReadCalm, SavedCalm, EndCalm, OpenCalm DEF CallStep
<1>2. ASSUME NEW c \in Whole, EditDocument(c) PROVE InCalm'
  BY <1>2, EditCalm DEF EditDocument, Commit, DocumentOnly
<1>3. ASSUME Undo \/ Redo PROVE InCalm'
  BY <1>3, EditCalm DEF Undo, Redo, UndoHistory, RedoHistory, DocumentOnly
<1>4. CASE UNCHANGED vars
  BY <1>4, EditCalm DEF vars
<1> QED BY <1>1, <1>2, <1>3, <1>4, OpenCalm DEF Next

\* Everything the window holds was saved, edited or opened as a whole.
LEMMA ContentsStep ==
    ASSUME TypeOK, FilesOK, CallsOK, Bounded, InCalm, ContentsWhole, [Next]_vars
    PROVE  ContentsWhole'
<1>1. HistoryIn(Whole) /\ Blank \in Whole /\ NoDoc \notin Contents
  BY SessionAssumption DEF ContentsWhole, HistoryIn, Whole
<1>2. ASSUME NEW k \in Calls, LoadAnswered(k) PROVE call[k].content \in Whole
  <2>1. /\ call[k].op = "load" /\ call[k].stage = "done" /\ call[k].content \in Contents
        /\ call[k].path \in Paths
    BY <1>2 DEF LoadAnswered, TypeOK, CallsOK, CallOK
  <2>2. disk[call[k].path] = [first |-> call[k].content, second |-> call[k].content, workflow |-> call[k].workflow]
    BY <2>1 DEF InCalm, AllAgree, Agrees
  <2>3. disk[call[k].path].first = call[k].content
    BY <2>2
  <2> QED BY <1>1, <2>1, <2>3 DEF InCalm, FilesWhole
<1>3. HistoryIn(Whole)'
  <2>1. CASE UNCHANGED <<history, recovery>>
    BY <1>1, <2>1 DEF history, HistoryIn
  <2>2. ASSUME NEW c \in Whole, Commit(c) PROVE HistoryIn(Whole)'
    BY <1>1, <2>2, CommitIn
  <2>3. CASE UndoHistory
    BY <1>1, <2>3, UndoIn
  <2>4. CASE RedoHistory
    BY <1>1, <2>4, RedoIn
  <2>5. ASSUME NEW c \in Contents, NEW saved \in BOOLEAN, Replace(c, saved),
               c \in Whole \/ \E k \in Calls : LoadAnswered(k) /\ c = call[k].content
        PROVE  HistoryIn(Whole)'
    <3>1. c \in Whole
      BY <1>2, <2>5
    <3> QED BY <2>5, <3>1, ReplaceIn
  <2>6. ASSUME NEW c \in Contents, MarkSaved(c) PROVE HistoryIn(Whole)'
    BY <1>1, <2>6, MarkIn
  <2>7. CASE ReloadHistory
    BY <1>1, <2>7, ReloadIn
  <2> QED BY <2>1, <2>2, <2>3, <2>4, <2>5, <2>6, <2>7, HistoryKinds DEF HistoryMoves
<1> QED BY <1>3 DEF HistoryIn, ContentsWhole

LEMMA CalmStep == TypeOK /\ FilesOK /\ CallsOK /\ Bounded /\ Calm /\ [Next]_vars => Calm'
<1> SUFFICES ASSUME TypeOK, FilesOK, CallsOK, Bounded, Calm, [Next]_vars, ~crossed'
             PROVE  (OneWriter /\ FilesWhole /\ PathKept /\ ContentsWhole /\ AllAgree)'
  BY DEF Calm
<1>1. InCalm /\ ContentsWhole
  BY CrossedStays DEF Calm, InCalm
<1> QED BY <1>1, FilesCalm, ContentsStep DEF InCalm

\* A version is made of the file it is asked for, which holds what was saved.
LEMMA PublicationStep ==
    ASSUME TypeOK, FilesOK, CallsOK, Calm, [Next]_vars, ~crossed, NEW k \in Calls,
           call[k].stage = "publishing", call'[k].stage = "published"
    PROVE  call'[k].content = call[k].content
<1>1. call[k] \in CallRecord
  BY DEF TypeOK, CallRecord
<1>2. ASSUME NEW l \in Calls, NEW v \in CallRecord, Put(l, v), v.stage # "published" PROVE FALSE
  BY <1>2 DEF Put
<1>3. ASSUME NEW l \in Calls, NEW stage \in Stages, Advance(l, stage), stage # "published" PROVE FALSE
  <2>1. call[l] \in CallRecord
    BY DEF TypeOK, CallRecord
  <2>2. [call[l] EXCEPT !.stage = stage].stage = stage
    BY <2>1 DEF CallRecord
  <2> QED BY <1>2, <1>3, <2>2, Advances
<1>4. ASSUME NEW l \in Calls, HostPublishes(l) PROVE call'[k].content = call[k].content
  <2>1. Put(l, Published(l)) /\ l = k
    BY <1>4, PublishesFile DEF Put
  <2>2. call[k].op = "publish" /\ Agrees(call[k], disk, workflow, projectPath)
    BY <1>4, <2>1 DEF HostPublishes, Calm, AllAgree
  <2>3. disk[call[k].path] = [first |-> call[k].content, second |-> call[k].content, workflow |-> call[k].workflow]
    BY <2>2 DEF Agrees, Writers
  <2>4. FileContent(disk[call[k].path]) = call[k].content
    BY <2>3 DEF FileContent
  <2>5. Published(k).content = FileContent(disk[call[k].path])
    BY <1>1 DEF Published, CallRecord
  <2> QED BY <2>1, <2>4, <2>5 DEF Put
<1>5. ASSUME NEW l \in Calls,
             \/ \E p \in Paths : SaveProject(l, p) \/ LoadProject(l, p)
             \/ RunGraph(l) \/ PublishAppVersion(l) \/ \E op \in AllOps : Ask(l, op)
      PROVE  FALSE
  <2>1. \A op, p : Sent(op, p).stage = "sent" /\ Document(op, p).stage = "sent"
    BY DEF Sent, Document, Idle
  <2>2. projectPath \in Paths \cup {NoPath}
    BY DEF TypeOK
  <2>3. ASSUME NEW op \in AllOps, NEW p \in Paths \cup {NoPath}, Send(l, op, p) PROVE FALSE
    <3>1. Put(l, Sent(op, p))
      BY <2>3, Sends
    <3> QED BY <1>2, <2>1, <3>1 DEF Put
  <2>4. ASSUME NEW op \in AllOps, NEW p \in Paths \cup {NoPath}, SendDocument(l, op, p) PROVE FALSE
    <3>1. Put(l, Document(op, p))
      BY <2>4, SendsDocument
    <3> QED BY <1>2, <2>1, <3>1 DEF Put
  <2> QED
    BY <1>5, <2>2, <2>3, <2>4 DEF SaveProject, LoadProject, RunGraph, PublishAppVersion, Ask, AllOps
<1>6. ASSUME NEW l \in Calls, HostWritesFirst(l) \/ HostWritesSecond(l) \/ PublishSaved(l) PROVE FALSE
  BY <1>3, <1>6 DEF HostWritesFirst, HostWritesSecond, PublishSaved, Stages
<1>7. ASSUME NEW l \in Calls, HostReads(l) PROVE FALSE
  <2>1. Put(l, Read(l)) /\ call[l] \in CallRecord
    BY <1>7, ReadsFile DEF TypeOK, CallRecord
  <2>2. Read(l).stage = "done" /\ Read(l) \in CallRecord
    BY <2>1 DEF Read, CallRecord, Put
  <2> QED BY <1>2, <2>1, <2>2
<1>8. ASSUME NEW l \in Calls, Answers(l) PROVE FALSE
  <2>1. Settle(l)
    BY <1>8 DEF Answers, SaveAnswered, PublishAnswered, LoadAnswered, ImportAnswered, EditAnswered,
       RunAnswered, RequestFails, OrphanEnds
  <2>2. Idle.stage = "idle"
    BY DEF Idle
  <2> QED BY <1>2, <2>1, <2>2, IdleTyped, Settles
<1>9. ASSUME UNCHANGED call PROVE FALSE
  BY <1>9
<1>10. CASE Reload
  <2>1. \/ call'[k] = Idle
        \/ call[k].stage \in {"sent", "half", "done"}
    BY <1>10 DEF Reload
  <2> QED BY <2>1 DEF Idle
<1>11. ASSUME NEW c \in Whole, EditDocument(c) \/ ApplyTemplate(c) PROVE FALSE
  BY <1>9, <1>11 DEF EditDocument, ApplyTemplate, DocumentOnly
<1>12. ASSUME Undo \/ Redo \/ NewWorkflow PROVE FALSE
  BY <1>9, <1>12 DEF Undo, Redo, NewWorkflow, DocumentOnly
<1>13. CASE UNCHANGED vars
  BY <1>9, <1>13 DEF vars
<1> QED
  BY <1>4, <1>5, <1>6, <1>7, <1>8, <1>10, <1>11, <1>12, <1>13 DEF Next, CallStep, Answers

-----------------------------------------------------------------------------
(* The theorems. *)

LEMMA SessionInit == Init => SessionInv
<1> SUFFICES ASSUME Init PROVE SessionInv
  OBVIOUS
<1>1. /\ past = <<>> /\ present = Blank /\ future = <<>> /\ savedKey = Blank /\ recovery = NoDoc
      /\ projectPath = NoPath /\ exclusive = FALSE /\ shareBusy = FALSE
      /\ call = [k \in Calls |-> Idle] /\ disk = [p \in Paths |-> NoFile]
      /\ sent = 0 /\ workflow = 1 /\ crossed = FALSE
  BY DEF Init
<1>2. Blank \in Whole /\ Blank \in Contents /\ Blank # NoKey
  BY SessionAssumption DEF Contents, Whole
<1>3. \A k \in Calls : call[k] = Idle /\ call[k].op = "none"
  BY <1>1 DEF Idle
<1>4. \A p \in Paths : disk[p] = NoFile /\ disk[p].first = NoDoc /\ disk[p].second = NoDoc
  BY <1>1 DEF NoFile
<1>5. TypeOK
  <2>1. call \in [Calls -> CallRecord]
    BY <1>1, IdleTyped
  <2>2. disk \in [Paths -> FileRecord]
    BY <1>1 DEF NoFile, FileRecord
  <2>3. past \in Seq(Contents) /\ future \in Seq(Contents)
    BY <1>1, EmptySeq
  <2>4. sent \in 0..MaxSent
    BY <1>1, SessionAssumption
  <2> QED BY <1>1, <1>2, <2>1, <2>2, <2>3, <2>4 DEF TypeOK, CallRecord, FileRecord
<1>6. FilesOK
  BY <1>4 DEF FilesOK
<1>7. CallsOK
  BY <1>3, IdleOK DEF CallsOK
<1>8. Bounded
  BY <1>1, EmptySeq, SessionAssumption DEF Bounded
<1>9. Kept
  BY <1>1 DEF Kept, dirty
<1>10. OneWriter /\ FilesWhole /\ PathKept /\ AllAgree
  <2>1. \A k \in Calls : call[k].op \notin Writers /\ call[k].op # "load"
    BY <1>3 DEF Writers
  <2>2. OneWriter
    BY <2>1 DEF OneWriter, Writing, InFlight
  <2>3. AllAgree
    BY <2>1 DEF AllAgree, Agrees
  <2> QED BY <1>1, <1>4, <2>2, <2>3 DEF FilesWhole, PathKept
<1>11. ContentsWhole
  BY <1>1, <1>2, EmptySeq DEF ContentsWhole
<1> QED BY <1>5, <1>6, <1>7, <1>8, <1>9, <1>10, <1>11 DEF SessionInv, Calm

LEMMA SessionInvHolds == Spec => []SessionInv
<1>1. Init => SessionInv
  BY SessionInit
<1>2. SessionInv /\ [Next]_vars => SessionInv'
  BY TypeStep, BoundedStep, KeptStep, CalmStep DEF SessionInv
<1> QED BY <1>1, <1>2, PTL DEF Spec

\* What is unsaved is in the recovery document, and what counts as saved is at the
\* project path (App.tsx: the effect that writes the recovery document, saveProject).
THEOREM ShownStaysKept == Spec => []ShownIsKept
<1>1. SessionInv => ShownIsKept
  <2> SUFFICES ASSUME SessionInv PROVE ShownIsKept
    OBVIOUS
  <2>1. ASSUME ~dirty, projectPath # NoPath, ~crossed, ~Writing
        PROVE  FileContent(disk[projectPath]) = present
    <3>1. savedKey = present /\ savedKey # NoKey
      BY <2>1, SessionAssumption DEF dirty, SessionInv, TypeOK
    <3>2. ~\E k \in Calls : call[k].op \in Writers
      BY <2>1 DEF Writing, InFlight, Writers
    <3>3. disk[projectPath].first = savedKey /\ disk[projectPath].second = savedKey
      BY <2>1, <3>1, <3>2 DEF SessionInv, Calm, PathKept
    <3> QED BY <3>1, <3>3 DEF FileContent
  <2> QED BY <2>1 DEF SessionInv, Kept, ShownIsKept
<1> QED BY <1>1, SessionInvHolds, PTL

\* A plain save writes to the file of the workflow that is shown (App.tsx: saveProject,
\* loadProject and the handlers that open something else).
THEOREM PathStaysOwn == Spec => []PathIsOwn
<1>1. SessionInv => PathIsOwn
  BY DEF SessionInv, Calm, PathKept, PathIsOwn
<1> QED BY <1>1, SessionInvHolds, PTL

\* What the window opens was saved as a whole (App.tsx: loadProject; service_projects.rs:
\* save_project, load_project).
THEOREM OpenedAsSaved == Spec => []OpenedWasSaved
<1>1. SessionInv => OpenedWasSaved
  BY SessionAssumption DEF SessionInv, Calm, ContentsWhole, OpenedWasSaved, Whole, Torn, Blank
<1> QED BY <1>1, SessionInvHolds, PTL

\* A version is the document its author published (App.tsx: publishAppVersion).
THEOREM VersionsAreAsShown == Spec => VersionIsWhatWasShown
<1>1. SessionInv /\ [Next]_vars
        => [\A k \in Calls :
              call[k].stage = "publishing" /\ call'[k].stage = "published" /\ ~crossed
                => call'[k].content = call[k].content]_vars
  BY PublicationStep DEF SessionInv
<1> QED BY <1>1, SessionInvHolds, PTL DEF Spec, VersionIsWhatWasShown

\* Undo and redo move along one line of contents and lose nothing of it: history.ts
\* implements EditHistory.
THEOREM HistoryImplemented == Spec => ImplementsHistory
<1>1. Init => Line!Begin
  BY LineBegins
<1>2. SessionInv /\ [Next]_vars => [Line!Move]_(Line!lineVars)
  BY LineMoves DEF SessionInv
<1> QED BY <1>1, <1>2, SessionInvHolds, PTL DEF Spec, ImplementsHistory, Line!HistorySpec

-----------------------------------------------------------------------------
(* What is shown of a node. *)

\* Induction, for a set of numbers.
LEMMA AllNumbers ==
    ASSUME NEW G, 0 \in G, \A n \in Nat : n \in G => n + 1 \in G
    PROVE  \A n \in Nat : n \in G
<1> DEFINE T == Nat \ G
<1>1. SUFFICES ASSUME T # {} PROVE FALSE
  OBVIOUS
<1>2. IsWellFoundedOn(OpToRel(<, Nat), Nat)
  BY NatLessThanWellFounded
<1>3. PICK n \in T : \A m \in T : ~ (<<m, n>> \in OpToRel(<, Nat))
  <2>1. T \subseteq Nat
    OBVIOUS
  <2> HIDE DEF T
  <2> QED BY <1>1, <1>2, <2>1, WFMin
<1>4. \A m \in T : ~ (m < n)
  BY <1>3 DEF OpToRel
<1>5. n # 0 /\ n - 1 \in Nat
  OBVIOUS
<1>6. n - 1 \in G
  BY <1>4, <1>5
<1> QED BY <1>5, <1>6

Happenings == {"preflight", "started", "progress", "resumed", "finished", "failed"}
NodeStates == {"planned", "preflighting", "running", "finished", "failed"}
ManifestRecord == [at : Nat, state : NodeStates, completed : Nat]

\* A manifest that was read tells the truth about a time the disk knows, and the
\* completion it keeps is not later; of a node that has ended it is the end.
ManifestTells(m) ==
    /\ m \in ManifestRecord /\ m.at <= onDisk.manifest /\ m.state = TrueState(m.at) /\ m.completed <= m.at
    /\ ~stillActive(m.state) => m.completed = m.at
ProgressInv ==
    /\ happened \in Seq(Happenings)
    /\ onDisk \in [events : 0..Latest, manifest : 0..Latest]
    /\ shown = [state |-> shown.state, manifest |-> shown.manifest, events |-> shown.events]
    /\ answer = [stage |-> answer.stage, state |-> answer.state, manifest |-> answer.manifest, events |-> answer.events]
    /\ shown.events \cup answer.events \subseteq 1..onDisk.events
    /\ ManifestTells(shown.manifest) /\ ManifestTells(answer.manifest)
    /\ answer.manifest.at = 0 \/ shown.manifest.at <= answer.manifest.at

LEMMA StatesAre ==
    /\ StateOf["preflight"] = "preflighting" /\ StateOf["started"] = "running" /\ StateOf["progress"] = "running"
    /\ StateOf["resumed"] = "running" /\ StateOf["finished"] = "finished" /\ StateOf["failed"] = "failed"
BY DEF StateOf

LEMMA TrueStates ==
    ASSUME happened \in Seq(Happenings), NEW k \in 0..Latest
    PROVE  TrueState(k) \in NodeStates /\ (k # 0 => happened[k] \in Happenings /\ TrueState(k) = StateOf[happened[k]])
<1>1. CASE k = 0
  BY <1>1 DEF TrueState, NodeStates
<1>2. CASE k # 0
  <2>1. k \in 1..Len(happened)
    BY <1>2 DEF Latest
  <2>2. happened[k] \in Happenings
    BY <2>1
  <2> QED BY <1>2, <2>2, StatesAre DEF TrueState, Happenings, NodeStates
<1> QED BY <1>1, <1>2

\* What the disk knows of is never taken back, so it stays true.
DiskGoesOn ==
    /\ happened' \in Seq(Happenings) /\ onDisk' \in [events : 0..Latest', manifest : 0..Latest']
    /\ onDisk.events <= onDisk'.events /\ onDisk.manifest <= onDisk'.manifest
    /\ \A k \in Nat : k <= onDisk.events \/ k <= onDisk.manifest => TrueState(k)' = TrueState(k)

LEMMA CutDisk ==
    ASSUME ProgressInv, UNCHANGED onDisk, happened' = SubSeq(happened, 1, Max({onDisk.events, onDisk.manifest}))
    PROVE  DiskGoesOn
<1>1. PICK a, b : a = onDisk.events /\ b = onDisk.manifest /\ a \in 0..Latest /\ b \in 0..Latest /\ Latest \in Nat
  BY DEF ProgressInv, Latest
<1>2. PICK n : n = Max({a, b})
  OBVIOUS
<1>3. n \in 0..Latest /\ a <= n /\ b <= n
  <2>1. \E x \in {a, b} : \A y \in {a, b} : x >= y
    BY <1>1
  <2>2. n \in {a, b} /\ \A y \in {a, b} : n >= y
    BY <1>2, <2>1 DEF Max
  <2> QED BY <1>1, <2>2
<1>4. happened' \in Seq(Happenings) /\ Latest' = n /\ \A k \in 1..n : happened'[k] = happened[k]
  <2>1. happened' = SubSeq(happened, 1, n)
    BY <1>1, <1>2
  <2>2. happened \in Seq(Happenings)
    BY DEF ProgressInv
  <2>3. \A i \in 1..n : happened[i] \in Happenings
    BY <1>1, <1>3, <2>2 DEF Latest
  <2>4. 1 \in Int /\ n \in Int /\ n \in Nat
    BY <1>1, <1>3
  <2>5. PICK s : s = SubSeq(happened, 1, n)
    OBVIOUS
  <2>6. /\ s \in Seq(Happenings) /\ Len(s) = (IF 1 <= n THEN n - 1 + 1 ELSE 0)
        /\ \A i \in 1..(n - 1 + 1) : s[i] = happened[1 + i - 1]
    <3>1. /\ SubSeq(happened, 1, n) \in Seq(Happenings)
          /\ Len(SubSeq(happened, 1, n)) = (IF 1 <= n THEN n - 1 + 1 ELSE 0)
          /\ \A i \in 1..(n - 1 + 1) : SubSeq(happened, 1, n)[i] = happened[1 + i - 1]
      BY <2>3, <2>4, SubSeqProperties
    <3> QED BY <2>5, <3>1
  <2>7. Len(s) = n /\ \A i \in 1..n : s[i] = happened[i]
    BY <2>4, <2>6
  <2> QED BY <2>1, <2>5, <2>6, <2>7 DEF Latest
<1>5. ASSUME NEW k \in Nat, k <= a \/ k <= b PROVE TrueState(k)' = TrueState(k)
  <2>1. k = 0 \/ k \in 1..n
    BY <1>1, <1>3, <1>5
  <2>2. k # 0 => happened'[k] = happened[k]
    BY <1>4, <2>1
  <2> QED BY <2>2 DEF TrueState
<1>6. onDisk' = onDisk /\ onDisk \in [events : 0..n, manifest : 0..n] /\ onDisk.events = a /\ onDisk.manifest = b
  BY <1>1, <1>3 DEF ProgressInv
<1>7. \A k \in Nat : k <= onDisk.events \/ k <= onDisk.manifest => TrueState(k)' = TrueState(k)
  BY <1>5, <1>6
<1>8. onDisk' \in [events : 0..Latest', manifest : 0..Latest']
  BY <1>4, <1>6
<1>9. onDisk.events <= onDisk'.events /\ onDisk.manifest <= onDisk'.manifest
  BY <1>1, <1>6
<1> QED BY <1>4, <1>7, <1>8, <1>9 DEF DiskGoesOn

LEMMA DiskStep == ProgressInv /\ [ProgressNext]_progressVars => DiskGoesOn
<1> SUFFICES ASSUME ProgressInv, [ProgressNext]_progressVars PROVE DiskGoesOn
  OBVIOUS
<1>1. happened \in Seq(Happenings) /\ onDisk \in [events : 0..Latest, manifest : 0..Latest] /\ Latest \in Nat
  BY DEF ProgressInv, Latest
<1>2. CASE NodeStep
  <2>1. PICK what \in CanHappen : happened' = Append(happened, what)
    BY <1>2 DEF NodeStep
  <2>2. what \in Happenings /\ UNCHANGED onDisk
    BY <1>2, <2>1 DEF CanHappen, Happenings, NodeStep
  <2>3. happened' \in Seq(Happenings) /\ Latest' = Latest + 1 /\ \A k \in 1..Latest : happened'[k] = happened[k]
    BY <1>1, <2>1, <2>2 DEF Latest
  <2>4. ASSUME NEW k \in Nat, k <= onDisk.events \/ k <= onDisk.manifest PROVE TrueState(k)' = TrueState(k)
    BY <1>1, <2>3, <2>4 DEF TrueState
  <2> QED BY <1>1, <2>2, <2>3, <2>4 DEF DiskGoesOn
<1>3. CASE WriteEvent \/ WriteManifest
  BY <1>1, <1>3 DEF WriteEvent, WriteManifest, DiskGoesOn, Latest, TrueState
<1>4. CASE RunEnds \/ Cancel
  BY <1>4, CutDisk DEF RunEnds, Cancel
<1>5. CASE UNCHANGED <<happened, onDisk>>
  BY <1>1, <1>5 DEF DiskGoesOn, Latest, TrueState
<1>6. ~ (NodeStep \/ WriteEvent \/ WriteManifest \/ RunEnds \/ Cancel) => UNCHANGED <<happened, onDisk>>
  BY DEF ProgressNext, progressVars, PollState, PollManifest, PollEvents, AnswerMerged, Resume
<1> QED BY <1>2, <1>3, <1>4, <1>5, <1>6

\* A manifest that told the truth still does.
LEMMA StillTells ==
    ASSUME DiskGoesOn, NEW m, ManifestTells(m), onDisk \in [events : Nat, manifest : Nat]
    PROVE  ManifestTells(m)'
BY DEF ManifestTells, DiskGoesOn, ManifestRecord, stillActive

LEMMA ManifestOfNow ==
    ASSUME ProgressInv
    PROVE  ManifestTells(ManifestAt(onDisk.manifest)) /\ ManifestAt(onDisk.manifest).at = onDisk.manifest
<1>1. PICK k \in 0..Latest : k = onDisk.manifest
  BY DEF ProgressInv
<1>2. TrueState(k) \in NodeStates /\ Latest \in Nat /\ (k = 0 => TrueState(k) = "planned")
  BY TrueStates DEF ProgressInv, Latest, TrueState
<1> QED BY <1>1, <1>2 DEF ManifestTells, ManifestAt, ManifestRecord, NodeStates, RunOver, stillActive

LEMMA NothingTells ==
    ASSUME ProgressInv
    PROVE  ManifestTells(NoManifest) /\ NoManifest.at = 0
BY DEF ProgressInv, ManifestTells, NoManifest, ManifestRecord, NodeStates, TrueState, stillActive

LEMMA MergedTells ==
    ASSUME NEW former, NEW next, ManifestTells(former), ManifestTells(next), next.at = 0 \/ former.at <= next.at
    PROVE  ManifestTells(mergeManifest(former, next))
<1>1. CASE next.at = 0
  BY <1>1 DEF mergeManifest
<1>2. CASE next.at # 0
  <2>1. PICK c : c = IF next.completed = 0 THEN former.completed ELSE next.completed
    OBVIOUS
  <2>2. mergeManifest(former, next) = [at |-> next.at, state |-> next.state, completed |-> c]
    BY <1>2, <2>1 DEF mergeManifest, ManifestTells, ManifestRecord
  <2>3. c \in Nat /\ c <= next.at /\ (~stillActive(next.state) => c = next.at)
    BY <1>2, <2>1 DEF ManifestTells, ManifestRecord
  <2> QED BY <2>2, <2>3 DEF ManifestTells, ManifestRecord
<1> QED BY <1>1, <1>2

LEMMA EventsKnown == EventsNow \subseteq 1..onDisk.events
BY DEF EventsNow

LEMMA ProgressStep == ProgressInv /\ [ProgressNext]_progressVars => ProgressInv'
<1> SUFFICES ASSUME ProgressInv, [ProgressNext]_progressVars PROVE ProgressInv'
  OBVIOUS
<1>1. DiskGoesOn
  BY DiskStep
<1>2. /\ onDisk \in [events : Nat, manifest : Nat] /\ onDisk' \in [events : Nat, manifest : Nat]
      /\ onDisk.events <= onDisk'.events /\ onDisk.manifest <= onDisk'.manifest
  BY <1>1 DEF ProgressInv, DiskGoesOn, Latest
<1>3. \A m : ManifestTells(m) => ManifestTells(m)'
  BY <1>1, <1>2, StillTells
<1>4. 1..onDisk.events \subseteq 1..onDisk'.events
  BY <1>2
<1>5. SUFFICES /\ shown' = [state |-> shown'.state, manifest |-> shown'.manifest, events |-> shown'.events]
               /\ answer' = [stage |-> answer'.stage, state |-> answer'.state, manifest |-> answer'.manifest,
                             events |-> answer'.events]
               /\ shown'.events \cup answer'.events \subseteq 1..onDisk.events
               /\ ManifestTells(shown'.manifest) /\ ManifestTells(answer'.manifest)
               /\ answer'.manifest.at = 0 \/ shown'.manifest.at <= answer'.manifest.at
  <2>1. PICK m, n : m = shown'.manifest /\ n = answer'.manifest
    OBVIOUS
  <2>2. ManifestTells(m) /\ ManifestTells(n) => ManifestTells(m)' /\ ManifestTells(n)'
    BY <1>3
  <2>3. ManifestTells(m)' <=> ManifestTells(shown.manifest)'
    BY <2>1 DEF ManifestTells
  <2>4. ManifestTells(n)' <=> ManifestTells(answer.manifest)'
    BY <2>1 DEF ManifestTells
  <2> QED BY <1>1, <1>4, <2>1, <2>2, <2>3, <2>4 DEF ProgressInv, DiskGoesOn
<1>6. /\ ManifestTells(shown.manifest) /\ ManifestTells(answer.manifest) /\ ManifestTells(NoManifest)
      /\ ManifestTells(ManifestAt(onDisk.manifest)) /\ ManifestAt(onDisk.manifest).at = onDisk.manifest
      /\ NoManifest.at = 0
      /\ shown = [state |-> shown.state, manifest |-> shown.manifest, events |-> shown.events]
      /\ answer = [stage |-> answer.stage, state |-> answer.state, manifest |-> answer.manifest,
                   events |-> answer.events]
      /\ shown.events \cup answer.events \subseteq 1..onDisk.events /\ EventsNow \subseteq 1..onDisk.events
      /\ answer.manifest.at = 0 \/ shown.manifest.at <= answer.manifest.at
  BY ManifestOfNow, NothingTells, EventsKnown DEF ProgressInv
<1>7. shown.manifest.at \in Nat /\ shown.manifest.at <= onDisk.manifest
  BY <1>6 DEF ManifestTells, ManifestRecord
<1>8. CASE PollState
  BY <1>6, <1>8 DEF PollState
<1>9. CASE PollManifest
  <2>1. UNCHANGED shown
    BY <1>9 DEF PollManifest
  <2>2. \/ /\ answer' = [answer EXCEPT !.stage = IF place = "desktop" THEN "events" ELSE "answered",
                                       !.manifest = ManifestAt(onDisk.manifest)]
        \/ answer' = [answer EXCEPT !.stage = "answered"]
    BY <1>9 DEF PollManifest
  <2> QED BY <1>6, <1>7, <2>1, <2>2
<1>10. CASE PollEvents
  <2>1. UNCHANGED shown
    BY <1>10 DEF PollEvents
  <2>2. \/ answer' = [answer EXCEPT !.stage = IF place = "desktop" THEN "answered" ELSE "manifest",
                                    !.events = EventsNow]
        \/ answer' = [answer EXCEPT !.stage = "manifest"]
    BY <1>10 DEF PollEvents
  <2> QED BY <1>6, <2>1, <2>2
<1>11. CASE AnswerMerged
  <2>1. answer' = NoPoll /\ (shown' = shown \/ shown' = mergeRunUpdate(shown, answer))
    BY <1>11 DEF AnswerMerged
  <2>2. ManifestTells(mergeManifest(shown.manifest, answer.manifest))
    BY <1>6, MergedTells
  <2> QED BY <1>6, <2>1, <2>2 DEF mergeRunUpdate, NoPoll
<1>12. CASE Cancel
  <2>1. UNCHANGED answer /\ shown' = mergeRunUpdate(shown, [NoPoll EXCEPT !.state = "cancelled"])
    BY <1>12 DEF Cancel
  <2>2. shown' = [state |-> "cancelled", manifest |-> shown.manifest, events |-> shown.events]
    BY <1>6, <2>1 DEF mergeRunUpdate, mergeManifest, NoPoll
  <2> QED BY <1>6, <2>1, <2>2
<1>13. CASE Resume
  <2>1. answer' = NoPoll
    BY <1>13 DEF Resume
  <2>2. shown' = [state |-> "running", manifest |-> ManifestAt(onDisk.manifest), events |-> EventsNow]
    BY <1>13 DEF Resume
  <2> QED BY <1>6, <2>1, <2>2 DEF NoPoll
<1>14. CASE UNCHANGED <<answer, shown>>
  BY <1>6, <1>14
<1>15. ~ (PollState \/ PollManifest \/ PollEvents \/ AnswerMerged \/ Cancel \/ Resume) => UNCHANGED <<answer, shown>>
  BY DEF ProgressNext, progressVars, NodeStep, WriteEvent, WriteManifest, RunEnds
<1> QED BY <1>8, <1>9, <1>10, <1>11, <1>12, <1>13, <1>14, <1>15

LEMMA ProgressBegins == ProgressInit => ProgressInv
<1> SUFFICES ASSUME ProgressInit PROVE ProgressInv
  OBVIOUS
<1>1. happened = <<>> /\ Latest = 0
  BY DEF ProgressInit, Latest
<1>2. /\ onDisk = [events |-> 0, manifest |-> 0] /\ answer = NoPoll
      /\ shown = [state |-> "running", manifest |-> NoManifest, events |-> {}]
  BY DEF ProgressInit
<1>3. ManifestTells(NoManifest) /\ NoManifest.at = 0
  BY <1>2 DEF ManifestTells, NoManifest, ManifestRecord, NodeStates, TrueState, stillActive
<1> QED BY <1>1, <1>2, <1>3 DEF ProgressInv, NoPoll

THEOREM ProgressIsKnown == ProgressSpec => []ProgressInv
BY ProgressBegins, ProgressStep, PTL DEF ProgressSpec

\* The state that nodeExecution holds after each event.
Applied(state, k) ==
    IF k \in shown.events /\ eventAfterCompletion(state, k) THEN applyEvent(state, k) ELSE state
StatesAfter ==
    LET after[k \in 0..Latest] == IF k = 0 THEN manifestState(shown.manifest) ELSE Applied(after[k - 1], k)
    IN  after

LEMMA StatesAfterAre ==
    ASSUME Latest \in Nat
    PROVE  /\ StatesAfter[0] = manifestState(shown.manifest)
           /\ \A k \in Nat : k + 1 <= Latest => StatesAfter[k + 1] = Applied(StatesAfter[k], k + 1)
           /\ nodeExecution = terminalNode(StatesAfter[Latest].state)
<1> DEFINE First == manifestState(shown.manifest)
           Body(h, i) == IF i = 0 THEN First ELSE Applied(h[i - 1], i)
           Is(h, m) == h = [i \in 0..m |-> Body(h, i)]
           H == {m \in Nat : \E h : Is(h, m)}
<1>1. \A h : Body(h, 0) = First
  OBVIOUS
<1>2. \A h, k : \A i : i # 0 /\ h[i - 1] = k[i - 1] => Body(h, i) = Body(k, i)
  <2> HIDE DEF First
  <2> QED OBVIOUS
<1>3. \A h : \A i : i # 0 => Body(h, i) = Applied(h[i - 1], i)
  OBVIOUS
<1> HIDE DEF Body, First
<1>4. 0 \in H
  <2>1. PICK h : h = [i \in 0..0 |-> First]
    OBVIOUS
  <2>2. Is(h, 0)
    BY <1>1, <2>1
  <2> QED BY <2>2
<1>5. ASSUME NEW m \in Nat, m \in H PROVE m + 1 \in H
  <2>1. PICK h : Is(h, m)
    BY <1>5
  <2>2. PICK k : k = [i \in 0..(m + 1) |-> Body(h, i)]
    OBVIOUS
  <2>3. \A i \in 0..m : k[i] = h[i]
    BY <2>1, <2>2
  <2>4. \A i \in 0..(m + 1) : Body(h, i) = Body(k, i)
    BY <1>1, <1>2, <2>3
  <2>5. Is(k, m + 1)
    BY <2>2, <2>4
  <2> HIDE DEF Is
  <2> QED BY <2>5
<1>6. \A m \in Nat : m \in H
  <2> HIDE DEF H
  <2> QED BY <1>4, <1>5, AllNumbers
<1>7. \E h : Is(h, Latest)
  BY <1>6
<1>8. PICK h : Is(h, Latest) /\ h = CHOOSE g : Is(g, Latest)
  BY <1>7
<1>9. h = StatesAfter
  BY <1>8, Zenon DEF StatesAfter, Body, First
<1>10. \A i \in 0..Latest : h[i] = Body(h, i)
  BY <1>8
<1>11. h[0] = First
  BY <1>1, <1>10
<1>12. ASSUME NEW i \in Nat, i + 1 <= Latest PROVE h[i + 1] = Applied(h[i], i + 1)
  <2>1. i + 1 \in 0..Latest /\ i + 1 # 0 /\ (i + 1) - 1 = i
    BY <1>12
  <2>2. h[i + 1] = Applied(h[(i + 1) - 1], i + 1)
    BY <1>3, <1>10, <2>1, Zenon
  <2> QED BY <2>1, <2>2
<1>13. nodeExecution = terminalNode(StatesAfter[Latest].state)
  BY Zenon DEF nodeExecution, StatesAfter, Applied
<1> QED BY <1>9, <1>11, <1>12, <1>13 DEF First

\* What the states tell after n events: the manifest as long as no event counts, or
\* else the newest event.
StateTells(n) ==
    LET m == shown.manifest
        s == StatesAfter[n]
        known == shown.events \cap 1..n
    IN  /\ s = [state |-> s.state, completed |-> s.completed]
        /\ \/ /\ s = manifestState(m)
              /\ IF stillActive(m.state) THEN known = {} ELSE known \subseteq 1..m.at
           \/ \E k \in known :
                /\ \A j \in known : j <= k
                /\ stillActive(m.state) \/ k > m.at
                /\ s.state = TrueState(k) /\ (stillActive(s.state) \/ s.completed = k)

LEMMA EventTells ==
    ASSUME ProgressInv, NEW k \in 1..Latest, NEW s, s = [state |-> s.state, completed |-> s.completed]
    PROVE  LET t == applyEvent(s, k)
           IN  /\ t = [state |-> t.state, completed |-> t.completed]
               /\ t.state = TrueState(k) /\ (stillActive(t.state) \/ t.completed = k)
<1>1. k \in 0..Latest /\ k # 0 /\ Latest \in Nat /\ happened \in Seq(Happenings)
  BY DEF ProgressInv, Latest
<1>2. PICK what \in Happenings : what = happened[k] /\ TrueState(k) = StateOf[what]
  BY <1>1, TrueStates
<1>3. CASE what \in {"started", "resumed"}
  <2>1. applyEvent(s, k) = [state |-> "running", completed |-> 0]
    BY <1>2, <1>3 DEF applyEvent
  <2> QED BY <1>2, <1>3, <2>1, StatesAre DEF stillActive
<1>4. CASE what \in {"finished", "failed"}
  <2>1. applyEvent(s, k) = [state |-> StateOf[what], completed |-> k]
    BY <1>2, <1>4 DEF applyEvent
  <2> QED BY <1>2, <2>1
<1>5. CASE what \in {"preflight", "progress"}
  <2>1. applyEvent(s, k) = [s EXCEPT !.state = StateOf[what]]
    BY <1>2, <1>5 DEF applyEvent
  <2>2. applyEvent(s, k) = [state |-> StateOf[what], completed |-> s.completed]
    BY <2>1
  <2> QED BY <1>2, <1>5, <2>2, StatesAre DEF stillActive
<1> QED BY <1>3, <1>4, <1>5 DEF Happenings

LEMMA StatesTell == ProgressInv => \A n \in 0..Latest : StateTells(n)
<1> SUFFICES ASSUME ProgressInv PROVE \A n \in 0..Latest : StateTells(n)
  OBVIOUS
<1>1. Latest \in Nat
  BY DEF ProgressInv, Latest
<1>2. PICK m \in ManifestRecord : m = shown.manifest /\ m.completed <= m.at /\ (~stillActive(m.state) => m.completed = m.at)
                                  /\ (m.at = 0 => stillActive(m.state))
  BY DEF ProgressInv, ManifestTells, TrueState, stillActive
<1> DEFINE G == {n \in Nat : n <= Latest => StateTells(n)}
<1>3. 0 \in G
  <2>1. StatesAfter[0] = [state |-> m.state, completed |-> m.completed]
    BY <1>1, <1>2, StatesAfterAre DEF manifestState
  <2> QED BY <1>2, <2>1 DEF StateTells, manifestState
<1>4. ASSUME NEW n \in Nat, n \in G PROVE n + 1 \in G
  <2> SUFFICES ASSUME n + 1 <= Latest PROVE StateTells(n + 1)
    OBVIOUS
  <2>1. PICK s : s = StatesAfter[n]
    OBVIOUS
  <2>2. PICK t : t = StatesAfter[n + 1]
    OBVIOUS
  <2>3. PICK known : known = shown.events \cap 1..n
    OBVIOUS
  <2>4. PICK more : more = shown.events \cap 1..(n + 1)
    OBVIOUS
  <2>5. t = Applied(s, n + 1)
    BY <1>1, <2>1, <2>2, StatesAfterAre
  <2>6. /\ s = [state |-> s.state, completed |-> s.completed]
        /\ \/ /\ s = manifestState(m)
              /\ IF stillActive(m.state) THEN known = {} ELSE known \subseteq 1..m.at
           \/ \E k \in known :
                /\ \A j \in known : j <= k
                /\ stillActive(m.state) \/ k > m.at
                /\ s.state = TrueState(k) /\ (stillActive(s.state) \/ s.completed = k)
    <3>1. StateTells(n)
      BY <1>1, <1>4
    <3> QED BY <1>2, <2>1, <2>3, <3>1 DEF StateTells
  <2>7. SUFFICES /\ t = [state |-> t.state, completed |-> t.completed]
                 /\ \/ /\ t = manifestState(m)
                       /\ IF stillActive(m.state) THEN more = {} ELSE more \subseteq 1..m.at
                    \/ \E k \in more :
                         /\ \A j \in more : j <= k
                         /\ stillActive(m.state) \/ k > m.at
                         /\ t.state = TrueState(k) /\ (stillActive(t.state) \/ t.completed = k)
    BY <1>2, <2>2, <2>4 DEF StateTells
  <2>8. CASE n + 1 \notin shown.events
    <3>1. t = s
      BY <2>5, <2>8 DEF Applied
    <3>2. more = known
      BY <2>3, <2>4, <2>8
    <3> QED BY <2>6, <3>1, <3>2
  <2>9. CASE n + 1 \in shown.events
    <3>1. /\ more = known \cup {n + 1} /\ n + 1 \in more
          /\ \A j \in more : j <= n + 1
      BY <2>3, <2>4, <2>9
    <3>2. PICK a : a = applyEvent(s, n + 1)
      OBVIOUS
    <3>3. /\ a = [state |-> a.state, completed |-> a.completed]
          /\ a.state = TrueState(n + 1) /\ (stillActive(a.state) \/ a.completed = n + 1)
      <4>1. n + 1 \in 1..Latest
        BY <1>1
      <4> QED BY <2>6, <3>2, <4>1, EventTells
    <3>4. \/ t = a /\ (stillActive(m.state) \/ n + 1 > m.at)
          \/ t = s /\ s = manifestState(m) /\ ~stillActive(m.state) /\ more \subseteq 1..m.at
      <4>1. (eventAfterCompletion(s, n + 1) => t = a) /\ (~eventAfterCompletion(s, n + 1) => t = s)
        BY <2>5, <2>9, <3>2, Zenon DEF Applied
      <4>2. CASE s = manifestState(m) /\ stillActive(m.state)
        <5>1. eventAfterCompletion(s, n + 1)
          BY <4>2 DEF eventAfterCompletion, manifestState
        <5> QED BY <4>1, <4>2, <5>1
      <4>3. CASE s = manifestState(m) /\ ~stillActive(m.state) /\ known \subseteq 1..m.at
        <5>1. m.at \in Nat /\ m.at > 0 /\ s.state = m.state /\ s.completed = m.at
          <6>1. m.at \in Nat /\ m.at # 0 /\ m.completed = m.at
            BY <1>2, <4>3 DEF ManifestRecord
          <6>2. s.state = m.state /\ s.completed = m.completed
            BY <4>3 DEF manifestState
          <6> QED BY <6>1, <6>2
        <5>2. eventAfterCompletion(s, n + 1) <=> n + 1 > m.at
          <6>1. ~stillActive(s.state) /\ s.completed > 0
            BY <4>3, <5>1
          <6> QED BY <5>1, <6>1 DEF eventAfterCompletion
        <5>3. CASE n + 1 > m.at
          BY <4>1, <5>2, <5>3
        <5>4. CASE ~ (n + 1 > m.at)
          <6>1. more \subseteq 1..m.at
            <7>1. n + 1 \in 1..m.at
              BY <5>1, <5>4
            <7>2. more = known \cup {n + 1} /\ known \subseteq 1..m.at
              BY <3>1, <4>3
            <7> QED BY <7>1, <7>2
          <6> QED BY <4>1, <4>3, <5>2, <5>4, <6>1
        <5> QED BY <5>3, <5>4
      <4>4. ASSUME NEW k \in known, stillActive(m.state) \/ k > m.at, stillActive(s.state) \/ s.completed = k
            PROVE  t = a /\ (stillActive(m.state) \/ n + 1 > m.at)
        <5>1. k \in 1..n /\ m.at \in Nat
          BY <1>2, <2>3 DEF ManifestRecord
        <5>2. eventAfterCompletion(s, n + 1)
          BY <4>4, <5>1 DEF eventAfterCompletion
        <5> QED BY <4>1, <4>4, <5>1, <5>2
      <4> QED BY <2>6, <4>2, <4>3, <4>4
    <3>5. CASE t = a /\ (stillActive(m.state) \/ n + 1 > m.at)
      BY <3>1, <3>3, <3>5
    <3>6. CASE t = s /\ s = manifestState(m) /\ ~stillActive(m.state) /\ more \subseteq 1..m.at
      BY <2>6, <3>6
    <3> QED BY <3>4, <3>5, <3>6
  <2> QED BY <2>8, <2>9
<1>5. \A n \in Nat : n \in G
  <2> HIDE DEF G
  <2> QED BY <1>3, <1>4, AllNumbers
<1> QED BY <1>1, <1>5

\* The newer of what the manifest and the events tell, and what lies between.
LEMMA ToldAre ==
    ASSUME ProgressInv, NEW a \in Nat, a = shown.manifest.at
    PROVE  \/ shown.events = {} /\ Told = {a}
           \/ \E k \in shown.events : (\A j \in shown.events : j <= k) /\ Told = {a, k}
<1>1. PICK E : E = shown.events /\ E \subseteq Nat
  BY DEF ProgressInv
<1>2. CASE E = {}
  BY <1>1, <1>2 DEF Told
<1>3. CASE E # {}
  <2>1. PICK k \in E : \A j \in E : j <= k
    <3>1. PICK n \in Nat : E \subseteq 1..n
      BY <1>1 DEF ProgressInv
    <3>2. PICK T : T = {n - j : j \in E}
      OBVIOUS
    <3>3. T \in SUBSET Nat /\ T # {}
      BY <1>1, <1>3, <3>1, <3>2
    <3>4. PICK i \in T : \A l \in T : ~ (<<l, i>> \in OpToRel(<, Nat))
      BY <3>3, NatLessThanWellFounded, WFMin
    <3>5. \A l \in T : ~ (l < i)
      BY <3>3, <3>4 DEF OpToRel
    <3>6. PICK k \in E : i = n - k
      BY <3>2, <3>4
    <3>7. \A j \in E : n - j \in T /\ j \in 1..n
      BY <3>1, <3>2
    <3> QED BY <3>1, <3>5, <3>6, <3>7
  <2>2. {j \in E : \A l \in E : l <= j} = {k}
    BY <1>1, <2>1
  <2> QED BY <1>1, <2>1, <2>2 DEF Told
<1> QED BY <1>1, <1>2, <1>3

LEMMA RecentAre ==
    ASSUME NEW a \in Nat, NEW b \in Nat, Told = {a, b}
    PROVE  /\ Max(Told) = IF a <= b THEN b ELSE a
           /\ a # 0 \/ b = 0 => a \in Recent
           /\ b # 0 \/ a = 0 => b \in Recent
<1>1. PICK t : t = IF a <= b THEN b ELSE a
  OBVIOUS
<1>2. Max({a, b}) = t
  <2>1. \E x \in {a, b} : \A y \in {a, b} : x >= y
    OBVIOUS
  <2>2. Max({a, b}) \in {a, b} /\ \A y \in {a, b} : Max({a, b}) >= y
    BY <2>1 DEF Max
  <2> QED BY <1>1, <2>2
<1>3. ASSUME NEW S, S # {}, S \subseteq {a, b} PROVE Min(S) \in S /\ \A x \in S : Min(S) <= x
  <2>1. \E x \in S : \A y \in S : x <= y
    <3>1. S = {a} \/ S = {b} \/ S = {a, b}
      BY <1>3
    <3> QED BY <3>1
  <2> QED BY <2>1 DEF Min
<1>4. PICK S : S = IF Told = {0} THEN Told ELSE Told \ {0}
  OBVIOUS
<1>5. S # {} /\ S \subseteq {a, b} /\ (a # 0 \/ b = 0 => a \in S) /\ (b # 0 \/ a = 0 => b \in S)
  <2>1. CASE Told = {0}
    BY <1>4, <2>1
  <2>2. CASE Told # {0}
    <3>1. a # 0 \/ b # 0
      BY <2>2
    <3>2. S = Told \ {0}
      BY <1>4, <2>2
    <3> QED BY <3>1, <3>2
  <2> QED BY <2>1, <2>2
<1>6. Recent = Min(S)..t
  BY <1>2, <1>4 DEF Recent
<1>7. \A x \in S : Min(S) <= x /\ x <= t /\ x \in Nat /\ Min(S) \in Nat /\ t \in Nat
  <2>1. Min(S) \in S /\ \A x \in S : Min(S) <= x
    BY <1>3, <1>5
  <2>2. \A x \in S : x \in Nat /\ x <= t
    BY <1>1, <1>5
  <2> QED BY <1>1, <2>1, <2>2
<1>8. \A x \in S : x \in Recent
  BY <1>6, <1>7
<1> QED BY <1>1, <1>2, <1>5, <1>8

\* What the canvas shows of a node follows from what the states tell after the last.
LEMMA NodeIsShown == ProgressInv => NodesShownAreTrue
<1> SUFFICES ASSUME ProgressInv PROVE NodesShownAreTrue
  OBVIOUS
<1>1. PICK m \in ManifestRecord : m = shown.manifest /\ m.state = TrueState(m.at) /\ (m.at = 0 => m.state = "planned")
  BY DEF ProgressInv, ManifestTells, TrueState
<1>2. PICK s : s = StatesAfter[Latest] /\ nodeExecution = terminalNode(s.state)
  BY StatesAfterAre DEF ProgressInv, Latest
<1>3. PICK a \in Nat : a = m.at
  BY DEF ManifestRecord
<1>4. /\ shown.events \subseteq Nat \ {0}
      /\ \/ /\ s.state = TrueState(a)
            /\ IF stillActive(TrueState(a)) THEN shown.events = {} ELSE \A j \in shown.events : j <= a
         \/ \E k \in shown.events :
              (\A j \in shown.events : j <= k) /\ (stillActive(TrueState(a)) \/ k > a) /\ s.state = TrueState(k)
  <2>1. Latest \in 0..Latest /\ shown.events \cap 1..Latest = shown.events /\ shown.events \subseteq Nat \ {0}
    BY DEF ProgressInv, Latest
  <2>2. StateTells(Latest)
    BY <2>1, StatesTell
  <2> QED BY <1>1, <1>2, <1>3, <2>1, <2>2 DEF StateTells, manifestState
<1>5. PICK j : /\ s.state = TrueState(j) /\ j \in Recent
               /\ j = Max(Told) \/ (stillActive(TrueState(a)) /\ a = Max(Told))
  <2>1. CASE shown.events = {} /\ Told = {a}
    <3>1. Told = {a, a} /\ s.state = TrueState(a)
      BY <1>4, <2>1
    <3> QED BY <3>1, RecentAre
  <2>2. ASSUME NEW k \in shown.events, \A i \in shown.events : i <= k, Told = {a, k}
        PROVE  \E i : /\ s.state = TrueState(i) /\ i \in Recent
                      /\ i = Max(Told) \/ (stillActive(TrueState(a)) /\ a = Max(Told))
    <3>1. k \in Nat /\ k # 0 /\ k \in Recent /\ Max(Told) = (IF a <= k THEN k ELSE a) /\ (a # 0 => a \in Recent)
      BY <1>4, <2>2, RecentAre
    <3>2. CASE s.state = TrueState(a) /\ ~stillActive(TrueState(a)) /\ k <= a
      <4>1. a # 0 /\ a = Max(Told)
        BY <3>1, <3>2
      <4> QED BY <3>1, <3>2, <4>1
    <3>3. ASSUME NEW i \in shown.events, \A l \in shown.events : l <= i,
                 stillActive(TrueState(a)) \/ i > a, s.state = TrueState(i)
          PROVE  s.state = TrueState(k) /\ (k = Max(Told) \/ (stillActive(TrueState(a)) /\ a = Max(Told)))
      <4>1. i = k
        BY <1>4, <2>2, <3>3
      <4> QED BY <3>1, <3>3, <4>1
    <3> QED BY <1>4, <3>1, <3>2, <3>3
  <2> QED BY <1>1, <1>3, <2>1, <2>2, ToldAre
<1>6. stillActive(shown.state) => terminalNode(s.state) = s.state
  BY DEF terminalNode
<1>7. TrueState(Max(Told)) \in {"finished", "failed"} => j = Max(Told) /\ terminalNode(s.state) = s.state
  BY <1>5 DEF terminalNode, stillActive
<1> QED BY <1>2, <1>5, <1>6, <1>7 DEF NodesShownAreTrue

\* The canvas shows a state the node had (canvas-execution.ts: mergeRunUpdate,
\* nodeExecution), whatever the events and the manifest lag behind.
THEOREM NodesAreShownTrue == ProgressSpec => []NodesShownAreTrue
BY NodeIsShown, ProgressIsKnown, PTL
=============================================================================
