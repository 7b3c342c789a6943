------------------------- MODULE CloudStudioProofs -------------------------
(***************************************************************************)
(* Theorems about hosted Graph Studio, for every number of calls, projects,*)
(* tokens, assets, sign-ins and outside events.                            *)
(*                                                                         *)
(* The state is held together by what each call in flight carries: a run   *)
(* knows which assets are still missing (RunsWhole), a save that has not   *)
(* deleted the old program holds the gate (DocsWhole), a refresh carries a *)
(* token that is good or spent (SessionInv), and an answer to the share    *)
(* dialog completes what the dialog shows (DialogInv).                     *)
(***************************************************************************)
EXTENDS CloudStudio, TLAPS

Stages == {"idle", "sent", "saving", "answered", "refused", "refresh", "granted", "denied"}
StepNames == (AllOps \ {"run"}) \cup {"none", "fleet", "create", "upload", "commit"}
Answers == Tokens \cup Digests \cup Nat \cup {"saved", "deleted", "catalogue", "queued"}
Access == {"none", "good", "bad"}
Reasons == {"none", "signed out", "withdrawn", "failed", "raced", "lost", "expired"}

CallRecord == [op : AllOps \cup {"none"}, step : StepNames, stage : Stages, path : Paths \cup {None},
               token : Tokens \cup {None}, program : BOOLEAN, rev : Nat, access : Access, ticket : Nat,
               alive : BOOLEAN, again : BOOLEAN, why : Reasons, got : SUBSET Answers, left : SUBSET Digests]

StepOf(op, step) ==
    \/ op \in AllOps \ {"publish", "run"} /\ step = op
    \/ op = "publish" /\ step \in {"save", "publish"}
    \/ op = "run" /\ step \in {"fleet", "create", "upload", "commit"}

\* What an answer carries, for the requests whose answer is used.
GotOK(v) ==
    /\ v.step \in Sharing /\ v.stage = "answered" => v.got \subseteq Tokens
    /\ v.step \in {"create", "upload"} /\ v.stage = "answered" => v.got \subseteq Digests
    /\ v.stage = "granted" => v.got \subseteq Nat

CallOK(v) ==
    /\ v.stage # "idle" =>
         /\ v.path \in Paths /\ v.rev # 0
         /\ StepOf(v.op, v.step)
         /\ v.op \in {"revoke", "shared"} => v.token \in Tokens
         /\ v.step = "upload" => v.left # {}
    /\ v.stage = "saving" => v.step = "save"
    /\ GotOK(v)
CallsOK == call \in [Calls -> CallRecord] /\ \A c \in Calls : CallOK(call[c])

AccountOK ==
    /\ docs \in [Paths -> [graph : Nat, inputs : Nat, sidecar : Nat, program : Nat]]
    /\ shares \in [Tokens -> Snapshot \cup {None}]
    /\ index \subseteq Paths \X Tokens
    /\ gate \in Calls \cup {None}
SessionOK ==
    /\ jar \in [access : Access, refresh : Nat, flow : Nat]
    /\ broker \in [live : SUBSET Nat, issued : Nat, policy : {"keep", "rotate"}, admitted : BOOLEAN,
                   flows : SUBSET Nat]
PageTyped == page \in [shown : {"studio", "signin"}, path : Paths, dialog : SUBSET Tokens]
JobsOK == jobs \in [Calls -> [state : {"none", "created", "committed"}, has : SUBSET Digests, made : Nat]]
PageOK ==
    /\ PageTyped
    /\ fleet \in [connected : BOOLEAN, cached : BOOLEAN]
CountsOK == bounds \in [asks : Nat, flows : Nat, events : Nat]
GhostOK == ghost \in [published : [Tokens -> Nat], revoked : SUBSET Tokens, torn : SUBSET Paths,
                      mixed : BOOLEAN, lost : BOOLEAN,
                      why : Reasons]
GateOK == gate # None => call[gate].stage = "saving"
TypeInv == GateOK /\ AccountOK /\ SessionOK /\ JobsOK /\ PageOK /\ CountsOK /\ GhostOK /\ CallsOK

-----------------------------------------------------------------------------
(* The inductive invariants. *)

\* A run that is being submitted: what the relay does not have is still to be sent.
RunWhole(j, v) ==
    /\ j.made <= 1 /\ (j.state = "none" => j.made = 0)
    /\ j.state = "committed" => j.has = Digests
    /\ v.step = "fleet" /\ v.stage # "idle" => j.state = "none"
    /\ v.step = "create" /\ v.stage \notin {"idle", "answered"} => j.state = "none"
    /\ v.step = "create" /\ v.stage = "answered" => Digests \ j.has \subseteq v.got
    /\ v.step = "upload" /\ v.stage # "idle" => Digests \ j.has \subseteq v.left
    /\ v.step = "upload" /\ v.stage = "answered" => v.got \subseteq j.has
    /\ v.step = "commit" /\ v.stage # "idle" => j.has = Digests
RunsWhole == \A c \in Calls : RunWhole(jobs[c], call[c])

\* The documents of a project are of one save.
DocWhole(p) ==
    /\ docs[p].inputs = docs[p].graph /\ docs[p].sidecar = docs[p].graph
    /\ p \in ghost.torn \/ docs[p].program \in {0, docs[p].graph} \/ (gate # None /\ call[gate].path = p)
DocsWhole == \A p \in Paths : DocWhole(p)

VersionStands(t) ==
    /\ shares[t] # None => /\ shares[t].graph = ghost.published[t] /\ shares[t].graph # 0
                           /\ shares[t].inputs = shares[t].graph /\ shares[t].sidecar = shares[t].graph
    /\ t \in ghost.revoked => shares[t] = None
    /\ \A p \in Paths : <<p, t>> \in index <=> shares[t] # None /\ shares[t].path = p
SharesStand == \A t \in Tokens : VersionStands(t)

\* A refresh token that is replaced is the browser's, and its successor the answer
\* of the only call that was granted one.
RefreshTells(v) ==
    /\ v.stage = "refresh" =>
         /\ v.ticket <= broker.issued
         /\ v.ticket = 0 \/ v.alive \/ ghost.lost
         /\ broker.policy = "keep" => v.ticket \in {0} \cup broker.live
         /\ broker.policy = "rotate" /\ v.ticket \in broker.live => v.ticket = jar.refresh
    /\ v.stage = "denied" => /\ v.why # "none"
                             /\ broker.policy = "keep" => v.why \notin {"raced", "lost"}
    /\ v.stage = "granted" =>
         /\ broker.policy = "keep" => v.got = {} /\ v.ticket \in broker.live
         /\ broker.policy = "rotate" => /\ jar.refresh \notin broker.live
                                        /\ \E n \in broker.live : v.got = {n}
TokensKnown ==
    /\ \A n \in broker.live : 0 < n /\ n <= broker.issued
    /\ jar.refresh <= broker.issued
    /\ broker.policy = "keep" => jar.refresh \in {0} \cup broker.live
OneGrant == broker.policy = "rotate" =>
    \A c, d \in Calls : call[c].stage = "granted" /\ call[d].stage = "granted" => c = d
CookieKept == jar.refresh \in {0} \cup broker.live \/ Granted \/ ghost.lost
SentForAReason ==
    /\ page.shown = "signin" => ghost.why # "none"
    /\ broker.policy = "keep" => ~ghost.lost /\ ghost.why \notin {"raced", "lost"}
SessionInv ==
    /\ TokensKnown /\ OneGrant /\ CookieKept /\ SentForAReason
    /\ \A c \in Calls : RefreshTells(call[c])

\* What the dialog shows with the answer that is on its way is what is listed.
Completes(v) ==
    /\ v.path = page.path
    /\ CASE v.op = "list" -> v.stage = "answered" => v.got = Listed(page.path)
         [] v.op = "publish" /\ v.step = "publish" /\ v.stage = "answered" ->
              page.dialog \cup v.got = Listed(page.path)
         [] v.op = "revoke" /\ v.stage = "answered" -> page.dialog \ v.got = Listed(page.path)
         [] OTHER -> page.dialog = Listed(page.path)
InDialog(v) == v.stage # "idle" /\ v.op \in Sharing
DialogTold ==
    /\ \A c, d \in Calls : InDialog(call[c]) /\ InDialog(call[d]) => c = d
    /\ \A c \in Calls : InDialog(call[c]) => Completes(call[c])
    /\ (\A c \in Calls : ~InDialog(call[c])) => page.dialog = Listed(page.path)
DialogInv == ~ghost.mixed => DialogTold

-----------------------------------------------------------------------------
(* Types: how a call moves. *)

LEMMA OneCall ==
    ASSUME CallsOK, NEW c \in Calls, NEW v \in CallRecord, CallOK(v), call' = [call EXCEPT ![c] = v]
    PROVE  CallsOK'
<1>1. call' \in [Calls -> CallRecord]
  BY DEF CallsOK
<1>2. ASSUME NEW d \in Calls PROVE CallOK(call'[d])
  BY DEF CallsOK
<1> QED BY <1>1, <1>2 DEF CallsOK

\* Only the stage, and what came with it, is new.
LEMMA Restaged ==
    ASSUME NEW u \in CallRecord, CallOK(u), u.stage # "idle",
           NEW stage \in Stages \ {"idle"}, NEW got \in SUBSET Answers,
           LET v == [u EXCEPT !.stage = stage, !.got = got]
           IN  GotOK(v) /\ (stage = "saving" => u.step = "save")
    PROVE  LET v == [u EXCEPT !.stage = stage, !.got = got]
           IN  v \in CallRecord /\ CallOK(v)
<1> DEFINE v == [u EXCEPT !.stage = stage, !.got = got]
<1>1. v \in CallRecord
  BY DEF CallRecord
<1>2. /\ v.stage = stage /\ v.step = u.step /\ v.op = u.op /\ v.path = u.path
      /\ v.token = u.token /\ v.rev = u.rev /\ v.left = u.left
  BY DEF CallRecord
<1>3. CallOK(v)
  BY <1>2 DEF CallOK
<1> QED BY <1>1, <1>3

LEMMA Answered ==
    ASSUME CallsOK, NEW c \in Calls, call[c].stage # "idle", NEW got \in SUBSET Answers,
           call[c].step \in Sharing => got \subseteq Tokens,
           call[c].step \in {"create", "upload"} => got \subseteq Digests,
           Reply(c, got)
    PROVE  CallsOK'
<1> DEFINE v == [call[c] EXCEPT !.stage = "answered", !.got = got]
<1>1. call[c] \in CallRecord /\ CallOK(call[c])
  BY DEF CallsOK
<1>2. v.step = call[c].step /\ v.stage = "answered" /\ v.got = got
  BY <1>1 DEF CallRecord
<1>3. GotOK(v)
  BY <1>2 DEF GotOK
<1>4. call' = [call EXCEPT ![c] = v]
  BY DEF Reply, CallsOK
<1>5. v \in CallRecord /\ CallOK(v)
  BY <1>1, <1>3, Restaged DEF Stages
<1> QED BY <1>4, <1>5, OneCall

LEMMA Held ==
    ASSUME CallsOK, NEW c \in Calls, call[c].stage # "idle", NEW stage \in {"refused", "saving"},
           stage = "saving" => call[c].step = "save",
           call' = [call EXCEPT ![c].stage = stage]
    PROVE  CallsOK'
<1> DEFINE v == [call[c] EXCEPT !.stage = stage, !.got = call[c].got]
<1>1. call[c] \in CallRecord /\ CallOK(call[c])
  BY DEF CallsOK
<1>2. v.stage = stage
  BY <1>1 DEF CallRecord
<1>3. GotOK(v)
  BY <1>2 DEF GotOK
<1>4. call' = [call EXCEPT ![c] = v]
  BY <1>1 DEF CallsOK, CallRecord
<1>5. call[c].got \in SUBSET Answers
  BY <1>1 DEF CallRecord
<1>6. v \in CallRecord /\ CallOK(v)
  BY <1>1, <1>3, <1>5, Restaged DEF Stages
<1> QED BY <1>4, <1>6, OneCall

LEMMA IdleOK == Idle \in CallRecord /\ CallOK(Idle)
BY DEF Idle, CallRecord, CallOK, GotOK, Stages, StepNames, Access, AllOps, Reasons

LEMMA Ended ==
    ASSUME CallsOK, NEW c \in Calls, Over(c)
    PROVE  CallsOK'
BY IdleOK, OneCall DEF Over

LEMMA Cleared ==
    ASSUME call' = [c \in Calls |-> Idle]
    PROVE  CallsOK'
BY IdleOK DEF CallsOK

\* A request that is sent with the cookies of the moment.
LEMMA SentOK ==
    ASSUME SessionOK, NEW u \in CallRecord, NEW step, u.path \in Paths, u.rev # 0, StepOf(u.op, step),
           u.op \in {"revoke", "shared"} => u.token \in Tokens,
           step = "upload" => u.left # {}
    PROVE  Send(u, step) \in CallRecord /\ CallOK(Send(u, step))
<1> DEFINE v == Send(u, step)
<1>1. step \in StepNames
  BY DEF StepOf, StepNames, AllOps
<1>2. v \in CallRecord
  BY <1>1 DEF Send, CallRecord, SessionOK, Stages
<1>3. /\ v.stage = "sent" /\ v.step = step /\ v.op = u.op /\ v.path = u.path
      /\ v.token = u.token /\ v.rev = u.rev /\ v.left = u.left
  BY DEF Send, CallRecord
<1>4. CallOK(v)
  BY <1>3 DEF CallOK, GotOK
<1> QED BY <1>2, <1>4

LEMMA AnswersTyped ==
    /\ \A t \in Tokens : {t} \in SUBSET Answers
    /\ \A n \in Nat : {n} \in SUBSET Answers
    /\ \A D \in SUBSET Digests : D \in SUBSET Answers
    /\ \A T \in SUBSET Tokens : T \in SUBSET Answers
    /\ \A word \in {"saved", "deleted", "catalogue", "queued"} : {word} \in SUBSET Answers
    /\ {} \in SUBSET Answers
BY DEF Answers

\* What a call that is not idle is known to be.
LEMMA CallFacts ==
    ASSUME CallsOK, NEW c \in Calls
    PROVE  /\ call[c] \in CallRecord /\ CallOK(call[c])
           /\ call[c].stage # "idle" =>
                /\ call[c].path \in Paths /\ call[c].rev \in Nat \ {0}
                /\ StepOf(call[c].op, call[c].step)
                /\ call[c].step = "revoke" => call[c].token \in Tokens
                /\ call[c].step = "upload" => call[c].op = "run" /\ call[c].left \in (SUBSET Digests) \ {{}}
BY DEF CallsOK, CallOK, CallRecord, StepOf, AllOps

LEMMA ServerCalls ==
    ASSUME TypeInv, NEW c \in Calls, Server(c)
    PROVE  CallsOK'
<1> USE DEF TypeInv, Serving, AtAccount, Known
<1>1. CASE WorkerRefuses(c)
  BY <1>1, Held DEF WorkerRefuses
<1>2. CASE SaveProject(c)
  <2>1. CASE Reply(c, {"saved"}) \/ Reply(c, {})
    BY <1>2, <2>1, Answered, AnswersTyped DEF SaveProject, Sharing
  <2>2. CASE call' = [call EXCEPT ![c].stage = "saving"]
    BY <1>2, <2>2, Held DEF SaveProject
  <2> QED BY <1>2, <2>1, <2>2 DEF SaveProject
<1>3. CASE SaveDeletesProgram(c) \/ ObjectResets(c)
  <2>1. call[c].stage = "saving" /\ call[c].step = "save"
    BY <1>3, CallFacts, CloudAssumption DEF SaveDeletesProgram, ObjectResets, GateOK, CallOK
  <2> QED BY <1>3, <2>1, Answered, AnswersTyped DEF SaveDeletesProgram, ObjectResets, Sharing
<1>4. CASE PublishApp(c)
  <2>1. PICK got \in SUBSET Tokens : Reply(c, got)
    BY <1>4 DEF PublishApp
  <2> QED BY <1>4, <2>1, Answered, AnswersTyped DEF PublishApp
<1>5. CASE ListAppVersions(c)
  BY <1>5, Answered, AnswersTyped DEF ListAppVersions, Listed
<1>6. CASE RevokeAppVersion(c)
  <2>1. PICK got \in SUBSET Tokens : Reply(c, got)
    BY <1>6, CallFacts DEF RevokeAppVersion
  <2> QED BY <1>6, <2>1, Answered, AnswersTyped DEF RevokeAppVersion
<1>7. CASE SharedApp(c)
  <2>1. call[c].token \in Tokens
    BY <1>7, CallFacts DEF SharedApp, CallOK, StepOf
  <2>2. PICK got \in SUBSET Answers : Reply(c, got)
    BY <1>7, <2>1, AnswersTyped DEF SharedApp, AccountOK, Snapshot
  <2> QED BY <1>7, <2>2, Answered DEF SharedApp, Sharing
<1>8. CASE LoadProject(c)
  <2>1. PICK got \in SUBSET Answers : Reply(c, got)
    BY <1>8, CallFacts, AnswersTyped DEF LoadProject, AccountOK
  <2> QED BY <1>8, <2>1, Answered DEF LoadProject, Sharing
<1>9. CASE DeleteProject(c) \/ CommitJob(c)
  BY <1>9, Answered, AnswersTyped DEF DeleteProject, CommitJob, Sharing
<1>10. CASE ReadFleet(c)
  <2>1. PICK got \in SUBSET Answers : Reply(c, got)
    BY <1>10, AnswersTyped DEF ReadFleet
  <2> QED BY <1>10, <2>1, Answered DEF ReadFleet, Sharing
<1>11. CASE CreateJob(c)
  <2>1. PICK got \in SUBSET Digests : Reply(c, got)
    BY <1>11 DEF CreateJob
  <2> QED BY <1>11, <2>1, Answered, AnswersTyped DEF CreateJob, Sharing
<1>12. CASE UploadAsset(c)
  <2>1. Current(c) \in Digests
    BY <1>12, CallFacts DEF UploadAsset, Current
  <2>2. {Current(c)} \in SUBSET Digests /\ Reply(c, {Current(c)})
    BY <1>12, <2>1 DEF UploadAsset
  <2> QED BY <1>12, <2>2, Answered, AnswersTyped DEF UploadAsset, Sharing
<1>13. CASE RefreshAuth(c)
  <2>1. CASE Denied(c)
    <3> DEFINE v == [call[c] EXCEPT !.stage = "denied", !.why = Reason(c)]
    <3>1. call' = [call EXCEPT ![c] = v]
      BY <2>1 DEF Denied, CallsOK
    <3>2. Reason(c) \in Reasons
      BY DEF Reason, Reasons
    <3> HIDE DEF Reasons
    <3>3. v \in CallRecord
      BY <3>2, CallFacts, ZenonT(60) DEF CallRecord, Stages
    <3>4. /\ v.stage = "denied" /\ v.step = call[c].step /\ v.op = call[c].op /\ v.path = call[c].path
          /\ v.token = call[c].token /\ v.rev = call[c].rev /\ v.left = call[c].left
      BY CallFacts DEF CallRecord
    <3>5. CallOK(v)
      BY <1>13, <3>4, CallFacts DEF RefreshAuth, CallOK, GotOK
    <3> QED BY <3>1, <3>3, <3>5, OneCall
  <2>2. ASSUME NEW got \in SUBSET Nat, call' = [call EXCEPT ![c].stage = "granted", ![c].got = got]
        PROVE  CallsOK'
    <3> DEFINE v == [call[c] EXCEPT !.stage = "granted", !.got = got]
    <3>1. call' = [call EXCEPT ![c] = v]
      BY <2>2 DEF CallsOK
    <3>2. v.stage = "granted" /\ v.got = got
      BY CallFacts DEF CallRecord
    <3>3. GotOK(v)
      BY <3>2 DEF GotOK
    <3>4. call[c].stage # "idle" /\ got \in SUBSET Answers
      BY <1>13 DEF RefreshAuth, Answers
    <3>5. v \in CallRecord /\ CallOK(v)
      BY <3>3, <3>4, CallFacts, Restaged DEF Stages
    <3> QED BY <3>1, <3>5, OneCall
  <2>3. Successor \in SUBSET Nat
    BY DEF SessionOK, Successor
  <2> QED BY <1>13, <2>1, <2>2, <2>3 DEF RefreshAuth, RefreshGranted, RefreshRefused, RefreshDropped
<1> QED BY <1>1, <1>2, <1>3, <1>4, <1>5, <1>6, <1>7, <1>8, <1>9, <1>10, <1>11, <1>12, <1>13 DEF Server

\* After an answer a call is over, or sends the next request it has to.
LEMMA ContinueMoves ==
    ASSUME CallsOK, NEW c \in Calls, call[c].stage = "answered", Continue(c)
    PROVE  \/ Over(c)
           \/ \E left \in SUBSET Digests, step \in StepNames :
                /\ call' = [call EXCEPT ![c] = Send([call[c] EXCEPT !.left = left, !.got = {}], step)]
                /\ StepOf(call[c].op, step) /\ (step = "upload" => left # {})
                /\ \/ step = "publish" /\ call[c].op = "publish"
                   \/ step = "create" /\ call[c].step = "fleet"
                   \/ /\ call[c].step = "create" /\ left = call[c].got
                      /\ step = (IF left = {} THEN "commit" ELSE "upload")
                   \/ /\ call[c].step = "upload" /\ left = call[c].left \ call[c].got
                      /\ step = (IF left = {} THEN "commit" ELSE "upload")
<1> DEFINE rec == call[c]
           Next1(left, step) == call' = [call EXCEPT ![c] = Send([rec EXCEPT !.left = left, !.got = {}], step)]
<1>1. CallOK(rec) /\ rec \in CallRecord /\ StepOf(rec.op, rec.step)
  BY CallFacts
<1>2. CASE rec.op = "publish" /\ rec.step = "save" /\ rec.got # {}
  <2>1. Next1({}, "publish")
    BY <1>2 DEF Continue
  <2> QED BY <1>2, <2>1 DEF StepOf, StepNames, AllOps
<1>3. CASE ~(rec.op = "publish" /\ rec.step = "save" /\ rec.got # {}) /\ rec.step = "fleet" /\ rec.got # {}
  <2>1. Over(c) \/ Next1({}, "create")
    BY <1>3 DEF Continue
  <2> QED BY <1>1, <1>3, <2>1 DEF StepOf, StepNames, AllOps
<1>4. CASE rec.step \in {"create", "upload"}
  <2> DEFINE left == IF rec.step = "create" THEN rec.got ELSE rec.left \ rec.got
             step == IF left = {} THEN "commit" ELSE "upload"
  <2>1. Next1(left, step)
    BY <1>4 DEF Continue
  <2>2. left \in SUBSET Digests
    BY <1>1, <1>4 DEF CallOK, GotOK, CallRecord
  <2>3. StepOf(rec.op, step) /\ (step = "upload" => left # {}) /\ step \in StepNames
    BY <1>1, <1>4 DEF StepOf, StepNames, AllOps
  <2>4. CASE rec.step = "create"
    BY <2>1, <2>2, <2>3, <2>4
  <2>5. CASE rec.step = "upload"
    BY <2>1, <2>2, <2>3, <2>5
  <2> QED BY <1>4, <2>4, <2>5
<1> QED BY <1>2, <1>3, <1>4 DEF Continue

NewCall(op, t, program) ==
    [Idle EXCEPT !.op = op, !.path = page.path, !.token = t, !.program = program, !.rev = bounds.asks + 2]

\* A new call sends its first request.
Asked(c, op, t, u, step) ==
    /\ call' = [call EXCEPT ![c] = Send(u, step)]
    /\ u \in CallRecord /\ u.op = op /\ u.path = page.path /\ u.path \in Paths /\ u.rev # 0
    /\ u.token = t /\ (op \in {"revoke", "shared"} => t \in Tokens)
    /\ StepOf(op, step) /\ step \notin {"upload", "commit"}
    /\ (op = "publish" => step = "save") /\ (op = "run" => jobs[c].state = "none")
    /\ ghost' = [ghost EXCEPT !.mixed =
                   IF op = "list" THEN Flying(Sharing) # {} ELSE @ \/ (op \in Sharing /\ Flying(Sharing) # {})]

LEMMA AskSends ==
    ASSUME TypeInv, NEW c \in Calls, Ask(c)
    PROVE  \E op \in AllOps, t \in Tokens \cup {None}, u \in CallRecord, step \in StepNames :
             Asked(c, op, t, u, step)
<1> USE DEF TypeInv
<1>1. PICK op \in Ops, t \in Tokens \cup {None}, program \in BOOLEAN :
        /\ (t = None) <=> op \notin {"revoke", "shared"}
        /\ op = "run" => jobs[c].state = "none"
        /\ call' = [call EXCEPT ![c] =
                     Send([Idle EXCEPT !.op = op, !.path = page.path, !.token = t, !.program = program,
                                       !.rev = bounds.asks + 2],
                          IF op = "run" /\ fleet.cached THEN "create" ELSE Steps(op)[1])]
        /\ ghost' = [ghost EXCEPT !.mixed =
                        IF op = "list" THEN Flying(Sharing) # {} ELSE @ \/ (op \in Sharing /\ Flying(Sharing) # {})]
  BY ZenonT(30) DEF Ask
<1> DEFINE u == NewCall(op, t, program)
           step == IF op = "run" /\ fleet.cached THEN "create" ELSE Steps(op)[1]
<1>2. op \in AllOps
  BY CloudAssumption
<1>3. u \in CallRecord
  <2>1. bounds.asks + 2 \in Nat /\ page.path \in Paths
    BY DEF PageOK, PageTyped, CountsOK
  <2> QED BY <1>2, <2>1, IdleOK DEF CallRecord, NewCall
<1>4. u.op = op /\ u.path = page.path /\ u.path \in Paths /\ u.rev # 0 /\ u.token = t
  BY DEF PageOK, PageTyped, CountsOK, Idle, NewCall
<1>5. StepOf(op, step) /\ step \notin {"upload", "commit"} /\ step \in StepNames /\ (op = "publish" => step = "save")
  BY <1>2 DEF StepOf, AllOps, Steps, StepNames
<1>6. op \in {"revoke", "shared"} => t \in Tokens
  BY <1>1
<1>7. call' = [call EXCEPT ![c] = Send(u, step)]
  BY <1>1 DEF NewCall
<1> HIDE DEF u, step
<1>8. Asked(c, op, t, u, step)
  BY <1>1, <1>3, <1>4, <1>5, <1>6, <1>7 DEF Asked
<1> QED BY <1>2, <1>3, <1>5, <1>8

LEMMA ClientCalls ==
    ASSUME TypeInv, NEW c \in Calls, Client(c)
    PROVE  CallsOK'
<1> USE DEF TypeInv
<1>1. CASE Ask(c)
  <2>1. PICK op \in AllOps, t \in Tokens \cup {None}, u \in CallRecord, step \in StepNames : Asked(c, op, t, u, step)
    BY <1>1, AskSends
  <2>2. Send(u, step) \in CallRecord /\ CallOK(Send(u, step))
    BY <2>1, SentOK DEF Asked
  <2> QED BY <2>1, <2>2, OneCall DEF Asked
<1>2. CASE RequestRefused(c)
  <2>1. CASE Over(c)
    BY <2>1, Ended
  <2>2. CASE call' = [call EXCEPT ![c].stage = "refresh", ![c].ticket = jar.refresh,
                                  ![c].alive = jar.refresh \in broker.live \/ Granted]
    <3> DEFINE alive == jar.refresh \in broker.live \/ Granted
               v == [call[c] EXCEPT !.stage = "refresh", !.ticket = jar.refresh, !.alive = alive]
    <3>1. call' = [call EXCEPT ![c] = v]
      BY <2>2 DEF CallsOK
    <3>2. alive \in BOOLEAN
      BY DEF Granted
    <3> HIDE DEF alive
    <3>3. v \in CallRecord
      <4>1. jar.refresh \in Nat
        BY DEF SessionOK
      <4> QED BY <3>2, <4>1, CallFacts, ZenonT(60) DEF CallRecord, Stages
    <3>4. /\ v.stage = "refresh" /\ v.step = call[c].step /\ v.op = call[c].op /\ v.path = call[c].path
          /\ v.token = call[c].token /\ v.rev = call[c].rev /\ v.left = call[c].left
      BY CallFacts DEF CallRecord
    <3>5. CallOK(v)
      BY <1>2, <3>4, CallFacts DEF RequestRefused, CallOK, GotOK
    <3> QED BY <3>1, <3>3, <3>5, OneCall
  <2> QED BY <1>2, <2>1, <2>2 DEF RequestRefused, RefusedUploadFails
<1>3. CASE SessionRefreshed(c)
  <2> DEFINE v == [call[c] EXCEPT !.stage = "sent", !.access = "good", !.again = TRUE, !.got = {}]
  <2>1. call' = [call EXCEPT ![c] = v]
    BY <1>3 DEF SessionRefreshed, CallsOK
  <2>2. v \in CallRecord
    BY CallFacts, ZenonT(60) DEF CallRecord, Stages, Access
  <2>3. /\ v.stage = "sent" /\ v.step = call[c].step /\ v.op = call[c].op /\ v.path = call[c].path
        /\ v.token = call[c].token /\ v.rev = call[c].rev /\ v.left = call[c].left
    BY CallFacts DEF CallRecord
  <2>4. CallOK(v)
    BY <1>3, <2>3, CallFacts DEF SessionRefreshed, CallOK, GotOK
  <2> QED BY <2>1, <2>2, <2>4, OneCall
<1>4. CASE SessionLost(c)
  BY <1>4 DEF SessionLost, CallsOK
<1>5. CASE RequestFails(c)
  BY <1>5, Ended DEF RequestFails
<1>6. CASE AnswerArrives(c)
  <2>1. CASE Over(c)
    BY <2>1, Ended
  <2>2. ASSUME NEW left \in SUBSET Digests, NEW step, StepOf(call[c].op, step), step = "upload" => left # {},
               call' = [call EXCEPT ![c] = Send([call[c] EXCEPT !.left = left, !.got = {}], step)]
        PROVE  CallsOK'
    <3> DEFINE u == [call[c] EXCEPT !.left = left, !.got = {}]
    <3>1. u \in CallRecord
      BY CallFacts DEF CallRecord
    <3>2. /\ u.op = call[c].op /\ u.path = call[c].path /\ u.token = call[c].token /\ u.rev = call[c].rev
          /\ u.left = left
      BY CallFacts DEF CallRecord
    <3>3. /\ u.path \in Paths /\ u.rev # 0 /\ (u.op \in {"revoke", "shared"} => u.token \in Tokens)
      BY <1>6, <3>2, CallFacts DEF AnswerArrives, CallOK
    <3> HIDE DEF u
    <3>4. Send(u, step) \in CallRecord /\ CallOK(Send(u, step))
      BY <2>2, <3>1, <3>2, <3>3, SentOK
    <3> QED BY <2>2, <3>4, OneCall DEF u
  <2>3. Over(c) \/ \E left \in SUBSET Digests, step \in StepNames :
           /\ StepOf(call[c].op, step) /\ (step = "upload" => left # {})
           /\ call' = [call EXCEPT ![c] = Send([call[c] EXCEPT !.left = left, !.got = {}], step)]
    BY <1>6, ContinueMoves DEF AnswerArrives
  <2> QED BY <2>1, <2>2, <2>3
<1> QED BY <1>1, <1>2, <1>3, <1>4, <1>5, <1>6 DEF Client

-----------------------------------------------------------------------------
(* Who writes what. *)

AccountStep(c) ==
    SaveProject(c) \/ SaveDeletesProgram(c) \/ ObjectResets(c) \/ PublishApp(c) \/ RevokeAppVersion(c)
      \/ DeleteProject(c)
JobStep(c) == CreateJob(c) \/ UploadAsset(c) \/ CommitJob(c)
SignIn == \E f \in 1..MaxFlows : FinishAuth(f)
SessionStep ==
    \/ \E c \in Calls : RefreshAuth(c) \/ SessionRefreshed(c)
    \/ Logout \/ StartAuth \/ Expire \/ Withdraw \/ SignIn
PageStep ==
    \/ \E c \in Calls : SessionLost(c) \/ AnswerArrives(c)
    \/ LoadPage \/ Logout \/ SignIn \/ OpenOther
GhostStep ==
    \/ \E c \in Calls : Ask(c) \/ ObjectResets(c) \/ PublishApp(c) \/ RevokeAppVersion(c)
                          \/ RefreshAuth(c) \/ RequestRefused(c) \/ SessionLost(c) \/ RequestFails(c)
    \/ LoadPage \/ Logout \/ SignIn \/ OpenOther

LEMMA Frames ==
    ASSUME Next
    PROVE  /\ (\E c \in Calls : AccountStep(c)) \/ UNCHANGED account
           /\ (\E c \in Calls : JobStep(c)) \/ UNCHANGED jobs
           /\ SessionStep \/ UNCHANGED <<jar, broker>>
           /\ PageStep \/ UNCHANGED page
           /\ GhostStep \/ UNCHANGED ghost
           /\ (\E c \in Calls : Ask(c)) \/ StartAuth \/ Event \/ UNCHANGED bounds
           /\ UNCHANGED fleet \/ fleet' \in [connected : BOOLEAN, cached : BOOLEAN] \/ ~PageOK
<1> USE DEF account, relay
<1>1. ASSUME NEW c \in Calls, Server(c)
      PROVE  /\ AccountStep(c) \/ UNCHANGED account
             /\ JobStep(c) \/ UNCHANGED jobs
             /\ RefreshAuth(c) \/ UNCHANGED <<jar, broker>>
             /\ UNCHANGED <<page, fleet>>
             /\ ObjectResets(c) \/ PublishApp(c) \/ RevokeAppVersion(c) \/ RefreshAuth(c) \/ UNCHANGED ghost
             /\ Event \/ UNCHANGED bounds
  <2>1. CASE WorkerRefuses(c)
    BY <2>1 DEF WorkerRefuses, Unavailable, AccountStep, JobStep
  <2>2. CASE SaveProject(c)
    BY <2>2 DEF SaveProject, AccountStep, JobStep
  <2>3. CASE SaveDeletesProgram(c)
    BY <2>3 DEF SaveDeletesProgram, AccountStep, JobStep
  <2>4. CASE ObjectResets(c)
    BY <2>4 DEF ObjectResets, AccountStep, JobStep
  <2>5. CASE PublishApp(c)
    BY <2>5 DEF PublishApp, AccountStep, JobStep
  <2>6. CASE ListAppVersions(c)
    BY <2>6 DEF ListAppVersions, AccountStep, JobStep
  <2>7. CASE RevokeAppVersion(c)
    BY <2>7 DEF RevokeAppVersion, AccountStep, JobStep
  <2>8. CASE SharedApp(c)
    BY <2>8 DEF SharedApp, AccountStep, JobStep
  <2>9. CASE LoadProject(c)
    BY <2>9 DEF LoadProject, AccountStep, JobStep
  <2>10. CASE DeleteProject(c)
    BY <2>10 DEF DeleteProject, AccountStep, JobStep
  <2>11. CASE ReadFleet(c)
    BY <2>11 DEF ReadFleet, AccountStep, JobStep
  <2>12. CASE CreateJob(c)
    BY <2>12 DEF CreateJob, AccountStep, JobStep
  <2>13. CASE UploadAsset(c)
    BY <2>13 DEF UploadAsset, AccountStep, JobStep
  <2>14. CASE CommitJob(c)
    BY <2>14 DEF CommitJob, AccountStep, JobStep
  <2>15. CASE RefreshAuth(c)
    BY <2>15 DEF RefreshAuth, RefreshGranted, RefreshRefused, RefreshDropped, Unavailable, AccountStep, JobStep
  <2> QED BY <1>1, <2>1, <2>2, <2>3, <2>4, <2>5, <2>6, <2>7, <2>8, <2>9, <2>10, <2>11, <2>12, <2>13, <2>14, <2>15 DEF Server
<1>2. ASSUME NEW c \in Calls, Client(c)
      PROVE  /\ UNCHANGED account /\ UNCHANGED jobs
             /\ SessionRefreshed(c) \/ UNCHANGED <<jar, broker>>
             /\ SessionLost(c) \/ AnswerArrives(c) \/ UNCHANGED page
             /\ Ask(c) \/ RequestRefused(c) \/ SessionLost(c) \/ RequestFails(c) \/ UNCHANGED ghost
             /\ Ask(c) \/ Event \/ UNCHANGED bounds
             /\ UNCHANGED fleet \/ fleet' \in [connected : BOOLEAN, cached : BOOLEAN] \/ ~PageOK
  <2>1. CASE Ask(c)
    BY <2>1 DEF Ask, PageOK
  <2>2. CASE RequestRefused(c)
    BY <2>2 DEF RequestRefused, PageOK
  <2>3. CASE SessionRefreshed(c)
    BY <2>3 DEF SessionRefreshed, PageOK
  <2>4. CASE SessionLost(c)
    BY <2>4 DEF SessionLost, PageOK
  <2>5. CASE AnswerArrives(c)
    BY <2>5 DEF AnswerArrives, PageOK
  <2>6. CASE RequestFails(c)
    BY <2>6 DEF RequestFails, PageOK
  <2> QED BY <1>2, <2>1, <2>2, <2>3, <2>4, <2>5, <2>6 DEF Client
<1>3. CASE SignIn
  BY <1>3 DEF SignIn, FinishAuth, Unavailable, NewPage, SessionStep, PageStep, GhostStep, PageOK
<1>4. CASE LoadPage \/ Logout
  BY <1>4 DEF LoadPage, Logout, NewPage, SessionStep, PageStep, GhostStep, PageOK
<1>5. CASE StartAuth \/ Expire \/ Withdraw
  BY <1>5 DEF StartAuth, Expire, Withdraw, SessionStep
<1>6. CASE NodeComesOrGoes \/ OpenOther
  BY <1>6 DEF NodeComesOrGoes, OpenOther, PageStep, GhostStep, PageOK
<1>7. CASE \E c \in Calls : Server(c)
  BY <1>1, <1>7 DEF SessionStep, GhostStep
<1>8. CASE \E c \in Calls : Client(c)
  BY <1>2, <1>8 DEF SessionStep, PageStep, GhostStep
<1> QED BY <1>3, <1>4, <1>5, <1>6, <1>7, <1>8 DEF Next, SignIn

-----------------------------------------------------------------------------
(* Types: every step keeps them. *)

LEMMA AccountTypes ==
    ASSUME TypeInv, Next
    PROVE  AccountOK'
<1> USE DEF TypeInv
<1>1. CASE UNCHANGED account
  BY <1>1 DEF account, AccountOK
<1>2. ASSUME NEW c \in Calls, AccountStep(c)
      PROVE  AccountOK'
  <2> USE DEF AccountOK
  <2>1. CASE SaveProject(c)
    <3>1. call[c].path \in Paths /\ call[c].rev \in Nat
      BY <2>1, CallFacts DEF SaveProject, AtAccount, Serving
    <3> QED BY <2>1, <3>1 DEF SaveProject
  <2>2. CASE SaveDeletesProgram(c)
    BY <2>2 DEF SaveDeletesProgram
  <2>3. CASE ObjectResets(c)
    BY <2>3 DEF ObjectResets
  <2>4. CASE PublishApp(c)
    <3>1. call[c].path \in Paths
      BY <2>4, CallFacts DEF PublishApp, AtAccount, Serving
    <3>2. UNCHANGED docs /\ UNCHANGED gate
      BY <2>4 DEF PublishApp
    <3>3. CASE UNCHANGED <<shares, index>>
      BY <3>2, <3>3
    <3>4. ASSUME NEW t \in Tokens, NEW p \in Paths,
                 shares' = [shares EXCEPT ![t] = [path |-> p, graph |-> docs[p].graph,
                                                  inputs |-> docs[p].inputs, sidecar |-> docs[p].sidecar]],
                 index' = index \cup {<<p, t>>}
          PROVE  AccountOK'
      <4>1. [path |-> p, graph |-> docs[p].graph, inputs |-> docs[p].inputs, sidecar |-> docs[p].sidecar]
              \in Snapshot
        BY DEF Snapshot
      <4> QED BY <3>2, <3>4, <4>1
    <3> QED BY <2>4, <3>1, <3>3, <3>4 DEF PublishApp
  <2>5. CASE RevokeAppVersion(c)
    BY <2>5 DEF RevokeAppVersion
  <2>6. CASE DeleteProject(c)
    BY <2>6 DEF DeleteProject, NoDoc
  <2> QED BY <1>2, <2>1, <2>2, <2>3, <2>4, <2>5, <2>6 DEF AccountStep
<1> QED BY <1>1, <1>2, Frames

LEMMA SessionTypes ==
    ASSUME TypeInv, Next
    PROVE  SessionOK'
<1> USE DEF TypeInv, SessionOK
<1>1. CASE UNCHANGED <<jar, broker>>
  BY <1>1
<1>2. ASSUME NEW c \in Calls, RefreshAuth(c)
      PROVE  SessionOK'
  <2>1. UNCHANGED jar
    BY <1>2 DEF RefreshAuth
  <2>2. CASE UNCHANGED broker
    BY <2>1, <2>2
  <2>3. ASSUME NEW t, broker' = [broker EXCEPT !.issued = broker.issued + 1,
                                               !.live = (broker.live \ {t}) \cup {broker.issued + 1}]
        PROVE  SessionOK'
    <3>1. (broker.live \ {t}) \cup {broker.issued + 1} \in SUBSET Nat /\ broker.issued + 1 \in Nat
      OBVIOUS
    <3> QED BY <2>1, <2>3, <3>1
  <2> QED BY <1>2, <2>2, <2>3 DEF RefreshAuth, RefreshGranted, RefreshRefused, RefreshDropped, Exchange, Successor
<1>3. ASSUME NEW c \in Calls, SessionRefreshed(c)
      PROVE  SessionOK'
  <2>1. call[c].got \in SUBSET Nat /\ call[c].ticket \in Nat
    BY <1>3, CallFacts DEF SessionRefreshed, CallOK, GotOK, CallRecord
  <2>2. call[c].got # {} => (CHOOSE t \in call[c].got : TRUE) \in Nat
    BY <2>1
  <2> QED BY <1>3, <2>1, <2>2 DEF SessionRefreshed, SessionCookies, Access
<1>4. CASE Logout
  BY <1>4 DEF Logout, Access
<1>5. CASE StartAuth
  BY <1>5 DEF StartAuth, CountsOK
<1>6. CASE Expire
  BY <1>6 DEF Expire, Access
<1>7. CASE Withdraw
  BY <1>7 DEF Withdraw
<1>8. ASSUME NEW f \in 1..MaxFlows, FinishAuth(f)
      PROVE  SessionOK'
  <2>1. SessionCookies({broker.issued + 1}, 0) = [jar EXCEPT !.access = "good", !.refresh = broker.issued + 1]
    BY DEF SessionCookies
  <2>2. jar' \in [access : Access, refresh : Nat, flow : Nat]
    <3>1. CASE UNCHANGED jar
      BY <3>1
    <3>2. CASE jar' = [SessionCookies({broker.issued + 1}, 0) EXCEPT !.flow = 0]
      <4>1. broker.issued + 1 \in Nat /\ "good" \in Access
        BY DEF Access
      <4>2. jar' = [jar EXCEPT !.access = "good", !.refresh = broker.issued + 1, !.flow = 0]
        BY <2>1, <3>2
      <4> QED BY <4>1, <4>2
    <3> QED BY <1>8, <3>1, <3>2 DEF FinishAuth
  <2>3. broker' \in [live : SUBSET Nat, issued : Nat, policy : {"keep", "rotate"}, admitted : BOOLEAN,
                     flows : SUBSET Nat]
    <3>1. CASE broker' = [broker EXCEPT !.flows = @ \ {f}]
      BY <3>1
    <3>2. CASE broker' = [broker EXCEPT !.flows = @ \ {f}, !.issued = broker.issued + 1,
                                        !.live = @ \cup {broker.issued + 1}]
      <4>1. broker.live \cup {broker.issued + 1} \in SUBSET Nat /\ broker.issued + 1 \in Nat
              /\ broker.flows \ {f} \in SUBSET Nat
        OBVIOUS
      <4> QED BY <3>2, <4>1
    <3> QED BY <1>8, <3>1, <3>2 DEF FinishAuth
  <2> QED BY <2>2, <2>3
<1> QED BY <1>1, <1>2, <1>3, <1>4, <1>5, <1>6, <1>7, <1>8, Frames DEF SessionStep, SignIn

LEMMA JobTypes ==
    ASSUME TypeInv, Next
    PROVE  JobsOK'
<1> USE DEF TypeInv, JobsOK
<1>1. CASE UNCHANGED jobs
  BY <1>1
<1>2. ASSUME NEW c \in Calls, JobStep(c)
      PROVE  JobsOK'
  <2>1. CASE CreateJob(c)
    BY <2>1 DEF CreateJob
  <2>2. CASE UploadAsset(c)
    <3>1. Current(c) \in Digests
      BY <2>2, CallFacts DEF UploadAsset, Current, Serving
    <3> QED BY <2>2, <3>1 DEF UploadAsset
  <2>3. CASE CommitJob(c)
    BY <2>3 DEF CommitJob
  <2> QED BY <1>2, <2>1, <2>2, <2>3 DEF JobStep
<1> QED BY <1>1, <1>2, Frames

LEMMA PageTypes ==
    ASSUME TypeInv, Next
    PROVE  PageOK'
<1> USE DEF TypeInv
<1>1. fleet' \in [connected : BOOLEAN, cached : BOOLEAN]
  BY Frames DEF PageOK
<1>2. PageTyped'
  <2> USE DEF PageOK, PageTyped
  <2>1. CASE UNCHANGED page
    BY <2>1
  <2>2. ASSUME NEW c \in Calls, SessionLost(c) PROVE PageTyped'
    BY <2>2 DEF SessionLost
  <2>3. ASSUME NEW c \in Calls, AnswerArrives(c) PROVE PageTyped'
    <3>1. Dialog(c) \in SUBSET Tokens
      BY <2>3, CallFacts DEF AnswerArrives, Dialog, CallOK, GotOK, Sharing
    <3> QED BY <2>3, <3>1 DEF AnswerArrives
  <2>4. CASE LoadPage \/ Logout
    BY <2>4 DEF LoadPage, Logout, NewPage
  <2>5. CASE SignIn
    BY <2>5 DEF SignIn, FinishAuth, NewPage
  <2>6. CASE OpenOther
    BY <2>6 DEF OpenOther
  <2> QED BY <2>1, <2>2, <2>3, <2>4, <2>5, <2>6, Frames DEF PageStep
<1> QED BY <1>1, <1>2 DEF PageOK, PageTyped

LEMMA CountTypes ==
    ASSUME TypeInv, Next
    PROVE  CountsOK'
<1> USE DEF TypeInv, CountsOK
<1>1. CASE Event \/ UNCHANGED bounds
  BY <1>1 DEF Event
<1>2. ASSUME NEW c \in Calls, Ask(c) PROVE CountsOK'
  BY <1>2 DEF Ask
<1>3. CASE StartAuth
  BY <1>3 DEF StartAuth
<1> QED BY <1>1, <1>2, <1>3, Frames

LEMMA GhostTypes ==
    ASSUME TypeInv, Next
    PROVE  GhostOK'
<1> USE DEF TypeInv, GhostOK
<1>1. CASE UNCHANGED ghost
  BY <1>1
<1>2. ASSUME NEW c \in Calls, Ask(c) PROVE GhostOK'
  BY <1>2 DEF Ask
<1>3. ASSUME NEW c \in Calls, ObjectResets(c) PROVE GhostOK'
  <2>1. call[c].path \in Paths
    BY <1>3, CallFacts, CloudAssumption DEF ObjectResets, GateOK
  <2> QED BY <1>3, <2>1 DEF ObjectResets
<1>4. ASSUME NEW c \in Calls, PublishApp(c) PROVE GhostOK'
  <2>1. call[c].path \in Paths
    BY <1>4, CallFacts DEF PublishApp, AtAccount, Serving
  <2>2. docs[call[c].path].graph \in Nat
    BY <2>1 DEF AccountOK
  <2>3. UNCHANGED ghost \/ \E t \in Tokens :
          ghost' = [ghost EXCEPT !.published = [@ EXCEPT ![t] = docs[call[c].path].graph]]
    BY <1>4 DEF PublishApp
  <2>4. ASSUME NEW t \in Tokens PROVE [ghost.published EXCEPT ![t] = docs[call[c].path].graph] \in [Tokens -> Nat]
    BY <2>2
  <2>5. ASSUME NEW f \in [Tokens -> Nat], ghost' = [ghost EXCEPT !.published = f] PROVE GhostOK'
    BY <2>5
  <2> QED BY <2>3, <2>4, <2>5
<1>5. ASSUME NEW c \in Calls, RevokeAppVersion(c) PROVE GhostOK'
  <2>1. call[c].token \in Tokens
    BY <1>5, CallFacts DEF RevokeAppVersion, AtAccount, Serving
  <2>2. UNCHANGED ghost \/ ghost' = [ghost EXCEPT !.revoked = @ \cup {call[c].token}]
    BY <1>5 DEF RevokeAppVersion
  <2>3. ghost.revoked \cup {call[c].token} \in SUBSET Tokens
    BY <2>1
  <2> QED BY <2>2, <2>3
<1>6. ASSUME NEW c \in Calls, RequestRefused(c) PROVE GhostOK'
  BY <1>6 DEF RequestRefused, ListFailed
<1>7. ASSUME NEW c \in Calls, SessionLost(c) PROVE GhostOK'
  <2>1. call[c].why \in Reasons
    BY CallFacts DEF CallRecord
  <2> QED BY <1>7, <2>1 DEF SessionLost
<1>8. ASSUME NEW c \in Calls, RequestFails(c) PROVE GhostOK'
  BY <1>8 DEF RequestFails, Replaces
<1>9. CASE LoadPage
  BY <1>9 DEF LoadPage, Forgotten, Reasons
<1>10. CASE Logout
  BY <1>10 DEF Logout, Forgotten, Reasons
<1>11. CASE SignIn
  BY <1>11 DEF SignIn, FinishAuth, Forgotten, Reasons
<1>12. CASE OpenOther
  BY <1>12 DEF OpenOther
<1>13. ASSUME NEW c \in Calls, RefreshAuth(c) PROVE GhostOK'
  BY <1>13 DEF RefreshAuth, RefreshGranted, RefreshRefused, RefreshDropped
<1> QED BY <1>1, <1>2, <1>3, <1>4, <1>5, <1>6, <1>7, <1>8, <1>9, <1>10, <1>11, <1>12, <1>13, Frames DEF GhostStep

LEMMA CallTypes ==
    ASSUME TypeInv, Next
    PROVE  CallsOK'
<1>1. CASE UNCHANGED call
  BY <1>1 DEF TypeInv, CallsOK
<1>2. CASE call' = [c \in Calls |-> Idle]
  BY <1>2, Cleared
<1>3. CASE Expire
  <2>1. CallsOK /\ call' = [c \in Calls |-> IF call[c].access = "good" THEN [call[c] EXCEPT !.access = "bad"] ELSE call[c]]
    BY <1>3 DEF Expire, TypeInv
  <2>2. ASSUME NEW c \in Calls PROVE call'[c] \in CallRecord /\ CallOK(call'[c])
    <3> DEFINE v == [call[c] EXCEPT !.access = "bad"]
    <3>1. call[c] \in CallRecord /\ CallOK(call[c])
      BY <2>1, CallFacts
    <3>2. v \in CallRecord
      BY <3>1 DEF CallRecord, Access
    <3>3. CallOK(v)
      BY <3>1 DEF CallRecord, CallOK, GotOK
    <3> QED BY <2>1, <3>1, <3>2, <3>3
  <2>3. DOMAIN call' = Calls /\ call' = [c \in Calls |-> call'[c]]
    BY <2>1
  <2> QED BY <2>2, <2>3 DEF CallsOK
<1>4. UNCHANGED call \/ call' = [c \in Calls |-> Idle] \/ Expire \/ \E c \in Calls : Server(c) \/ Client(c)
  BY DEF Next, FinishAuth, LoadPage, Logout, StartAuth, Withdraw, NodeComesOrGoes, OpenOther, NewPage
<1> QED BY <1>1, <1>2, <1>3, <1>4, ServerCalls, ClientCalls

-----------------------------------------------------------------------------
(* A call moves by its own steps, loses its access token, or is forgotten   *)
(* with the page.                                                           *)

Like(v, u) ==
    /\ v.op = u.op /\ v.step = u.step /\ v.stage = u.stage /\ v.path = u.path /\ v.token = u.token
    /\ v.program = u.program /\ v.ticket = u.ticket /\ v.alive = u.alive /\ v.why = u.why
    /\ v.got = u.got /\ v.left = u.left

\* The two ends of a sign-in.
SignedIn ==
    LET new == broker.issued + 1
    IN /\ NewPage("studio")
       /\ broker' = [broker EXCEPT !.flows = broker'.flows, !.issued = new, !.live = @ \cup {new}]
       /\ jar' = [SessionCookies({new}, 0) EXCEPT !.flow = 0]
       /\ ghost' = [Forgotten EXCEPT !.why = "none", !.lost = FALSE]
NotSignedIn ==
    LET new == broker.issued + 1
    IN /\ UNCHANGED <<jar, call, page, ghost>>
       /\ \/ broker' = [broker EXCEPT !.flows = broker'.flows]
          \/ broker' = [broker EXCEPT !.flows = broker'.flows, !.issued = new, !.live = @ \cup {new}]

PageForgets == gate = None /\ call' = [c \in Calls |-> Idle] /\ (LoadPage \/ Logout \/ (SignIn /\ SignedIn))
Elsewhere ==
    /\ \A d \in Calls : Like(call'[d], call[d])
    /\ (SignIn /\ NotSignedIn) \/ StartAuth \/ Expire \/ Withdraw \/ NodeComesOrGoes \/ OpenOther
Acts(c) == (Server(c) \/ Client(c)) /\ \A d \in Calls \ {c} : call'[d] = call[d]

LEMMA ServerActs ==
    ASSUME TypeInv, NEW c \in Calls, Server(c), NEW d \in Calls, d # c
    PROVE  call'[d] = call[d]
<1> USE DEF TypeInv, CallsOK, Reply
<1>1. CASE WorkerRefuses(c) \/ SaveProject(c) \/ SaveDeletesProgram(c)
  BY <1>1 DEF WorkerRefuses, SaveProject, SaveDeletesProgram
<1>2. CASE ObjectResets(c) \/ PublishApp(c) \/ ListAppVersions(c) \/ RevokeAppVersion(c)
  BY <1>2 DEF ObjectResets, PublishApp, ListAppVersions, RevokeAppVersion
<1>3. CASE SharedApp(c) \/ LoadProject(c) \/ DeleteProject(c) \/ ReadFleet(c)
  BY <1>3 DEF SharedApp, LoadProject, DeleteProject, ReadFleet
<1>4. CASE CreateJob(c) \/ UploadAsset(c) \/ CommitJob(c)
  BY <1>4 DEF CreateJob, UploadAsset, CommitJob
<1>5. CASE RefreshAuth(c)
  BY <1>5 DEF RefreshAuth, RefreshGranted, RefreshRefused, RefreshDropped, Denied
<1> QED BY <1>1, <1>2, <1>3, <1>4, <1>5 DEF Server

LEMMA ClientActs ==
    ASSUME TypeInv, NEW c \in Calls, Client(c), NEW d \in Calls, d # c
    PROVE  call'[d] = call[d]
<1> USE DEF TypeInv, CallsOK, Over
<1>1. CASE Ask(c)
  BY <1>1 DEF Ask
<1>2. CASE RequestRefused(c)
  BY <1>2 DEF RequestRefused, RefusedUploadFails
<1>3. CASE SessionRefreshed(c) \/ SessionLost(c)
  BY <1>3 DEF SessionRefreshed, SessionLost
<1>4. CASE RequestFails(c)
  BY <1>4 DEF RequestFails
<1>5. CASE AnswerArrives(c)
  BY <1>5, ContinueMoves DEF AnswerArrives
<1> QED BY <1>1, <1>2, <1>3, <1>4, <1>5 DEF Client

LEMMA Moves ==
    ASSUME TypeInv, Next
    PROVE  PageForgets \/ Elsewhere \/ \E c \in Calls : Acts(c)
<1>1. CASE LoadPage \/ Logout
  BY <1>1 DEF LoadPage, Logout, NewPage, PageForgets
<1>2. CASE SignIn
  <2>1. PICK f \in 1..MaxFlows : FinishAuth(f)
    BY <1>2 DEF SignIn
  <2>2. CASE NotSignedIn
    BY <1>2, <2>2 DEF Elsewhere, Like, NotSignedIn
  <2>3. CASE ~NotSignedIn
    <3>1. NewPage("studio") /\ SignedIn
      <4>1. broker'.flows = broker.flows \ {f} /\ NewPage("studio")
        BY <2>1, <2>3 DEF FinishAuth, NotSignedIn, TypeInv, SessionOK
      <4> QED BY <2>1, <2>3, <4>1 DEF FinishAuth, NotSignedIn, SignedIn
    <3> QED BY <1>2, <3>1 DEF NewPage, PageForgets
  <2> QED BY <2>2, <2>3
<1>3. CASE StartAuth \/ Withdraw \/ NodeComesOrGoes \/ OpenOther
  <2>1. UNCHANGED call
    BY <1>3 DEF StartAuth, Withdraw, NodeComesOrGoes, OpenOther
  <2> QED BY <1>3, <2>1 DEF Elsewhere, Like
<1>4. CASE Expire
  <2>1. ASSUME NEW d \in Calls PROVE Like(call'[d], call[d])
    <3>1. call[d] \in CallRecord
      BY CallFacts DEF TypeInv
    <3> QED BY <1>4, <3>1 DEF Expire, Like, CallRecord
  <2> QED BY <1>4, <2>1 DEF Elsewhere
<1>5. ASSUME NEW c \in Calls, Server(c) \/ Client(c) PROVE Acts(c)
  BY <1>5, ServerActs, ClientActs DEF Acts
<1> QED BY <1>1, <1>2, <1>3, <1>4, <1>5 DEF Next, SignIn

\* The gate is held by the save that is between its writes.
LEMMA GateTypes ==
    ASSUME TypeInv, Next
    PROVE  GateOK'
<1> SUFFICES ASSUME gate' # None PROVE call'[gate'].stage = "saving"
  BY DEF GateOK
<1>1. CASE UNCHANGED account
  <2>1. gate' = gate /\ gate \in Calls /\ call[gate].stage = "saving"
    BY <1>1, CloudAssumption DEF account, TypeInv, AccountOK, GateOK
  <2>2. CASE Elsewhere
    BY <2>1, <2>2 DEF Elsewhere, Like
  <2>3. ASSUME NEW c \in Calls, Acts(c) PROVE call'[gate].stage = "saving"
    <3>1. CASE c # gate
      BY <2>1, <2>3, <3>1 DEF Acts
    <3>2. CASE c = gate
      <4>1. ~Client(c)
        <5>1. ~Ask(c)
          <6>1. Ask(c) => call[c] = Idle
            BY Zenon DEF Ask
          <6>2. Idle.stage = "idle"
            BY DEF Idle
          <6> QED BY <2>1, <3>2, <6>1, <6>2
        <5>2. ~RequestRefused(c) /\ ~SessionRefreshed(c) /\ ~SessionLost(c) /\ ~AnswerArrives(c) /\ ~RequestFails(c)
          BY <2>1, <3>2 DEF RequestRefused, SessionRefreshed, SessionLost, AnswerArrives, RequestFails
        <5> QED BY <5>1, <5>2 DEF Client
      <4>2. ~Server(c)
        BY <1>1, <2>1, <3>2, CloudAssumption DEF Server, WorkerRefuses, SaveProject, SaveDeletesProgram, ObjectResets, PublishApp,
              ListAppVersions, RevokeAppVersion, SharedApp, LoadProject, DeleteProject, ReadFleet, CreateJob,
              UploadAsset, CommitJob, RefreshAuth, AtAccount, Serving, account
      <4> QED BY <2>3, <4>1, <4>2 DEF Acts
    <3> QED BY <3>1, <3>2
  <2> QED BY <2>1, <2>2, <2>3, Moves DEF PageForgets
<1>2. ASSUME NEW c \in Calls, AccountStep(c) PROVE call'[gate'].stage = "saving"
  <2>1. CASE SaveProject(c)
    <3>1. gate' = c /\ call' = [call EXCEPT ![c].stage = "saving"]
      BY <2>1 DEF SaveProject, AtAccount
    <3>2. call[c] \in CallRecord /\ call \in [Calls -> CallRecord]
      BY CallFacts DEF TypeInv, CallsOK
    <3> QED BY <3>1, <3>2 DEF CallRecord
  <2>2. CASE SaveDeletesProgram(c) \/ ObjectResets(c)
    BY <2>2 DEF SaveDeletesProgram, ObjectResets
  <2>3. CASE PublishApp(c) \/ RevokeAppVersion(c) \/ DeleteProject(c)
    BY <2>3 DEF PublishApp, RevokeAppVersion, DeleteProject, AtAccount
  <2> QED BY <1>2, <2>1, <2>2, <2>3 DEF AccountStep
<1> QED BY <1>1, <1>2, Frames

LEMMA TypeStep == TypeInv /\ [Next]_vars => TypeInv'
<1> SUFFICES ASSUME TypeInv, [Next]_vars PROVE TypeInv'
  OBVIOUS
<1>1. CASE Next
  <2>1. GateOK' /\ AccountOK' /\ SessionOK' /\ JobsOK'
    BY <1>1, GateTypes, AccountTypes, SessionTypes, JobTypes
  <2>2. PageOK' /\ CountsOK' /\ GhostOK' /\ CallsOK'
    BY <1>1, PageTypes, CountTypes, GhostTypes, CallTypes
  <2> QED BY <2>1, <2>2 DEF TypeInv
<1>2. CASE UNCHANGED vars
  <2> USE <1>2 DEF vars, account, relay, TypeInv
  <2>1. GateOK' /\ AccountOK'
    BY DEF GateOK, AccountOK
  <2>2. SessionOK' /\ JobsOK' /\ PageOK' /\ CountsOK'
    BY DEF SessionOK, JobsOK, PageOK, PageTyped, CountsOK
  <2>3. GhostOK' /\ CallsOK'
    BY DEF GhostOK, CallsOK
  <2> QED BY <2>1, <2>2, <2>3
<1> QED BY <1>1, <1>2

LEMMA TypeInit == Init => TypeInv
<1> SUFFICES ASSUME Init PROVE TypeInv
  OBVIOUS
<1>1. SessionOK /\ JobsOK /\ PageOK /\ CountsOK
  BY DEF Init, SessionOK, JobsOK, PageOK, PageTyped, CountsOK, Access
<1>2. CallsOK /\ GateOK
  BY IdleOK DEF Init, CallsOK, GateOK
<1>3. AccountOK /\ GhostOK
  <2>1. CASE docs = NewDocs /\ shares = NoShares /\ index = {} /\ ghost = NoGhost
    BY <2>1 DEF Init, AccountOK, GhostOK, NewDocs, NoDoc, NoShares, NoGhost, Reasons
  <2>2. ASSUME NEW p \in Paths, NEW t \in Tokens, EarlierPublication(p, t)
        PROVE  AccountOK /\ GhostOK
    <3>1. [path |-> p, graph |-> 1, inputs |-> 1, sidecar |-> 1] \in Snapshot
      BY DEF Snapshot
    <3>2. AccountOK
      BY <2>2, <3>1 DEF Init, AccountOK, EarlierPublication, NewDocs, NoDoc, NoShares
    <3>3. GhostOK
      BY <2>2 DEF GhostOK, EarlierPublication, NoGhost, Reasons
    <3> QED BY <3>2, <3>3
  <2> QED BY <2>1, <2>2 DEF Init
<1> QED BY <1>1, <1>2, <1>3 DEF TypeInv

LEMMA TypeHolds == Spec => []TypeInv
BY TypeInit, TypeStep, PTL DEF Spec

-----------------------------------------------------------------------------
(* Runs. *)

\* A call whose request has not been answered waits in the same place.
Waits(v, u) ==
    /\ u.stage \notin {"idle", "answered"} /\ v.stage \notin {"idle", "answered"}
    /\ v.step = u.step /\ v.left = u.left

LEMMA RunWaits ==
    ASSUME NEW j, NEW u, NEW v, RunWhole(j, u), Waits(v, u) \/ Like(v, u) \/ v = Idle
    PROVE  RunWhole(j, v)
<1>1. CASE v = Idle
  BY <1>1 DEF RunWhole, Idle
<1>2. CASE Waits(v, u)
  BY <1>2 DEF Waits, RunWhole
<1>3. CASE Like(v, u)
  BY <1>3 DEF Like, RunWhole
<1> QED BY <1>1, <1>2, <1>3

LEMMA ServerRuns ==
    ASSUME TypeInv, NEW c \in Calls, RunWhole(jobs[c], call[c]), Server(c)
    PROVE  RunWhole(jobs'[c], call'[c])
<1>0. call[c] \in CallRecord /\ CallOK(call[c]) /\ CallsOK /\ JobsOK
  BY CallFacts DEF TypeInv
<1>1. CASE WorkerRefuses(c)
  <2>1. Waits(call'[c], call[c]) /\ jobs' = jobs
    BY <1>0, <1>1 DEF WorkerRefuses, Waits, CallsOK, CallRecord, relay
  <2> QED BY <2>1, RunWaits
<1>2. CASE RefreshAuth(c)
  <2>1. Waits(call'[c], call[c]) /\ jobs' = jobs
    BY <1>0, <1>2 DEF RefreshAuth, RefreshGranted, RefreshRefused, RefreshDropped, Denied, Waits, CallsOK,
                      CallRecord, relay
  <2> QED BY <2>1, RunWaits
<1>3. ASSUME jobs' = jobs, call'[c].step = call[c].step,
             call[c].step \notin {"fleet", "create", "upload", "commit"}
      PROVE  RunWhole(jobs'[c], call'[c])
  BY <1>3 DEF RunWhole
<1>4. CASE SaveProject(c)
  BY <1>0, <1>3, <1>4 DEF SaveProject, AtAccount, Serving, Reply, CallsOK, CallRecord, relay
<1>5. CASE SaveDeletesProgram(c) \/ ObjectResets(c)
  <2>1. call[c].step = "save"
    BY <1>0, <1>5, CloudAssumption DEF SaveDeletesProgram, ObjectResets, TypeInv, GateOK, CallOK
  <2> QED BY <1>0, <1>3, <1>5, <2>1 DEF SaveDeletesProgram, ObjectResets, Reply, CallsOK, CallRecord, relay
<1>6. CASE PublishApp(c) \/ ListAppVersions(c) \/ RevokeAppVersion(c)
  BY <1>0, <1>3, <1>6 DEF PublishApp, ListAppVersions, RevokeAppVersion, AtAccount, Serving, Reply, CallsOK,
                          CallRecord, relay
<1>7. CASE SharedApp(c) \/ LoadProject(c) \/ DeleteProject(c)
  BY <1>0, <1>3, <1>7 DEF SharedApp, LoadProject, DeleteProject, AtAccount, Serving, Reply, CallsOK,
                          CallRecord, relay
<1>8. ASSUME NEW got, Reply(c, got)
      PROVE  call'[c] = [call[c] EXCEPT !.stage = "answered", !.got = got]
             /\ call'[c].step = call[c].step /\ call'[c].stage = "answered" /\ call'[c].got = got
             /\ call'[c].left = call[c].left
  BY <1>0, <1>8 DEF Reply, CallsOK, CallRecord
<1>9. CASE ReadFleet(c)
  <2>1. PICK got : Reply(c, got)
    BY <1>9 DEF ReadFleet
  <2> QED BY <1>8, <1>9, <2>1 DEF ReadFleet, Serving, relay, RunWhole
<1>10. CASE CreateJob(c)
  <2>1. PICK has \in SUBSET Digests :
          /\ jobs' = [jobs EXCEPT ![c] = [state |-> "created", has |-> has, made |-> @.made + 1]]
          /\ Reply(c, Digests \ has)
    BY <1>10 DEF CreateJob
  <2>2. jobs'[c] = [state |-> "created", has |-> has, made |-> jobs[c].made + 1]
    BY <1>0, <2>1 DEF JobsOK
  <2>3. jobs[c].made = 0
    BY <1>10 DEF CreateJob, Serving, RunWhole
  <2>4. /\ call'[c].step = "create" /\ call'[c].stage = "answered" /\ call'[c].got = Digests \ has
    BY <1>8, <1>10, <2>1 DEF CreateJob, Serving
  <2>5. jobs'[c].made = 1 /\ jobs'[c].state = "created" /\ jobs'[c].has = has
    BY <2>2, <2>3
  <2> HIDE <2>2
  <2> QED BY <2>4, <2>5 DEF RunWhole
<1>11. CASE UploadAsset(c)
  <2>1. Reply(c, {Current(c)})
    BY <1>11 DEF UploadAsset
  <2>2. /\ jobs'[c].has = jobs[c].has \cup {Current(c)} /\ jobs'[c].made = jobs[c].made
        /\ jobs'[c].state = jobs[c].state
    BY <1>0, <1>11 DEF UploadAsset, JobsOK
  <2>3. Current(c) \in Digests /\ jobs[c].has \subseteq Digests
    BY <1>0, <1>11, CallFacts DEF UploadAsset, Current, Serving, JobsOK
  <2> QED BY <1>8, <1>11, <2>1, <2>2, <2>3 DEF UploadAsset, Serving, RunWhole
<1>12. CASE CommitJob(c)
  <2>1. Reply(c, {"queued"})
    BY <1>12 DEF CommitJob
  <2>2. /\ jobs'[c].has = jobs[c].has /\ jobs'[c].made = jobs[c].made
        /\ jobs'[c].state = "committed"
    BY <1>0, <1>12 DEF CommitJob, JobsOK
  <2> QED BY <1>8, <1>12, <2>1, <2>2 DEF CommitJob, Serving, RunWhole
<1> QED BY <1>1, <1>2, <1>4, <1>5, <1>6, <1>7, <1>9, <1>10, <1>11, <1>12 DEF Server

LEMMA ClientRuns ==
    ASSUME TypeInv, NEW c \in Calls, RunWhole(jobs[c], call[c]), Client(c)
    PROVE  RunWhole(jobs'[c], call'[c])
<1>0. call[c] \in CallRecord /\ CallOK(call[c]) /\ CallsOK /\ JobsOK
  BY CallFacts DEF TypeInv
<1>1. jobs' = jobs
  BY DEF Client, Ask, RequestRefused, SessionRefreshed, SessionLost, AnswerArrives, RequestFails, relay
<1>2. ASSUME Over(c) PROVE call'[c] = Idle
  BY <1>0, <1>2 DEF Over, CallsOK
<1>3. CASE Ask(c)
  <2>1. PICK op \in AllOps, t \in Tokens \cup {None}, u \in CallRecord, step \in StepNames : Asked(c, op, t, u, step)
    BY <1>3, AskSends
  <2>2. call'[c].step = step /\ call'[c].stage = "sent"
    BY <1>0, <2>1 DEF Asked, Send, CallsOK, CallRecord
  <2>3. step \notin {"upload", "commit"} /\ (step \in {"fleet", "create"} => jobs[c].state = "none")
    BY <2>1 DEF Asked, StepOf, AllOps
  <2>4. RunWhole(jobs[c], call'[c])
    BY <2>2, <2>3 DEF RunWhole
  <2> QED BY <1>1, <2>4
<1>4. CASE RequestRefused(c) \/ SessionRefreshed(c) \/ SessionLost(c)
  <2>1. call'[c] = Idle \/ Waits(call'[c], call[c])
    BY <1>0, <1>2, <1>4 DEF RequestRefused, RefusedUploadFails, SessionRefreshed, SessionLost, Waits, CallsOK, CallRecord
  <2> QED BY <1>1, <2>1, RunWaits
<1>5. CASE RequestFails(c)
  BY <1>1, <1>2, <1>5, RunWaits DEF RequestFails
<1>6. CASE AnswerArrives(c)
  <2>1. CASE Over(c)
    BY <1>1, <1>2, <2>1, RunWaits
  <2>2. ASSUME NEW left \in SUBSET Digests, NEW step \in StepNames,
               call' = [call EXCEPT ![c] = Send([call[c] EXCEPT !.left = left, !.got = {}], step)],
               \/ step = "publish" /\ call[c].op = "publish"
               \/ step = "create" /\ call[c].step = "fleet"
               \/ /\ call[c].step = "create" /\ left = call[c].got
                  /\ step = (IF left = {} THEN "commit" ELSE "upload")
               \/ /\ call[c].step = "upload" /\ left = call[c].left \ call[c].got
                  /\ step = (IF left = {} THEN "commit" ELSE "upload")
        PROVE  RunWhole(jobs'[c], call'[c])
    <3>1. call'[c].step = step /\ call'[c].stage = "sent" /\ call'[c].left = left
      BY <1>0, <2>2 DEF Send, CallsOK, CallRecord
    <3>2. jobs[c].has \subseteq Digests /\ call[c].stage = "answered"
      BY <1>0, <1>6 DEF JobsOK, AnswerArrives
    <3> QED BY <1>1, <2>2, <3>1, <3>2 DEF RunWhole
  <2> QED BY <1>0, <1>6, <2>1, <2>2, ContinueMoves DEF AnswerArrives
<1> QED BY <1>3, <1>4, <1>5, <1>6 DEF Client

\* A step of one call leaves the other runs alone.
LEMMA JobFrame ==
    ASSUME TypeInv, NEW c \in Calls, Server(c) \/ Client(c), NEW d \in Calls, d # c
    PROVE  jobs'[d] = jobs[d]
<1>1. CASE JobStep(c)
  BY <1>1 DEF JobStep, CreateJob, UploadAsset, CommitJob, TypeInv, JobsOK
<1>2. CASE Server(c) /\ ~JobStep(c)
  BY <1>2 DEF Server, JobStep, WorkerRefuses, SaveProject, SaveDeletesProgram, ObjectResets, PublishApp, ListAppVersions,
              RevokeAppVersion, SharedApp, LoadProject, DeleteProject, ReadFleet, RefreshAuth, relay
<1>3. CASE Client(c)
  BY <1>3 DEF Client, Ask, RequestRefused, SessionRefreshed, SessionLost, AnswerArrives, RequestFails, relay
<1> QED BY <1>1, <1>2, <1>3

LEMMA RunsStep == TypeInv /\ RunsWhole /\ [Next]_vars => RunsWhole'
<1> SUFFICES ASSUME TypeInv, RunsWhole, [Next]_vars, NEW d \in Calls
             PROVE  RunWhole(jobs'[d], call'[d])
  BY DEF RunsWhole
<1>0. RunWhole(jobs[d], call[d])
  BY DEF RunsWhole
<1>1. CASE UNCHANGED vars
  BY <1>0, <1>1 DEF vars, relay
<1>2. CASE Next /\ Elsewhere
  <2>1. jobs' = jobs
    BY <1>2 DEF Elsewhere, SignIn, FinishAuth, StartAuth, Expire, Withdraw, NodeComesOrGoes, OpenOther, relay
  <2> QED BY <1>0, <1>2, <2>1, RunWaits DEF Elsewhere
<1>3. CASE Next /\ PageForgets
  <2>1. jobs' = jobs
    BY <1>3 DEF PageForgets, SignIn, FinishAuth, LoadPage, Logout
  <2> QED BY <1>0, <1>3, <2>1, RunWaits DEF PageForgets
<1>4. ASSUME NEW c \in Calls, Acts(c) PROVE RunWhole(jobs'[d], call'[d])
  <2>1. CASE c = d
    BY <1>0, <1>4, <2>1, ServerRuns, ClientRuns DEF Acts
  <2>2. CASE c # d
    <3>1. call'[d] = call[d]
      BY <1>4, <2>2 DEF Acts
    <3>2. jobs'[d] = jobs[d]
      BY <1>4, <2>2, JobFrame DEF Acts
    <3> QED BY <1>0, <3>1, <3>2
  <2> QED BY <2>1, <2>2
<1> QED BY <1>1, <1>2, <1>3, <1>4, Moves

LEMMA RunsInit == Init => RunsWhole
BY DEF Init, RunsWhole, RunWhole, Idle

-----------------------------------------------------------------------------
(* Documents and versions. *)

LEMMA PathsStay ==
    ASSUME TypeInv, Next, gate # None
    PROVE  call'[gate].path = call[gate].path
<1>1. gate \in Calls /\ call[gate].stage = "saving" /\ call[gate] \in CallRecord /\ CallsOK
  BY CallFacts, CloudAssumption DEF TypeInv, AccountOK, GateOK
<1>2. CASE Elsewhere
  BY <1>1, <1>2 DEF Elsewhere, Like
<1>3. ASSUME NEW c \in Calls, Acts(c) PROVE call'[gate].path = call[gate].path
  <2>1. CASE c # gate
    BY <1>1, <1>3, <2>1 DEF Acts
  <2>2. CASE c = gate
    <3>1. ~Ask(c)
      <4>1. Ask(c) => call[c] = Idle
        BY Zenon DEF Ask
      <4> QED BY <1>1, <2>2, <4>1 DEF Idle
    <3>2. ~Client(c)
      BY <1>1, <2>2, <3>1 DEF Client, RequestRefused, SessionRefreshed, SessionLost, AnswerArrives, RequestFails
    <3>3. SaveDeletesProgram(c) \/ ObjectResets(c)
      BY <1>1, <1>3, <2>2, <3>2, CloudAssumption DEF Acts, Server, WorkerRefuses, SaveProject, PublishApp,
              ListAppVersions, RevokeAppVersion, SharedApp, LoadProject, DeleteProject, ReadFleet, CreateJob,
              UploadAsset, CommitJob, RefreshAuth, AtAccount, Serving
    <3> QED BY <1>1, <2>2, <3>3 DEF SaveDeletesProgram, ObjectResets, Reply, CallsOK, CallRecord
  <2> QED BY <2>1, <2>2
<1> QED BY <1>2, <1>3, Moves DEF PageForgets

LEMMA GhostKeeps ==
    ASSUME TypeInv, Next
    PROVE  /\ ghost.torn \subseteq ghost'.torn
           /\ \/ ghost'.published = ghost.published /\ ghost'.revoked = ghost.revoked
              \/ \E c \in Calls : PublishApp(c) \/ RevokeAppVersion(c)
<1> USE DEF TypeInv, GhostOK
<1>1. CASE UNCHANGED ghost
  BY <1>1
<1>2. ASSUME NEW c \in Calls, Ask(c) PROVE ghost.torn = ghost'.torn /\ ghost'.published = ghost.published /\ ghost'.revoked = ghost.revoked
  BY <1>2, AskSends, ZenonT(60) DEF Asked
<1>3. ASSUME NEW c \in Calls, ObjectResets(c) \/ RequestRefused(c) \/ SessionLost(c) \/ RequestFails(c)
      PROVE  ghost.torn \subseteq ghost'.torn /\ ghost'.published = ghost.published /\ ghost'.revoked = ghost.revoked
  BY <1>3 DEF ObjectResets, RequestRefused, ListFailed, SessionLost, RequestFails
<1>4. ASSUME NEW c \in Calls, PublishApp(c) \/ RevokeAppVersion(c) PROVE ghost.torn \subseteq ghost'.torn
  BY <1>4 DEF PublishApp, RevokeAppVersion
<1>5. CASE LoadPage \/ Logout \/ OpenOther
  BY <1>5 DEF LoadPage, Logout, OpenOther, Forgotten
<1>6. CASE SignIn
  BY <1>6 DEF SignIn, FinishAuth, Forgotten
<1>7. ASSUME NEW c \in Calls, RefreshAuth(c)
      PROVE  ghost.torn = ghost'.torn /\ ghost'.published = ghost.published /\ ghost'.revoked = ghost.revoked
  BY <1>7 DEF RefreshAuth, RefreshGranted, RefreshRefused, RefreshDropped
<1> QED BY <1>1, <1>2, <1>3, <1>4, <1>5, <1>6, <1>7, Frames DEF GhostStep

LEMMA DocsStep == TypeInv /\ DocsWhole /\ [Next]_vars => DocsWhole'
<1> SUFFICES ASSUME TypeInv, DocsWhole, [Next]_vars, NEW p \in Paths
             PROVE  DocWhole(p)'
  BY DEF DocsWhole
<1>0. DocWhole(p) /\ docs \in [Paths -> [graph : Nat, inputs : Nat, sidecar : Nat, program : Nat]]
  BY DEF DocsWhole, TypeInv, AccountOK
<1>1. CASE UNCHANGED vars
  BY <1>0, <1>1 DEF vars, account, DocWhole
<1>2. ASSUME Next PROVE ghost.torn \subseteq ghost'.torn
  BY <1>2, GhostKeeps
<1>3. CASE Next /\ docs' = docs /\ gate' = gate
  BY <1>0, <1>2, <1>3, PathsStay DEF DocWhole
<1>4. ASSUME Next, NEW c \in Calls, AccountStep(c) PROVE DocWhole(p)'
  <2>0. c # None /\ call[c] \in CallRecord /\ call \in [Calls -> CallRecord]
    BY CallFacts, CloudAssumption DEF TypeInv, CallsOK
  <2>1. CASE SaveProject(c)
    <3>1. CASE docs' = docs
      <4>1. CASE gate' = gate
        BY <1>3, <1>4, <3>1, <4>1
      <4>2. CASE gate' # gate
        BY <1>0, <1>2, <1>4, <2>1, <3>1, <4>2 DEF SaveProject, DocWhole, AtAccount
      <4> QED BY <4>1, <4>2
    <3>2. ASSUME NEW q, q = call[c].path, NEW r, r = call[c].rev,
                 docs' = [docs EXCEPT ![q] = [graph |-> r, inputs |-> r, sidecar |-> r,
                                              program |-> IF call[c].program THEN r ELSE docs[q].program]],
                 \/ call[c].program /\ UNCHANGED gate
                 \/ gate' = c /\ call' = [call EXCEPT ![c].stage = "saving"]
          PROVE  DocWhole(p)'
      <4>1. gate = None
        BY <2>1 DEF SaveProject, AtAccount
      <4>2. CASE p # q
        BY <1>0, <1>2, <1>4, <3>2, <4>1, <4>2 DEF DocWhole
      <4>3. CASE p = q /\ call[c].program
        BY <1>0, <3>2, <4>3 DEF DocWhole
      <4>4. CASE p = q /\ ~call[c].program
        <5>1. call'[c].path = q
          BY <2>0, <3>2, <4>4 DEF CallRecord
        <5> QED BY <1>0, <2>0, <3>2, <4>4, <5>1 DEF DocWhole
      <4> QED BY <4>2, <4>3, <4>4
    <3> QED BY <2>1, <3>1, <3>2 DEF SaveProject
  <2>2. CASE SaveDeletesProgram(c)
    BY <1>0, <1>2, <1>4, <2>0, <2>2 DEF SaveDeletesProgram, DocWhole
  <2>3. CASE ObjectResets(c)
    <3>1. ghost'.torn = ghost.torn \cup {call[c].path}
      BY <2>3 DEF ObjectResets, TypeInv, GhostOK
    <3> QED BY <1>0, <2>0, <2>3, <3>1 DEF ObjectResets, DocWhole
  <2>4. CASE PublishApp(c) \/ RevokeAppVersion(c)
    BY <1>3, <1>4, <2>4 DEF PublishApp, RevokeAppVersion
  <2>5. CASE DeleteProject(c)
    <3>1. CASE p = call[c].path
      BY <1>0, <2>5, <3>1 DEF DeleteProject, DocWhole, NoDoc
    <3>2. CASE p # call[c].path
      BY <1>0, <1>2, <1>4, <2>0, <2>5, <3>2 DEF DeleteProject, DocWhole, AtAccount
    <3> QED BY <3>1, <3>2
  <2> QED BY <1>4, <2>1, <2>2, <2>3, <2>4, <2>5 DEF AccountStep
<1> QED BY <1>1, <1>3, <1>4, Frames DEF account

LEMMA DocsInit == Init => DocsWhole
<1> SUFFICES ASSUME Init, NEW p \in Paths PROVE DocWhole(p)
  BY DEF DocsWhole
<1>1. CASE docs = NewDocs
  BY <1>1 DEF DocWhole, NewDocs, NoDoc
<1>2. ASSUME NEW q \in Paths, NEW t \in Tokens, EarlierPublication(q, t) PROVE DocWhole(p)
  BY <1>2 DEF EarlierPublication, DocWhole, NewDocs, NoDoc
<1> QED BY <1>1, <1>2 DEF Init

\* A put or a deletion of one version leaves the others as they are.
LEMMA SharesStep == TypeInv /\ DocsWhole /\ SharesStand /\ [Next]_vars => SharesStand'
<1> SUFFICES ASSUME TypeInv, DocsWhole, SharesStand, [Next]_vars, NEW t \in Tokens
             PROVE  VersionStands(t)'
  BY DEF SharesStand
<1>0. VersionStands(t)
  BY DEF SharesStand
<1>1. CASE UNCHANGED vars
  BY <1>0, <1>1 DEF vars, account, VersionStands
<1>2. CASE shares' = shares /\ index' = index /\ ghost'.published = ghost.published /\ ghost'.revoked = ghost.revoked
  BY <1>0, <1>2 DEF VersionStands
<1>3. ASSUME NEW c \in Calls, PublishApp(c) PROVE VersionStands(t)'
  <2>1. CASE UNCHANGED <<shares, index, ghost>>
    BY <1>2, <2>1
  <2>2. ASSUME NEW p \in Paths, p = call[c].path, Stored(p), NEW s \in Tokens, shares[s] = None, s \notin ghost.revoked,
               shares' = [shares EXCEPT ![s] = [path |-> p, graph |-> docs[p].graph,
                                                inputs |-> docs[p].inputs, sidecar |-> docs[p].sidecar]],
               index' = index \cup {<<p, s>>},
               ghost' = [ghost EXCEPT !.published = [@ EXCEPT ![s] = docs[p].graph]]
        PROVE  VersionStands(t)'
    <3>1. /\ ghost'.published = [ghost.published EXCEPT ![s] = docs[p].graph]
          /\ ghost'.revoked = ghost.revoked
      BY <2>2 DEF TypeInv, GhostOK
    <3>2. CASE t # s
      <4>1. /\ shares'[t] = shares[t] /\ ghost'.published[t] = ghost.published[t]
            /\ \A q \in Paths : <<q, t>> \in index' <=> <<q, t>> \in index
        BY <2>2, <3>1, <3>2 DEF TypeInv, AccountOK, GhostOK
      <4> QED BY <1>0, <3>1, <4>1 DEF VersionStands
    <3>3. CASE t = s
      <4> DEFINE snap == [path |-> p, graph |-> docs[p].graph, inputs |-> docs[p].inputs, sidecar |-> docs[p].sidecar]
      <4>1. shares'[t] = snap /\ ghost'.published[t] = docs[p].graph
        BY <2>2, <3>1, <3>3 DEF TypeInv, AccountOK, GhostOK
      <4>2. snap \in Snapshot
        BY DEF Snapshot, TypeInv, AccountOK
      <4>3. snap # None
        BY <4>2, CloudAssumption
      <4>4. \A q \in Paths : <<q, t>> \in index' <=> q = p
        BY <1>0, <2>2, <3>3 DEF VersionStands
      <4>5. snap.path = p /\ snap.graph = docs[p].graph /\ snap.inputs = docs[p].graph /\ snap.sidecar = docs[p].graph
        BY DEF DocsWhole, DocWhole
      <4> HIDE DEF snap
      <4> QED BY <2>2, <3>1, <3>3, <4>1, <4>3, <4>4, <4>5 DEF VersionStands, Stored
    <3> QED BY <3>2, <3>3
  <2>3. call[c].path \in Paths
    BY <1>3, CallFacts DEF PublishApp, AtAccount, Serving, TypeInv
  <2> QED BY <1>3, <2>1, <2>2, <2>3 DEF PublishApp
<1>4. ASSUME NEW c \in Calls, RevokeAppVersion(c) PROVE VersionStands(t)'
  <2>1. CASE UNCHANGED <<shares, index, ghost>>
    BY <1>2, <2>1
  <2>2. ASSUME NEW s \in Tokens, shares[s] # None,
               shares' = [shares EXCEPT ![s] = None], index' = index \ {<<shares[s].path, s>>},
               ghost' = [ghost EXCEPT !.revoked = @ \cup {s}]
        PROVE  VersionStands(t)'
    <3>1. ghost'.published = ghost.published /\ ghost'.revoked = ghost.revoked \cup {s}
      BY <2>2 DEF TypeInv, GhostOK
    <3>2. CASE t # s
      <4>1. /\ shares'[t] = shares[t]
            /\ \A q \in Paths : <<q, t>> \in index' <=> <<q, t>> \in index
        BY <2>2, <3>2 DEF TypeInv, AccountOK
      <4> QED BY <1>0, <3>1, <3>2, <4>1 DEF VersionStands
    <3>3. CASE t = s
      <4>1. shares'[t] = None
        BY <2>2, <3>3 DEF TypeInv, AccountOK
      <4>2. \A q \in Paths : <<q, t>> \notin index'
        BY <1>0, <2>2, <3>3 DEF VersionStands
      <4> QED BY <3>1, <4>1, <4>2 DEF VersionStands
    <3> QED BY <3>2, <3>3
  <2>3. call[c].token \in Tokens
    BY <1>4, CallFacts DEF RevokeAppVersion, AtAccount, Serving, TypeInv
  <2> QED BY <1>4, <2>1, <2>2, <2>3 DEF RevokeAppVersion
<1>5. ASSUME NEW c \in Calls, SaveProject(c) \/ SaveDeletesProgram(c) \/ ObjectResets(c) \/ DeleteProject(c)
      PROVE  shares' = shares /\ index' = index
  BY <1>5 DEF SaveProject, SaveDeletesProgram, ObjectResets, DeleteProject
<1> QED BY <1>1, <1>2, <1>3, <1>4, <1>5, Frames, GhostKeeps DEF AccountStep, account

LEMMA SharesInit == Init => SharesStand
<1> SUFFICES ASSUME Init, NEW t \in Tokens PROVE VersionStands(t)
  BY DEF SharesStand
<1>1. CASE shares = NoShares /\ index = {} /\ ghost = NoGhost
  BY <1>1 DEF VersionStands, NoShares, NoGhost
<1>2. ASSUME NEW p \in Paths, NEW s \in Tokens, EarlierPublication(p, s) PROVE VersionStands(t)
  <2> DEFINE snap == [path |-> p, graph |-> 1, inputs |-> 1, sidecar |-> 1]
  <2>1. snap # None
    BY CloudAssumption DEF Snapshot
  <2>2. CASE t = s
    <3>1. shares[t] = snap /\ ghost.published[t] = 1 /\ ghost.revoked = {}
      BY <1>2, <2>2 DEF EarlierPublication, NoShares, NoGhost
    <3> QED BY <1>2, <2>1, <2>2, <3>1 DEF VersionStands, EarlierPublication
  <2>3. CASE t # s
    <3>1. shares[t] = None /\ ghost.revoked = {} /\ \A q \in Paths : <<q, t>> \notin index
      BY <1>2, <2>3 DEF EarlierPublication, NoShares, NoGhost
    <3> QED BY <3>1 DEF VersionStands
  <2> QED BY <2>2, <2>3
<1> QED BY <1>1, <1>2 DEF Init

-----------------------------------------------------------------------------
(* The session. *)

Quiet(v) == v.stage \notin {"refresh", "granted", "denied"}

\* The tokens stay as they are, but for one that is issued and nobody has.
TokensStay ==
    /\ jar'.refresh = jar.refresh /\ broker'.policy = broker.policy
    /\ ghost.lost => ghost'.lost
    /\ \/ broker'.live = broker.live /\ broker'.issued = broker.issued
       \/ /\ broker'.issued = broker.issued + 1
          /\ broker'.live = broker.live \cup {broker.issued + 1}

LEMMA TokensApart ==
    ASSUME SessionOK, TokensKnown, TokensStay
    PROVE  /\ broker.live \subseteq broker'.live /\ broker.issued <= broker'.issued
           /\ \A n \in Nat : n <= broker.issued => (n <= broker'.issued /\ (n \in broker'.live <=> n \in broker.live))
           /\ TokensKnown'
<1>1. broker.issued \in Nat /\ broker.live \subseteq Nat /\ jar.refresh \in Nat /\ jar'.refresh = jar.refresh
  BY DEF SessionOK, TokensStay
<1>2. broker.live \subseteq broker'.live /\ broker.issued <= broker'.issued
  BY <1>1 DEF TokensStay
<1>3. ASSUME NEW n \in Nat, n <= broker.issued
      PROVE  n <= broker'.issued /\ (n \in broker'.live <=> n \in broker.live)
  BY <1>1, <1>3 DEF TokensStay
<1>4. ASSUME NEW n \in broker'.live PROVE 0 < n /\ n <= broker'.issued
  <2>1. CASE n \in broker.live
    BY <1>1, <2>1 DEF TokensStay, TokensKnown
  <2>2. CASE n \notin broker.live
    BY <1>1, <1>4, <2>2 DEF TokensStay
  <2> QED BY <2>1, <2>2
<1>5. TokensKnown'
  BY <1>1, <1>2, <1>3, <1>4 DEF TokensKnown, TokensStay
<1> QED BY <1>2, <1>3, <1>5

LEMMA TellsStays ==
    ASSUME TypeInv, TokensKnown, TokensStay,
           NEW d \in Calls, RefreshTells(call[d]), Like(call'[d], call[d]) \/ call'[d] = call[d] \/ Quiet(call'[d])
    PROVE  RefreshTells(call[d])'
<1>1. CASE Quiet(call'[d])
  BY <1>1 DEF Quiet, RefreshTells
<1>2. CASE Like(call'[d], call[d]) \/ call'[d] = call[d]
  <2>1. call'[d].stage = call[d].stage /\ call'[d].ticket = call[d].ticket /\ call'[d].alive = call[d].alive
        /\ call'[d].got = call[d].got /\ call'[d].why = call[d].why
    BY <1>2 DEF Like
  <2>2. call[d].ticket \in Nat /\ jar.refresh \in Nat /\ jar.refresh <= broker.issued
    BY CallFacts DEF TypeInv, SessionOK, CallRecord, TokensKnown
  <2>3. /\ jar'.refresh = jar.refresh /\ broker'.policy = broker.policy /\ (ghost.lost => ghost'.lost)
        /\ broker.live \subseteq broker'.live /\ (jar.refresh \in broker'.live <=> jar.refresh \in broker.live)
        /\ call[d].ticket <= broker.issued =>
             (call[d].ticket <= broker'.issued /\ (call[d].ticket \in broker'.live <=> call[d].ticket \in broker.live))
    BY <2>2, TokensApart DEF TypeInv, TokensStay
  <2> QED BY <2>1, <2>3 DEF RefreshTells
<1> QED BY <1>1, <1>2

\* Nothing but what a call that is not refreshing does has changed.
LEMMA QuietStep ==
    ASSUME TypeInv, SessionInv, TokensStay, SentForAReason',
           \A d \in Calls : Like(call'[d], call[d]) \/ call'[d] = call[d]
                              \/ (Quiet(call'[d]) /\ (Replaces(d) => ghost'.lost))
    PROVE  SessionInv'
<1>1. TokensKnown' /\ broker.live \subseteq broker'.live
  BY TokensApart DEF SessionInv, TypeInv
<1>2. ASSUME NEW d \in Calls
      PROVE  /\ call'[d].stage = "granted" => call[d].stage = "granted"
             /\ Replaces(d) => call'[d].stage = "granted" \/ ghost'.lost
  BY DEF Like, Quiet, Replaces
<1>3. OneGrant'
  BY <1>2 DEF SessionInv, OneGrant, TokensStay
<1>4. CookieKept'
  <2>1. CASE broker.policy = "keep"
    BY <1>1, <2>1 DEF SessionInv, TokensKnown, TokensStay, CookieKept
  <2>2. CASE broker.policy = "rotate"
    <3>1. ASSUME NEW d \in Calls, call[d].stage = "granted" PROVE Replaces(d)
      BY <2>2, <3>1 DEF SessionInv, RefreshTells, Replaces
    <3> QED BY <1>1, <1>2, <3>1 DEF SessionInv, CookieKept, Granted, TokensStay
  <2> QED BY <2>1, <2>2 DEF TypeInv, SessionOK
<1>5. ASSUME NEW d \in Calls PROVE RefreshTells(call[d])'
  BY TellsStays DEF SessionInv
<1> QED BY <1>1, <1>3, <1>4, <1>5 DEF SessionInv

LEMMA ElsewhereSession ==
    ASSUME TypeInv, SessionInv, Next, Elsewhere
    PROVE  SessionInv'
<1> USE DEF TypeInv, SessionOK, GhostOK, PageOK, PageTyped
<1>1. TokensStay /\ page'.shown = page.shown /\ ghost'.why = ghost.why /\ ghost'.lost = ghost.lost
  <2>1. CASE SignIn /\ NotSignedIn
    BY <2>1 DEF NotSignedIn, TokensStay
  <2>2. CASE StartAuth \/ Expire \/ Withdraw
    BY <2>2 DEF StartAuth, Expire, Withdraw, TokensStay
  <2>3. CASE NodeComesOrGoes \/ OpenOther
    BY <2>3 DEF NodeComesOrGoes, OpenOther, TokensStay
  <2> QED BY <2>1, <2>2, <2>3 DEF Elsewhere
<1>2. SentForAReason'
  BY <1>1 DEF SessionInv, SentForAReason, TokensStay
<1> QED BY <1>1, <1>2, QuietStep DEF Elsewhere

LEMMA ForgetSession ==
    ASSUME TypeInv, SessionInv, PageForgets
    PROVE  SessionInv'
<1>n. broker.issued \in Nat /\ broker.live \subseteq Nat /\ broker.issued + 1 \in Nat
  BY DEF TypeInv, SessionOK
<1> USE DEF TypeInv, SessionOK, GhostOK, PageOK, PageTyped
<1>0. \A d \in Calls : call'[d].stage = "idle"
  BY DEF PageForgets, Idle
<1>1. /\ OneGrant' /\ ~Granted'
      /\ \A d \in Calls : RefreshTells(call[d])'
  BY <1>0 DEF OneGrant, Granted, RefreshTells
<1>k. broker.policy = "keep" => ~\E c \in Calls : Replaces(c)
  BY DEF SessionInv, RefreshTells, Replaces
<1>r. broker.policy = "rotate" /\ Granted => \E c \in Calls : Replaces(c)
  BY DEF SessionInv, RefreshTells, Replaces, Granted
<1>2. CASE LoadPage
  <2>1. UNCHANGED <<jar, broker>> /\ (ghost'.lost <=> ghost.lost \/ \E c \in Calls : Replaces(c))
    BY <1>2 DEF LoadPage, Forgotten
  <2>2. SentForAReason'
    <3>1. \/ page'.shown = "studio" /\ ghost'.why = "none"
          \/ ghost'.why \in {"expired", "failed", "withdrawn"}
      BY <1>2 DEF LoadPage, NewPage, Forgotten
    <3> QED BY <1>k, <2>1, <3>1 DEF SentForAReason, SessionInv
  <2>3. CookieKept'
    <3>1. CASE broker.policy = "keep"
      BY <2>1, <3>1 DEF SessionInv, TokensKnown, CookieKept
    <3>2. CASE broker.policy = "rotate"
      BY <1>r, <2>1, <3>2 DEF SessionInv, CookieKept
    <3> QED BY <3>1, <3>2
  <2> QED BY <1>1, <2>1, <2>2, <2>3 DEF SessionInv, TokensKnown
<1>3. CASE Logout
  <2>1. UNCHANGED broker /\ jar'.refresh = 0
    BY <1>3 DEF Logout
  <2>2. SentForAReason'
    <3>1. ghost'.why = "signed out" /\ (ghost'.lost <=> ghost.lost \/ \E c \in Calls : Replaces(c))
      BY <1>3 DEF Logout, Forgotten
    <3> QED BY <1>k, <2>1, <3>1 DEF SentForAReason, SessionInv
  <2>3. TokensKnown'
    <3> HIDE DEF TypeInv, SessionOK, GhostOK, PageOK, PageTyped
    <3> QED BY <1>n, <2>1 DEF SessionInv, TokensKnown
  <2>4. CookieKept'
    BY <2>1 DEF CookieKept
  <2> QED BY <1>1, <2>2, <2>3, <2>4 DEF SessionInv
<1>4. CASE SignedIn
  <2> DEFINE new == broker.issued + 1
  <2>1. /\ broker' = [broker EXCEPT !.flows = broker'.flows, !.issued = new, !.live = @ \cup {new}]
        /\ jar' = [SessionCookies({new}, 0) EXCEPT !.flow = 0]
        /\ page' = [page EXCEPT !.shown = "studio", !.dialog = {}]
    BY <1>4 DEF SignedIn, NewPage
  <2>2. SessionCookies({new}, 0) = [jar EXCEPT !.access = "good", !.refresh = new]
    BY DEF SessionCookies
  <2>3. jar'.refresh = new
    BY <2>1, <2>2
  <2>4. broker'.issued = new /\ broker'.live = broker.live \cup {new} /\ broker'.policy = broker.policy
    BY <2>1
  <2>5. page'.shown = "studio" /\ ghost'.why = "none" /\ ~ghost'.lost
    BY <1>4, <2>1 DEF SignedIn, Forgotten
  <2>6. \A n \in broker.live : 0 < n /\ n <= broker.issued
    BY DEF SessionInv, TokensKnown
  <2>7. TokensKnown'
    <3> HIDE DEF TypeInv, SessionOK, GhostOK, PageOK, PageTyped
    <3>1. \A n \in broker'.live : 0 < n /\ n <= broker'.issued
      <4> SUFFICES ASSUME NEW n \in broker'.live PROVE 0 < n /\ n <= new
        BY <2>4
      <4>1. n = new \/ (n \in broker.live /\ n \in Nat)
        BY <1>n, <2>4
      <4> QED BY <1>n, <2>6, <4>1
    <3>2. jar'.refresh <= broker'.issued /\ jar'.refresh \in broker'.live
      BY <1>n, <2>3, <2>4
    <3> QED BY <3>1, <3>2 DEF TokensKnown
  <2>8. CookieKept' /\ SentForAReason'
    BY <2>3, <2>4, <2>5 DEF CookieKept, SentForAReason
  <2> QED BY <1>1, <2>7, <2>8 DEF SessionInv
<1> QED BY <1>2, <1>3, <1>4 DEF PageForgets

\* A denied call knows why, and nothing that was lost or raced for where tokens are kept.
LEMMA DenialTold ==
    ASSUME TypeInv, SessionInv, NEW c \in Calls, RefreshAuth(c), Denied(c),
           broker'.policy = broker.policy
    PROVE  call'[c].stage = "denied" /\ RefreshTells(call[c])'
<1> DEFINE t == call[c].ticket
<1>1. call'[c].stage = "denied" /\ call'[c].why = Reason(c)
  BY CallFacts DEF Denied, TypeInv, CallsOK, CallRecord
<1>2. RefreshTells(call[c]) /\ call[c].stage = "refresh"
  BY DEF SessionInv, RefreshAuth
<1>3. Reason(c) # "none" /\ (broker.policy = "keep" => Reason(c) \notin {"raced", "lost"})
  <2>1. CASE t = 0
    BY <2>1 DEF Reason
  <2>2. CASE t # 0 /\ t \in broker.live
    BY <2>2 DEF Reason
  <2>3. CASE t # 0 /\ t \notin broker.live
    BY <1>2, <2>3 DEF Reason, RefreshTells
  <2> QED BY <2>1, <2>2, <2>3
<1> QED BY <1>1, <1>3 DEF RefreshTells

\* A token that is replaced was the browser's, no other call was granted one, and no
\* call that holds it is told that it is good.
LEMMA Rotated ==
    ASSUME TypeInv, SessionInv, NEW c \in Calls, call[c].stage = "refresh",
           Exchange(call[c].ticket), broker.policy = "rotate", UNCHANGED jar,
           NEW d \in Calls, d # c, call'[d] = call[d], ghost.lost => ghost'.lost
    PROVE  call[d].stage # "granted" /\ RefreshTells(call[d])'
<1> DEFINE t == call[c].ticket
           new == broker.issued + 1
<1>1. /\ broker.issued \in Nat /\ broker.live \subseteq Nat /\ call[d].ticket \in Nat
      /\ broker'.issued = new /\ broker'.live = (broker.live \ {t}) \cup {new} /\ broker'.policy = "rotate"
      /\ t \in broker.live
  BY CallFacts DEF TypeInv, SessionOK, CallRecord, Exchange, Successor
<1>2. jar.refresh = t /\ RefreshTells(call[c]) /\ RefreshTells(call[d])
  BY <1>1 DEF SessionInv, RefreshTells
<1>3. call[d].stage # "granted"
  BY <1>1, <1>2 DEF RefreshTells
<1>4. CASE call[d].stage = "refresh"
  <2>1. call[d].ticket <= broker.issued
    BY <1>2, <1>4 DEF RefreshTells
  <2>2. call[d].ticket <= new /\ call[d].ticket # new
    BY <1>1, <2>1
  <2>3. call[d].ticket \notin broker'.live
    BY <1>1, <1>2, <1>4, <2>2 DEF RefreshTells
  <2> QED BY <1>1, <1>2, <1>3, <1>4, <2>2, <2>3 DEF RefreshTells
<1>5. CASE call[d].stage # "refresh"
  BY <1>1, <1>2, <1>3, <1>5 DEF RefreshTells
<1> QED BY <1>3, <1>4, <1>5

LEMMA RotatedTokens ==
    ASSUME TypeInv, SessionInv, NEW c \in Calls, call[c].stage = "refresh",
           Exchange(call[c].ticket), broker.policy = "rotate", UNCHANGED jar
    PROVE  TokensKnown' /\ jar'.refresh \notin broker'.live /\ Successor \subseteq broker'.live
<1> DEFINE t == call[c].ticket
           new == broker.issued + 1
<1>1. /\ broker.issued \in Nat /\ broker.live \subseteq Nat /\ Successor = {new}
      /\ broker'.issued = new /\ broker'.live = (broker.live \ {t}) \cup {new} /\ broker'.policy = "rotate"
      /\ t \in broker.live
  BY DEF TypeInv, SessionOK, Exchange, Successor
<1>2. jar'.refresh = t
  BY <1>1 DEF SessionInv, RefreshTells
<1>3. \A n \in broker.live : n \in Nat /\ 0 < n /\ n <= broker.issued
  BY <1>1 DEF SessionInv, TokensKnown
<1>4. t # new /\ t \notin broker'.live /\ t <= new
  BY <1>1, <1>3
<1>5. ASSUME NEW n \in broker'.live PROVE 0 < n /\ n <= new
  BY <1>1, <1>3, <1>5
<1> QED BY <1>1, <1>2, <1>4, <1>5 DEF TokensKnown

LEMMA RefreshAuthSession ==
    ASSUME TypeInv, SessionInv, NEW c \in Calls, RefreshAuth(c)
    PROVE  SessionInv'
<1> DEFINE t == call[c].ticket
<1>1. /\ call \in [Calls -> CallRecord] /\ call[c] \in CallRecord
      /\ broker.policy \in {"keep", "rotate"} /\ call[c].stage = "refresh" /\ UNCHANGED <<jar, page>>
  BY CallFacts DEF TypeInv, CallsOK, SessionOK, RefreshAuth
<1>2. ASSUME NEW d \in Calls, d # c PROVE call'[d] = call[d]
  BY <1>1, <1>2 DEF RefreshAuth, RefreshGranted, RefreshRefused, RefreshDropped, Denied
<1>3. ghost'.why = ghost.why /\ (ghost.lost => ghost'.lost)
  BY DEF RefreshAuth, RefreshGranted, RefreshRefused, RefreshDropped, TypeInv, GhostOK
<1>4. CASE UNCHANGED broker /\ Denied(c) /\ ghost'.lost = ghost.lost
  <2>1. call'[c].stage = "denied" /\ RefreshTells(call[c])'
    BY <1>4, DenialTold
  <2>2. ASSUME NEW d \in Calls, d # c PROVE RefreshTells(call[d])'
    BY <1>1, <1>2, <1>4, <2>2 DEF SessionInv, RefreshTells
  <2>3. \A d \in Calls : call'[d].stage = "granted" <=> call[d].stage = "granted"
    BY <1>1, <1>2, <2>1
  <2>4. SentForAReason'
    BY <1>1, <1>3, <1>4 DEF SessionInv, SentForAReason
  <2> QED BY <1>1, <1>3, <1>4, <2>1, <2>2, <2>3, <2>4 DEF SessionInv, TokensKnown, OneGrant, CookieKept, Granted
<1>5. CASE UNCHANGED <<broker, ghost>> /\ broker.policy = "keep" /\ t \in broker.live
           /\ call' = [call EXCEPT ![c].stage = "granted", ![c].got = {}]
  <2>1. call'[c].stage = "granted" /\ call'[c].ticket = t /\ call'[c].got = {}
    BY <1>1, <1>5 DEF CallRecord
  <2>2. RefreshTells(call[c])'
    BY <1>5, <2>1 DEF RefreshTells
  <2>3. ASSUME NEW d \in Calls, d # c PROVE RefreshTells(call[d])'
    BY <1>1, <1>2, <1>5, <2>3 DEF SessionInv, RefreshTells
  <2>4. CookieKept' /\ TokensKnown' /\ OneGrant' /\ SentForAReason'
    BY <1>1, <1>5, <2>1 DEF SessionInv, CookieKept, TokensKnown, OneGrant, Granted, SentForAReason
  <2> QED BY <2>2, <2>3, <2>4 DEF SessionInv
<1>6. ASSUME broker.policy = "rotate", Exchange(t)
      PROVE  SessionInv'
  <2>1. TokensKnown' /\ jar'.refresh \notin broker'.live /\ Successor \subseteq broker'.live /\ broker'.policy = "rotate"
    BY <1>1, <1>6, RotatedTokens DEF Exchange, TypeInv, SessionOK
  <2>2. ASSUME NEW d \in Calls, d # c PROVE call'[d].stage # "granted" /\ RefreshTells(call[d])'
    BY <1>1, <1>2, <1>3, <1>6, <2>2, Rotated
  <2>3. OneGrant' /\ SentForAReason'
    BY <1>1, <1>3, <2>1, <2>2 DEF OneGrant, SentForAReason, SessionInv
  <2>4. CASE RefreshGranted(c)
    <3>1. call'[c].stage = "granted" /\ call'[c].got = Successor
      BY <1>1, <2>4 DEF RefreshGranted, CallRecord
    <3>2. Successor = {broker.issued + 1}
      BY <1>6 DEF Successor
    <3>3. RefreshTells(call[c])'
      BY <2>1, <3>1, <3>2 DEF RefreshTells
    <3>4. CookieKept'
      BY <3>1 DEF CookieKept, Granted
    <3> QED BY <2>1, <2>2, <2>3, <3>3, <3>4 DEF SessionInv
  <2>5. CASE RefreshDropped(c)
    <3>1. ghost'.lost
      BY <1>6, <2>5 DEF RefreshDropped, Successor, TypeInv, GhostOK
    <3>2. RefreshTells(call[c])'
      BY <1>6, <2>1, <2>5, DenialTold DEF RefreshDropped
    <3> QED BY <2>1, <2>2, <2>3, <3>1, <3>2 DEF SessionInv, CookieKept
  <2>6. CASE RefreshRefused(c)
    BY <1>4, <2>6 DEF RefreshRefused
  <2> QED BY <2>4, <2>5, <2>6 DEF RefreshAuth
<1>7. ASSUME broker.policy = "keep"
      PROVE  SessionInv'
  <2>1. CASE RefreshGranted(c)
    BY <1>5, <1>7, <2>1 DEF RefreshGranted, Exchange, Successor
  <2>2. CASE RefreshRefused(c)
    BY <1>4, <2>2 DEF RefreshRefused
  <2>3. CASE RefreshDropped(c)
    BY <1>4, <1>7, <2>3 DEF RefreshDropped, Exchange, Successor, TypeInv, GhostOK
  <2> QED BY <2>1, <2>2, <2>3 DEF RefreshAuth
<1>8. CASE RefreshRefused(c)
  BY <1>4, <1>8 DEF RefreshRefused
<1> QED BY <1>1, <1>6, <1>7, <1>8 DEF RefreshAuth, RefreshGranted, RefreshDropped

LEMMA ServerSession ==
    ASSUME TypeInv, SessionInv, NEW c \in Calls, Acts(c), Server(c)
    PROVE  SessionInv'
<1>1. CASE RefreshAuth(c)
  BY <1>1, RefreshAuthSession
<1>2. CASE ~RefreshAuth(c)
  <2>1. /\ UNCHANGED <<jar, broker, page>> /\ ghost'.lost = ghost.lost /\ ghost'.why = ghost.why
        /\ call[c].stage \in {"sent", "saving"} /\ call'[c].stage \in {"refused", "answered", "saving"}
    <3>0. ASSUME NEW got, Reply(c, got) PROVE call'[c].stage = "answered"
      BY <3>0, CallFacts DEF Reply, TypeInv, CallsOK, CallRecord
    <3>a. ASSUME NEW stage, call' = [call EXCEPT ![c].stage = stage] PROVE call'[c].stage = stage
      BY <3>a, CallFacts DEF TypeInv, CallsOK, CallRecord
    <3> USE <3>0, <3>a DEF TypeInv, GhostOK, Serving, AtAccount
    <3>1. CASE WorkerRefuses(c)
      BY <3>1 DEF WorkerRefuses, relay
    <3>2. CASE SaveProject(c)
      BY <3>2 DEF SaveProject, relay
    <3>3. CASE SaveDeletesProgram(c)
      BY <3>3, CloudAssumption DEF SaveDeletesProgram, GateOK, relay
    <3>4. CASE ObjectResets(c)
      BY <3>4, CloudAssumption DEF ObjectResets, GateOK, relay
    <3>5. CASE PublishApp(c)
      BY <3>5 DEF PublishApp, relay
    <3>6. CASE ListAppVersions(c)
      BY <3>6 DEF ListAppVersions, relay
    <3>7. CASE RevokeAppVersion(c)
      BY <3>7 DEF RevokeAppVersion, relay
    <3>8. CASE SharedApp(c)
      BY <3>8 DEF SharedApp, relay
    <3>9. CASE LoadProject(c)
      BY <3>9 DEF LoadProject, relay
    <3>10. CASE DeleteProject(c)
      BY <3>10 DEF DeleteProject, relay
    <3>11. CASE ReadFleet(c)
      BY <3>11 DEF ReadFleet, relay
    <3>12. CASE CreateJob(c)
      BY <3>12 DEF CreateJob, relay
    <3>13. CASE UploadAsset(c)
      BY <3>13 DEF UploadAsset, relay
    <3>14. CASE CommitJob(c)
      BY <3>14 DEF CommitJob, relay
    <3> QED BY <1>2, <3>1, <3>2, <3>3, <3>4, <3>5, <3>6, <3>7, <3>8, <3>9, <3>10, <3>11, <3>12, <3>13, <3>14 DEF Server
  <2> QED BY <2>1, QuietStep DEF Acts, Quiet, Replaces, TokensStay, SessionInv, SentForAReason
<1> QED BY <1>1, <1>2

LEMMA SessionRefreshedSession ==
    ASSUME TypeInv, SessionInv, NEW c \in Calls, SessionRefreshed(c)
    PROVE  SessionInv'
<1> DEFINE t == call[c].ticket
<1>1. /\ call \in [Calls -> CallRecord] /\ call[c] \in CallRecord /\ t \in Nat
      /\ broker.issued \in Nat /\ broker.live \subseteq Nat /\ broker.policy \in {"keep", "rotate"}
  BY CallFacts DEF TypeInv, CallsOK, SessionOK, CallRecord
<1>2. /\ call[c].stage = "granted" /\ UNCHANGED <<broker, page, ghost>>
      /\ jar' = SessionCookies(call[c].got, t)
      /\ call' = [call EXCEPT ![c].stage = "sent", ![c].access = "good", ![c].again = TRUE, ![c].got = {}]
  BY DEF SessionRefreshed
<1>3. RefreshTells(call[c]) /\ TokensKnown
  BY DEF SessionInv
<1>4. call'[c].stage = "sent" /\ \A d \in Calls \ {c} : call'[d] = call[d]
  BY <1>1, <1>2 DEF CallRecord
<1>5. jar'.refresh \in broker.live
  <2>1. CASE broker.policy = "keep"
    BY <1>2, <1>3, <2>1 DEF RefreshTells, SessionCookies, TypeInv, SessionOK
  <2>2. CASE broker.policy = "rotate"
    <3>1. PICK n \in broker.live : call[c].got = {n}
      BY <1>2, <1>3, <2>2 DEF RefreshTells
    <3>2. SessionCookies({n}, t) = [jar EXCEPT !.access = "good", !.refresh = n]
      BY DEF SessionCookies
    <3> QED BY <1>2, <3>1, <3>2 DEF TypeInv, SessionOK
  <2> QED BY <1>1, <2>1, <2>2
<1>6. TokensKnown' /\ CookieKept' /\ SentForAReason' /\ OneGrant'
  BY <1>2, <1>3, <1>4, <1>5 DEF TokensKnown, CookieKept, SentForAReason, OneGrant, SessionInv
<1>7. ASSUME NEW d \in Calls PROVE RefreshTells(call[d])'
  <2>1. CASE d = c
    BY <1>4, <2>1 DEF RefreshTells
  <2>2. CASE d # c
    <3>1. call'[d] = call[d] /\ RefreshTells(call[d])
      BY <1>4, <2>2 DEF SessionInv
    <3>2. CASE broker.policy = "keep"
      BY <1>2, <3>1, <3>2 DEF RefreshTells
    <3>3. CASE broker.policy = "rotate"
      <4>1. call[d].stage # "granted"
        BY <1>2, <2>2, <3>3 DEF SessionInv, OneGrant
      <4>2. jar.refresh \notin broker.live
        BY <1>2, <1>3, <3>3 DEF RefreshTells
      <4> QED BY <1>2, <3>1, <3>3, <4>1, <4>2 DEF RefreshTells
    <3> QED BY <1>1, <3>2, <3>3
  <2> QED BY <2>1, <2>2
<1> QED BY <1>6, <1>7 DEF SessionInv

LEMMA RequestRefusedSession ==
    ASSUME TypeInv, SessionInv, NEW c \in Calls, RequestRefused(c), Acts(c)
    PROVE  SessionInv'
<1>1. /\ call \in [Calls -> CallRecord] /\ call[c] \in CallRecord
      /\ jar.refresh \in Nat /\ broker.issued \in Nat
  BY CallFacts DEF TypeInv, CallsOK, SessionOK, CallRecord
<1>2. /\ UNCHANGED <<jar, broker, page>> /\ ghost'.lost = ghost.lost /\ ghost'.why = ghost.why
      /\ call[c].stage = "refused"
  BY DEF RequestRefused, ListFailed, TypeInv, GhostOK
<1>3. SentForAReason'
  BY <1>2 DEF SessionInv, SentForAReason
<1>4. CASE Over(c)
  <2>1. call'[c].stage = "idle"
    BY <1>1, <1>4 DEF Over, Idle
  <2> QED BY <1>2, <1>3, <2>1, QuietStep DEF Acts, Quiet, TokensStay, Replaces
<1>5. CASE call' = [call EXCEPT ![c].stage = "refresh", ![c].ticket = jar.refresh,
                                ![c].alive = jar.refresh \in broker.live \/ Granted]
  <2> DEFINE alive == jar.refresh \in broker.live \/ Granted
  <2>1. call'[c].stage = "refresh" /\ call'[c].ticket = jar.refresh /\ call'[c].alive = alive
    BY <1>1, <1>5 DEF CallRecord
  <2>2. jar.refresh = 0 \/ alive \/ ghost.lost
    BY DEF SessionInv, CookieKept
  <2> HIDE DEF alive
  <2>3. RefreshTells(call[c])'
    BY <1>2, <2>1, <2>2 DEF RefreshTells, SessionInv, TokensKnown
  <2>4. ASSUME NEW d \in Calls, d # c PROVE RefreshTells(call[d])'
    BY <1>2, <2>4, TellsStays DEF Acts, TokensStay, SessionInv
  <2>5. \A d \in Calls : call'[d].stage = "granted" <=> call[d].stage = "granted"
    BY <1>2, <2>1 DEF Acts
  <2> QED BY <1>2, <1>3, <2>3, <2>4, <2>5 DEF SessionInv, TokensKnown, OneGrant, CookieKept, Granted
<1> QED BY <1>4, <1>5 DEF RequestRefused, RefusedUploadFails

LEMMA ClientSession ==
    ASSUME TypeInv, SessionInv, NEW c \in Calls, Acts(c), Client(c)
    PROVE  SessionInv'
<1>0. call \in [Calls -> CallRecord] /\ call[c] \in CallRecord
  BY CallFacts DEF TypeInv, CallsOK
<1>1. CASE Ask(c)
  <2>1. UNCHANGED <<jar, broker, page>>
    BY <1>1 DEF Ask
  <2>2. ghost'.lost = ghost.lost /\ ghost'.why = ghost.why /\ call'[c].stage = "sent"
    <3>1. PICK op \in AllOps, t \in Tokens \cup {None}, u \in CallRecord, step \in StepNames : Asked(c, op, t, u, step)
      BY <1>1, AskSends
    <3>2. ghost'.lost = ghost.lost /\ ghost'.why = ghost.why
      BY <3>1 DEF Asked, TypeInv, GhostOK
    <3>3. call'[c] = Send(u, step)
      BY <1>0, <3>1 DEF Asked
    <3> QED BY <3>2, <3>3 DEF Send, CallRecord
  <2>3. call[c].stage = "idle"
    <3>1. call[c] = Idle
      BY <1>1, Zenon DEF Ask
    <3> QED BY <3>1 DEF Idle
  <2> QED BY <2>1, <2>2, <2>3, QuietStep DEF Acts, Quiet, Replaces, TokensStay, SessionInv, SentForAReason
<1>2. CASE RequestRefused(c)
  BY <1>2, RequestRefusedSession
<1>3. CASE SessionRefreshed(c)
  BY <1>3, SessionRefreshedSession
<1>4. CASE SessionLost(c)
  <2>1. call[c].why # "none" /\ (broker.policy = "keep" => call[c].why \notin {"raced", "lost"})
    BY <1>4 DEF SessionLost, SessionInv, RefreshTells
  <2>2. UNCHANGED <<jar, broker, call>> /\ ghost'.why = call[c].why /\ ghost'.lost = ghost.lost
    BY <1>4 DEF SessionLost, TypeInv, GhostOK
  <2>3. SentForAReason'
    BY <2>1, <2>2 DEF SessionInv, SentForAReason
  <2> QED BY <2>2, <2>3, QuietStep DEF TokensStay
<1>5. CASE AnswerArrives(c)
  <2>1. UNCHANGED <<jar, broker, ghost>> /\ page'.shown = page.shown /\ call[c].stage = "answered"
    BY <1>5 DEF AnswerArrives, TypeInv, PageOK, PageTyped
  <2>2. call'[c].stage \in {"idle", "sent"}
    <3>1. CASE Over(c)
      BY <1>0, <3>1 DEF Over, Idle
    <3>2. ASSUME NEW u, NEW step, call' = [call EXCEPT ![c] = Send([call[c] EXCEPT !.left = u, !.got = {}], step)]
          PROVE  call'[c].stage = "sent"
      BY <1>0, <3>2 DEF Send, CallRecord
    <3> QED BY <1>5, <3>1, <3>2, ContinueMoves, ZenonT(60) DEF AnswerArrives, TypeInv
  <2> QED BY <2>1, <2>2, QuietStep DEF Acts, Quiet, Replaces, TokensStay, SessionInv, SentForAReason
<1>6. CASE RequestFails(c)
  <2>1. /\ UNCHANGED <<jar, broker, page>> /\ ghost'.why = ghost.why
        /\ ghost'.lost = (ghost.lost \/ Replaces(c))
    BY <1>6 DEF RequestFails, TypeInv, GhostOK, Replaces
  <2>2. call'[c].stage = "idle"
    BY <1>0, <1>6 DEF RequestFails, Over, Idle
  <2>3. broker.policy = "keep" => ~Replaces(c)
    BY DEF SessionInv, RefreshTells, Replaces
  <2>4. SentForAReason'
    BY <2>1, <2>3 DEF SessionInv, SentForAReason
  <2> QED BY <2>1, <2>2, <2>4, QuietStep DEF Acts, Quiet, TokensStay
<1> QED BY <1>1, <1>2, <1>3, <1>4, <1>5, <1>6 DEF Client

LEMMA SessionStepKept == TypeInv /\ SessionInv /\ [Next]_vars => SessionInv'
<1> SUFFICES ASSUME TypeInv, SessionInv, [Next]_vars PROVE SessionInv'
  OBVIOUS
<1>1. CASE UNCHANGED vars
  BY <1>1, QuietStep DEF vars, TokensStay, SessionInv, SentForAReason
<1>2. CASE Next
  BY <1>2, Moves, ElsewhereSession, ForgetSession, ServerSession, ClientSession DEF Acts
<1> QED BY <1>1, <1>2

LEMMA SessionInit == Init => SessionInv
<1> SUFFICES ASSUME Init PROVE SessionInv
  OBVIOUS
<1>1. TokensKnown /\ CookieKept /\ SentForAReason
  BY DEF Init, TokensKnown, CookieKept, SentForAReason, NoGhost, EarlierPublication
<1>2. OneGrant /\ \A c \in Calls : RefreshTells(call[c])
  BY DEF Init, OneGrant, RefreshTells, Idle
<1> QED BY <1>1, <1>2 DEF SessionInv

-----------------------------------------------------------------------------
(* The share dialog. *)

Others(c) == \A d \in Calls \ {c} : call'[d] = call[d]

\* The only call of the dialog goes on.
LEMMA DialogGoesOn ==
    ASSUME DialogTold, NEW c \in Calls, Others(c), InDialog(call[c]), InDialog(call'[c]), Completes(call[c])'
    PROVE  DialogTold'
BY DEF DialogTold, Others

\* The only call of the dialog is over.
LEMMA DialogEnds ==
    ASSUME DialogTold, NEW c \in Calls, Others(c), InDialog(call[c]), ~InDialog(call'[c]),
           page'.dialog = Listed(page.path)'
    PROVE  DialogTold'
BY DEF DialogTold, Others

\* A call that is not of the dialog.
LEMMA DialogApart ==
    ASSUME DialogTold, NEW c \in Calls, Others(c), ~InDialog(call[c]), ~InDialog(call'[c]),
           page'.dialog = page.dialog, page'.path = page.path, index' = index
    PROVE  DialogTold'
<1>1. Listed(page.path)' = Listed(page.path)
  BY DEF Listed
<1>2. ASSUME NEW d \in Calls, InDialog(call'[d]) PROVE Completes(call[d])'
  <2>1. call'[d] = call[d] /\ Completes(call[d])
    BY <1>2 DEF Others, DialogTold
  <2> QED BY <1>1, <2>1 DEF Completes
<1> QED BY <1>1, <1>2 DEF DialogTold, Others

\* A request of the dialog that is not answered yet changes nothing of it.
LEMMA DialogWaits ==
    ASSUME DialogTold, NEW c \in Calls, Others(c), InDialog(call[c]), UNCHANGED page, index' = index,
           call[c].stage # "answered", call'[c].stage \notin {"idle", "answered"},
           call'[c].op = call[c].op, call'[c].path = call[c].path
    PROVE  DialogTold'
<1>1. Listed(page.path)' = Listed(page.path)
  BY DEF Listed
<1>2. Completes(call[c])
  BY DEF DialogTold
<1>3. Completes(call[c])'
  BY <1>1, <1>2 DEF Completes
<1>4. InDialog(call'[c])
  BY DEF InDialog
<1> QED BY <1>3, <1>4, DialogGoesOn

LEMMA ServerDialog ==
    ASSUME TypeInv, SharesStand, DialogTold, NEW c \in Calls, Others(c), Server(c)
    PROVE  DialogTold'
<1>0. call \in [Calls -> CallRecord] /\ call[c] \in CallRecord /\ CallOK(call[c])
  BY CallFacts DEF TypeInv, CallsOK
<1>1. page' = page
  BY DEF Server, WorkerRefuses, SaveProject, SaveDeletesProgram, ObjectResets, PublishApp, ListAppVersions,
         RevokeAppVersion, SharedApp, LoadProject, DeleteProject, ReadFleet, CreateJob, UploadAsset, CommitJob, RefreshAuth
<1>2. ASSUME NEW got, Reply(c, got)
      PROVE  /\ call'[c].op = call[c].op /\ call'[c].path = call[c].path /\ call'[c].step = call[c].step
             /\ call'[c].stage = "answered" /\ call'[c].got = got
  BY <1>0, <1>2 DEF Reply, CallRecord
<1>3. ASSUME NEW stage \in {"refused", "denied", "saving", "granted"},
             \/ call' = [call EXCEPT ![c].stage = stage]
             \/ \E got : call' = [call EXCEPT ![c].stage = stage, ![c].got = got]
             \/ \E why : call' = [call EXCEPT ![c].stage = stage, ![c].why = why]
      PROVE  call'[c].op = call[c].op /\ call'[c].path = call[c].path /\ call'[c].stage = stage
  BY <1>0, <1>3 DEF CallRecord
<1>4. ASSUME index' = index, call[c].stage \notin {"idle", "answered"}, NEW stage \in {"refused", "denied", "saving", "granted"},
             \/ call' = [call EXCEPT ![c].stage = stage]
             \/ \E got : call' = [call EXCEPT ![c].stage = stage, ![c].got = got]
             \/ \E why : call' = [call EXCEPT ![c].stage = stage, ![c].why = why]
      PROVE  DialogTold'
  <2>1. CASE InDialog(call[c])
    BY <1>1, <1>3, <1>4, <2>1, DialogWaits
  <2>2. CASE ~InDialog(call[c])
    BY <1>1, <1>3, <1>4, <2>2, DialogApart DEF InDialog
  <2> QED BY <2>1, <2>2
<1>5. ASSUME index' = index, NEW got, Reply(c, got), call[c].stage # "idle", call[c].step \notin Sharing
      PROVE  DialogTold'
  <2>1. CASE InDialog(call[c])
    <3>1. call[c].op = "publish" /\ call[c].step = "save"
      BY <1>0, <1>5, <2>1 DEF InDialog, CallOK, StepOf, Sharing, AllOps
    <3>2. Listed(page.path)' = Listed(page.path)
      BY <1>1, <1>5 DEF Listed
    <3>3. Completes(call[c])
      BY <2>1 DEF DialogTold
    <3>4. Completes(call[c])' /\ InDialog(call'[c])
      BY <1>1, <1>2, <1>5, <3>1, <3>2, <3>3 DEF Completes, InDialog, Sharing
    <3> QED BY <2>1, <3>4, DialogGoesOn
  <2>2. CASE ~InDialog(call[c])
    BY <1>1, <1>2, <1>5, <2>2, DialogApart DEF InDialog
  <2> QED BY <2>1, <2>2
<1>6. ASSUME call[c].stage = "sent", call[c].step \in Sharing
      PROVE  InDialog(call[c]) /\ call[c].op = call[c].step /\ call[c].path = page.path
             /\ (call[c].op # "list" => page.dialog = Listed(page.path))
  <2>1. InDialog(call[c]) /\ call[c].op = call[c].step
    BY <1>0, <1>6 DEF InDialog, CallOK, StepOf, Sharing, AllOps
  <2>2. Completes(call[c])
    BY <2>1 DEF DialogTold
  <2> QED BY <1>6, <2>1, <2>2 DEF Completes, Sharing
<1>7. CASE WorkerRefuses(c)
  BY <1>4, <1>7 DEF WorkerRefuses, account
<1>8. CASE SaveProject(c)
  BY <1>4, <1>5, <1>8 DEF SaveProject, AtAccount, Serving, Sharing
<1>9. CASE SaveDeletesProgram(c) \/ ObjectResets(c)
  <2>1. call[c].stage = "saving" /\ call[c].step = "save"
    BY <1>0, <1>9, CloudAssumption DEF SaveDeletesProgram, ObjectResets, TypeInv, GateOK, CallOK
  <2> QED BY <1>5, <1>9, <2>1 DEF SaveDeletesProgram, ObjectResets, Sharing
<1>10. CASE SharedApp(c) \/ LoadProject(c)
  BY <1>5, <1>10 DEF SharedApp, LoadProject, AtAccount, Serving, Sharing, account
<1>11. CASE DeleteProject(c)
  BY <1>5, <1>11 DEF DeleteProject, AtAccount, Serving, Sharing
<1>12. CASE ReadFleet(c) \/ UploadAsset(c) \/ CommitJob(c)
  BY <1>5, <1>12 DEF ReadFleet, UploadAsset, CommitJob, Serving, Sharing, account
<1>13. CASE CreateJob(c)
  BY <1>5, <1>13 DEF CreateJob, Serving, Sharing, account
<1>14. CASE RefreshAuth(c)
  <2>1. index' = index /\ call[c].stage = "refresh"
    BY <1>14 DEF RefreshAuth, account
  <2>2. \/ call' = [call EXCEPT ![c].stage = "denied", ![c].why = Reason(c)]
        \/ \E got : call' = [call EXCEPT ![c].stage = "granted", ![c].got = got]
    BY <1>14 DEF RefreshAuth, RefreshGranted, RefreshRefused, RefreshDropped, Denied
  <2> QED BY <1>4, <2>1, <2>2
<1>15. CASE ListAppVersions(c)
  <2>1. /\ call[c].stage = "sent" /\ call[c].step = "list" /\ index' = index
        /\ Reply(c, Listed(call[c].path))
    BY <1>15 DEF ListAppVersions, AtAccount, Serving, account
  <2>2. Listed(page.path)' = Listed(page.path)
    BY <1>1, <2>1 DEF Listed
  <2>3. InDialog(call[c]) /\ call[c].op = "list" /\ call[c].path = page.path
    BY <1>6, <2>1 DEF Sharing
  <2>4. Completes(call[c])' /\ InDialog(call'[c])
    BY <1>1, <1>2, <2>1, <2>2, <2>3 DEF Completes, InDialog
  <2> QED BY <2>3, <2>4, DialogGoesOn
<1>16. CASE PublishApp(c)
  <2>1. call[c].stage = "sent" /\ call[c].step = "publish"
    BY <1>16 DEF PublishApp, AtAccount, Serving
  <2>2. InDialog(call[c]) /\ call[c].op = "publish" /\ call[c].path = page.path /\ page.dialog = Listed(page.path)
    BY <1>6, <2>1 DEF Sharing
  <2>3. PICK got : Reply(c, got) /\ Listed(page.path)' = Listed(page.path) \cup got
    <3>1. CASE index' = index /\ Reply(c, {})
      <4>1. Listed(page.path)' = Listed(page.path) \cup {}
        BY <1>1, <3>1 DEF Listed
      <4> QED BY <3>1, <4>1
    <3>2. ASSUME NEW t \in Tokens, index' = index \cup {<<call[c].path, t>>}, Reply(c, {t})
          PROVE  \E got : Reply(c, got) /\ Listed(page.path)' = Listed(page.path) \cup got
      <4>1. Listed(page.path)' = Listed(page.path) \cup {t}
        BY <1>1, <2>2, <3>2 DEF Listed
      <4> QED BY <3>2, <4>1
    <3> QED BY <1>16, <3>1, <3>2 DEF PublishApp
  <2>4. Completes(call[c])' /\ InDialog(call'[c])
    BY <1>1, <1>2, <2>1, <2>2, <2>3 DEF Completes, InDialog, Sharing
  <2> QED BY <2>2, <2>4, DialogGoesOn
<1>17. CASE RevokeAppVersion(c)
  <2>1. call[c].stage = "sent" /\ call[c].step = "revoke" /\ call[c].token \in Tokens
    BY <1>17, CallFacts DEF RevokeAppVersion, AtAccount, Serving, TypeInv
  <2>2. InDialog(call[c]) /\ call[c].op = "revoke" /\ call[c].path = page.path /\ page.dialog = Listed(page.path)
    BY <1>6, <2>1 DEF Sharing
  <2>3. PICK got : Reply(c, got) /\ Listed(page.path)' = Listed(page.path) \ got
    <3>1. CASE index' = index /\ Reply(c, {})
      <4>1. Listed(page.path)' = Listed(page.path) \ {}
        BY <1>1, <3>1 DEF Listed
      <4> QED BY <3>1, <4>1
    <3>2. ASSUME NEW t \in Tokens, shares[t] # None, index' = index \ {<<shares[t].path, t>>}, Reply(c, {t})
          PROVE  \E got : Reply(c, got) /\ Listed(page.path)' = Listed(page.path) \ got
      <4>1. page.path \in Paths
        BY DEF TypeInv, PageOK, PageTyped
      <4>2. <<page.path, t>> \in index => shares[t].path = page.path
        BY <4>1 DEF SharesStand, VersionStands
      <4>3. Listed(page.path)' = Listed(page.path) \ {t}
        BY <1>1, <3>2, <4>2 DEF Listed
      <4> QED BY <3>2, <4>3
    <3> QED BY <1>17, <2>1, <3>1, <3>2 DEF RevokeAppVersion
  <2>4. Completes(call[c])' /\ InDialog(call'[c])
    BY <1>1, <1>2, <2>1, <2>2, <2>3 DEF Completes, InDialog, Sharing
  <2> QED BY <2>2, <2>4, DialogGoesOn
<1> QED BY <1>7, <1>8, <1>9, <1>10, <1>11, <1>12, <1>13, <1>14, <1>15, <1>16, <1>17 DEF Server

LEMMA FlyingIsInDialog == Flying(Sharing) = {c \in Calls : InDialog(call[c])}
BY DEF Flying, InDialog

LEMMA AskDialog ==
    ASSUME TypeInv, DialogInv, NEW c \in Calls, Others(c), Ask(c)
    PROVE  DialogInv'
<1> SUFFICES ASSUME ~ghost'.mixed PROVE DialogTold'
  BY DEF DialogInv
<1>0. call \in [Calls -> CallRecord] /\ call[c] \in CallRecord /\ ghost.mixed \in BOOLEAN
  BY CallFacts DEF TypeInv, CallsOK, GhostOK
<1>1. PICK op \in AllOps, t \in Tokens \cup {None}, u \in CallRecord, step \in StepNames : Asked(c, op, t, u, step)
  BY AskSends
<1>2. UNCHANGED <<page, index>>
  BY DEF Ask, account
<1>3. call'[c] = Send(u, step)
  BY <1>0, <1>1 DEF Asked
<1>4. /\ call'[c].op = op /\ call'[c].step = step /\ call'[c].stage = "sent" /\ call'[c].path = page.path
  <2>1. u.op = op /\ u.path = page.path /\ u \in CallRecord
    BY <1>1 DEF Asked
  <2> QED BY <1>3, <2>1 DEF Send, CallRecord
<1>5. ~InDialog(call[c])
  <2>1. call[c] = Idle
    BY Zenon DEF Ask
  <2> QED BY <2>1 DEF InDialog, Idle
<1>6. ghost'.mixed = IF op = "list" THEN Flying(Sharing) # {} ELSE ghost.mixed \/ (op \in Sharing /\ Flying(Sharing) # {})
  BY <1>1 DEF Asked, TypeInv, GhostOK
<1>7. CASE op \notin Sharing
  <2>1. ~ghost.mixed
    BY <1>6, <1>7 DEF Sharing
  <2>2. ~InDialog(call'[c])
    BY <1>4, <1>7 DEF InDialog
  <2> QED BY <1>2, <1>5, <2>1, <2>2, DialogApart DEF DialogInv
<1>8. CASE op \in Sharing
  <2>1. Flying(Sharing) = {}
    BY <1>6, <1>8
  <2>2. \A d \in Calls : ~InDialog(call[d])
    BY <2>1, FlyingIsInDialog
  <2>3. \A d \in Calls : InDialog(call'[d]) => d = c
    BY <2>2 DEF Others
  <2>4. InDialog(call'[c])
    BY <1>4, <1>8 DEF InDialog
  <2>5. Listed(page.path)' = Listed(page.path)
    BY <1>2 DEF Listed
  <2>6. op # "list" => page.dialog = Listed(page.path)
    BY <1>6, <2>2 DEF DialogInv, DialogTold
  <2>7. Completes(call[c])'
    BY <1>2, <1>4, <1>8, <2>5, <2>6 DEF Completes, Sharing
  <2> QED BY <2>3, <2>4, <2>7 DEF DialogTold
<1> QED BY <1>7, <1>8

LEMMA ClientDialog ==
    ASSUME TypeInv, DialogTold, NEW c \in Calls, Others(c), Client(c), ~Ask(c), ~ghost'.mixed
    PROVE  DialogTold'
<1>0. call \in [Calls -> CallRecord] /\ call[c] \in CallRecord /\ CallOK(call[c])
  BY CallFacts DEF TypeInv, CallsOK
<1>1. index' = index /\ page'.path = page.path
  <2> USE DEF account, TypeInv, PageOK, PageTyped
  <2>1. CASE RequestRefused(c) \/ SessionRefreshed(c) \/ RequestFails(c)
    BY <2>1 DEF RequestRefused, SessionRefreshed, RequestFails
  <2>2. CASE SessionLost(c)
    BY <2>2 DEF SessionLost
  <2>3. CASE AnswerArrives(c)
    <3>1. index' = index /\ page' = [page EXCEPT !.dialog = Dialog(c)]
      BY <2>3 DEF AnswerArrives
    <3> HIDE <2>3
    <3> QED BY <3>1
  <2> QED BY <2>1, <2>2, <2>3 DEF Client
<1>2. Listed(page.path)' = Listed(page.path)
  BY <1>1 DEF Listed
<1>3. ASSUME Over(c) PROVE ~InDialog(call'[c])
  BY <1>0, <1>3 DEF Over, InDialog, Idle
<1>4. CASE RequestRefused(c)
  <2>1. page' = page /\ call[c].stage = "refused"
    BY <1>4 DEF RequestRefused
  <2>2. CASE Over(c)
    <3>1. call[c].op # "list"
      <4>1. CASE call[c].step = "upload"
        BY <1>0, <2>1, <4>1 DEF CallOK, StepOf, AllOps
      <4>2. CASE ListFailed(c)
        BY <4>2 DEF ListFailed, TypeInv, GhostOK
      <4>3. ~(call' = [call EXCEPT ![c].stage = "refresh", ![c].ticket = jar.refresh,
                                   ![c].alive = jar.refresh \in broker.live \/ Granted])
        BY <1>0, <2>2 DEF Over, Idle, CallRecord
      <4> QED BY <1>4, <4>1, <4>2, <4>3 DEF RequestRefused
    <3>2. CASE InDialog(call[c])
      <4>1. page.dialog = Listed(page.path)
        BY <2>1, <3>1, <3>2 DEF DialogTold, Completes, InDialog
      <4> QED BY <1>2, <1>3, <2>1, <2>2, <3>2, <4>1, DialogEnds
    <3>3. CASE ~InDialog(call[c])
      BY <1>1, <1>3, <2>1, <2>2, <3>3, DialogApart
    <3> QED BY <3>2, <3>3
  <2>3. CASE call' = [call EXCEPT ![c].stage = "refresh", ![c].ticket = jar.refresh,
                                  ![c].alive = jar.refresh \in broker.live \/ Granted]
    <3>1. call'[c].op = call[c].op /\ call'[c].path = call[c].path /\ call'[c].stage = "refresh"
      BY <1>0, <2>3 DEF CallRecord
    <3>2. CASE InDialog(call[c])
      BY <1>1, <2>1, <3>1, <3>2, DialogWaits
    <3>3. CASE ~InDialog(call[c])
      BY <1>1, <2>1, <3>1, <3>3, DialogApart DEF InDialog
    <3> QED BY <3>2, <3>3
  <2> QED BY <1>4, <2>2, <2>3 DEF RequestRefused, RefusedUploadFails
<1>5. CASE SessionRefreshed(c)
  <2>1. page' = page /\ call[c].stage = "granted"
    BY <1>5 DEF SessionRefreshed
  <2>2. call'[c].op = call[c].op /\ call'[c].path = call[c].path /\ call'[c].stage = "sent"
    BY <1>0, <1>5 DEF SessionRefreshed, CallRecord
  <2>3. CASE InDialog(call[c])
    BY <1>1, <2>1, <2>2, <2>3, DialogWaits
  <2>4. CASE ~InDialog(call[c])
    BY <1>1, <2>1, <2>2, <2>4, DialogApart DEF InDialog
  <2> QED BY <2>3, <2>4
<1>6. CASE SessionLost(c)
  <2>1. call' = call /\ page'.dialog = page.dialog
    BY <1>6 DEF SessionLost, TypeInv, PageOK, PageTyped
  <2> QED BY <1>1, <1>2, <2>1 DEF DialogTold, Completes
<1>7. CASE AnswerArrives(c)
  <2>1. call[c].stage = "answered" /\ page'.dialog = Dialog(c) /\ Continue(c)
    BY <1>7 DEF AnswerArrives, TypeInv, PageOK, PageTyped
  <2>2. CASE ~InDialog(call[c])
    <3>1. call[c].op \notin Sharing /\ call[c].step \notin Sharing
      BY <1>0, <2>1, <2>2 DEF InDialog, CallOK, StepOf, Sharing, AllOps
    <3>2. page'.dialog = page.dialog
      BY <2>1, <3>1 DEF Dialog, Sharing
    <3>3. ~InDialog(call'[c])
      <4>1. ASSUME NEW left, NEW step, call' = [call EXCEPT ![c] = Send([call[c] EXCEPT !.left = left, !.got = {}], step)]
            PROVE  call'[c].op = call[c].op
        BY <1>0, <4>1 DEF Send, CallRecord
      <4> QED BY <1>3, <2>1, <3>1, <4>1, ContinueMoves DEF TypeInv, InDialog
    <3> QED BY <1>1, <2>2, <3>2, <3>3, DialogApart
  <2>3. CASE InDialog(call[c])
    <3>1. Completes(call[c])
      BY <2>3 DEF DialogTold
    <3>2. \/ (call[c].op = "list" /\ call[c].step = "list")
          \/ (call[c].op = "revoke" /\ call[c].step = "revoke")
          \/ (call[c].op = "publish" /\ call[c].step \in {"save", "publish"})
      BY <1>0, <2>3 DEF InDialog, CallOK, StepOf, Sharing, AllOps
    <3>3. page'.dialog = Listed(page.path)
      BY <2>1, <3>1, <3>2 DEF Completes, Dialog
    <3>4. CASE Over(c)
      BY <1>2, <1>3, <2>3, <3>3, <3>4, DialogEnds
    <3>5. CASE ~Over(c)
      <4>1. PICK left \in SUBSET Digests, step \in StepNames :
              /\ call' = [call EXCEPT ![c] = Send([call[c] EXCEPT !.left = left, !.got = {}], step)]
              /\ \/ step = "publish" /\ call[c].op = "publish"
                 \/ call[c].step \in {"fleet", "create", "upload"}
        BY <2>1, <3>5, ContinueMoves DEF TypeInv
      <4>2. call[c].op = "publish"
        BY <3>2, <4>1
      <4>3. call'[c].op = "publish" /\ call'[c].path = call[c].path /\ call'[c].stage = "sent"
        BY <1>0, <4>1, <4>2 DEF Send, CallRecord
      <4>4. Completes(call[c])' /\ InDialog(call'[c])
        BY <1>1, <1>2, <3>1, <3>3, <4>3 DEF Completes, InDialog, Sharing
      <4> QED BY <2>3, <4>4, DialogGoesOn
    <3> QED BY <3>4, <3>5
  <2> QED BY <2>2, <2>3
<1>8. CASE RequestFails(c)
  <2>1. page' = page /\ Over(c) /\ call[c].op \notin Sharing
    BY <1>8 DEF RequestFails, TypeInv, GhostOK
  <2> QED BY <1>1, <1>3, <2>1, DialogApart DEF InDialog
<1> QED BY <1>4, <1>5, <1>6, <1>7, <1>8 DEF Client

\* Only a list that is asked for alone makes the dialog's story true again.
LEMMA MixedStays ==
    ASSUME TypeInv, NEW c \in Calls, Server(c) \/ Client(c), ~Ask(c), ghost.mixed
    PROVE  ghost'.mixed
<1> USE DEF TypeInv, GhostOK
<1>1. CASE Server(c) /\ UNCHANGED ghost
  BY <1>1
<1>2. CASE ObjectResets(c) \/ PublishApp(c) \/ RevokeAppVersion(c)
  BY <1>2 DEF ObjectResets, PublishApp, RevokeAppVersion
<1>3. CASE RequestRefused(c) \/ SessionLost(c) \/ RequestFails(c)
  BY <1>3 DEF RequestRefused, ListFailed, SessionLost, RequestFails
<1>4. CASE SessionRefreshed(c) \/ AnswerArrives(c)
  BY <1>4 DEF SessionRefreshed, AnswerArrives
<1>5. CASE RefreshAuth(c)
  BY <1>5 DEF RefreshAuth, RefreshGranted, RefreshRefused, RefreshDropped
<1>6. ObjectResets(c) \/ PublishApp(c) \/ RevokeAppVersion(c) \/ RefreshAuth(c) \/ UNCHANGED ghost \/ Client(c)
  BY DEF Server, WorkerRefuses, SaveProject, SaveDeletesProgram, ListAppVersions, SharedApp, LoadProject, DeleteProject,
         ReadFleet, CreateJob, UploadAsset, CommitJob
<1> QED BY <1>1, <1>2, <1>3, <1>4, <1>5, <1>6 DEF Client

LEMMA DialogStep == TypeInv /\ SharesStand /\ DialogInv /\ [Next]_vars => DialogInv'
<1> SUFFICES ASSUME TypeInv, SharesStand, DialogInv, [Next]_vars PROVE DialogInv'
  OBVIOUS
<1>1. CASE UNCHANGED vars
  BY <1>1 DEF vars, account, DialogInv, DialogTold, Completes, InDialog, Listed
<1>2. CASE Next /\ Elsewhere
  <2>1. CASE OpenOther
    BY <2>1 DEF OpenOther, TypeInv, GhostOK, DialogInv
  <2>2. CASE ~OpenOther
    <3>1. UNCHANGED <<page, index, ghost>>
      BY <1>2, <2>2 DEF Elsewhere, NotSignedIn, SignIn, FinishAuth, StartAuth, Expire, Withdraw, NodeComesOrGoes, account
    <3>2. Listed(page.path)' = Listed(page.path)
      BY <3>1 DEF Listed
    <3>3. ASSUME DialogTold PROVE DialogTold'
      <4>1. \A d \in Calls : Like(call'[d], call[d])
        BY <1>2 DEF Elsewhere
      <4>2. \A d \in Calls : InDialog(call'[d]) <=> InDialog(call[d])
        BY <4>1 DEF Like, InDialog
      <4>3. ASSUME NEW d \in Calls, Completes(call[d]) PROVE Completes(call[d])'
        BY <3>1, <3>2, <4>1, <4>3 DEF Like, Completes
      <4> QED BY <3>1, <3>2, <3>3, <4>2, <4>3 DEF DialogTold
    <3> QED BY <3>1, <3>3 DEF DialogInv
  <2> QED BY <2>1, <2>2
<1>3. CASE PageForgets
  <2>1. ghost'.mixed
    BY <1>3 DEF PageForgets, SignedIn, LoadPage, Logout, Forgotten, TypeInv, GhostOK
  <2> QED BY <2>1 DEF DialogInv
<1>4. ASSUME Next, NEW c \in Calls, Acts(c) PROVE DialogInv'
  <2>1. Others(c)
    BY <1>4 DEF Acts, Others
  <2>2. CASE Ask(c)
    BY <2>1, <2>2, AskDialog
  <2>3. CASE ~Ask(c) /\ ~ghost'.mixed
    <3>1. ~ghost.mixed
      BY <1>4, <2>3, MixedStays DEF Acts
    <3> QED BY <1>4, <2>1, <2>3, <3>1, ServerDialog, ClientDialog DEF Acts, DialogInv
  <2> QED BY <2>2, <2>3 DEF DialogInv
<1> QED BY <1>1, <1>2, <1>3, <1>4, Moves

-----------------------------------------------------------------------------
(* The theorems. *)

CloudInv == TypeInv /\ RunsWhole /\ DocsWhole /\ SharesStand /\ SessionInv /\ DialogInv

LEMMA DialogInit == Init => DialogInv
<1> SUFFICES ASSUME Init, ~ghost.mixed PROVE DialogTold
  BY DEF DialogInv
<1>1. FALSE
  BY DEF Init, NoGhost, EarlierPublication
<1> QED BY <1>1

LEMMA CloudInvHolds == Spec => []CloudInv
<1>1. Init => CloudInv
  BY TypeInit, RunsInit, DocsInit, SharesInit, SessionInit, DialogInit DEF CloudInv
<1>2. CloudInv /\ [Next]_vars => CloudInv'
  BY TypeStep, RunsStep, DocsStep, SharesStep, SessionStepKept, DialogStep DEF CloudInv
<1> QED BY <1>1, <1>2, PTL DEF Spec

\* A run is committed with every asset it declares and is created once, whatever
\* requests are refused, repeated or lost (cloud-runtime.ts, submitRun).
THEOREM RunsCommittedWhole == Spec => []CommittedRunsAreWhole
<1>1. CloudInv => CommittedRunsAreWhole
  BY DEF CloudInv, RunsWhole, RunWhole, CommittedRunsAreWhole
<1> QED BY <1>1, CloudInvHolds, PTL

\* A version holds one save for ever and is listed as long as it stands; what is
\* stored under a path is of one save (account.ts: publishApp, revokeAppVersion,
\* saveProject).
THEOREM VersionsStandForever == Spec => []VersionsStand
<1>1. CloudInv => VersionsStand
  BY DEF CloudInv, DocsWhole, DocWhole, SharesStand, VersionStands, VersionsStand
<1> QED BY <1>1, CloudInvHolds, PTL

\* The refresh cookie is good, or its successor is on its way, unless that was lost with
\* an answer or by a check that failed after the exchange; nobody is sent to the sign-in
\* without a reason, and with a broker that keeps its tokens never for a lost or raced
\* one (auth.ts: refreshAuth, cloud-runtime.ts: request).
THEOREM SessionKept == Spec => []SessionIsKept
<1>1. CloudInv => SessionIsKept
  BY DEF CloudInv, SessionInv, CookieKept, SentForAReason, SessionIsKept
<1> QED BY <1>1, CloudInvHolds, PTL

\* With nothing of the dialog on its way it shows the versions of the open project
\* (App.tsx: the share dialog).
THEOREM DialogTrue == Spec => []DialogShowsVersions
<1>1. CloudInv => DialogShowsVersions
  <2> SUFFICES ASSUME CloudInv, ~ghost.mixed, Flying(Sharing) = {} PROVE page.dialog = Listed(page.path)
    BY DEF DialogShowsVersions
  <2>1. \A c \in Calls : ~InDialog(call[c])
    BY FlyingIsInDialog
  <2> QED BY <2>1 DEF CloudInv, DialogInv, DialogTold
<1> QED BY <1>1, CloudInvHolds, PTL
=============================================================================
