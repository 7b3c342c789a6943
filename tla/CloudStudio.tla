----------------------------- MODULE CloudStudio -----------------------------
(***************************************************************************)
(* Hosted Graph Studio: the browser's runtime (cloud-runtime.ts) with its  *)
(* cookies, the worker that admits and routes each request (cloud/worker.ts,*)
(* cloud/auth.ts), and the account's durable object (cloud/account.ts).    *)
(* The broker that issues tokens and the relay that keeps runs are         *)
(* external.                                                               *)
(*                                                                         *)
(* A call of the runtime is a chain of requests: a save and a publication, *)
(* or the creation of a run, its uploads and its commit.  A request is     *)
(* sent with the cookies of that moment, served or refused by the worker   *)
(* and answered; a refused one refreshes the session once and is repeated. *)
(***************************************************************************)
EXTENDS Naturals, FiniteSets

CONSTANTS
    Calls,      \* calls of the runtime that can be in flight
    Paths,      \* projects
    Tokens,     \* share tokens
    Digests,    \* assets that each run declares
    Ops,        \* calls offered
    MaxAsks,    \* bound: calls made
    MaxTickets, \* bound: refresh tokens issued
    MaxFlows,   \* bound: sign-ins started
    MaxEvents,  \* bound: what befalls the calls from outside (see Event)
    None

AllOps == {"save", "load", "publish", "list", "revoke", "shared", "delete", "run"}

\* A version: the documents of a project as they were saved.
Snapshot == [path : Paths, graph : Nat, inputs : Nat, sidecar : Nat]

ASSUME CloudAssumption ==
    /\ MaxAsks \in Nat /\ MaxTickets \in Nat /\ MaxFlows \in Nat /\ MaxEvents \in Nat
    /\ Ops \subseteq AllOps
    /\ None \notin Calls \cup Paths \cup Tokens \cup Snapshot

VARIABLES
    docs,    \* account: the revision of each document of a project, 0 for none
    shares,  \* account: the snapshot of each share token
    index,   \* account: the versions listed for each project
    gate,    \* account: the call whose save is between its two writes
    jar,     \* browser: the access and refresh cookies, and that of the sign-in
    broker,  \* external: refresh tokens that are good, how they rotate, the grant
    jobs,    \* external relay: the job of each call and the assets it has
    fleet,   \* external relay: a node with a catalogue is connected; browser: it is cached
    page,    \* browser: what is shown, the open project, the share dialog
    call,    \* browser: the calls in flight
    bounds,  \* bounds: calls, sign-ins, events
    ghost    \* ghosts: published, revoked, torn, mixed, lost, why

account == <<docs, shares, index, gate>>
relay == <<jobs, fleet>>
vars == <<account, jar, broker, relay, page, call, bounds, ghost>>

NoDoc == [graph |-> 0, inputs |-> 0, sidecar |-> 0, program |-> 0]
NewDocs == [p \in Paths |-> NoDoc]
NoShares == [t \in Tokens |-> None]
NoGhost == [published |-> [t \in Tokens |-> 0], revoked |-> {}, torn |-> {}, mixed |-> TRUE, lost |-> FALSE, why |-> "none"]
Idle == [op |-> "none", step |-> "none", stage |-> "idle", path |-> None, token |-> None, program |-> FALSE, rev |-> 0,
         access |-> "none", ticket |-> 0, alive |-> FALSE, again |-> FALSE, why |-> "none",
         got |-> {}, left |-> {}]

\* One more event from outside: a lost request or answer, a reset of the object, a
\* failure of the broker or of a check of the user, an access token that expires, a
\* grant withdrawn, a node that comes or goes, a page loaded, a sign-out, another
\* project opened.
Event == bounds.events < MaxEvents /\ bounds' = [bounds EXCEPT !.events = @ + 1]

\* The requests of each call, in order.
Steps(op) == CASE op = "publish" -> <<"save", "publish">>
               [] op = "run" -> <<"fleet", "create">>  \* then an upload for each missing asset, and the commit
               [] OTHER -> <<op>>

(* ----------------------------- the requests ---------------------------- *)

\* request: sent with the cookies the browser has by now.
Send(rec, step) == [rec EXCEPT !.step = step, !.stage = "sent", !.access = jar.access, !.again = FALSE]

Sharing == {"publish", "list", "revoke"}
Flying(ops) == {c \in Calls : call[c].stage # "idle" /\ call[c].op \in ops}

\* The share dialog is modal, and busy while it publishes or revokes.
Offered(op, t) ==
    CASE op = "publish" -> Flying({"publish", "revoke"}) = {}
      [] op = "revoke" -> t \in page.dialog /\ Flying({"publish", "revoke"}) = {}
      [] op = "shared" -> shares[t] # None \/ t \in ghost.revoked
      [] OTHER -> TRUE

Ask(c) ==
    /\ page.shown = "studio" /\ call[c] = Idle
    /\ bounds.asks < MaxAsks /\ bounds' = [bounds EXCEPT !.asks = @ + 1]
    /\ \E op \in Ops, t \in Tokens \cup {None}, program \in BOOLEAN :
         /\ (t = None) <=> op \notin {"revoke", "shared"}
         /\ op \notin {"save", "publish"} => ~program
         /\ op = "run" => jobs[c].state = "none"  \* bound: a run for each call
         /\ Offered(op, t)
         /\ call' = [call EXCEPT ![c] =
                       Send([Idle EXCEPT !.op = op, !.path = page.path, !.token = t, !.program = program,
                                         !.rev = bounds.asks + 2],
                            IF op = "run" /\ fleet.cached THEN "create" ELSE Steps(op)[1])]
         /\ ghost' = [ghost EXCEPT !.mixed =
                        IF op = "list" THEN Flying(Sharing) # {} ELSE @ \/ (op \in Sharing /\ Flying(Sharing) # {})]
    /\ UNCHANGED <<account, jar, broker, relay, page>>

Reply(c, got) == call' = [call EXCEPT ![c].stage = "answered", ![c].got = got]

\* What authenticate finds when nothing fails: the access token is current, and so is
\* the user's grant.
Authentic(c) == call[c].access = "good" /\ broker.admitted

\* The broker refuses or does not answer, the keys or the admission of the user cannot
\* be had, or the grant is gone: the handlers take each of these for a refusal.
Unavailable == (broker.admitted /\ Event) \/ (~broker.admitted /\ UNCHANGED bounds)

\* Serving(c, step): the worker admitted the request and passes it on.
Serving(c, step) ==
    call[c].stage = "sent" /\ call[c].step = step /\ (Authentic(c) \/ step = "shared")

\* A check that fails refuses the request of a current user, too.
WorkerRefuses(c) ==
    /\ call[c].stage = "sent" /\ call[c].step # "shared"
    /\ (call[c].access # "good" /\ UNCHANGED bounds) \/ (call[c].access = "good" /\ Unavailable)
    /\ call' = [call EXCEPT ![c].stage = "refused"]
    /\ UNCHANGED <<account, jar, broker, relay, page, ghost>>

(* ------------------------- the account's object ------------------------ *)

\* The object takes no request while another waits for its storage.
AtAccount(c, step) == Serving(c, step) /\ gate = None

\* saveProject: the documents are put in one call; a program that is no longer there
\* is deleted in a second one.  A project that is not valid is refused.
SaveProject(c) ==
    /\ AtAccount(c, "save")
    /\ LET p == call[c].path
           r == call[c].rev
           put == [graph |-> r, inputs |-> r, sidecar |-> r,
                   program |-> IF call[c].program THEN r ELSE docs[p].program]
       IN \/ /\ docs' = [docs EXCEPT ![p] = put]
             /\ IF call[c].program THEN Reply(c, {"saved"}) /\ UNCHANGED gate
                ELSE gate' = c /\ call' = [call EXCEPT ![c].stage = "saving"]
          \/ Reply(c, {}) /\ UNCHANGED <<docs, gate>>
    /\ UNCHANGED <<shares, index, jar, broker, relay, page, bounds, ghost>>

SaveDeletesProgram(c) ==
    /\ gate = c /\ gate' = None
    /\ docs' = [docs EXCEPT ![call[c].path].program = 0]
    /\ Reply(c, {"saved"})
    /\ UNCHANGED <<shares, index, jar, broker, relay, page, bounds, ghost>>

\* The object is reset between the two writes.
ObjectResets(c) ==
    /\ gate = c /\ gate' = None /\ Event
    /\ Reply(c, {})
    /\ ghost' = [ghost EXCEPT !.torn = @ \cup {call[c].path}]
    /\ UNCHANGED <<docs, shares, index, jar, broker, relay, page>>

Stored(p) == docs[p].graph # 0 /\ docs[p].inputs # 0 /\ docs[p].sidecar # 0

\* publishApp: a snapshot of the stored documents under a fresh token, and its line in
\* the index of the project, in one put.  publicationProblem may refuse it.
PublishApp(c) ==
    /\ AtAccount(c, "publish")
    /\ LET p == call[c].path IN
       \/ /\ Stored(p)
          /\ \E t \in Tokens :
               /\ shares[t] = None /\ t \notin ghost.revoked
               /\ shares' = [shares EXCEPT ![t] = [path |-> p, graph |-> docs[p].graph,
                                                   inputs |-> docs[p].inputs, sidecar |-> docs[p].sidecar]]
               /\ index' = index \cup {<<p, t>>}
               /\ ghost' = [ghost EXCEPT !.published = [@ EXCEPT ![t] = docs[p].graph]]
               /\ Reply(c, {t})
       \/ Reply(c, {}) /\ UNCHANGED <<shares, index, ghost>>
    /\ UNCHANGED <<docs, gate, jar, broker, relay, page, bounds>>

Listed(p) == {t \in Tokens : <<p, t>> \in index}

ListAppVersions(c) ==
    /\ AtAccount(c, "list")
    /\ Reply(c, Listed(call[c].path))
    /\ UNCHANGED <<account, jar, broker, relay, page, bounds, ghost>>

\* Mutant: the line of the index is looked for under the open project.
RevokeUnderOpenPath(c) ==
    /\ AtAccount(c, "revoke")
    /\ LET t == call[c].token IN
       \/ /\ shares[t] # None
          /\ shares' = [shares EXCEPT ![t] = None]
          /\ index' = index \ {<<call[c].path, t>>}
          /\ ghost' = [ghost EXCEPT !.revoked = @ \cup {t}]
          /\ Reply(c, {t})
       \/ shares[t] = None /\ Reply(c, {}) /\ UNCHANGED <<shares, index, ghost>>
    /\ UNCHANGED <<docs, gate, jar, broker, relay, page, bounds>>

\* revokeAppVersion: the snapshot says under which project its line is.
RevokeAppVersion(c) ==
    /\ AtAccount(c, "revoke")
    /\ LET t == call[c].token IN
       \/ /\ shares[t] # None
          /\ shares' = [shares EXCEPT ![t] = None]
          /\ index' = index \ {<<shares[t].path, t>>}
          /\ ghost' = [ghost EXCEPT !.revoked = @ \cup {t}]
          /\ Reply(c, {t})
       \/ shares[t] = None /\ Reply(c, {}) /\ UNCHANGED <<shares, index, ghost>>
    /\ UNCHANGED <<docs, gate, jar, broker, relay, page, bounds>>

\* sharedApp and loadProject answer what is stored.
SharedApp(c) ==
    /\ AtAccount(c, "shared")
    /\ Reply(c, IF shares[call[c].token] = None THEN {} ELSE {shares[call[c].token].graph})
    /\ UNCHANGED <<account, jar, broker, relay, page, bounds, ghost>>

LoadProject(c) ==
    /\ AtAccount(c, "load")
    /\ Reply(c, IF Stored(call[c].path) THEN {docs[call[c].path].graph} ELSE {})
    /\ UNCHANGED <<account, jar, broker, relay, page, bounds, ghost>>

DeleteProject(c) ==
    /\ AtAccount(c, "delete")
    /\ docs' = [docs EXCEPT ![call[c].path] = NoDoc]
    /\ Reply(c, {"deleted"})
    /\ UNCHANGED <<shares, index, gate, jar, broker, relay, page, bounds, ghost>>

(* ----------------------- the relay, external, and runs ----------------- *)

Known == {"catalogue"}

\* fleet(): what the connected nodes report; prepareSubmission needs a catalogue.
ReadFleet(c) ==
    /\ Serving(c, "fleet")
    /\ Reply(c, IF fleet.connected THEN Known ELSE {})
    /\ UNCHANGED <<account, jar, broker, relay, page, bounds, ghost>>

NodeComesOrGoes ==
    /\ Event
    /\ fleet' = [fleet EXCEPT !.connected = ~@]
    /\ UNCHANGED <<account, jar, broker, jobs, page, call, ghost>>

\* The relay asks for the assets whose content it does not have.
CreateJob(c) ==
    /\ Serving(c, "create")
    /\ \E has \in SUBSET Digests :
         /\ jobs' = [jobs EXCEPT ![c] = [state |-> "created", has |-> has, made |-> @.made + 1]]
         /\ Reply(c, Digests \ has)
    /\ UNCHANGED <<account, jar, broker, fleet, page, bounds, ghost>>

Current(c) == CHOOSE d \in call[c].left : TRUE

UploadAsset(c) ==
    /\ Serving(c, "upload")
    /\ jobs' = [jobs EXCEPT ![c].has = @ \cup {Current(c)}]
    /\ Reply(c, {Current(c)})
    /\ UNCHANGED <<account, jar, broker, fleet, page, bounds, ghost>>

CommitJob(c) ==
    /\ Serving(c, "commit")
    /\ jobs' = [jobs EXCEPT ![c].state = "committed"]
    /\ Reply(c, {"queued"})
    /\ UNCHANGED <<account, jar, broker, fleet, page, bounds, ghost>>

(* ----------------------------- the session ----------------------------- *)

Over(c) == call' = [call EXCEPT ![c] = Idle]
ListFailed(c) == ghost' = [ghost EXCEPT !.mixed = @ \/ call[c].op = "list"]

\* Mutant: the answer to an upload is not looked at.
RefusedUploadIgnored(c) ==
    call' = [call EXCEPT ![c] = LET left == @.left \ {Current(c)} IN
               Send([@ EXCEPT !.left = left], IF left = {} THEN "commit" ELSE "upload")]

\* A failed upload ends the call; the job stays as it is, and is never committed.
RefusedUploadFails(c) == Over(c)

Granted == \E c \in Calls : call[c].stage = "granted"

\* request: the first 401 of a request refreshes the session; uploads do not.
RequestRefused(c) ==
    /\ page.shown = "studio" /\ call[c].stage = "refused"
    /\ \/ /\ call[c].step = "upload"
          /\ RefusedUploadFails(c) /\ UNCHANGED ghost
       \/ /\ call[c].step # "upload" /\ call[c].again
          /\ Over(c) /\ ListFailed(c)
       \/ /\ call[c].step # "upload" /\ ~call[c].again
          /\ call' = [call EXCEPT ![c].stage = "refresh", ![c].ticket = jar.refresh,
                                  ![c].alive = jar.refresh \in broker.live \/ Granted]
          /\ UNCHANGED ghost
    /\ UNCHANGED <<account, jar, broker, relay, page, bounds>>

\* exchangeToken: the broker takes a token it knows, and keeps it or replaces it.
Successor == IF broker.policy = "keep" THEN {} ELSE {broker.issued + 1}
Exchange(t) ==
    /\ t \in broker.live
    /\ \/ broker.policy = "keep" /\ UNCHANGED broker
       \/ /\ broker.policy = "rotate" /\ broker.issued < MaxTickets
          /\ broker' = [broker EXCEPT !.issued = @ + 1, !.live = (@ \ {t}) \cup Successor]

\* Why a refresh is denied.
Reason(c) ==
    CASE call[c].ticket = 0 -> "signed out"
      [] call[c].ticket \in broker.live -> IF broker.admitted THEN "failed" ELSE "withdrawn"
      [] OTHER -> IF call[c].alive THEN "raced" ELSE IF ghost.lost THEN "lost" ELSE "none"

Denied(c) == call' = [call EXCEPT ![c].stage = "denied", ![c].why = Reason(c)]

\* refreshAuth: the refresh cookie is exchanged first, then the access token that came
\* back and the grant of its user are checked.
RefreshGranted(c) ==
    /\ Exchange(call[c].ticket) /\ broker.admitted
    /\ call' = [call EXCEPT ![c].stage = "granted", ![c].got = Successor]
    /\ UNCHANGED <<bounds, ghost>>

\* There is no cookie, the broker does not know it, or no answer of it is understood.
RefreshRefused(c) ==
    /\ \/ call[c].ticket \notin broker.live /\ UNCHANGED bounds
       \/ call[c].ticket \in broker.live /\ Unavailable
    /\ Denied(c)
    /\ UNCHANGED <<broker, ghost>>

\* The broker's answer or the check after it fails: the successor is sent to nobody.
RefreshDropped(c) ==
    /\ Exchange(call[c].ticket) /\ Unavailable
    /\ Denied(c)
    /\ ghost' = [ghost EXCEPT !.lost = @ \/ Successor # {}]

RefreshAuth(c) ==
    /\ call[c].stage = "refresh"
    /\ RefreshGranted(c) \/ RefreshRefused(c) \/ RefreshDropped(c)
    /\ UNCHANGED <<account, jar, relay, page>>

\* Mutant: the token that was sent is preferred to the one that came back.
SessionCookiesKept(got, previous) ==
    [jar EXCEPT !.access = "good", !.refresh = IF previous # 0 THEN previous ELSE CHOOSE t \in got : TRUE]

\* appendSessionCookies: the token that came back, or the one that was sent.
SessionCookies(got, previous) ==
    [jar EXCEPT !.access = "good", !.refresh = IF got # {} THEN CHOOSE t \in got : TRUE ELSE previous]

\* The browser takes the cookies and the request is repeated once.
SessionRefreshed(c) ==
    /\ page.shown = "studio" /\ call[c].stage = "granted"
    /\ jar' = SessionCookies(call[c].got, call[c].ticket)
    /\ call' = [call EXCEPT ![c].stage = "sent", ![c].access = "good", ![c].again = TRUE, ![c].got = {}]
    /\ UNCHANGED <<account, broker, relay, page, bounds, ghost>>

\* refreshRequest: the page goes to the sign-in.
SessionLost(c) ==
    /\ page.shown = "studio" /\ call[c].stage = "denied"
    /\ page' = [page EXCEPT !.shown = "signin"]
    /\ ghost' = [ghost EXCEPT !.why = call[c].why]
    /\ UNCHANGED <<account, jar, broker, relay, call, bounds>>

\* A page that is left or loaded forgets its calls; a refresh that was granted
\* meanwhile is lost with its answer.
NewPage(shown) ==
    /\ gate = None
    /\ call' = [c \in Calls |-> Idle]
    /\ fleet' = [fleet EXCEPT !.cached = FALSE]
    /\ page' = [page EXCEPT !.shown = shown, !.dialog = {}]

\* An answer that brings the only refresh token that is good is on its way.
Replaces(c) == call[c].stage = "granted" /\ call[c].got # {}

Forgotten == [ghost EXCEPT !.mixed = TRUE, !.lost = @ \/ \E c \in Calls : Replaces(c)]

\* A page asks for its session, and does not refresh it; the check may fail.
LoadPage ==
    /\ Event
    /\ \/ /\ jar.access = "good" /\ broker.admitted
          /\ NewPage("studio")
          /\ ghost' = [Forgotten EXCEPT !.why = "none"]
       \/ /\ NewPage("signin")
          /\ ghost' = [Forgotten EXCEPT !.why = IF jar.access # "good" THEN "expired"
                                               ELSE IF broker.admitted THEN "failed" ELSE "withdrawn"]
    /\ UNCHANGED <<account, jar, broker, jobs>>

Logout ==
    /\ page.shown = "studio" /\ Event
    /\ NewPage("signin")
    /\ jar' = [jar EXCEPT !.access = "none", !.refresh = 0]
    /\ ghost' = [Forgotten EXCEPT !.why = "signed out"]
    /\ UNCHANGED <<account, broker, jobs>>

\* startAuth: a flow begins; its state and verifier replace those of an earlier one.
StartAuth ==
    /\ page.shown = "signin"
    /\ bounds.flows < MaxFlows /\ bounds' = [bounds EXCEPT !.flows = @ + 1]
    /\ jar' = [jar EXCEPT !.flow = bounds.flows + 1]
    /\ broker' = [broker EXCEPT !.flows = @ \cup {bounds.flows + 1}]
    /\ UNCHANGED <<account, relay, page, call, ghost>>

\* finishAuth: the callback counts only with the state of the flow it belongs to, and
\* only if the token that its code is exchanged for passes the checks; else nothing is
\* set, and a refresh token that was issued is nobody's.
FinishAuth(f) ==
    /\ f \in broker.flows /\ page.shown = "signin"
    /\ LET new == broker.issued + 1
           used == [broker EXCEPT !.flows = @ \ {f}]
           issues == broker' = [used EXCEPT !.issued = new, !.live = @ \cup {new}]
       IN \/ /\ f = jar.flow /\ broker.admitted /\ broker.issued < MaxTickets
             /\ issues
             /\ jar' = [SessionCookies({new}, 0) EXCEPT !.flow = 0]
             /\ NewPage("studio")
             /\ ghost' = [Forgotten EXCEPT !.why = "none", !.lost = FALSE]
             /\ UNCHANGED bounds
          \/ /\ f # jar.flow /\ broker' = used
             /\ UNCHANGED <<jar, call, fleet, page, ghost, bounds>>
          \/ /\ f = jar.flow /\ Unavailable
             /\ broker' = used \/ (broker.issued < MaxTickets /\ issues)
             /\ UNCHANGED <<jar, call, fleet, page, ghost>>
    /\ UNCHANGED <<account, jobs>>

\* External: access tokens expire, and the user's grant is withdrawn.
Expire ==
    /\ jar.access = "good" /\ broker.issued < MaxTickets /\ Event
    /\ jar' = [jar EXCEPT !.access = "bad"]
    /\ call' = [c \in Calls |-> IF call[c].access = "good" THEN [call[c] EXCEPT !.access = "bad"] ELSE call[c]]
    /\ UNCHANGED <<account, broker, relay, page, ghost>>

Withdraw ==
    /\ broker.admitted /\ Event
    /\ broker' = [broker EXCEPT !.admitted = FALSE]
    /\ UNCHANGED <<account, jar, relay, page, call, ghost>>

(* ------------------------------ the answers ---------------------------- *)

\* Mutant: a version that was revoked stays in the dialog.
DialogKeepsRevoked(c) ==
    CASE call[c].step = "list" -> call[c].got
      [] call[c].step = "publish" -> page.dialog \cup call[c].got
      [] OTHER -> page.dialog

\* setAppVersions.
Dialog(c) ==
    CASE call[c].step = "list" -> call[c].got
      [] call[c].step = "publish" -> page.dialog \cup call[c].got
      [] call[c].step = "revoke" -> page.dialog \ call[c].got
      [] OTHER -> page.dialog

\* buildGraphSubmission: a graph without nodes, or one that needs a node kind, an
\* upload, a provider, an accelerator or a secret that the fleet does not offer, is
\* not sent.
Submissible == BOOLEAN

\* What a call does next, if anything: an empty answer is an error.
Continue(c) ==
    LET rec == call[c]
        left == CASE rec.step = "create" -> rec.got
                  [] rec.step = "upload" -> rec.left \ rec.got
                  [] OTHER -> {}
        next(step) == call' = [call EXCEPT ![c] = Send([rec EXCEPT !.left = left, !.got = {}], step)]
    IN CASE rec.op = "publish" /\ rec.step = "save" /\ rec.got # {} -> next("publish")
         [] rec.step = "fleet" /\ rec.got # {} ->
              \E fits \in Submissible : IF fits THEN next("create") ELSE Over(c)
         [] rec.step \in {"create", "upload"} -> next(IF left = {} THEN "commit" ELSE "upload")
         [] OTHER -> Over(c)

AnswerArrives(c) ==
    /\ page.shown = "studio" /\ call[c].stage = "answered"
    /\ page' = [page EXCEPT !.dialog = Dialog(c)]
    /\ fleet' = [fleet EXCEPT !.cached = @ \/ (call[c].step = "fleet" /\ call[c].got # {})]
    /\ Continue(c)
    /\ UNCHANGED <<account, jar, broker, jobs, bounds, ghost>>

\* The request, or its answer, is lost.
RequestFails(c) ==
    /\ page.shown = "studio" /\ call[c].stage \notin {"idle", "saving"}
    /\ Event
    /\ Over(c)
    /\ ghost' = [ghost EXCEPT !.mixed = @ \/ call[c].op \in Sharing,
                              !.lost = @ \/ Replaces(c)]
    /\ UNCHANGED <<account, jar, broker, relay, page>>

\* Another project is opened; the dialog keeps what it showed.
OpenOther ==
    /\ page.shown = "studio" /\ Event
    /\ \E p \in Paths \ {page.path} : page' = [page EXCEPT !.path = p]
    /\ ghost' = [ghost EXCEPT !.mixed = TRUE]
    /\ UNCHANGED <<account, jar, broker, relay, call>>

\* The account is new, or holds a project of an earlier sitting and a version of it.
EarlierPublication(p, t) ==
    /\ docs = [NewDocs EXCEPT ![p] = [graph |-> 1, inputs |-> 1, sidecar |-> 1, program |-> 1]]
    /\ shares = [NoShares EXCEPT ![t] = [path |-> p, graph |-> 1, inputs |-> 1, sidecar |-> 1]]
    /\ index = {<<p, t>>}
    /\ ghost = [NoGhost EXCEPT !.published[t] = 1]

Init ==
    /\ \/ docs = NewDocs /\ shares = NoShares /\ index = {} /\ ghost = NoGhost
       \/ \E p \in Paths, t \in Tokens : EarlierPublication(p, t)
    /\ gate = None
    /\ jar = [access |-> "good", refresh |-> 1, flow |-> 0]
    /\ \E policy \in {"keep", "rotate"} :
         broker = [live |-> {1}, issued |-> 1, policy |-> policy, admitted |-> TRUE, flows |-> {}]
    /\ jobs = [c \in Calls |-> [state |-> "none", has |-> {}, made |-> 0]]
    /\ fleet = [connected |-> TRUE, cached |-> FALSE]
    /\ \E p \in Paths : page = [shown |-> "studio", path |-> p, dialog |-> {}]
    /\ call = [c \in Calls |-> Idle]
    /\ bounds = [asks |-> 0, flows |-> 0, events |-> 0]

Server(c) ==
    \/ WorkerRefuses(c) \/ SaveProject(c) \/ SaveDeletesProgram(c) \/ ObjectResets(c) \/ PublishApp(c)
    \/ ListAppVersions(c) \/ RevokeAppVersion(c) \/ SharedApp(c) \/ LoadProject(c) \/ DeleteProject(c)
    \/ ReadFleet(c) \/ CreateJob(c) \/ UploadAsset(c) \/ CommitJob(c) \/ RefreshAuth(c)

Client(c) ==
    Ask(c) \/ RequestRefused(c) \/ SessionRefreshed(c) \/ SessionLost(c) \/ AnswerArrives(c) \/ RequestFails(c)

Next ==
    \/ \E c \in Calls : Server(c) \/ Client(c)
    \/ \E f \in 1..MaxFlows : FinishAuth(f)
    \/ LoadPage \/ Logout \/ StartAuth \/ Expire \/ Withdraw \/ NodeComesOrGoes \/ OpenOther

Spec == Init /\ [][Next]_vars

(* ------------------------------ properties ----------------------------- *)

\* The refresh cookie is one the broker takes, or its successor is on the way, unless
\* a successor was lost: with its answer, or because a check failed when the token had
\* been exchanged already (auth.ts:197-204).  The page is sent to the sign-in for one of
\* these reasons only: the user signed out, the access token of a page that was loaded
\* had expired, the grant was withdrawn, the broker or a check failed, a successor was
\* lost, or another request exchanged the token at the same time
\* (cloud-runtime.ts:373, auth.ts:102); and the last two never with a broker that keeps
\* its tokens.
SessionIsKept ==
    /\ jar.refresh \in {0} \cup broker.live \/ Granted \/ ghost.lost
    /\ page.shown = "signin" => ghost.why # "none"
    /\ broker.policy = "keep" => ~ghost.lost /\ ghost.why \notin {"raced", "lost"}

\* "uploads only the hashes Relay requests before committing the job"
\* (docs/cloud.md:37-38): a committed job has every asset it declares, and however
\* often its requests were refused and repeated, a run is created once
\* (cloud-runtime.ts:514-536).
CommittedRunsAreWhole ==
    \A c \in Calls : /\ jobs[c].state = "committed" => jobs[c].has = Digests
                     /\ jobs[c].made <= 1

\* "immutable, revocable snapshots" (docs/cloud.md:65-66): a version holds one saved
\* revision for ever, through later saves, resets and the deletion of its project,
\* until it is revoked, and its project lists it exactly as long.  What is stored
\* under a path is one save, but for the program of an older one after a reset
\* between the two writes (account.ts:168-169).
VersionsStand ==
    /\ \A t \in Tokens :
         /\ shares[t] # None => /\ shares[t].graph = ghost.published[t] /\ shares[t].graph # 0
                                /\ shares[t].inputs = shares[t].graph /\ shares[t].sidecar = shares[t].graph
         /\ t \in ghost.revoked => shares[t] = None
         /\ \A p \in Paths : <<p, t>> \in index <=> shares[t] # None /\ shares[t].path = p
    /\ \A p \in Paths \ ghost.torn :
         docs[p].program \in {0, docs[p].graph} \/ (gate # None /\ call[gate].path = p)

\* The share dialog shows the versions of the open project, when its list was asked
\* for with no other request of the dialog on its way, no answer was lost and no other
\* project was opened since (App.tsx:984-1015).
DialogShowsVersions ==
    page.shown = "studio" /\ ~ghost.mixed /\ Flying(Sharing) = {} => page.dialog = Listed(page.path)
=============================================================================
