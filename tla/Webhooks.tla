------------------------------ MODULE Webhooks ------------------------------
(***************************************************************************)
(* The webhook handlers of src/packages/backend/internal/handlers/http/    *)
(* webhook_handlers.go on top of the issue repository.  A handler binds    *)
(* the JSON body (400 when a required field is missing), builds a report   *)
(* or a scope from it, makes one repository call through the issue        *)
(* service, and answers once that call has returned.  The service is taken *)
(* to pass the call straight to the repository.                            *)
(***************************************************************************)
EXTENDS IssueRepository, Sequences

CONSTANTS
    Hooks,           \* webhook requests senders may post
    SerialPerScope,  \* does a sender wait for the answer before posting again?
    HasClient,       \* did NewNamespaceChecker get a Kubernetes client?
    KiteAccess       \* namespaces where Kite's service account may get pods

PF == "pipeline-failure"
PS == "pipeline-success"
MM == "mintmaker-custom"
RF == "release-failure"
RS == "release-success"

VARIABLES
    hook,   \* handler -> the webhook request it serves, or NoRow
    last,   \* scope -> the latest request received for it (and whether it failed)
    resp    \* handler -> its last answer: HTTP status and the request

wvars == <<vars, hook, last, resp>>

(***************************************************************************)
(* CheckNamespacessAccess, in front of every webhook route.  The namespace *)
(* is taken from the path parameter, then the query string, then the       *)
(* "requestBody" context key, which nothing sets: a namespace given only   *)
(* in the JSON body is not seen.  The Authentication middleware is not     *)
(* installed, so no "user" is in the context and the check is the service *)
(* account's own SelfSubjectAccessReview; an error of that review denies.  *)
(***************************************************************************)
CheckedNamespace(w) == w.query
PassOn == 0   \* c.Next(): the request reaches the handler
AccessOutcomes(w) ==
    CASE CheckedNamespace(w) = "" -> {400}
      [] ~HasClient -> {PassOn}
      [] CheckedNamespace(w) \in KiteAccess -> {PassOn, 403}
      [] OTHER -> {403}

(***************************************************************************)
(* Binding: the fields tagged binding:"required" must be present.          *)
(***************************************************************************)
Required(w) ==
    CASE w.kind = PF -> {w.name, w.ns, w.reason}
      [] w.kind = MM -> {w.name, w.ns, w.reason}
      [] w.kind = RF -> {w.name, w.ns, w.reason, w.release}
      [] OTHER       -> {w.name, w.ns}
Binds(w) == "" \notin Required(w)

\* PipelineFailure: the logs link defaults to KITE_CLUSTER_URL and
\* KITE_LOGS_ENDPOINT (their defaults) followed by the run id.
LogsLink(w) ==
    IF w.logsUrl # "" THEN w.logsUrl
    ELSE "https://konflux.dev" \o "/logs/pipelineruns/" \o w.runId

\* MintmakerIssues: the logs joined with a separator line.
RECURSIVE JoinLogs(_)
JoinLogs(s) ==
    IF Len(s) <= 1 THEN IF s = <<>> THEN "" ELSE Head(s)
    ELSE Head(s) \o "\n--------------------------------\n" \o JoinLogs(Tail(s))

\* The CreateIssueRequest each failure handler builds (title and severity
\* are left out: no property reads them).
BaseReport(w) ==
    [ns |-> w.ns, itype |-> "", rtype |-> "", rname |-> w.name, rns |-> w.ns,
     desc |-> "", state |-> "", resolvedAt |-> FALSE, links |-> {}]
PipelineFailureReport(w) ==
    [BaseReport(w) EXCEPT !.itype = "pipeline", !.rtype = "pipelinerun",
                          !.desc = w.reason, !.links = {LogsLink(w)}]
MintmakerReport(w) ==
    [BaseReport(w) EXCEPT !.itype = "dependency", !.rtype = "mintmaker-" \o w.reason,
                          !.desc = JoinLogs(w.logs),
                          !.links = {"Mintmaker docs", "Renovate docs"}]
ReleaseFailureReport(w) ==
    [BaseReport(w) EXCEPT !.itype = "release", !.rtype = "application",
                          !.desc = IF w.logsUrl # ""
                                   THEN w.reason \o ". Link to logs: " \o w.logsUrl
                                   ELSE w.reason]
\* PipelineSuccess / ReleaseSuccess: the scope passed to ResolveIssuesByScope.
SuccessScopeWrongType(w) ==   \* mutant: resolves resource type "pipeline"
    [rtype |-> IF w.kind = PS THEN "pipeline" ELSE "application",
     rname |-> w.name, ns |-> w.ns]
SuccessScope(w) ==
    [rtype |-> IF w.kind = PS THEN "pipelinerun" ELSE "application",
     rname |-> w.name, ns |-> w.ns]

\* The scope a request is about, for the history in `last`: a pipeline run,
\* an application or a MintMaker component and message type.
ResourceType(w) ==
    CASE w.kind \in {PF, PS} -> "pipelinerun"
      [] w.kind \in {RF, RS} -> "application"
      [] OTHER -> "mintmaker-" \o w.reason
ScopeOf(w) == [rtype |-> ResourceType(w), rname |-> w.name, ns |-> w.ns]

Scopes == {ScopeOf(w) : w \in {h \in Hooks : Binds(h)}}
-----------------------------------------------------------------------------
NoHook == NoRow
Failures == {PF, MM, RF}

WInit ==
    /\ Init
    /\ hook = [p \in Procs |-> NoHook]
    /\ last = [s \in Scopes |-> NoRow]
    /\ resp = [p \in Procs |-> [status |-> 0, hook |-> NoHook]]

\* A request that is answered before any repository call: 400 when binding
\* fails, 200 when a MintMaker request carries no logs.
EarlyAnswer(p, w, status) ==
    /\ resp' = [resp EXCEPT ![p] = [status |-> status, hook |-> w]]
    /\ opsLeft' = [opsLeft EXCEPT ![p] = @ - 1]
    /\ UNCHANGED <<issue, scope, links, edges, lock, pc, req, tx, ret, born,
                   creations, hook, last>>

\* The handler makes its one service call; the answer waits for its return.
StartCall(p, w, o, pay, sc, first) ==
    /\ Call(p, o, pay, NoId, NoId, sc, first)
    /\ hook' = [hook EXCEPT ![p] = w]
    /\ last' = [last EXCEPT ![ScopeOf(w)] = [kind |-> w.kind, by |-> Now(p)]]
    /\ UNCHANGED resp
CreateOrUpdateIssue(p, w, r) == StartCall(p, w, "CreateOrUpdate", r, NoRow, "cou_find")
ResolveIssuesByScope(p, w) ==
    StartCall(p, w, "ResolveByScope", NoRow, SuccessScope(w), "rbs_pluck")

\* The five handlers after ShouldBindJSON succeeded (Binds): the report or
\* the scope, and the service call.
PipelineFailure(p, w) == CreateOrUpdateIssue(p, w, PipelineFailureReport(w))
PipelineSuccess(p, w) == ResolveIssuesByScope(p, w)
\* MintmakerIssues answers 200 without a call when the logs are empty.
MintmakerIssues(p, w) ==
    IF w.logs = <<>> THEN EarlyAnswer(p, w, 200)
    ELSE CreateOrUpdateIssue(p, w, MintmakerReport(w))
ReleaseFailure(p, w) == CreateOrUpdateIssue(p, w, ReleaseFailureReport(w))
ReleaseSuccess(p, w) == ResolveIssuesByScope(p, w)

\* A handler takes a webhook request: the gate answers it, binding fails
\* (400), or the route's handler runs.  With SerialPerScope a sender posts
\* the next request about a scope only after the previous one was answered.
Receive(p) ==
    /\ pc[p] = "idle" /\ hook[p] = NoHook /\ opsLeft[p] > 0
    /\ \E w \in Hooks :
        /\ SerialPerScope =>
               \A q \in Procs : hook[q] # NoHook => ScopeOf(hook[q]) # ScopeOf(w)
        /\ \E g \in AccessOutcomes(w) :
           \/ g # PassOn /\ EarlyAnswer(p, w, g)
           \/ g = PassOn /\ ~Binds(w) /\ EarlyAnswer(p, w, 400)
           \/ g = PassOn /\ Binds(w) /\ w.kind = PF /\ PipelineFailure(p, w)
           \/ g = PassOn /\ Binds(w) /\ w.kind = PS /\ PipelineSuccess(p, w)
           \/ g = PassOn /\ Binds(w) /\ w.kind = MM /\ MintmakerIssues(p, w)
           \/ g = PassOn /\ Binds(w) /\ w.kind = RF /\ ReleaseFailure(p, w)
           \/ g = PassOn /\ Binds(w) /\ w.kind = RS /\ ReleaseSuccess(p, w)

\* The handler answers once its repository call returned: 500 on an error,
\* and 500 from gin.Recovery when CreateOrUpdateIssue returned a nil issue
\* without error (issue.ID dereferenced); otherwise 201 or 200.  A failed
\* answer marks the scope's latest request as failed (the sender retries).
Status(p) ==
    CASE ~ret[p].ok -> 500
      [] hook[p].kind \in Failures /\ ret[p].val = NoId -> 500
      [] hook[p].kind \in Failures -> 201
      [] OTHER -> 200
Respond(p) ==
    LET s == ScopeOf(hook[p]) IN
    /\ hook[p] # NoHook /\ pc[p] = "idle"
    /\ resp' = [resp EXCEPT ![p] = [status |-> Status(p), hook |-> hook[p]]]
    /\ hook' = [hook EXCEPT ![p] = NoHook]
    /\ last' = IF Status(p) = 500 /\ last[s].by = <<p, opsLeft[p] + 1>>
               THEN [last EXCEPT ![s].kind = "error"]
               ELSE last
    /\ UNCHANGED vars

WNext ==
    \E p \in Procs :
        \/ Receive(p) \/ Respond(p)
        \/ (Serve(p) \/ Fail(p) \/ DeadlockAbort(p)) /\ UNCHANGED <<hook, last, resp>>

WSpec == WInit /\ [][WNext]_wvars

-----------------------------------------------------------------------------
\* A success webhook answered 200 for a pipeline run or application, with
\* no later request about it received, leaves no ACTIVE issue of that
\* scope: PipelineSuccess / ReleaseSuccess resolve what the failures made.
SuccessLastResolves ==
    \A s \in Scopes :
        /\ last[s] # NoRow /\ last[s].kind \in {PS, RS}
        /\ \A q \in Procs : hook[q] = NoHook
        => \A i \in Ids : ~InResolveScope(i, s)
\* The purpose of CheckNamespacessAccess: with a cluster client, webhooks
\* only create issues in namespaces Kite's service account may read.
IssuesInCheckedNamespaces ==
    HasClient => \A i \in Ids : Exists(i) => issue[i].ns \in KiteAccess

====
