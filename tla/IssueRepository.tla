-------------------------- MODULE IssueRepository --------------------------
(***************************************************************************)
(* The issue deduplication and lifecycle engine of the kite backend: the   *)
(* issueRepository methods of src/packages/backend/internal/handlers/http/ *)
(* router.go (lines 92-873, the repository file as concatenated there) on  *)
(* top of the PostgreSQL schema of src/unnamed/part_000.                   *)
(*                                                                         *)
(* Every request handler is a process of Procs.  A repository method is a *)
(* sequence of steps, one per SQL statement (or group of statements) whose *)
(* interleaving with other handlers matters.  The database runs at READ    *)
(* COMMITTED: a statement sees what was committed when it starts, writes   *)
(* of an open transaction are invisible to others until commit, and a      *)
(* statement that touches a row locked by another transaction waits.  Row  *)
(* locks are kept in `lock`, over three kinds of row groups: an issue row, *)
(* the link rows of an issue, and the edge rows of an ordered pair.        *)
(***************************************************************************)
EXTENDS Naturals, Sequences, FiniteSets, Bags, BagsExt, Relation

CONSTANTS
    Procs,          \* concurrent request handlers
    Ids,            \* issue ids (uuids); the scope of issue i is scope row i
    LinkVals,       \* link contents (title and url)
    Reports,        \* CreateIssueRequest payloads offered to CreateOrUpdate/Create
    UpdateReqs,     \* UpdateIssueRequest payloads offered to Update
    ResolveScopes,  \* [rtype, rname, ns] arguments of ResolveByScope
    Ops,            \* the repository methods the handlers call in this model
    MaxOps,         \* bound: requests served by each handler
    LockOnFind,     \* does findDuplicateInTx's SELECT carry FOR UPDATE?
    StatementsFail, \* fault model: may a statement fail mid-call?
    QueryFilters,   \* IssueQueryFilters offered to FindAll
    NoProc, NoId, NoRow

Active == "ACTIVE"
Resolved == "RESOLVED"

AllOps == {"CreateOrUpdate", "Create", "Update", "Delete", "ResolveByScope",
           "AddRelated", "RemoveRelated"}

ASSUME /\ Ops \subseteq AllOps
       /\ MaxOps \in Nat
       /\ LockOnFind \in BOOLEAN
       /\ StatementsFail \in BOOLEAN
       \* uuids are never reused: enough ids for every request to create one
       /\ Cardinality(Ids) >= Cardinality(Procs) * MaxOps

VARIABLES
    issue,      \* issues table: issue[i] is a row record or NoRow
    scope,      \* issue_scopes table, keyed by the owning issue's id
    links,      \* links table: set of <<issue id, link>> rows
    edges,      \* related_issues table: bag of <<source, target>> rows
    lock,       \* row group -> transaction (handler) holding its row locks
    pc,         \* handler -> current step
    req,        \* handler -> the call being served
    tx,         \* handler -> values its transaction read in earlier steps
    ret,        \* handler -> result of its last call
    opsLeft,    \* handler -> calls it may still start
    born,       \* history: id -> [serial, seen] of the commit creating it
    creations   \* history: number of issue creations committed

vars == <<issue, scope, links, edges, lock, pc, req, tx, ret, opsLeft,
          born, creations>>

Groups == {<<"row", i>> : i \in Ids} \cup {<<"links", i>> : i \in Ids}
            \cup {<<"edge", e>> : e \in Ids \X Ids}

Exists(i) == issue[i] # NoRow
LinksOf(i) == {l \in LinkVals : <<i, l>> \in links}
Touching(i) == {e \in BagToSet(edges) : i \in {e[1], e[2]}}
Key(i) == <<issue[i].ns, issue[i].itype, scope[i].rtype, scope[i].rname,
            scope[i].rns>>

FreeFor(p, G) == \A g \in G : lock[g] \in {NoProc, p}
Acquire(p, G) == [g \in Groups |-> IF g \in G THEN p ELSE lock[g]]
Release(p) == [g \in Groups |-> IF lock[g] = p THEN NoProc ELSE lock[g]]
CommitLeavingLocks(p) == lock   \* mutant: a transaction never ended
\* gorm's Transaction wrapper commits or rolls back: row locks are released.
EndTx(p) == Release(p)

NoTx == [ids |-> {}, known |-> "", seen |-> 0, snapL |-> {}, snapE |-> EmptyBag]
\* resolved_at values: NULL, a time given in the request, or time.Now() of
\* handler p's current call (a value no other write has).
NullTime == <<NoProc, 0>>
GivenTime == <<NoProc, 1>>
Now(p) == <<p, opsLeft[p]>>
Return(p, ok, val) ==
    /\ ret' = [ret EXCEPT ![p] = [op |-> req[p].op, ok |-> ok, val |-> val]]
    /\ pc' = [pc EXCEPT ![p] = "idle"]
    /\ tx' = [tx EXCEPT ![p] = NoTx]

(***************************************************************************)
(* findDuplicateInTx: an issue in the same namespace, of the same type, in *)
(* state ACTIVE or RESOLVED, whose scope has the report's resource type    *)
(* and name, and whose scope resource namespace equals the report's        *)
(* namespace (the query binds req.GetNamespace(), not the scope's).        *)
(***************************************************************************)
MatchingActiveOnly(r) ==   \* mutant: the ACTIVE-only filter line 234 describes
    {i \in Ids : /\ Exists(i)
                 /\ issue[i].ns = r.ns /\ issue[i].itype = r.itype
                 /\ issue[i].state = Active
                 /\ scope[i].rtype = r.rtype /\ scope[i].rname = r.rname
                 /\ scope[i].rns = r.ns}
Matching(r) ==
    {i \in Ids : /\ Exists(i)
                 /\ issue[i].ns = r.ns /\ issue[i].itype = r.itype
                 /\ issue[i].state \in {Active, Resolved}
                 /\ scope[i].rtype = r.rtype /\ scope[i].rname = r.rname
                 /\ scope[i].rns = r.ns}

\* createNewIssueInTx: defaults state to ACTIVE and the scope's resource
\* namespace to the issue namespace; resolved_at stays NULL.
NewIssueNoDefault(r) ==   \* mutant: the ACTIVE default left out
    [ns |-> r.ns, itype |-> r.itype, desc |-> r.desc, state |-> r.state,
     resolved |-> NullTime]
NewIssue(r) == [ns |-> r.ns, itype |-> r.itype, desc |-> r.desc,
                state |-> IF r.state = "" THEN Active ELSE r.state,
                resolved |-> NullTime]
NewScope(r) == [rtype |-> r.rtype, rname |-> r.rname,
                rns |-> IF r.rns = "" THEN r.ns ELSE r.rns]

\* updateIssueInTx: a field changes only when the payload supplies it; the
\* RESOLVED transition stamps resolved_at with time.Now(), judged on the state `known` that
\* the caller read before, and an explicit resolvedAt is taken when a state
\* is supplied.
Given(new, old) == IF new # "" THEN new ELSE old
UpdatedIssue(old, u, known, now) ==
    [old EXCEPT !.desc = Given(u.desc, @), !.itype = Given(u.itype, @),
                !.ns = Given(u.ns, @), !.state = Given(u.state, @),
                !.resolved = CASE u.state = "" -> @
                               [] u.state = Resolved /\ known # Resolved -> now
                               [] u.resolvedAt -> GivenTime
                               [] OTHER -> @]
UpdatedScope(old, u) ==
    [old EXCEPT !.rtype = Given(u.rtype, @), !.rname = Given(u.rname, @),
                !.rns = Given(u.rns, @)]

\* Create re-issues a duplicate as an UpdateIssueRequest, which carries
\* neither links nor resolvedAt.
AsUpdateRequest(r) == [r EXCEPT !.links = {}, !.resolvedAt = FALSE]
UpdatePayload(p) ==
    IF req[p].op = "Create" THEN AsUpdateRequest(req[p].pay) ELSE req[p].pay

(***************************************************************************)
(* The row groups the next step of handler p must lock; p waits while one *)
(* of them is held by another transaction.                                 *)
(***************************************************************************)
Needs(p) ==
    LET i == req[p].id IN
    CASE pc[p] = "cou_find" /\ LockOnFind ->
             {<<"row", m>> : m \in Matching(req[p].pay)}
      [] pc[p] \in {"upd_row", "del_issue"} /\ Exists(i) -> {<<"row", i>>}
      [] pc[p] = "upd_commit" /\ UpdatePayload(p).links # {}
                              /\ LinksOf(i) # {} -> {<<"links", i>>}
      [] pc[p] = "del_children" ->
             {<<"links", i>> : x \in LinksOf(i)}
               \cup {<<"edge", e>> : e \in Touching(i)}
      [] pc[p] = "rbs_update" ->
             {<<"row", j>> : j \in {k \in tx[p].ids : Exists(k)}}
      [] pc[p] = "rr_delete" ->
             {<<"edge", e>> : e \in {<<i, req[p].id2>>, <<req[p].id2, i>>}
                                       \cap BagToSet(edges)}
      [] OTHER -> {}

\* A handler blocked at cou_find waits only when every candidate is locked.
Blocked(p) ==
    IF pc[p] = "cou_find" /\ LockOnFind
    THEN Needs(p) # {} /\ \A g \in Needs(p) : lock[g] \notin {NoProc, p}
    ELSE ~FreeFor(p, Needs(p))
WaitsFor == [x, y \in Procs |->
               x # y /\ Blocked(x) /\ \E g \in Needs(x) : lock[g] = y]

-----------------------------------------------------------------------------
Init ==
    /\ issue = [i \in Ids |-> NoRow]
    /\ scope = [i \in Ids |-> NoRow]
    /\ links = {}
    /\ edges = EmptyBag
    /\ lock = [g \in Groups |-> NoProc]
    /\ pc = [p \in Procs |-> "idle"]
    /\ req = [p \in Procs |-> [op |-> "none", pay |-> NoRow, id |-> NoId,
                               id2 |-> NoId, sc |-> NoRow]]
    /\ tx = [p \in Procs |-> NoTx]
    /\ ret = [p \in Procs |-> [op |-> "none", ok |-> TRUE, val |-> NoId]]
    /\ opsLeft = [p \in Procs |-> MaxOps]
    /\ born = [i \in Ids |-> NoRow]
    /\ creations = 0

\* A handler starts a repository call.
Call(p, o, pay, i, i2, sc, first) ==
    /\ pc[p] = "idle" /\ opsLeft[p] > 0 /\ o \in Ops
    /\ req' = [req EXCEPT ![p] = [op |-> o, pay |-> pay, id |-> i,
                                  id2 |-> i2, sc |-> sc]]
    /\ pc' = [pc EXCEPT ![p] = first]
    /\ opsLeft' = [opsLeft EXCEPT ![p] = @ - 1]
    /\ UNCHANGED <<issue, scope, links, edges, lock, tx, ret, born, creations>>

CallCreateOrUpdate(p) ==
    \E o \in {"CreateOrUpdate", "Create"}, r \in Reports :
        Call(p, o, r, NoId, NoId, NoRow, "cou_find")
CallUpdate(p) ==
    \E i \in Ids, u \in UpdateReqs : Call(p, "Update", u, i, NoId, NoRow, "upd_find")
CallDelete(p) ==
    \E i \in Ids : Call(p, "Delete", NoRow, i, NoId, NoRow, "del_find")
CallResolveByScope(p) ==
    \E s \in ResolveScopes :
        Call(p, "ResolveByScope", NoRow, NoId, NoId, s, "rbs_pluck")
CallAddRelated(p) ==
    \E a, b \in Ids : Call(p, "AddRelated", NoRow, a, b, NoRow, "ar_check")
CallRemoveRelated(p) ==
    \E a, b \in Ids : Call(p, "RemoveRelated", NoRow, a, b, NoRow, "rr_delete")

\* CreateOrUpdate / Create, first statement: findDuplicateInTx.  Without
\* FOR UPDATE nothing is locked and the decision may be stale at commit.
CouFind(p) ==
    LET r == req[p].pay IN
    /\ pc[p] = "cou_find"
    /\ \/ /\ Matching(r) = {}
          /\ pc' = [pc EXCEPT ![p] = "cou_insert"]
          /\ tx' = [tx EXCEPT ![p].seen = creations]
          /\ UNCHANGED <<lock, req>>
       \/ \E m \in Matching(r) :
          /\ LockOnFind => FreeFor(p, {<<"row", m>>})
          /\ lock' = IF LockOnFind THEN Acquire(p, {<<"row", m>>}) ELSE lock
          /\ req' = [req EXCEPT ![p].id = m]
          /\ tx' = [tx EXCEPT ![p].known = issue[m].state]
          /\ pc' = [pc EXCEPT ![p] = "upd_row"]
    /\ UNCHANGED <<issue, scope, links, edges, ret, opsLeft, born, creations>>

\* createNewIssueInTx and commit: issue, scope and links in one INSERT
\* batch.  No constraint covers the dedup key, so nothing can conflict.
CouInsert(p) ==
    LET r == req[p].pay IN
    /\ pc[p] = "cou_insert"
    /\ \E n \in Ids :
        /\ born[n] = NoRow
        /\ issue' = [issue EXCEPT ![n] = NewIssue(r)]
        /\ scope' = [scope EXCEPT ![n] = NewScope(r)]
        /\ links' = links \cup {<<n, l>> : l \in r.links}
        /\ born' = [born EXCEPT ![n] = [serial |-> creations + 1,
                                          seen |-> tx[p].seen]]
        /\ req' = [req EXCEPT ![p].id = n]
    /\ creations' = creations + 1
    /\ pc' = [pc EXCEPT ![p] = "reload"]
    /\ lock' = EndTx(p)
    /\ UNCHANGED <<edges, tx, ret, opsLeft>>

\* Update, first statement: FindByID outside the transaction.
UpdFind(p) ==
    LET i == req[p].id IN
    /\ pc[p] = "upd_find"
    /\ IF Exists(i)
       THEN /\ tx' = [tx EXCEPT ![p].known = issue[i].state]
            /\ pc' = [pc EXCEPT ![p] = "upd_row"]
            /\ UNCHANGED ret
       ELSE Return(p, FALSE, NoId)
    /\ UNCHANGED <<issue, scope, links, edges, lock, req, opsLeft, born, creations>>

\* updateIssueInTx, UPDATE issues: takes the issue row lock (0 rows when
\* the issue is gone).  The new column values are applied at commit.
UpdRow(p) ==
    /\ pc[p] = "upd_row"
    /\ FreeFor(p, Needs(p))
    /\ lock' = Acquire(p, Needs(p))
    /\ pc' = [pc EXCEPT ![p] = "upd_commit"]
    /\ UNCHANGED <<issue, scope, links, edges, req, tx, ret, opsLeft, born, creations>>

\* updateIssueInTx, replaceIssueLinks and updateIssueScopeInTx, then commit.
\* Inserting links of a deleted issue violates fk_issues_links: rollback.
UpdCommit(p) ==
    LET i == req[p].id
        u == UpdatePayload(p)
    IN
    /\ pc[p] = "upd_commit"
    /\ FreeFor(p, Needs(p))
    /\ lock' = EndTx(p)
    /\ IF ~Exists(i) /\ u.links # {}
       THEN /\ Return(p, FALSE, NoId)
            /\ UNCHANGED <<issue, scope, links>>
       ELSE /\ issue' = IF Exists(i)
                        THEN [issue EXCEPT ![i] = UpdatedIssue(@, u, tx[p].known, Now(p))]
                        ELSE issue
            /\ scope' = IF Exists(i)
                        THEN [scope EXCEPT ![i] = UpdatedScope(@, u)]
                        ELSE scope
            /\ links' = IF u.links # {}
                        THEN {x \in links : x[1] # i} \cup {<<i, l>> : l \in u.links}
                        ELSE links
            /\ pc' = [pc EXCEPT ![p] = "reload"]
            /\ UNCHANGED <<tx, ret>>
    /\ UNCHANGED <<edges, req, opsLeft, born, creations>>

\* CreateOrUpdate, Create and Update end with FindByID to reload the
\* record; an issue deleted since the commit comes back as nil, nil.
Reload(p) ==
    /\ pc[p] = "reload"
    /\ Return(p, TRUE, IF Exists(req[p].id) THEN req[p].id ELSE NoId)
    /\ UNCHANGED <<issue, scope, links, edges, lock, req, opsLeft, born, creations>>

\* Delete, first statement: FindByID outside the transaction.
DelFind(p) ==
    /\ pc[p] = "del_find"
    /\ IF Exists(req[p].id)
       THEN pc' = [pc EXCEPT ![p] = "del_children"] /\ UNCHANGED <<tx, ret>>
       ELSE Return(p, FALSE, NoId)
    /\ UNCHANGED <<issue, scope, links, edges, lock, req, opsLeft, born, creations>>

\* Delete, DELETE related_issues (source or target) and DELETE links: the
\* rows seen now are locked and deleted at commit.
DelChildrenAutocommit(p) ==   \* mutant: Delete not wrapped in a transaction
    LET i == req[p].id IN
    /\ pc[p] = "del_children"
    /\ FreeFor(p, Needs(p))
    /\ links' = {x \in links : x[1] # i}
    /\ edges' = [e \in BagToSet(edges) \ Touching(i) |-> edges[e]]
    /\ tx' = [tx EXCEPT ![p].snapL = {}, ![p].snapE = EmptyBag]
    /\ pc' = [pc EXCEPT ![p] = "del_issue"]
    /\ UNCHANGED <<issue, scope, lock, req, ret, opsLeft, born, creations>>
DelChildren(p) ==
    LET i == req[p].id IN
    /\ pc[p] = "del_children"
    /\ FreeFor(p, Needs(p))
    /\ lock' = Acquire(p, Needs(p))
    /\ tx' = [tx EXCEPT ![p].snapL = LinksOf(i),
                        ![p].snapE = [e \in Touching(i) |-> edges[e]]]
    /\ pc' = [pc EXCEPT ![p] = "del_issue"]
    /\ UNCHANGED <<issue, scope, links, edges, req, ret, opsLeft, born, creations>>

\* Delete, DELETE issues and DELETE issue_scopes, then commit.  Links or
\* edges committed by others since the previous statement still reference
\* the row: fk_issues_links / fk_issues_related_* roll the whole delete back.
\* Committed, the two DELETEs remove the rows they saw (the snapshot).
DelDangling(p) ==
    LET i == req[p].id IN
    \/ LinksOf(i) # tx[p].snapL
    \/ \E e \in Touching(i) :
           e \notin DOMAIN tx[p].snapE \/ edges[e] > tx[p].snapE[e]
DelIssueNoFKCheck(p) ==   \* mutant: the foreign keys not enforced
    LET i == req[p].id IN
    /\ pc[p] = "del_issue"
    /\ FreeFor(p, Needs(p))
    /\ lock' = EndTx(p)
    /\ issue' = [issue EXCEPT ![i] = NoRow]
    /\ scope' = [scope EXCEPT ![i] = NoRow]
    /\ links' = links \ {<<i, l>> : l \in tx[p].snapL}
    /\ edges' = edges (-) tx[p].snapE
    /\ Return(p, TRUE, NoId)
    /\ UNCHANGED <<req, opsLeft, born, creations>>
DelIssue(p) ==
    LET i == req[p].id IN
    /\ pc[p] = "del_issue"
    /\ FreeFor(p, Needs(p))
    /\ lock' = EndTx(p)
    /\ IF Exists(i) /\ DelDangling(p)
       THEN Return(p, FALSE, NoId) /\ UNCHANGED <<issue, scope, links, edges>>
       ELSE /\ issue' = [issue EXCEPT ![i] = NoRow]
            /\ scope' = [scope EXCEPT ![i] = NoRow]
            /\ links' = links \ {<<i, l>> : l \in tx[p].snapL}
            /\ edges' = edges (-) tx[p].snapE
            /\ Return(p, TRUE, NoId)
    /\ UNCHANGED <<req, opsLeft, born, creations>>

\* ResolveByScope, first statement: Pluck the ids of the ACTIVE issues of
\* the namespace whose scope has the resource type and name.  No
\* transaction: nothing is locked and the list is stale when used.
InResolveScope(i, s) ==
    /\ Exists(i) /\ issue[i].state = Active /\ issue[i].ns = s.ns
    /\ scope[i].rtype = s.rtype /\ scope[i].rname = s.rname
RbsPluck(p) ==
    LET ids == {i \in Ids : InResolveScope(i, req[p].sc)} IN
    /\ pc[p] = "rbs_pluck"
    /\ IF ids = {}
       THEN Return(p, TRUE, 0)
       ELSE /\ tx' = [tx EXCEPT ![p].ids = ids]
            /\ pc' = [pc EXCEPT ![p] = "rbs_update"]
            /\ UNCHANGED ret
    /\ UNCHANGED <<issue, scope, links, edges, lock, req, opsLeft, born, creations>>

RbsUpdate(p) ==
    LET hit == {i \in tx[p].ids : Exists(i)} IN
    /\ pc[p] = "rbs_update"
    /\ FreeFor(p, Needs(p))
    /\ issue' = [i \in Ids |-> IF i \in hit
                               THEN [issue[i] EXCEPT !.state = Resolved,
                                                     !.resolved = Now(p)]
                               ELSE issue[i]]
    /\ Return(p, TRUE, Cardinality(hit))
    /\ UNCHANGED <<scope, links, edges, lock, req, opsLeft, born, creations>>

\* AddRelatedIssue, first statements: FindByID of both issues and the
\* look-up of an edge in either direction, outside any transaction.
ArCheck(p) ==
    LET a == req[p].id
        b == req[p].id2
    IN
    /\ pc[p] = "ar_check"
    /\ IF ~Exists(a) \/ ~Exists(b) \/ {<<a, b>>, <<b, a>>} \cap BagToSet(edges) # {}
       THEN Return(p, FALSE, NoId)
       ELSE pc' = [pc EXCEPT ![p] = "ar_insert"] /\ UNCHANGED <<tx, ret>>
    /\ UNCHANGED <<issue, scope, links, edges, lock, req, opsLeft, born, creations>>

\* AddRelatedIssue, INSERT related_issues: only the foreign keys are checked.
ArInsert(p) ==
    LET a == req[p].id
        b == req[p].id2
    IN
    /\ pc[p] = "ar_insert"
    /\ IF Exists(a) /\ Exists(b)
       THEN edges' = BagAdd(edges, <<a, b>>) /\ Return(p, TRUE, NoId)
       ELSE Return(p, FALSE, NoId) /\ UNCHANGED edges
    /\ UNCHANGED <<issue, scope, links, lock, req, opsLeft, born, creations>>

\* RemoveRelatedIssue: one DELETE of the pair in either direction; zero rows
\* affected is an error.
RrDelete(p) ==
    LET a == req[p].id
        b == req[p].id2
    IN
    /\ pc[p] = "rr_delete"
    /\ FreeFor(p, Needs(p))
    /\ IF {<<a, b>>, <<b, a>>} \cap BagToSet(edges) = {}
       THEN Return(p, FALSE, NoId) /\ UNCHANGED edges
       ELSE /\ edges' = BagRemoveAll(BagRemoveAll(edges, <<a, b>>), <<b, a>>)
            /\ Return(p, TRUE, NoId)
    /\ UNCHANGED <<issue, scope, links, lock, req, opsLeft, born, creations>>

\* Any statement may fail (connection loss, context deadline): the open
\* transaction rolls back and the call returns its error.  StatementsFail
\* switches this fault off; a failure is never fair and only ends a call
\* sooner, so the liveness run asks its question of the fault-free steps.
Fail(p) ==
    /\ StatementsFail /\ pc[p] # "idle"
    /\ lock' = EndTx(p)
    /\ Return(p, FALSE, NoId)
    /\ UNCHANGED <<issue, scope, links, edges, req, opsLeft, born, creations>>

\* PostgreSQL's deadlock detector aborts one transaction of a wait cycle.
DeadlockAbort(p) ==
    /\ TransitiveClosure(WaitsFor, Procs)[p, p]
    /\ lock' = EndTx(p)
    /\ Return(p, FALSE, NoId)
    /\ UNCHANGED <<issue, scope, links, edges, req, opsLeft, born, creations>>

Serve(p) ==
    \/ CouFind(p) \/ CouInsert(p) \/ UpdFind(p) \/ UpdRow(p) \/ UpdCommit(p)
    \/ Reload(p) \/ DelFind(p) \/ DelChildren(p) \/ DelIssue(p)
    \/ RbsPluck(p) \/ RbsUpdate(p) \/ ArCheck(p) \/ ArInsert(p) \/ RrDelete(p)

Next ==
    \E p \in Procs :
        \/ CallCreateOrUpdate(p) \/ CallUpdate(p) \/ CallDelete(p)
        \/ CallResolveByScope(p) \/ CallAddRelated(p) \/ CallRemoveRelated(p)
        \/ Serve(p) \/ Fail(p) \/ DeadlockAbort(p)

Spec == Init /\ [][Next]_vars

\* Handler goroutines keep running; PostgreSQL grants a released row lock to
\* the waiters in queue order (strong fairness on steps that wait for one)
\* and its deadlock detector always fires on a cycle.  Failures are not fair.
Fairness == \A p \in Procs : SF_vars(Serve(p)) /\ WF_vars(DeadlockAbort(p))
FairSpec == Spec /\ Fairness

-----------------------------------------------------------------------------
(***************************************************************************)
(* FindAll over one committed state: a filter is [ns, itype, state, rtype, *)
(* rname, search, limit, offset] with "" for an unset field (a nil pointer *)
(* of IssueQueryFilters).  Severity and the title are not in the rows and  *)
(* are left out; the LIKE search is abstracted to the one description a    *)
(* search term stands for.  detected_at is time.Now() of the creating     *)
(* createNewIssueInTx, so it orders issues as their creations committed.   *)
(***************************************************************************)
DetectedAt(i) == born[i].serial

\* The WHERE clauses FindAll stacks; the issue_scopes JOIN is added once
\* either scope filter is set, and then needs the scope row.
FieldPasses(f, fld, v) == f[fld] = "" \/ f[fld] = v
QueryMatches(f, i) ==
    /\ Exists(i)
    /\ FieldPasses(f, "ns", issue[i].ns)
    /\ FieldPasses(f, "itype", issue[i].itype)
    /\ FieldPasses(f, "state", issue[i].state)
    /\ \/ f.rtype = "" /\ f.rname = ""
       \/ /\ scope[i] # NoRow
          /\ FieldPasses(f, "rtype", scope[i].rtype)
          /\ FieldPasses(f, "rname", scope[i].rname)
    /\ FieldPasses(f, "search", issue[i].desc)

\* ORDER BY detected_at DESC over a set of issues.
RECURSIVE NewestFirst(_)
NewestFirst(S) ==
    IF S = {} THEN <<>>
    ELSE LET n == CHOOSE n \in S : \A j \in S : DetectedAt(j) <= DetectedAt(n)
         IN <<n>> \o NewestFirst(S \ {n})

\* OFFSET off LIMIT lim of a sequence.
Window(s, off, lim) ==
    LET n == IF Len(s) - off < lim THEN Len(s) - off ELSE lim
    IN [k \in 1..n |-> s[off + k]]

\* Count, then the ordered page: Offset, and Limit defaulting to 50.
FindAllOldestFirst(f) ==   \* mutant: ORDER BY detected_at ASC
    LET M == {i \in Ids : QueryMatches(f, i)}
        limit == IF f.limit = 0 THEN 50 ELSE f.limit
        rev == NewestFirst(M)
        sorted == [k \in 1..Len(rev) |-> rev[Len(rev) + 1 - k]]
    IN [total |-> Cardinality(M), page |-> Window(sorted, f.offset, limit)]
FindAll(f) ==
    LET M == {i \in Ids : QueryMatches(f, i)}
        limit == IF f.limit = 0 THEN 50 ELSE f.limit
        sorted == NewestFirst(M)
    IN [total |-> Cardinality(M), page |-> Window(sorted, f.offset, limit)]

-----------------------------------------------------------------------------
(***************************************************************************)
(* Refinement mapping onto IssueStore: an issue row and the scope row it   *)
(* owns form one stored issue (a scope left without its issue, or an issue *)
(* without its scope, still shows); links and edges map to themselves.     *)
(* Calls in flight, locks and snapshots are hidden: only commits move the  *)
(* abstract store.                                                         *)
(***************************************************************************)
StoredIssues ==
    [i \in Ids |-> IF issue[i] = NoRow /\ scope[i] = NoRow THEN NoRow
                   ELSE [row |-> issue[i], scope |-> scope[i]]]
Store == INSTANCE IssueStore WITH issues <- StoredIssues, NullStamp <- NullTime

-----------------------------------------------------------------------------
(***************************************************************************)
(* Properties.                                                             *)
(***************************************************************************)
Pcs == {"idle", "cou_find", "cou_insert", "upd_find", "upd_row", "upd_commit",
        "reload", "del_find", "del_children", "del_issue", "rbs_pluck",
        "rbs_update", "ar_check", "ar_insert", "rr_delete"}

TypeOK ==
    /\ \A i \in Ids : Exists(i) =>
           /\ issue[i].state \in {Active, Resolved}
           /\ issue[i].resolved \in {NullTime, GivenTime} \cup (Procs \X (0..MaxOps))
    /\ links \subseteq Ids \X LinkVals
    /\ IsABag(edges) /\ BagToSet(edges) \subseteq Ids \X Ids
    /\ lock \in [Groups -> Procs \cup {NoProc}]
    /\ pc \in [Procs -> Pcs]
    /\ \A p \in Procs : req[p].op \in AllOps \cup {"none"}
    /\ opsLeft \in [Procs -> 0..MaxOps]
    /\ creations \in 0..Cardinality(Ids)

\* The dedup guarantee CreateOrUpdate and Create actually give: two issues
\* share a dedup key only if the later one was created by a call whose
\* findDuplicateInTx ran before the earlier one was committed (the
\* check-then-insert race of concurrent first reports), never when the
\* earlier issue, ACTIVE or RESOLVED, was already visible.
DuplicatesOnlyFromOverlap ==
    \A i, j \in Ids :
        /\ i # j /\ Exists(i) /\ Exists(j) /\ Key(i) = Key(j)
        /\ born[i].serial < born[j].serial
        => born[j].seen < born[i].serial

\* What the spec and TestIssueRepository_CreateOrUpdate_NoDuplicates
\* require of CreateOrUpdate: at most one issue per dedup key.
DedupKeyUnique ==
    \A i, j \in Ids : i # j /\ Exists(i) /\ Exists(j) => Key(i) # Key(j)

\* Delete's ordered cascade and the schema's foreign keys leave no orphan:
\* every link and edge references an existing issue and an issue and its
\* scope exist together, under concurrent Update, CreateOrUpdate,
\* AddRelatedIssue and Delete.
RefIntegrity ==
    /\ \A x \in links : Exists(x[1])
    /\ \A e \in BagToSet(edges) : Exists(e[1]) /\ Exists(e[2])
    /\ \A i \in Ids : Exists(i) <=> scope[i] # NoRow

\* spec.md 4.3 and the either-direction check of AddRelatedIssue: at most
\* one related_issues row joins two distinct issues, whatever its direction
\* (self-edges are an open question of the spec and are left out).
EdgesUndirectedUnique ==
    \A a, b \in Ids : a # b => CopiesIn(<<a, b>>, edges) + CopiesIn(<<b, a>>, edges) <= 1

\* spec.md 4.4, FindAll: the filters are independently optional and
\* conjunctive, results are ordered by detected-at descending, paginated
\* by limit (default 50) and offset, and the total counts every match,
\* independent of the page.  Stated by rank, without sorting:
SpecAttrs(i) == [ns |-> issue[i].ns, itype |-> issue[i].itype,
                 state |-> issue[i].state, rtype |-> scope[i].rtype,
                 rname |-> scope[i].rname, search |-> issue[i].desc]
SpecMatch(f, i) ==
    Exists(i) /\ \A fld \in DOMAIN SpecAttrs(i) : f[fld] \in {"", SpecAttrs(i)[fld]}
SpecRank(f, i) == Cardinality({j \in Ids : SpecMatch(f, j) /\ DetectedAt(j) > DetectedAt(i)})
SpecFindAll(f) ==
    LET M == {i \in Ids : SpecMatch(f, i)}
        lim == IF f.limit = 0 THEN 50 ELSE f.limit
        P == {i \in M : f.offset <= SpecRank(f, i) /\ SpecRank(f, i) < f.offset + lim}
    IN [total |-> Cardinality(M),
        page |-> [k \in 1..Cardinality(P) |-> CHOOSE i \in P : SpecRank(f, i) = f.offset + k - 1]]

\* FindAll's query (its WHERE clauses, the scope JOIN, ORDER BY detected_at
\* DESC, OFFSET and the defaulted LIMIT) returns, in every reachable state
\* of the concurrent writers, exactly the page and total the spec defines.
FindAllAsSpecified == \A f \in QueryFilters : FindAll(f) = SpecFindAll(f)

\* Every repository call returns: waits on row locks end because holders
\* commit or roll back, and lock cycles (Delete locks links before the
\* issue row, Update the issue row before links) are broken by the
\* database.
RequestsComplete == \A p \in Procs : pc[p] # "idle" ~> pc[p] = "idle"

\* spec.md 3: resolved_at is set on the transition to RESOLVED (or given
\* explicitly); a write to a RESOLVED issue that keeps it RESOLVED, such
\* as Update judging the transition on the state it read before its
\* transaction, must not re-stamp it.
ResolvedAtKept ==
    [][\A i \in Ids :
         /\ Exists(i) /\ issue[i].state = Resolved
         /\ issue'[i] # NoRow /\ issue'[i].state = Resolved
         => issue'[i].resolved \in {issue[i].resolved, GivenTime}
      ]_vars

\* Every commit of a repository call is one atomic step of the abstract
\* store, and a call that fails or is aborted changes nothing.  Its content
\* is Delete: edges, links, issue and scope go in one commit inside the
\* transaction at line 688, never half of them, whatever runs concurrently.
StoreRefinement == Store!ASpec

\* The webhook handlers (PipelineFailure, MintmakerIssues, ReleaseFailure)
\* read issue.ID after CreateOrUpdateIssue returned no error: a successful
\* CreateOrUpdate must return an issue, not nil.
ReloadFindsIssue ==
    [][\A p \in Procs :
         pc[p] = "reload" /\ pc'[p] = "idle" /\ req[p].op = "CreateOrUpdate"
           => ret'[p].val # NoId
      ]_vars

=============================================================================
