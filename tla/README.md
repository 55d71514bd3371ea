# TLA+ models of the kite backend

This directory holds TLA+ specifications of the kite issue backend, which is
under `src/packages/backend`. It also holds the TLC configurations that check
them and `PROJECT.json`. That file lists the components, the runs, the mutants,
the mapping from definitions to source lines, the findings and the hazards.

## The system

Kite records failures of CI/CD activity in a Kubernetes cluster as *issues*.

- **Webhook handlers** (`webhook_handlers.go`) turn pipeline, release and
  MintMaker events into repository calls:
  - a failure event calls `CreateOrUpdateIssue` with a key of
    namespace, type, resource type, resource name and namespace, plus log links;
  - a success event calls `ResolveIssuesByScope`.
- **The issue repository** (`router.go`, lines 92-873, the repository file
  concatenated into it) is the engine. It deduplicates reports on the key
  (namespace, issue type, resource type, resource name, resource namespace).
  It runs the issue lifecycle ACTIVE → RESOLVED, keeps the links and
  related-issue edges, and deletes issues together with their scope, links and
  edges. Every method is a sequence of SQL statements through GORM. Some run
  inside a transaction and some do not.
- **PostgreSQL** (schema in `src/unnamed/part_000`, lines 1-45). It provides:
  - row locks and READ COMMITTED isolation;
  - foreign keys from links and related_issues to issues, and from issues to
    issue_scopes;
  - no unique constraint on the dedup key.
- **Middleware** (`src/unnamed/part_002`): namespace access checks, which
  `SetupRouter` installs in front of the issues and webhook routes. Token
  authentication with a result cache and impersonation are defined there too,
  but no code installs them.
- **Server startup and configuration** (`cmd/server/main.go`,
  `internal/config/config.go`): main reads the environment and a `.env`
  file, validates a `Config`, builds the logger, opens the database, starts
  the HTTP server (TLS or plain) in a goroutine and shuts it down on a signal
  under a deadline.

Concurrency comes from gin serving every HTTP request in its own goroutine.
Any number of webhook and API calls run repository methods at the same time.
They share state only through the database.

## Inventory

**State.** The tables `issues`, `issue_scopes`, `links` and `related_issues`.
The row locks held by open transactions. The process environment, the
`Config`, the logger and the server goroutine's state. (The middleware's token
cache belongs to `Authentication`, which is never installed.)

**Operations that change state:**
- `CreateOrUpdate` and `Create`: a find-duplicate step, then an insert or an
  update;
- `Update`: FindByID, then update the row, replace the links and update the
  scope;
- `Delete`: FindByID, then a transaction that deletes edges, links, the issue
  and the scope;
- `ResolveByScope`: a Pluck of the ACTIVE ids, then an UPDATE by id;
- `AddRelatedIssue`: checks, then an insert;
- `RemoveRelatedIssue`: a single delete;
- `main`: load the environment, load the config, start, serve, shut down.

**Hard behaviours:**
- the check-then-insert race of concurrent first reports;
- values read outside a transaction and used later (Update's FindByID,
  ResolveByScope's id list, AddRelatedIssue's checks, the reload after
  commit);
- the opposite lock orders of Update and Delete;
- foreign-key rollbacks when a child row appears during a Delete;
- statement failures in the middle of a transaction.

**What makes it correct:**
- at most one issue per dedup key (spec.md §3);
- no orphan link, edge or scope;
- every call returns;
- every call commits atomically: what other callers see moves from one state
  of the abstract store to the next (spec.md §7);
- CreateOrUpdate returns an issue when it returns no error;
- resolved_at is stamped once, on the transition to RESOLVED;
- at most one edge joins two issues, whatever its direction;
- a success webhook answered last leaves no ACTIVE issue of its run;
- the namespace check guards the namespace the handler writes to;
- the logger logs at the configured level;
- a shutdown always ends the process;
- plain HTTP is served only in development.

## Modules

### `IssueRepository.tla`: the repository over the database

**State.** Each handler is a process of `Procs`. The tables are variables:
- `issue` and `scope` are functions from ids to row records or `NoRow`;
- `links` is a set of `<<id, link>>`;
- `edges` is a bag of pairs, so duplicate relation rows can be represented.

The rows are reduced to the fields that the guards and properties read.

**Locks.** `lock` maps row groups to the transaction that holds them. The
groups are an issue row, the links of an issue, and the edge rows of a pair.

**Control state.** Each handler has:
- `pc`, its current step;
- `req`, the call it is serving;
- `tx`, what its earlier statements read;
- `ret`, its result;
- `opsLeft`, its call budget.

`born` and `creations` are history variables. They record, for each created
issue, its commit serial and how many creations its find-duplicate step had
seen.

**Actions.** Each step is one SQL statement, or a group of statements whose
interleaving does not matter:

| action | code |
|---|---|
| `CouFind` | `findDuplicateInTx` in `CreateOrUpdate` / `Create` |
| `CouInsert` | `createNewIssueInTx` and commit |
| `UpdFind` | `Update`'s `FindByID` (outside the transaction) |
| `UpdRow` | `updateIssueInTx`'s `UPDATE issues` (row lock) |
| `UpdCommit` | the rest of `updateIssueInTx`, `replaceIssueLinks`, `updateIssueScopeInTx`, commit or FK rollback |
| `Reload` | the final `FindByID` of `CreateOrUpdate`, `Create` and `Update` |
| `DelFind`, `DelChildren`, `DelIssue` | `Delete`: the lookup, the edge and link deletes, the issue and scope deletes with commit or FK rollback |
| `RbsPluck`, `RbsUpdate` | `ResolveByScope`: the Pluck, then the `UPDATE ... WHERE id IN ids` |
| `ArCheck`, `ArInsert` | `AddRelatedIssue`: the existence and either-direction checks, then the insert |
| `RrDelete` | `RemoveRelatedIssue` |
| `Fail` | any statement failing: the transaction rolls back and the call errors |
| `DeadlockAbort` | PostgreSQL's deadlock detector aborting one member of a wait cycle |

**Waiting.** A step that needs a row group held by another transaction waits.
`Needs`, `FreeFor` and `Blocked` express this. `WaitsFor` together with
`TransitiveClosure` from the `Relation` module finds wait cycles.

**`LockOnFind`.** `findDuplicateInTx` sets `gorm:query_option` to `FOR UPDATE`
(line 263). That was a GORM v1 option and GORM v2 ignores it, so the code as
built takes no lock. `LockOnFind = FALSE` models the code as built, and
`LockOnFind = TRUE` models the lock the comment intends.

`resolved_at` is kept as a value, not a flag. It is NULL, a time given in
the request, or `Now(p)`: the time of handler p's current call, which differs
from every other write. This lets a property tell a re-stamp from a kept
value.

`MCIssueRepository.tla` instantiates the module for TLC. It uses two handlers
and four ids; ids are never reused, and four is enough for every call to create
one. It offers webhook-shaped reports: one pipeline run, with no state, and the
resource namespace equal to the namespace. It offers two `PUT` payloads (a
manual resolve and a relink), and the matching pipeline-success scope.

### `Webhooks.tla`: webhook handlers and the namespace gate over the repository

`Webhooks.tla` EXTENDS `IssueRepository`. A handler takes a request from the
constant set `Hooks` (action `Receive`). It then does these steps in order:

1. It passes the `CheckNamespacessAccess` gate (`AccessOutcomes`). The gate
   reads the namespace from the query only (`CheckedNamespace`): the
   `requestBody` context value it also consults is set by no code. With a
   Kubernetes client, Kite's own SelfSubjectAccessReview decides; an error of
   that review also denies. `Authentication` is not installed by
   `SetupRouter`, so there is never a user in the context.
2. It binds the JSON (`Binds`, the `binding:"required"` fields).
3. For MintMaker, it returns early when there are no logs.
4. It builds the report (`PipelineFailureReport`, `MintmakerReport`,
   `ReleaseFailureReport`) or the success scope (`SuccessScope`).
5. It makes the repository call through the unchanged `IssueRepository`
   steps (`StartCall`, through `CreateOrUpdateIssue` or
   `ResolveIssuesByScope`).

Steps 3 to 5 are one action per handler, named after it:
`PipelineFailure`, `PipelineSuccess`, `MintmakerIssues`, `ReleaseFailure`
and `ReleaseSuccess`. `Receive` dispatches on the route after the gate and
binding, as the route table of `SetupRouter` does. `NewNamespaceChecker`
never returns an error, so the gate is always installed. Without a cluster
client it lets every request through (`HasClient = FALSE`). The
`KITE_FEATURE_NAMESPACE_CHECKING` flag that `LoadConfig` reads is never
consulted, so it cannot switch the gate off.

`Respond` answers once the call has returned. The answer is 500 on an error,
and also 500 when a nil issue came back (`gin.Recovery` catches the
dereference). Otherwise it is 201 or 200.

The history variable `last` records, for each scope, the latest request
received and whether its answer failed. The constant `SerialPerScope` says
whether a sender waits for an answer before posting about the same scope
again.

`MCWebhooks.tla` uses two handlers. The passing run's requests are one
pipeline run (failure, success, and a failure missing its reason, which
binding refuses), one application (release failure and success), and a
MintMaker request without logs (the early 200). A MintMaker request with
logs is not in the passing run: it adds a third issue scope, and the run
then takes six minutes. Its report is built by `MintmakerReport` like the
others. The cross_namespace
run adds, for each pipeline request, a copy whose body names another
namespace than its query.

### `FindAll`: the query, checked against the spec

`FindAll(f)` in `IssueRepository.tla` translates the query that `FindAll`
builds (router.go 300-363):
- `QueryMatches` is the stacked `WHERE` clauses. The `issue_scopes` JOIN is
  added when either scope filter is set.
- `NewestFirst` is `ORDER BY detected_at DESC`.
- `Window` is `OFFSET` and `LIMIT`, where a zero limit becomes 50.
- `total` is the `Count`.

`detected_at` is the `time.Now()` of the creating `createNewIssueInTx`, so
`DetectedAt` orders issues by the order their creations committed.

Two abstractions apply. Severity and the title are not in the model's rows,
so their filters are left out. The case-insensitive `LIKE` on the title or
description is abstracted to the description that a search term stands for.

`SpecFindAll` states spec.md §4.4 a second way: a filter field is unset or
equal, the rank of an issue counts the newer matches, and the page holds
the ranks in `[offset, offset + limit)`. The invariant `FindAllAsSpecified`
compares the two for eleven filters in every state of the dedup run. The
filters are: none, one field at a time, and pages of one row at offsets 0
and 1. Both queries read one committed state, so the drift between
`FindAll`'s two queries under a concurrent writer is not checked. The
hazard list records it.

### `IssueStore.tla`: what the repository promises, and the refinement

`IssueStore` is the abstract store of spec.md §3, §4.2, §4.3 and §7. It has
three variables: `issues` (each id to its row paired with its scope, or
`NoRow`), `links` and the bag `edges`. Each repository call is one atomic
action: `Insert`, `Modify`, `Resolve` (one common resolved-at stamp, never
NULL), `Remove` (the issue with its links and incident edges), `Relate` and
`Unrelate`.

`IssueRepository` defines the refinement mapping `StoredIssues`, which pairs
each `issue` row with its `scope` row, and instantiates
`Store == INSTANCE IssueStore WITH issues <- StoredIssues, NullStamp <- NullTime`.
`links` and `edges` map to themselves. Only the steps that commit move the
abstract state; reads, row updates inside an open transaction and rollbacks
are stuttering steps. The property `StoreRefinement == Store!ASpec` is
checked in the cascade run, where it says that Delete's four statements
(edges, links, issue, scope) commit together: run outside the transaction
they would expose a state `IssueStore` cannot reach.  `Modify` accepts any
change to one issue, so the property says nothing about calls that commit a
single row, and the dedup run does not check it.

Three promises are left out of `IssueStore` on purpose: one issue per dedup
key, ResolveByScope leaving RESOLVED issues untouched, and one edge per pair.
The code breaks each of them under concurrency, and the race, restamp and
edge_race runs show it on `IssueRepository` directly.

### `Startup.tla`: main and the configuration

`Startup` models `main` (`cmd/server/main.go`) with `LoadConfig`,
`Validate` and the env helpers of `internal/config/config.go`. The
environment is a function from five variables to strings, with `""` for
unset. `KITE_READ_TIMEOUT` stands for the four duration settings, which are
read the same way.

| action | code |
|---|---|
| `LoadEnv` | `projectEnv := getEnvOrDefault("KITE_PROJECT_ENV", "development")`, then `godotenv.Load(".env." + projectEnv)`, which never overrides a set variable |
| `LoadConfig` | `config.LoadConfig` and `Validate` (`log.Fatalf` on error), then `setupLogger` |
| `Start` | `InitDatabase` and `db.DB()` (either may be fatal), `SetupRouter`, the server goroutine started |
| `Listen` | the goroutine: `ListenAndServeTLS` unless projectEnv is "development", `ErrServerClosed` after a shutdown, any other error fatal |
| `Arrive`, `Finish` | a request in flight, bounded by `MaxRequests` |
| `Signal` | SIGINT or SIGTERM; `server.Shutdown` closes the listener |
| `Drained`, `Deadline` | Shutdown returning nil, or its `ShutdownTimeout` context expiring |

`GetEnvDurationOrDefault` is modelled as written: its error check is
inverted (config.go line 203), so a valid duration gives the default and an
invalid one gives 0. `KITE_LOG_FORMAT` is validated but never used:
`setupLogger` picks JSON only when `KITE_PROJECT_ENV` is "production".

`MCStartup.tla` offers 108 environments: `KITE_PROJECT_ENV` unset,
"production" or "development"; a port unset or "0"; a duration unset, valid
or invalid; a log level unset, valid or invalid; a log format unset or
"text". Only `.env.development` exists, and it sets a duration and a level,
so both the file and the variables it must not override are exercised. Two
requests in flight are enough to see a shutdown racing a hanging request.
Deadlock checking is off because the process exits.

## Runs

| run | expect | checks | shows |
|---|---|---|---|
| dedup | pass | TypeOK, DuplicatesOnlyFromOverlap, FindAllAsSpecified | Two issues share a key only when the later one's find step ran before the earlier one committed. A visible issue, ACTIVE or RESOLVED, is always found, so sequential reports of one resource give one issue (see below on docs/Webhooks.md). FindAll returns the page and total that spec.md defines. |
| cascade | pass | RefIntegrity, StoreRefinement | Delete racing with create, update and relation calls leaves no orphan. Delete's DELETEs remove the rows they saw; a child inserted after them is stopped only by the foreign keys, which roll Delete back. Delete's four statements commit as one step of `IssueStore`. |
| liveness | pass | RequestsComplete | Every call returns. This includes the lock cycle between Update (row, then links) and Delete (links, then row). |
| race | violation | DedupKeyUnique | Two concurrent first reports create two issues, even with `LockOnFind = TRUE`. |
| nil_reload | violation | ReloadFindsIssue | A Delete between commit and reload makes CreateOrUpdate return nil and no error. The webhook handler then dereferences it. |
| edge_race | violation | EdgesUndirectedUnique | Two concurrent AddRelatedIssue calls for a pair (a, b) and (b, a) both pass the check and insert two edges. |
| restamp | violation | ResolvedAtKept | resolved_at of a RESOLVED issue is overwritten. Update decides on the state it read before its transaction; ResolveByScope updates by the id list it plucked earlier, without re-checking ACTIVE. |
| webhooks_serial | pass | DedupKeyUnique, SuccessLastResolves | Pipeline, release and MintMaker traffic behind the gate, with senders that wait for answers: one issue per key, and a success answered last leaves its run without an ACTIVE issue. |
| webhooks_overlap | violation | SuccessLastResolves | A success processed while the failure of the same run is inside its transaction resolves nothing. The failure's issue stays ACTIVE. |
| cross_namespace | violation | IssuesInCheckedNamespaces | The gate checks the query namespace. The handler writes the body namespace, which can be any namespace. Conversely, the form in Webhooks.md (namespace only in the body) is refused with 400. |
| startup | pass | LoggerLevelConfigured, ShutdownCompletes | Over 108 process environments, with or without a `.env` file: the logger's level is the validated one, and a signal always ends the process, even when a request never finishes. |
| startup_plain | violation | PlainOnlyInDevelopment | With `KITE_PROJECT_ENV` unset, main serves plain HTTP while the Config says "production". |

Each passing property has a mutant in `PROJECT.json`, and TLC finds each mutant
violated:
- the ACTIVE-only filter described in the comment at line 234;
- a missing ACTIVE default;
- Delete's issue DELETE without the foreign keys' rollback (RefIntegrity);
- a transaction that never releases its locks;
- a success webhook resolving the resource type "pipeline";
- Delete's child deletes committing outside the transaction (refinement);
- Shutdown without a deadline;
- Validate not checking the log level;
- FindAll ordering by detected_at ascending.

**The documentation disagrees with the dedup runs.** docs/Webhooks.md
(lines 261-383) posts two pipeline-failure reports for `frontend-build` in
`team-alpha`, one after the other, and shows two ACTIVE issues with one
scope and a success answering "Resolved 2 issue(s)". The code gives one
issue: the second report's `findDuplicateInTx` finds the first, ACTIVE or
RESOLVED, and updates it. The dedup and webhooks_serial runs pass because
they check the code; `PROJECT.json` records the disagreement as a finding.
The same document agrees with the code at lines 59 and 250.

**Bounds.** Each run restricts `Ops` to the methods its question needs and
gives each handler two calls (`MaxOps = 2`). Two handlers with two calls each reach every pairwise race the
hazards name: insert against insert, delete against update, delete against
add-related, and resolve against resolve. Each of these needs at most two calls
per handler. Safety runs use symmetry over the ids. The liveness run does not,
because symmetry is unsound for liveness.

**Fairness.** `FairSpec` assumes:
- strong fairness on each handler's steps, because goroutines keep running and
  PostgreSQL grants a released row lock to the waiters in queue order;
- weak fairness on the deadlock detector, which always fires on a cycle.

Failures are not fair. The liveness run sets `StatementsFail = FALSE`: a
failure only ends a call sooner, and leaving it out keeps the run within
five minutes. Every other run lets any statement fail. Deadlock checking is
off in every cfg. Handlers stop
after their bounded number of calls, and the system then stops legitimately;
the process of `Startup` exits.

`Startup`'s `SFairSpec` assumes weak fairness on every step of main and of
the server goroutine (`LoadEnv`, `LoadConfig`, `Start`, `Listen`, `Drained`)
and on `Deadline`, since the shutdown context's timer always fires. A
request's `Finish` is not fair: a handler may wait on the database forever.

## Not modelled

1. **Reads as steps.** `FindAll` is checked over committed states.
   Three kinds of read are not steps of the concurrent model, so what a
   writer commits between them is not seen:
   - `FindAll`'s count and its page are two queries;
   - `FindByID`'s preloads are separate queries;
   - the standalone `FindDuplicate` wrapper.

   spec.md §5 accepts stale reads, but the count can disagree with the
   rows returned; this is a hazard without a property.
2. **Access middleware beyond the webhooks.** The gate in front of the
   webhooks is modelled. It is not composed with the issues API routes
   (`PUT`/`DELETE /issues/:id`), whose handlers are outside `src/`.
   `Authentication` (with its token cache) and `Impersonation` are defined
   but never installed by `SetupRouter`: they are dead code and not modelled.
   `Impersonation` also never reads the SubjectAccessReview's `Allowed`
   field.
3. **Issue service.** The `services` package is not in the source tree. The
   webhook model takes `CreateOrUpdateIssue` and `ResolveIssuesByScope` to
   call the repository directly.
4. **Reopening.** spec.md §9 leaves open whether a re-report reopens a
   RESOLVED issue; the code leaves it RESOLVED (router.go line 584), and no
   run asserts either answer.
5. **Configuration durations.** The inverted check of
   `GetEnvDurationOrDefault` is in the model, but no property reads the
   timeouts, which only bound socket I/O.

Logging, JSON layout and the router's route table are not modelled.
