# Verification of k8s-breakglass

TLA+ models of the breakglass service, checked with TLC on small instances and
proved with TLAPS for all instances. Paths below are relative to the
repository; `session_controller.go` and other files without a directory are in
`pkg/breakglass/`.

## 1. The system

A user asks for temporary membership of a privileged group on a cluster
("breakglass session"). An approver of a matching *escalation* approves or
rejects; while the session is valid, the authorization webhook of the target
cluster lets the user act through the session's group. All state is in
Kubernetes custom resources on a hub cluster; the service is a stateless
process that serves HTTP and runs a few periodic loops.

| Component | State | Operations | Interacts through |
|---|---|---|---|
| session controller (`session_controller.go`) | none of its own; each HTTP handler holds copies of sessions | request, approve, reject, withdraw, drop, cancel; read-only GETs | session manager, escalation manager, webhook (via stored status) |
| session manager (`session_manager.go`) | none | Get, List, Create, Status().Update, Update, Delete | the hub's API server (uncached client) |
| cleanup routine (`cleanup_task.go`, `expire_pending_sessions.go`, `expire_approved_sessions.go`) | the list of the current round | time out pending sessions, expire approved ones, delete those past retention or orphaned | the same objects as the handlers |
| session status (`api/v1alpha1/breakglass_session_types.go`) | state, times, conditions, approver | predicates of a status (validators exist, unregistered) | everything |
| authorization webhook (`pkg/webhook/controller.go`) | none | decide a SubjectAccessReview from sessions, deny policies and the target cluster's RBAC | sessions, client provider, deny evaluator |
| deny evaluator (`pkg/policy/deny.go`) | none | match an action against all policies | webhook |
| escalation manager, filtering, controller (`escalation*.go`) | none | find the escalations of a cluster, of groups, of a target group | requests, approvals, webhook |
| group checker (`group_checker.go`) | none | ask the target cluster for groups and permissions | requests, approvals, webhook |
| escalation status updater, Keycloak resolver (`escalation_status_updater.go`) | TTL cache of group members | resolve approver groups, write escalation status | Keycloak, API server |
| cluster config checker (`cluster_config_checker.go`) | none | validate kubeconfigs, write ClusterConfig status | API server, target clusters |
| client provider (`pkg/cluster/cache.go`) | cache of cluster configs and REST configs | get, invalidate | webhook, approvals |
| API server, authentication (`pkg/api`) | JWKS cache | route, verify tokens | every handler |
| mail, events, metrics, logging, config, `cmd/main.go`, frontend | - | - | - |

### What is hard

* **Concurrency without locks.** Every handler and every loop reads an object,
  decides on its copy and writes a *whole status* back. The only protection is
  the API server's optimistic lock, and two places go around it: the request
  handler looks its object up again by triple (`session_controller.go:461`) and
  `ExpireApprovedSessions` puts a fresh resourceVersion on a stale status
  (`expire_approved_sessions.go:43`).
* **Two notions of validity.** The handlers decide by `State`; the webhook by
  `RejectedAt`, `ExpiresAt` and `RetainedUntil` (`pkg/webhook/controller.go:563`).
* **Partial failure.** A session is created in two calls (object, then status).
* **Time.** Approval timeout, validity and retention are noticed only when the
  five-minute loop comes by, while requests and approvals go on.
* **Caches** (Keycloak members, cluster configs) that outlive what they copy.

### What makes each component correct

* *Controller, cleanup, webhook together*: nobody has access without an approval
  by an approver, nor for longer than `maxValidFor`; a session that was ended
  stays ended; what the API shows agrees with what the webhook does; access ends
  when it was said to end; a user has one active session per group.
* *Cleanup*: what is due is done eventually, in spite of conflicts, failing calls
  and restarts; what is not due is left alone.
* *Escalation lookup, approver check*: who gets access asked through an escalation
  that admits him and was approved by somebody an escalation names, with the
  overrides applied per escalation; what can be requested is what is offered.
* *Webhook*: a denied action is never allowed; an allowed one has a session or RBAC.
* *Caches and loops*: a value is not older than its TTL or its last invalidation,
  and never belongs to another cluster or group; a loop that writes whole objects
  listed earlier undoes nobody's edit; what was found is recorded in the end.

`PROJECT.json` lists the hazards at their lines with the properties aimed at them.

## 2. Modules

| Module | Models |
|---|---|
| `Session` | the status of one session: fields, predicates, and the status each operation writes, as pure operators |
| `SessionLifecycle` | handlers, cleanup routine, API server and clock as one state machine; properties; inductive invariants |
| `AccessContract` | the abstract specification: what the service promises about access |
| `SessionContract` | the refinement mapping from `SessionLifecycle` to `AccessContract` |
| `Escalations` | escalation lookups, groups of a caller and the approver check of one escalation, as pure operators |
| `Requests` | the session controller with the escalations and ClusterConfigs it decides from, composed of `SessionLifecycle` and `Escalations` |
| `DenyPolicy` | the deny policy evaluator, as pure operators |
| `Authorizer` | the authorization webhook, composed of `SessionLifecycle` and `DenyPolicy` |
| `ClientProvider` | the cache of ClusterConfigs and REST configurations |
| `ClusterConfigChecker` | the loop that validates ClusterConfigs and reports what it found |
| `StatusUpdater` | the loop that resolves approver groups, and the Keycloak resolver with its cache |
| `MC...` | the instances for TLC |
| `..._proofs` | the theorems and their proofs |

### `Session`

A time is a natural number, 0 is the zero `metav1.Time`. The operators carry the
names of the Go functions (`IsSessionActive`, `IsSessionRetained`, ...).
`GrantsAccess` is the filter of the webhook's `getSessions`: a session authorizes
if and only if it passes. `PendingStatus`, `ApprovedStatus`, `RejectedStatus`,
`WithdrawnStatus`, `DroppedStatus`, `CanceledStatus`, `TimedOutStatus` and
`ExpiredStatus` give the status after each operation, including the fields that
an operation does *not* reset (a timeout leaves `rejectedAt` unset, a withdrawal
keeps `timeoutAt`). Of the list of conditions only the type of the last one is
kept, the only thing the code reads.

### `SessionLifecycle`

*State.* `stored`, `status`, `owned`: the objects in the API server, their status
and whether they have an owner reference; `created`: the names ever generated;
`handler[h]`: what the handler with identity `h` is doing and the copy it holds;
`cleaner`: phase of the cleanup round, items still to do, listed statuses, retry
count; `now`, `faults`; and the histories `approvals` and `revoked` that the
properties refer to.

*Optimistic lock.* Instead of resourceVersions the model keeps, per copy, whether
its version is still the stored one (`current`, `fresh`); a write or a deletion
clears it in all other copies. This keeps the state space finite without a bound
on the number of writes.

*Steps.* One step is one API call with the computation around it.

| Code | Actions |
|---|---|
| request: look for an active session; create; look again; write status | `RequestCheck`, `RequestCreate`, `RequestRead`, `RequestWrite` |
| approve / reject / withdraw / drop / cancel: read and check | `ReadApprove`, `ReadReject`, `ReadWithdraw`, `ReadDrop`, `ReadCancel` |
| ... and write | `Approve`, `End` |
| any call of a handler fails | `Fail` |
| `ExpirePendingSessions` | `ListPending`, `ExpirePending`, `SkipPending` |
| `ExpireApprovedSessions` | `ListApproved`, `ExpireApproved` (with the refetch), `SkipApproved`, `ExpireUpdate`, `ExpireConflict` (with the retry) |
| `markCleanupExpiredSession` | `ListCleanup`, `Delete` |
| a failing call of the cleanup routine; a restart | `CleanerItemFault`, `CleanerListFault`, `Crash` |
| time | `Tick` |

A check that fails answers 4xx and changes nothing; it is a guard. Checks that
read nothing another process writes (the request's fields, the escalations that
allow it, the mandatory reason) come before `RequestCheck` and are part of it.
Who may approve what is the constant `ApproversOf` here; `Requests` computes it.

*External parts*: the API server (linearizable reads, optimistic lock on updates,
deletes without precondition, lists sorted by name, generated names never reused),
the clock and process restarts.

### `DenyPolicy` and `Authorizer`

`DenyPolicy` keeps the names of `pkg/policy/deny.go`. Lists are sets, "*" is the
constant `Any`, `filepath.Match` a given relation (`Globs`). Policies form a set:
the code evaluates them in list order and never reads `precedence`, and the order
only decides which name is reported.

`Authorizer` EXTENDS `SessionLifecycle` and adds the `policies` in force and the
`review` being decided. Reviews write nothing, so one at a time is enough; the
rest of the service takes its steps in between (`ServiceStep`; a crash takes the
review with it) and administrators create and delete policies (`ChangePolicy`).

| Code of `handleAuthorize` | Actions |
|---|---|
| decode, `getUserGroupsAndSessions` (sessions; tenant if it can be read) | `Arrive` |
| deny evaluation, phase 1; its failing list | `EvalGlobal`, `EvalGlobalFails` |
| deny evaluation for each session; its failing list | `EvalSession`, `EvalSessionFails` |
| RBAC check on the target cluster (`CanGroupsDo`): yes; no or no REST config; other errors | `RBACAllows`, `RBACRefuses`, `RBACFails` |
| `authorizeViaSessions`: a SAR allows; none does, fails or no REST config | `SessionSARAllows`, `SessionSARsRefuse` |
| second read of sessions and escalations, and the answer; a failing read | `Answer`, `ReviewFails` |

The target cluster is external: `Permits` is what its RBAC allows a group, with
and without OIDC prefix. `review` also carries history: the time and the revoked
sessions at arrival, the policies in force ever since (`standing`), and whether a
policy list or the tenant could not be read (`blind`). Refused reviews keep no
history, which saves states.

### `AccessContract` and `SessionContract`

`AccessContract` knows neither handlers nor copies nor states: a session has access
until a time, or none. `Give` starts it for `ValidFor` and only if nobody has ended the
session, `Lose` and `Revoke` end it, `Pass` lets time go by and access end at its time.
`SessionContract` maps a session that passes the webhook's filter to its `ExpiresAt`,
every other one to no access. The histories of `SessionLifecycle` carry over unchanged.

### `Escalations` and `Requests`

A group is a sequence of name parts with its OIDC prefixes first, so that
`stripOIDCPrefixes` takes off a part and group comparison is what it is in the code:
the requester's groups are stripped, an approver's token groups are not. The lookups
have the two ways of the escalation manager: by field selector, when it is answered
and finds something, or by scan. `Indexed` chooses; it is FALSE in the runs because
the manager is given an uncached client and the API server rejects field selectors on
fields these CRDs do not declare.

Whose groups count (`UserGroups`): those in the caller's token; when it has none, those
that a cluster reports for a user. For a request that user is the one *named in the request*
(`cug.Username`, `session_controller.go:238`), whom the handler does not compare with the
caller; for the list of escalations it is the caller, asked about on the hub. `Eligible`
and with it `AccessIsWarranted` say just that. The instance has a caller without token
groups and without the group that the other user has, so that such requests happen.

`Requests` adds to the lifecycle the objects (`specs`, `configs`), what a request has
selected and a session was created from (`selection`, `origin`), the progress of an
approver check (`authority`), and the history `warrants`: which escalation and
ClusterConfig, as read, an approval rested on. `ApproversOf` is every caller there.

| Code | Actions |
|---|---|
| request: groups, lookup, selection of the escalation; 409 | `Select`, `Refuse` |
| ... check, create, count the request and read again, write | `SelectedCheck`, `SelectedCreate`, `SelectedRead`, `SelectedWrite` |
| a decision reads its session | `SelectedRule` |
| `isSessionApprover`: list the escalations; one of them with its ClusterConfig; one whose ClusterConfig cannot be read | `ListEscalations`, `Evaluate`, `EvaluateUnread` |
| the write of a decision | `GrantedApprove`, `GrantedEnd` |
| panic, conflict, 401; a failing call; a restart | `StopForCause`, `StopForFailure`, `RestartAll` |
| cleanup routine, clock | `Background` |
| administrators | `EditEscalation`, `EditClusterConfig` |

### `ClientProvider`

A step is one lock section or one API call of `pkg/cluster/cache.go`: the lookup that
misses (`RESTMiss`, `AcrossMiss`, `InNamespaceMiss`; a hit changes nothing), the list
or get (`Listed`, `Got`), the section that stores the ClusterConfig (`Keep`), the read
of the secret (`ReadSecret`, with the rewriting of loopback hosts), the section that
stores the REST configuration (`StoreREST`), an error (`Fail`), and `Invalidate`.
Administrators change objects (`SetConfig`, `DeleteConfig`, `SetSecret`,
`BreakSecret`). `stale` and `late` are histories: which names have changed since they
were last invalidated, and which callers were under way when it happened.

### `ClusterConfigChecker`

`runOnce` item by item (`List`, `Skip`, `ReadSecret`, `Probe`, `EndRound`) and
`setStatusAndEvent` call by call: the full update (`FullUpdate` or `RefusedUpdate`), its
fallback (`StatusUpdate` or `RefusedStatusUpdate`) and, after an accepted one, the creation
of the event (`EmitEvent`), with whatever others do in between. A failed read, probe or
full update goes on (`FailedCall`: the first two are verdicts, the third leads to the
fallback); a failed status update or event creation is only logged (`LostCall`); the
program restarts (`Restart`). ClusterConfig has a status subresource, so a full update
drops the status. `fresh` says which listed items still have the stored resourceVersion,
`alive` which are still the same object (an event carries the UID it was listed with).
Two histories serve the properties: `accepted`, the object as stored when its update was
accepted, and `report`, the last event of each object with what it was about.

Administrators: `Create`, `EditConfig`, `DeleteConfig`, and `ChangeWorld` for secrets and
clusters. Nothing validates what they write: `SetupWebhookWithManager`
(`cluster_config_types.go:174`) builds the webhook without naming a validator, and the
type's `ValidateCreate` and `ValidateUpdate` do not have the signatures that
controller-runtime looks for, so they are never called.

### `StatusUpdater`

`runOnce` (`List`, `Take`, `Write`, `WriteFails`, `EndRound`) and, for each group,
`Members`: a hit or no Keycloak (`ResolveLocally`), the search (`Search`: an unknown
group is cached as empty), the listing (`ListMembers`), an error (`KeycloakFails`).
`Tick` ages the cache, `Restart` empties it; `SetGroup`, `EditEscalation`,
`DeleteEscalation`, `CreateEscalation` are the world. A status is written only when the
members of some group changed, as in the code. `age` and `told` are histories.

## 3. Checked with TLC

The session runs use one triple, an owner (`alice`) and an approver (`bob`); each caller
may try every operation. One triple is enough because sessions of different triples share
nothing but the cleaner's list. Validity and timeout are 1 or 2, so that timeout, expiry and
the end of retention lie within the bound on the clock (`MaxTime`, 2 to 4), which is reached
in every order with the handlers' steps. `MaxFaults`, `MaxFailures`, `MaxChanges` and
`MaxEdits` bound faults and outside changes; everything else is unbounded.

| Run | Instance | Shows |
|---|---|---|
| `SessionDecisions` | 1 session, 1 requester, 2 deciders, 1 fault | access was approved; revocation is final; only Approved sessions grant; a granted window never moves; a session is decided once; the contract is implemented |
| `SessionCleanup` | 1 legacy object without owner and status, 1 session, 1 requester, 1 decider, 1 fault; fair | one active session per triple for sequential requests; sessions being requested are not collected as orphans; timeout, expiry and removal eventually happen |
| `Requests` | 1 session, 1 requester, 1 decider, 2 escalations out of 3 specifications, 1 ClusterConfig, 2 callers (one without token groups), 1 edit, 1 failure, 1 restart | access rests on an eligible request and a warranted approval, whatever is edited between the reads; what can be requested is offered |
| `Authorizer` | 1 session, 1 requester, 1 decider, 1 fault, 2 requests, 2 policies (one of a tenant, one of a session) | what is allowed had an approved session that nobody had ended; policies in force are not overridden |
| `ClientProvider` | 2 namespaces, 2 names, 2 secrets, 2 callers, 1 change | nothing cached belongs to another cluster; what `Invalidate` guarantees |
| `ClusterConfigChecker` | 2 ClusterConfigs, 2 secrets, 5 changes, 2 faults; fair | an event tells of the object its update found stored; no edit undone; the right event in the end |
| `StatusUpdater` | 2 escalations, 2 groups, 2 accounts (one without a name), TTL 1, 2 changes, 1 fault; fair | members are never invented or erased; the cache lags by its TTL at most; the status catches up |

`DecidedOnce` is not the diagram of `docs/advanced-features.md:244`: it says which moves the
code can make (`MayBecome`). Apart from drop they are those of the diagram, with the state
names of the code (cancel and drop of an approved session write Expired). Drop adds moves
the diagram does not have and a test speaks against; see "Observed" below.

*Why the bounds are enough.* `Authorizer` has one session and a clock up to 2 because the
review multiplies the states of the lifecycle by several hundred; the loop over several
sessions is covered by the proof. In `Requests` one edit suffices to fall between any two
reads of a handler: a handler reads each object once. `ClientProvider` needs one change,
which two overlapping fetches and an `Invalidate` surround in every order. The checker
needs five changes to create two ClusterConfigs and a usable secret with its cluster, and
edit or delete something afterwards. The updater needs two, to change a group and the
escalation that names it.

*Fairness.* `SessionLifecycle`'s `FairSpec` asks only for weak fairness of `CleanerStep`:
the goroutine started by `cmd/main.go` loops forever and Go schedules it. Nothing is
assumed of handlers (callers may stop), of faults or of the clock: its liveness
properties start from a time that has come. The checker and the updater have weak
fairness of their own steps (`Check`, `Update`: a ticker and calls that return or time
out), the updater also of `Tick`, because its cache entries expire by the clock.
Their liveness properties speak of the time after the last change, which the bounds on
changes and faults make come.

*Deadlock* is checked in every passing run; each system always has a step.

### Disagreements between code and its comments, documentation or tests

Each is a run that TLC ends with a counterexample.

| Run | What happens |
|---|---|
| `BackToPending` | Two concurrent requests both find nothing active and both create, which "should not happen" (`session_controller.go:760`); the second look of one finds the other's session, already approved, and resets it to Pending. "must not allow transitions back to non-terminal states" (`session_controller_test.go:941`). |
| `ExpiredStillGrants` | Two racing requests again: the retry of `ExpireApprovedSessions` marks a session Expired that was approved anew; the webhook goes on authorizing for it. "for approved sessions that have passed ExpiresAt" (`expire_approved_sessions.go:14`). |
| `RefsOnlyEscalation` | An escalation with `clusterConfigRefs` only has no `allowed.clusters[0]`; the handler panics after it has created the object, which stays without status: the cleanup routine neither times it out nor deletes it, and it blocks the triple. "sessions always expose when they will be cleaned up" (`session_controller.go:470`). A crash or a failing call between create and status update leaves the same. |
| `RequestedName` | `CanGroupsDo` asks the target cluster about an object whose name is that of the resource, so permissions limited to object names are evaluated for another object. "Checks if operations defined in access review could be performed" (`group_checker.go:32`). |
| `PhaseIsStored` | The checker's full update succeeds and drops the phase; the status update that would store it is only a fallback. "persist status: try full Update first" (`cluster_config_checker.go:159`). |

`GrantsOnlyWhenApproved`, `DecidedOnce`, `NeverBackToPending` and `SingleActiveSession`
therefore hold when requests for one triple do not overlap, and fail when they do; what
races leave intact is the contract about access and `UndecidedNeverGrants` (section 4).

Observed and not judged:

* A session can be approved after `TimeoutAt` until the cleanup routine's next round. A
  timed out session counts as active until its retention ends and blocks new requests of
  the triple; the cleanup routine times it out again every round.
* Drop checks only the owner (`session_controller.go:962`): a session that was rejected,
  expired or timed out, or that has no status yet, becomes Withdrawn when it is dropped, and
  approver, times and reason of its end are erased; if `ExpireApprovedSessions` listed it while
  it was Approved, it may then write Expired over Withdrawn. None of these moves is in the diagram of `docs/advanced-features.md:244`, and
  `session_controller_test.go:936` has terminal states that "cannot be reapplied or
  reverted": code and documentation disagree here. `DecidedOnce` holds because it allows
  these moves. Access does not come back (`RevocationIsFinal`).
* A caller without groups in his token is admitted by the groups of the user he names in the
  request, who is not compared with him (`session_controller.go:260`). `AccessIsWarranted`
  therefore says that the caller's token groups *or the named user's groups* admit the request.
* An event about a ClusterConfig that is edited between the accepted update and the creation
  of the event is about its former secret, until a later round
  (`event_recorder.go:79`; `EventsTellOfAccepted` and `EventuallyReported` say what holds).
* The comments on the validators of the three types ("so a webhook will be registered",
  `cluster_config_types.go:97`) say more than happens: no validator is registered.
* The webhook goes on without deny policies when they cannot be listed, and without those
  of a tenant when the ClusterConfig cannot be read (`DenyPrevails` excepts these reviews,
  and only these). Likewise the approver check goes on without the ClusterConfig's
  restrictions when it cannot be read (`Warrants` takes the ClusterConfig as read).
* Empty lists of subresources and namespaces in a deny rule match everything, while the
  comments in `deny_policy_types.go` describe them as narrower; `denyPolicyRefs` of
  sessions and escalations are not read by the evaluator. A review without resource
  attributes is never answered with a decision.
* `GetAcrossAllNamespaces` looks under a key it never stores, so it lists every time;
  nothing in the program calls `Invalidate`, so a cached REST configuration stays until a
  restart. `InvalidatedIsCurrent` says what calling it would give, and excepts fetches
  under way.
* The status updater records an error of a group only together with a change of members.
* A caller without groups in his token is asked about on the hub cluster for the list of
  escalations and on the target cluster for a request, so the two may differ
  (`RequestableIsOffered` is about callers with token groups).

## 4. Proved with TLAPS

`SessionLifecycle_proofs` proves, for every set of names, triples and callers, every
number of concurrent handlers, all positive durations and any bounds on time and
faults (assumptions `DurationAssumption`, `NoneAssumption`, `LifecycleAssumption`):

* `TypeCorrect`: `Spec => []TypeOK`. Proved together with `HoldersReadASession`
  (a handler about to write has read a session on behalf of a caller), without
  which the type of the history is not inductive.
* `AccessSafe`: `Spec => []AccessWasApproved`. The invariant is `AccessInv`:
  *every* status that is stored, listed by the cleaner or held by a handler, current
  or stale, is `Justified`: if it could ever grant access its expiry is that of a
  recorded approval by an approver. It is needed because stale copies are written
  back; the proof does not use the optimistic lock at all. `AccessStep` says once
  what a step must satisfy; each action then needs only what it writes.
* `RevocationSafe`: `Spec => []RevocationIsFinal`. The invariant is `RevocationInv`:
  a revoked session is dead (rejected or past its expiry) and not Pending; a handler
  that could revive it (approve, request) has lost its resourceVersion; and what the
  cleaner will write keeps it dead, because the copies of `ExpirePendingSessions` are
  protected by the lock, the listed copies of `ExpireApprovedSessions` had already
  expired, and retried copies have the times just read. This is why writing a stale
  status under a fresh version is harmless there.

* `OrphanRuleSafe`: `Spec => RequestedIsNotOrphaned`. The removal acts on a list and
  carries no version, so the proof needs `CurrentIsStored` (a copy whose version is
  current is the stored status) and `RetentionInv` (requested sessions are owned, and
  those listed for removal have a retention, which no write takes away).

`SessionContract_proofs`, under the same assumptions:

* `ContractKept`: `Spec => KeepsContract`, the refinement, for any number of racing
  requests. Each action maps to `Give`, `Lose`, `Revoke`, `Pass` or a stutter, with the
  invariants of the theorems above, `PendingInv` and `ApprovalsAreOfCreated`
  (together `ContractInv`).
* `WindowSafe`: `Spec => WindowNeverMoves`, from the same invariant.
* `RacesGrantNothing`: `Spec => []UndecidedNeverGrants`. What handlers write has a state
  that fits its times whatever it is written over; the cleaner keeps the times of the
  status it listed, so the invariant `PlausibleInv` is about stored and listed statuses: one
  that is undecided, by its state or by its times, has no expiry, and one that was turned
  down has `rejectedAt`.

The other theorems about states have the hypothesis `[]Sequential`: no two handlers serve
requests *for the same triple* at the same time. It restricts behaviours, not
instances: requests for other triples, decisions, cleanup, faults and restarts interleave
freely, and an instance with one requester satisfies it always. Nothing in the code enforces
it; `BackToPending` and `ExpiredStillGrants` show what happens without.

* `ShownAsApproved`: `Spec /\ []Sequential => []GrantsOnlyWhenApproved`,
  `DecidedOnlyOnce`: `... => DecidedOnce`, `PendingOnlyOnce`: `... => NeverBackToPending`.
  The invariant `StateInv` adds to those above
  * `StatusInv`: state and times of a stored status agree (`Coherent`), and one that is
    decided but not Approved is dead;
  * `HandlerInv`: a handler's copy suits its operation, so that with `CurrentIsStored` an
    accepted write rests on the stored status;
  * `RequesterInv`: no session of the triple is active between the first look of a request
    and its creation, and afterwards only one without a status, so the second look finds a
    session with an empty status. This is where `Sequential` is needed;
  * `CleanerInv`: what `ExpireApprovedSessions` has listed was decided, and what it is about to
    write, under whatever version, is dead, as is the status it is written over
    (`StandsFor`). This is why the retry without a second check does no harm here.

  `Evolves` says once how a status may change; each write is shown to be such a change.
* `OneSessionAtATime`: `Spec /\ []Sequential => []SingleActiveSession`, if no two objects
  present at the start have the same triple (the code would leave such objects alone).

`AccessContract_proofs`: `PromiseKept`, `CSpec => []Promise`: the contract means what it
is meant to.

`Requests_proofs`, for any escalations, ClusterConfigs, edits, callers and handlers:

* `RequestsKeepContract`: `RSpec => Spec /\ KeepsContract`. The composed controller
  implements the lifecycle, and with it the contract.
* `WarrantSafe`: `RSpec => []AccessIsWarranted`, when every session was created by a
  request (`LegacyNames = {}`). The invariant `RequestInv` follows the evidence step by
  step: `SelectionInv` (a selection is eligible by the caller's token groups or, if he has
  none, by the groups of the user the request names), `OriginInv` (a session came from the
  selection of its triple), `AuthorityInv` (a granted check holds a warrant for the
  caller and the triple), `WarrantInv` (every recorded
  approval has its warrant). `AccessInv` of the lifecycle then leads from a session
  that authorizes to such an approval.

* `OfferIsComplete`: `RSpec => []RequestableIsOffered`, if field selectors are not answered
  (`~Indexed`, the situation of the program, see section 2) or every escalation lists its
  groups also without OIDC prefixes: the index holds the groups as written, the scan
  compares them stripped. Both handlers then find the same escalations.
* `RequestsWriteTheirOwn`: `RSpec /\ []Sequential => []WritesItsOwn`. `OwnInv`: the active
  sessions of the triple of a request that has created its object all came from its own
  selection.
* `RequestsKeepStates`: `RSpec /\ []Sequential => []GrantsOnlyWhenApproved /\ DecidedOnce`,
  because the composition implements the lifecycle.

`Authorizer_proofs` proves, for any number of sessions, groups, prefixes, requests and
policies:

* `AuthorizerTypeCorrect`: `ASpec => []AuthorizerTypeOK`.
* `AuthorizerSafe`: `ASpec => []AllowedThroughApproval` and
  `DenySafe`: `ASpec => []DenyPrevails`. Reviews and policy changes are stutters of
  the lifecycle (`ServiceRefines`: `ASpec => Spec`), so the theorems above carry over and
  say what a session that grants access at the arrival of a review is worth
  (`GrantingEntitles`). The invariant `ReviewInv` keeps that for the rest of the
  review: its sessions entitled the user at arrival (the history of approvals only
  grows), a remembered SAR belongs to one of them, and no standing policy denies what
  has been evaluated so far. The last part is why `DenyPrevails` holds although every
  evaluation lists the policies anew: the standing ones are in every list.

`ClientProvider_proofs`, for any callers, namespaces, names and secrets
(`ProviderAssumption`, `StartAssumption`):

* `ProviderTyped`: `Spec => []TypeOK`.
* `NamesAreNotMixed`: `Spec => []CachedWasStored`. The invariant adds what every caller
  in flight holds: a ClusterConfig once stored under the key it will be kept under, a
  REST configuration made from objects of its name.
* `InvalidateWorks`: `Spec => []InvalidatedIsCurrent`. The invariant says the same of the
  callers that are not `late`: what they hold is current.

`ClusterConfigChecker_proofs` (`CheckerAssumption`): `CheckerTyped`, `EventsAreOnAccepted`
(`Spec => []EventsTellOfAccepted`) and `EditsAreKept` (`Spec => CheckerKeepsSpecs`). The
invariant is `FreshIsStored` (a listed copy whose version is current is the stored object)
and, for the time between update and event, `AcceptedWasListed` (what was accepted is what
was listed, whatever is edited meanwhile).

`StatusUpdater_proofs` (`UpdaterAssumption`): `UpdaterTyped`; `LagSafe`
(`Spec => []CacheLagIsBounded`) with `LagInv`: an entry is right, or the age of its group
and the entry's remaining life add up to at most the TTL; `MembersSafe`
(`Spec => []MembersWereTold`, when Keycloak is configured) with `ToldInv`: cache, listed
items and the status being built say only what Keycloak told.

All invariants were checked with TLC first. `UndecidedNeverGrants` and `WritesItsOwn` are not
part of a run, because the instances that tell something about them are of their own: two
names, two requesters, one decider and a clock up to 3 for the former (440,665 states), two
names, one requester and one failure after a creation for the latter (354,520 states). Both
hold there, and fail when drop keeps the times of a session that does not run, or when a
request is refused for approved sessions only.

*Only model-checked*: the liveness properties `PendingTimesOut`, `ApprovedExpires`,
`RetentionEnds`, `EventuallySynced` and `EventuallyReported`, because liveness under fairness
and `ENABLED` are out of the prover's reach. Every invariant and action property of a passing
run is a theorem.

## 5. Not modelled

Whole components (listed in `PROJECT.json` with the reason): HTTP routing and token
verification (library calls; the models take the caller's identity as given), mail, metrics and logging, configuration and wiring, the frontend, generated code,
manifests and charts.

Within the modelled ones:

* several replicas of the service (the loops are assumed to run once), garbage collection
  of sessions whose escalation is deleted, clock differences, and time passing between
  the several `time.Now()` calls of one operation;
* `FilterForUserPossibleEscalations` and `FilterSessionsForUserApprovable`, which only
  tests call, and `GetClusterGroupTargetBreakglassEscalation`, which serves the text of a
  refusal;
* the admission validators of sessions, escalations and ClusterConfigs, which are not
  registered (section 2, `ClusterConfigChecker`);
* of the event recorder everything but the creation of the checker's events;
* the table of groups the Keycloak resolver uses without a client secret;
* the request counter and the group sync a request triggers: both look the escalation up
  with no groups, never find one, and so change nothing.

## 6. Plan

1. Compose `ClientProvider` with `Authorizer`, so that the webhook's reviews use REST
   configurations that may be old.
2. State what the indexed escalation lookups return compared to the scan, as lemmas about
   `Escalations`.
3. Carry `UndecidedNeverGrants` over to the webhook: what a review that allowed relied on was
   shown as Approved or Expired.
