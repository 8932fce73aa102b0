# A formal model of clavex-operator

TLA+ specifications of the Kubernetes operator in `src/`, the TLC
configurations that check them on small instances, and proofs about them that
TLAPS checks for every value of their constants. Source paths below are
relative to `src/internal/` unless they start with `docs/`, `api/` or `cmd/`.

Contents: 1 the system, 2 the modules and the plan, 3 module by module,
4 the runs, 5 the proofs, 6 where code and documentation disagree,
7 what is not modelled.

## 1. The system

clavex-operator keeps objects of a Clavex identity server in step with custom
resources (CRs). Seven controllers, one per kind, call the server's Admin API;
an event-stream manager tells them when somebody else changed something.

| Component | State it keeps | Operations | Correct when |
|---|---|---|---|
| ClavexClient controller (`controller/clavexclient_controller.go`) | none of its own; the CR's finalizer, generation and status, the OIDC client, the Secret it fills | one `Reconcile` pass: resolve the auth Secret, finalize or add the finalizer, compare, Create or Update, write the client secret, status | no client without a guarded CR; the status is true; drift events blame outsiders for what outsiders did; converges and then stops writing |
| ClavexRole, ClavexIdentityProvider, ClavexAuthPolicy, ClavexWebhook controllers | the same, but the object has a server-side ID and is found by listing | the same, with a listing first | as above, and never a second object of one key |
| ClavexGroup controller | the same, and the group's set of roles | list, create, resolve role names to IDs, assign, remove, status | Ready means exactly the roles of the spec; no wanted role is taken away on the way; the order in which a group and its roles are applied does not matter |
| ClavexOrg controller (`controller/clavexorg_controller.go`) | none of its own; finalizer and status, and the values and managed markers of two sections of an organisation's settings | section after section: read and write, or clear the marker; finalize with or without credentials | no marker of a CR that is gone; the status is true of both sections; drift is reported when and only when a value was changed; a deleted CR always leaves |
| Admission webhook (`webhook/v1alpha1`) | none | refuses creates and updates whose auth Secret does not resolve | never makes a CR impossible to delete |
| Auth Secrets (`authsecret`) | none | resolve an API key and organisation, or one value | pure |
| Event-stream manager (`eventstream/eventstream.go`) | the map of connections, the registrations, the debounce stamps, `m.mu` | discovery round each minute, open on demand, stop, shut down, dispatch | one goroutine per organisation with CRs, none forgotten, all ended at shutdown, nobody blocked for ever |
| Connection (`eventstream/conn.go`) | its context, its socket, its backoff | dial with replay, read, dispatch, reconnect | ends when it is stopped |
| Drift path (dispatch, channel, work queue, pass) | channel of 256, stamps of 2 s | enqueue, drop, collapse | an outside change is corrected; no write loop |
| Process wiring (`cmd/main.go`) | leader lease | starts the manager | external to the model |

**How they interact.** A controller reads CRs from the informer cache, which
lags behind the API server; it writes CR and status with optimistic
concurrency; it calls the Admin API, which has no such protection. Each pass
calls `EnsureOrgWithKey`, which takes the mutex the manager's rounds take. An
audit event goes from a connection's goroutine through `dispatch` (mutex,
listing, debounce) to a channel, from there to the controller's work queue, and
to a pass; the pass's own writes come back as events, and its status update as
a watch event.

**What is hard.** (1) Between any two calls of a pass the user, an outsider at
the Admin API, the cache and a crash may act, and the Admin API is written
before any conflict could show that the copy was stale. (2) A call may take
effect and its reply be lost. (3) The secret of a client exists only in the
memory of one pass. (4) The manager holds its mutex while it waits for a
goroutine that may want it. (5) Events are collapsed by time and dropped at a
full channel, and the poll is the only backstop. (6) Objects are looked up by a
field that is neither unique nor immutable. `PROJECT.json` lists the hazards
line by line with the properties that watch each one.

## 2. Modules and plan

| Module | Models | State |
|---|---|---|
| `ManagedLifecycle`, `ManagedLifecycleProofs` | abstract: what a controller with a finalizer promises | done, proved |
| `ClavexClient`, `MCClavexClient`, `ClavexClientProofs`, `ClavexClientStatusProofs` | the ClavexClient controller, in full concurrency | done, safety proved |
| `EventStream`, `MCEventStream`, `EventStreamProofs` | manager, connections, on-demand opening, shutdown | done, safety proved |
| `DriftPath`, `MCDriftPath`, `DriftPathProofs` | from an outside edit to its correction | done, safety proved |
| `NamedResource`, `MCNamedResource`, `NamedResourceProofs` | the four controllers that look up by name or URL | done, safety proved |
| `GroupRoles`, `MCGroupRoles`, `GroupRolesProofs` | the ClavexGroup controller with its roles as environment | done, safety proved |
| `OrgSettings`, `MCOrgSettings`, `OrgSettingsProofs` | ClavexOrg: the sections, their markers, several CRs of one organisation | done, safety proved |

Order: the client controller comes first because its pattern is every other
controller's, then the stream, then the path that joins the two, then what the
other kinds add. `ClavexClient` and `GroupRoles` each instantiate
`ManagedLifecycle` through a refinement mapping of their own, `NamedResourceProofs`
instantiates it once per CR (`Life(c)`). `DriftPath` composes the interfaces of connection, channel,
queue and pass, with the inside of each left to its own module: whether a
connection is opened is `EventStream`'s question, what happens between two
calls of a pass `ClavexClient`'s.

Every invariant and every action property that a passing run checks is proved;
liveness is left to TLC (section 5). Still open are the three hazards
that `PROJECT.json` lists without a property, each with its reason.

Constants are parameters with named assumptions. Every bound is a constant
called `Max...` (or `Cap`, `Replay` where the code has such a limit itself),
listed with the others at the head of its module. Operators that a proof
reaches are not RECURSIVE. An operator whose comment begins with "Mutant:" is a
deliberately wrong variant of the definition below it; no specification uses
it, it shows that the property beside it in `PROJECT.json` can fail. Where the
two differ in one place they share an operator with that place as a parameter
(`LookupThen`, `PutAs`).

## 3. Module by module

### ClavexClient

One CR and one worker (controller-runtime never runs two passes for one key).
The API server is the sequence `versions`: its head is what the informer cache
shows, its last element what is stored. A pass holds a copy `cr`; `behind` says
that the CR was written since that copy's resourceVersion, so an update with it
is a conflict. Each call of a pass is an action with three outcomes: answered,
failed without effect, or effective with its reply lost.

| Code | Action |
|---|---|
| `r.Get` at the start of `Reconcile` | `GetCR` |
| `ResolveAuthSecret` and the branch after it | `ResolveAuth`, `AuthSecretError` |
| deletion: `Clients.Delete`, `RemoveFinalizer` + `Update` | `DeleteRemote`, `RemoveFinalizer` |
| `AddFinalizer` + `Update`, second `Get` | `AddFinalizer`, `Refetch` |
| `reconcileClient`: Get and comparison, Create, Update | `FetchClient`, `CreateClient`, `UpdateClient` |
| `writeClientSecret` | `WriteClientSecret` |
| status updates | `ReportSynced`, `ReportError` |
| the informer, a crash or change of leader | `CacheSync`, `Crash` |
| the user, the webhook's verdict, outsiders | `Others` (`Apply`, `Edit`, `Delete`, `ToggleAuthSecret`, `OutsideCreate`, `OutsideEdit`, `OutsideDelete`), `Admitted` |

The second `Get` really is served by the same cache, and what it returns is not
tested for a deletion timestamp again: both are modelled and neither breaks
`NoOrphan`, which is the content of the proof. Data: the fields
`clientUpToDate` compares are one value `want`; `responseTypes`, which it sends
and does not compare, is another, of which no property speaks. Messages and
times of conditions are left out; a status update that would change nothing
creates no version.

### EventStream

A critical section of `m.mu` that cannot block is one action, taken while the
mutex is free; `reconcileConns` and `shutdown` hold it over calls of
`conn.stop`, so `held` is a variable and their loops are steps of `mpc`. A
connection's goroutine is `cpc[c]`, following `run` and `connectAndRead` from
`spawned` through `check`, `dial`, `read`, `dispatch` and `backoff` to
`exited`; the goroutine that closes the socket is `CloseSocket`. `c.cancel` is
read by `stop` without synchronisation and is nil until `run` has assigned it:
`Stop` leaves the context uncancelled when the goroutine is still `spawned`. A
conn struct that nothing refers to is used again, which bounds the state
without a bound on how many are ever made. `steady` is a history variable: the
(kind, organisation) pairs that had a CR ever since the round began.

### DriftPath

The CRs of one kind, from an outside edit to its correction. An audit record is
`ours` or `other` (another resource type takes room in the replay); the log
keeps the last `Replay` of them. An event names a type, so each is dispatched to
every object; a reconnect brings each record of ours again. Time is two facts: whether the
last enqueue is within the 2 s window (`recent`), and whether `lastSyncedAt` is the
present second (`stamped`), because a status that changes makes the watch queue the CR
again. Both end at any moment (`WindowEnds`, `SecondEnds`), within a pass, behind a
queue of other CRs or with an echo on its way, or never; `Swift` is the premise of
those behaviours in which, from some time on, they end only between the passes.
`Stubborn` objects have a comparison that never agrees. `missed` and
`swallowed` are history: drift whose event was lost on the way, or collapsed by
the debounce, since a pass last read the object.

### NamedResource

The control that ClavexRole, ClavexIdentityProvider, ClavexAuthPolicy and
ClavexWebhook share, for several CRs, with `kind` saying where they differ: a
role is never updated; `Create` of a policy rule carries no `enabled`; a
provider and a webhook need a second Secret (`Buildable`). The webhook is an
instance of the provider's control. The lookup takes the first match of a listing
whose order nothing in the code fixes, so it may be any resource of the key, and
another one in each listing (`FirstWithKey`). r.Get returns the stored CR here,
since a stale cache is in `ClavexClient`; user edits within a pass still make its
copy `behind`.

`outside` holds the keys of which an outsider created a resource. Where names
are not unique such a key is `Doubled`, and the properties that say what the
operator finds under a key except it: what it finds need not be the resource it
wrote. `DriftHonest` needs this exception too, though the
bounds of the run `named` are one user step short of showing it: an outsider
creates a second resource of the key between a pass's listing and its `Create`,
the CR is edited, the pass adopts the outsider's resource, the outsider deletes
it, and the operator's own old write is what the next pass calls drift.

### GroupRoles

One ClavexGroup. The pass lists roles by name (`ListRoles`), lists the roles of
the group (`ListGroupRoles`), then assigns and removes one ID at a time in any
order (the code ranges over maps). Roles belong to others and may vanish, which
takes them from the group, and return under a new ID between any two calls.
`group.ours` says whether the operator created the group and its marker names the
CR; no call reads it, it only maps the group to the `remote` of
`ManagedLifecycle`: an outsider's group of the same name is "other", adopted by
the pass that finds it without a new marker, and deleted with the CR. Names of groups
and of roles are taken as unique in the server here: two resources of one key are
`NamedResource`'s subject, and of two roles of one name `roleIDByName` would keep the
last listed (clavexgroup_controller.go:235-238).

### OrgSettings

The organisation has its settings whether a CR exists or not; a pass creates and
deletes nothing there. `live[o][s]` is a section's value and the CR its managed
marker names. The sections are a sequence, in the order of the code; a pass
works through `todo`, and all it holds is the record `pass`.

| Code | Action |
|---|---|
| `r.Get`, `ResolveAuthSecret` and the branches on its error, the deletion timestamp and the finalizer | `GetCR`, `ResolveAuth`, `AuthSecretError` |
| `finalizeWithoutClient` | `FinalizeWithoutClient` |
| deletion: `ReleaseManagedMarker` of each section, `RemoveFinalizer` + `Update` | `Unmark`, `RemoveFinalizer` |
| `AddFinalizer` + `Update`, second `Get` | `AddFinalizer`, `Refetch` |
| `reconcileOrgSettings`: a section the spec leaves out | `ReleaseSection` |
| `reconcilePasswordPolicy`, `reconcileRateLimits`: Get and comparison, Put or Update | `GetSection`, `Put` |
| the Event and the status, or the error | `ReportSynced`, `ReportError` |
| the user, the Secret's `orgId`, outsiders | `Apply`, `Edit`, `Delete`, `ToggleSecret`, `MoveSecret`, `OutsideEdit` |

`Kept` is the code's condition to skip a write: the values agree and the section
is marked by the operator, for whichever CR. A marker that was cleared is
restored without a report, a value that was changed with one, which is the
difference between `Kept` and `differs`. Four history variables say what a
property excepts: `changed` (a CR and whether a value or a marker of its
organisation was changed by others since its last true status), `moved` (CRs
whose Secret was made to name another organisation), `blind` (CRs finalized
without credentials) and `silent` (the last pass to begin has replaced a value of an
observed generation, so that an Event is due).

## 4. The runs

| Run | Instance | Shows |
|---|---|---|
| `client` | 2 field values, 3 specs, 2 incarnations of the CR, generation up to 3, 3 versions in flight, 5 steps of users and outsiders, 1 fault, webhook on; 0.4 M states | no orphan, true status, honest drift events, no foreign delete, the secret kept without faults, the lifecycle implemented; convergence and quiescence |
| `stream` | 1 organisation, 2 kinds, 3 conn structs, 3 steps of users, 1 failed listing or key; 18 K states | one goroutine per organisation, none forgotten; only the stream of an organisation without a CR is closed; but for two known ways to wedge, every stop, every pass and shutdown ends, and streams stay open |
| `drift` | 2 objects, one stubborn; channel of 1, replay of 1, 1 event on its way, 1 outside edit, 1 fault or foreign record; 0.3 M states | drift is on its way to a pass, or lost where a comment says so, or swallowed by the debounce; corrected without a poll; with swift passes no write loop drives itself; polls correct whatever was lost |
| `named` | 2 CRs, 2 keys, 3 specs, generation up to 2, 6 IDs, 3 user steps, 1 fault, for role, provider and policy, keys not unique in the server; 0.8 M states | no orphan, no double, true status, honest drift, convergence |
| `group` | 2 role names, specs with none, one and both, 3 role IDs, 6 group IDs, 5 outside steps, 1 fault; 0.3 M states | exact roles, no wanted role taken away, independence of order, the lifecycle implemented |
| `org` | 2 CRs whose Secrets start in the same of 2 organisations, the 2 sections, 2 values, specs with one section and with both, generation up to 2, 3 steps of users and outsiders, 1 fault, sections that start with a value no spec asks for; 0.2 M states | no stray marker, true status through partial failures, moves and two CRs at one organisation, honest and complete drift reports of observed generations; deleted CRs leave; convergence and quiescence |
| `client_lost_secret`, `client_stuck`, `stream_deadlock`, `drift_debounce`, `drift_cadence`, `org_first_drift` | small instances with the disagreement | section 6 |

**Why these bounds.** Every property is about one object and its pass; a
violation needs a copy of the CR that is behind (one user step), an object
changed under the pass (one outside step), at most one recreated CR (two
incarnations) and one lost reply or crash, after which the pass starts anew and
knows nothing. `client` has room for all of these in one behaviour, `named` for
three of them with two CRs in each other's way. Organisations share nothing in
`EventStream` but the mutex and the round, so one is enough to interleave with,
and the safety half is proved for any number; two conn structs more than
organisations give a leaked goroutine room. In `org` the three steps make, for
instance, two CRs of one organisation and an outside edit, or a CR, its edit and
its deletion, and the fault hits any call of any section. In `drift` the limits 256,
50 and 2 s become 1, 1 and "recent", so that full channel, exhausted replay and
collapsing all happen; for arbitrary capacities the safety half is proved. IDs
run out in `named` and `group` only beyond what the user steps and the fault
can consume. The fault
of `drift` is a dropped connection, a failed listing, a failed pass, or a record
that pushes a change out of the replay. The budgets bound outsiders and faults only: seconds, windows, polls and passes
go on without a bound, which is what the properties about loops are about.

`CHECK_DEADLOCK FALSE` stands in every cfg: with no CR, no budget left and
nothing queued the system has nothing to do, and rightly stops.

**Fairness.** A pass that began goes on, since each call has a timeout or a
reply, and a CR always gets another pass: controller-runtime requeues after an
error, and every successful pass asks for another in 15 minutes (`WF` on
`Reconcile`; per CR `SF` on `GetCR`, because one worker serves a first-in,
first-out queue of them; the same in `NamedResource` and `OrgSettings`, where
`Continue` is the rest of a pass). The informer delivers (`WF` on `CacheSync`).
Goroutines run; a Go mutex does not starve a waiter and a ready `select` case
is taken some time (`SF` on `DispatchLock`, `EnsureOrgWithKey`, `Finish`). In
`DriftPath` the connection, the channel source and the worker are separate
goroutines, each weakly fair, and the work queue is first in, first out (`SF` on
`Take`). Of the clock nothing is assumed, neither that it ticks nor when. No run
assumes that a user, an outsider, a server event, a poll or a fault happens; what
needs polls or swift passes says so in its premise (`Backstop`, `SwiftCadence`).

## 5. The proofs

All hold for every value of the constants that satisfies the named assumptions
of the module (budgets are naturals, the capacity and replay positive, specs
well typed). Nothing else is assumed.

`ClavexClientProofs`
- `TypeCorrect`: `Spec => []TypeOK`.
- `Inductive` and `OrphanFree`: `IInv` is inductive and implies `NoOrphan`.
  `NoOrphan` alone is not inductive: a pass that is about to create a client
  must still know that the stored CR holds its finalizer, though its copy may be
  old. `KnownAgree` says what an undelivered or held version still tells about the
  stored CR (one that shows the finalizer and no deletion mark cannot have been
  followed by a CR without a finalizer: the only worker that could remove it is
  the one that holds the copy); `CopyCurrent` says that a copy that is not behind
  is the stored CR; `PassKnows` what each step of a pass may rely on.
- `DeletesItsOwn`: the finalizer's delete never hits the client of a CR that
  is not being deleted, from `IInv`.
- `Refinement`: the controller implements `ManagedLifecycle` under the mapping
  `CRState`, `Remote`; each action is a step of the lifecycle or a stutter.

`ClavexClientStatusProofs` (on top of `IInv`)
- `StatusInductive`: `SInv` is inductive. It adds three parts to `IInv`.
- `QueueInv` says what a pass with an old copy may still do: a generation that
  anybody reported as synced is the only one that the cache before it
  (`SyncedLast`) and the running pass (`CopyFollows`) hold. Any pass that could
  write an older spec over the client has a copy that the report
  made `behind`, or has ended. A copy that is not behind is the only version
  there is (`CopyAlone`), except between the two `r.Get` of a pass that adds
  the finalizer, where nothing can be in sync yet (`Unsynced`).
- `SyncedTrue`: `[]SyncedTruth`, by `TruthInv`: until an outsider writes the
  client, it is what each fresh version, a fresh copy, and the pass that is
  about to report ask for. All versions have to be in the invariant, not only
  the stored one, because the next pass compares the client with whatever the
  cache shows it.
- `HonestDrift`: `DriftHonest`, from the same `TruthInv`: a pass that sees a
  fresh copy and a different client has an outsider to blame.
- `SecretSafe`: `[]SecretKeptWithoutFaults`, by `SecretInv`: until the first
  fault, the secret of a client created for a Secret is in the Secret, or in the
  pass that writes it next.

`NamedResourceProofs`
- `TypeCorrect`, `OrphanFree`, `OneOfAKey`, `SyncedTrue`, `HonestDrift`: the
  five invariants of the run `named`, for any CRs, keys and specs, any number of
  steps and faults and each of the four kinds. Only the types are inductive.
  `IInv` has two parts. `Server` holds between any two calls, whichever CR's
  pass runs: what a CR wrote bears its key (`StampKey`), agrees with the spec of
  a generation that was in sync (`StampTrue`, so a role, which is never updated,
  cannot have changed either), and a true status is true of a resource of
  its key (`StatusTrue`). `PassInv` is what the one running pass may assume:
  its copy (`Copied`), and what it has found (`Sought`): no resource of the key
  before a `Create`, one that is there before a `Patch`, none left of those the
  operator wrote before the finalizer goes, up to `calm` and `Doubled`.
- No theorem rests on the order of a listing: `FirstIs` says only that a lookup finds
  a resource of the key if there is one.
- `Refinement`: every CR implements `ManagedLifecycle` beside the others, whose
  passes must be stutters for it. `Remote(c)` leaves out what an edit of the key
  left behind or a doubled key hides, the two ways the code can leave an orphan.
  This is no property of a run, because TLC does not take `Life(c)!Spec` of an
  instance with a parameter.

`GroupRolesProofs`
- `TypeCorrect`, `SyncedTrue` (`[]SyncedTruth`), `KeepsWanted`
  (`NeverTakesWanted`) and `Refinement` (`ImplementsLifecycle`), for any sets of
  roles and specs. `IInv` follows a pass through its lists. `Undisturbed`: while
  nobody else changed anything, `wantIDs`, `adds` and `drops` are what the
  comments of the code take them for, and shrink to the exact set. `Replaced`:
  when a wanted role returned under a new ID that the pass is about to remove (an
  outsider gave the group that role before the listing), the old ID, which no
  role has any more, is still to be assigned, so an assignment must fail before
  the loop that removes is reached. This is why
  the order of the two loops matters, and `KeepsWanted` is its consequence.
  `Cleared` and `Knows` carry the finalizer's half of the refinement.

`ManagedLifecycleProofs`
- `LifecycleSafe`: the abstract protocol leaves no orphan.

`DriftPathProofs`
- `TypeCorrect`: the types, and with them the channel's capacity.
- `ChangesKept`: `[]NothingLost`. Together with `TypeOK` the property is
  inductive as it stands: each drop in the code is matched by `missed` or
  `swallowed`, every other step moves the change one stage on, and a reconnect brings
  at least one event where the log holds a record of ours (`Replayed`). It shows that
  the list of ways to lose a change is complete, for any number of CRs, any
  capacity and any replay.

`EventStreamProofs`
- `TypeCorrect`, `LeakFree` (`[]NoLeak`) and `VanishedOnly`
  (`ClosesOnlyVanished`), from the inductive `IInv`, which adds to the first two
  what they rest on: an entry of `m.conns` is a struct that knows its
  organisation (`Entries`), the struct a stop waits for is still an entry
  (`Awaited`), and an organisation with a CR that was there since the round
  began is in `desired` already or its kind is still to be listed (`Covered`):
  so the round that closes what is not desired cannot hit it.

`OrgSettingsProofs`
- `TypeCorrect`, `NoStray`, `SyncedTrue`, `HonestDrift` and `Reported` are the
  five invariants of the run `org`, for any number of sections, CRs and
  organisations. None but the types is inductive. The invariant `IInv` has three
  parts. `StoreInv` is about what is stored: with the properties themselves,
  that all markers of a CR whose Secret did not move are in its one
  organisation (`AtHome`), and that the values of an observed generation are in
  place even when the status says something else (`StoredObserved`: a pass that
  fails later leaves `observedGeneration` where it was). `PassInv` is about what
  a pass may rely on: its copy (`Copied`), the sections behind it, which are as
  the copy asks until somebody else changes them (`Done`) or carry no marker of
  a CR that is finalizing (`Cleared`), and the organisation, which the Secret may
  have left (`OrgKept`). `Reporting` ties a value replaced in an observed generation to `drifted`
  until the pass reports it or fails.
- The hard cases are the calls of another CR's pass, which the history variable
  `changed` must know of, a Secret that moves within a pass, and an edit under
  way, after which the copy's generation is an old one.

The proofs do not cover, and TLC alone checks, liveness (`Converges`,
`Quiesces`, `AlwaysLeaves`, `Corrected`, `SwiftCadence`, `Backstop`, `Opens`,
`AllExit`, `EnsureReturns`, `OnlyTwoWedges`), since TLAPS handles neither
ENABLED nor fairness. The invariants `IInv` and `SInv` were checked by TLC on
the runs' instances before they were proved. There is no induction over data in what is modelled: the one
sequence of `OrgSettings` is taken from its head, and its lemmas (`HeadAndTail`)
need no more.

## 6. Where code and documentation disagree

Each has a run that exhibits the behaviour.

- `client_lost_secret`: docs/operator.md:129-132 promises that the generated
  secret is written to the Secret. After a crash, a lost reply of Create or a
  failed write of the Secret, the next pass finds the client up to date, reports
  Ready, and the secret is gone for good.
- `client_stuck`: the webhook lets deletions through lest a CR whose Secret is
  gone be stuck; the controller resolves that Secret before it looks at the
  deletion timestamp, so it is stuck all the same.
- `stream_deadlock`: `conn.stop` waits with `m.mu` held for a goroutine that
  waits for `m.mu` in `dispatch`.
- `drift_debounce`: the debounce is said to lose nothing; an edit within two
  seconds of an enqueue whose pass has read already waits for the poll.
- `drift_cadence`: the debounce is said to hold a comparison that never agrees to the
  cadence of the poll. It does not hold back the watch of the CR's own status: when a
  second ends between two status updates, `lastSyncedAt` queues the CR again, so passes
  that take a second follow one another for ever, each with a write. An echo that
  arrives after the two seconds does the same through the stream. Either loop keeps
  itself up alone, which is why `Swift` speaks of both.
- `org_first_drift`: a `DriftDetected` Event is said to mean a change without a change of
  the spec, and "not the first reconcile". The controller compares values only, so
  settings that differ on the first pass, or after an edit, are reported as
  out-of-band drift. `DriftHonest` is the part that holds: observed generations.

The properties that do hold are stated with these exceptions in sight: `Wedged`
in `OnlyTwoWedges` has the deadlock and the nil `cancel`, `Whole` in
`NamedResource` the policy rule, `rekeyed` the edit of a name, `Doubled` a
second resource of the key made by an outsider, `Swift` passes of a second or more, `Alone` in `OrgSettings` two CRs
of one organisation.

Seen on the way and not exhibited by a run of its own: `responseTypes` of a client is
sent but not compared (clavexclient_controller.go:304), so a change of it alone, in the
spec or out of band, is reported in sync and never applied, though
docs/operator.md:312-313 calls the spec the source of truth; a policy rule with
`enabled: false` is created without the field (clavexauthpolicy_controller.go:246) and,
where the server's default is true, reported in sync, and the next pass calls the
operator's own omission out-of-band drift (`Whole` excepts it); a lister's error is taken for "no
CRs of this kind" and closes streams until the next round (in the model, as
`Fails` in `ListKind`); the API key of a connection is resolved once; after a
failed resolution of the auth Secret the condition Synced keeps its old value;
`tokenEndpointAuthMethod`, `scopes` and `idTokenSignedResponseAlg` of a client
are not sent; renaming a ClavexRole makes a second role, though
`clavexrole_types.go:31-33` says a change of name has no effect; two CRs of one
key undo each other's writes; an identity provider's `config` is not compared
and a rotated secret never pushed; `compare.go:5-12` says that drift
comparisons must ignore order and nil, but webhook events, role claim mappings
and policy conditions are compared with `slices.Equal` and `reflect.DeepEqual`
(clavexwebhook_controller.go:277, clavexidentityprovider_controller.go:297,
clavexauthpolicy_controller.go:294).

Of ClavexOrg: docs/operator.md:260-263 says there is no finalizer and deleting
a CR has no effect on the Admin API, while the finalizer clears the markers (as
the comment at clavexorg_controller.go:94-98 says); when the password policy was
corrected and the rate limits then fail, the `DriftDetected` Event is lost with the
error (clavexorg_controller.go:217) and the next pass has nothing to report
(`NothingSilent` is the part that holds: passes that come to their end, whatever failed
before them); two CRs of one organisation with different sections
clear each other's marker in every pass, though clavexorg_types.go:46-48 calls
the sections independent.

## 7. What is not modelled

- **Pure comparisons, parsing, backoff** (`equalStringSets`, the `upToDate`
  functions, `parseResourceType`). They are sequential and pure, within a unit
  test's reach, and abstracted to their verdict: equal or not, ours or not, a
  pause.
- **Two ClavexClients of one clientId**, public clients, a change of the
  Secret's name: `ClavexClient` has one confidential client. Two CRs of one key
  are in `NamedResource`.
- **Rotation of API keys** on an open connection: keys have no identity.
- **Leader election, TLS, metrics, flags** (`cmd/main.go`): wiring of
  controller-runtime. One active manager is assumed; a change of leader is a
  `Crash`.
- **Generated code and test utilities**: no state of their own.
- **The Admin API, the API server, the informer and the work queue** are not in
  this repository; they are modelled from how the code uses them and marked
  external in `PROJECT.json`. That clientIds are unique in the Admin API, that
  deleted roles leave their groups and, in `GroupRoles`, that names of groups and
  roles are unique is taken from that use; the order of a listing is not assumed; whether names of
  roles, rules and URLs of webhooks are unique is the parameter `Unique`, and
  the run takes the harder case, that they are not.
