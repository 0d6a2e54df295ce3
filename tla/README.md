# TLA+ models of the switch simulator

switchlab simulates a managed LAN switch: an HTTP API and a web interface edit its
configuration, SNMP managers read and set it, RADIUS servers authenticate the
clients of its ports, and everything that must survive a restart is in one SQLite
store. This directory models the parts in which order, failure and staleness
matter. `PROJECT.json` lists components, runs, hazards, theorems, and for every
definition the source lines it models.

## 1. Inventory

### Execution model

One asyncio event loop runs everything. Two locks order it:

- `Engine.lock` guards the published state. A section under it contains no `await`,
  so it is one atomic step in the models. What makes interleavings is the time a
  task waits *for* the lock: what it captured before may be stale after.
- `io_lock` orders API commands that rebind transports, SNMP SETs and reboots. It is
  held across awaits, so `SetRequests` has it as a variable.

A command copies the runtime state, applies itself to the copy, reconciles the copy
with the new configuration, commits it in one SQLite transaction, and only then
publishes it. A transaction ends committed, rolled back, with a failed rollback, or
with an unknown commit; the last two latch `store.fault_reason`, after which nothing
is written until the process restarts.

### Components

| Component | State | Operations | What makes it correct |
|---|---|---|---|
| Command processor and store (`engine._execute`, `storage.py`) | lab, running and startup policy, revisions, idempotency entries | resource edits, save, reboot, advance, boot | revisions identify states; unsaved flag exact; nothing saved implicitly; keys applied once; numbers not reused |
| Dynamic authorization (`engine.py`, `radius.py`) | receipts, watermark, sender generations, reservations, listener | reserve, handle, prune, reconfigure, close, restart | a datagram acts at most once; answers are true; pruning is safe; boundaries bar |
| SNMP SET lifecycle (`snmp.py`, `snmp_lifetime.py`) | tickets, tasks, library records, generations, activation | admit, wait, complete, expire, cancel, close | nothing revoked commits; responses true; no leak; every request ends |
| Access authentication (`engine.py`) | attempts, sessions, grants, learned addresses | discover, start, result, CoA, PAE actions, edits | no stale result applied; host mode respected; addresses and VLANs end with their session |
| Simulated clock (`Runtime.advance`, `continue_advance`) | timeline, session deadlines, operation record, renewal budget | advance, continue, cancel, fail, reset | no grant outlives its timers; an advance ends, never continues on another timeline, and is reported truly |
| RADIUS server health (`engine.authenticate`) | health records, probe owner, back-off | take, response, exhausted, release, edit | one probe at a time, always given back; no report for a replaced record |
| RADIUS accounting (`engine.py`, `radius.py`) | outbox, numbers, delivery tasks, settings | enqueue, deliver, retry, expire, reconfigure, drain, restart | order per session and around On/Off records; bounded; no record of other settings; no record waits for ever |
| Notifications (`snmp.drain_one`) | outbox, retry state | enqueue, send, cancel | the head that is removed is the one that was sent |
| Management access (`management.py`, `api.py`) | sessions, viewer policy generation, administrator, password workers | setup, login, logout, viewer update | no session under an old policy or a lost setup; at most twenty; four workers |
| SET planning and MIB reads (`mib.py`) | none (pure) | `plan_set`, projection | the plan agrees with applying the bindings one by one |
| HTTP API, web interface, codecs | none of their own | routing, encoding | data formats |

Interactions: API, SNMP SET, RADIUS results and CoA all end in `Engine._execute`.
A policy change through the API makes the SNMP adapter retire queued SETs and the
dynamic authorization receiver retire reservations. A CoA changes sessions; the
session's attempts are then withdrawn. Pending attempts stop the simulated clock.
Sessions that begin, end or are renewed queue accounting records in the same commit.
The background loop of `api.py` calls, in this order, the receiver's reconciliation and
pruning, `service_authentication`, `service_accounting`, `continue_advance`, the
automatic advance and `drain_one`.

### Hard behaviours

Retransmitted and late datagrams; two clocks of which one may be stepped back;
crashes and unknown commits between an effect and its record; authorization changed
and restored (ABA) while a request waits; library timers that fire outside every
lock; RADIUS replies for attempts that no longer exist; passwords hashed in threads
while policies and sessions change; deliveries that overlap, are retried and cancelled
under a queue that must stay in order; limits counted at the wrong moment. `PROJECT.json` "hazards" has each at its line, with the properties that
would notice.

## 2. Modules

| Module | Models | Extends |
|---|---|---|
| `DynamicAuth` | dynamic authorization receiver with its part of the store | - |
| `DynamicAuthProofs` | proofs about it | `DynamicAuth`, TLAPS |
| `Commands` | command processor, idempotency, startup configuration, store | - |
| `CommandsProofs` | proofs about it | `Commands`, TLAPS |
| `SetRequests` | SNMP SET lifecycle and the adapter's listener | - |
| `SetRequestsProofs` | proofs about it | `SetRequests`, TLAPS |
| `Access` | authentication, sessions and learned addresses of one port | - |
| `AccessProofs` | proofs about it | `Access`, TLAPS |
| `AccountingQueue` | what the accounting outbox promises the collectors | - |
| `Accounting` | accounting outbox, delivery tasks, drain and restart; implements `AccountingQueue` | - |
| `AccountingProofs` | proofs about it and about the abstract queue, the refinement included | `Accounting`, TLAPS |
| `Management` | setup, sign-in, viewer policy, sessions and password workers | - |
| `ManagementProofs` | proofs about it | `Management`, TLAPS |
| `Advance` | simulated clock, session timers, waiting advances | - |
| `AdvanceProofs` | proofs about it | `Advance`, TLAPS |
| `ServerHealth` | health records of RADIUS servers and the tasks that report to them | - |
| `ServerHealthProofs` | proofs about it | `ServerHealth`, TLAPS |
| `MC*` | small instances and their `.cfg` files | the module they instantiate |

Each module models its own view of the store (`Outcome`, `Reached`, a disk image and a
latched fault) since the components share only the atomic commit. `OtherFault` in
`DynamicAuth` and `SetRequests` is a fault latched by any other component.

**DynamicAuth.** `mem` and `disk` are the published and committed metadata
(`_das_cache`, `_das_high_water`, `_das_generations` and the saved policy). `Reserve`
and `Resend` are `receive_dynamic`; `HandleStale`, `HandleExpired` and `Decide` are
the branches of `_handle_dynamic` once it has the lock; `PruneReservation` and
`PruneReceipts` are the transactions of `prune_dynamic`. `Reconfigure` is the tail of
`_execute` which mints generations and retires reservations. `OpenListener` and
`ListenerReady` are the two sides of the await in `reconcile_dynamic`. Time is whole
seconds; `math.nextafter` is one more second. Instead of the elapsed clock the model
has, per request, the elapsed seconds that are `left`. A request is abstract: its
timestamp, sender, secret, kind and whether its attributes are supported are constant
operators, so the proofs hold for any of them.

**Commands.** A configuration is a lab part (durable with every command) and a policy
part (durable when saved); a port is its interface number. `Execute` is `_execute`
with its key, its revision checks and a storage outcome; `Replay` is the answer from
an idempotency entry; `Boot` is the constructor of the engine on an existing store.
Commands are represented by one of each kind the path tells apart: lab edits, policy
edits, edits of both (`switch-edit`), port creation and deletion, save, reboot and the
non-durable advance.

**SetRequests.** A ticket (`phase`, `mp`, `security`) and its task (`task`) are
separate, as in the code: a ticket may expire while its task waits. `Wait`, `Stop`,
`Reject`, `Complete` and `AnswerOnly` are `_run_set`; `Complete` is one step because
claim, commit, response and release have no await between them. Generations and
activations are stamps, which the code draws anew at each change.

**Access.** Operators map a configuration and a runtime state to the next runtime
state and have the names of the `Runtime` methods (`end_session`,
`begin_authentication`, `reconcile_authentication`, ...); commands compose them.
Deadlines and back-off are nondeterministic: any live session may expire in any
command that looks at deadlines. Ids are reused once nothing refers to them, which
makes the state space finite without a bound on the history. `Tasks` bounds
concurrent exchanges and `Capacity` the sessions, as in the code.

**AccountingQueue and Accounting.** The abstract specification has numbered records of
owners (sessions, and the switch itself for On and Off) and two steps: records leave and
newer ones join, or an eligible record is put on the wire. `Accounting` has the rest:
`queue_accounting`, commands with every storage outcome, `Service` (one
pass of `service_accounting` up to its await), `Prune`, and per record a task that goes
through `Attempt`, `Answer`, `Silence`, `Unreachable` and `Result`
(`_deliver_accounting_targets`, `deliver_accounting`), or is abandoned or cancelled
wherever it waits. The outbox is a set, since records are appended with increasing
numbers. Both clocks are reduced to the set of records they call `expired`, which
`ClockChanges` sets to anything. `Shutdown` is `radius-shutdown`, after which the drain
goes on; sessions can still begin and end in it, since authentication tasks and the SNMP
adapter are closed later, so that records may follow the Off record. `ImplementsQueue`
maps the outbox without settings to the abstract queue. What the code decides by the size
of records is a choice: a record may be too large for a packet, and takes no number; it may
find no room in the 8 MiB of the outbox (`small` are the places whose records do), and takes
a number all the same; and a stored outbox may be too large for the loader, and then there
is no `Restart`. The number of records, 1,024 in the code, is counted in both places.

**Management.** A request (`setup`, `login`, `update`) captures what the code reads
before its await, waits for one of the password permits (`Permit`), works in a thread,
and goes on in `LoginEnds`, `SetupEnds` or `Hashed`, then `Apply` under the `io_lock`.
`Cancel` ends a request anywhere and leaves its thread behind (`orphans`). A token is the
number of its session, so the dictionary's order is the order of tokens.

**Advance.** A subject is a client with its grant, pending attempt, status and budget.
`process`, `prepare` and `observe` are what the code does with one subject at one instant;
`advance` goes through the instants and stops at the first with an exchange pending. The
model's clock ticks through every instant, the code's jumps to deadlines: nothing is due
in between. `Start`, `Continue`, `Fail` and `Cancel` are the commands on the operation
record, and `reply` what the idempotency entry of its command tells a retry. `Settled` is
the guard that `service_authentication` runs just before `continue_advance` in the
background loop with no suspension between; `GuardReported` depends on it, since
`advance-continue` would otherwise overwrite the failure `reserve_renewal` reports.

**ServerHealth.** A health record is known by its generation, where the code compares
objects. `Go` is the loop of `authenticate` up to its next exchange; `Response`, `Answer`,
`Exhausted`, `Broken` and `Cancelled` are the ways on from an exchange, each with the
`finally` that releases the probe.

## 3. Runs

Mutations (`Mutant...`, `mutant_...` before the definition they stand for) are
plausible mistakes; for every property of a passing run there is one that breaks it.
What is proved as an auxiliary fact is not checked again: `TypeOK` of `DynamicAuth`,
`SetRequests` and `Accounting`, `PublishedIsCommitted` and `WireOrder` have theorems only.
Every safety property below has a theorem as well (section 4), so the bounds of a run
matter for its liveness property and for the mutations; the run shows the histories the
proof is about to be possible.
The parts of a conjunction are in brackets.

| Run | Checks | Bounds, and why they are enough |
|---|---|---|
| `das_clock` | `WithinCapacity`, `AtMostOnce`, `AnswersAreTrue`, `ForgottenBehindWatermark`, `DecisionIsFinal`, `ReservationsEnd` | two datagrams of different kind and second for one place, one-second window, seconds 0 to 4: a receipt can expire, be pruned, and its packet be back in the window after a clock step |
| `das_config` | `BoundaryBars` | one datagram, two secrets, disabled and deleted senders, listener on and off, three generations, one reboot: change, restore, restore by reboot; time stands still |
| `commands` | `RevisionIdentifiesState`, `DirtyIsExact`, `StoreIsCoherent` (with `TypeOK`), `RetriesAreSafe` (`KeyAppliedOnce`, `ReplayIsTruthful`), `NoImplicitSave`, `NumbersAreFresh` | two ports, two numbers, five revisions, two keys and one kept entry: create, edit, save, delete, reboot and restart fit in one history, and entries are evicted |
| `set_requests` | `ResponsesAreTrue`, `NothingLeaks`, `WithinLimit`, `NoCommitAfterChange`, `RequestsEnd` | two requests of two credentials for one slot, three changes: change and restore while one waits and the other is refused or follows |
| `access_config` | `AttemptsAreCurrent`, `NoStaleGrant`, `AttemptsEnd` | one client, one exchange at a time, every kind of edit of its settings; two supplicant profiles and two settings to change and restore |
| `access_vlan` | `RowsEndWithSession`, `SessionVlanUsable` (with `TypeOK`) | one client, two VLANs, open and controlled port |
| `access_hosts` | `HostModeLimit` | two clients, all host modes, one session and one exchange: the second client meets both limits. Two sessions never live at once here, so that a host mode edited under two of them is covered by the theorem `HostsLimited` only |
| `access_shared` | `SharedRowsEnd` (violated) | two clients of a shared port |
| `accounting` | `WithinLimits` (`RecordsBounded`, `TasksBounded`), `DeliveriesExclusive`, `QueuedForSettings`, `ImplementsQueue`, `RecordsEnd` | two sessions and the switch, one accounting setting or none, three numbers, two places, two tasks, one attempt each, one disturbance (clock change or rollback): records of both sessions wait on both sides of an On or Off record, the outbox overflows in number or in bytes, and a delivery is cancelled, or repeated after a rollback or a restart |
| `management` | `WithinLimits` (`TypeOK`, `SessionsBounded`, `PermitsConserved`), `SessionsProven` (`ViewersCurrent`, `AdminsProven`), `AdminsNotDisplaced`, `UpdatesAuthorized` | two browsers, two passwords, two sessions in the table, one worker, three sessions and two policy changes per process: every kind of eviction happens, both setups race, and a policy changes during a sign-in |
| `advance` | `DeadlinesMet` (`TypeOK`, `NoGrantOutlives`, `RenewedInTime`), `OperationsSettle`, `GuardReported`, `TimeOwned`, `AdvanceEnds` | two clients, instants 0 to 2, a budget of one renewal, one waiting advance, two edits; the timers granted include a lease of zero that renews and one that ends. What a second advance does to the reply of the first is covered by the theorem `RepliesSettle` only |
| `server_health` | `ProbesExclusive` (`TypeOK`, `ProbesHeld`, `OneProbe`), `ReportsAreCurrent` | three attempts, two servers, two signatures, two edits, instants 0 to 2: two attempts fail late while a third probes, and a server is edited and restored during an exchange |

The clock, revision, number, generation, stamp and epoch bounds (`MaxTime`,
`MaxRevision`, `MaxNumber`, `MaxMinted`, `MaxStamp`, `MaxEpoch`, `MaxSequence`,
`MaxUpsets`, `MaxToken`, `MaxGeneration`, `MaxOps`, `MaxEdits`, `Horizon`) only cut
histories short; because of them a behaviour may stop, hence no deadlock check in
`DynamicAuth`, `Commands`, `SetRequests` and `Accounting` (a closed adapter, too, rightly
stops). `Access`, `Management`, `Advance` and `ServerHealth` are checked for deadlock.
Symmetry is used for keys, clients, passwords, attempts and settings where the run has no
liveness property.

No run has two datagrams pending at once, or two SETs at once: the properties of these
runs are about one request against the rest of the system, and are proved for any number.

### Finding

`access_shared`. `end_session` removes the addresses of all clients of a shared port,
and takes the port for shared when its host mode *is* multi-host. When the host mode
itself is edited away from multi-host, the session is ended after the new
configuration is in place: addresses that other clients learned through it stay,
although the session that admitted them is gone. `tests/test_radius_host_modes.py:124`
expects an empty table when a shared session ends, there by its timer. `RowsEndWithSession`, which
holds, is about addresses learned under the client's own session.

### Fairness

- `DynamicAuth`: handler tasks run (asyncio schedules every ready task and the lock is
  handed on in order); time passes; the background loop prunes every 0.1 s, and a
  transaction without a latched fault does not roll back every time it is tried.
  `ReservationsEnd` assumes that the wall clock in the end stays past the watermark:
  behind it `prune_dynamic` does nothing, by design.
- `SetRequests`: every task and done callback runs, and a bind that an API command
  awaits completes or fails.
- `Access`: the refresh loop calls `service_authentication`, so a pending attempt with
  a free place is started; every exchange has a deadline, so it delivers. Strong
  fairness is needed since edits may withdraw attempts and results may be lost with a
  rolled back commit, but not every time. `AttemptsEnd` is stated where sessions fit
  the capacity; at the capacity an accepted attempt is repeated until a session ends
  (see the hazard at that line).

- `Accounting`: the background loop runs (`Service`, `Prune`) and every delivery task
  runs, its waits being bounded by the response timeout and the record's five minutes. No
  collector has to answer. `RecordsEnd` excepts a latched fault and the end of the process.
- `Advance`: the background loop continues an advance and discovers what is due, and every
  exchange has a deadline, so an answer or a failure comes. `AdvanceEnds` needs no limit on
  what servers grant: a lease of zero is stopped by the budget.

`Management` and `ServerHealth` state safety only.

## 4. Proofs

TLAPS proves every safety property of the passing runs, for every set of requests,
senders, policies, credentials, clients, sessions and settings, every window, timer and
limit; TLC evaluates the same assumptions in each run.

| Module | Theorems that state a run's property |
|---|---|
| `DynamicAuthProofs` | `ExactlyOnceEffect` (`AtMostOnce`), `TruthfulAnswers` (`AnswersAreTrue`), `SafePruning` (`ForgottenBehindWatermark`), `FinalDecisions` (`DecisionIsFinal`), `BoundariesBar` (`BoundaryBars`), `ReceiptsLoad` (`WithinCapacity`) |
| `CommandsProofs` | `RevisionsAreSound` (`RevisionIdentifiesState`), `DirtyFlagExact` (`DirtyIsExact`), `StoreCoherence` (`StoreIsCoherent`), `SafeRetries` (`RetriesAreSafe`), `StartupPolicyOnlySaved` (`NoImplicitSave`), `NumbersNeverReused` (`NumbersAreFresh`) |
| `SetRequestsProofs` | `RecordsDoNotLeak` (`NothingLeaks`), `TruthfulResponses` (`ResponsesAreTrue`), `RevokedNeverCommits` (`NoCommitAfterChange`), `QueueBounded` (`WithinLimit`) |
| `AccessProofs` | `AttemptsCurrent` (`AttemptsAreCurrent`), `NoLateGrants` (`NoStaleGrant`), `HostsLimited` (`HostModeLimit`), `RowsEnd` (`RowsEndWithSession`), `VlansUsable` (`SessionVlanUsable`) |
| `AccountingProofs` | `SettingsMatch` (`QueuedForSettings`), `Exclusive` (`DeliveriesExclusive`), `LimitsHold` (`WithinLimits`), `Refinement` (`ImplementsQueue`) |
| `ManagementProofs` | `LimitsHold` (`WithinLimits`), `SessionsAreProven` (`SessionsProven`), `AdministratorsStay` (`AdminsNotDisplaced`), `UpdatesAreAuthorized` (`UpdatesAuthorized`) |
| `AdvanceProofs` | `RepliesSettle` (`OperationsSettle`), `DeadlinesKept` (`DeadlinesMet`), `GuardIsReported` (`GuardReported`), `TimeIsOwned` (`TimeOwned`) |
| `ServerHealthProofs` | `ProbesAreExclusive` (`ProbesExclusive`), `ReportsCurrent` (`ReportsAreCurrent`) |

Besides these there are `TypeCorrect` or `Invariance` (the inductive invariant itself),
`PublicationFollowsCommit`, `QueueOrder` and `OrderOnTheWire`.

**DynamicAuthProofs** (assumes `RequestAssumption`: timestamps are natural numbers and
senders are known; `BoundsAssumption`; `NoneAssumption`: `None` is no receipt,
generation, reservation or setting, and no secret equals `Disabled`).
`AtMostOnce` alone is not inductive: after a receipt is pruned nothing in memory or on
disk tells that the request was decided. The invariant `IInv` adds that a forgotten
decision lies behind the watermark, that memory equals disk while storage is healthy,
that everything recorded about a request makes it decided (`RecordedIsDecided`), that a
receipt on disk says whether the effect took place (`ReceiptsTellEffects`) and that a
reserved request had no effect (`ReservedHasNoEffect`). The heart is
`AdmittedIsUndecided`: a request that passes the clock check and has no receipt was
never decided, since otherwise the watermark would lie after its window. Every writing
action is reduced to `WriteKeeps`, which covers any transaction that adds receipts
without a response and drops receipts only behind its own watermark.
`ReceiptsLoad` counts: the set of receipts and reservations and the set of receipts on
disk are each within the capacity (`Counted`), and only an admission below the capacity
brings in a request that was in neither; any other step takes its receipts from what
the two sets already hold (`Confined`).

**CommandsProofs** (assumes `ValueAssumption`, `LimitsAssumption`). `IInv` has three
strands. Revisions: what a client has seen is never ahead of the process, nor the process
of the disk (`RevisionsGrow`), so that the next boot starts past everything ever read;
without it a restart after an unknown commit could give out a revision twice. Store: every
policy has exactly the ports of its lab (`PortsMatch`), the store holds what is published
while it is healthy (`Stored`), and the allocator on disk is past every number ever
committed (`AllocatorAhead`), from which `DirtyIsExact`, `StoreIsCoherent` and
`NumbersAreFresh` follow. Keys: an entry is as many places from the end of the stored
table as there were later keyed commits (`EntriesHeld`), and an entry for a volatile
change names the incarnation it was made in (`EntriesScoped`); eviction from the front and
the incarnation drawn at each boot are what keeps `RetriesAreSafe`.

**SetRequestsProofs** (assumes `SetAssumption`: each request has a known credential,
natural limits; `GrantAssumption`: `None` is no grant).
`IInv` adds that no grant is newer than the stamps minted (`GrantsAreOld`, so a change
always leaves a grant behind), that a task belongs to an admitted request, and that an
open ticket has had no effect and an unchanged authorization (`OpenIsUntouched`, which
holds because a change retires what it makes stale in the same step). `QueueBounded` has an
invariant of its own: the tasks that hold memory are finitely many and within the limit.

**AccessProofs** (assumes `AccessAssumption`: finitely many clients and VLANs; `None` is no
session; more ids than exchanges under way plus two, and than learned addresses plus one).
Each command is a chain of operations on a copy of the state, followed by
`reconcile_authentication` and mostly by the sweep. `Sound` is what every operation keeps:
each attempt is tied to the session and grant its client has, an address is learned once
per VLAN, and an address learned under its own session names that session. `Heirs` says
that the attempts of the copy are pending ones or have a new id. Reconciling turns such a
copy into one whose attempts fit the configuration (`Fitting`) and whose sessions have a
usable VLAN (`Usable`). The host mode is kept by every chain (`Single`), but an edit may
change it under two live sessions: then the changed context of every attempt and the
changed authentication of every session end them all. For `NoStaleGrant` the invariant
adds that what is void is an exchange under way and not a pending attempt (`Voids`); a new
attempt could break that only with the id of an exchange, and `NewAttemptFresh` shows that
an id is left, since at most `Tasks` exchanges run. For sessions the same argument injects
the ids in use into the learned addresses.

**AccountingProofs** (assumes `AccountingAssumption`: the switch is no session, `Off` is no
setting, natural limits). `DeliveriesExclusive` and the refinement are not inductive: a task
was started for a head of the queue, and must still be for one when it sends. `IInv`
therefore says that every active task's record is queued and eligible (`TasksReady`),
which survives because what joins the queue is newer (`Numbered`) and what leaves takes
its task along; that the stored queue is like the published one while storage is healthy
(`StoreFollows`), so a restart brings back no number that was passed; and
`QueuedForSettings`. Every command is reduced to one lemma about a queue of which records
leave and newer ones join. `QueueOrder`, about the abstract queue, keeps the order of every
session and the On and Off barriers: numbers in the queue and on the wire do not exceed
the greatest one given out, so whatever joins is newer than whatever was sent.
`OrderOnTheWire` follows from `Refinement` and `QueueOrder`. `LimitsHold` counts records
and occupied slots; that `queue_accounting` fills the queue at most, however many records
one command names and whichever of them have the bytes, and that one pass of
`service_accounting` fills the free slots at most, are lemmas. It is about the number of
records: that what is stored loads again does not follow, see section 5.

**ManagementProofs** (assumes `ManagementAssumption`). What a request captured before its
await is still true when it goes on, or the generation of the viewer policy tells that it is
not (`RequestsSound`); this is what `SessionsProven` needs of a sign-in that overlaps a
policy change. An administrator, once stored, stays (`StoreAgrees`), so of two racing
setups only the stored one leaves a session. `WorkersCounted` is an equation: permits,
threads of cancelled requests and requests at work add up to the number of workers.

**AdvanceProofs** (assumes `AdvanceAssumption`). `RepliesSettle` needs that operations are
numbered as they are issued. `DeadlinesKept` is about one advance over many instants, which
the model computes with a recursive function. It is proved by contradiction at the first
instant that breaks it: `Sound` (the deadlines up to this instant have had effect, what is
behind it belongs to a client that left) holds after the work of each instant and is what
the work of the next relies on. `Clocked` carries it from command to command, also over
edits and results that arrive while an advance waits, `Guarded` the numbers of operations
whose budget ran out; `TInv` is their conjunction with the invariant of `RepliesSettle`.

**ServerHealthProofs** (assumes `ServerHealthAssumption`). `OneProbe` and `ProbesHeld` need
only that no record or exchange has a generation that is still to come (`Known`): an edit
then makes a record that no task holds, so a late report cannot touch it.

Only model-checked: the liveness properties `ReservationsEnd`, `RequestsEnd`, `AttemptsEnd`,
`RecordsEnd` and `AdvanceEnds`, which need fairness and are out of the prover's reach.
`SharedRowsEnd` is the finding of section 3 and does not hold.

## 5. Not modelled

- Packet formats, cryptographic checks and the native RADIUS helper (`radius.py`): an
  exchange is its result.
- MIB encoding and reads: functions of one published snapshot.
- Routing, streaming and the web interface.
- Field validation of `models.py`, except the VLAN consistency of a port in `Access`.
- In `Access`: other ports (addresses that move away are `Age`), PAE counters, status
  texts and the times of deadlines, which are in `Advance`.
- In `Advance`: the limit of eight attempts, shared ports and a full session table; late
  results, which are in `Access`; the estimate of an advance's work (`Fail` may happen at
  any time).
- In `Accounting`: attributes and their sizes; what the code decides by them is a choice.
  No property is about the 8 MiB, for what one would say of them is not true of the code:
  `queue_accounting` (`engine.py:645`) adds up the records as compact JSON,
  `Engine.__init__` (`engine.py:1047`) measures the whole list as default JSON, with a space
  after each comma and colon and with the `status` and `attempts` of later events. An
  outbox accepted just below 8 MiB can therefore be above it for the loader, which then
  raises "Invalid saved accounting queue", against the bound of
  `specification/docs/RADIUS.md:150`.
- In `Management`: the rate limit, CSRF tokens, the permission table of routes and the
  shutdown, which waits for the password workers.
- In `ServerHealth`: the order of servers as an edit; a storage fault and the shutdown,
  after which no report counts and every task is cancelled.
- Notifications (`drain_one` and the notification outbox).
- The order in which the components are closed at shutdown, and what is skipped when one
  of them cannot be: a process may stop at any moment in every model.
- In `DynamicAuth`: two openings of the listener at once, by the background loop and by an
  API command, of which one gets the address.
- In `SetRequests`: SETs without an authorized identity, which are dropped; a listener that
  is kept under the `io_lock` when an edit leaves its address alone.
- Writers of the store other than the process, such as a second SQLite connection.

## 6. Plan

1. An abstract startup specification (saved policy, running policy, lab) that `Commands`
   implements, with a proof of the refinement.
2. `Notifications`: the queue that is cancelled and refilled while its head is sent.
3. `SetPlan`: `plan_set` against a reference that applies the bindings one by one.
