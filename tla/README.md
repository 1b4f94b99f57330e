# Formal models of Francis

This directory holds TLA+ models of the parts of Francis that several threads,
processes and requests share, the TLC configurations that check them on small
instances, and theorems about them that TLAPS checks for every value of the
constants.  `PROJECT.json` lists the components, the runs, the mutants, the
source lines every definition stands for, the hazards, the findings and the
theorems.

    tlc -workers 2 -config TaskRunner_retry.cfg MCTaskRunner.tla
    tlapm TaskRunnerProofs.tla

Source paths below are relative to `src/src/francis/`.

## 1. The system

Francis is a local, governed agent runtime.  A FastAPI process serves requests;
worker pools (a command, or the daemon) execute tasks; both share directories of
JSON files under `data/`.  There is no database and there is no transaction: a
record is replaced by writing a temporary file and renaming it.  Three things
order the writers of a file: the lock file of a task, the mutexes of one process,
and luck.

| Component | State it keeps | Operations | Meets |
|---|---|---|---|
| Task lock lease (`agent/executor.py`) | `data/tasks/<t>/lock` and its age, lease receipts | take, reclaim a stale one, release | pools, run requests |
| Worker pools, daemon (`workers/runner.py`, `daemon/runner.py`) | claims of a cycle, in memory | list, claim, execute, release | lock lease, task execution |
| Task execution (`agent/executor.py`) | `data/tasks/<t>/record.json` | `execute_task`: refuse, expire, run a capability, count, save | delegation, operations, missions |
| Delegation store (`agent/delegation.py`) | the same record | create, cancel | operations |
| Operations runtime (`operations/runtime.py`, `api/routes/operations.py`) | the same record | create (idempotent), run, hold what governance stopped, patch | delegation, executor, missions, approvals |
| Missions (`missions/store.py`, `missions/runtime.py`) | `data/missions/<m>/record.json`, history | create, link, tick, advance, report, patch, deadletter, replace | operations, executor |
| Pilot scope lease registry (`governance/pilot_scope_lease.py`) | leases, pending revocations, in the memory of one process | issue, consume a binding, effect, authority transaction, revoke, seal | permission gate, pilot runtime, evidence |
| API permission gate (`governance/api_permission_gate.py`) | static scopes | check a request, consume a binding | registry |
| Managed copy pilot runtime (`managed_copy_pilot_runtime.py`) | the process of a pilot run, its lease | launch, verify, revoke, halt | registry, evidence |
| Managed copy evidence (`managed_copy_runtime_evidence.py`) | receipts on disk, `_RECORD_LOCK`, `.write.lock` | record, clean up a denied publication | registry |
| Approvals (`governance/approvals.py`, `api/routes/approvals.py`) | four directories of files, one per status; receipts of the builder | request, decide, decide in the builder's name | operations, reactor, supervised execution, git push |
| Reactor (`reactor/`) | an event's record, its retry schedules, its deadletter, deliveries of deadletters | enqueue, dispatch, mark due, retry; review, resolve, escalate, deliver and recover a deadletter | operations, approvals |
| Compute substrate (`compute_substrate_*.py`) | grants, receipts and status records on disk; a registry of workers | submit: govern, consume a grant, run, write the receipt, record | |
| Takeover, away, swarm (`takeover.py`, `away.py`, `swarm.py`) | session receipts | begin, act, hand back | operations, approvals |
| Unreal presence (`unreal_presence_*.py`) | intents seen, replay guard | accept an intent once | native client |
| Other managed copy steps (`managed_copies.py`, `managed_copy_*.py`) | chains of receipts | provision, isolate, compare | evidence |
| Supervised execution, git push (`agent/supervised_exec.py`, `agent/git_push.py`) | none of their own | ask for an approval, or look one up and run its command | approvals |
| Planning (`agent/task.py`, `deliberation/planner.py`) | plans | create, revise | executor |
| Plugins, memory, chat, lens, credentials, kernel, applications, connectors | records of their own | request and response | |

What is hard about it:

* A task record has four kinds of writers (executor, run requests, cancel, patch),
  each of which loads it, works, and saves the whole.  Only the executor holds the
  lock, and not even it for all of its saves.
* The lock file ages.  Whoever finds a stale one removes it by name, and whoever
  releases removes it by name.
* A mission record has the same kind of writers and no lock at all.
* An operation is created, linked and reported in three files, and a process may
  end between any two of them.
* The registry serves requests that wait for a second mutex inside the first, and
  must let a revocation win against a publication that is about to commit.
* An approval is a file that moves between folders by a write and an unlink, while
  others look through the folders.
* A grant is read, judged and written back; so is a retry schedule.
* What the reactor knows of an event is in up to five files, written one after
  the other by calls that may overlap or be cut short.
* Nothing is cleaned up after a crash but what somebody finds stale.

The properties that make the components correct are those of section 3; the
hazards they are aimed at are listed, each at its line, in `PROJECT.json`.

## 2. The modules

    TaskLease            the lock file protocol            TaskLeaseProofs
      |  EXTENDS
    TaskRunner           records, pools, requests, edits   TaskRunnerProofs
      |  INSTANCE ... WITH
    TaskLifecycle        what an observer is promised

    Missions             missions and intake of operations MissionsProofs

    PilotLease           registry, publications, effects   PilotLeaseProofs
      |  INSTANCE ... WITH
    LeaseAuthority       what work under a lease relies on

    Approvals            deciding and acting on approvals  ApprovalsProofs
      |  INSTANCE ... WITH
    ApprovalGate         what whoever asks is promised
      |  INSTANCE ... WITH
    Reactor              dispatch and retry of an event    ReactorProofs
    Deadletters          what becomes of its deadletter    DeadlettersProofs

    ComputeGrants        submissions and their grants      ComputeGrantsProofs
      |  INSTANCE ... WITH
    GrantUse             what a grant is good for

`MC<module>` extends each for TLC with its symmetry, and for `Missions` and
`ComputeGrants` with the dependencies and scopes of the instance.  `TaskLease`
and `TaskLifecycle` are checked through `TaskRunner`; `LeaseAuthority`,
`ApprovalGate` and `GrantUse` through the modules that implement or use them.

### TaskLease

`_try_acquire_lock` and `_release_lock`, one action per system call whose result
another caller can change: look (`LookAbsent`, `LookDenied`, `LookStale`), unlink
(`Reclaim`), exclusive create (`Acquire`, `LoseRace`), release by unlink.
`lock[t]` is the file with its creator and whether it is older than
`stale_seconds`; `lease[p]` is how far a caller is.  `Aging` chooses which locks
may grow stale: none, only those of dead processes, or any (an execution that
takes longer than an hour; nothing renews a lock).

### TaskRunner

Extends the protocol with what it protects.  `rec[t]` is the record; `copy[a]` the
copy that an actor will save; `pc`, `job` and `cand` where it is.  Actors are the
slots of the pools, requests to run an operation (`Runner`), and threads that
cancel or patch (`Editor`, which never take the lock).

| Code | Actions |
|---|---|
| `create_delegation` | `Create` |
| `_candidate_task_ids`, `_claim_next_task` | `ListCandidates`, `Try`, `TurnedAway`, then `Claim` or `GiveUp` |
| `execute_task` | `ExecLoad`, `ExecStart`, `RunCapability`, `ExecReload`, `ExecSave`, `ExecRelease` |
| `run_operation` | `RunOperation`, `PreHold`, the execution, `PostHold` |
| `cancel_delegation`, `PATCH` | `CancelLoad` or `PatchLoad`, then `EditSave` |
| a save that raises, a process that dies | `ExecRaises`, `HoldRaises`, `EditRaises`, `CrashPool`, `CrashApi` |

A result is `none`, `ok`, `error`, or what governance answered that stopped the
capability: `waits` (pending, needs_approval) or `blocked` (blocked, denied).  A pool
claims for all its slots before it executes (`phase`).  The order of candidates,
queues and priorities are left open.  The executor, the holds of `run_operation` and
the edits each have a writer of their own, and each saves through one temporary name
per record, which is why a save may raise after its content, or the other writer's,
went live (`Raises`).

### TaskLifecycle

The abstract specification, of what an observer is shown (`shown`, `held`): a task
is queued, running, and then ends or is held by governance.  `TaskRunner` implements
it under the mapping `Observed`, which is `_operation_status_for_task`: that looks at
the result of the last attempt first, and at the status of the record only if
governance did not stop that attempt.  A held task therefore shows as queued or
blocked while it is run again (the record says running, and keeps the old result
until the attempt ends), and also after it was cancelled; in the abstract
specification it goes from held to its end without being shown to run.

### Missions

A call (a tick, a creation, an edit, an advance, an execution) is a record
with a list of steps still to do: the head is done next and may put further steps
in front.  The load and the save of a mission are different steps, and `copy` is
what was loaded.  A cancel or patch of a task is two steps as well, of an `Editor`,
which stores what it loaded over whatever the task says by then (`overwritten`).  A
worker loads and saves a task in one step here; who else does so at once is the
subject of `TaskRunner`, as is a run request that is not part of an advance.

| Code | Steps |
|---|---|
| `tick_mission` | `Tick` (load), `Derive` (read the tasks), `Save` |
| `link_task`, `record_advance_receipt`, `record_linked_task_transition` | `Link`, `Receipt`, `Sync`, then `Save` |
| `update_mission` as patch, unlink; `deadletter_mission`; `create_replacement_mission` | `Patch`, `Unlink`, `Deadletter`, `Replace` |
| `create_operation` | `Find`, `Make`, `Link`, `Save` |
| `advance_mission` | tick, `Decide`, then create or `Operate`, tick, receipt |
| `run_operation`, `execute_task` | `Operate`, `Acquire`, `StartTask`, `Sync`, `Run`, `Sync`, `Release`, `Hold` |
| a pool | `Claim` and the same execution |
| `cancel_delegation`, `PATCH` of an operation | `LoadTask`, `StoreTask` |

A thread may serve several roles over time.  Which task the meta fields of a
mission name last is left open, so a queue run may pick any of the mission's
tasks (a superset of what the code does).  Left out: changes of
`dependency_ids` after creation, dependencies on single operations, history and
projections, and the second operation that one particular objective gets (the
sandbox canvas).

### PilotLease

A section under a mutex that takes no other mutex is one action.  Where a thread
waits for one mutex while it holds another it has a `pc`.  `lease`, `window`
(before, within or after the lifetime) and `pending` are the registry; `intent`,
`registry`, `recording` and `managing` say which thread holds `_intent_lock`,
`_lock`, `_RECORD_LOCK` and the lock of the pilot runtime; `fileLock` and
`receipts` are on disk.

| Code | Actions |
|---|---|
| `issue`, `authorize_binding`, `seal` | `Issue`, `Consume` (within `Act`), `Seal` |
| `revoke` | `Manage`, `Announce`, `Revoke`, `Retract` |
| `execute_authority_transaction` | `Publish`, `Ask`, `Open`, `Record`, `Write`, `Close`, `Commit`, `Decide`, `Withdraw` |
| `authorize_execute_and_consume` | `Request`, `EffectBegins`, `EffectEnds` |
| `record_runtime_evidence` outside of a transaction | `Plan`, `Lock`, `Verify` |
| time, a restart of the process | `Tick`, `Restart` |

`Withdraw` is the clean-up of a denied publication (`_runtime_evidence_transaction_failed`):
the receipt this call wrote is unlinked, under no lock; if the unlink fails the
receipt stays and the answer says `cleanup_required` (`quarantined`).

### LeaseAuthority

The registry without its mutexes: a lease is absent, active, announced (its
revocation is pending) or ended, and each call takes effect at one instant.
Nothing is committed and no effect begins under an announced lease, though a
binding may still be consumed; while an effect runs nothing else is authorized,
committed, announced or ended.  `PilotLease` implements it under `Standing` and
`Effecting`; a restart is the step in which every lease is forgotten.

### Approvals

`file[f][a]` is the file of request `a` in folder `f`: absent, empty (opened and
truncated), the request, the decision of an operator or of the builder, or mixed
(two writers truncated it before either wrote, and the longer text shows under
the shorter).  A decision is written in place, not through a temporary file, so
that `Open` and `WriteDecision` are different steps; so is a receipt of the builder
(`OpenReceipt`, `WriteReceipt`), of which there is one folder for each kind of
decision, self-approved or delegated.

| Code | Actions |
|---|---|
| `decide` (called by the route) | `Call`, `ReadPending` or `NotPending`, `Open`, `WriteDecision`, `Unlink` |
| `builder_self_decide` | `Evaluate`, `OpenReceipt`, `WriteReceipt`, then as `decide` |
| the `try` around the unlink; a write that raises, a process that dies | `UnlinkFails`, `Interrupted` |
| `run_supervised_exec`, `run_git_push` | `Ask`; `Resume`, `Look`, `Read`, then `Execute` and `Finish`, `Refresh` or `TurnAway` |
| a delegation's end | `Expire` |

`BuilderMay` keeps of the policy what depends on state: which delegation is
active.  `payload` stands for the action and its whole payload, which
`_approval_matches_request` compares.

### ApprovalGate

The request as whoever looks it up may think of it: one record, `verdict[a]`,
pending until it is decided and decided for good.  A look-up reads what stands, or
nothing of use ("corrupt") from a file that is moved just then.  A request that two
calls decide at once, or one that is interrupted, is disputed, and of a disputed
one a look-up may read anything.  The module has two sides.  `Approvals` implements
it: `Verdict` puts the four folders together, and a decision takes effect at the
unlink of the pending file.  `Reactor` uses it: it reads requests by the same walk
through the folders (`_approval_record_status`), which its model has as one step
(`Readings`), and `Relies` says when a call depends on what it read.  A decision is one
step there, to any verdict, "disputed" included.

### ComputeGrants

| Code | Actions |
|---|---|
| `ComputeSubstrateService.submit` | `Submit`, `Record` |
| `ComputeGovernor.execute` | `Govern`, `Interrupt`, `StartFreely`, `Start`, `Run` |
| `LocalJsonComputeApprovalStore.consume` | `ConsumeRead`, `ConsumeWrite`, `ConsumeFails` |
| `_persist_receipt` | `KeepReceipt` (no store), `WriteReceipt`, `ReceiptFails` |
| an operator's `get` and `add`, time | `Issue`, `RevokeRead`, `RevokeWrite`, `Expire` |

The write of a used grant and the start of the backend are two steps of two
functions, between which a process may die.  `Unstored` are the submissions to a
service that has no receipt store: their receipt is in the answer only, and their
success stands (`docs/adr/0001-francis-compute-substrate.md:142`).  `Asked` bounds which
tasks are submitted under which grants.  The approval store in memory, which the
code has too, is this one with its races left out.

### GrantUse

A grant as the one who issues it may think of it: open until it expires, is
revoked or, for a single use, used, and then closed for good.  What a submission
has read and checked and not yet written is its claim; when the grant is written as
used, or need not be, the start is due.  A claim is made on an open grant only, a
backend that needs an approval starts when it is due, and what closes a grant does
not undo a claim on it.  A call that dies between use and start leaves the grant
used.  `ComputeGrants` implements it, its races included, under `State`.

### Reactor

One event stands for all, as two have no file in common.  `event` is what the
record says of its dispatches; `seen[c]` is the copy of a call, which it will
write back whole; `retry[n]` is the schedule that attempt `n` left.

| Code | Actions |
|---|---|
| `record_retry_due`, `mark_retry_due` | `ReadDue`, `MarkDue`, `LoadDue` or `DueAlready`, `SaveDue` |
| `record_retry_dispatch_attempt`, `mark_retry_dispatch_attempted` | `BeginRetry`, `ReadRetry` or `RetryNotDue`, `MarkRetry`, then a dispatch |
| `record_dispatch_attempt` | `BeginDispatch`, `Load`, `Look`, `Dispatch`, `Ask`, `Schedule`, `Create`, `Bury`, `Save` |
| a call that ends anywhere | `CutShort` |
| operators and time | `Decide`, `Ripens` |

What an action does is its outcome: verified, failed, blocked by gates of its own,
or deferred as no engine handles it.  The decision of an approval is one step here
(its steps are those of `Approvals`; `ApprovalGate`, above, is what both agree on).

### Deadletters

Begins where `Bury` and `Save` of `Reactor` leave off.  A step is a row of two
tables: `From` has the statuses it may be taken in, `To` the one it leads to.
Every step reads the event's record, then the deadletter (`Admit`, `Refuse`,
`Find`), writes the files of its delivery if it has any (`Look`, `WriteOutput`,
`Store`), then the deadletter (`WriteItem`), then the record (`WriteRecord`).  A
recovery request enqueues its event first (`BeginRequest`, `Enqueue`); a settlement
comes at the end of the recovery event's own dispatch (`Recover`) and reads the
record only after it wrote the deadletter (`Reread`).

## 3. What is checked

Every passing run finishes its whole state space.  Bounds are constants of the
modules, named in the configurations; counters are kept up to `Many` (two or
more), which is all the properties tell apart.

| Run | Instance | Distinct states | Properties |
|---|---|---|---|
| `tasks_retry` | one task, pools of two slots and of one, one run request, attempts stopped by governance in either way, two crashes | 92,676 | `NoRunAfterSuccess`, `ImplementsLifecycle` |
| `tasks_faults` | one task, a slot, a run request, an editor, two faults: saves that raise, a crash and its stale lock | 2,117,809 | `OneExecutor`, `FirstReclaimIsSafe`, `UnreclaimedIsExclusive`, `SettledIsFinal` |
| `tasks_fair` | one task, a slot, a run request, an editor, two faults, abandoned locks that age, under fairness | 136,783 | `PendingIsPicked`, `RunningEnds` |
| `tasks_rerun` | two run requests and a slot | | `NoRunAfterSuccess` is violated |
| `missions_store` | one mission, two tasks, one key; two clerks, of whom one also advances and one is also a pool; one edit, failed save or crash | 2,922,035 | `FirstOperationOnce`, `KeyUsedOnce`, `SettledMissionIsFinal` |
| `missions_queue` | two missions, the second of which waits for the first, two tasks, an advancing thread, one that serves requests and a pool, an editor of tasks; one edit of either kind, failed save or crash; operations are created by advances only | 969,390 | `DependenciesFirst`, `CompletionIsEarned` |
| `pilot_safety` | two leases of one pilot run, a revocation, two publications, an effect, a recorder; clean-ups may fail | 1,170,549 | `OneActiveLease`, `ReceiptHasCommit`, `LockFileIsHeld`, `OnlyInversionDeadlocks`, `ImplementsAuthority`, `RevocationIsHonoured` |
| `pilot_fair` | one lease, issued early or not, a revocation, two publications, an effect, no recorder, one restart, under fairness | 13,196 | `GrantedOnce`, `CommittedIsPublished`, `CallsReturn` |
| `approvals` | two requests, of a lens action or of a push, an operator and two threads of the builder with two calls between the three, a consumer, two faults | 374,113 | `NeverMissing`, `ExecutionIsApproved`, `DecisionIsFinal`, `BuilderIsReceipted`, `ImplementsGate` |
| `compute` | two submissions of two tasks, one of them to a service without a receipt store, a single-use grant and a reusable one, one fault | 2,038,338 | `NotUsableAgain`, `SingleUseRunsOnce`, `OnlyStartsConsume`, `SuccessIsReceipted`, `ImplementsGrantUse` |
| `reactor` | two calls, an event of every class and engine, no retry or one, up to three attempts, decisions that may be disputed, one call cut short | 1,393,478 | `FailureIsRouted`, `NothingTwice`, `UsesGate` |
| `deadletters` | two calls of any step, one of which may begin beside the other, two recovery events, one call cut short | 1,626,394 | `SettledByItsRun`, `DeliveryIsAhead`, `TrailAgrees`, `OrphansAreCutShort` |

Type invariants are not among them: `TypeOK` is a theorem in every module
(section 4), which says more than a run on a small instance.

Every property of a passing run has a mutant of the code (in the module that
models it, marked "Mutant") under which the same run finds it violated.

### The lock file

`UnreclaimedIsExclusive`: until a stale lock of a task is reclaimed, the lock
file fences the task, and it is the holder's.  `FirstReclaimIsSafe`: if only dead
processes leave stale locks, one reclaim is safe too.  Without either condition
the claim of `workers/runner.py:265` ("lock-safe workers") does not hold (section
5).  Both are checked where pools and requests use the lock (`tasks_faults`), for
one that dies with it, and proved for any callers and any aging.

### Task records

Which properties hold depends on who else is there, and the runs are cut along
that line:

* With one run request at a time, without editors and failed saves, and while no
  lock has grown stale, no stale copy is ever written back: `NoRunAfterSuccess`,
  and the records implement `TaskLifecycle`.  Processes may die anywhere, between a
  success and its save too: the lock they leave keeps the others out, until
  stale_seconds have gone by.
* With everything at once, what is left is that nobody executes without the lock
  file (`OneExecutor`), and that a terminal record of which nobody holds an older
  copy is final (`SettledIsFinal`).  Whoever does hold one may write it back: a
  cancel is lost when the execution reloads the record, and a patch or cancel can
  take an ended task back.  That is the code, and no property says otherwise.
* With two run requests, a held copy is written over a success and the capability
  runs again (`tasks_rerun`).

`PendingIsPicked` and `RunningEnds` are liveness.  Fairness is weak fairness of
every slot and every run request that has begun (a pool loops until it is told to
stop, a capability returns) and of the aging of abandoned locks (time passes).
Nothing is assumed of those who create tasks, edit them or die.  Nothing takes up a
record that says `running` but a run request (`_is_runnable`,
`agent/executor.py:1292`), and a crash, a failing save or an edit may leave one.  So
`RunningEnds` has a premise of its own: if the run of the task is requested again
and again (strong fairness of `RunOperation` for some request), it ends, whatever of
these has left it running; a crash is waited out until the lock is stale.

### Missions

Mission records have no lock, so most of what one would like to say is false: a
late save takes a status back, or a link.  What the runs show to hold all the
same:

* `FirstOperationOnce`: an advance creates the first operation once.  The tick
  before it and the tick after it both load the record, and only a record that
  links a task is ever written back by a tick.  With two threads that advance, or
  after a crash between creation and link, there may be two.
* `KeyUsedOnce`: an idempotency key names one operation, across failures and
  restarts, because the record is searched for and not the link; unless one
  request looks for it between the look and the creation of another, when both find
  nothing and both create (`contested`).  The run has two clerks and meets both
  cases.
* `CompletionIsEarned`: a mission is found completed only when every task linked
  in the copy is complete.  For a worker's report this rests on the order in
  `execute_task`: the report precedes the release of the lock.  It does not hold of
  a task over which a cancel or patch stored what it had loaded earlier
  (`overwritten`): loaded at `running` and stored after the executor's save, a cancel
  leaves a cancelled task under a mission that the report then completes.
* `SettledMissionIsFinal`: a terminal mission of which nobody holds an older copy
  stays as it is.
* `DependenciesFirst`: an operation is created by an advance only for a mission
  whose dependencies have been completed.

The threads of the instances serve every role but for two advances at a time, which
the properties exclude.  One trouble (an edit of a mission or of a task, a failed
save, or the death of the second thread's process) may come anywhere between two
steps.  Requests repeat for ever; nothing but the trouble is counted.

What concerns the record of one mission is checked with one, which has no
dependency, and with creations by request (`missions_store`).  The second mission is
there for its dependency and for replacements, the editor of tasks for
`CompletionIsEarned` (`missions_queue`); there an idempotency key would add nothing,
since the search for it does not look at missions.

### Leases of a pilot run

* `RevocationIsHonoured`: once the revocation of a lease in force is announced,
  nothing commits under the lease and no effect begins, though the revocation may
  still wait for the lock.
* `GrantedOnce`: a binding authorizes one action.
* `OneActiveLease`: one lease of a pilot run is active at a time, provided that no
  lease is issued ahead of its time (`IssuedEarly`): `issue` counts only active
  leases, and two that have not begun become active together.
* `CommittedIsPublished`, `ReceiptHasCommit`: the clean-up of a denied publication
  removes its own receipt, never a committed one, or answers that it could not.  A
  crash between the receipt and the decision leaves a receipt that never committed; the second property is
  therefore about the time until a restart.
* `LockFileIsHeld`: until a restart `.write.lock` has an owner.  A crash while
  recording leaves it for good, and every later recording is refused.
* `ImplementsAuthority`: to those who work under a lease, the calls of the registry
  are atomic.  The interesting steps are those that decide late: a commit looks at
  the announcements and at the lease a second time and takes effect just then, and
  an effect takes effect when it begins and holds both mutexes until it is over.
* `OnlyInversionDeadlocks`: `_RECORD_LOCK` is taken inside the registry's lock by a
  publication and around it by a recorder that verifies its source, so the code can
  deadlock.  This is the only way: among any threads that wait for each other in a
  circle are such a recorder, holding `_RECORD_LOCK`, and such a publication, holding
  the registry.
* `CallsReturn`: without recorders outside of transactions every call returns.

Fairness is strong fairness of every thread that has begun a call.  A Python
mutex is not fair: a waiter may find it taken whenever it looks.  It is free
again and again, though, as every holder gives it back, and a scheduler that lets
threads run lets a waiter find it free some time.  No request need be made.

`pilot_safety` does not check deadlock: a recorder and a publication may wait for
each other for ever (section 5).

Two leases are what a conflict takes, two publications what the clean-up of one
can do to the other, two or three bindings give a publication and an effect a
place and a neighbour each.

### Approvals

* `NeverMissing`: a look-up finds a request that was made, whatever is decided
  meanwhile.  This is the order of `decide` (write, then unlink) against the order
  of `_find_approval` (pending first); the other order of either loses it, and the
  consumer would ask for a second approval.
* `ExecutionIsApproved`: what runs was approved in writing, for just this request.
* `DecisionIsFinal`: one decision per request, unless two calls decided it at once
  or one was interrupted.  Two deciders at once may leave an approved file and a
  rejected one; as a look-up goes to the approved folder first, a request that one
  of them rejected, and was told so, is executed.
* `BuilderIsReceipted`: a decision in the builder's name has a receipt on disk,
  complete and of this decision.  A second call for the same request, while the
  first is at work or after it failed to unlink the request, opens the receipt again
  and may leave it cut short, mixed, or of the other decision (`repeated`); a receipt
  is there all the same.
* `ImplementsGate`: a look-up, which goes through up to four files one by one, reads
  what stands at the instant it finds a file, or nothing of use.  So a caller may
  reason as if a request were one record.  Only what is disputed is different.

An approval is not used up: the same command may be run under it again.  Two of the
three deciders of the instance act, in any pair: an operator and the builder, or two
calls of the builder; with two requests a consumer can hold the id of one while it
wants the other.

### Grants of the compute substrate

* `SingleUseRunsOnce`: a grant for a single use starts one backend, unless two
  submissions consume it at once (`raced`); `docs/adr/0001-francis-compute-substrate.md`
  promises "sequential single-use consumption" and no more.
* `NotUsableAgain` holds through that race, and through the one between a
  consumption and a revocation: either may write the other's change away, but
  what is left is spent or revoked.  For a reusable grant no consumption writes,
  and a revocation stays.
* `OnlyStartsConsume`: a grant is used up by a call that goes on to start its
  backend, or whose process ends after the grant was written and before the start:
  that grant is spent and nothing ran.  A submission that is denied or interrupted
  leaves the grant.
* `ImplementsGrantUse`: a backend starts under the grant and for the task of a claim
  that was made on an open grant of that scope, and a grant that was closed stays
  so.  Two claims on one grant are possible, as are a claim and a revocation.
* `SuccessIsReceipted`: through a service with a receipt store, the receipt is on
  disk before a success is told of or recorded.  Without a store a recorded success
  says only that the task was run.

The run does not check deadlock, since every submission ends.

### Events of the reactor

* `FailureIsRouted`: of an event that allows retries, a failed or deferred attempt
  has its retry schedule while there are retries left, and a deadletter after them;
  the files come before the record, so no overlap and no cut loses one.  An event
  with `max_retries` 0, which is the default (`reactor/events.py:132`), has neither,
  however often it fails (lines 551 and 595): its failures are in its record alone.
  The property says so too, but for a budget that blocks it, which always leaves a
  deadletter.
* `NothingTwice`: an execution number is used once, and one approval is asked
  for, unless two calls held a copy of the record at once or one was cut short
  (`crossed`).
* `UsesGate`: an attempt for an event that awaits approval runs on an answer that
  this attempt got, about a request that stood approved when it looked; never on
  one of an earlier attempt or of the copy it holds.  `RunIsApproved`, which is
  proved, says in addition that nothing runs for an event that is blocked, and that
  one which awaits approval runs only after a request was approved or disputed.

What does not hold: the limit of retries is no limit of attempts, as a plain
dispatch may be repeated, and an event that was verified may be dispatched again.
When a dispatch overlaps a retry, an attempt may end with a schedule that was
tried before it, and which can never be tried again (`FailureIsRouted` says it is
there, and only without overlap that it is still to be tried).  The approval that
is attached to an event is not compared with the event's action.

Three attempts are two more than the limit of retries.  Requests stop at the bound,
which is why the run does not check deadlock.

### Deadletters

* `SettledByItsRun`: a deadletter counts as recovered only by the recovery event
  it names, after that was dispatched and verified.  It holds through overlaps and
  cuts, for the deadletter and for what the record says of it.
* `DeliveryIsAhead`: the delivery is at least as far as the deadletter says.
* `TrailAgrees`: the record shows the deadletter as it is, but for the call that
  has just written it or was cut short there.
* `OrphansAreCutShort`: a recovery event that no deadletter named is that of a
  request under way or cut short.

The last three are about calls that do not overlap.  Overlapping calls of the
processor may write a delivery back, and overlapping requests may enqueue two
recovery events of which the deadletter names one; the other can be dispatched
all the same, and settles nothing.  One overlap is allowed in the run, since
`SettledByItsRun` and the outputs of deliveries are to hold through them.

A review is accepted in every status and starts the round again, while the
delivery of the first round stays: the hand-over to its processor may then be
refused for good.  A cut between delivery and deadletter leaves both where no
further step is accepted, until the next review.  A record that was not written
is put right only by the next call that changes the deadletter.

## 4. What is proved

TLAPS checks the following for every value of the constants that satisfies the
assumptions in the modules: any sets of tasks, callers, pools, leases and threads,
any number of crashes.

| Theorem | Module | Argument |
|---|---|---|
| `LeaseTypeCorrect`, `UnreclaimedExclusive` | `TaskLeaseProofs` | inductive as they stand, given the types |
| `FirstReclaimSafe` | `TaskLeaseProofs` | for `Aging # "any"`: with one reclaim, all callers that judged the lock stale judged the same dead one, and only one of them gets past the exclusive create |
| `TypeCorrect` | `TaskRunnerProofs` | with `WorkInv`: where an actor is says which task it works on and whether it holds its lock |
| `OneExecutorAtATime` | `TaskRunnerProofs` | `WorkInv` turns executors into holders; every step of `TaskRunner` is a step of `TaskLease` or leaves its variables alone (a lemma), which brings `UnreclaimedExclusive` |
| `SettledRecordIsFinal` | `TaskRunnerProofs` | from the types: whoever could change the record would have to be engaged with it |
| `SuccessIsNotRepeated`, `ImplementsTaskLifecycle` | `TaskRunnerProofs` | assume `Calm`: one run request at a time, no editors, failed saves or aging locks; any crashes; `CalmInv`, below |
| `PilotTypeCorrect`, `BindingsGrantedOnce`, `CommittedStaysPublished` | `PilotLeaseProofs` | conjuncts of `PilotInv` or consequences of them |
| `AnnouncedRevocationIsHonoured` | `PilotLeaseProofs` | `RevokeInv`: a lease that is being revoked is revoked, or its revocation is pending and will find it as it read it; a commit has asked for both |
| `DeadlockIsTheInversion` | `PilotLeaseProofs` | `HolderInv` says who holds which lock where: intent comes before registry before recording, but for a recording that verifies; following the holders from any waiting thread, a circle closes only through it, and back only through a publication that records |
| `LockFileHasOwner` | `PilotLeaseProofs` | inductive, given the places and owners of `PilotInv` |
| `ReceiptsAreAccountedFor` | `PilotLeaseProofs` | `ReceiptInv`: a receipt without commit belongs to a publication that wrote it and has yet to commit or to clean up, or its clean-up failed |
| `RegistryIsTheAuthority` | `PilotLeaseProofs` | the refinement, step by step; below |
| `FilesAreOneRecord` | `ApprovalsProofs` | the refinement, step by step; below |
| `GrantsImplementUse` | `ComputeGrantsProofs` | the refinement, step by step; below |
| `DispatchesUseGate` | `ReactorProofs` | the refinement, step by step; below |
| `OneLeaseIsActive` | `PilotLeaseProofs` | assumes `~IssuedEarly`; `NowInv`: a lease that is in force began when it was issued, so `issue` saw every other one |

`OneExecutor` alone is not inductive: it says nothing of a slot that claimed and
has not started, nor of the lock on disk.  `WorkInv` supplies both.

In calm conditions `CalmInv` adds to it what `RecordInv` and `DoneInv` say: between
the load and the save of an execution, and while the run request is to hold a
failed record back, the copy is that of the record (`Current`), since whoever else
could save would have to execute too and `OneExecutor` forbids it; and a task of
which a run succeeded is complete, or the one executor it has is about to save
that, or it died first and left a lock that is nobody's (`Orphaned`): no step
removes such a lock before it is stale (`OrphanStays`).  `SavedWhat` lists from there what a save can make of a record, and each of
its cases is a step of `TaskLifecycle` or none.  The run
`tasks_rerun` shows what two run requests do; an edit, a failed save or a reclaimed
lock would likewise leave an old copy to be saved, or a record that says
"running" of a task that is done.

The inductive invariant of `PilotLease` is

    PilotInv == TypeOK /\ PlaceInv /\ HolderInv /\ GrantInv /\ RevokeInv /\ PublishInv /\ AloneInv

`PlaceInv` and `HolderInv` say that the places of threads and the owners of the
mutexes agree; `GrantInv` that a binding was granted once if it is consumed and
never otherwise; `PublishInv` that what a publication remembers about the receipt
is still so; `AloneInv`, on which that rests, that a lease has one publisher at a
time, because the binding of the publication was consumed for it.

The other modules have an invariant of the same kind each:

| Module | Inductive invariant | Theorems |
|---|---|---|
| `ApprovalsProofs` | `FilesInv` (a request has a file), `DecidersInv`, `LookInv` (a request has a file in a folder that the look-up has still to reach), `DecidedInv` (an uncontested request is in one call's hands, and pending until that call unlinks it), `ReceiptInv` (whoever decides in the builder's name has written a receipt, and nobody else writes one for that request unless it was taken up again) | `TypeCorrect`, `RequestsAreFound`, `NoApprovalNoExecution`, `OneDecision`, `BuilderLeavesReceipt` |
| `ComputeGrantsProofs` | `CallInv`, `RaceInv` (a grant that is being consumed was not used, and one start at most is due or was made, unless it is raced for), `SeenInv` (what a revocation read was written by a call that consumed it), `ReceiptInv` | `TypeCorrect`, `SpentForGood`, `SingleUse`, `StartsConsume`, `SuccessHasReceipt` |
| `ReactorProofs` | `CallInv`, `RouteInv` (what a failure must leave is there, for the record and for every copy of it), `UnroutedInv` (without retries there is no schedule, and no deadletter but that of a budget), `LeaveInv`, `CopyInv` (unless calls crossed, there is one copy and it is current), `LedgerInv` (schedules, executions and approvals are those that the record or this copy counts) | `TypeCorrect`, `FailuresAreRouted`, `NothingRunsTwice`, `RunsAreApproved` |
| `DeadlettersProofs` | `CallInv` (what a call holds fits where it is), `FilesInv`, `SoloInv` (without overlap the one call has a current copy and its step is still allowed), `OrphanInv` | `TypeCorrect`, `SettlementIsEarned`, `DeliveryKeepsAhead`, `TrailFollows`, `OrphansAreAccountedFor` |

In each the properties are not inductive: they speak of files, and what a step
writes to a file depends on what its call read earlier.  The conjuncts about calls
say how old that may be.  The proofs are for any number of callers, requests,
grants, attempts, overlaps and faults: the bounds of the runs are constants that
the assumptions only require to be natural numbers.

### What the abstract specifications rest on

Each refinement is proved as `Init => Abstract!Init` and
`Inv /\ [Next]_vars => [Abstract!Next]_vars`, with one step per action, and each
needs an invariant that no safety property had asked for:

| Theorem | Needs in addition | because |
|---|---|---|
| `RegistryIsTheAuthority` | `SeenInv`: a transaction began under a lease in force whose last binding was that of the publication; `EffectIsAlone`: an effect holds both mutexes | the second look of `execute_authority_transaction` compares the lease with what `Open` saw, so that the commit inherits what was so then; every other call takes one of the mutexes, so that none falls into an effect |
| `FilesAreOneRecord` | `SoloInv`: the one call that decides a request finds its files as it left them; `VerdictIsOne`: an undisputed request is pending or has one decision; `AnswerInv`: who looks beyond the pending folder will not see the request become pending again, and finds the file it saw | the decision exists on disk before the unlink, and a look-up must not see it then; afterwards it must not see another one |
| `GrantsImplementUse` | `ClaimInv`: a consumption under way, or a start that is due, is of a grant that was issued and for a task that needs an approval, and a grant that was used was issued | the file of a grant does not say what is being consumed; with the invariant of the module, under which a closed grant stays closed, this maps each read and each write of the file to a step |
| `DispatchesUseGate` | `NamedInv`: a request that the record or a copy of it names was asked for, and a call that was let through names one | a look-up is of a request that exists |

`ApprovalGate` is thus proved from both sides, which is what lets `Reactor` have a
decision and a look-up in one step each: whatever `Approvals` does in between shows
to its readers as one of these steps.  The two theorems are about two modules with
variables of their own; that the files behind them are the same is read off the
code and not proved.

### MissionsProofs

A call of `Missions` is a list of steps, so the proof begins with lists.
`MissionInv` is the type invariant, what the files say, and `Fits`: the steps of a
call come in an order (`Listed`), and the call knows the mission and the task that
they need.  Each action then has a lemma of its own (`SaveTakes`, `DeriveTakes`, ...)
that says which steps it puts in front and what the call holds afterwards; the
proofs of the properties look at nothing else.

| Theorem | Assumes | Rests on |
|---|---|---|
| `MissionTypeCorrect` | | `MissionInv` |
| `SettledStaysSettled` | | a copy comes from the record or from an older copy, and no step takes it from one terminal status to another (`CopyComes`, `StatusComes`) |
| `DependenciesComeFirst` | threads that advance serve no other requests | `DependInv`: an advance about to create has seen the dependencies completed |
| `OneOperationPerKey` | | `KeyInv`: a creation that found nothing is the only one that could add the key, unless another looked before it created (`contested`) |
| `FirstOperationIsMadeOnce` | one advancer, who serves no other requests | `LinksInv`: while nothing has failed, a copy without links is in an advancer's hands, and only before it creates; `CalmInv` says who may hold one |
| `CompletionIsTrue` | one advancer | `LockInv`: who runs or releases a task holds its lock; `HeldInv`: a task that governance held is failed or accepted; `ExecInv`: a task being executed says running or what an edit took it to; `HoldInv`: what governance held stays so until the run that held it accepts it again; `EarnInv`: who is to tell of a complete task holds its lock, and the record still says so unless it was overwritten; `CopyInv` |

The assumptions are those under which the properties are stated in `Missions`, and
the runs make them through their instance.  Without them the properties fail: two
advancers may create two first operations, and of two advancers one may accept a
held task again while the other has just completed it.

Checked by TLC only: the liveness properties (`PendingIsPicked`, `RunningEnds`,
`CallsReturn`), which are out of the prover's reach.  Every other property of a
passing run is stated by a theorem.  The abstract specifications are safety
specifications without fairness, so the refinements say what may happen and not
that anything does.

## 5. Where code and documents disagree

Shown by a run:

1. `tasks_rerun`: `run_operation` writes the record it was given after the lock is
   released (`operations/runtime.py:1013`); a success is undone and repeated,
   against `docs/CONCURRENCY.md:1174`.

Met while modelling, with no run of their own:

* Two callers that judge one abandoned lock stale both reclaim it: the second
  unlinks the fresh lock of the first (`agent/executor.py:285`).  The theorems of
  `TaskLeaseProofs` stop short of it.
* `execute_task` returns early on `canceled`; the status is `cancelled`
  (`agent/executor.py:1133`), so that a task cancelled after its claim is run,
  against `docs/CONCURRENCY.md:618`.
* `_RECORD_LOCK` and the registry's lock are taken in both orders, by recorders and
  by publications (`managed_copy_runtime_evidence.py:260`), against
  `docs/CONCURRENCY.md:948`.
* Of two decisions made at once, approved wins over rejected for whoever looks the
  request up (`governance/approvals.py:738`, `agent/git_push.py:90`).
* The failed reading of a request that is being written shows as `corrupt`, and
  the caller gets a new request instead of waiting (`agent/git_push.py:450`).
* A process that dies while a task runs leaves `running`, which no list of
  candidates names again (`agent/executor.py:1292`).
* A cancelled operation whose last result was held is accepted again by a run
  (`operations/runtime.py:998`).
* Leases issued ahead of their time do not conflict (`governance/pilot_scope_lease.py:163`);
  one that has not begun can be neither revoked nor sealed (line 389); revocations
  do not survive a restart.
* `.write.lock` survives a crash (`managed_copy_runtime_evidence.py:655`).
* `deadletter_mission` admits a failed mission (`missions/store.py:1796`) and
  `update_mission` then refuses any change of a terminal status (line 1228), so
  the advice of line 603, "Retry the work or deadletter the mission.", cannot be
  followed.
* An idempotent retry answers that the operation is linked to its mission without
  looking (`operations/runtime.py:941`); the link may have failed.
* An execution that expires or is refused is not reported to its mission; a tick
  finds it later.  A restarted held task is reported with its old result, so that
  its mission shows as blocked while it runs.
* A mission with complete and cancelled tasks, and no others, never ends.
* Pools run the tasks of a mission without regard to its dependencies.

## 6. Not modelled, and next

Not modelled by choice: what capabilities, plugins and language models do, prose
and formatting, user interfaces, the native client, and components whose records
have one writer.  `PROJECT.json` gives the reason for each.

Next, in this order:

1. `PresenceIntents` (`unreal_presence_intents.py:192`): an intent is accepted once.
2. `Reactor` with the steps of `Approvals` instead of a decision in one step, and
   with the operations its actions run.
3. Delegations of approval authority: granted and revoked while the builder decides.
4. A survey of the developer bridge collaboration, takeover, and the plan status
   machine.
