------------------------------ MODULE TaskRunner ------------------------------
(***************************************************************************)
(* Task records and everybody who reads and writes them: the worker pools  *)
(* (workers/runner.py), execute_task (agent/executor.py), run_operation    *)
(* (operations/runtime.py), and the writers that take no lock: cancel      *)
(* (agent/delegation.py) and PATCH (api/routes/operations.py).             *)
(*                                                                         *)
(* A record is a JSON file replaced as a whole.  Every writer loads it,    *)
(* changes its copy and saves the copy; what another actor saved meanwhile *)
(* is lost.  The load and the save are therefore different actions here.   *)
(*                                                                         *)
(* The callers of the lock file (Proc of TaskLease) are the slots of the   *)
(* pools and the request threads that run one operation; the editors never *)
(* take it.                                                                *)
(***************************************************************************)
EXTENDS TaskLease

CONSTANTS
    Pool,        \* the worker pools, each the set of its slots
    Editor,      \* threads that cancel or patch a record
    Edits,       \* what they do: a subset of {"cancel", "patch"}
    Held,        \* the results of a capability that governance stopped: "waits" for an
                 \* approval (pending, needs_approval), "blocked" (or denied)
    SaveFaults,  \* may a save raise?
    MaxFaults    \* bound: processes that die and saves that raise in a behaviour

ASSUME RunnerAssumption ==
    /\ Pool \subseteq SUBSET Proc
    /\ \A a, b \in Pool : a \cap b # {} => a = b
    /\ Editor \cap Proc = {}
    /\ Edits \subseteq {"cancel", "patch"}
    /\ Held \subseteq {"waits", "blocked"}
    /\ SaveFaults \in BOOLEAN
    /\ MaxFaults \in Nat

VARIABLES
    rec,       \* rec[t]: data/tasks/<t>/record.json
    expired,   \* expired[t]: execute_task would refuse t (_is_expired)
    pc,        \* pc[a]: where the actor is
    job,       \* job[a]: the task it works on
    copy,      \* copy[a]: its copy of the record
    cand,      \* cand[p]: the tasks p has still to try the lock of
    phase,     \* phase[g]: whether pool g claims tasks or executes its claims
    done,      \* done[t]: some run of t succeeded
    faults     \* processes that died and saves that raised

taskVars == <<rec, expired>>
vars     == <<leaseVars, rec, expired, pc, job, copy, cand, phase, done, faults>>

-----------------------------------------------------------------------------
Actor  == Proc \cup Editor
Slot   == UNION Pool
Runner == Proc \ Slot        \* callers of run_operation

Outcome == {"ok", "error"} \cup Held

Record == [status   : {"absent", "pending", "accepted", "running",
                       "complete", "failed", "cancelled"},
           result   : {"none"} \cup Outcome,
           attempts : 0..Many]

NoRecord == [status |-> "absent", result |-> "none", attempts |-> 0]
More(n)  == IF n < Many THEN n + 1 ELSE n

\* _RETRYABLE_GOVERNANCE_STATUSES
Retryable(r) == r.result \in Held
Terminal     == {"complete", "failed", "cancelled"}

\* execute_task tests for "canceled", which nobody writes: cancel_delegation
\* writes "cancelled".
ExecutorTerminal == {"complete", "failed"}

Runnable(t)  == rec[t].status = "pending" /\ ~expired[t]

Executing(p) == pc[p] \in {"claimed", "refuse", "start", "run", "reload", "save", "release"}

Engaged(a, t) ==
    \/ pc[a] # "idle" /\ job[a] = t
    \/ a \in Proc /\ t \in cand[a]

Goto(a, label) == pc' = [pc EXCEPT ![a] = label]

TypeOK ==
    /\ LeaseTypeOK
    /\ rec \in [Task -> Record]
    /\ expired \in [Task -> BOOLEAN]
    /\ pc \in [Actor -> {"idle", "preHold", "try", "claimed", "refuse", "start",
                         "run", "reload", "save", "release", "hold", "edit"}]
    /\ job \in [Actor -> Task \cup {NoTask}]
    /\ copy \in [Actor -> Record]
    /\ cand \in [Proc -> SUBSET Task]
    /\ phase \in [Pool -> {"claim", "execute"}]
    /\ done \in [Task -> BOOLEAN]
    /\ faults \in 0..MaxFaults

Init ==
    /\ LeaseInit
    /\ rec = [t \in Task |-> NoRecord]
    /\ expired = [t \in Task |-> FALSE]
    /\ pc = [a \in Actor |-> "idle"]
    /\ job = [a \in Actor |-> NoTask]
    /\ copy = [a \in Actor |-> NoRecord]
    /\ cand = [p \in Proc |-> {}]
    /\ phase = [g \in Pool |-> "claim"]
    /\ done = [t \in Task |-> FALSE]
    /\ faults = 0

-----------------------------------------------------------------------------
\* create_delegation
Create(t) ==
    /\ rec[t].status = "absent"
    /\ rec' = [rec EXCEPT ![t].status = "pending"]
    /\ UNCHANGED <<leaseVars, expired, pc, job, copy, cand, phase, done, faults>>

\* ttl_sec go by since created_at.
Expire(t) ==
    /\ rec[t].status # "absent"
    /\ ~expired[t]
    /\ expired' = [expired EXCEPT ![t] = TRUE]
    /\ UNCHANGED <<leaseVars, rec, pc, job, copy, cand, phase, done, faults>>

-----------------------------------------------------------------------------
(* Taking the lock of a task: a slot tries its candidates, a runner its one. *)

\* _candidate_task_ids.  The slots of a pool claim one after the other.
ListCandidates(g, s) ==
    /\ phase[g] = "claim"
    /\ pc[s] = "idle"
    /\ \A q \in g : pc[q] \in {"idle", "claimed"}
    /\ cand' = [cand EXCEPT ![s] = {t \in Task : Runnable(t)}]
    /\ Goto(s, "try")
    /\ UNCHANGED <<leaseVars, taskVars, job, copy, phase, done, faults>>

\* Mutant: run_operation takes a running record for one that is being executed.
RunOperationResting(r, t) ==
    /\ pc[r] = "idle"
    /\ rec[t].status \notin {"absent", "running"}
    /\ rec[t].status \in Terminal => Retryable(rec[t])
    /\ Goto(r, IF rec[t].status \in Terminal THEN "preHold" ELSE "try")
    /\ job' = [job EXCEPT ![r] = t]
    /\ copy' = [copy EXCEPT ![r] = rec[t]]
    /\ cand' = [cand EXCEPT ![r] = {t}]
    /\ UNCHANGED <<leaseVars, taskVars, phase, done, faults>>

\* Mutant: run_operation does not look whether the record is terminal.
RunOperationAny(r, t) ==
    /\ pc[r] = "idle"
    /\ rec[t].status # "absent"
    /\ Goto(r, "try")
    /\ job' = [job EXCEPT ![r] = t]
    /\ copy' = [copy EXCEPT ![r] = rec[t]]
    /\ cand' = [cand EXCEPT ![r] = {t}]
    /\ UNCHANGED <<leaseVars, taskVars, phase, done, faults>>

\* run_operation reads the record.  A terminal one is left alone ("already
\* terminal") unless its result is held: then it is first written back as accepted.
RunOperation(r, t) ==
    /\ pc[r] = "idle"
    /\ rec[t].status # "absent"
    /\ rec[t].status \in Terminal => Retryable(rec[t])
    /\ Goto(r, IF rec[t].status \in Terminal THEN "preHold" ELSE "try")
    /\ job' = [job EXCEPT ![r] = t]
    /\ copy' = [copy EXCEPT ![r] = rec[t]]
    /\ cand' = [cand EXCEPT ![r] = {t}]
    /\ UNCHANGED <<leaseVars, taskVars, phase, done, faults>>

\* _hold_retryable_governance_task before the lock: the copy is written back.
PreHold(r) ==
    /\ pc[r] = "preHold"
    /\ rec' = [rec EXCEPT ![job[r]] = [copy[r] EXCEPT !.status = "accepted"]]
    /\ Goto(r, "try")
    /\ UNCHANGED <<leaseVars, expired, job, copy, cand, phase, done, faults>>

\* Mutant: a stale lock is never reclaimed.
TryAbsentOnly(p, t) ==
    /\ pc[p] = "try"
    /\ t \in cand[p]
    /\ LookAbsent(p, t)
    /\ UNCHANGED <<taskVars, pc, job, copy, cand, phase, done, faults>>

\* _try_acquire_lock of a candidate begins: the lock is absent or stale.
Try(p, t) ==
    /\ pc[p] = "try"
    /\ t \in cand[p]
    /\ LookAbsent(p, t) \/ LookStale(p, t)
    /\ UNCHANGED <<taskVars, pc, job, copy, cand, phase, done, faults>>

Unlink(p) ==
    /\ Reclaim(p)
    /\ UNCHANGED <<taskVars, pc, job, copy, cand, phase, done, faults>>

\* Mutant: the lock is taken inside the try block whose finally releases it.
TurnedAwayReleases(p, t) ==
    /\ pc[p] = "try"
    /\ t \in cand[p]
    /\ lease[p] = Free /\ Exists(t) /\ ~lock[t].stale
    /\ lock' = [lock EXCEPT ![t] = NoLock]
    /\ cand' = [cand EXCEPT ![p] = @ \ {t}]
    /\ UNCHANGED <<lease, reclaims, taskVars, pc, job, copy, phase, done, faults>>

\* It returns False: on to the next candidate.
TurnedAway(p, t) ==
    /\ pc[p] = "try"
    /\ t \in cand[p]
    /\ \/ LookDenied(p, t)
       \/ lease[p].task = t /\ LoseRace(p)
    /\ cand' = [cand EXCEPT ![p] = @ \ {t}]
    /\ UNCHANGED <<taskVars, pc, job, copy, phase, done, faults>>

\* It returns True.  When every slot of the pool has claimed, they execute.
Claim(p) ==
    /\ Acquire(p)
    /\ Goto(p, "claimed")
    /\ job' = [job EXCEPT ![p] = lease[p].task]
    /\ cand' = [cand EXCEPT ![p] = {}]
    /\ phase' = [g \in Pool |-> IF p \in g /\ \A q \in g \ {p} : pc[q] = "claimed"
                                THEN "execute" ELSE phase[g]]
    /\ UNCHANGED <<taskVars, copy, done, faults>>

\* No candidate is left: a runner answers "locked", a pool executes what its
\* other slots claimed.
GiveUp(p) ==
    /\ pc[p] = "try"
    /\ lease[p] = Free
    /\ cand[p] = {}
    /\ Goto(p, "idle")
    /\ job' = [job EXCEPT ![p] = NoTask]
    /\ copy' = [copy EXCEPT ![p] = NoRecord]
    /\ phase' = [g \in Pool |-> IF p \in g /\ \E q \in g : pc[q] = "claimed"
                                THEN "execute" ELSE phase[g]]
    /\ UNCHANGED <<leaseVars, taskVars, cand, done, faults>>

-----------------------------------------------------------------------------
(* execute_task, by the holder of the task's lock. *)

\* Mutant: the status is not looked at again under the lock.
ExecLoadUnchecked(p) ==
    /\ pc[p] = "claimed"
    /\ \A g \in Pool : p \in g => phase[g] = "execute"
    /\ copy' = [copy EXCEPT ![p] = [rec[job[p]] EXCEPT !.status = "running"]]
    /\ Goto(p, "start")
    /\ UNCHANGED <<leaseVars, taskVars, job, cand, phase, done, faults>>

\* The record is loaded.  A finished one is returned as it is, an expired one
\* (or one without usable inputs or capability) will be failed, any other one
\* will be marked running.
ExecLoad(p) ==
    LET r == rec[job[p]] IN
    /\ pc[p] = "claimed"
    /\ \A g \in Pool : p \in g => phase[g] = "execute"
    /\ \/ /\ r.status \in ExecutorTerminal
          /\ copy' = [copy EXCEPT ![p] = r]
          /\ Goto(p, "release")
       \/ /\ r.status \notin ExecutorTerminal
          /\ expired[job[p]]
          /\ copy' = [copy EXCEPT ![p] = [r EXCEPT !.status = "failed",
                                                   !.attempts = More(@)]]
          /\ Goto(p, "refuse")
       \/ /\ r.status \notin ExecutorTerminal
          /\ ~expired[job[p]]
          /\ copy' = [copy EXCEPT ![p] = [r EXCEPT !.status = "running"]]
          /\ Goto(p, "start")
    /\ UNCHANGED <<leaseVars, taskVars, job, cand, phase, done, faults>>

\* save_task of the running record.
ExecStart(p) ==
    /\ pc[p] = "start"
    /\ rec' = [rec EXCEPT ![job[p]] = copy[p]]
    /\ Goto(p, "run")
    /\ UNCHANGED <<leaseVars, expired, job, copy, cand, phase, done, faults>>

\* run_capability returns (or raises: an "error").
RunCapability(p, outcome) ==
    /\ pc[p] = "run"
    /\ copy' = [copy EXCEPT ![p].result = outcome]
    /\ done' = [done EXCEPT ![job[p]] = @ \/ outcome = "ok"]
    /\ Goto(p, "reload")
    /\ UNCHANGED <<leaseVars, taskVars, job, cand, phase, faults>>

\* The record is loaded again; whatever it says, the status becomes this run's.
ExecReload(p) ==
    /\ pc[p] = "reload"
    /\ copy' = [copy EXCEPT ![p] =
                  [status   |-> IF @.result = "ok" THEN "complete" ELSE "failed",
                   result   |-> @.result,
                   attempts |-> More(rec[job[p]].attempts)]]
    /\ Goto(p, "save")
    /\ UNCHANGED <<leaseVars, taskVars, job, cand, phase, done, faults>>

\* save_task of the failed record, or of the record with the result.
ExecSave(p) ==
    /\ pc[p] \in {"refuse", "save"}
    /\ rec' = [rec EXCEPT ![job[p]] = copy[p]]
    /\ Goto(p, "release")
    /\ UNCHANGED <<leaseVars, expired, job, copy, cand, phase, done, faults>>

\* A save of a's raises, in the write or in the replace: another writer, whose
\* temporary file has the same name, may have put either's content in place first.
Raises(a, saved) ==
    /\ SaveFaults
    /\ faults < MaxFaults
    /\ faults' = faults + 1
    /\ rec' = rec \/ rec' = [rec EXCEPT ![job[a]] = saved]
    /\ copy' = [copy EXCEPT ![a] = NoRecord]
    /\ UNCHANGED <<leaseVars, expired, phase, done>>

\* In execute_task: the callers release the lock and do nothing more.
ExecRaises(p) ==
    /\ pc[p] \in {"refuse", "start", "save"}
    /\ Raises(p, copy[p])
    /\ Goto(p, "release")
    /\ UNCHANGED <<job, cand>>

\* _release_lock in the finally clause.  A slot is done, and with the last one
\* the pool claims again; a runner still holds back what governance stopped.
ExecRelease(p) ==
    LET holds == p \in Runner /\ Retryable(copy[p]) IN
    /\ pc[p] = "release"
    /\ Release(p)
    /\ Goto(p, IF holds THEN "hold" ELSE "idle")
    /\ job' = [job EXCEPT ![p] = IF holds THEN @ ELSE NoTask]
    /\ copy' = [copy EXCEPT ![p] = IF holds THEN @ ELSE NoRecord]
    /\ phase' = [g \in Pool |-> IF p \in g /\ \A q \in g \ {p} : pc[q] = "idle"
                                THEN "claim" ELSE phase[g]]
    /\ UNCHANGED <<taskVars, cand, done, faults>>

\* _hold_retryable_governance_task after the run, without the lock: the record
\* that execute_task returned is written once more, as accepted.
PostHold(r) ==
    /\ pc[r] = "hold"
    /\ rec' = [rec EXCEPT ![job[r]] = [copy[r] EXCEPT !.status = "accepted"]]
    /\ Goto(r, "idle")
    /\ job' = [job EXCEPT ![r] = NoTask]
    /\ copy' = [copy EXCEPT ![r] = NoRecord]
    /\ UNCHANGED <<leaseVars, expired, cand, phase, done, faults>>

\* Either of them raises: the run request is answered with an error.
HoldRaises(r) ==
    /\ pc[r] \in {"preHold", "hold"}
    /\ Raises(r, [copy[r] EXCEPT !.status = "accepted"])
    /\ Goto(r, "idle")
    /\ job' = [job EXCEPT ![r] = NoTask]
    /\ cand' = [cand EXCEPT ![r] = {}]

-----------------------------------------------------------------------------
(* Writers that take no lock. *)

\* cancel_delegation: update_status loads the record and refuses a terminal one.
CancelLoad(e, t) ==
    /\ "cancel" \in Edits
    /\ pc[e] = "idle"
    /\ rec[t].status \notin Terminal \cup {"absent"}
    /\ copy' = [copy EXCEPT ![e] = [rec[t] EXCEPT !.status = "cancelled"]]
    /\ job' = [job EXCEPT ![e] = t]
    /\ Goto(e, "edit")
    /\ UNCHANGED <<leaseVars, taskVars, cand, phase, done, faults>>

\* patch_operation: tags, meta and a note; a status other than cancelled is ignored.
PatchLoad(e, t) ==
    /\ "patch" \in Edits
    /\ pc[e] = "idle"
    /\ rec[t].status # "absent"
    /\ copy' = [copy EXCEPT ![e] = rec[t]]
    /\ job' = [job EXCEPT ![e] = t]
    /\ Goto(e, "edit")
    /\ UNCHANGED <<leaseVars, taskVars, cand, phase, done, faults>>

EditSave(e) ==
    /\ pc[e] = "edit"
    /\ rec' = [rec EXCEPT ![job[e]] = copy[e]]
    /\ Goto(e, "idle")
    /\ job' = [job EXCEPT ![e] = NoTask]
    /\ copy' = [copy EXCEPT ![e] = NoRecord]
    /\ UNCHANGED <<leaseVars, expired, cand, phase, done, faults>>

\* Its save raises, or the audit line after it: the editor is told so.
EditRaises(e) ==
    /\ pc[e] = "edit"
    /\ Raises(e, copy[e])
    /\ Goto(e, "idle")
    /\ job' = [job EXCEPT ![e] = NoTask]
    /\ UNCHANGED cand

-----------------------------------------------------------------------------
\* The death of a process: of a pool, or of the API server with every request.
Crash(dead, pools) ==
    /\ faults < MaxFaults
    /\ \E a \in dead : pc[a] # "idle"
    /\ faults' = faults + 1
    /\ LeaseCrash(dead)
    /\ pc' = [a \in Actor |-> IF a \in dead THEN "idle" ELSE pc[a]]
    /\ job' = [a \in Actor |-> IF a \in dead THEN NoTask ELSE job[a]]
    /\ copy' = [a \in Actor |-> IF a \in dead THEN NoRecord ELSE copy[a]]
    /\ cand' = [p \in Proc |-> IF p \in dead THEN {} ELSE cand[p]]
    /\ phase' = [g \in Pool |-> IF g \in pools THEN "claim" ELSE phase[g]]
    /\ UNCHANGED <<taskVars, done>>

CrashPool(g) == Crash(g, {g})
CrashApi     == Crash(Runner \cup Editor, {})

LocksAge(t) ==
    /\ LockAges(t)
    /\ UNCHANGED <<taskVars, pc, job, copy, cand, phase, done, faults>>

-----------------------------------------------------------------------------
Execute(p) ==
    \/ ExecLoad(p) \/ ExecStart(p) \/ ExecReload(p) \/ ExecSave(p) \/ ExecRelease(p)
    \/ \E outcome \in Outcome : RunCapability(p, outcome)

\* What a slot or a runner does next once it has begun.
Work(p) ==
    \/ \E t \in Task : Try(p, t) \/ TurnedAway(p, t)
    \/ Unlink(p) \/ Claim(p) \/ GiveUp(p)
    \/ Execute(p)

RunnerStep(r) ==
    \/ \E t \in Task : RunOperation(r, t)
    \/ PreHold(r) \/ PostHold(r) \/ HoldRaises(r)

EditorStep(e) ==
    \/ \E t \in Task : CancelLoad(e, t) \/ PatchLoad(e, t)
    \/ EditSave(e) \/ EditRaises(e)

Next ==
    \/ \E t \in Task : Create(t) \/ Expire(t) \/ LocksAge(t)
    \/ \E g \in Pool : \E s \in g : ListCandidates(g, s)
    \/ \E p \in Proc : Work(p) \/ ExecRaises(p)
    \/ \E r \in Runner : RunnerStep(r)
    \/ \E e \in Editor : EditorStep(e)
    \/ \E g \in Pool : CrashPool(g)
    \/ CrashApi

Spec == Init /\ [][Next]_vars

\* A pool loops for ever, threads that have begun are scheduled, a capability
\* returns, and time goes by.
Fairness ==
    /\ \A g \in Pool : \A s \in g : WF_vars(ListCandidates(g, s) \/ Work(s))
    /\ \A r \in Runner : WF_vars(Work(r) \/ PreHold(r) \/ PostHold(r))
    /\ \A t \in Task : WF_vars(LocksAge(t))

FairSpec == Spec /\ Fairness

-----------------------------------------------------------------------------
\* Whoever executes a task holds its lock, and while no stale lock of the task
\* was reclaimed nobody else executes it: the claim in one function and the
\* execution in another (_claim_next_task, _execute_claimed_task) fit together.
OneExecutor ==
    \A t \in Task : reclaims[t] = 0 =>
        \A p, q \in Proc :
            Executing(p) /\ job[p] = t /\ Executing(q) /\ job[q] = t => p = q

\* The capability of a task is not run again once a run of it succeeded: the retry
\* of a held operation does not bring a complete one back, nor does the death of a
\* process.  (One runner, no editors, no save that raises, no stale lock.)
NoRunAfterSuccess ==
    [][\A p \in Proc : \A outcome \in Outcome :
          RunCapability(p, outcome) => ~done[job[p]]]_vars

\* A record at rest: terminal, not held by governance, and nobody has an older
\* idea of it than the record itself.
Settled(t) ==
    /\ rec[t].status \in Terminal
    /\ ~Retryable(rec[t])
    /\ \A a \in Actor : Engaged(a, t) =>
           a \in Editor /\ pc[a] = "edit" /\ copy[a] = rec[t]

\* Such a record is final: no pool, run request, cancel, patch, crash or stale
\* lock changes it, or brings its task to execution again.
SettledIsFinal ==
    [][\A t \in Task : Settled(t) => Settled(t)' /\ rec'[t] = rec[t]]_vars

\* _operation_status_for_task: the result of the last attempt that ended is looked
\* at first, also while the next one runs; then the status of the record.
ToOperationStatus(status) ==
    CASE status = "absent"                  -> "absent"
      [] status \in {"pending", "accepted"} -> "queued"
      [] status = "running"                 -> "running"
      [] status = "complete"                -> "succeeded"
      [] status = "failed"                  -> "failed"
      [] status = "cancelled"               -> "canceled"

Observed(t) ==
    CASE rec[t].result = "blocked" -> "blocked"
      [] rec[t].result = "waits"   -> "queued"
      [] OTHER                     -> ToOperationStatus(rec[t].status)

\* The records implement the lifecycle an observer of their status is promised.
\* (One runner, no editors, no save that raises, no stale lock.)
Lifecycle == INSTANCE TaskLifecycle WITH
                 shown <- [t \in Task |-> Observed(t)],
                 held  <- [t \in Task |-> Retryable(rec[t])]

ImplementsLifecycle == Lifecycle!Spec

\* What a pool may run it runs, or it expires waiting.
PendingIsPicked ==
    \A t \in Task : Runnable(t) ~> ~Runnable(t)

\* A task that was started is finished, whatever a crash, a failing save or a late
\* edit leaves of it, if its run is asked for again and again: no pool takes up a
\* record that says "running", but a run request does, once the lock is stale.
RunningEnds ==
    \A t \in Task :
        (\E r \in Runner : SF_vars(RunOperation(r, t))) =>
            (rec[t].status = "running" ~> rec[t].status # "running")
=============================================================================
