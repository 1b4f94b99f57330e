--------------------------- MODULE TaskRunnerProofs ---------------------------
(***************************************************************************)
(* Proofs about task records, for any set of tasks, pools, run requests    *)
(* and editors, any aging of lock files and any number of crashes.  The    *)
(* last two theorems are about any tasks, pools and crashes, with one run  *)
(* request at a time and nothing else that disturbs (Calm).                *)
(***************************************************************************)
EXTENDS TaskRunner, TaskLeaseProofs

-----------------------------------------------------------------------------
\* What the actors know of their tasks and locks: an actor in the middle of a
\* record's life has a task, one that is between the look and the create is trying
\* a candidate, and one that executes holds the lock of its task.
WorkInv ==
    /\ \A a \in Actor : /\ pc[a] \notin {"idle", "try"} => job[a] \in Task
                        /\ pc[a] = "idle" => job[a] = NoTask
    /\ \A p \in Proc : lease[p].at \in {"sawStale", "clear"} =>
                           pc[p] = "try" /\ lease[p].task \in cand[p]
    /\ \A p \in Proc : Executing(p) => Holds(p, job[p])

\* Who the actors are.
LEMMA SlotsArePartOfProc == \A g \in Pool : g \subseteq Proc
BY RunnerAssumption

\* Slots and runners call the lock, editors do not.
LEMMA ActorsAreProcsOrEditors ==
    /\ Slot \subseteq Proc
    /\ Runner \subseteq Proc
    /\ Proc \subseteq Actor
    /\ Editor \subseteq Actor
    /\ Editor \cap Proc = {}
BY RunnerAssumption DEF Slot, Runner, Actor

-----------------------------------------------------------------------------
\* Whoever works with records uses the lock file only by the steps of TaskLease.
LEMMA LeaseStepOfNext ==
    ASSUME [Next]_vars PROVE [LeaseNext]_leaseVars
<1>1. ASSUME NEW p \in Proc, LeaseStep(p) PROVE LeaseNext
  BY <1>1 DEF LeaseNext
<1>2. ASSUME NEW dead, LeaseCrash(dead) PROVE LeaseNext
  <2>1. LeaseCrash(dead \cap Proc)
    BY <1>2 DEF LeaseCrash
  <2>2. dead \cap Proc \in SUBSET Proc
    OBVIOUS
  <2>3. QED
    BY <2>1, <2>2 DEF LeaseNext
<1>3. ASSUME NEW t \in Task, Create(t) \/ Expire(t) \/ LocksAge(t)
      PROVE  [LeaseNext]_leaseVars
  BY <1>3 DEF Create, Expire, LocksAge, LeaseNext
<1>4. ASSUME NEW g \in Pool, NEW s \in g, ListCandidates(g, s)
      PROVE  [LeaseNext]_leaseVars
  BY <1>4 DEF ListCandidates
<1>5. ASSUME NEW p \in Proc, Work(p) \/ ExecRaises(p)
      PROVE  [LeaseNext]_leaseVars
  <2> USE DEF Raises
  <2>1. ASSUME NEW t \in Task, Try(p, t) PROVE LeaseStep(p)
    BY <2>1 DEF Try, LeaseStep, Look
  <2>2. ASSUME NEW t \in Task, TurnedAway(p, t) PROVE LeaseStep(p)
    BY <2>2 DEF TurnedAway, LeaseStep, Look
  <2>3. ASSUME Unlink(p) \/ Claim(p) \/ ExecRelease(p) PROVE LeaseStep(p)
    BY <2>3 DEF Unlink, Claim, ExecRelease, LeaseStep
  <2>4. ASSUME GiveUp(p) \/ ExecRaises(p) PROVE UNCHANGED leaseVars
    BY <2>4 DEF GiveUp, ExecRaises
  <2>5. ASSUME Execute(p), ~ExecRelease(p) PROVE UNCHANGED leaseVars
    BY <2>5 DEF Execute, ExecLoad, ExecStart, RunCapability, ExecReload, ExecSave
  <2>6. QED
    BY <1>1, <1>5, <2>1, <2>2, <2>3, <2>4, <2>5 DEF Work
<1>6. ASSUME NEW r \in Runner, RunnerStep(r) PROVE UNCHANGED leaseVars
  BY <1>6 DEF RunnerStep, RunOperation, PreHold, PostHold, HoldRaises, Raises
<1>7. ASSUME NEW e \in Editor, EditorStep(e) PROVE UNCHANGED leaseVars
  BY <1>7 DEF EditorStep, CancelLoad, PatchLoad, EditSave, EditRaises, Raises
<1>8. ASSUME NEW g \in Pool, CrashPool(g) PROVE LeaseNext
  BY <1>2, <1>8 DEF CrashPool, Crash
<1>9. CASE CrashApi
  BY <1>2, <1>9 DEF CrashApi, Crash
<1>10. CASE UNCHANGED vars
  BY <1>10 DEF vars, leaseVars
<1>11. QED
  BY <1>3, <1>4, <1>5, <1>6, <1>7, <1>8, <1>9, <1>10 DEF Next

\* The pools, run requests and editors implement the lock protocol of TaskLease:
\* what is proved about the lock file holds of the running system.
LEMMA ImplementsLease == Spec => LeaseSpec
<1>1. Init => LeaseInit
  BY DEF Init
<1>2. [Next]_vars => [LeaseNext]_leaseVars
  BY LeaseStepOfNext
<1>3. QED
  BY <1>1, <1>2, PTL DEF Spec, LeaseSpec

-----------------------------------------------------------------------------
\* Changing a field of a record within its type gives a record.
LEMMA RecordUpdates ==
    ASSUME NEW r \in Record
    PROVE  /\ \A s \in {"absent", "pending", "accepted", "running", "complete",
                        "failed", "cancelled"} : [r EXCEPT !.status = s] \in Record
           /\ \A o \in {"none"} \cup Outcome : [r EXCEPT !.result = o] \in Record
           /\ [r EXCEPT !.status = "failed", !.attempts = More(@)] \in Record
           /\ More(r.attempts) \in 0..Many
           /\ r.result \in {"none"} \cup Outcome
<1>1. More(r.attempts) \in 0..Many
  BY DEF Record, More, Many
<1>2. QED
  BY <1>1 DEF Record

\* The invariant, one fact at a time.
LEMMA WorkFacts ==
    ASSUME WorkInv
    PROVE  /\ \A a \in Actor : pc[a] \notin {"idle", "try"} => job[a] \in Task
           /\ \A a \in Actor : pc[a] = "idle" => job[a] = NoTask
           /\ \A p \in Proc : lease[p].at \in {"sawStale", "clear"} =>
                                  pc[p] = "try" /\ lease[p].task \in cand[p]
           /\ \A p \in Proc : Executing(p) => Holds(p, job[p])
<1>1. \A a \in Actor : pc[a] \notin {"idle", "try"} => job[a] \in Task
  BY DEF WorkInv
<1>2. \A a \in Actor : pc[a] = "idle" => job[a] = NoTask
  BY Zenon DEF WorkInv
<1>3. \A p \in Proc : lease[p].at \in {"sawStale", "clear"} =>
                         pc[p] = "try" /\ lease[p].task \in cand[p]
  BY Zenon DEF WorkInv
<1>4. \A p \in Proc : Executing(p) => Holds(p, job[p])
  BY Zenon DEF WorkInv
<1>5. QED
  BY <1>1, <1>2, <1>3, <1>4, Zenon

\* The steps of execute_task other than the release keep job and lock.
LEMMA ExecuteFrame ==
    ASSUME TypeOK, NEW p \in Proc,
           \/ ExecLoad(p) \/ ExecStart(p) \/ ExecReload(p) \/ ExecSave(p) \/ ExecRaises(p)
           \/ \E outcome \in Outcome : RunCapability(p, outcome)
    PROVE  /\ pc[p] \in {"claimed", "refuse", "start", "run", "reload", "save"}
           /\ pc'[p] \in {"refuse", "start", "run", "reload", "save", "release"}
           /\ \A b \in Actor \ {p} : pc'[b] = pc[b]
           /\ lease' = lease /\ job' = job /\ cand' = cand
<1> USE ActorsAreProcsOrEditors DEF TypeOK, Goto, leaseVars
<1>1. CASE ExecLoad(p)
  <2>1. lease' = lease /\ job' = job /\ cand' = cand
    BY <1>1 DEF ExecLoad
  <2>2. pc[p] = "claimed" /\ \E l \in {"release", "refuse", "start"} : pc' = [pc EXCEPT ![p] = l]
    BY <1>1 DEF ExecLoad
  <2>3. QED
    BY <2>1, <2>2
<1>2. CASE ExecStart(p)
  BY <1>2 DEF ExecStart
<1>3. CASE ExecReload(p)
  BY <1>3 DEF ExecReload
<1>4. CASE ExecSave(p)
  BY <1>4 DEF ExecSave
<1>5. CASE ExecRaises(p)
  BY <1>5 DEF ExecRaises, Raises
<1>6. CASE \E outcome \in Outcome : RunCapability(p, outcome)
  BY <1>6 DEF RunCapability
<1>7. QED
  BY <1>1, <1>2, <1>3, <1>4, <1>5, <1>6

\* A save that raises puts the saved record in place, or leaves the one that is there.
LEMMA RaiseEffect ==
    ASSUME TypeOK, NEW a \in Actor, NEW saved \in Record, Raises(a, saved)
    PROVE  /\ rec' \in [Task -> Record]
           /\ copy' \in [Actor -> Record]
           /\ copy'[a] = NoRecord /\ \A b \in Actor \ {a} : copy'[b] = copy[b]
           /\ \A t \in Task : t # job[a] => rec'[t] = rec[t]
           /\ faults' \in 0..MaxFaults
           /\ UNCHANGED <<leaseVars, expired, phase, done>>
<1>1. NoRecord \in Record
  BY DEF NoRecord, Record, Many
<1>2. faults' \in 0..MaxFaults
  BY RunnerAssumption DEF Raises, TypeOK
<1>3. rec' \in [Task -> Record] /\ \A t \in Task : t # job[a] => rec'[t] = rec[t]
  BY DEF Raises, TypeOK
<1> QED
  BY <1>1, <1>2, <1>3 DEF Raises, TypeOK

\* Every step of an actor, of time or of a crash leaves each variable in its type.
LEMMA TypeStep ==
    ASSUME TypeOK, WorkInv, [Next]_vars PROVE TypeOK'
<1>a. \A a \in Actor : pc[a] \notin {"idle", "try"} => job[a] \in Task
  BY WorkFacts
<1>b. \A p \in Proc : lease[p].at = "clear" => lease[p].task \in Task
  BY WorkFacts DEF TypeOK
<1> USE ActorsAreProcsOrEditors, SlotsArePartOfProc
<1>1. LeaseTypeOK'
  BY LeaseStepOfNext, LeaseTypeStep DEF TypeOK
<1> USE DEF TypeOK, Goto
<1>c. NoRecord \in Record
  BY DEF NoRecord, Record, Many
<1>2. ASSUME NEW t \in Task, Create(t) \/ Expire(t) \/ LocksAge(t) PROVE TypeOK'
  <2>1. CASE Create(t)
    <3>1. [rec[t] EXCEPT !.status = "pending"] \in Record
      BY RecordUpdates
    <3>2. QED
      BY <2>1, <1>1, <3>1 DEF Create, taskVars
  <2>2. CASE Expire(t)
    BY <2>2, <1>1 DEF Expire, taskVars
  <2>3. CASE LocksAge(t)
    BY <2>3, <1>1 DEF LocksAge, taskVars
  <2>4. QED
    BY <1>2, <2>1, <2>2, <2>3
<1>3. ASSUME NEW g \in Pool, NEW s \in g, ListCandidates(g, s) PROVE TypeOK'
  BY <1>1, <1>3 DEF ListCandidates, taskVars
<1>4. ASSUME NEW p \in Proc, Work(p) \/ ExecRaises(p) PROVE TypeOK'
  <2>1. ASSUME NEW t \in Task, Try(p, t) PROVE TypeOK'
    BY <1>1, <2>1 DEF Try, taskVars
  <2>2. ASSUME NEW t \in Task, TurnedAway(p, t) PROVE TypeOK'
    BY <1>1, <2>2 DEF TurnedAway, taskVars
  <2>3. CASE Unlink(p)
    BY <1>1, <2>3 DEF Unlink, taskVars
  <2>4. CASE Claim(p)
    <3>1. lease[p].task \in Task
      BY <1>b, <2>4 DEF Claim, Acquire
    <3>2. QED
      BY <1>1, <2>4, <3>1 DEF Claim, taskVars
  <2>5. CASE GiveUp(p)
    BY <1>1, <1>c, <2>5 DEF GiveUp, taskVars
  <2>6. CASE ExecLoad(p)
    <3>1. job[p] \in Task
      BY <1>a, <2>6 DEF ExecLoad
    <3> DEFINE r == rec[job[p]]
    <3>2. /\ r \in Record
          /\ [r EXCEPT !.status = "failed", !.attempts = More(@)] \in Record
          /\ [r EXCEPT !.status = "running"] \in Record
      BY <3>1, RecordUpdates
    <3>3. copy' \in [Actor -> Record]
      BY <2>6, <3>2 DEF ExecLoad
    <3>4. pc' \in [Actor -> {"idle", "preHold", "try", "claimed", "refuse", "start",
                             "run", "reload", "save", "release", "hold", "edit"}]
      BY <2>6 DEF ExecLoad
    <3>5. QED
      BY <1>1, <2>6, <3>3, <3>4 DEF ExecLoad, taskVars
  <2>7. CASE ExecStart(p)
    BY <1>1, <2>7 DEF ExecStart, taskVars
  <2>8. ASSUME NEW outcome \in Outcome, RunCapability(p, outcome)
        PROVE  TypeOK'
    <3>1. [copy[p] EXCEPT !.result = outcome] \in Record
      BY RecordUpdates
    <3>2. copy' \in [Actor -> Record]
      BY <2>8, <3>1 DEF RunCapability
    <3>3. done' \in [Task -> BOOLEAN]
      BY <2>8 DEF RunCapability
    <3>4. QED
      BY <1>1, <2>8, <3>2, <3>3 DEF RunCapability, taskVars
  <2>9. CASE ExecReload(p)
    <3>1. job[p] \in Task
      BY <1>a, <2>9 DEF ExecReload
    <3>2. /\ More(rec[job[p]].attempts) \in 0..Many
          /\ copy[p].result \in {"none"} \cup Outcome
      BY <3>1, RecordUpdates
    <3>3. [status   |-> IF copy[p].result = "ok" THEN "complete" ELSE "failed",
           result   |-> copy[p].result,
           attempts |-> More(rec[job[p]].attempts)] \in Record
      BY <3>2 DEF Record
    <3>4. copy' \in [Actor -> Record]
      BY <2>9, <3>3 DEF ExecReload
    <3>5. QED
      BY <1>1, <2>9, <3>4 DEF ExecReload, taskVars
  <2>10. CASE ExecSave(p)
    BY <1>1, <2>10 DEF ExecSave, taskVars
  <2>11. CASE ExecRelease(p)
    BY <1>1, <1>c, <2>11 DEF ExecRelease, taskVars
  <2>12. CASE ExecRaises(p)
    <3>1. Raises(p, copy[p]) /\ copy[p] \in Record
      BY <2>12 DEF ExecRaises
    <3>2. QED
      BY <1>1, <2>12, <3>1, RaiseEffect DEF ExecRaises
  <2>13. QED
    BY <1>4, <2>1, <2>2, <2>3, <2>4, <2>5, <2>6, <2>7, <2>8, <2>9, <2>10, <2>11, <2>12
       DEF Work, Execute
<1>5. ASSUME NEW r \in Runner, RunnerStep(r) PROVE TypeOK'
  <2>1. ASSUME NEW t \in Task, RunOperation(r, t) PROVE TypeOK'
    BY <1>1, <2>1 DEF RunOperation, taskVars
  <2>2. [copy[r] EXCEPT !.status = "accepted"] \in Record
    BY RecordUpdates
  <2>3. CASE PreHold(r)
    BY <1>1, <2>2, <2>3 DEF PreHold, taskVars
  <2>4. CASE PostHold(r)
    BY <1>1, <1>c, <2>2, <2>4 DEF PostHold, taskVars
  <2>5. CASE HoldRaises(r)
    <3>1. Raises(r, [copy[r] EXCEPT !.status = "accepted"])
      BY <2>5 DEF HoldRaises
    <3>2. QED
      BY <1>1, <2>2, <2>5, <3>1, RaiseEffect DEF HoldRaises
  <2>6. QED
    BY <1>5, <2>1, <2>3, <2>4, <2>5 DEF RunnerStep
<1>6. ASSUME NEW e \in Editor, EditorStep(e) PROVE TypeOK'
  <2>1. ASSUME NEW t \in Task, CancelLoad(e, t) PROVE TypeOK'
    <3>1. [rec[t] EXCEPT !.status = "cancelled"] \in Record
      BY RecordUpdates
    <3>2. QED
      BY <1>1, <2>1, <3>1 DEF CancelLoad, taskVars
  <2>2. ASSUME NEW t \in Task, PatchLoad(e, t) PROVE TypeOK'
    BY <1>1, <2>2 DEF PatchLoad, taskVars
  <2>3. CASE EditSave(e)
    BY <1>1, <1>c, <2>3 DEF EditSave, taskVars
  <2>4. CASE EditRaises(e)
    <3>1. Raises(e, copy[e]) /\ copy[e] \in Record
      BY <2>4 DEF EditRaises
    <3>2. QED
      BY <1>1, <2>4, <3>1, RaiseEffect DEF EditRaises
  <2>5. QED
    BY <1>6, <2>1, <2>2, <2>3, <2>4 DEF EditorStep
<1>7. ASSUME NEW dead, NEW pools, Crash(dead, pools) PROVE TypeOK'
  BY <1>1, <1>c, <1>7, RunnerAssumption DEF Crash, taskVars
<1>8. CASE UNCHANGED vars
  BY <1>8, <1>1 DEF vars
<1>9. QED
  BY <1>2, <1>3, <1>4, <1>5, <1>6, <1>7, <1>8 DEF Next, CrashPool, CrashApi

-----------------------------------------------------------------------------
\* The invariant has one part for each of what an actor knows.
HasJob(a)   == /\ pc[a] \notin {"idle", "try"} => job[a] \in Task
               /\ pc[a] = "idle" => job[a] = NoTask
IsTrying(p) == lease[p].at \in {"sawStale", "clear"} =>
                   pc[p] = "try" /\ lease[p].task \in cand[p]
HasLock(p)  == Executing(p) => Holds(p, job[p])

\* A step of one actor leaves alone what the others know.
LEMMA OthersKnow ==
    ASSUME WorkInv, NEW a \in Actor,
           \A b \in Actor \ {a} : pc'[b] = pc[b] /\ job'[b] = job[b],
           \A q \in Proc \ {a} : lease'[q] = lease[q] /\ cand'[q] = cand[q],
           HasJob(a)', a \in Proc => IsTrying(a)' /\ HasLock(a)'
    PROVE  WorkInv'
BY ActorsAreProcsOrEditors DEF WorkInv, HasJob, IsTrying, HasLock, Executing, Holds

\* No step makes an actor forget its task, or run without the lock of its task.
LEMMA WorkStep ==
    ASSUME TypeOK, WorkInv, [Next]_vars PROVE WorkInv'
<1> USE ActorsAreProcsOrEditors, SlotsArePartOfProc
<1> USE DEF TypeOK, LeaseTypeOK, Goto, HasJob, IsTrying, HasLock
<1>1. ASSUME NEW t \in Task, Create(t) \/ Expire(t) \/ LocksAge(t) PROVE WorkInv'
  BY <1>1 DEF Create, Expire, LocksAge, LockAges, leaseVars, WorkInv, Executing, Holds
<1>2. ASSUME NEW g \in Pool, NEW s \in g, ListCandidates(g, s) PROVE WorkInv'
  <2>1. HasJob(s)' /\ IsTrying(s)' /\ HasLock(s)'
    BY <1>2 DEF ListCandidates, leaseVars, WorkInv, Executing
  <2>2. /\ s \in Proc
        /\ \A b \in Actor \ {s} : pc'[b] = pc[b] /\ job'[b] = job[b]
        /\ \A q \in Proc \ {s} : lease'[q] = lease[q] /\ cand'[q] = cand[q]
    BY <1>2 DEF ListCandidates, leaseVars
  <2>3. QED
    BY <2>1, <2>2, OthersKnow
<1>3. ASSUME NEW p \in Proc, Work(p) \/ ExecRaises(p) PROVE WorkInv'
  <2>1. ASSUME NEW t \in Task, Try(p, t) PROVE WorkInv'
    <3>1. /\ \A q \in Proc \ {p} : lease'[q] = lease[q]
          /\ lease'[p].at \in {"sawStale", "clear"} /\ lease'[p].task = t
      BY <2>1 DEF Try, LookAbsent, LookStale
    <3>2. HasJob(p)' /\ IsTrying(p)' /\ HasLock(p)'
      BY <2>1, <3>1 DEF Try, WorkInv, Executing
    <3>3. QED
      BY <2>1, <3>1, <3>2, OthersKnow DEF Try
  <2>2. ASSUME NEW t \in Task, TurnedAway(p, t) PROVE WorkInv'
    <3>1. lease'[p] = Free /\ \A q \in Proc \ {p} : lease'[q] = lease[q]
      BY <2>2 DEF TurnedAway, LookDenied, LoseRace, leaseVars, Free
    <3>2. HasJob(p)' /\ IsTrying(p)' /\ HasLock(p)'
      BY <2>2, <3>1 DEF TurnedAway, WorkInv, Executing, Free
    <3>3. QED
      BY <2>2, <3>1, <3>2, OthersKnow DEF TurnedAway
  <2>3. CASE Unlink(p)
    <3>1. /\ lease[p].at = "sawStale"
          /\ lease' = [lease EXCEPT ![p].at = "clear"]
      BY <2>3 DEF Unlink, Reclaim
    <3>2. HasJob(p)' /\ IsTrying(p)' /\ HasLock(p)'
      BY <2>3, <3>1 DEF Unlink, WorkInv, Executing
    <3>3. QED
      BY <2>3, <3>1, <3>2, OthersKnow DEF Unlink
  <2>4. CASE Claim(p)
    <3>1. /\ lease[p].at = "clear"
          /\ lease' = [lease EXCEPT ![p].at = "held"]
      BY <2>4 DEF Claim, Acquire
    <3>2. lease[p].task \in Task
      BY <3>1 DEF WorkInv
    <3>3. lease'[p] = [at |-> "held", task |-> lease[p].task]
      BY <3>1
    <3>4. HasJob(p)' /\ IsTrying(p)' /\ HasLock(p)'
      BY <2>4, <3>2, <3>3 DEF Claim, Holds
    <3>5. QED
      BY <2>4, <3>1, <3>4, OthersKnow DEF Claim
  <2>5. CASE GiveUp(p)
    <3>1. HasJob(p)' /\ IsTrying(p)' /\ HasLock(p)'
      BY <2>5 DEF GiveUp, leaseVars, Free, Executing
    <3>2. QED
      BY <2>5, <3>1, OthersKnow DEF GiveUp, leaseVars
  <2>6. ASSUME ExecLoad(p) \/ ExecStart(p) \/ ExecReload(p) \/ ExecSave(p)
               \/ ExecRaises(p)
               \/ \E outcome \in Outcome : RunCapability(p, outcome)
        PROVE  WorkInv'
    <3>1. /\ pc[p] \in {"claimed", "refuse", "start", "run", "reload", "save"}
          /\ pc'[p] \in {"refuse", "start", "run", "reload", "save", "release"}
          /\ \A b \in Actor \ {p} : pc'[b] = pc[b]
          /\ lease' = lease /\ job' = job /\ cand' = cand
      BY <2>6, ExecuteFrame
    <3>2. job[p] \in Task /\ Holds(p, job[p])
      BY <3>1, WorkFacts DEF Executing
    <3>3. HasJob(p)' /\ IsTrying(p)' /\ HasLock(p)'
      BY <3>1, <3>2 DEF Holds
    <3>4. QED
      BY <3>1, <3>3, OthersKnow
  <2>7. CASE ExecRelease(p)
    <3>1. /\ lease' = [lease EXCEPT ![p] = Free]
          /\ pc[p] = "release"
          /\ pc'[p] \in {"hold", "idle"}
          /\ \A b \in Actor \ {p} : pc'[b] = pc[b] /\ job'[b] = job[b]
          /\ pc'[p] = "hold" => job'[p] = job[p]
          /\ pc'[p] = "idle" => job'[p] = NoTask
          /\ cand' = cand
      BY <2>7 DEF ExecRelease, Release
    <3>2. job[p] \in Task
      BY <3>1, WorkFacts
    <3>3. HasJob(p)' /\ IsTrying(p)' /\ HasLock(p)'
      BY <3>1, <3>2 DEF Executing, Free
    <3>4. QED
      BY <3>1, <3>3, OthersKnow
  <2>8. QED
    BY <1>3, <2>1, <2>2, <2>3, <2>4, <2>5, <2>6, <2>7 DEF Work, Execute
<1>4. ASSUME NEW r \in Runner, RunnerStep(r) PROVE WorkInv'
  <2>1. lease' = lease
    BY <1>4 DEF RunnerStep, RunOperation, PreHold, PostHold, HoldRaises, Raises, leaseVars
  <2>2. ASSUME NEW t \in Task, RunOperation(r, t) PROVE WorkInv'
    <3>1. HasJob(r)' /\ IsTrying(r)' /\ HasLock(r)'
      BY <2>1, <2>2 DEF RunOperation, WorkInv, Executing
    <3>2. QED
      BY <2>1, <2>2, <3>1, OthersKnow DEF RunOperation
  <2>3. CASE PreHold(r)
    <3>1. HasJob(r)' /\ IsTrying(r)' /\ HasLock(r)'
      BY <2>1, <2>3 DEF PreHold, WorkInv, Executing
    <3>2. QED
      BY <2>1, <2>3, <3>1, OthersKnow DEF PreHold
  <2>4. CASE PostHold(r)
    <3>1. HasJob(r)' /\ IsTrying(r)' /\ HasLock(r)'
      BY <2>1, <2>4 DEF PostHold, WorkInv, Executing
    <3>2. QED
      BY <2>1, <2>4, <3>1, OthersKnow DEF PostHold
  <2>5. CASE HoldRaises(r)
    <3>1. HasJob(r)' /\ IsTrying(r)' /\ HasLock(r)'
      BY <2>1, <2>5 DEF HoldRaises, WorkInv, Executing
    <3>2. QED
      BY <2>1, <2>5, <3>1, OthersKnow DEF HoldRaises
  <2>6. QED
    BY <1>4, <2>2, <2>3, <2>4, <2>5 DEF RunnerStep
<1>5. ASSUME NEW e \in Editor, EditorStep(e) PROVE WorkInv'
  <2>1. lease' = lease /\ cand' = cand
    BY <1>5 DEF EditorStep, CancelLoad, PatchLoad, EditSave, EditRaises, Raises, leaseVars
  <2>2. /\ HasJob(e)'
        /\ \A b \in Actor \ {e} : pc'[b] = pc[b] /\ job'[b] = job[b]
    BY <1>5 DEF EditorStep, CancelLoad, PatchLoad, EditSave, EditRaises
  <2>3. e \notin Proc
    OBVIOUS
  <2>4. QED
    BY <2>1, <2>2, <2>3, OthersKnow
<1>6. ASSUME NEW dead, NEW pools, Crash(dead, pools) PROVE WorkInv'
  BY <1>6 DEF Crash, LeaseCrash, WorkInv, Executing, Holds, Free
<1>7. CASE UNCHANGED vars
  BY <1>7 DEF vars, leaseVars, WorkInv, Executing, Holds
<1>8. QED
  BY <1>1, <1>2, <1>3, <1>4, <1>5, <1>6, <1>7 DEF Next, CrashPool, CrashApi

\* Every variable keeps its type, for any set of actors.
THEOREM TypeCorrect == Spec => [](TypeOK /\ WorkInv)
<1>1. Init => TypeOK /\ WorkInv
  <2> SUFFICES ASSUME Init PROVE TypeOK /\ WorkInv
    OBVIOUS
  <2>1. LeaseTypeOK
    BY DEF Init, LeaseInit, LeaseTypeOK, NoLock, Free, Many
  <2>2. NoRecord \in Record
    BY DEF NoRecord, Record, Many
  <2>3. TypeOK
    BY <2>1, <2>2, RunnerAssumption DEF Init, TypeOK, Many
  <2>4. WorkInv
    BY ActorsAreProcsOrEditors DEF Init, LeaseInit, Free, WorkInv, Executing
  <2>5. QED
    BY <2>3, <2>4
<1>2. TypeOK /\ WorkInv /\ [Next]_vars => (TypeOK /\ WorkInv)'
  BY TypeStep, WorkStep
<1>3. QED
  BY <1>1, <1>2, PTL DEF Spec

\* While no stale lock of a task was reclaimed at most one slot or run request
\* executes the task: the fence of the lock file reaches around execute_task.
THEOREM OneExecutorAtATime == Spec => []OneExecutor
<1>1. TypeOK /\ WorkInv /\ UnreclaimedIsExclusive => OneExecutor
  BY DEF WorkInv, UnreclaimedIsExclusive, Exclusive, Holders, OneExecutor
<1>2. QED
  BY <1>1, TypeCorrect, ImplementsLease, UnreclaimedExclusive, PTL

-----------------------------------------------------------------------------
\* A step of one actor keeps a task settled if the actor saves nothing else over
\* the record, and engages in the task at most with a copy of it.
LEMMA SettledButFor ==
    ASSUME NEW t \in Task, Settled(t), NEW a \in Actor,
           \A b \in Actor \ {a} : pc'[b] = pc[b] /\ job'[b] = job[b] /\ copy'[b] = copy[b],
           \A q \in Proc \ {a} : cand'[q] = cand[q],
           rec'[t] = rec[t],
           Engaged(a, t)' => a \in Editor /\ pc'[a] = "edit" /\ copy'[a] = rec[t]
    PROVE  Settled(t)'
BY ActorsAreProcsOrEditors DEF Settled, Engaged

\* No step of anybody saves over a settled record or takes an older copy of it.
LEMMA SettledStep ==
    ASSUME TypeOK, WorkInv, [Next]_vars, NEW t \in Task, Settled(t)
    PROVE  Settled(t)' /\ rec'[t] = rec[t]
<1> DEFINE Still == Settled(t)' /\ rec'[t] = rec[t]
<1> USE ActorsAreProcsOrEditors, SlotsArePartOfProc
<1> USE DEF TypeOK, Goto
<1>1. \A p \in Proc : (pc[p] # "idle" => job[p] # t) /\ t \notin cand[p]
  BY DEF Settled, Engaged
<1>2. \A e \in Editor : pc[e] # "idle" /\ job[e] = t => copy[e] = rec[t]
  BY DEF Settled, Engaged
<1>3. rec[t].status \in Terminal /\ ~Retryable(rec[t])
  BY DEF Settled
<1>4. ASSUME NEW u \in Task, Create(u) \/ Expire(u) \/ LocksAge(u) PROVE Still
  <2>1. rec'[t] = rec[t] /\ UNCHANGED <<pc, job, copy, cand>>
    BY <1>3, <1>4 DEF Create, Expire, LocksAge, taskVars, Terminal
  <2>2. QED
    BY <2>1 DEF Settled, Engaged
<1>5. ASSUME NEW g \in Pool, NEW s \in g, ListCandidates(g, s) PROVE Still
  <2>1. t \notin cand'[s]
    BY <1>3, <1>5 DEF ListCandidates, Runnable, Terminal
  <2>2. job'[s] # t
    BY <1>5, LeaseAssumption DEF ListCandidates, WorkInv
  <2>3. QED
    BY <1>5, <2>1, <2>2, SettledButFor DEF ListCandidates, taskVars, Engaged
<1>6. ASSUME NEW p \in Proc, Work(p) \/ ExecRaises(p) PROVE Still
  <2>1. ASSUME pc'[p] # "idle" => job'[p] # t, cand'[p] \subseteq cand[p],
               \A b \in Actor \ {p} : pc'[b] = pc[b] /\ job'[b] = job[b] /\ copy'[b] = copy[b],
               \A q \in Proc \ {p} : cand'[q] = cand[q],
               rec'[t] = rec[t]
        PROVE  Still
    BY <1>1, <2>1, SettledButFor DEF Engaged
  <2>2. ASSUME NEW u \in Task, Try(p, u) \/ TurnedAway(p, u) PROVE Still
    BY <1>1, <2>1, <2>2 DEF Try, TurnedAway, taskVars
  <2>3. CASE Unlink(p)
    BY <1>1, <2>1, <2>3 DEF Unlink, taskVars
  <2>4. CASE Claim(p)
    <3>1. lease[p].task # t
      BY <1>1, <2>4 DEF Claim, Acquire, WorkInv
    <3>2. QED
      BY <1>1, <2>1, <2>4, <3>1 DEF Claim, taskVars
  <2>5. CASE GiveUp(p)
    BY <1>1, <2>1, <2>5 DEF GiveUp, taskVars
  <2>6. CASE ExecLoad(p)
    <3>1. pc[p] = "claimed" /\ job' = job /\ cand' = cand /\ rec' = rec
      BY <2>6 DEF ExecLoad, taskVars
    <3>2. \A b \in Actor \ {p} : pc'[b] = pc[b] /\ copy'[b] = copy[b]
      BY <2>6 DEF ExecLoad
    <3>3. QED
      BY <1>1, <2>1, <3>1, <3>2
  <2>7. CASE ExecStart(p) \/ ExecSave(p)
    BY <1>1, <2>1, <2>7 DEF ExecStart, ExecSave
  <2>8. CASE \E outcome \in Outcome : RunCapability(p, outcome)
    BY <1>1, <2>1, <2>8 DEF RunCapability, taskVars
  <2>9. CASE ExecReload(p)
    BY <1>1, <2>1, <2>9 DEF ExecReload, taskVars
  <2>10. CASE ExecRaises(p)
    BY <1>1, <2>1, <2>10 DEF ExecRaises, Raises
  <2>11. CASE ExecRelease(p)
    <3>1. pc[p] = "release" /\ job'[p] \in {job[p], NoTask} /\ cand' = cand /\ rec' = rec
      BY <2>11 DEF ExecRelease, taskVars
    <3>2. \A b \in Actor \ {p} : pc'[b] = pc[b] /\ job'[b] = job[b] /\ copy'[b] = copy[b]
      BY <2>11 DEF ExecRelease
    <3>3. QED
      BY <1>1, <2>1, <3>1, <3>2, LeaseAssumption
  <2>12. QED
    BY <1>6, <2>2, <2>3, <2>4, <2>5, <2>6, <2>7, <2>8, <2>9, <2>10, <2>11
       DEF Work, Execute
<1>7. ASSUME NEW r \in Runner, RunnerStep(r) PROVE Still
  <2>1. ASSUME NEW u \in Task, RunOperation(r, u) PROVE Still
    <3>1. u # t
      BY <1>3, <2>1 DEF RunOperation
    <3>2. ~Engaged(r, t)' /\ rec' = rec
      BY <2>1, <3>1 DEF RunOperation, Engaged, taskVars
    <3>3. QED
      BY <2>1, <3>2, SettledButFor DEF RunOperation
  <2>2. CASE PreHold(r) \/ PostHold(r)
    <3>1. rec'[t] = rec[t] /\ ~Engaged(r, t)'
      BY <1>1, <2>2, LeaseAssumption DEF PreHold, PostHold, Engaged
    <3>2. QED
      BY <2>2, <3>1, SettledButFor DEF PreHold, PostHold
  <2>3. CASE HoldRaises(r)
    <3>1. rec'[t] = rec[t] /\ ~Engaged(r, t)'
      BY <1>1, <2>3, LeaseAssumption DEF HoldRaises, Raises, Engaged
    <3>2. \A b \in Actor \ {r} : pc'[b] = pc[b] /\ job'[b] = job[b] /\ copy'[b] = copy[b]
      BY <2>3 DEF HoldRaises, Raises
    <3>3. \A q \in Proc \ {r} : cand'[q] = cand[q]
      BY <2>3 DEF HoldRaises
    <3>4. QED
      BY <3>1, <3>2, <3>3, SettledButFor
  <2>4. QED
    BY <1>7, <2>1, <2>2, <2>3 DEF RunnerStep
<1>8. ASSUME NEW e \in Editor, EditorStep(e) PROVE Still
  <2>1. ASSUME NEW u \in Task, CancelLoad(e, u) PROVE Still
    <3>1. u # t
      BY <1>3, <2>1 DEF CancelLoad
    <3>2. ~Engaged(e, t)' /\ rec' = rec
      BY <2>1, <3>1 DEF CancelLoad, Engaged, taskVars
    <3>3. QED
      BY <2>1, <3>2, SettledButFor DEF CancelLoad
  <2>2. ASSUME NEW u \in Task, PatchLoad(e, u) PROVE Still
    <3>1. rec' = rec /\ pc'[e] = "edit" /\ copy'[e] = rec[u] /\ job'[e] = u
      BY <2>2 DEF PatchLoad, taskVars
    <3>2. Engaged(e, t)' => copy'[e] = rec[t]
      BY <3>1 DEF Engaged
    <3>3. QED
      BY <2>2, <3>1, <3>2, SettledButFor DEF PatchLoad
  <2>3. CASE EditSave(e)
    <3>1. rec'[t] = rec[t]
      BY <1>2, <2>3 DEF EditSave
    <3>2. ~Engaged(e, t)'
      BY <2>3 DEF EditSave, Engaged
    <3>3. QED
      BY <2>3, <3>1, <3>2, SettledButFor DEF EditSave
  <2>4. CASE EditRaises(e)
    <3>1. rec'[t] = rec[t]
      BY <1>2, <2>4 DEF EditRaises, Raises
    <3>2. ~Engaged(e, t)'
      BY <2>4 DEF EditRaises, Engaged
    <3>3. QED
      BY <2>4, <3>1, <3>2, SettledButFor DEF EditRaises, Raises
  <2>5. QED
    BY <1>8, <2>1, <2>2, <2>3, <2>4 DEF EditorStep
<1>9. ASSUME NEW dead, NEW pools, Crash(dead, pools) PROVE Still
  <2>1. rec' = rec
    BY <1>9 DEF Crash, taskVars
  <2>2. \A a \in Actor : Engaged(a, t)' => Engaged(a, t) /\ pc'[a] = pc[a] /\ copy'[a] = copy[a]
    BY <1>9 DEF Crash, Engaged
  <2>3. QED
    BY <2>1, <2>2 DEF Settled
<1>10. CASE UNCHANGED vars
  BY <1>10 DEF vars, Settled, Engaged
<1>11. QED
  BY <1>4, <1>5, <1>6, <1>7, <1>8, <1>9, <1>10 DEF Next, CrashPool, CrashApi

\* A complete, failed or cancelled record that governance does not hold, and that
\* nobody has an older idea of, is final: whatever lock grows stale and whoever
\* crashes, no later cancel, patch, run request or pool cycle changes it.
THEOREM SettledRecordIsFinal == Spec => SettledIsFinal
<1>1. TypeOK /\ WorkInv /\ [Next]_vars =>
          \A t \in Task : Settled(t) => Settled(t)' /\ rec'[t] = rec[t]
  BY SettledStep
<1>2. QED
  BY <1>1, TypeCorrect, PTL DEF Spec, SettledIsFinal

-----------------------------------------------------------------------------
\* The conditions under which NoRunAfterSuccess and ImplementsLifecycle are stated.
\* Processes may die: what they leave behind is a lock that nobody reclaims.
Calm ==
    /\ Aging = "never" /\ Editor = {} /\ ~SaveFaults
    /\ \A q, r \in Runner : q = r

\* Then no lock is ever stale or reclaimed.
FreshInv ==
    /\ \A t \in Task : ~lock[t].stale /\ reclaims[t] = 0
    /\ \A p \in Proc : lease[p].at # "sawStale"

\* No step of the lock protocol brings one about.
LEMMA FreshStep ==
    ASSUME Calm, TypeOK, FreshInv, [LeaseNext]_leaseVars PROVE FreshInv'
<1> USE DEF TypeOK, LeaseTypeOK, FreshInv
<1>1. ASSUME NEW p \in Proc, LeaseStep(p) PROVE FreshInv'
  <2>1. ASSUME NEW t \in Task, Look(p, t) PROVE FreshInv'
    BY <2>1 DEF Look, LookAbsent, LookDenied, LookStale, leaseVars
  <2>2. ~Reclaim(p)
    BY DEF Reclaim
  <2>3. CASE Acquire(p)
    BY <2>3 DEF Acquire
  <2>4. CASE LoseRace(p)
    BY <2>4 DEF LoseRace, Free
  <2>5. CASE Release(p)
    BY <2>5 DEF Release, Free, NoLock
  <2> QED
    BY <1>1, <2>1, <2>2, <2>3, <2>4, <2>5 DEF LeaseStep
<1>2. ASSUME NEW dead, LeaseCrash(dead) PROVE FreshInv'
  BY <1>2 DEF LeaseCrash, Free
<1>3. ASSUME NEW t \in Task PROVE ~LockAges(t)
  BY DEF LockAges, Calm
<1>4. CASE UNCHANGED leaseVars
  BY <1>4 DEF leaseVars
<1> QED
  BY <1>1, <1>2, <1>3, <1>4 DEF LeaseNext

\* Who changes records.
LEMMA RecChange ==
    ASSUME Calm, TypeOK, [Next]_vars
    PROVE  \/ rec' = rec
           \/ \E t \in Task : Create(t)
           \/ \E p \in Proc : ExecStart(p) \/ ExecSave(p)
           \/ \E r \in Runner : PreHold(r) \/ PostHold(r)
<1>1. ASSUME NEW t \in Task, Expire(t) \/ LocksAge(t) PROVE rec' = rec
  BY <1>1 DEF Expire, LocksAge, taskVars
<1>2. ASSUME NEW g \in Pool, NEW s \in g, ListCandidates(g, s) PROVE rec' = rec
  BY <1>2 DEF ListCandidates, taskVars
<1>3. ASSUME NEW p \in Proc, Work(p), ~ExecStart(p), ~ExecSave(p) PROVE rec' = rec
  BY <1>3 DEF Work, Execute, Try, TurnedAway, Unlink, Claim, GiveUp, ExecLoad, ExecReload,
     ExecRelease, RunCapability, taskVars
<1>4. ASSUME NEW p \in Proc PROVE ~ExecRaises(p)
  BY DEF ExecRaises, Raises, Calm
<1>5. ASSUME NEW r \in Runner, RunnerStep(r), ~PreHold(r), ~PostHold(r) PROVE rec' = rec
  BY <1>5 DEF RunnerStep, RunOperation, HoldRaises, Raises, Calm, taskVars
<1>6. ASSUME NEW dead, NEW pools, Crash(dead, pools) PROVE rec' = rec
  BY <1>6 DEF Crash, taskVars
<1>7. CASE UNCHANGED vars
  BY <1>7 DEF vars
<1> QED
  BY <1>1, <1>2, <1>3, <1>4, <1>5, <1>6, <1>7 DEF Next, CrashPool, CrashApi, Calm

Outside == {"idle", "try", "preHold", "hold"}

Dies == CrashApi \/ \E g \in Pool : CrashPool(g)

\* What a caller of the lock does.
LEMMA ProcChange ==
    ASSUME Calm, TypeOK, WorkInv, [Next]_vars, NEW p \in Proc
    PROVE  \/ pc'[p] = pc[p] /\ job'[p] = job[p] /\ copy'[p] = copy[p]
           \/ pc[p] \in Outside /\ pc'[p] \in {"idle", "try", "claimed"}
           \/ Dies /\ pc'[p] = "idle"
           \/ ExecLoad(p) \/ ExecStart(p) \/ ExecReload(p) \/ ExecSave(p) \/ ExecRelease(p)
           \/ \E outcome \in Outcome : RunCapability(p, outcome)
           \/ p \in Runner /\ \E t \in Task : RunOperation(p, t)
<1> USE ActorsAreProcsOrEditors, SlotsArePartOfProc DEF TypeOK, Goto
<1>1. ASSUME NEW t \in Task, Create(t) \/ Expire(t) \/ LocksAge(t)
      PROVE  pc' = pc /\ job' = job /\ copy' = copy
  BY <1>1 DEF Create, Expire, LocksAge
<1>2. ASSUME NEW g \in Pool, NEW s \in g, ListCandidates(g, s)
      PROVE  \/ pc'[p] = pc[p] /\ job'[p] = job[p] /\ copy'[p] = copy[p]
             \/ pc[p] = "idle" /\ pc'[p] = "try"
  BY <1>2 DEF ListCandidates
<1>3. ASSUME NEW q \in Proc, Work(q)
      PROVE  \/ pc'[p] = pc[p] /\ job'[p] = job[p] /\ copy'[p] = copy[p]
             \/ q = p /\ Execute(q)
             \/ pc[p] = "try" /\ pc'[p] \in {"idle", "claimed"}
  <2>1. ASSUME NEW t \in Task, Try(q, t) \/ TurnedAway(q, t)
        PROVE  pc' = pc /\ job' = job /\ copy' = copy
    BY <2>1 DEF Try, TurnedAway
  <2>2. CASE Unlink(q)
    BY <2>2 DEF Unlink
  <2>3. CASE Claim(q)
    BY <2>3, WorkFacts DEF Claim, Acquire
  <2>4. CASE GiveUp(q)
    BY <2>4 DEF GiveUp
  <2>5. CASE Execute(q) /\ q # p
    <3>1. pc'[p] = pc[p] /\ job'[p] = job[p] /\ copy'[p] = copy[p]
      BY <2>5 DEF Execute, ExecLoad, ExecStart, ExecReload, ExecSave, ExecRelease, RunCapability
    <3> QED
      BY <3>1
  <2> QED
    BY <1>3, <2>1, <2>2, <2>3, <2>4, <2>5 DEF Work
<1>4. ASSUME NEW q \in Proc PROVE ~ExecRaises(q)
  BY DEF ExecRaises, Raises, Calm
<1>5. ASSUME NEW r \in Runner, RunnerStep(r)
      PROVE  \/ pc'[p] = pc[p] /\ job'[p] = job[p] /\ copy'[p] = copy[p]
             \/ r = p /\ \E t \in Task : RunOperation(r, t)
             \/ pc[p] \in {"preHold", "hold"} /\ pc'[p] \in {"idle", "try"}
  BY <1>5 DEF RunnerStep, RunOperation, PreHold, PostHold, HoldRaises, Raises, Calm
<1>6. ASSUME NEW dead, NEW pools, Crash(dead, pools)
      PROVE  \/ pc'[p] = pc[p] /\ job'[p] = job[p] /\ copy'[p] = copy[p]
             \/ pc'[p] = "idle"
  BY <1>6 DEF Crash
<1>7. CASE UNCHANGED vars
  BY <1>7 DEF vars
<1> QED
  <2>1. ASSUME Execute(p)
        PROVE  \/ ExecLoad(p) \/ ExecStart(p) \/ ExecReload(p) \/ ExecSave(p) \/ ExecRelease(p)
               \/ \E outcome \in Outcome : RunCapability(p, outcome)
    BY <2>1 DEF Execute
  <2>2. CASE \E q \in Proc : Work(q)
    BY <1>3, <2>1, <2>2 DEF Outside
  <2>3. CASE \E r \in Runner : RunnerStep(r)
    BY <1>5, <2>3 DEF Outside
  <2>4. CASE \E g \in Pool : \E s \in g : ListCandidates(g, s)
    BY <1>2, <2>4 DEF Outside
  <2>5. CASE Dies
    BY <1>6, <2>5 DEF Dies, CrashPool, CrashApi
  <2> QED
    BY <1>1, <1>4, <1>7, <2>2, <2>3, <2>4, <2>5 DEF Next, Dies, Calm

-----------------------------------------------------------------------------
\* A run that succeeded, failed or never was is not one that governance held.
LEMMA HeldResults == Held \subseteq {"waits", "blocked"}
BY RunnerAssumption

\* What a record says of its task: nothing is cancelled, and what governance holds
\* is waiting, running or failed.
Sound(r) ==
    /\ r.status # "cancelled"
    /\ r.result \in Held => r.status \in {"accepted", "running", "failed"}
    /\ r.status = "accepted" => r.result \in Held

\* What a caller's copy has to do with the record.  Between the load and the save of an
\* execution nobody else saves, and neither does anybody while a request is to hold a
\* failed record back.
Unfinished == {"pending", "accepted", "running"}

HoldsBack(p) ==
    \/ pc[p] \in {"preHold", "hold"}
    \/ pc[p] = "release" /\ p \in Runner /\ copy[p].result \in Held

Current(p) ==
    /\ pc[p] \in {"refuse", "start", "run", "reload", "save"} =>
           rec[job[p]].status \in Unfinished
    /\ pc[p] = "start" => copy[p] = [rec[job[p]] EXCEPT !.status = "running"]
    /\ pc[p] = "refuse" => /\ copy[p].status = "failed"
                           /\ copy[p].result = rec[job[p]].result
    /\ pc[p] \in {"run", "reload", "save"} => rec[job[p]].status = "running"
    /\ pc[p] = "save" => copy[p].status = IF copy[p].result = "ok" THEN "complete" ELSE "failed"
    /\ HoldsBack(p) => /\ p \in Runner
                       /\ copy[p] = rec[job[p]]
                       /\ copy[p].status = "failed" /\ copy[p].result \in Held

Known(p, t) ==
    \/ t \in cand[p]
    \/ Executing(p) /\ job[p] = t

RecordInv ==
    /\ \A t \in Task : Sound(rec[t])
    /\ \A p \in Proc : Current(p)
    /\ \A p \in Proc, t \in Task : Known(p, t) => rec[t].status # "absent"

\* What a step saves over which record: the record of a task that is created, is
\* executed, or is held back by the only request.
LEMMA SavedOver ==
    ASSUME Calm, TypeOK, WorkInv, FreshInv, OneExecutor, RecordInv, [Next]_vars,
           NEW t \in Task, rec'[t] # rec[t]
    PROVE  \/ Create(t)
           \/ \E p \in Proc : /\ ExecStart(p) \/ ExecSave(p)
                              /\ job[p] = t /\ rec' = [rec EXCEPT ![t] = copy[p]]
                              /\ rec[t].status \in Unfinished
           \/ \E r \in Runner : /\ PreHold(r) \/ PostHold(r)
                                /\ job[r] = t
                                /\ rec' = [rec EXCEPT ![t].status = "accepted"]
                                /\ rec[t].status = "failed" /\ rec[t].result \in Held
<1> USE ActorsAreProcsOrEditors DEF TypeOK
<1>1. ASSUME NEW u \in Task, Create(u) PROVE u = t
  BY <1>1 DEF Create
<1>2. ASSUME NEW p \in Proc, ExecStart(p) \/ ExecSave(p)
      PROVE  /\ job[p] = t /\ rec' = [rec EXCEPT ![t] = copy[p]]
             /\ rec[t].status \in Unfinished
  <2>1. rec' = [rec EXCEPT ![job[p]] = copy[p]] /\ pc[p] \in {"start", "refuse", "save"}
    BY <1>2 DEF ExecStart, ExecSave
  <2>2. job[p] = t
    BY <2>1
  <2> QED
    BY <2>1, <2>2 DEF RecordInv, Current
<1>3. ASSUME NEW r \in Runner, PreHold(r) \/ PostHold(r)
      PROVE  /\ job[r] = t
             /\ rec' = [rec EXCEPT ![t].status = "accepted"]
             /\ rec[t].status = "failed" /\ rec[t].result \in Held
  <2>1. /\ rec' = [rec EXCEPT ![job[r]] = [copy[r] EXCEPT !.status = "accepted"]]
        /\ pc[r] \in {"preHold", "hold"} /\ r \in Proc
    BY <1>3 DEF PreHold, PostHold
  <2>2. job[r] = t
    BY <2>1
  <2>3. copy[r] = rec[t] /\ copy[r].status = "failed" /\ copy[r].result \in Held
    BY <2>1, <2>2 DEF RecordInv, Current, HoldsBack
  <2> QED
    BY <2>1, <2>2, <2>3
<1> QED
  BY <1>1, <1>2, <1>3, RecChange

\* Nobody else saves the record of a task that p has a current copy of.
LEMMA OnlyOneSaves ==
    ASSUME Calm, TypeOK, WorkInv, FreshInv, OneExecutor, RecordInv, [Next]_vars,
           NEW p \in Proc, pc'[p] = pc[p],
           pc[p] \in {"refuse", "start", "run", "reload", "save"} \/ HoldsBack(p)
    PROVE  rec'[job[p]] = rec[job[p]]
<1> USE ActorsAreProcsOrEditors DEF TypeOK
<1>1. job[p] \in Task
  BY WorkFacts DEF HoldsBack
<1>2. Executing(p) => rec[job[p]].status # "absent"
  BY <1>1 DEF RecordInv, Known
<1>3. HoldsBack(p) => rec[job[p]].status = "failed" /\ p \in Runner
  BY DEF RecordInv, Current
<1>4. ~HoldsBack(p) => Executing(p) /\ rec[job[p]].status \in Unfinished
  BY DEF RecordInv, Current, Executing
<1>5. ASSUME Create(job[p]) PROVE FALSE
  BY <1>2, <1>3, <1>4, <1>5 DEF Create
<1>6. ASSUME NEW q \in Proc, ExecStart(q) \/ ExecSave(q), job[q] = job[p],
             rec[job[p]].status \in Unfinished
      PROVE  FALSE
  <2>1. Executing(q) /\ pc'[q] # pc[q]
    BY <1>6 DEF ExecStart, ExecSave, Goto, Executing
  <2>2. Executing(p)
    BY <1>3, <1>4, <1>6 DEF Unfinished
  <2>3. reclaims[job[p]] = 0
    BY <1>1 DEF FreshInv
  <2> QED
    BY <1>1, <1>6, <2>1, <2>2, <2>3 DEF OneExecutor
<1>7. ASSUME NEW r \in Runner, PreHold(r) \/ PostHold(r), rec[job[p]].status = "failed"
      PROVE  FALSE
  <2>1. p \in Runner
    BY <1>3, <1>4, <1>7 DEF Unfinished
  <2>2. p = r
    BY <2>1 DEF Calm
  <2> QED
    BY <1>7, <2>2 DEF PreHold, PostHold, Goto
<1> QED
  BY <1>1, <1>5, <1>6, <1>7, SavedOver

\* A caller whose place, task and copy stay has a current copy still.
LEMMA StaysCurrent ==
    ASSUME Calm, TypeOK, WorkInv, FreshInv, OneExecutor, RecordInv, [Next]_vars,
           NEW p \in Proc, pc'[p] = pc[p], job'[p] = job[p], copy'[p] = copy[p]
    PROVE  Current(p)'
<1>1. Current(p)
  BY DEF RecordInv
<1>2. CASE pc[p] \in {"refuse", "start", "run", "reload", "save"} \/ HoldsBack(p)
  <2>1. rec'[job[p]] = rec[job[p]]
    BY <1>2, OnlyOneSaves
  <2> QED
    BY <1>1, <2>1 DEF Current, HoldsBack
<1>3. CASE ~(pc[p] \in {"refuse", "start", "run", "reload", "save"} \/ HoldsBack(p))
  BY <1>3 DEF Current, HoldsBack
<1> QED
  BY <1>2, <1>3

\* A caller that takes a step of its own has a current copy after it.
LEMMA StepsCurrent ==
    ASSUME Calm, TypeOK, WorkInv, RecordInv, NEW p \in Proc,
           \/ ExecLoad(p) \/ ExecStart(p) \/ ExecReload(p) \/ ExecSave(p) \/ ExecRelease(p)
           \/ \E outcome \in Outcome : RunCapability(p, outcome)
           \/ p \in Runner /\ \E t \in Task : RunOperation(p, t)
    PROVE  Current(p)'
<1> USE ActorsAreProcsOrEditors DEF TypeOK, Goto
<1> DEFINE t == job[p]
<1>1. Executing(p) => /\ t \in Task /\ rec[t] \in Record /\ copy[p] \in Record
                      /\ rec[t].status # "absent" /\ Sound(rec[t])
  BY WorkFacts DEF RecordInv, Known, Executing
<1>2. Current(p)
  BY DEF RecordInv
<1>3. CASE ExecLoad(p)
  <2>1. /\ pc[p] = "claimed" /\ rec' = rec /\ job' = job
        /\ rec[t] \in Record /\ rec[t].status # "absent" /\ Sound(rec[t])
    BY <1>1, <1>3 DEF ExecLoad, taskVars, Executing
  <2>2. CASE /\ rec[t].status \in ExecutorTerminal
             /\ copy' = [copy EXCEPT ![p] = rec[t]] /\ pc' = [pc EXCEPT ![p] = "release"]
    BY <2>1, <2>2 DEF Current, HoldsBack, Sound, ExecutorTerminal
  <2>3. CASE /\ rec[t].status \notin ExecutorTerminal
             /\ copy' = [copy EXCEPT ![p] = [rec[t] EXCEPT !.status = "failed",
                                                           !.attempts = More(@)]]
             /\ pc' = [pc EXCEPT ![p] = "refuse"]
    <3>1. rec[t].status \in Unfinished
      BY <2>1, <2>3 DEF Record, Sound, ExecutorTerminal, Unfinished
    <3>2. copy'[p].status = "failed" /\ copy'[p].result = rec[t].result /\ pc'[p] = "refuse"
      BY <2>1, <2>3 DEF Record
    <3> QED
      BY <2>1, <3>1, <3>2 DEF Current, HoldsBack
  <2>4. CASE /\ rec[t].status \notin ExecutorTerminal
             /\ copy' = [copy EXCEPT ![p] = [rec[t] EXCEPT !.status = "running"]]
             /\ pc' = [pc EXCEPT ![p] = "start"]
    <3>1. rec[t].status \in Unfinished
      BY <2>1, <2>4 DEF Record, Sound, ExecutorTerminal, Unfinished
    <3> QED
      BY <2>1, <2>4, <3>1 DEF Current, HoldsBack
  <2> QED
    BY <1>3, <2>2, <2>3, <2>4 DEF ExecLoad
<1>4. CASE ExecStart(p)
  <2>1. /\ pc[p] = "start" /\ pc'[p] = "run" /\ job' = job /\ copy' = copy
        /\ rec' = [rec EXCEPT ![t] = copy[p]] /\ t \in Task /\ rec[t] \in Record
    BY <1>1, <1>4 DEF ExecStart, Executing
  <2>2. copy[p] = [rec[t] EXCEPT !.status = "running"]
    BY <1>2, <2>1 DEF Current
  <2>3. rec'[t].status = "running"
    BY <2>1, <2>2 DEF Record
  <2> QED
    BY <2>1, <2>3 DEF Current, HoldsBack, Unfinished
<1>5. CASE \E outcome \in Outcome : RunCapability(p, outcome)
  <2>1. pc[p] = "run" /\ pc'[p] = "reload" /\ job' = job /\ rec' = rec
    BY <1>5 DEF RunCapability, taskVars
  <2> QED
    BY <1>2, <2>1 DEF Current, HoldsBack, Unfinished
<1>6. CASE ExecReload(p)
  <2>1. /\ pc[p] = "reload" /\ pc'[p] = "save" /\ job' = job /\ rec' = rec
        /\ copy'[p].status = IF copy'[p].result = "ok" THEN "complete" ELSE "failed"
    BY <1>6 DEF ExecReload, taskVars
  <2> QED
    BY <1>2, <2>1 DEF Current, HoldsBack, Unfinished
<1>7. CASE ExecSave(p)
  <2>1. /\ pc[p] \in {"refuse", "save"} /\ pc'[p] = "release" /\ job' = job /\ copy' = copy
        /\ rec' = [rec EXCEPT ![t] = copy[p]] /\ t \in Task
    BY <1>1, <1>7 DEF ExecSave, Executing
  <2>2. rec'[t] = copy[p] /\ (copy[p].result \in Held => copy[p].status = "failed")
    BY <1>2, <2>1, HeldResults DEF Current
  <2> QED
    BY <2>1, <2>2 DEF Current, HoldsBack
<1>8. CASE ExecRelease(p)
  <2>1. /\ pc[p] = "release" /\ rec' = rec
        /\ \/ pc'[p] = "idle"
           \/ /\ pc'[p] = "hold" /\ p \in Runner /\ copy[p].result \in Held
              /\ job'[p] = job[p] /\ copy'[p] = copy[p]
    BY <1>8 DEF ExecRelease, Retryable, taskVars
  <2> QED
    BY <1>2, <2>1 DEF Current, HoldsBack
<1>9. ASSUME p \in Runner, NEW u \in Task, RunOperation(p, u) PROVE Current(p)'
  <2>1. /\ rec' = rec /\ copy'[p] = rec[u] /\ job'[p] = u
        /\ pc'[p] = IF rec[u].status \in Terminal THEN "preHold" ELSE "try"
        /\ rec[u].status \in Terminal => rec[u].result \in Held
    BY <1>9 DEF RunOperation, taskVars, Retryable
  <2>2. Sound(rec[u])
    BY DEF RecordInv
  <2> QED
    BY <1>9, <2>1, <2>2 DEF Current, HoldsBack, Sound, Terminal
<1> QED
  BY <1>3, <1>4, <1>5, <1>6, <1>7, <1>8, <1>9

\* What a step makes of a record.
LEMMA SavedWhat ==
    ASSUME Calm, TypeOK, WorkInv, FreshInv, OneExecutor, RecordInv, [Next]_vars,
           NEW t \in Task, rec'[t] # rec[t]
    PROVE  /\ \A u \in Task \ {t} : rec'[u] = rec[u]
           /\ \/ rec[t].status = "absent" /\ rec'[t] = [rec[t] EXCEPT !.status = "pending"]
              \/ rec[t].status \in Unfinished /\ rec'[t] = [rec[t] EXCEPT !.status = "running"]
              \/ /\ rec[t].status \in Unfinished
                 /\ rec'[t].status = "failed" /\ rec'[t].result = rec[t].result
              \/ /\ rec[t].status = "running"
                 /\ rec'[t].status = IF rec'[t].result = "ok" THEN "complete" ELSE "failed"
              \/ /\ rec[t].status = "failed" /\ rec[t].result \in Held
                 /\ rec'[t] = [rec[t] EXCEPT !.status = "accepted"]
<1> USE DEF TypeOK
<1>1. CASE Create(t)
  BY <1>1 DEF Create
<1>2. ASSUME NEW p \in Proc, ExecStart(p) \/ ExecSave(p), job[p] = t,
             rec' = [rec EXCEPT ![t] = copy[p]], rec[t].status \in Unfinished
      PROVE  /\ \A u \in Task \ {t} : rec'[u] = rec[u]
             /\ \/ rec'[t] = [rec[t] EXCEPT !.status = "running"]
                \/ rec'[t].status = "failed" /\ rec'[t].result = rec[t].result
                \/ /\ rec[t].status = "running"
                   /\ rec'[t].status = IF rec'[t].result = "ok" THEN "complete" ELSE "failed"
  <2>1. Current(p) /\ rec'[t] = copy[p] /\ pc[p] \in {"start", "refuse", "save"}
    BY <1>2 DEF RecordInv, ExecStart, ExecSave
  <2> QED
    BY <1>2, <2>1 DEF Current
<1>3. ASSUME rec' = [rec EXCEPT ![t].status = "accepted"],
             rec[t].status = "failed", rec[t].result \in Held
      PROVE  /\ \A u \in Task \ {t} : rec'[u] = rec[u]
             /\ rec'[t] = [rec[t] EXCEPT !.status = "accepted"]
  BY <1>3
<1> QED
  BY <1>1, <1>2, <1>3, SavedOver

\* A step keeps a record sound, and no record disappears.
LEMMA SavedSound ==
    ASSUME Calm, TypeOK, WorkInv, FreshInv, OneExecutor, RecordInv, [Next]_vars,
           NEW t \in Task
    PROVE  /\ Sound(rec'[t])
           /\ rec[t].status # "absent" => rec'[t].status # "absent"
<1>1. Sound(rec[t]) /\ rec[t] \in Record
  BY DEF RecordInv, TypeOK
<1>2. CASE rec'[t] = rec[t]
  BY <1>1, <1>2
<1>3. CASE rec'[t] # rec[t]
  <2> USE HeldResults DEF Sound, Record, Unfinished
  <2>1. rec'[t] \in Record
    BY TypeStep DEF TypeOK
  <2>2. CASE rec[t].status = "absent" /\ rec'[t] = [rec[t] EXCEPT !.status = "pending"]
    BY <1>1, <2>2
  <2>3. CASE rec[t].status \in Unfinished /\ rec'[t] = [rec[t] EXCEPT !.status = "running"]
    BY <1>1, <2>3
  <2>4. CASE /\ rec[t].status \in Unfinished
             /\ rec'[t].status = "failed" /\ rec'[t].result = rec[t].result
    BY <1>1, <2>1, <2>4
  <2>5. CASE /\ rec[t].status = "running"
             /\ rec'[t].status = IF rec'[t].result = "ok" THEN "complete" ELSE "failed"
    BY <1>1, <2>1, <2>5
  <2>6. CASE /\ rec[t].status = "failed" /\ rec[t].result \in Held
             /\ rec'[t] = [rec[t] EXCEPT !.status = "accepted"]
    BY <1>1, <2>6
  <2> QED
    BY <1>3, <2>2, <2>3, <2>4, <2>5, <2>6, SavedWhat
<1> QED
  BY <1>2, <1>3

\* A caller comes to know of a task by its record.
LEMMA KnownBefore ==
    ASSUME Calm, TypeOK, WorkInv, [Next]_vars,
           NEW p \in Proc, NEW t \in Task, Known(p, t)'
    PROVE  Known(p, t) \/ rec[t].status # "absent"
<1> USE ActorsAreProcsOrEditors, SlotsArePartOfProc DEF TypeOK, Goto, Known, Executing
<1>1. ASSUME NEW u \in Task, Create(u) \/ Expire(u) \/ LocksAge(u)
      PROVE  Known(p, t)
  BY <1>1 DEF Create, Expire, LocksAge
<1>2. ASSUME NEW g \in Pool, NEW s \in g, ListCandidates(g, s)
      PROVE  Known(p, t) \/ rec[t].status # "absent"
  BY <1>2 DEF ListCandidates, Runnable
<1>3. ASSUME NEW q \in Proc, Work(q) PROVE Known(p, t)
  <2>1. ASSUME NEW u \in Task, Try(q, u) \/ TurnedAway(q, u) PROVE Known(p, t)
    BY <2>1 DEF Try, TurnedAway
  <2>2. CASE Unlink(q)
    BY <2>2 DEF Unlink
  <2>3. CASE Claim(q)
    <3>1. lease[q].task \in cand[q]
      BY <2>3, WorkFacts DEF Claim, Acquire
    <3>2. /\ pc' = [pc EXCEPT ![q] = "claimed"]
          /\ job' = [job EXCEPT ![q] = lease[q].task]
          /\ cand' = [cand EXCEPT ![q] = {}]
      BY <2>3 DEF Claim
    <3>3. CASE p = q
      <4>1. cand'[q] = {} /\ job'[q] = lease[q].task
        BY <3>2
      <4> QED
        BY <3>1, <3>3, <4>1
    <3>4. CASE p # q
      BY <3>2, <3>4
    <3> QED
      BY <3>3, <3>4
  <2>4. CASE GiveUp(q)
    BY <2>4 DEF GiveUp
  <2>5. CASE ExecRelease(q)
    <3>1. /\ pc'[q] \in {"hold", "idle"} /\ cand' = cand
          /\ \A b \in Actor \ {q} : pc'[b] = pc[b] /\ job'[b] = job[b]
      BY <2>5 DEF ExecRelease
    <3>2. CASE p = q
      BY <3>1, <3>2
    <3>3. CASE p # q
      BY <3>1, <3>3
    <3> QED
      BY <3>2, <3>3
  <2>6. CASE Execute(q) /\ ~ExecRelease(q)
    <3>1. /\ Executing(q) /\ \A b \in Actor \ {q} : pc'[b] = pc[b]
          /\ job' = job /\ cand' = cand
      BY <2>6, ExecuteFrame DEF Execute
    <3> QED
      BY <3>1
  <2> QED
    BY <1>3, <2>1, <2>2, <2>3, <2>4, <2>5, <2>6 DEF Work
<1>4. ASSUME NEW q \in Proc PROVE ~ExecRaises(q)
  BY DEF ExecRaises, Raises, Calm
<1>5. ASSUME NEW r \in Runner, RunnerStep(r)
      PROVE  Known(p, t) \/ rec[t].status # "absent"
  <2>1. ASSUME NEW u \in Task, RunOperation(r, u)
        PROVE  Known(p, t) \/ rec[t].status # "absent"
    <3>1. /\ rec[u].status # "absent" /\ cand' = [cand EXCEPT ![r] = {u}]
          /\ pc'[r] \in {"preHold", "try"}
          /\ \A b \in Actor \ {r} : pc'[b] = pc[b] /\ job'[b] = job[b]
      BY <2>1 DEF RunOperation
    <3>2. CASE p = r
      BY <3>1, <3>2
    <3>3. CASE p # r
      BY <3>1, <3>3
    <3> QED
      BY <3>2, <3>3
  <2>2. CASE PreHold(r) \/ PostHold(r)
    <3>1. /\ pc'[r] \in {"idle", "try"} /\ cand' = cand
          /\ \A b \in Actor \ {r} : pc'[b] = pc[b] /\ job'[b] = job[b]
      BY <2>2 DEF PreHold, PostHold
    <3>2. CASE p = r
      BY <3>1, <3>2
    <3>3. CASE p # r
      BY <3>1, <3>3
    <3> QED
      BY <3>2, <3>3
  <2> QED
    BY <1>5, <2>1, <2>2 DEF RunnerStep, HoldRaises, Raises, Calm
<1>6. ASSUME NEW dead, NEW pools, Crash(dead, pools) PROVE Known(p, t)
  BY <1>6 DEF Crash
<1>7. CASE UNCHANGED vars
  BY <1>7 DEF vars
<1> QED
  BY <1>1, <1>2, <1>3, <1>4, <1>5, <1>6, <1>7 DEF Next, CrashPool, CrashApi, Calm

\* So records, copies and what callers know of them go on to agree.
LEMMA RecordStep ==
    ASSUME Calm, TypeOK, WorkInv, FreshInv, OneExecutor, RecordInv, [Next]_vars
    PROVE  RecordInv'
<1>1. ASSUME NEW t \in Task PROVE Sound(rec[t])'
  BY SavedSound
<1>2. ASSUME NEW p \in Proc PROVE Current(p)'
  <2>1. CASE pc'[p] \in {"idle", "try", "claimed"}
    BY <2>1 DEF Current, HoldsBack
  <2>2. CASE pc'[p] = pc[p] /\ job'[p] = job[p] /\ copy'[p] = copy[p]
    BY <2>2, StaysCurrent
  <2> QED
    BY <2>1, <2>2, ProcChange, StepsCurrent
<1>3. ASSUME NEW p \in Proc, NEW t \in Task, Known(p, t)'
      PROVE  rec'[t].status # "absent"
  <2>1. rec[t].status # "absent"
    BY <1>3, KnownBefore DEF RecordInv
  <2> QED
    BY <2>1, SavedSound
<1> QED
  BY <1>1, <1>2, <1>3 DEF RecordInv

-----------------------------------------------------------------------------
\* A task of which a run succeeded is complete, or its executor is about to save that,
\* or died before it could: then its lock is still there, and nobody's.
Succeeding(p, t) ==
    /\ job[p] = t /\ pc[p] \in {"reload", "save"} /\ copy[p].result = "ok"

Orphaned(t) == Exists(t) /\ Holders(t) = {}

DoneInv ==
    \A t \in Task : done[t] =>
        \/ rec[t].status = "complete"
        \/ \E p \in Proc : Succeeding(p, t)
        \/ Orphaned(t)

\* A lock that no process holds stays so: without a stale lock nobody removes it.
LEMMA OrphanStays ==
    ASSUME TypeOK, FreshInv, [LeaseNext]_leaseVars, NEW t \in Task, Orphaned(t)
    PROVE  Orphaned(t)'
<1> USE DEF TypeOK, LeaseTypeOK, Orphaned, Exists, Holders, Holds
<1>1. ASSUME NEW p \in Proc, LeaseStep(p) PROVE Orphaned(t)'
  <2>1. ASSUME NEW u \in Task, Look(p, u) PROVE Orphaned(t)'
    BY <2>1 DEF Look, LookAbsent, LookDenied, LookStale, leaseVars
  <2>2. ~Reclaim(p)
    BY DEF Reclaim, FreshInv
  <2>3. CASE Acquire(p)
    <3>1. /\ lease[p].task # t
          /\ lock' = [lock EXCEPT ![lease[p].task] = [owner |-> p, stale |-> FALSE]]
          /\ lease' = [lease EXCEPT ![p].at = "held"]
      BY <2>3 DEF Acquire
    <3>2. lock'[t] = lock[t] /\ ~Holds(p, t)'
      BY <3>1
    <3>3. \A q \in Proc \ {p} : lease'[q] = lease[q]
      BY <3>1
    <3> QED
      BY <3>2, <3>3
  <2>4. CASE LoseRace(p)
    BY <2>4 DEF LoseRace, Free
  <2>5. CASE Release(p)
    <3>1. lease[p].at = "held" /\ lease[p].task # t
      BY <2>5 DEF Release
    <3> QED
      BY <2>5, <3>1 DEF Release, Free
  <2> QED
    BY <1>1, <2>1, <2>2, <2>3, <2>4, <2>5 DEF LeaseStep
<1>2. ASSUME NEW dead, LeaseCrash(dead) PROVE Orphaned(t)'
  BY <1>2 DEF LeaseCrash, Free
<1>3. ASSUME NEW u \in Task, LockAges(u) PROVE Orphaned(t)'
  BY <1>3 DEF LockAges
<1>4. CASE UNCHANGED leaseVars
  BY <1>4 DEF leaseVars
<1> QED
  BY <1>1, <1>2, <1>3, <1>4 DEF LeaseNext

\* A task comes to be done by a run that leaves its executor about to save it.
LEMMA DoneChange ==
    ASSUME Calm, TypeOK, WorkInv, [Next]_vars, NEW t \in Task, done'[t], ~done[t]
    PROVE  \E p \in Proc : Succeeding(p, t)'
<1> USE ActorsAreProcsOrEditors DEF TypeOK
<1>1. ASSUME NEW u \in Task, Create(u) \/ Expire(u) \/ LocksAge(u) PROVE FALSE
  BY <1>1 DEF Create, Expire, LocksAge
<1>2. ASSUME NEW g \in Pool, NEW s \in g, ListCandidates(g, s) PROVE FALSE
  BY <1>2 DEF ListCandidates
<1>3. ASSUME NEW p \in Proc, Work(p) PROVE Succeeding(p, t)'
  <2>1. ASSUME NEW outcome \in Outcome, RunCapability(p, outcome)
        PROVE  Succeeding(p, t)'
    <3>1. job[p] = t /\ outcome = "ok"
      BY <2>1 DEF RunCapability
    <3>2. job' = job /\ pc'[p] = "reload" /\ copy'[p].result = "ok"
      BY <2>1, <3>1 DEF RunCapability, Goto, Record
    <3> QED
      BY <3>1, <3>2 DEF Succeeding
  <2>2. ASSUME \A outcome \in Outcome : ~RunCapability(p, outcome)
        PROVE  done' = done
    BY <1>3, <2>2 DEF Work, Execute, Try, TurnedAway, Unlink, Claim, GiveUp, ExecLoad,
       ExecStart, ExecReload, ExecSave, ExecRelease
  <2> QED
    BY <2>1, <2>2
<1>4. ASSUME NEW p \in Proc PROVE ~ExecRaises(p)
  BY DEF ExecRaises, Raises, Calm
<1>5. ASSUME NEW r \in Runner, RunnerStep(r) PROVE FALSE
  BY <1>5 DEF RunnerStep, RunOperation, PreHold, PostHold, HoldRaises, Raises, Calm
<1>6. ASSUME NEW dead, NEW pools, Crash(dead, pools) PROVE FALSE
  BY <1>6 DEF Crash
<1>7. CASE UNCHANGED vars
  BY <1>7 DEF vars
<1> QED
  BY <1>1, <1>2, <1>3, <1>4, <1>5, <1>6, <1>7 DEF Next, CrashPool, CrashApi, Calm

\* If the executor dies instead, it leaves its lock.
LEMMA DeathOrphans ==
    ASSUME TypeOK, WorkInv, FreshInv, UnreclaimedIsExclusive, NEW t \in Task,
           NEW p \in Proc, Succeeding(p, t), Dies
    PROVE  Succeeding(p, t)' \/ Orphaned(t)'
<1> USE ActorsAreProcsOrEditors DEF TypeOK, LeaseTypeOK
<1>1. Holds(p, t) /\ reclaims[t] = 0
  BY WorkFacts DEF Succeeding, Executing, FreshInv
<1>2. Exists(t) /\ \A q \in Proc : Holds(q, t) => q = p
  BY <1>1, LeaseAssumption DEF UnreclaimedIsExclusive, Exclusive, Holders, Exists
<1>3. ASSUME NEW dead, NEW pools, Crash(dead, pools)
      PROVE  Succeeding(p, t)' \/ Orphaned(t)'
  <2>1. CASE p \in dead
    BY <1>2, <1>3, <2>1 DEF Crash, LeaseCrash, Free, Orphaned, Exists, Holders, Holds
  <2>2. CASE p \notin dead
    BY <1>3, <2>2 DEF Crash, Succeeding
  <2> QED
    BY <2>1, <2>2
<1> QED
  BY <1>3 DEF Dies, CrashApi, CrashPool

\* If it lives it saves it, before anybody else saves the record.
LEMMA DoneStep ==
    ASSUME Calm, TypeOK, WorkInv, FreshInv, UnreclaimedIsExclusive, OneExecutor,
           RecordInv, DoneInv, [Next]_vars
    PROVE  DoneInv'
<1> SUFFICES ASSUME NEW t \in Task, done'[t]
             PROVE  \/ rec'[t].status = "complete"
                    \/ \E p \in Proc : Succeeding(p, t)'
                    \/ Orphaned(t)'
  BY DEF DoneInv
<1>1. CASE ~done[t]
  BY <1>1, DoneChange
<1>2. CASE rec[t].status = "complete"
  BY <1>2, SavedWhat DEF Unfinished
<1>3. ASSUME NEW p \in Proc, Succeeding(p, t)
      PROVE  rec'[t].status = "complete" \/ Succeeding(p, t)' \/ Orphaned(t)'
  <2> USE ActorsAreProcsOrEditors DEF TypeOK, Goto
  <2>1. pc[p] \in {"reload", "save"} /\ job[p] = t /\ copy[p].result = "ok"
    BY <1>3 DEF Succeeding
  <2>2. CASE pc'[p] = pc[p] /\ job'[p] = job[p] /\ copy'[p] = copy[p]
    BY <1>3, <2>2 DEF Succeeding
  <2>3. CASE ExecReload(p)
    <3>1. pc'[p] = "save" /\ job' = job /\ copy'[p].result = copy[p].result
      BY <2>3 DEF ExecReload
    <3> QED
      BY <2>1, <3>1 DEF Succeeding
  <2>4. CASE ExecSave(p)
    <3>1. rec'[t] = copy[p] /\ pc[p] = "save"
      BY <2>1, <2>4 DEF ExecSave
    <3>2. copy[p].status = "complete"
      <4>1. Current(p)
        BY DEF RecordInv
      <4> QED
        BY <2>1, <3>1, <4>1 DEF Current
    <3> QED
      BY <3>1, <3>2
  <2>5. pc[p] \notin Outside \cup {"idle", "claimed", "start", "run", "release"}
    BY <2>1 DEF Outside
  <2>6. CASE Dies
    BY <1>3, <2>6, DeathOrphans
  <2> QED
    BY <2>2, <2>3, <2>4, <2>5, <2>6, ProcChange
       DEF ExecLoad, ExecStart, ExecRelease, RunCapability, RunOperation, Outside
<1>4. CASE Orphaned(t)
  BY <1>4, LeaseStepOfNext, OrphanStays
<1> QED
  BY <1>1, <1>2, <1>3, <1>4 DEF DoneInv

-----------------------------------------------------------------------------
CalmInv == TypeOK /\ WorkInv /\ FreshInv /\ RecordInv /\ DoneInv

\* In calm conditions records and the callers' copies of them agree.
THEOREM CalmInvariant == ASSUME Calm PROVE Spec => [](CalmInv /\ OneExecutor)
<1>1. Init => FreshInv /\ RecordInv /\ DoneInv
  <2> SUFFICES ASSUME Init PROVE FreshInv /\ RecordInv /\ DoneInv
    OBVIOUS
  <2> USE ActorsAreProcsOrEditors
  <2>1. FreshInv
    BY DEF Init, LeaseInit, FreshInv, NoLock, Free
  <2>2. RecordInv
    BY HeldResults DEF Init, NoRecord, RecordInv, Sound, Current, HoldsBack, Known, Executing
  <2>3. DoneInv
    BY DEF Init, DoneInv
  <2> QED
    BY <2>1, <2>2, <2>3
<1>2. /\ TypeOK /\ WorkInv /\ FreshInv /\ RecordInv /\ DoneInv
      /\ OneExecutor /\ UnreclaimedIsExclusive /\ [Next]_vars
      => (FreshInv /\ RecordInv /\ DoneInv)'
  BY LeaseStepOfNext, FreshStep, RecordStep, DoneStep
<1>3. Spec => []((TypeOK /\ WorkInv) /\ OneExecutor /\ UnreclaimedIsExclusive)
  BY TypeCorrect, OneExecutorAtATime, ImplementsLease, UnreclaimedExclusive, PTL
<1>4. Spec => [](FreshInv /\ RecordInv /\ DoneInv)
  BY <1>1, <1>2, <1>3, PTL DEF Spec
<1>5. (TypeOK /\ WorkInv) /\ FreshInv /\ RecordInv /\ DoneInv => CalmInv
  BY DEF CalmInv
<1> QED
  BY <1>3, <1>4, <1>5, PTL

\* One run request at a time, and no cancel, patch, failed save or aging lock: the
\* capability of a task that succeeded once is not run again, whichever pools and
\* run requests come to it, however often governance held it before, and whoever
\* dies, even between the success and its save.
THEOREM SuccessIsNotRepeated == ASSUME Calm PROVE Spec => NoRunAfterSuccess
<1>1. ASSUME CalmInv, OneExecutor, NEW p \in Proc, NEW outcome \in Outcome,
             RunCapability(p, outcome)
      PROVE  ~done[job[p]]
  <2>1. pc[p] = "run" /\ job[p] \in Task /\ Executing(p)
    BY <1>1, WorkFacts, ActorsAreProcsOrEditors DEF CalmInv, RunCapability, Executing
  <2>2. rec[job[p]].status = "running" /\ reclaims[job[p]] = 0
    BY <1>1, <2>1 DEF CalmInv, RecordInv, Current, FreshInv
  <2>3. ASSUME NEW q \in Proc, Succeeding(q, job[p]) PROVE FALSE
    <3>1. Executing(q) /\ job[q] = job[p] /\ pc[q] # "run"
      BY <2>3 DEF Succeeding, Executing
    <3> QED
      BY <1>1, <2>1, <2>2, <3>1 DEF OneExecutor
  <2>4. ~Orphaned(job[p])
    BY <1>1, <2>1, WorkFacts DEF CalmInv, Orphaned, Holders
  <2> QED
    BY <1>1, <2>1, <2>2, <2>3, <2>4 DEF CalmInv, DoneInv
<1>2. CalmInv /\ OneExecutor =>
        \A p \in Proc : \A outcome \in Outcome :
            RunCapability(p, outcome) => ~done[job[p]]
  BY <1>1
<1> QED
  BY <1>2, CalmInvariant, PTL DEF NoRunAfterSuccess

\* In the same conditions the records implement the lifecycle of TaskLifecycle: to an
\* observer of the status an operation is queued, started, finished or held, a held one
\* shows what governance said until an attempt ends, and one that succeeded or failed
\* stays so.
THEOREM ImplementsTaskLifecycle == ASSUME Calm PROVE Spec => ImplementsLifecycle
<1> DEFINE shown == [t \in Task |-> Observed(t)]
           held  == [t \in Task |-> Retryable(rec[t])]
<1>1. Init => /\ shown = [t \in Task |-> "absent"]
              /\ held = [t \in Task |-> FALSE]
  <2>1. ASSUME Init, NEW t \in Task
        PROVE  Observed(t) = "absent" /\ Retryable(rec[t]) = FALSE
    <3>1. rec[t].status = "absent" /\ rec[t].result = "none"
      BY <2>1 DEF Init, NoRecord
    <3> QED
      BY <3>1, HeldResults DEF Observed, ToOperationStatus, Retryable
  <2> QED
    BY <2>1
<1>2. ASSUME CalmInv, OneExecutor, [Next]_vars
      PROVE  Lifecycle!Next \/ UNCHANGED <<shown, held>>
  <2>1. CASE \A t \in Task : rec'[t] = rec[t]
    BY <2>1 DEF Observed, Retryable
  <2>2. ASSUME NEW t \in Task, rec'[t] # rec[t]
        PROVE  Lifecycle!Next \/ UNCHANGED <<shown, held>>
    <3>1. Sound(rec[t]) /\ rec[t] \in Record /\ rec'[t] \in Record
      BY <1>2, TypeStep DEF CalmInv, TypeOK, RecordInv
    <3>2. \A u \in Task \ {t} : rec'[u] = rec[u]
      BY <1>2, <2>2, SavedWhat DEF CalmInv
    <3>3. /\ shown' = [shown EXCEPT ![t] = Observed(t)']
          /\ held' = [held EXCEPT ![t] = Retryable(rec[t])']
      BY <3>2 DEF Observed, Retryable
    <3>4. \/ Observed(t)' = Observed(t) /\ Retryable(rec[t])' = Retryable(rec[t])
          \/ Observed(t) = "absent" /\ Observed(t)' = "queued" /\ ~Retryable(rec[t])'
          \/ /\ Observed(t) = "queued" /\ ~Retryable(rec[t])
             /\ Observed(t)' \in {"running", "failed"} /\ ~Retryable(rec[t])'
          \/ /\ Observed(t) = "running" \/ Retryable(rec[t])
             /\ \/ Observed(t)' \in {"succeeded", "failed"} /\ ~Retryable(rec[t])'
                \/ Observed(t)' \in {"queued", "blocked"} /\ Retryable(rec[t])'
      <4> USE HeldResults
          DEF Observed, ToOperationStatus, Retryable, Sound, Record, Unfinished, Outcome
      <4>1. CASE rec[t].status = "absent" /\ rec'[t] = [rec[t] EXCEPT !.status = "pending"]
        BY <3>1, <4>1
      <4>2. CASE rec[t].status \in Unfinished /\ rec'[t] = [rec[t] EXCEPT !.status = "running"]
        BY <3>1, <4>2
      <4>3. CASE /\ rec[t].status \in Unfinished
                 /\ rec'[t].status = "failed" /\ rec'[t].result = rec[t].result
        BY <3>1, <4>3
      <4>4. CASE /\ rec[t].status = "running"
                 /\ rec'[t].status = IF rec'[t].result = "ok" THEN "complete" ELSE "failed"
        BY <3>1, <4>4
      <4>5. CASE /\ rec[t].status = "failed" /\ rec[t].result \in Held
                 /\ rec'[t] = [rec[t] EXCEPT !.status = "accepted"]
        BY <3>1, <4>5
      <4> QED
        BY <1>2, <2>2, <4>1, <4>2, <4>3, <4>4, <4>5, SavedWhat DEF CalmInv
    <3>5. Retryable(rec[t]) \in BOOLEAN /\ Retryable(rec[t])' \in BOOLEAN
      BY DEF Retryable
    <3> QED
      BY <3>3, <3>4, <3>5 DEF Lifecycle!Next, Lifecycle!Submit, Lifecycle!Start, Lifecycle!Expire,
         Lifecycle!Finish, Lifecycle!Retry, Lifecycle!Ends, Lifecycle!Becomes
  <2> QED
    BY <2>1, <2>2
<1>3. CalmInv /\ OneExecutor /\ [Next]_vars => [Lifecycle!Next]_<<shown, held>>
  BY <1>2
<1> QED
  BY <1>1, <1>3, CalmInvariant, PTL DEF Spec, ImplementsLifecycle, Lifecycle!Spec, Lifecycle!Init
=============================================================================
