------------------------------ MODULE TaskLease ------------------------------
(***************************************************************************)
(* The lock file that fences the execution of one task record              *)
(* (agent/executor.py: _try_acquire_lock and _release_lock).               *)
(*                                                                         *)
(* data/tasks/<task_id>/lock is created with O_CREAT|O_EXCL, names its     *)
(* creator, is never renewed, and may be removed by anybody who finds it   *)
(* older than stale_seconds.  Each system call that another process can    *)
(* get in between of is an action: the look (exists and stat), the unlink  *)
(* of a lock judged stale, the exclusive create, the release.              *)
(*                                                                         *)
(* A process is one caller of _try_acquire_lock: a slot of the worker      *)
(* pool, a request thread that runs an operation, a cmd_work loop.         *)
(***************************************************************************)
EXTENDS Naturals

CONSTANTS
    Task,           \* task ids
    Proc,           \* callers of _try_acquire_lock
    NoProc,         \* owner of no lock
    NoTask,         \* task of an idle process
    Aging           \* which locks get to be older than stale_seconds: "never"
                    \* any; only "abandoned" ones, whose creator died; or "any",
                    \* those of a holder still at work included

ASSUME LeaseAssumption ==
    /\ NoProc \notin Proc
    /\ NoTask \notin Task
    /\ Aging \in {"never", "abandoned", "any"}

VARIABLES
    lock,      \* lock[t]: the lock file of t, its creator and its age
    lease,     \* lease[p]: how far p is in taking or holding a lock
    reclaims   \* reclaims[t]: the "reclaimed" lease receipts of t, at most Many

leaseVars == <<lock, lease, reclaims>>

-----------------------------------------------------------------------------
NoLock == [owner |-> NoProc, stale |-> FALSE]
Free   == [at |-> "idle", task |-> NoTask]

\* Receipts are counted up to "two or more".
Many == 2

Exists(t) == lock[t].owner # NoProc

Holds(p, t)  == lease[p] = [at |-> "held", task |-> t]
Holders(t)   == {p \in Proc : Holds(p, t)}

LeaseTypeOK ==
    /\ lock \in [Task -> [owner : Proc \cup {NoProc}, stale : BOOLEAN]]
    /\ lease \in [Proc -> [at   : {"idle", "sawStale", "clear", "held"},
                           task : Task \cup {NoTask}]]
    /\ reclaims \in [Task -> 0..Many]

LeaseInit ==
    /\ lock = [t \in Task |-> NoLock]
    /\ lease = [p \in Proc |-> Free]
    /\ reclaims = [t \in Task |-> 0]

-----------------------------------------------------------------------------
\* path.exists() is false: go straight to the exclusive create.
LookAbsent(p, t) ==
    /\ lease[p] = Free
    /\ ~Exists(t)
    /\ lease' = [lease EXCEPT ![p] = [at |-> "clear", task |-> t]]
    /\ UNCHANGED <<lock, reclaims>>

\* A lock within stale_seconds, or one that somebody removes between the exists
\* and the stat, whose error is caught: the call returns False.
LookDenied(p, t) ==
    /\ lease[p] = Free
    /\ Exists(t)
    /\ \/ ~lock[t].stale
       \/ \E q \in Proc : lease[q].task = t /\ lease[q].at \in {"sawStale", "held"}
    /\ UNCHANGED leaseVars

\* Mutant: the age of the lock is not compared with stale_seconds.
LookAnyAge(p, t) ==
    /\ lease[p] = Free
    /\ Exists(t)
    /\ lease' = [lease EXCEPT ![p] = [at |-> "sawStale", task |-> t]]
    /\ UNCHANGED <<lock, reclaims>>

\* A lock older than stale_seconds: the caller will unlink it.
LookStale(p, t) ==
    /\ lease[p] = Free
    /\ Exists(t)
    /\ lock[t].stale
    /\ lease' = [lease EXCEPT ![p] = [at |-> "sawStale", task |-> t]]
    /\ UNCHANGED <<lock, reclaims>>

\* unlink(missing_ok=True) removes whatever lock file is there by now.
Reclaim(p) ==
    /\ lease[p].at = "sawStale"
    /\ LET t == lease[p].task
       IN  /\ lock' = [lock EXCEPT ![t] = NoLock]
           /\ reclaims' = [reclaims EXCEPT ![t] = IF @ < Many THEN @ + 1 ELSE @]
    /\ lease' = [lease EXCEPT ![p].at = "clear"]

\* Mutant: the lock file is opened without O_EXCL.
AcquireShared(p) ==
    /\ lease[p].at = "clear"
    /\ lock' = [lock EXCEPT ![lease[p].task] = [owner |-> p, stale |-> FALSE]]
    /\ lease' = [lease EXCEPT ![p].at = "held"]
    /\ UNCHANGED reclaims

\* O_CREAT|O_EXCL succeeds: the lock is p's and fresh.
Acquire(p) ==
    /\ lease[p].at = "clear"
    /\ ~Exists(lease[p].task)
    /\ lock' = [lock EXCEPT ![lease[p].task] = [owner |-> p, stale |-> FALSE]]
    /\ lease' = [lease EXCEPT ![p].at = "held"]
    /\ UNCHANGED reclaims

\* O_CREAT|O_EXCL fails: somebody else created the lock since the look.
LoseRace(p) ==
    /\ lease[p].at = "clear"
    /\ Exists(lease[p].task)
    /\ lease' = [lease EXCEPT ![p] = Free]
    /\ UNCHANGED <<lock, reclaims>>

\* _release_lock unlinks the file; it does not compare the owner with the caller.
Release(p) ==
    /\ lease[p].at = "held"
    /\ lock' = [lock EXCEPT ![lease[p].task] = NoLock]
    /\ lease' = [lease EXCEPT ![p] = Free]
    /\ UNCHANGED reclaims

\* stale_seconds go by since the lock file was written.
LockAges(t) ==
    /\ Exists(t)
    /\ ~lock[t].stale
    /\ \/ Aging = "any"
       \/ Aging = "abandoned" /\ ~Holds(lock[t].owner, t)
    /\ lock' = [lock EXCEPT ![t].stale = TRUE]
    /\ UNCHANGED <<lease, reclaims>>

\* An operating system process dies with its callers: what they knew is gone,
\* their lock files stay.
LeaseCrash(dead) ==
    /\ lease' = [p \in Proc |-> IF p \in dead THEN Free ELSE lease[p]]
    /\ UNCHANGED <<lock, reclaims>>

Look(p, t) == LookAbsent(p, t) \/ LookDenied(p, t) \/ LookStale(p, t)

LeaseStep(p) ==
    \/ \E t \in Task : Look(p, t)
    \/ Reclaim(p) \/ Acquire(p) \/ LoseRace(p) \/ Release(p)

LeaseNext ==
    \/ \E p \in Proc : LeaseStep(p)
    \/ \E dead \in SUBSET Proc : LeaseCrash(dead)
    \/ \E t \in Task : LockAges(t)

LeaseSpec == LeaseInit /\ [][LeaseNext]_leaseVars

-----------------------------------------------------------------------------
\* At most one process is inside the execution of a task.
Exclusive(t) == \A p, q \in Holders(t) : p = q

\* The lock file fences the execution of a task for as long as no stale lock of
\* the task was reclaimed: one holder, and the file on disk is the holder's.
\* (_try_acquire_lock's O_EXCL create against LookAbsent of several callers.)
UnreclaimedIsExclusive ==
    \A t \in Task : reclaims[t] = 0 =>
        /\ Exclusive(t)
        /\ \A p \in Holders(t) : lock[t].owner = p

\* If only the locks of dead processes grow stale, the first reclaim is safe too:
\* one crash is recovered from.  (It takes a second caller that judged the same
\* lock stale, and unlinks the lock of the first one, to lose exclusion.)
FirstReclaimIsSafe ==
    \A t \in Task : reclaims[t] <= 1 => Exclusive(t)
=============================================================================
