--------------------------- MODULE TaskLeaseProofs ---------------------------
(***************************************************************************)
(* Proofs about the task lock file, for any set of tasks and callers.      *)
(***************************************************************************)
EXTENDS TaskLease, TLAPS

\* No step of a caller, a crash or time leaves a variable outside its type.
LEMMA LeaseTypeStep ==
    ASSUME LeaseTypeOK, [LeaseNext]_leaseVars PROVE LeaseTypeOK'
<1> USE DEF LeaseTypeOK
<1>1. ASSUME NEW p \in Proc, NEW t \in Task, Look(p, t) PROVE LeaseTypeOK'
  BY <1>1 DEF Look, LookAbsent, LookDenied, LookStale, leaseVars
<1>2. ASSUME NEW p \in Proc, Reclaim(p) PROVE LeaseTypeOK'
  <2> DEFINE t == lease[p].task
  <2>1. reclaims' \in [Task -> 0..Many]
    <3>1. reclaims' = [reclaims EXCEPT ![t] = IF @ < Many THEN @ + 1 ELSE @]
      BY <1>2 DEF Reclaim
    <3>2. t \in Task => (IF reclaims[t] < Many THEN reclaims[t] + 1 ELSE reclaims[t]) \in 0..Many
      BY DEF Many
    <3>3. QED
      BY <3>1, <3>2
  <2>2. QED
    BY <2>1, <1>2 DEF Reclaim, NoLock
<1>3. ASSUME NEW p \in Proc, Acquire(p) PROVE LeaseTypeOK'
  BY <1>3 DEF Acquire
<1>4. ASSUME NEW p \in Proc, LoseRace(p) PROVE LeaseTypeOK'
  BY <1>4 DEF LoseRace, Free
<1>5. ASSUME NEW p \in Proc, Release(p) PROVE LeaseTypeOK'
  BY <1>5 DEF Release, Free, NoLock
<1>6. ASSUME NEW dead \in SUBSET Proc, LeaseCrash(dead) PROVE LeaseTypeOK'
  BY <1>6 DEF LeaseCrash, Free
<1>7. ASSUME NEW t \in Task, LockAges(t) PROVE LeaseTypeOK'
  BY <1>7 DEF LockAges
<1>8. CASE UNCHANGED leaseVars
  BY <1>8 DEF leaseVars
<1>9. QED
  BY <1>1, <1>2, <1>3, <1>4, <1>5, <1>6, <1>7, <1>8 DEF LeaseNext, LeaseStep

\* Every variable keeps its type: what the lock file, and a caller of
\* _try_acquire_lock, can be.
THEOREM LeaseTypeCorrect == LeaseSpec => []LeaseTypeOK
<1>1. LeaseInit => LeaseTypeOK
  BY DEF LeaseInit, LeaseTypeOK, NoLock, Free, Many
<1>2. QED
  BY <1>1, LeaseTypeStep, PTL DEF LeaseSpec

-----------------------------------------------------------------------------
\* A look changes what the caller knows, and no lock.
LEMMA LookEffect ==
    ASSUME LeaseTypeOK, NEW p \in Proc, NEW u \in Task, Look(p, u)
    PROVE  /\ lock' = lock /\ reclaims' = reclaims
           /\ \/ lease' = lease
              \/ lease' = [lease EXCEPT ![p] = [at |-> "clear", task |-> u]]
              \/ /\ lease' = [lease EXCEPT ![p] = [at |-> "sawStale", task |-> u]]
                 /\ Exists(u) /\ lock[u].stale
BY DEF Look, LookAbsent, LookDenied, LookStale, leaseVars

\* One step keeps the lock file a fence of the task's execution: an exclusive
\* create finds no holder, and only a reclaim removes the lock of another one.
LEMMA UnreclaimedStep ==
    ASSUME LeaseTypeOK, UnreclaimedIsExclusive, [LeaseNext]_leaseVars
    PROVE  UnreclaimedIsExclusive'
<1> USE DEF LeaseTypeOK, UnreclaimedIsExclusive, Exclusive, Holders, Holds
<1> DEFINE Fenced(t) == /\ \A p, q \in Holders(t)' : p = q
                        /\ \A p \in Holders(t)' : lock'[t].owner = p
<1> SUFFICES ASSUME NEW t \in Task, reclaims'[t] = 0 PROVE Fenced(t)
  OBVIOUS
<1>1. ASSUME NEW p \in Proc, NEW u \in Task, Look(p, u) PROVE Fenced(t)
  <2>1. lock' = lock /\ reclaims' = reclaims
    BY <1>1, LookEffect
  <2>2. \A q \in Proc : Holds(q, t)' => Holds(q, t)
    BY <1>1, LookEffect
  <2>3. QED
    BY <2>1, <2>2
<1>2. ASSUME NEW p \in Proc, Reclaim(p) PROVE Fenced(t)
  <2>1. lease[p].task # t
    BY <1>2 DEF Reclaim, Many
  <2>2. lock'[t] = lock[t] /\ reclaims'[t] = reclaims[t] /\ Holders(t)' = Holders(t)
    BY <1>2, <2>1 DEF Reclaim
  <2>3. QED
    BY <2>2
<1>3. ASSUME NEW p \in Proc, Acquire(p) PROVE Fenced(t)
  <2>1. CASE lease[p].task = t
    <3>1. Holders(t) = {}
      BY <1>3, <2>1, LeaseAssumption DEF Acquire, Exists
    <3>2. Holders(t)' = {p}
      BY <1>3, <2>1, <3>1 DEF Acquire
    <3>3. QED
      BY <1>3, <2>1, <3>2 DEF Acquire
  <2>2. CASE lease[p].task # t
    BY <1>3, <2>2 DEF Acquire
  <2>3. QED
    BY <2>1, <2>2
<1>4. ASSUME NEW p \in Proc, LoseRace(p) PROVE Fenced(t)
  BY <1>4 DEF LoseRace, Free
<1>5. ASSUME NEW p \in Proc, Release(p) PROVE Fenced(t)
  BY <1>5 DEF Release, Free
<1>6. ASSUME NEW dead \in SUBSET Proc, LeaseCrash(dead) PROVE Fenced(t)
  BY <1>6 DEF LeaseCrash, Free
<1>7. ASSUME NEW u \in Task, LockAges(u) PROVE Fenced(t)
  BY <1>7 DEF LockAges
<1>8. CASE UNCHANGED leaseVars
  BY <1>8 DEF leaseVars
<1>9. QED
  BY <1>1, <1>2, <1>3, <1>4, <1>5, <1>6, <1>7, <1>8 DEF LeaseNext, LeaseStep

\* Until a stale lock of the task is reclaimed the lock file admits one holder,
\* whose own file it is, whatever locks grow stale (_try_acquire_lock).
THEOREM UnreclaimedExclusive == LeaseSpec => []UnreclaimedIsExclusive
<1>1. LeaseInit => UnreclaimedIsExclusive
  BY DEF LeaseInit, Free, UnreclaimedIsExclusive, Exclusive, Holders, Holds
<1>2. QED
  BY <1>1, UnreclaimedStep, LeaseTypeCorrect, PTL DEF LeaseSpec

-----------------------------------------------------------------------------
\* Why the first reclaim is safe when a lock outlives stale_seconds only if its
\* creator is gone: until then a lock judged stale is still there and stale.
ReclaimInv ==
    \A t \in Task :
        /\ reclaims[t] <= 1 => /\ Exclusive(t)
                               /\ \A p \in Holders(t) : lock[t].owner = p
        /\ reclaims[t] = 0 =>
              \A p \in Proc : lease[p] = [at |-> "sawStale", task |-> t] =>
                                  Exists(t) /\ lock[t].stale
        /\ Exists(t) /\ lock[t].stale => ~Holds(lock[t].owner, t)

\* One step keeps it: the reclaim that is the first finds the lock of a dead process.
LEMMA ReclaimStep ==
    ASSUME Aging # "any", LeaseTypeOK, ReclaimInv, [LeaseNext]_leaseVars
    PROVE  ReclaimInv'
<1> USE DEF LeaseTypeOK, ReclaimInv, Exclusive, Holders, Holds, Exists, NoLock, Free
<1> DEFINE Saw(p, t) == lease[p] = [at |-> "sawStale", task |-> t]
<1> DEFINE Fenced(t) ==
              /\ reclaims'[t] <= 1 =>
                    /\ \A p, q \in Holders(t)' : p = q
                    /\ \A p \in Holders(t)' : lock'[t].owner = p
              /\ reclaims'[t] = 0 =>
                    \A p \in Proc : Saw(p, t)' => Exists(t)' /\ lock'[t].stale
              /\ Exists(t)' /\ lock'[t].stale => ~Holds(lock[t].owner, t)'
<1> SUFFICES ASSUME NEW t \in Task PROVE Fenced(t)
  OBVIOUS
<1>1. ASSUME NEW p \in Proc, NEW u \in Task, Look(p, u) PROVE Fenced(t)
  <2>1. lock' = lock /\ reclaims' = reclaims
    BY <1>1, LookEffect
  <2>2. \A q \in Proc : Holds(q, t)' <=> Holds(q, t)
    <3>1. lease[p] = Free
      BY <1>1 DEF Look, LookAbsent, LookDenied, LookStale
    <3>2. QED
      BY <3>1, <1>1, LookEffect
  <2>3. \A q \in Proc : Saw(q, t)' => Saw(q, t) \/ (Exists(t) /\ lock[t].stale)
    BY <1>1, LookEffect
  <2>4. QED
    BY <2>1, <2>2, <2>3
<1>2. ASSUME NEW p \in Proc, Reclaim(p) PROVE Fenced(t)
  <2>1. CASE lease[p].task # t
    BY <1>2, <2>1 DEF Reclaim
  <2>2. CASE lease[p].task = t /\ reclaims[t] = 0
    <3>1. Saw(p, t)
      BY <1>2, <2>2 DEF Reclaim
    <3>2. Holders(t) = {}
      BY <2>2, <3>1
    <3>3. Holders(t)' = {}
      BY <1>2, <3>2 DEF Reclaim
    <3>4. lock'[t] = NoLock /\ reclaims'[t] = 1
      BY <1>2, <2>2 DEF Reclaim, Many
    <3>5. QED
      BY <3>3, <3>4
  <2>3. CASE lease[p].task = t /\ reclaims[t] # 0
    BY <1>2, <2>3 DEF Reclaim, Many
  <2>4. QED
    BY <2>1, <2>2, <2>3
<1>3. ASSUME NEW p \in Proc, Acquire(p) PROVE Fenced(t)
  <2>1. CASE lease[p].task = t
    <3>1. ~Exists(t) /\ lock'[t] = [owner |-> p, stale |-> FALSE] /\ reclaims' = reclaims
      BY <1>3, <2>1 DEF Acquire
    <3>2. \A q \in Proc : q # p => lease'[q] = lease[q]
      BY <1>3 DEF Acquire
    <3>3. lease'[p].at = "held"
      BY <1>3 DEF Acquire
    <3>4. reclaims[t] <= 1 => Holders(t)' \subseteq {p}
      BY <3>1, <3>2, LeaseAssumption
    <3>5. reclaims[t] = 0 => \A q \in Proc : ~Saw(q, t)'
      <4> SUFFICES ASSUME reclaims[t] = 0, NEW q \in Proc, Saw(q, t)' PROVE FALSE
        OBVIOUS
      <4>1. q # p
        BY <3>3
      <4>2. Saw(q, t)
        BY <4>1, <3>2
      <4>3. QED
        BY <4>2, <3>1
    <3>6. ~(Exists(t)' /\ lock'[t].stale)
      BY <3>1
    <3>7. \A q \in Holders(t)' : reclaims[t] <= 1 => lock'[t].owner = q
      BY <3>1, <3>4
    <3>8. QED
      BY <3>1, <3>4, <3>5, <3>6, <3>7
  <2>2. CASE lease[p].task # t
    BY <1>3, <2>2 DEF Acquire
  <2>3. QED
    BY <2>1, <2>2
<1>4. ASSUME NEW p \in Proc, LoseRace(p) PROVE Fenced(t)
  BY <1>4 DEF LoseRace
<1>5. ASSUME NEW p \in Proc, Release(p) PROVE Fenced(t)
  <2>1. CASE lease[p].task = t
    <3>1. Holds(p, t)
      BY <1>5, <2>1 DEF Release
    <3>2. reclaims[t] <= 1 => Holders(t)' = {}
      BY <1>5, <3>1 DEF Release
    <3>3. reclaims[t] = 0 => \A q \in Proc : ~Saw(q, t)
      BY <3>1
    <3>4. lock'[t] = NoLock /\ reclaims' = reclaims
      BY <1>5, <2>1 DEF Release
    <3>5. \A q \in Proc : Saw(q, t)' => Saw(q, t)
      BY <1>5 DEF Release
    <3>6. QED
      BY <3>2, <3>3, <3>4, <3>5
  <2>2. CASE lease[p].task # t
    BY <1>5, <2>2 DEF Release
  <2>3. QED
    BY <2>1, <2>2
<1>6. ASSUME NEW dead \in SUBSET Proc, LeaseCrash(dead) PROVE Fenced(t)
  BY <1>6 DEF LeaseCrash
<1>7. ASSUME NEW u \in Task, LockAges(u) PROVE Fenced(t)
  BY <1>7 DEF LockAges
<1>8. CASE UNCHANGED leaseVars
  BY <1>8 DEF leaseVars
<1>9. QED
  BY <1>1, <1>2, <1>3, <1>4, <1>5, <1>6, <1>7, <1>8 DEF LeaseNext, LeaseStep

\* If only abandoned locks grow stale, exclusion survives the first reclaim of a
\* task's lock (the crash of its holder), and is lost at the earliest with the
\* second one.
THEOREM FirstReclaimSafe ==
    ASSUME Aging # "any"
    PROVE  LeaseSpec => []FirstReclaimIsSafe
<1>1. LeaseInit => ReclaimInv
  <2> SUFFICES ASSUME LeaseInit PROVE ReclaimInv
    OBVIOUS
  <2>1. \A t \in Task : Holders(t) = {} /\ ~Exists(t)
    BY DEF LeaseInit, Free, NoLock, Holders, Holds, Exists
  <2>2. \A t \in Task, p \in Proc : lease[p] # [at |-> "sawStale", task |-> t]
    BY DEF LeaseInit, Free
  <2>3. QED
    BY <2>1, <2>2 DEF ReclaimInv, Exclusive
<1>2. ReclaimInv => FirstReclaimIsSafe
  BY DEF ReclaimInv, FirstReclaimIsSafe
<1>3. LeaseTypeOK /\ ReclaimInv /\ [LeaseNext]_leaseVars => ReclaimInv'
  BY ReclaimStep
<1>4. QED
  BY <1>1, <1>2, <1>3, LeaseTypeCorrect, PTL DEF LeaseSpec
=============================================================================
