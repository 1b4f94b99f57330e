--------------------------- MODULE PilotLeaseProofs ---------------------------
(***************************************************************************)
(* Proofs about PilotLease.  One inductive invariant, PilotInv, carries    *)
(* the others: who holds which mutex, how the grants follow the consumed   *)
(* bindings, why a revocation under way cannot be overtaken, and why a     *)
(* publication is alone with its receipt.                                  *)
(***************************************************************************)
EXTENDS PilotLease, TLAPS

Held == {"record", "write", "close"}
Publishing == {"ask", "open", "record", "write", "close", "commit", "decide", "denied"}

\* A thread that works under a lease has one, and holds the mutexes its place
\* in the code says.
PlaceInv ==
    \A h \in Thread :
        /\ pc[h] # "idle" => arg[h] \in Lease
        /\ pc[h] \in {"announce", "revoke", "revoked"} => managing = h
        /\ pc[h] \in Held \cup {"effect"} => registry = h
        /\ pc[h] \in {"begin", "effect", "decide"} => intent = h
        /\ pc[h] \in {"lock", "verify"} => h \in Recorder
        /\ pc[h] = "effect" => lease[arg[h]].state = "active" /\ lease[arg[h]].used < Bindings

\* The mutexes are held by threads at those places only.
HolderInv ==
    \A h \in Thread :
        /\ registry = h  => pc[h] \in Held \cup {"effect"}
        /\ intent = h    => pc[h] \in {"begin", "effect", "decide"}
        /\ recording = h => pc[h] \in {"write", "verify"}

\* A binding was granted once when it is consumed, and not before.
GrantInv ==
    \A l \in Lease :
        /\ lease[l].state = "absent" => lease[l].used = 0
        /\ \A b \in 1..Bindings : grants[l][b] = IF b <= lease[l].used THEN 1 ELSE 0

\* A revocation under way is announced, and will find the lease as it read it.
RevokeInv ==
    /\ \A h \in Thread : pc[h] \in {"revoke", "revoked"} => arg[h] \in pending
    /\ \A l \in revoking :
          /\ lease[l].state # "absent"
          /\ \/ lease[l].state # "active"
             \/ \E h \in Thread : pc[h] = "revoke" /\ arg[h] = l /\ clock[h] = "within"
    /\ \A h \in Thread :
          /\ pc[h] = "decide" => arg[h] \notin pending
          /\ pc[h] \in {"record", "write", "close", "commit", "decide"}
                => seen[h].lease.state = "active"

\* What a publication remembers of the receipt is still so.
PublishInv ==
    /\ committed \subseteq receipts
    /\ \A h \in Thread :
          pc[h] \in {"idle", "ask", "open", "record", "write"} => published[h] = "nothing"
    /\ \A h \in Thread : pc[h] \in Publishing =>
          /\ lease[arg[h]].used >= EvidenceAt
          /\ published[h] # "nothing" => arg[h] \in receipts
          /\ published[h] = "wrote" => arg[h] \notin committed

\* A publication is the only one of its lease.
AloneInv ==
    \A h, k \in Thread :
        pc[h] \in Publishing /\ pc[k] \in Publishing /\ arg[h] = arg[k] => h = k

PilotInv ==
    TypeOK /\ PlaceInv /\ HolderInv /\ GrantInv /\ RevokeInv /\ PublishInv /\ AloneInv

-----------------------------------------------------------------------------
(* What the tests of a lease's effective state say of the lease. *)

\* Only a lease that is not revoked or sealed is active, with a binding left.
LEMMA ActiveLease ==
  ASSUME StoreOK, NEW l \in Lease, Active(l)
  PROVE  lease[l].state = "active" /\ lease[l].used < Bindings
<1>1. /\ lease[l].used \in 0..Bindings
      /\ window[l] \in Window
  BY DEF StoreOK, LeaseRecord
<1>2. lease[l].state = "active" /\ lease[l].used # Bindings
  BY <1>1 DEF Active, Effective, StateAt, Window
<1> QED
  BY <1>1, <1>2, PilotAssumption

\* Only such a lease can be revoked, at whatever time.
LEMMA RevocableLease ==
  ASSUME StoreOK, NEW l \in Lease, NEW w \in Window
  PROVE  Revocable(l, w) <=> lease[l].state = "active" /\ w = "within"
BY PilotAssumption DEF StoreOK, LeaseRecord, Revocable, StateAt, Window

\* So is a lease in force: revoke and seal apply to it.
LEMMA InForceLease ==
  ASSUME StoreOK, NEW l \in Lease, InForce(l)
  PROVE  lease[l].state = "active"
BY RevocableLease DEF StoreOK, InForce

\* A transaction opens only under such a lease.
LEMMA AuthorizedLease ==
  ASSUME StoreOK, NEW l \in Lease, Authorized(l)
  PROVE  lease[l].state = "active"
BY InForceLease DEF Authorized

\* An effect begins only under such a lease.
LEMMA PermittedLease ==
  ASSUME StoreOK, NEW l \in Lease, Permitted(l)
  PROVE  lease[l].state = "active" /\ lease[l].used < Bindings /\ l \notin pending
BY ActiveLease DEF Permitted

\* What a transaction remembers of its lease is well typed ...
LEMMA ObservationType ==
  ASSUME StoreOK, NEW l \in Lease
  PROVE  /\ Observation(l) \in [lease : LeaseRecord, state : State]
         /\ Observation(l).lease = lease[l]
<1>1. lease[l] \in LeaseRecord /\ window[l] \in Window
  BY DEF StoreOK
<1>2. Effective(l) \in State
  BY <1>1 DEF LeaseRecord, Effective, StateAt, State, Window
<1> QED
  BY <1>1, <1>2 DEF Observation

\* ... and so is what a thread without a transaction remembers.
LEMMA NoObservationType == NoObservation \in [lease : LeaseRecord, state : State]
BY PilotAssumption DEF NoObservation, NoLease, LeaseRecord, State

\* The publications of the other threads do not notice a call that returns ...
LEMMA ReturnPublishes ==
  ASSUME ThreadsOK, NEW h \in Thread, Return(h), PublishInv, UNCHANGED <<lease, receipts, committed>>
  PROVE  PublishInv'
BY DEF ThreadsOK, PublishInv, Publishing, Return, Goto

\* ... nor one that goes on.
LEMMA GotoPublishes ==
  ASSUME ThreadsOK, NEW h \in Thread, NEW at, Goto(h, at), PublishInv,
         UNCHANGED <<lease, receipts, committed, arg, published>>,
         pc[h] \in Publishing, at \in {"commit", "decide", "denied"}
  PROVE  PublishInv'
BY DEF ThreadsOK, PublishInv, Publishing, Goto

\* A lease keeps its single publisher when a call returns ...
LEMMA ReturnAlone ==
  ASSUME ThreadsOK, NEW h \in Thread, Return(h), AloneInv
  PROVE  AloneInv'
<1>1. \A k \in Thread : pc'[k] \in Publishing => k # h /\ pc[k] \in Publishing /\ arg'[k] = arg[k]
  BY DEF ThreadsOK, Publishing, Return, Goto
<1> QED
  BY <1>1 DEF AloneInv

\* ... and when it goes on without becoming a publication.
LEMMA GotoAlone ==
  ASSUME ThreadsOK, NEW h \in Thread, NEW at, Goto(h, at), AloneInv, UNCHANGED arg,
         pc[h] \in Publishing \/ at \notin Publishing
  PROVE  AloneInv'
<1>1. \A k \in Thread : pc'[k] \in Publishing => pc[k] \in Publishing /\ arg'[k] = arg[k]
  BY DEF ThreadsOK, Goto
<1> QED
  BY <1>1 DEF AloneInv

\* A sealed lease is a lease.
LEMMA SealedType ==
  ASSUME NEW r \in LeaseRecord
  PROVE  [r EXCEPT !.state = "sealed"] \in LeaseRecord
BY DEF LeaseRecord

\* Counting a granted binding keeps the ghost in its type.
LEMMA UsedType ==
  ASSUME NEW r \in LeaseRecord, NEW n \in 0..Bindings
  PROVE  [r EXCEPT !.used = n] \in LeaseRecord
BY DEF LeaseRecord

\* So does the consumption of a binding ...
LEMMA ConsumeType ==
  ASSUME StoreOK, GhostsOK, NEW l \in Lease, Consume(l)
  PROVE  /\ lease' \in [Lease -> LeaseRecord]
         /\ grants' \in [Lease -> [1..Bindings -> 0..Many]]
<1> DEFINE b == lease[l].used + 1
           g == IF grants[l][b] < Many THEN grants[l][b] + 1 ELSE grants[l][b]
<1>1. lease[l] \in LeaseRecord /\ lease[l].used \in 0..Bindings /\ lease[l].used < Bindings
  BY ActiveLease DEF Consume, StoreOK, LeaseRecord
<1>2. b \in 1..Bindings /\ b \in 0..Bindings
  BY <1>1, PilotAssumption
<1>3. [lease[l] EXCEPT !.used = b] \in LeaseRecord
  <2> HIDE DEF b
  <2> QED
    BY <1>1, <1>2, UsedType
<1>4. lease' = [lease EXCEPT ![l] = [lease[l] EXCEPT !.used = b]]
  BY DEF Consume
<1>5. g \in 0..Many
  <2>1. grants[l] \in [1..Bindings -> 0..Many]
    BY DEF GhostsOK
  <2>2. grants[l][b] \in 0..Many
    BY <1>2, <2>1
  <2> QED
    BY <2>2 DEF Many
<1>6. grants' = [grants EXCEPT ![l] = [grants[l] EXCEPT ![b] = g]]
  BY DEF Consume, Count, NextBinding
<1> HIDE DEF b, g
<1> QED
  BY <1>2, <1>3, <1>4, <1>5, <1>6 DEF StoreOK, GhostsOK

\* ... which is counted as a grant of that binding.
LEMMA ConsumeGrants ==
  ASSUME StoreOK, GhostsOK, GrantInv, NEW l \in Lease, Consume(l)
  PROVE  GrantInv'
<1> DEFINE b == lease[l].used + 1
<1>1. /\ lease[l].state = "active"
      /\ lease[l].used \in 0..Bindings /\ lease[l].used < Bindings
  BY ActiveLease DEF Consume, StoreOK, LeaseRecord
<1>2. b \in 1..Bindings /\ grants[l][b] = 0
  BY <1>1, PilotAssumption DEF GrantInv
<1>3. lease' = [lease EXCEPT ![l] = [lease[l] EXCEPT !.used = b]]
  BY DEF Consume
<1>4. grants' = [grants EXCEPT ![l] = [grants[l] EXCEPT ![b] = 1]]
  BY <1>2 DEF Consume, Count, NextBinding, Many
<1>5. ASSUME NEW m \in Lease, m # l
      PROVE  lease'[m] = lease[m] /\ grants'[m] = grants[m]
  BY <1>3, <1>4, <1>5 DEF StoreOK, GhostsOK
<1>6. lease'[l].state = "active" /\ lease'[l].used = b
  BY <1>1, <1>3 DEF StoreOK, LeaseRecord
<1>7. grants'[l] = [grants[l] EXCEPT ![b] = 1]
  BY <1>4 DEF GhostsOK
<1>8. \A c \in 1..Bindings : grants'[l][c] = IF c <= b THEN 1 ELSE 0
  BY <1>1, <1>2, <1>7, PilotAssumption DEF GrantInv, GhostsOK
<1> QED
  BY <1>5, <1>6, <1>8 DEF GrantInv

-----------------------------------------------------------------------------
(* Every step keeps each part of the invariant. *)

\* The variables that are not a thread's.
RestOK ==
    /\ StoreOK /\ MutexesOK /\ GhostsOK
    /\ fileLock \in BOOLEAN
    /\ receipts \subseteq Lease
    /\ crashes \in 0..MaxCrashes

\* Every action keeps the variables of its thread in their types.
LEMMA ThreadsStep == PilotInv /\ [Next]_vars => ThreadsOK'
<1> SUFFICES ASSUME PilotInv, [Next]_vars PROVE ThreadsOK'
  OBVIOUS
<1> USE PilotAssumption DEF PilotInv, TypeOK, StoreOK, ThreadsOK, Place, Window, Thread, store, mutexes, evidence, threads, ghosts
<1>1. ASSUME NEW l \in Lease, Issue(l) PROVE ThreadsOK'
  BY <1>1 DEF Issue
<1>2. ASSUME NEW l \in Lease, Act(l) PROVE ThreadsOK'
  BY <1>2 DEF Act
<1>3. ASSUME NEW l \in Lease, Seal(l) PROVE ThreadsOK'
  BY <1>3 DEF Seal
<1>4. ASSUME NEW l \in Lease, Tick(l) PROVE ThreadsOK'
  BY <1>4 DEF Tick
<1>5. ASSUME NEW h \in Manager, NEW l \in Lease, Manage(h, l) PROVE ThreadsOK'
  BY <1>5 DEF Manage, Begin, Goto
<1>6. ASSUME NEW h \in Manager, Announce(h) PROVE ThreadsOK'
  <2>1. CASE Revocable(arg[h], clock[h])
    BY <1>6, <2>1 DEF Announce, Goto
  <2>2. CASE ~(Revocable(arg[h], clock[h]))
    BY <1>6, <2>2 DEF Announce, Goto
  <2> QED
    BY <2>1, <2>2
<1>7. ASSUME NEW h \in Manager, Revoke(h) PROVE ThreadsOK'
  <2>1. CASE Revocable(arg[h], clock[h])
    BY <1>7, <2>1 DEF Revoke, Goto
  <2>2. CASE ~(Revocable(arg[h], clock[h]))
    BY <1>7, <2>2 DEF Revoke, Goto
  <2> QED
    BY <2>1, <2>2
<1>8. ASSUME NEW h \in Manager, Retract(h) PROVE ThreadsOK'
  BY <1>8, NoObservationType DEF Retract, Return, Goto
<1>9. ASSUME NEW h \in Publisher, NEW l \in Lease, Publish(h, l) PROVE ThreadsOK'
  BY <1>9 DEF Publish, Begin, Goto
<1>10. ASSUME NEW h \in Publisher, Ask(h) PROVE ThreadsOK'
  <2>1. CASE arg[h] \in pending
    BY <1>10, <2>1, NoObservationType DEF Ask, Return, Goto
  <2>2. CASE ~(arg[h] \in pending)
    BY <1>10, <2>2, NoObservationType DEF Ask, Return, Goto
  <2> QED
    BY <2>1, <2>2
<1>11. ASSUME NEW h \in Publisher, Open(h) PROVE ThreadsOK'
  <2>1. CASE Authorized(arg[h])
    <3>1. arg[h] \in Lease
      BY <1>11 DEF Open, PlaceInv
    <3>2. Observation(arg[h]) \in [lease : LeaseRecord, state : State]
      BY <3>1, ObservationType
    <3> QED
      BY <1>11, <2>1, <3>2 DEF Open, Goto
  <2>2. CASE ~Authorized(arg[h])
    BY <1>11, <2>2, NoObservationType DEF Open, Return, Goto
  <2> QED
    BY <2>1, <2>2
<1>12. ASSUME NEW h \in Publisher, Record(h) PROVE ThreadsOK'
  BY <1>12 DEF Record, Goto
<1>13. ASSUME NEW h \in Publisher, Write(h) PROVE ThreadsOK'
  BY <1>13 DEF Write, Goto
<1>14. ASSUME NEW h \in Publisher, Close(h) PROVE ThreadsOK'
  BY <1>14 DEF Close, Goto
<1>15. ASSUME NEW h \in Publisher, Commit(h) PROVE ThreadsOK'
  <2>1. CASE arg[h] \in pending
    BY <1>15, <2>1 DEF Commit, Goto
  <2>2. CASE ~(arg[h] \in pending)
    BY <1>15, <2>2 DEF Commit, Goto
  <2> QED
    BY <2>1, <2>2
<1>16. ASSUME NEW h \in Publisher, Decide(h) PROVE ThreadsOK'
  <2>1. CASE Observation(arg[h]) = seen[h]
    BY <1>16, <2>1, NoObservationType DEF Decide, Return, Goto
  <2>2. CASE ~(Observation(arg[h]) = seen[h])
    BY <1>16, <2>2, NoObservationType DEF Decide, Return, Goto
  <2> QED
    BY <2>1, <2>2
<1>17. ASSUME NEW h \in Publisher, Withdraw(h) PROVE ThreadsOK'
  BY <1>17, NoObservationType DEF Withdraw, Return, Goto
<1>18. ASSUME NEW h \in Effector, NEW l \in Lease, Request(h, l) PROVE ThreadsOK'
  BY <1>18 DEF Request, Begin, Goto
<1>19. ASSUME NEW h \in Effector, EffectBegins(h) PROVE ThreadsOK'
  <2>1. CASE Permitted(arg[h])
    BY <1>19, <2>1, NoObservationType DEF EffectBegins, Return, Goto
  <2>2. CASE ~(Permitted(arg[h]))
    BY <1>19, <2>2, NoObservationType DEF EffectBegins, Return, Goto
  <2> QED
    BY <2>1, <2>2
<1>20. ASSUME NEW h \in Effector, NEW ok \in BOOLEAN, EffectEnds(h, ok) PROVE ThreadsOK'
  <2>1. CASE ok
    BY <1>20, <2>1, NoObservationType DEF EffectEnds, Return, Goto
  <2>2. CASE ~(ok)
    BY <1>20, <2>2, NoObservationType DEF EffectEnds, Return, Goto
  <2> QED
    BY <2>1, <2>2
<1>21. ASSUME NEW h \in Recorder, NEW l \in Lease, Plan(h, l) PROVE ThreadsOK'
  BY <1>21 DEF Plan, Begin, Goto
<1>22. ASSUME NEW h \in Recorder, Lock(h) PROVE ThreadsOK'
  <2>1. CASE fileLock
    BY <1>22, <2>1, NoObservationType DEF Lock, Return, Goto
  <2>2. CASE ~(fileLock)
    BY <1>22, <2>2, NoObservationType DEF Lock, Return, Goto
  <2> QED
    BY <2>1, <2>2
<1>23. ASSUME NEW h \in Recorder, Verify(h) PROVE ThreadsOK'
  BY <1>23, NoObservationType DEF Verify, Return, Goto
<1>24. CASE Restart
  BY <1>24, NoObservationType DEF Restart
<1>25. CASE UNCHANGED vars
  BY <1>25 DEF vars
<1> HIDE DEF TypeOK, StoreOK, ThreadsOK
<1> QED
  BY <1>1, <1>2, <1>3, <1>4, <1>5, <1>6, <1>7, <1>8, <1>9, <1>10, <1>11, <1>12, <1>13, <1>14, <1>15, <1>16, <1>17, <1>18, <1>19, <1>20, <1>21, <1>22, <1>23, <1>24, <1>25
     DEF Next, RevokeStep, PublishStep, EffectStep, RecordStep

\* Every action keeps the other variables in their types.
LEMMA RestStep == PilotInv /\ [Next]_vars => RestOK'
<1> SUFFICES ASSUME PilotInv, [Next]_vars PROVE RestOK'
  OBVIOUS
<1> USE PilotAssumption DEF PilotInv, TypeOK, RestOK, StoreOK, MutexesOK, GhostsOK, LeaseRecord, Thread, Many, PlaceInv, store, mutexes, evidence, threads, ghosts
<1>1. ASSUME NEW l \in Lease, Issue(l) PROVE RestOK'
  BY <1>1 DEF Issue, NoLease
<1>2. ASSUME NEW l \in Lease, Act(l) PROVE RestOK'
  <2>1. Consume(l) /\ UNCHANGED <<window, pending, mutexes, evidence, revoking, committed, quarantined, crashes>>
    BY <1>2 DEF Act
  <2>2. /\ lease' \in [Lease -> LeaseRecord]
        /\ grants' \in [Lease -> [1..Bindings -> 0..Many]]
    <3> HIDE DEF LeaseRecord, Many, StoreOK, GhostsOK
    <3>1. StoreOK /\ GhostsOK
      OBVIOUS
    <3> QED
      BY <2>1, <3>1, ConsumeType
  <2>3. StoreOK' /\ GhostsOK'
    <3> HIDE DEF LeaseRecord, Many
    <3> QED
      BY <2>1, <2>2
  <2>4. MutexesOK'
    BY <2>1
  <2> QED
    BY <2>1, <2>3, <2>4
<1>3. ASSUME NEW l \in Lease, Seal(l) PROVE RestOK'
  <2>1. lease' = [lease EXCEPT ![l] = [lease[l] EXCEPT !.state = "sealed"]]
    BY <1>3 DEF Seal
  <2>2. [lease[l] EXCEPT !.state = "sealed"] \in LeaseRecord
    <3>1. lease[l] \in LeaseRecord
      OBVIOUS
    <3> QED
      BY <3>1, SealedType
  <2>3. lease' \in [Lease -> LeaseRecord]
    <3> HIDE DEF LeaseRecord
    <3> QED
      BY <2>1, <2>2
  <2>4. UNCHANGED <<window, pending, mutexes, evidence, threads, ghosts, crashes>>
    BY <1>3 DEF Seal
  <2> QED
    BY <2>3, <2>4
<1>4. ASSUME NEW l \in Lease, Tick(l) PROVE RestOK'
  BY <1>4 DEF Tick, Window
<1>5. ASSUME NEW h \in Manager, NEW l \in Lease, Manage(h, l) PROVE RestOK'
  BY <1>5 DEF Manage
<1>6. ASSUME NEW h \in Manager, Announce(h) PROVE RestOK'
  <2>1. CASE Revocable(arg[h], clock[h])
    BY <1>6, <2>1, RevocableLease DEF Announce
  <2>2. CASE ~(Revocable(arg[h], clock[h]))
    BY <1>6, <2>2, RevocableLease DEF Announce
  <2> QED
    BY <2>1, <2>2
<1>7. ASSUME NEW h \in Manager, Revoke(h) PROVE RestOK'
  <2>1. CASE Revocable(arg[h], clock[h])
    <3>1. arg[h] \in Lease /\ UNCHANGED <<window, pending, mutexes, evidence, ghosts, crashes>>
      BY <1>7 DEF Revoke
    <3>2. lease' = [lease EXCEPT ![arg[h]] = [lease[arg[h]] EXCEPT !.state = "revoked"]]
      BY <1>7, <2>1 DEF Revoke
    <3>3. [lease[arg[h]] EXCEPT !.state = "revoked"] \in LeaseRecord
      BY <3>1
    <3>4. StoreOK'
      <4> HIDE DEF LeaseRecord
      <4> QED
        BY <3>1, <3>2, <3>3
    <3>5. MutexesOK' /\ GhostsOK'
      BY <3>1
    <3> QED
      BY <3>1, <3>4, <3>5
  <2>2. CASE ~(Revocable(arg[h], clock[h]))
    BY <1>7, <2>2 DEF Revoke
  <2> QED
    BY <2>1, <2>2
<1>8. ASSUME NEW h \in Manager, Retract(h) PROVE RestOK'
  BY <1>8 DEF Retract
<1>9. ASSUME NEW h \in Publisher, NEW l \in Lease, Publish(h, l) PROVE RestOK'
  BY <1>9, ConsumeType DEF Publish
<1>10. ASSUME NEW h \in Publisher, Ask(h) PROVE RestOK'
  <2>1. CASE arg[h] \in pending
    BY <1>10, <2>1 DEF Ask
  <2>2. CASE ~(arg[h] \in pending)
    BY <1>10, <2>2 DEF Ask
  <2> QED
    BY <2>1, <2>2
<1>11. ASSUME NEW h \in Publisher, Open(h) PROVE RestOK'
  <2>1. CASE Authorized(arg[h])
    BY <1>11, <2>1, AuthorizedLease, ObservationType DEF Open
  <2>2. CASE ~(Authorized(arg[h]))
    BY <1>11, <2>2, AuthorizedLease, ObservationType DEF Open
  <2> QED
    BY <2>1, <2>2
<1>12. ASSUME NEW h \in Publisher, Record(h) PROVE RestOK'
  BY <1>12 DEF Record
<1>13. ASSUME NEW h \in Publisher, Write(h) PROVE RestOK'
  BY <1>13 DEF Write
<1>14. ASSUME NEW h \in Publisher, Close(h) PROVE RestOK'
  BY <1>14 DEF Close
<1>15. ASSUME NEW h \in Publisher, Commit(h) PROVE RestOK'
  <2>1. CASE arg[h] \in pending
    BY <1>15, <2>1 DEF Commit
  <2>2. CASE ~(arg[h] \in pending)
    BY <1>15, <2>2 DEF Commit
  <2> QED
    BY <2>1, <2>2
<1>16. ASSUME NEW h \in Publisher, Decide(h) PROVE RestOK'
  <2>1. CASE Observation(arg[h]) = seen[h]
    BY <1>16, <2>1, ObservationType DEF Decide
  <2>2. CASE ~(Observation(arg[h]) = seen[h])
    BY <1>16, <2>2, ObservationType DEF Decide
  <2> QED
    BY <2>1, <2>2
<1>17. ASSUME NEW h \in Publisher, Withdraw(h) PROVE RestOK'
  BY <1>17 DEF Withdraw
<1>18. ASSUME NEW h \in Effector, NEW l \in Lease, Request(h, l) PROVE RestOK'
  BY <1>18 DEF Request
<1>19. ASSUME NEW h \in Effector, EffectBegins(h) PROVE RestOK'
  <2>1. CASE Permitted(arg[h])
    BY <1>19, <2>1, PermittedLease DEF EffectBegins
  <2>2. CASE ~(Permitted(arg[h]))
    BY <1>19, <2>2, PermittedLease DEF EffectBegins
  <2> QED
    BY <2>1, <2>2
<1>20. ASSUME NEW h \in Effector, NEW ok \in BOOLEAN, EffectEnds(h, ok) PROVE RestOK'
  <2>1. /\ arg[h] \in Lease /\ lease[arg[h]].state = "active"
        /\ lease[arg[h]].used \in Nat /\ lease[arg[h]].used < Bindings
    BY <1>20 DEF EffectEnds, PlaceInv
  <2>2. CASE ok
    <3>1. /\ lease' = [lease EXCEPT ![arg[h]] = [@ EXCEPT !.used = lease[arg[h]].used + 1]]
          /\ Count(arg[h], lease[arg[h]].used + 1)
      BY <1>20, <2>2 DEF EffectEnds, NextBinding
    <3>2. StoreOK'
      <4>1. [lease[arg[h]] EXCEPT !.used = lease[arg[h]].used + 1] \in LeaseRecord
        <5>1. lease[arg[h]] \in LeaseRecord /\ lease[arg[h]].used + 1 \in 0..Bindings
          BY <2>1
        <5> HIDE DEF LeaseRecord
        <5> QED
          BY <5>1, UsedType
      <4> QED
        BY <1>20, <2>1, <3>1, <4>1 DEF EffectEnds
    <3>3. grants' \in [Lease -> [1..Bindings -> 0..Many]]
      <4> DEFINE b == lease[arg[h]].used + 1
                 g == IF grants[arg[h]][b] < Many THEN grants[arg[h]][b] + 1 ELSE grants[arg[h]][b]
      <4>1. b \in 1..Bindings
        BY <2>1
      <4>2. g \in 0..Many
        BY <2>1, <4>1
      <4>3. grants' = [grants EXCEPT ![arg[h]] = [grants[arg[h]] EXCEPT ![b] = g]]
        BY <3>1 DEF Count
      <4> HIDE DEF b, g
      <4> QED
        BY <2>1, <4>1, <4>2, <4>3
    <3>4. /\ registry' = NoThread /\ intent' = NoThread
          /\ UNCHANGED <<recording, managing, evidence, revoking, committed, quarantined, crashes>>
      BY <1>20 DEF EffectEnds
    <3> QED
      BY <3>2, <3>3, <3>4
  <2>3. CASE ~ok
    BY <1>20, <2>1, <2>3 DEF EffectEnds
  <2> QED
    BY <2>2, <2>3
<1>21. ASSUME NEW h \in Recorder, NEW l \in Lease, Plan(h, l) PROVE RestOK'
  BY <1>21, ActiveLease DEF Plan
<1>22. ASSUME NEW h \in Recorder, Lock(h) PROVE RestOK'
  <2>1. CASE fileLock
    BY <1>22, <2>1 DEF Lock
  <2>2. CASE ~(fileLock)
    BY <1>22, <2>2 DEF Lock
  <2> QED
    BY <2>1, <2>2
<1>23. ASSUME NEW h \in Recorder, Verify(h) PROVE RestOK'
  BY <1>23 DEF Verify
<1>24. CASE Restart
  BY <1>24 DEF Restart, NoLease, NoObservation
<1>25. CASE UNCHANGED vars
  BY <1>25 DEF vars
<1> HIDE DEF TypeOK, RestOK, StoreOK, MutexesOK, GhostsOK, PlaceInv
<1> QED
  BY <1>1, <1>2, <1>3, <1>4, <1>5, <1>6, <1>7, <1>8, <1>9, <1>10, <1>11, <1>12, <1>13, <1>14, <1>15, <1>16, <1>17, <1>18, <1>19, <1>20, <1>21, <1>22, <1>23, <1>24, <1>25
     DEF Next, RevokeStep, PublishStep, EffectStep, RecordStep

\* A mutex is taken on the way into a section and given back on the way out.
LEMMA PlaceStep == PilotInv /\ [Next]_vars => PlaceInv'
<1> SUFFICES ASSUME PilotInv, [Next]_vars PROVE PlaceInv'
  OBVIOUS
<1> USE PilotAssumption DEF PilotInv, TypeOK, StoreOK, MutexesOK, ThreadsOK, Thread, PlaceInv, Held, store, mutexes, evidence, threads, ghosts
<1>1. ASSUME NEW l \in Lease, Issue(l) PROVE PlaceInv'
  BY <1>1 DEF Issue, NoLease
<1>2. ASSUME NEW l \in Lease, Act(l) PROVE PlaceInv'
  BY <1>2, ActiveLease DEF Act, Consume, Count, NextBinding
<1>3. ASSUME NEW l \in Lease, Seal(l) PROVE PlaceInv'
  BY <1>3, InForceLease DEF Seal
<1>4. ASSUME NEW l \in Lease, Tick(l) PROVE PlaceInv'
  BY <1>4 DEF Tick, Window
<1>5. ASSUME NEW h \in Manager, NEW l \in Lease, Manage(h, l) PROVE PlaceInv'
  BY <1>5 DEF Manage, Begin, Goto
<1>6. ASSUME NEW h \in Manager, Announce(h) PROVE PlaceInv'
  <2>1. CASE Revocable(arg[h], clock[h])
    BY <1>6, <2>1, RevocableLease DEF Announce, Goto
  <2>2. CASE ~(Revocable(arg[h], clock[h]))
    BY <1>6, <2>2, RevocableLease DEF Announce, Goto
  <2> QED
    BY <2>1, <2>2
<1>7. ASSUME NEW h \in Manager, Revoke(h) PROVE PlaceInv'
  <2>1. CASE Revocable(arg[h], clock[h])
    BY <1>7, <2>1, RevocableLease DEF Revoke, Goto
  <2>2. CASE ~(Revocable(arg[h], clock[h]))
    BY <1>7, <2>2, RevocableLease DEF Revoke, Goto
  <2> QED
    BY <2>1, <2>2
<1>8. ASSUME NEW h \in Manager, Retract(h) PROVE PlaceInv'
  BY <1>8 DEF Retract, Return, Goto
<1>9. ASSUME NEW h \in Publisher, NEW l \in Lease, Publish(h, l) PROVE PlaceInv'
  BY <1>9, ActiveLease DEF Publish, Consume, Count, NextBinding, Begin, Goto
<1>10. ASSUME NEW h \in Publisher, Ask(h) PROVE PlaceInv'
  <2>1. CASE arg[h] \in pending
    BY <1>10, <2>1 DEF Ask, Return, Goto
  <2>2. CASE ~(arg[h] \in pending)
    BY <1>10, <2>2 DEF Ask, Return, Goto
  <2> QED
    BY <2>1, <2>2
<1>11. ASSUME NEW h \in Publisher, Open(h) PROVE PlaceInv'
  <2>1. CASE Authorized(arg[h])
    BY <1>11, <2>1, AuthorizedLease, ObservationType DEF Open, Return, Goto
  <2>2. CASE ~(Authorized(arg[h]))
    BY <1>11, <2>2, AuthorizedLease, ObservationType DEF Open, Return, Goto
  <2> QED
    BY <2>1, <2>2
<1>12. ASSUME NEW h \in Publisher, Record(h) PROVE PlaceInv'
  BY <1>12 DEF Record, Goto
<1>13. ASSUME NEW h \in Publisher, Write(h) PROVE PlaceInv'
  BY <1>13 DEF Write, Goto
<1>14. ASSUME NEW h \in Publisher, Close(h) PROVE PlaceInv'
  BY <1>14 DEF Close, Goto
<1>15. ASSUME NEW h \in Publisher, Commit(h) PROVE PlaceInv'
  <2>1. CASE arg[h] \in pending
    BY <1>15, <2>1 DEF Commit, Goto
  <2>2. CASE ~(arg[h] \in pending)
    BY <1>15, <2>2 DEF Commit, Goto
  <2> QED
    BY <2>1, <2>2
<1>16. ASSUME NEW h \in Publisher, Decide(h) PROVE PlaceInv'
  <2>1. CASE Observation(arg[h]) = seen[h]
    BY <1>16, <2>1, ObservationType DEF Decide, Return, Goto
  <2>2. CASE ~(Observation(arg[h]) = seen[h])
    BY <1>16, <2>2, ObservationType DEF Decide, Return, Goto
  <2> QED
    BY <2>1, <2>2
<1>17. ASSUME NEW h \in Publisher, Withdraw(h) PROVE PlaceInv'
  BY <1>17 DEF Withdraw, Return, Goto
<1>18. ASSUME NEW h \in Effector, NEW l \in Lease, Request(h, l) PROVE PlaceInv'
  BY <1>18 DEF Request, Begin, Goto
<1>19. ASSUME NEW h \in Effector, EffectBegins(h) PROVE PlaceInv'
  <2>1. CASE Permitted(arg[h])
    BY <1>19, <2>1, PermittedLease DEF EffectBegins, Return, Goto
  <2>2. CASE ~(Permitted(arg[h]))
    BY <1>19, <2>2, PermittedLease DEF EffectBegins, Return, Goto
  <2> QED
    BY <2>1, <2>2
<1>20. ASSUME NEW h \in Effector, NEW ok \in BOOLEAN, EffectEnds(h, ok) PROVE PlaceInv'
  <2>1. CASE ok
    BY <1>20, <2>1 DEF EffectEnds, Return, Goto, Count, NextBinding
  <2>2. CASE ~(ok)
    BY <1>20, <2>2 DEF EffectEnds, Return, Goto, Count, NextBinding
  <2> QED
    BY <2>1, <2>2
<1>21. ASSUME NEW h \in Recorder, NEW l \in Lease, Plan(h, l) PROVE PlaceInv'
  BY <1>21, ActiveLease DEF Plan, Begin, Goto
<1>22. ASSUME NEW h \in Recorder, Lock(h) PROVE PlaceInv'
  <2>1. CASE fileLock
    BY <1>22, <2>1 DEF Lock, Return, Goto
  <2>2. CASE ~(fileLock)
    BY <1>22, <2>2 DEF Lock, Return, Goto
  <2> QED
    BY <2>1, <2>2
<1>23. ASSUME NEW h \in Recorder, Verify(h) PROVE PlaceInv'
  BY <1>23 DEF Verify, Return, Goto
<1>24. CASE Restart
  BY <1>24 DEF Restart, NoLease, NoObservation
<1>25. CASE UNCHANGED vars
  BY <1>25 DEF vars
<1> HIDE DEF TypeOK, StoreOK, MutexesOK, ThreadsOK, PlaceInv
<1> QED
  BY <1>1, <1>2, <1>3, <1>4, <1>5, <1>6, <1>7, <1>8, <1>9, <1>10, <1>11, <1>12, <1>13, <1>14, <1>15, <1>16, <1>17, <1>18, <1>19, <1>20, <1>21, <1>22, <1>23, <1>24, <1>25
     DEF Next, RevokeStep, PublishStep, EffectStep, RecordStep

\* No thread leaves a section with its mutex.
LEMMA HolderStep == PilotInv /\ [Next]_vars => HolderInv'
<1> SUFFICES ASSUME PilotInv, [Next]_vars PROVE HolderInv'
  OBVIOUS
<1> USE PilotAssumption DEF PilotInv, TypeOK, StoreOK, MutexesOK, ThreadsOK, Thread, HolderInv, Held, store, mutexes, evidence, threads, ghosts
<1>1. ASSUME NEW l \in Lease, Issue(l) PROVE HolderInv'
  BY <1>1 DEF Issue, NoLease
<1>2. ASSUME NEW l \in Lease, Act(l) PROVE HolderInv'
  BY <1>2, ActiveLease DEF Act, Consume, Count, NextBinding
<1>3. ASSUME NEW l \in Lease, Seal(l) PROVE HolderInv'
  BY <1>3, InForceLease DEF Seal
<1>4. ASSUME NEW l \in Lease, Tick(l) PROVE HolderInv'
  BY <1>4 DEF Tick, Window
<1>5. ASSUME NEW h \in Manager, NEW l \in Lease, Manage(h, l) PROVE HolderInv'
  BY <1>5 DEF Manage, Begin, Goto
<1>6. ASSUME NEW h \in Manager, Announce(h) PROVE HolderInv'
  <2>1. CASE Revocable(arg[h], clock[h])
    BY <1>6, <2>1, RevocableLease DEF Announce, Goto
  <2>2. CASE ~(Revocable(arg[h], clock[h]))
    BY <1>6, <2>2, RevocableLease DEF Announce, Goto
  <2> QED
    BY <2>1, <2>2
<1>7. ASSUME NEW h \in Manager, Revoke(h) PROVE HolderInv'
  <2>1. CASE Revocable(arg[h], clock[h])
    BY <1>7, <2>1, RevocableLease DEF Revoke, Goto
  <2>2. CASE ~(Revocable(arg[h], clock[h]))
    BY <1>7, <2>2, RevocableLease DEF Revoke, Goto
  <2> QED
    BY <2>1, <2>2
<1>8. ASSUME NEW h \in Manager, Retract(h) PROVE HolderInv'
  BY <1>8 DEF Retract, Return, Goto
<1>9. ASSUME NEW h \in Publisher, NEW l \in Lease, Publish(h, l) PROVE HolderInv'
  BY <1>9, ActiveLease DEF Publish, Consume, Count, NextBinding, Begin, Goto
<1>10. ASSUME NEW h \in Publisher, Ask(h) PROVE HolderInv'
  <2>1. CASE arg[h] \in pending
    BY <1>10, <2>1 DEF Ask, Return, Goto
  <2>2. CASE ~(arg[h] \in pending)
    BY <1>10, <2>2 DEF Ask, Return, Goto
  <2> QED
    BY <2>1, <2>2
<1>11. ASSUME NEW h \in Publisher, Open(h) PROVE HolderInv'
  <2>1. CASE Authorized(arg[h])
    BY <1>11, <2>1, AuthorizedLease, ObservationType DEF Open, Return, Goto
  <2>2. CASE ~(Authorized(arg[h]))
    BY <1>11, <2>2, AuthorizedLease, ObservationType DEF Open, Return, Goto
  <2> QED
    BY <2>1, <2>2
<1>12. ASSUME NEW h \in Publisher, Record(h) PROVE HolderInv'
  BY <1>12 DEF Record, Goto
<1>13. ASSUME NEW h \in Publisher, Write(h) PROVE HolderInv'
  BY <1>13 DEF Write, Goto
<1>14. ASSUME NEW h \in Publisher, Close(h) PROVE HolderInv'
  BY <1>14 DEF Close, Goto
<1>15. ASSUME NEW h \in Publisher, Commit(h) PROVE HolderInv'
  <2>1. CASE arg[h] \in pending
    BY <1>15, <2>1 DEF Commit, Goto
  <2>2. CASE ~(arg[h] \in pending)
    BY <1>15, <2>2 DEF Commit, Goto
  <2> QED
    BY <2>1, <2>2
<1>16. ASSUME NEW h \in Publisher, Decide(h) PROVE HolderInv'
  <2>1. CASE Observation(arg[h]) = seen[h]
    BY <1>16, <2>1, ObservationType DEF Decide, Return, Goto
  <2>2. CASE ~(Observation(arg[h]) = seen[h])
    BY <1>16, <2>2, ObservationType DEF Decide, Return, Goto
  <2> QED
    BY <2>1, <2>2
<1>17. ASSUME NEW h \in Publisher, Withdraw(h) PROVE HolderInv'
  BY <1>17 DEF Withdraw, Return, Goto
<1>18. ASSUME NEW h \in Effector, NEW l \in Lease, Request(h, l) PROVE HolderInv'
  BY <1>18 DEF Request, Begin, Goto
<1>19. ASSUME NEW h \in Effector, EffectBegins(h) PROVE HolderInv'
  <2>1. CASE Permitted(arg[h])
    BY <1>19, <2>1, PermittedLease DEF EffectBegins, Return, Goto
  <2>2. CASE ~(Permitted(arg[h]))
    BY <1>19, <2>2, PermittedLease DEF EffectBegins, Return, Goto
  <2> QED
    BY <2>1, <2>2
<1>20. ASSUME NEW h \in Effector, NEW ok \in BOOLEAN, EffectEnds(h, ok) PROVE HolderInv'
  <2>1. CASE ok
    BY <1>20, <2>1 DEF EffectEnds, Return, Goto, Count, NextBinding
  <2>2. CASE ~(ok)
    BY <1>20, <2>2 DEF EffectEnds, Return, Goto, Count, NextBinding
  <2> QED
    BY <2>1, <2>2
<1>21. ASSUME NEW h \in Recorder, NEW l \in Lease, Plan(h, l) PROVE HolderInv'
  BY <1>21, ActiveLease DEF Plan, Begin, Goto
<1>22. ASSUME NEW h \in Recorder, Lock(h) PROVE HolderInv'
  <2>1. CASE fileLock
    BY <1>22, <2>1 DEF Lock, Return, Goto
  <2>2. CASE ~(fileLock)
    BY <1>22, <2>2 DEF Lock, Return, Goto
  <2> QED
    BY <2>1, <2>2
<1>23. ASSUME NEW h \in Recorder, Verify(h) PROVE HolderInv'
  BY <1>23 DEF Verify, Return, Goto
<1>24. CASE Restart
  BY <1>24 DEF Restart, NoLease, NoObservation
<1>25. CASE UNCHANGED vars
  BY <1>25 DEF vars
<1> HIDE DEF TypeOK, StoreOK, MutexesOK, ThreadsOK, HolderInv
<1> QED
  BY <1>1, <1>2, <1>3, <1>4, <1>5, <1>6, <1>7, <1>8, <1>9, <1>10, <1>11, <1>12, <1>13, <1>14, <1>15, <1>16, <1>17, <1>18, <1>19, <1>20, <1>21, <1>22, <1>23, <1>24, <1>25
     DEF Next, RevokeStep, PublishStep, EffectStep, RecordStep

\* A binding is counted when it is consumed, which happens once.
LEMMA GrantStep == PilotInv /\ [Next]_vars => GrantInv'
<1> SUFFICES ASSUME PilotInv, [Next]_vars PROVE GrantInv'
  OBVIOUS
<1> USE PilotAssumption DEF PilotInv, TypeOK, StoreOK, MutexesOK, ThreadsOK, Thread, GhostsOK, LeaseRecord, PlaceInv, GrantInv, Held, Many, store, mutexes, evidence, threads, ghosts
<1>1. ASSUME NEW l \in Lease, Issue(l) PROVE GrantInv'
  BY <1>1 DEF Issue, NoLease
<1>2. ASSUME NEW l \in Lease, Act(l) PROVE GrantInv'
  BY <1>2, ConsumeGrants DEF Act
<1>3. ASSUME NEW l \in Lease, Seal(l) PROVE GrantInv'
  BY <1>3, InForceLease DEF Seal
<1>4. ASSUME NEW l \in Lease, Tick(l) PROVE GrantInv'
  BY <1>4 DEF Tick, Window
<1>5. ASSUME NEW h \in Manager, NEW l \in Lease, Manage(h, l) PROVE GrantInv'
  BY <1>5 DEF Manage, Begin, Goto
<1>6. ASSUME NEW h \in Manager, Announce(h) PROVE GrantInv'
  <2>1. CASE Revocable(arg[h], clock[h])
    BY <1>6, <2>1, RevocableLease DEF Announce, Goto
  <2>2. CASE ~(Revocable(arg[h], clock[h]))
    BY <1>6, <2>2, RevocableLease DEF Announce, Goto
  <2> QED
    BY <2>1, <2>2
<1>7. ASSUME NEW h \in Manager, Revoke(h) PROVE GrantInv'
  <2>1. CASE Revocable(arg[h], clock[h])
    BY <1>7, <2>1, RevocableLease DEF Revoke, Goto
  <2>2. CASE ~(Revocable(arg[h], clock[h]))
    BY <1>7, <2>2, RevocableLease DEF Revoke, Goto
  <2> QED
    BY <2>1, <2>2
<1>8. ASSUME NEW h \in Manager, Retract(h) PROVE GrantInv'
  BY <1>8 DEF Retract, Return, Goto
<1>9. ASSUME NEW h \in Publisher, NEW l \in Lease, Publish(h, l) PROVE GrantInv'
  BY <1>9, ConsumeGrants DEF Publish
<1>10. ASSUME NEW h \in Publisher, Ask(h) PROVE GrantInv'
  <2>1. CASE arg[h] \in pending
    BY <1>10, <2>1 DEF Ask, Return, Goto
  <2>2. CASE ~(arg[h] \in pending)
    BY <1>10, <2>2 DEF Ask, Return, Goto
  <2> QED
    BY <2>1, <2>2
<1>11. ASSUME NEW h \in Publisher, Open(h) PROVE GrantInv'
  <2>1. CASE Authorized(arg[h])
    BY <1>11, <2>1, AuthorizedLease, ObservationType DEF Open, Return, Goto
  <2>2. CASE ~(Authorized(arg[h]))
    BY <1>11, <2>2, AuthorizedLease, ObservationType DEF Open, Return, Goto
  <2> QED
    BY <2>1, <2>2
<1>12. ASSUME NEW h \in Publisher, Record(h) PROVE GrantInv'
  BY <1>12 DEF Record, Goto
<1>13. ASSUME NEW h \in Publisher, Write(h) PROVE GrantInv'
  BY <1>13 DEF Write, Goto
<1>14. ASSUME NEW h \in Publisher, Close(h) PROVE GrantInv'
  BY <1>14 DEF Close, Goto
<1>15. ASSUME NEW h \in Publisher, Commit(h) PROVE GrantInv'
  <2>1. CASE arg[h] \in pending
    BY <1>15, <2>1 DEF Commit, Goto
  <2>2. CASE ~(arg[h] \in pending)
    BY <1>15, <2>2 DEF Commit, Goto
  <2> QED
    BY <2>1, <2>2
<1>16. ASSUME NEW h \in Publisher, Decide(h) PROVE GrantInv'
  <2>1. CASE Observation(arg[h]) = seen[h]
    BY <1>16, <2>1, ObservationType DEF Decide, Return, Goto
  <2>2. CASE ~(Observation(arg[h]) = seen[h])
    BY <1>16, <2>2, ObservationType DEF Decide, Return, Goto
  <2> QED
    BY <2>1, <2>2
<1>17. ASSUME NEW h \in Publisher, Withdraw(h) PROVE GrantInv'
  BY <1>17 DEF Withdraw, Return, Goto
<1>18. ASSUME NEW h \in Effector, NEW l \in Lease, Request(h, l) PROVE GrantInv'
  BY <1>18 DEF Request, Begin, Goto
<1>19. ASSUME NEW h \in Effector, EffectBegins(h) PROVE GrantInv'
  <2>1. CASE Permitted(arg[h])
    BY <1>19, <2>1, PermittedLease DEF EffectBegins, Return, Goto
  <2>2. CASE ~(Permitted(arg[h]))
    BY <1>19, <2>2, PermittedLease DEF EffectBegins, Return, Goto
  <2> QED
    BY <2>1, <2>2
<1>20. ASSUME NEW h \in Effector, NEW ok \in BOOLEAN, EffectEnds(h, ok) PROVE GrantInv'
  <2>1. /\ arg[h] \in Lease /\ lease[arg[h]].state = "active"
        /\ lease[arg[h]].used \in Nat /\ lease[arg[h]].used < Bindings
    BY <1>20 DEF EffectEnds, PlaceInv
  <2>2. CASE ok
    <3>1. /\ lease' = [lease EXCEPT ![arg[h]] = [@ EXCEPT !.used = lease[arg[h]].used + 1]]
          /\ Count(arg[h], lease[arg[h]].used + 1)
      BY <1>20, <2>2 DEF EffectEnds, NextBinding
    <3> QED
      BY <1>20, <2>1, <3>1 DEF EffectEnds, Count, Return, Goto
  <2>3. CASE ~ok
    BY <1>20, <2>1, <2>3 DEF EffectEnds, Return, Goto
  <2> QED
    BY <2>2, <2>3
<1>21. ASSUME NEW h \in Recorder, NEW l \in Lease, Plan(h, l) PROVE GrantInv'
  BY <1>21, ActiveLease DEF Plan, Begin, Goto
<1>22. ASSUME NEW h \in Recorder, Lock(h) PROVE GrantInv'
  <2>1. CASE fileLock
    BY <1>22, <2>1 DEF Lock, Return, Goto
  <2>2. CASE ~(fileLock)
    BY <1>22, <2>2 DEF Lock, Return, Goto
  <2> QED
    BY <2>1, <2>2
<1>23. ASSUME NEW h \in Recorder, Verify(h) PROVE GrantInv'
  BY <1>23 DEF Verify, Return, Goto
<1>24. CASE Restart
  BY <1>24 DEF Restart, NoLease, NoObservation
<1>25. CASE UNCHANGED vars
  BY <1>25 DEF vars
<1> HIDE DEF TypeOK, StoreOK, MutexesOK, ThreadsOK, GhostsOK, PlaceInv, GrantInv
<1> QED
  BY <1>1, <1>2, <1>3, <1>4, <1>5, <1>6, <1>7, <1>8, <1>9, <1>10, <1>11, <1>12, <1>13, <1>14, <1>15, <1>16, <1>17, <1>18, <1>19, <1>20, <1>21, <1>22, <1>23, <1>24, <1>25
     DEF Next, RevokeStep, PublishStep, EffectStep, RecordStep

\* An announced revocation is applied before it is retracted.
LEMMA RevokeInvStep == PilotInv /\ [Next]_vars => RevokeInv'
<1> SUFFICES ASSUME PilotInv, [Next]_vars PROVE RevokeInv'
  OBVIOUS
<1> USE PilotAssumption DEF PilotInv, TypeOK, StoreOK, MutexesOK, ThreadsOK, Thread, PlaceInv, RevokeInv, Held, store, mutexes, evidence, threads, ghosts
<1>1. ASSUME NEW l \in Lease, Issue(l) PROVE RevokeInv'
  BY <1>1 DEF Issue, NoLease
<1>2. ASSUME NEW l \in Lease, Act(l) PROVE RevokeInv'
  BY <1>2, ActiveLease DEF Act, Consume, Count, NextBinding
<1>3. ASSUME NEW l \in Lease, Seal(l) PROVE RevokeInv'
  BY <1>3, InForceLease DEF Seal
<1>4. ASSUME NEW l \in Lease, Tick(l) PROVE RevokeInv'
  BY <1>4 DEF Tick, Window
<1>5. ASSUME NEW h \in Manager, NEW l \in Lease, Manage(h, l) PROVE RevokeInv'
  BY <1>5 DEF Manage, Begin, Goto
<1>6. ASSUME NEW h \in Manager, Announce(h) PROVE RevokeInv'
  <2>1. CASE Revocable(arg[h], clock[h])
    BY <1>6, <2>1, RevocableLease DEF Announce, Goto
  <2>2. CASE ~(Revocable(arg[h], clock[h]))
    BY <1>6, <2>2, RevocableLease DEF Announce, Goto
  <2> QED
    BY <2>1, <2>2
<1>7. ASSUME NEW h \in Manager, Revoke(h) PROVE RevokeInv'
  <2>1. CASE Revocable(arg[h], clock[h])
    BY <1>7, <2>1, RevocableLease DEF Revoke, Goto
  <2>2. CASE ~(Revocable(arg[h], clock[h]))
    BY <1>7, <2>2, RevocableLease DEF Revoke, Goto
  <2> QED
    BY <2>1, <2>2
<1>8. ASSUME NEW h \in Manager, Retract(h) PROVE RevokeInv'
  BY <1>8 DEF Retract, Return, Goto
<1>9. ASSUME NEW h \in Publisher, NEW l \in Lease, Publish(h, l) PROVE RevokeInv'
  BY <1>9, ActiveLease DEF Publish, Consume, Count, NextBinding, Begin, Goto
<1>10. ASSUME NEW h \in Publisher, Ask(h) PROVE RevokeInv'
  <2>1. CASE arg[h] \in pending
    BY <1>10, <2>1 DEF Ask, Return, Goto
  <2>2. CASE ~(arg[h] \in pending)
    BY <1>10, <2>2 DEF Ask, Return, Goto
  <2> QED
    BY <2>1, <2>2
<1>11. ASSUME NEW h \in Publisher, Open(h) PROVE RevokeInv'
  <2>1. CASE Authorized(arg[h])
    <3>1. arg[h] \in Lease
      BY <1>11 DEF Open
    <3>2. lease[arg[h]].state = "active" /\ Observation(arg[h]).lease = lease[arg[h]]
      BY <2>1, <3>1, AuthorizedLease, ObservationType
    <3> QED
      BY <1>11, <2>1, <3>2 DEF Open, Goto
  <2>2. CASE ~(Authorized(arg[h]))
    BY <1>11, <2>2 DEF Open, Return, Goto
  <2> QED
    BY <2>1, <2>2
<1>12. ASSUME NEW h \in Publisher, Record(h) PROVE RevokeInv'
  BY <1>12 DEF Record, Goto
<1>13. ASSUME NEW h \in Publisher, Write(h) PROVE RevokeInv'
  BY <1>13 DEF Write, Goto
<1>14. ASSUME NEW h \in Publisher, Close(h) PROVE RevokeInv'
  BY <1>14 DEF Close, Goto
<1>15. ASSUME NEW h \in Publisher, Commit(h) PROVE RevokeInv'
  <2>1. CASE arg[h] \in pending
    BY <1>15, <2>1 DEF Commit, Goto
  <2>2. CASE ~(arg[h] \in pending)
    BY <1>15, <2>2 DEF Commit, Goto
  <2> QED
    BY <2>1, <2>2
<1>16. ASSUME NEW h \in Publisher, Decide(h) PROVE RevokeInv'
  <2>1. CASE Observation(arg[h]) = seen[h]
    BY <1>16, <2>1, ObservationType DEF Decide, Return, Goto
  <2>2. CASE ~(Observation(arg[h]) = seen[h])
    <3>1. pc' = [pc EXCEPT ![h] = "denied"]
      BY <1>16, <2>2 DEF Decide, Goto
    <3>2. UNCHANGED <<lease, pending, revoking, arg, clock, seen>>
      BY <1>16, <2>2 DEF Decide
    <3>3. pc[h] = "decide"
      BY <1>16 DEF Decide
    <3> QED
      BY <3>1, <3>2, <3>3
  <2> QED
    BY <2>1, <2>2
<1>17. ASSUME NEW h \in Publisher, Withdraw(h) PROVE RevokeInv'
  BY <1>17 DEF Withdraw, Return, Goto
<1>18. ASSUME NEW h \in Effector, NEW l \in Lease, Request(h, l) PROVE RevokeInv'
  BY <1>18 DEF Request, Begin, Goto
<1>19. ASSUME NEW h \in Effector, EffectBegins(h) PROVE RevokeInv'
  <2>1. CASE Permitted(arg[h])
    BY <1>19, <2>1, PermittedLease DEF EffectBegins, Return, Goto
  <2>2. CASE ~(Permitted(arg[h]))
    BY <1>19, <2>2, PermittedLease DEF EffectBegins, Return, Goto
  <2> QED
    BY <2>1, <2>2
<1>20. ASSUME NEW h \in Effector, NEW ok \in BOOLEAN, EffectEnds(h, ok) PROVE RevokeInv'
  <2>1. /\ arg[h] \in Lease /\ lease[arg[h]].state = "active"
        /\ lease[arg[h]].used \in Nat /\ lease[arg[h]].used < Bindings
    BY <1>20 DEF EffectEnds, PlaceInv, LeaseRecord
  <2>2. CASE ok
    <3>1. /\ lease' = [lease EXCEPT ![arg[h]] = [@ EXCEPT !.used = lease[arg[h]].used + 1]]
          /\ Count(arg[h], lease[arg[h]].used + 1)
      BY <1>20, <2>2 DEF EffectEnds, NextBinding
    <3> QED
      BY <1>20, <2>1, <3>1 DEF EffectEnds, Count, Return, Goto
  <2>3. CASE ~ok
    BY <1>20, <2>1, <2>3 DEF EffectEnds, Return, Goto
  <2> QED
    BY <2>2, <2>3
<1>21. ASSUME NEW h \in Recorder, NEW l \in Lease, Plan(h, l) PROVE RevokeInv'
  BY <1>21, ActiveLease DEF Plan, Begin, Goto
<1>22. ASSUME NEW h \in Recorder, Lock(h) PROVE RevokeInv'
  <2>1. CASE fileLock
    BY <1>22, <2>1 DEF Lock, Return, Goto
  <2>2. CASE ~(fileLock)
    BY <1>22, <2>2 DEF Lock, Return, Goto
  <2> QED
    BY <2>1, <2>2
<1>23. ASSUME NEW h \in Recorder, Verify(h) PROVE RevokeInv'
  BY <1>23 DEF Verify, Return, Goto
<1>24. CASE Restart
  BY <1>24 DEF Restart, NoLease, NoObservation
<1>25. CASE UNCHANGED vars
  BY <1>25 DEF vars
<1> HIDE DEF TypeOK, StoreOK, MutexesOK, ThreadsOK, PlaceInv, RevokeInv
<1> QED
  BY <1>1, <1>2, <1>3, <1>4, <1>5, <1>6, <1>7, <1>8, <1>9, <1>10, <1>11, <1>12, <1>13, <1>14, <1>15, <1>16, <1>17, <1>18, <1>19, <1>20, <1>21, <1>22, <1>23, <1>24, <1>25
     DEF Next, RevokeStep, PublishStep, EffectStep, RecordStep

\* What is on disk stays, but for what a publication that is alone withdraws.
LEMMA PublishInvStep == PilotInv /\ [Next]_vars => PublishInv'
<1> SUFFICES ASSUME PilotInv, [Next]_vars PROVE PublishInv'
  OBVIOUS
<1> USE PilotAssumption DEF PilotInv, TypeOK, StoreOK, MutexesOK, ThreadsOK, Thread, GhostsOK, LeaseRecord, PlaceInv, PublishInv, AloneInv, GrantInv, Held, Publishing, store, mutexes, evidence, threads, ghosts
<1>1. ASSUME NEW l \in Lease, Issue(l) PROVE PublishInv'
  BY <1>1 DEF Issue, NoLease
<1>2. ASSUME NEW l \in Lease, Act(l) PROVE PublishInv'
  BY <1>2, ActiveLease DEF Act, Consume, Count, NextBinding
<1>3. ASSUME NEW l \in Lease, Seal(l) PROVE PublishInv'
  BY <1>3, InForceLease DEF Seal
<1>4. ASSUME NEW l \in Lease, Tick(l) PROVE PublishInv'
  BY <1>4 DEF Tick, Window
<1>5. ASSUME NEW h \in Manager, NEW l \in Lease, Manage(h, l) PROVE PublishInv'
  BY <1>5 DEF Manage, Begin, Goto
<1>6. ASSUME NEW h \in Manager, Announce(h) PROVE PublishInv'
  <2>1. CASE Revocable(arg[h], clock[h])
    BY <1>6, <2>1, RevocableLease DEF Announce, Goto
  <2>2. CASE ~(Revocable(arg[h], clock[h]))
    BY <1>6, <2>2, RevocableLease DEF Announce, Goto
  <2> QED
    BY <2>1, <2>2
<1>7. ASSUME NEW h \in Manager, Revoke(h) PROVE PublishInv'
  <2>1. CASE Revocable(arg[h], clock[h])
    BY <1>7, <2>1, RevocableLease DEF Revoke, Goto
  <2>2. CASE ~(Revocable(arg[h], clock[h]))
    BY <1>7, <2>2, RevocableLease DEF Revoke, Goto
  <2> QED
    BY <2>1, <2>2
<1>8. ASSUME NEW h \in Manager, Retract(h) PROVE PublishInv'
  BY <1>8 DEF Retract, Return, Goto
<1>9. ASSUME NEW h \in Publisher, NEW l \in Lease, Publish(h, l) PROVE PublishInv'
  <2>1. /\ lease[l].used + 1 = EvidenceAt
        /\ lease' = [lease EXCEPT ![l] = [@ EXCEPT !.used = lease[l].used + 1]]
        /\ pc[h] = "idle"
        /\ UNCHANGED <<receipts, committed, published>>
    BY <1>9 DEF Publish, Consume, NextBinding, Begin
  <2>2. \A k \in Thread : pc[k] \in Publishing =>
            /\ arg[k] \in Lease /\ arg[k] # l /\ pc'[k] = pc[k] /\ arg'[k] = arg[k]
    <3> SUFFICES ASSUME NEW k \in Thread, pc[k] \in Publishing
                 PROVE  /\ arg[k] \in Lease /\ arg[k] # l
                        /\ pc'[k] = pc[k] /\ arg'[k] = arg[k]
      OBVIOUS
    <3>1. arg[k] \in Lease /\ lease[arg[k]].used >= EvidenceAt /\ k # h
      BY <2>1
    <3>2. lease[l].used \in Nat
      OBVIOUS
    <3> QED
      BY <1>9, <2>1, <3>1, <3>2 DEF Publish, Begin, Goto
  <2>3. lease'[l].used = EvidenceAt /\ \A m \in Lease \ {l} : lease'[m] = lease[m]
    BY <2>1
  <2>4. \A k \in Thread : pc'[k] \in Publishing => k = h \/ pc[k] \in Publishing
    BY <1>9 DEF Publish, Begin, Goto
  <2>5. arg'[h] = l
    BY <1>9 DEF Publish, Begin, Goto
  <2>6. published[h] = "nothing"
    BY <1>9, <2>1
  <2>7. \A k \in Thread : pc[k] # "idle" => pc'[k] = pc[k]
    BY <1>9 DEF Publish, Begin, Goto
  <2>8. \A k \in Thread :
           pc'[k] \in {"idle", "ask", "open", "record", "write"} => published'[k] = "nothing"
    BY <2>1, <2>6, <2>7
  <2>9. \A k \in Thread : pc'[k] \in Publishing =>
          /\ lease'[arg'[k]].used >= EvidenceAt
          /\ published'[k] # "nothing" => arg'[k] \in receipts'
          /\ published'[k] = "wrote" => arg'[k] \notin committed'
    <3> SUFFICES ASSUME NEW k \in Thread, pc'[k] \in Publishing
                 PROVE  /\ lease'[arg'[k]].used >= EvidenceAt
                        /\ published'[k] # "nothing" => arg'[k] \in receipts'
                        /\ published'[k] = "wrote" => arg'[k] \notin committed'
      OBVIOUS
    <3>1. CASE k = h
      <4>1. arg'[k] = l /\ published'[k] = "nothing"
        BY <2>1, <2>5, <2>6, <3>1
      <4>2. lease'[arg'[k]].used >= EvidenceAt
        <5>1. lease'[arg'[k]].used = EvidenceAt
          BY <4>1, <2>3
        <5>2. EvidenceAt \in Nat
          BY PilotAssumption
        <5> QED
          BY <5>1, <5>2
      <4> QED
        BY <4>1, <4>2
    <3>2. CASE k # h
      <4>1. pc[k] \in Publishing
        BY <2>4, <3>2
      <4>2. arg'[k] = arg[k] /\ arg[k] \in Lease /\ lease'[arg[k]] = lease[arg[k]]
        BY <4>1, <2>2, <2>3
      <4>3. UNCHANGED <<receipts, committed, published>>
        BY <2>1
      <4> QED
        BY <4>1, <4>2, <4>3
    <3> QED
      BY <3>1, <3>2
  <2> QED
    BY <2>1, <2>8, <2>9
<1>10. ASSUME NEW h \in Publisher, Ask(h) PROVE PublishInv'
  <2>1. CASE arg[h] \in pending
    <3>1. Return(h) /\ UNCHANGED <<lease, receipts, committed>>
      BY <1>10, <2>1 DEF Ask
    <3> QED
      BY <3>1, ReturnPublishes
  <2>2. CASE ~(arg[h] \in pending)
    BY <1>10, <2>2 DEF Ask, Goto
  <2> QED
    BY <2>1, <2>2
<1>11. ASSUME NEW h \in Publisher, Open(h) PROVE PublishInv'
  <2>1. CASE Authorized(arg[h])
    BY <1>11, <2>1 DEF Open, Goto
  <2>2. CASE ~(Authorized(arg[h]))
    <3>1. Return(h) /\ UNCHANGED <<lease, receipts, committed>>
      BY <1>11, <2>2 DEF Open
    <3> QED
      BY <3>1, ReturnPublishes
  <2> QED
    BY <2>1, <2>2
<1>12. ASSUME NEW h \in Publisher, Record(h) PROVE PublishInv'
  BY <1>12 DEF Record, Goto
<1>13. ASSUME NEW h \in Publisher, Write(h) PROVE PublishInv'
  BY <1>13 DEF Write, Goto
<1>14. ASSUME NEW h \in Publisher, Close(h) PROVE PublishInv'
  BY <1>14 DEF Close, Goto
<1>15. ASSUME NEW h \in Publisher, Commit(h) PROVE PublishInv'
  <2>1. CASE arg[h] \in pending
    <3>1. Goto(h, "denied") /\ pc[h] = "commit"
      BY <1>15, <2>1 DEF Commit
    <3>2. UNCHANGED <<lease, receipts, committed, arg, published>>
      BY <1>15, <2>1 DEF Commit
    <3> QED
      BY <3>1, <3>2, GotoPublishes
  <2>2. CASE ~(arg[h] \in pending)
    BY <1>15, <2>2 DEF Commit, Goto
  <2> QED
    BY <2>1, <2>2
<1>16. ASSUME NEW h \in Publisher, Decide(h) PROVE PublishInv'
  <2>1. CASE Observation(arg[h]) = seen[h]
    <3>1. \A k \in Thread : pc'[k] \in Publishing =>
             /\ k # h /\ pc[k] \in Publishing /\ pc[h] \in Publishing
             /\ arg'[k] = arg[k] /\ published'[k] = published[k]
      BY <1>16, <2>1 DEF Decide, Return, Goto
    <3>2. \/ committed' = committed
          \/ committed' = committed \cup {arg[h]} /\ published[h] # "nothing"
      BY <1>16, <2>1 DEF Decide
    <3>3. arg[h] \in receipts \/ committed' = committed
      BY <1>16, <3>2 DEF Decide
    <3>4. committed' \subseteq receipts' /\ UNCHANGED <<lease, receipts>>
      BY <1>16, <3>2, <3>3 DEF Decide
    <3>5. \A k \in Thread : pc'[k] \in Publishing /\ published'[k] = "wrote"
                              => arg'[k] \notin committed'
      <4> SUFFICES ASSUME NEW k \in Thread, pc'[k] \in Publishing, published'[k] = "wrote"
                   PROVE  arg'[k] \notin committed'
        OBVIOUS
      <4>1. /\ k # h /\ pc[k] \in Publishing /\ pc[h] \in Publishing
            /\ arg'[k] = arg[k] /\ published[k] = "wrote"
        BY <3>1
      <4>2. arg[k] \notin committed /\ arg[k] # arg[h]
        BY <4>1
      <4> QED
        BY <3>2, <4>1, <4>2
    <3>6. \A k \in Thread :
             pc'[k] \in {"idle", "ask", "open", "record", "write"} => published'[k] = "nothing"
      <4>1. /\ pc' = [pc EXCEPT ![h] = "idle"]
            /\ published' = [published EXCEPT ![h] = "nothing"]
        BY <1>16, <2>1 DEF Decide, Return, Goto
      <4> QED
        BY <4>1
    <3> QED
      BY <3>1, <3>4, <3>5, <3>6
  <2>2. CASE ~(Observation(arg[h]) = seen[h])
    BY <1>16, <2>2 DEF Decide, Goto
  <2> QED
    BY <2>1, <2>2
<1>17. ASSUME NEW h \in Publisher, Withdraw(h) PROVE PublishInv'
  BY <1>17 DEF Withdraw, Return, Goto
<1>18. ASSUME NEW h \in Effector, NEW l \in Lease, Request(h, l) PROVE PublishInv'
  BY <1>18 DEF Request, Begin, Goto
<1>19. ASSUME NEW h \in Effector, EffectBegins(h) PROVE PublishInv'
  <2>1. CASE Permitted(arg[h])
    BY <1>19, <2>1 DEF EffectBegins, Goto
  <2>2. CASE ~(Permitted(arg[h]))
    <3>1. Return(h) /\ UNCHANGED <<lease, receipts, committed>>
      BY <1>19, <2>2 DEF EffectBegins
    <3> QED
      BY <3>1, ReturnPublishes
  <2> QED
    BY <2>1, <2>2
<1>20. ASSUME NEW h \in Effector, NEW ok \in BOOLEAN, EffectEnds(h, ok) PROVE PublishInv'
  <2>1. /\ arg[h] \in Lease /\ lease[arg[h]].state = "active"
        /\ lease[arg[h]].used \in Nat /\ lease[arg[h]].used < Bindings
    BY <1>20 DEF EffectEnds, PlaceInv
  <2>2. CASE ok
    <3>1. /\ lease' = [lease EXCEPT ![arg[h]] = [@ EXCEPT !.used = lease[arg[h]].used + 1]]
          /\ Count(arg[h], lease[arg[h]].used + 1)
      BY <1>20, <2>2 DEF EffectEnds, NextBinding
    <3> QED
      BY <1>20, <2>1, <3>1 DEF EffectEnds, Count, Return, Goto
  <2>3. CASE ~ok
    BY <1>20, <2>1, <2>3 DEF EffectEnds, Return, Goto
  <2> QED
    BY <2>2, <2>3
<1>21. ASSUME NEW h \in Recorder, NEW l \in Lease, Plan(h, l) PROVE PublishInv'
  BY <1>21, ActiveLease DEF Plan, Begin, Goto
<1>22. ASSUME NEW h \in Recorder, Lock(h) PROVE PublishInv'
  <2>1. CASE fileLock
    <3>1. Return(h) /\ UNCHANGED <<lease, receipts, committed>>
      BY <1>22, <2>1 DEF Lock
    <3> QED
      BY <3>1, ReturnPublishes
  <2>2. CASE ~(fileLock)
    BY <1>22, <2>2 DEF Lock, Goto
  <2> QED
    BY <2>1, <2>2
<1>23. ASSUME NEW h \in Recorder, Verify(h) PROVE PublishInv'
  BY <1>23 DEF Verify, Return, Goto
<1>24. CASE Restart
  BY <1>24 DEF Restart, NoLease, NoObservation
<1>25. CASE UNCHANGED vars
  BY <1>25 DEF vars
<1> HIDE DEF TypeOK, StoreOK, MutexesOK, ThreadsOK, GhostsOK, PlaceInv, PublishInv, AloneInv, GrantInv
<1> QED
  BY <1>1, <1>2, <1>3, <1>4, <1>5, <1>6, <1>7, <1>8, <1>9, <1>10, <1>11, <1>12, <1>13, <1>14, <1>15, <1>16, <1>17, <1>18, <1>19, <1>20, <1>21, <1>22, <1>23, <1>24, <1>25
     DEF Next, RevokeStep, PublishStep, EffectStep, RecordStep

\* A second publication would need the binding again.
LEMMA AloneStep == PilotInv /\ [Next]_vars => AloneInv'
<1> SUFFICES ASSUME PilotInv, [Next]_vars PROVE AloneInv'
  OBVIOUS
<1> USE PilotAssumption DEF PilotInv, TypeOK, StoreOK, MutexesOK, ThreadsOK, Thread, GhostsOK, LeaseRecord, PublishInv, AloneInv, Publishing, store, mutexes, evidence, threads, ghosts
<1>1. ASSUME NEW l \in Lease, Issue(l) PROVE AloneInv'
  BY <1>1 DEF Issue
<1>2. ASSUME NEW l \in Lease, Act(l) PROVE AloneInv'
  BY <1>2, ActiveLease DEF Act, Consume, NextBinding
<1>3. ASSUME NEW l \in Lease, Seal(l) PROVE AloneInv'
  BY <1>3, InForceLease DEF Seal
<1>4. ASSUME NEW l \in Lease, Tick(l) PROVE AloneInv'
  BY <1>4 DEF Tick
<1>5. ASSUME NEW h \in Manager, NEW l \in Lease, Manage(h, l) PROVE AloneInv'
  BY <1>5 DEF Manage, Begin, Goto
<1>6. ASSUME NEW h \in Manager, Announce(h) PROVE AloneInv'
  <2>1. CASE Revocable(arg[h], clock[h])
    BY <1>6, <2>1, RevocableLease DEF Announce, Goto
  <2>2. CASE ~(Revocable(arg[h], clock[h]))
    BY <1>6, <2>2, RevocableLease DEF Announce, Goto
  <2> QED
    BY <2>1, <2>2
<1>7. ASSUME NEW h \in Manager, Revoke(h) PROVE AloneInv'
  <2>1. CASE Revocable(arg[h], clock[h])
    BY <1>7, <2>1, RevocableLease DEF Revoke, Goto
  <2>2. CASE ~(Revocable(arg[h], clock[h]))
    BY <1>7, <2>2, RevocableLease DEF Revoke, Goto
  <2> QED
    BY <2>1, <2>2
<1>8. ASSUME NEW h \in Manager, Retract(h) PROVE AloneInv'
  BY <1>8 DEF Retract, Return, Goto
<1>9. ASSUME NEW h \in Publisher, NEW l \in Lease, Publish(h, l) PROVE AloneInv'
  BY <1>9, ActiveLease DEF Publish, Consume, NextBinding, Begin, Goto
<1>10. ASSUME NEW h \in Publisher, Ask(h) PROVE AloneInv'
  <2>1. CASE arg[h] \in pending
    <3>1. Return(h)
      BY <1>10, <2>1 DEF Ask
    <3> QED
      BY <3>1, ReturnAlone
  <2>2. CASE ~(arg[h] \in pending)
    BY <1>10, <2>2 DEF Ask, Goto
  <2> QED
    BY <2>1, <2>2
<1>11. ASSUME NEW h \in Publisher, Open(h) PROVE AloneInv'
  <2>1. CASE Authorized(arg[h])
    BY <1>11, <2>1 DEF Open, Goto
  <2>2. CASE ~(Authorized(arg[h]))
    <3>1. Return(h)
      BY <1>11, <2>2 DEF Open
    <3> QED
      BY <3>1, ReturnAlone
  <2> QED
    BY <2>1, <2>2
<1>12. ASSUME NEW h \in Publisher, Record(h) PROVE AloneInv'
  <2>1. CASE fileLock
    BY <1>12, <2>1, GotoAlone DEF Record, Publishing
  <2>2. CASE ~fileLock
    BY <1>12, <2>2, GotoAlone DEF Record, Publishing
  <2> QED
    BY <2>1, <2>2
<1>13. ASSUME NEW h \in Publisher, Write(h) PROVE AloneInv'
  BY <1>13 DEF Write, Goto
<1>14. ASSUME NEW h \in Publisher, Close(h) PROVE AloneInv'
  BY <1>14 DEF Close, Goto
<1>15. ASSUME NEW h \in Publisher, Commit(h) PROVE AloneInv'
  <2>1. CASE arg[h] \in pending
    BY <1>15, <2>1 DEF Commit, Goto
  <2>2. CASE ~(arg[h] \in pending)
    BY <1>15, <2>2 DEF Commit, Goto
  <2> QED
    BY <2>1, <2>2
<1>16. ASSUME NEW h \in Publisher, Decide(h) PROVE AloneInv'
  <2>1. CASE Observation(arg[h]) = seen[h]
    <3>1. Return(h)
      BY <1>16, <2>1 DEF Decide
    <3> QED
      BY <3>1, ReturnAlone
  <2>2. CASE ~(Observation(arg[h]) = seen[h])
    BY <1>16, <2>2, GotoAlone DEF Decide
  <2> QED
    BY <2>1, <2>2
<1>17. ASSUME NEW h \in Publisher, Withdraw(h) PROVE AloneInv'
  BY <1>17 DEF Withdraw, Return, Goto
<1>18. ASSUME NEW h \in Effector, NEW l \in Lease, Request(h, l) PROVE AloneInv'
  BY <1>18 DEF Request, Begin, Goto
<1>19. ASSUME NEW h \in Effector, EffectBegins(h) PROVE AloneInv'
  <2>1. CASE Permitted(arg[h])
    BY <1>19, <2>1, GotoAlone DEF EffectBegins
  <2>2. CASE ~(Permitted(arg[h]))
    <3>1. Return(h)
      BY <1>19, <2>2 DEF EffectBegins
    <3> QED
      BY <3>1, ReturnAlone
  <2> QED
    BY <2>1, <2>2
<1>20. ASSUME NEW h \in Effector, NEW ok \in BOOLEAN, EffectEnds(h, ok) PROVE AloneInv'
  <2>1. CASE ok
    BY <1>20, <2>1 DEF EffectEnds, Return, Goto, NextBinding
  <2>2. CASE ~(ok)
    BY <1>20, <2>2 DEF EffectEnds, Return, Goto, NextBinding
  <2> QED
    BY <2>1, <2>2
<1>21. ASSUME NEW h \in Recorder, NEW l \in Lease, Plan(h, l) PROVE AloneInv'
  BY <1>21, ActiveLease DEF Plan, Begin, Goto
<1>22. ASSUME NEW h \in Recorder, Lock(h) PROVE AloneInv'
  <2>1. CASE fileLock
    <3>1. Return(h)
      BY <1>22, <2>1 DEF Lock
    <3> QED
      BY <3>1, ReturnAlone
  <2>2. CASE ~(fileLock)
    BY <1>22, <2>2, GotoAlone DEF Lock
  <2> QED
    BY <2>1, <2>2
<1>23. ASSUME NEW h \in Recorder, Verify(h) PROVE AloneInv'
  BY <1>23 DEF Verify, Return, Goto
<1>24. CASE Restart
  BY <1>24 DEF Restart, NoLease, NoObservation
<1>25. CASE UNCHANGED vars
  BY <1>25 DEF vars
<1> HIDE DEF TypeOK, StoreOK, MutexesOK, ThreadsOK, GhostsOK, PublishInv, AloneInv
<1> QED
  BY <1>1, <1>2, <1>3, <1>4, <1>5, <1>6, <1>7, <1>8, <1>9, <1>10, <1>11, <1>12, <1>13, <1>14, <1>15, <1>16, <1>17, <1>18, <1>19, <1>20, <1>21, <1>22, <1>23, <1>24, <1>25
     DEF Next, RevokeStep, PublishStep, EffectStep, RecordStep

-----------------------------------------------------------------------------
(* The theorems. *)

\* The invariant holds at the start ...
LEMMA PilotInvInit == Init => PilotInv
<1> SUFFICES ASSUME Init PROVE PilotInv
  OBVIOUS
<1> USE PilotAssumption DEF Init, NoLease
<1>1. TypeOK
  <2>1. NoObservation \in [lease : LeaseRecord, state : State]
    BY NoObservationType
  <2>2. StoreOK
    BY DEF StoreOK, LeaseRecord, Window
  <2>3. ThreadsOK
    BY <2>1 DEF ThreadsOK, Window, Place
  <2>4. MutexesOK
    BY DEF MutexesOK
  <2>5. GhostsOK
    <3>1. [b \in 1..Bindings |-> 0] \in [1..Bindings -> 0..Many]
      BY DEF Many
    <3> QED
      BY <3>1 DEF GhostsOK
  <2>6. fileLock \in BOOLEAN /\ receipts \subseteq Lease
    OBVIOUS
  <2>7. crashes \in 0..MaxCrashes
    OBVIOUS
  <2> QED
    BY <2>2, <2>3, <2>4, <2>5, <2>6, <2>7 DEF TypeOK
<1>2. PlaceInv /\ HolderInv
  BY DEF PlaceInv, HolderInv, Held
<1>3. GrantInv /\ RevokeInv /\ PublishInv /\ AloneInv
  BY DEF GrantInv, RevokeInv, PublishInv, AloneInv, Publishing
<1> QED
  BY <1>1, <1>2, <1>3 DEF PilotInv

\* ... and every step keeps it ...
LEMMA PilotInvStep == PilotInv /\ [Next]_vars => PilotInv'
BY ThreadsStep, RestStep, PlaceStep, HolderStep, GrantStep, RevokeInvStep, PublishInvStep,
   AloneStep DEF PilotInv, TypeOK, RestOK

\* ... so it holds always.
LEMMA PilotInvariant == Spec => []PilotInv
BY PilotInvInit, PilotInvStep, PTL DEF Spec

\* Every variable of the registry and of its threads keeps its type.
THEOREM PilotTypeCorrect == Spec => []TypeOK
<1>1. PilotInv => TypeOK
  BY DEF PilotInv
<1> QED
  BY <1>1, PilotInvariant, PTL

\* However many requests ask at the same time, a binding authorizes one action
\* (authorize_binding, authorize_execute_and_consume).
THEOREM BindingsGrantedOnce == Spec => []GrantedOnce
<1>1. PilotInv => GrantedOnce
  BY DEF PilotInv, GrantInv, GrantedOnce
<1> QED
  BY <1>1, PilotInvariant, PTL

\* Evidence reported as recorded stays on disk, for any number of publishers,
\* revocations and restarts (_runtime_evidence_transaction_failed).
THEOREM CommittedStaysPublished == Spec => []CommittedIsPublished
<1>1. PilotInv => CommittedIsPublished
  BY DEF PilotInv, PublishInv, CommittedIsPublished
<1> QED
  BY <1>1, PilotInvariant, PTL

\* A lease whose revocation was announced is either revoked or still pending.
LEMMA RevokingIsPending ==
  ASSUME PilotInv, NEW l \in revoking
  PROVE  lease[l].state # "active" \/ l \in pending
BY DEF PilotInv, RevokeInv

\* No evidence is committed under a lease whose revocation is announced.
LEMMA NoLateCommit ==
  ASSUME PilotInv, [Next]_vars, NEW l \in revoking, l \in committed'
  PROVE  l \in committed
<1> SUFFICES ASSUME l \notin committed PROVE FALSE
  OBVIOUS
<1>1. PICK h \in Publisher : Decide(h) /\ arg[h] = l /\ Observation(l) = seen[h]
  BY DEF Next, RevokeStep, PublishStep, EffectStep, RecordStep, vars, ghosts,
         Issue, Act, Seal, Tick, Manage, Announce, Revoke, Retract, Publish, Ask, Open,
         Record, Write, Close, Commit, Decide, Withdraw, Request, EffectBegins,
         EffectEnds, Plan, Lock, Verify, Restart
<1>2. pc[h] = "decide" /\ h \in Thread /\ l \in Lease
  BY <1>1 DEF Decide, Thread, PilotInv, TypeOK, GhostsOK
<1>3. seen[h].lease.state = "active" /\ l \notin pending
  BY <1>1, <1>2 DEF PilotInv, RevokeInv
<1>4. lease[l] = seen[h].lease
  BY <1>1, <1>2, ObservationType DEF PilotInv, TypeOK
<1> QED
  BY <1>3, <1>4, RevokingIsPending

\* No effect begins under such a lease.
LEMMA NoLateEffect ==
  ASSUME PilotInv, [Next]_vars, NEW l \in revoking, NEW h \in Effector,
         pc[h] # "effect", pc'[h] = "effect"
  PROVE  arg'[h] # l
<1>1. h \in Thread /\ ThreadsOK /\ StoreOK
  BY DEF Thread, PilotInv, TypeOK
<1>2. EffectBegins(h) /\ Permitted(arg[h]) /\ arg' = arg
  <2> USE DEF ThreadsOK, Begin, Return, Goto, threads
  <2>1. ASSUME NEW m \in Lease, Issue(m) \/ Act(m) \/ Seal(m) \/ Tick(m)
        PROVE  FALSE
    BY <2>1 DEF Issue, Act, Seal, Tick
  <2>2. ASSUME NEW g \in Manager, RevokeStep(g) \/ \E m \in Lease : Manage(g, m)
        PROVE  FALSE
    BY <1>1, <2>2 DEF RevokeStep, Announce, Revoke, Retract, Manage
  <2>3. ASSUME NEW g \in Publisher, PublishStep(g) \/ \E m \in Lease : Publish(g, m)
        PROVE  FALSE
    BY <1>1, <2>3 DEF PublishStep, Ask, Open, Record, Write, Close, Commit, Decide, Withdraw, Publish
  <2>4. ASSUME NEW g \in Effector, EffectStep(g) \/ \E m \in Lease : Request(g, m)
        PROVE  EffectBegins(h) /\ Permitted(arg[h]) /\ arg' = arg
    <3>1. EffectBegins(g)
      BY <1>1, <2>4 DEF EffectStep, EffectEnds, Request
    <3>2. g = h /\ Permitted(arg[g])
      BY <1>1, <3>1 DEF EffectBegins
    <3> QED
      BY <3>1, <3>2 DEF EffectBegins
  <2>5. ASSUME NEW g \in Recorder, RecordStep(g) \/ \E m \in Lease : Plan(g, m)
        PROVE  FALSE
    BY <1>1, <2>5 DEF RecordStep, Lock, Verify, Plan
  <2>6. ~Restart /\ ~UNCHANGED vars
    BY <1>1 DEF Restart, vars
  <2> HIDE DEF ThreadsOK, Begin, Return, Goto, threads
  <2> QED
    BY <2>1, <2>2, <2>3, <2>4, <2>5, <2>6 DEF Next
<1>3. arg[h] \in Lease
  BY <1>1, <1>2 DEF EffectBegins, PilotInv, PlaceInv
<1>4. lease[arg[h]].state = "active" /\ arg[h] \notin pending
  BY <1>1, <1>2, <1>3, PermittedLease
<1> QED
  BY <1>2, <1>4, RevokingIsPending

\* An announced revocation is not overtaken: it waits for the registry's lock,
\* and meanwhile nothing commits under the lease and no effect begins.
THEOREM AnnouncedRevocationIsHonoured == Spec => RevocationIsHonoured
<1>1. PilotInv /\ [Next]_vars =>
        [\A l \in revoking :
            /\ l \in committed' => l \in committed
            /\ \A h \in Effector :
                  pc[h] # "effect" /\ pc'[h] = "effect" => arg'[h] # l]_vars
  BY NoLateCommit, NoLateEffect
<1> QED
  BY <1>1, PilotInvariant, PTL DEF Spec, RevocationIsHonoured

\* Only the recording outside a transaction takes the mutexes against the order
\* _intent_lock, the registry's _lock, _RECORD_LOCK: a set of threads that wait for
\* each other has such a recording and the operation of a transaction in it, each
\* with the mutex the other asks for.
THEOREM DeadlockIsTheInversion == Spec => []OnlyInversionDeadlocks
<1>1. ASSUME PilotInv PROVE OnlyInversionDeadlocks
  <2> SUFFICES ASSUME NEW S \in SUBSET Thread, S # {}, \A h \in S : WaitsFor(h) \in S
               PROVE  /\ \E h \in S : pc[h] = "verify" /\ recording = h
                      /\ \E h \in S : pc[h] = "record" /\ registry = h
    BY DEF OnlyInversionDeadlocks
  <2> USE DEF PilotInv, PlaceInv, HolderInv, Held, WaitsFor
  <2>1. NoThread \notin S
    BY PilotAssumption
  <2>2. recording \in S \/ registry \in S \/ intent \in S
    BY <2>1
  <2>3. intent \in S => registry \in S
    BY <1>1, <2>1
  <2>4. registry \in S => recording \in S
    BY <1>1, <2>1
  <2>5. recording \in S => registry \in S /\ pc[recording] = "verify"
    BY <1>1, <2>1
  <2>6. registry \in S => pc[registry] = "record"
    BY <1>1, <2>1
  <2> QED
    BY <2>2, <2>3, <2>4, <2>5, <2>6
<1> QED
  BY <1>1, PilotInvariant, PTL

\* The lock file of the receipts appears with a thread that records, and goes
\* before that thread goes on.
LEMMA LockFileStep ==
  ASSUME PilotInv, LockFileIsHeld, [Next]_vars
  PROVE  LockFileIsHeld'
<1> USE DEF LockFileIsHeld, ThreadsOK, Begin, Return, Goto, mutexes, store, evidence, threads,
            ghosts
<1>1. /\ ThreadsOK /\ StoreOK /\ crashes \in Nat
      /\ Thread = Manager \cup Publisher \cup Effector \cup Recorder
  BY PilotAssumption DEF PilotInv, TypeOK, Thread
<1>2. ASSUME NEW m \in Lease, Issue(m) \/ Act(m) \/ Seal(m) \/ Tick(m)
      PROVE  LockFileIsHeld'
  BY <1>2 DEF Issue, Act, Seal, Tick
<1>3. ASSUME NEW g \in Manager, RevokeStep(g) \/ \E m \in Lease : Manage(g, m)
      PROVE  LockFileIsHeld'
  BY <1>1, <1>3 DEF RevokeStep, Announce, Revoke, Retract, Manage
<1>4. ASSUME NEW g \in Publisher, PublishStep(g) \/ \E m \in Lease : Publish(g, m)
      PROVE  LockFileIsHeld'
  <2>1. ASSUME Ask(g) \/ Open(g) \/ \E m \in Lease : Publish(g, m)
        PROVE  LockFileIsHeld'
    BY <1>1, <2>1 DEF Ask, Open, Publish
  <2>2. ASSUME Record(g) PROVE LockFileIsHeld'
    BY <1>1, <2>2 DEF Record
  <2>3. ASSUME Write(g) PROVE LockFileIsHeld'
    BY <2>3 DEF Write
  <2>4. ASSUME Close(g) \/ Commit(g) PROVE LockFileIsHeld'
    BY <1>1, <2>4 DEF Close, Commit
  <2>5. ASSUME Decide(g) \/ Withdraw(g) PROVE LockFileIsHeld'
    BY <1>1, <2>5 DEF Decide, Withdraw
  <2> QED
    BY <1>4, <2>1, <2>2, <2>3, <2>4, <2>5 DEF PublishStep
<1>5. ASSUME NEW g \in Effector, EffectStep(g) \/ \E m \in Lease : Request(g, m)
      PROVE  LockFileIsHeld'
  BY <1>1, <1>5 DEF EffectStep, EffectBegins, EffectEnds, Request
<1>6. ASSUME NEW g \in Recorder, RecordStep(g) \/ \E m \in Lease : Plan(g, m)
      PROVE  LockFileIsHeld'
  <2>1. ASSUME Lock(g) PROVE LockFileIsHeld'
    BY <1>1, <2>1 DEF Lock
  <2>2. ASSUME Verify(g) PROVE LockFileIsHeld'
    BY <2>2 DEF Verify
  <2>3. ASSUME NEW m \in Lease, Plan(g, m) PROVE LockFileIsHeld'
    BY <1>1, <2>3 DEF Plan
  <2> QED
    BY <1>6, <2>1, <2>2, <2>3 DEF RecordStep
<1>7. CASE Restart
  BY <1>1, <1>7 DEF Restart
<1>8. CASE UNCHANGED vars
  BY <1>8 DEF vars
<1> QED
  BY <1>2, <1>3, <1>4, <1>5, <1>6, <1>7, <1>8 DEF Next

\* The lock file of the receipts has an owner until the process restarts
\* (_cross_process_receipt_lock).
THEOREM LockFileHasOwner == Spec => []LockFileIsHeld
<1>1. Init => LockFileIsHeld
  BY DEF Init, LockFileIsHeld
<1> QED
  BY <1>1, LockFileStep, PilotInvariant, PTL DEF Spec

\* A receipt that nothing committed or left for good is that of a publication that
\* wrote it, and is still to commit it or to remove it.
ReceiptInv ==
    crashes = 0 => \A l \in receipts \ (committed \cup quarantined) :
        \E h \in Publisher :
            /\ arg[h] = l
            /\ pc[h] \in {"close", "commit", "decide", "denied"}
            /\ published[h] = "wrote"

\* A step that leaves the receipts and every publication that has one as they were
\* keeps the invariant.
LEMMA ReceiptFrame ==
  ASSUME ReceiptInv,
         UNCHANGED <<receipts, committed, quarantined, crashes>>,
         \A h \in Publisher : pc[h] \in {"close", "commit", "decide", "denied"} =>
             /\ arg'[h] = arg[h] /\ published'[h] = published[h]
             /\ pc'[h] \in {"close", "commit", "decide", "denied"}
  PROVE  ReceiptInv'
BY DEF ReceiptInv

\* Every step keeps it.
LEMMA ReceiptStep ==
  ASSUME PilotInv, ReceiptInv, [Next]_vars
  PROVE  ReceiptInv'
<1> USE DEF ThreadsOK, Begin, Return, Goto, mutexes, store, evidence, threads, ghosts
<1>1. /\ ThreadsOK /\ crashes \in Nat /\ committed \subseteq Lease /\ receipts \subseteq Lease
      /\ Thread = Manager \cup Publisher \cup Effector \cup Recorder
  BY PilotAssumption DEF PilotInv, TypeOK, GhostsOK, Thread
<1>2. ASSUME NEW m \in Lease, Issue(m) \/ Act(m) \/ Seal(m) \/ Tick(m)
      PROVE  ReceiptInv'
  BY <1>2, ReceiptFrame DEF Issue, Act, Seal, Tick
<1>3. ASSUME NEW g \in Manager, RevokeStep(g) \/ \E m \in Lease : Manage(g, m)
      PROVE  ReceiptInv'
  BY <1>1, <1>3, ReceiptFrame DEF RevokeStep, Announce, Revoke, Retract, Manage
<1>4. ASSUME NEW g \in Publisher, PublishStep(g) \/ \E m \in Lease : Publish(g, m)
      PROVE  ReceiptInv'
  <2>1. ASSUME Ask(g) \/ Open(g) \/ \E m \in Lease : Publish(g, m)
        PROVE  ReceiptInv'
    BY <1>1, <2>1, ReceiptFrame DEF Ask, Open, Publish
  <2>2. ASSUME Record(g) \/ Close(g) \/ Commit(g)
        PROVE  ReceiptInv'
    BY <1>1, <2>2, ReceiptFrame DEF Record, Close, Commit
  <2>3. ASSUME Write(g) PROVE ReceiptInv'
    <3> SUFFICES ASSUME crashes' = 0, NEW l \in receipts', l \notin committed' \cup quarantined'
                 PROVE  \E h \in Publisher :
                           /\ arg'[h] = l
                           /\ pc'[h] \in {"close", "commit", "decide", "denied"}
                           /\ published'[h] = "wrote"
      BY DEF ReceiptInv
    <3>1. crashes = 0 /\ l \notin committed \cup quarantined /\ arg' = arg
      BY <2>3 DEF Write
    <3>2. CASE l \in receipts
      <4>1. PICK h \in Publisher : /\ arg[h] = l
                                   /\ pc[h] \in {"close", "commit", "decide", "denied"}
                                   /\ published[h] = "wrote"
        BY <3>1, <3>2 DEF ReceiptInv
      <4>2. h # g
        BY <2>3, <4>1 DEF Write
      <4> QED
        BY <1>1, <2>3, <3>1, <4>1, <4>2 DEF Write
    <3>3. CASE l \notin receipts
      BY <1>1, <2>3, <3>3 DEF Write
    <3> QED
      BY <3>2, <3>3
  <2>4. ASSUME Decide(g) PROVE ReceiptInv'
    <3>1. CASE Observation(arg[g]) # seen[g]
      BY <1>1, <2>4, <3>1, ReceiptFrame DEF Decide
    <3>2. CASE Observation(arg[g]) = seen[g]
      <4> SUFFICES ASSUME crashes' = 0, NEW l \in receipts', l \notin committed' \cup quarantined'
                   PROVE  \E h \in Publisher :
                             /\ arg'[h] = l
                             /\ pc'[h] \in {"close", "commit", "decide", "denied"}
                             /\ published'[h] = "wrote"
        BY DEF ReceiptInv
      <4>1. /\ crashes = 0 /\ l \in receipts /\ l \notin committed \cup quarantined
            /\ l # arg[g] \/ published[g] = "nothing"
        BY <2>4, <3>2 DEF Decide
      <4>2. PICK h \in Publisher : /\ arg[h] = l
                                   /\ pc[h] \in {"close", "commit", "decide", "denied"}
                                   /\ published[h] = "wrote"
        BY <4>1 DEF ReceiptInv
      <4>3. h # g
        BY <4>1, <4>2
      <4> QED
        BY <1>1, <2>4, <3>2, <4>2, <4>3 DEF Decide
    <3> QED
      BY <3>1, <3>2
  <2>5. ASSUME Withdraw(g) PROVE ReceiptInv'
    <3> SUFFICES ASSUME crashes' = 0, NEW l \in receipts', l \notin committed' \cup quarantined'
                 PROVE  \E h \in Publisher :
                           /\ arg'[h] = l
                           /\ pc'[h] \in {"close", "commit", "decide", "denied"}
                           /\ published'[h] = "wrote"
      BY DEF ReceiptInv
    <3>1. /\ crashes = 0 /\ l \in receipts /\ l \notin committed \cup quarantined
          /\ l # arg[g] \/ published[g] # "wrote"
      BY <2>5 DEF Withdraw
    <3>2. PICK h \in Publisher : /\ arg[h] = l
                                 /\ pc[h] \in {"close", "commit", "decide", "denied"}
                                 /\ published[h] = "wrote"
      BY <3>1 DEF ReceiptInv
    <3>3. h # g
      BY <3>1, <3>2
    <3> QED
      BY <1>1, <2>5, <3>2, <3>3 DEF Withdraw
  <2> QED
    BY <1>4, <2>1, <2>2, <2>3, <2>4, <2>5 DEF PublishStep
<1>5. ASSUME NEW g \in Effector, EffectStep(g) \/ \E m \in Lease : Request(g, m)
      PROVE  ReceiptInv'
  BY <1>1, <1>5, ReceiptFrame DEF EffectStep, EffectBegins, EffectEnds, Request
<1>6. ASSUME NEW g \in Recorder, RecordStep(g) \/ \E m \in Lease : Plan(g, m)
      PROVE  ReceiptInv'
  BY <1>1, <1>6, ReceiptFrame DEF RecordStep, Lock, Verify, Plan
<1>7. CASE Restart
  BY <1>1, <1>7 DEF Restart, ReceiptInv
<1>8. CASE UNCHANGED vars
  BY <1>8, ReceiptFrame DEF vars
<1> QED
  BY <1>2, <1>3, <1>4, <1>5, <1>6, <1>7, <1>8 DEF Next

\* Until a restart a denied publication leaves no receipt behind unless it answers
\* cleanup_required, however many publications are denied at the same time.
THEOREM ReceiptsAreAccountedFor == Spec => []ReceiptHasCommit
<1>1. Init => ReceiptInv
  BY DEF Init, ReceiptInv
<1>2. ReceiptInv => ReceiptHasCommit
  BY DEF ReceiptInv, ReceiptHasCommit
<1> QED
  BY <1>1, <1>2, ReceiptStep, PilotInvariant, PTL DEF Spec

\* What makes a lease active.
LEMMA ActiveMeans ==
  ASSUME StoreOK, NEW l \in Lease
  PROVE  Active(l) <=> /\ lease[l].state = "active"
                       /\ lease[l].used # Bindings
                       /\ window[l] = "within"
<1>1. lease[l] \in LeaseRecord /\ window[l] \in Window
  BY DEF StoreOK
<1> QED
  BY <1>1 DEF LeaseRecord, Active, Effective, StateAt, Window

\* The same after a step.
LEMMA ActiveMeansNext ==
  ASSUME StoreOK', NEW l \in Lease
  PROVE  Active(l)' <=> /\ lease'[l].state = "active"
                        /\ lease'[l].used # Bindings
                        /\ window'[l] = "within"
<1>1. lease'[l] \in LeaseRecord /\ window'[l] \in Window
  BY DEF StoreOK
<1> QED
  BY <1>1 DEF LeaseRecord, Active, Effective, StateAt, Window

\* Leases have begun, and one of them is active.
NowInv == (\A l \in Lease : window[l] # "before") /\ OneActiveLease

\* A step after which no lease is active that was not keeps the invariant.
LEMMA NowFrame ==
  ASSUME NowInv, window' = window, \A l \in Lease : Active(l)' => Active(l)
  PROVE  NowInv'
BY DEF NowInv, OneActiveLease

\* The lease of a step that consumes a binding was active.
LEMMA ConsumeKeepsOne ==
  ASSUME StoreOK, StoreOK', NowInv, NEW l \in Lease, Consume(l), window' = window
  PROVE  NowInv'
<1>1. Active(l)
  BY DEF Consume
<1>2. \A m \in Lease : m # l => lease'[m] = lease[m]
  BY DEF Consume, StoreOK
<1>3. \A m \in Lease : Active(m)' => Active(m)
  BY <1>1, <1>2, ActiveMeans, ActiveMeansNext
<1> QED
  BY <1>3, NowFrame

\* Every step but an issue leaves the others as active as they were, and an issue
\* finds none.
LEMMA NowStep ==
  ASSUME PilotInv, PilotInv', NowInv, [Next]_vars
  PROVE  NowInv'
<1>1. /\ StoreOK /\ StoreOK' /\ ThreadsOK
      /\ Thread = Manager \cup Publisher \cup Effector \cup Recorder
  BY DEF PilotInv, TypeOK, Thread
<1>2. ASSUME UNCHANGED <<lease, window>> PROVE NowInv'
  BY <1>1, <1>2, ActiveMeans, ActiveMeansNext DEF NowInv, OneActiveLease
<1>3. ASSUME window' = window, NEW l \in Lease, NEW r, lease' = [lease EXCEPT ![l] = r],
             r.state # "active"
      PROVE  NowInv'
  <2>1. \A m \in Lease : Active(m)' => Active(m)
    BY <1>1, <1>3, ActiveMeans, ActiveMeansNext DEF StoreOK
  <2> QED
    BY <1>3, <2>1, NowFrame
<1>4. ASSUME NEW l \in Lease, Issue(l) PROVE NowInv'
  <2>1. /\ window' = window
        /\ \A m \in Lease : ~Active(m)
        /\ \A m \in Lease : m # l => lease'[m] = lease[m]
    BY <1>1, <1>4 DEF Issue, StoreOK
  <2>2. \A m \in Lease : m # l => ~Active(m)'
    BY <1>1, <2>1, ActiveMeans, ActiveMeansNext
  <2> QED
    BY <2>1, <2>2 DEF NowInv, OneActiveLease
<1>5. ASSUME NEW l \in Lease, Act(l) PROVE NowInv'
  BY <1>1, <1>5, ConsumeKeepsOne DEF Act
<1>6. ASSUME NEW l \in Lease, Seal(l) PROVE NowInv'
  <2>1. /\ window' = window
        /\ lease' = [lease EXCEPT ![l] = [lease[l] EXCEPT !.state = "sealed"]]
    BY <1>6 DEF Seal
  <2>2. [lease[l] EXCEPT !.state = "sealed"].state # "active"
    BY <1>1 DEF StoreOK, LeaseRecord
  <2> QED
    BY <1>3, <2>1, <2>2
<1>7. ASSUME NEW l \in Lease, Tick(l) PROVE NowInv'
  <2>1. lease' = lease /\ window[l] = "within"
    BY <1>1, <1>7 DEF Tick, NowInv, StoreOK, Window
  <2>2. window' = [window EXCEPT ![l] = "after"]
    BY <1>7, <2>1 DEF Tick
  <2>3. \A m \in Lease : Active(m)' => Active(m)
    BY <1>1, <2>1, <2>2, ActiveMeans, ActiveMeansNext DEF StoreOK
  <2>4. \A m \in Lease : window'[m] # "before"
    BY <1>1, <2>2 DEF NowInv, StoreOK
  <2> QED
    BY <2>3, <2>4 DEF NowInv, OneActiveLease
<1>8. ASSUME NEW g \in Manager, RevokeStep(g) \/ \E m \in Lease : Manage(g, m)
      PROVE  NowInv'
  <2>1. ASSUME Announce(g) \/ Retract(g) \/ \E m \in Lease : Manage(g, m) PROVE NowInv'
    BY <1>2, <2>1 DEF Announce, Retract, Manage, store
  <2>2. ASSUME Revoke(g), Revocable(arg[g], clock[g]) PROVE NowInv'
    <3>1. arg[g] \in Lease
      BY <1>1, <2>2 DEF Revoke, PilotInv, PlaceInv
    <3>2. /\ window' = window
          /\ lease' = [lease EXCEPT ![arg[g]] = [lease[arg[g]] EXCEPT !.state = "revoked"]]
      BY <2>2 DEF Revoke
    <3>3. [lease[arg[g]] EXCEPT !.state = "revoked"].state # "active"
      BY <1>1, <3>1 DEF StoreOK, LeaseRecord
    <3> QED
      BY <1>3, <3>1, <3>2, <3>3
  <2>3. ASSUME Revoke(g), ~Revocable(arg[g], clock[g]) PROVE NowInv'
    BY <1>2, <2>3 DEF Revoke
  <2> QED
    BY <1>8, <2>1, <2>2, <2>3 DEF RevokeStep
<1>9. ASSUME NEW g \in Publisher, PublishStep(g) \/ \E m \in Lease : Publish(g, m)
      PROVE  NowInv'
  <2>1. ASSUME PublishStep(g) PROVE NowInv'
    BY <1>2, <2>1
    DEF PublishStep, Ask, Open, Record, Write, Close, Commit, Decide, Withdraw, store
  <2>2. ASSUME NEW m \in Lease, Publish(g, m) PROVE NowInv'
    BY <1>1, <2>2, ConsumeKeepsOne DEF Publish
  <2> QED
    BY <1>9, <2>1, <2>2
<1>10. ASSUME NEW g \in Effector, EffectStep(g) \/ \E m \in Lease : Request(g, m)
       PROVE  NowInv'
  <2>1. ASSUME EffectBegins(g) \/ \E m \in Lease : Request(g, m) PROVE NowInv'
    BY <1>2, <2>1 DEF EffectBegins, Request, store
  <2>2. ASSUME EffectEnds(g, FALSE) PROVE NowInv'
    BY <1>2, <2>2 DEF EffectEnds
  <2>3. ASSUME EffectEnds(g, TRUE) PROVE NowInv'
    <3>1. /\ arg[g] \in Lease /\ g \in Thread
          /\ lease[arg[g]].state = "active" /\ lease[arg[g]].used < Bindings
      BY <1>1, <2>3 DEF EffectEnds, PilotInv, PlaceInv
    <3>2. lease[arg[g]].used # Bindings
      BY <1>1, <3>1, PilotAssumption DEF StoreOK, LeaseRecord
    <3>3. /\ window' = window
          /\ \A m \in Lease : m # arg[g] => lease'[m] = lease[m]
      BY <1>1, <2>3 DEF EffectEnds, StoreOK
    <3>4. \A m \in Lease : Active(m)' => Active(m)
      BY <1>1, <3>1, <3>2, <3>3, ActiveMeans, ActiveMeansNext
    <3> QED
      BY <3>3, <3>4, NowFrame
  <2> QED
    BY <1>10, <2>1, <2>2, <2>3 DEF EffectStep
<1>11. ASSUME NEW g \in Recorder, RecordStep(g) \/ \E m \in Lease : Plan(g, m)
       PROVE  NowInv'
  BY <1>2, <1>11 DEF RecordStep, Lock, Verify, Plan, store
<1>12. CASE Restart
  <2>1. window' = window /\ \A l \in Lease : lease'[l].state = "absent"
    BY <1>12 DEF Restart, NoLease
  <2>2. \A l \in Lease : Active(l)' => Active(l)
    BY <1>1, <2>1, ActiveMeansNext
  <2> QED
    BY <2>1, <2>2, NowFrame
<1>13. CASE UNCHANGED vars
  BY <1>2, <1>13 DEF vars, store
<1> QED
  BY <1>4, <1>5, <1>6, <1>7, <1>8, <1>9, <1>10, <1>11, <1>12, <1>13 DEF Next

\* Where no lease is issued ahead of its time, one lease of a pilot run is active
\* at a time, for any number of leases and of threads that use them (issue).
THEOREM OneLeaseIsActive ==
  ASSUME ~IssuedEarly
  PROVE  Spec => []OneActiveLease
<1>1. Init => NowInv
  <2> SUFFICES ASSUME Init PROVE NowInv
    OBVIOUS
  <2>1. \A l \in Lease : window[l] = "within"
    BY DEF Init
  <2>2. \A l \in Lease : ~Active(l)
    BY DEF Init, NoLease, Active, Effective, StateAt
  <2> QED
    BY <2>1, <2>2 DEF NowInv, OneActiveLease
<1>2. PilotInv /\ PilotInv' /\ NowInv /\ [Next]_vars => NowInv'
  BY NowStep
<1>3. NowInv => OneActiveLease
  BY DEF NowInv
<1> QED
  BY <1>1, <1>2, <1>3, PilotInvariant, PTL DEF Spec

-----------------------------------------------------------------------------
(* The registry is the authority that LeaseAuthority promises. *)

\* What LeaseAuthority sees.
Standings == [l \in Lease |-> Standing(l)]
Used      == [l \in Lease |-> lease[l].used]

\* A transaction began under a lease in force, when its publication's binding was
\* the last that was consumed.
SeenInv ==
    \A h \in Thread : pc[h] \in Held \cup {"commit", "decide"} =>
        seen[h].lease.used = EvidenceAt /\ seen[h].state \in {"active", "consumed"}

\* Every step keeps it: only Open sets what a transaction has seen.
LEMMA SeenStep ==
  ASSUME PilotInv, SeenInv, [Next]_vars
  PROVE  SeenInv'
<1> USE DEF SeenInv, Held
<1>1. /\ ThreadsOK /\ StoreOK
      /\ Thread = Manager \cup Publisher \cup Effector \cup Recorder
  BY DEF PilotInv, TypeOK, Thread
<1>2. ASSUME UNCHANGED <<pc, seen>> PROVE SeenInv'
  BY <1>2
<1>3. ASSUME NEW h \in Thread, NEW at \in Place, Goto(h, at), UNCHANGED seen,
             at \in Held \cup {"commit", "decide"} => pc[h] \in Held \cup {"commit", "decide"}
      PROVE  SeenInv'
  BY <1>1, <1>3 DEF Goto, ThreadsOK
<1>4. ASSUME NEW h \in Thread, Return(h) PROVE SeenInv'
  BY <1>1, <1>4 DEF Return, Goto, ThreadsOK
<1>5. ASSUME NEW l \in Lease, Issue(l) \/ Act(l) \/ Seal(l) \/ Tick(l) PROVE SeenInv'
  BY <1>2, <1>5 DEF Issue, Act, Seal, Tick, threads
<1>6. ASSUME NEW h \in Manager, RevokeStep(h) \/ \E l \in Lease : Manage(h, l)
      PROVE  SeenInv'
  BY <1>1, <1>3, <1>4, <1>6
  DEF RevokeStep, Announce, Revoke, Retract, Manage, Begin, Place
<1>7. ASSUME NEW h \in Publisher, Open(h) PROVE SeenInv'
  <2>1. CASE Authorized(arg[h])
    <3>1. PICK l \in Lease : l = arg[h]
      BY <1>1, <1>7 DEF Open, PilotInv, PlaceInv
    <3>2. /\ Observation(l).lease.used = EvidenceAt
          /\ Observation(l).state \in {"active", "consumed"}
      BY <2>1, <3>1
      DEF Authorized, InForce, Revocable, Observation, Effective
    <3>3. seen' = [seen EXCEPT ![h] = Observation(l)] /\ pc' = [pc EXCEPT ![h] = "record"]
      BY <1>7, <2>1, <3>1 DEF Open, Goto
    <3> QED
      BY <1>1, <3>2, <3>3 DEF ThreadsOK
  <2>2. CASE ~ Authorized(arg[h])
    BY <1>1, <1>4, <1>7, <2>2 DEF Open
  <2> QED
    BY <2>1, <2>2
<1>8. ASSUME NEW h \in Publisher, NEW l \in Lease, Publish(h, l) PROVE SeenInv'
  BY <1>1, <1>3, <1>8 DEF Publish, Begin, Place
<1>9. ASSUME NEW h \in Publisher,
             Ask(h) \/ Record(h) \/ Write(h) \/ Close(h) \/ Commit(h) \/ Decide(h) \/ Withdraw(h)
      PROVE  SeenInv'
  BY <1>1, <1>3, <1>4, <1>9
  DEF Ask, Record, Write, Close, Commit, Decide, Withdraw, Place
<1>10. ASSUME NEW h \in Effector, EffectStep(h) \/ \E l \in Lease : Request(h, l)
       PROVE  SeenInv'
  BY <1>1, <1>3, <1>4, <1>10
  DEF EffectStep, EffectBegins, EffectEnds, Request, Begin, Place
<1>11. ASSUME NEW h \in Recorder, RecordStep(h) \/ \E l \in Lease : Plan(h, l)
       PROVE  SeenInv'
  BY <1>1, <1>3, <1>4, <1>11 DEF RecordStep, Lock, Verify, Plan, Begin, Place
<1>12. CASE Restart
  BY <1>12 DEF Restart
<1>13. CASE UNCHANGED vars
  BY <1>2, <1>13 DEF vars, threads
<1> QED
  BY <1>5, <1>6, <1>7, <1>8, <1>9, <1>10, <1>11, <1>12, <1>13 DEF Next, PublishStep

\* It holds in every behaviour of the registry.
LEMMA SeenInvariant == Spec => [](PilotInv /\ SeenInv)
<1>1. Init => SeenInv
  BY DEF Init, SeenInv, Held
<1>2. PilotInv /\ SeenInv /\ [Next]_vars => SeenInv'
  BY SeenStep
<1> QED
  BY <1>1, <1>2, PilotInvariant, PTL DEF Spec

\* An effect is the only one, and no thread holds a mutex beside it.
EffectIsAlone ==
    /\ \A h \in Effector : pc[h] = "effect" => Effecting = arg[h]
    /\ (\A h \in Effector : pc[h] # "effect") => Effecting = NoId
    /\ registry = NoThread \/ intent = NoThread => Effecting = NoId

\* An effect holds both mutexes, so that no other runs.
LEMMA EffectAlone == PilotInv => EffectIsAlone
<1> SUFFICES ASSUME PilotInv PROVE EffectIsAlone
  OBVIOUS
<1>1. \A h \in Effector : pc[h] = "effect" => registry = h /\ intent = h /\ h # NoThread
  BY PilotAssumption DEF PilotInv, PlaceInv, Thread
<1> QED
  BY <1>1 DEF EffectIsAlone, Effecting

\* The same of the next state.
LEMMA EffectAloneNext == PilotInv' => EffectIsAlone'
BY EffectAlone, PTL

\* A step that is none of the authority's.
Quiet ==
    /\ UNCHANGED <<lease, window, revoking, committed>>
    /\ \A h \in Effector : /\ pc'[h] = "effect" <=> pc[h] = "effect"
                           /\ pc[h] = "effect" => arg'[h] = arg[h]

\* The authority sees nothing of it.
LEMMA QuietStep ==
  ASSUME PilotInv, PilotInv', Quiet
  PROVE  UNCHANGED <<Standings, Used, window, committed, Effecting>>
<1>1. Effecting' = Effecting
  BY EffectAlone, EffectAloneNext DEF Quiet, EffectIsAlone
<1> QED
  BY <1>1 DEF Quiet, Standings, Standing, Used

\* A thread that neither begins nor ends an effect leaves the effects alone.
LEMMA OtherThread ==
  ASSUME ThreadsOK, NEW g \in Thread, NEW at \in Place, pc[g] # "effect", at # "effect",
         pc' = [pc EXCEPT ![g] = at], NEW m, arg' = [arg EXCEPT ![g] = m] \/ arg' = arg
  PROVE  \A h \in Effector : /\ pc'[h] = "effect" <=> pc[h] = "effect"
                             /\ pc[h] = "effect" => arg'[h] = arg[h]
BY DEF ThreadsOK, Thread

\* The same of a call that returns, or goes on.
LEMMA OtherReturns ==
  ASSUME ThreadsOK, NEW g \in Thread, pc[g] # "effect",
         Return(g) \/ \E at \in Place \ {"effect"} :
                          Goto(g, at) /\ \/ UNCHANGED arg
                                         \/ \E m \in Lease : arg' = [arg EXCEPT ![g] = m]
  PROVE  \A h \in Effector : /\ pc'[h] = "effect" <=> pc[h] = "effect"
                             /\ pc[h] = "effect" => arg'[h] = arg[h]
BY OtherThread DEF Return, Goto, Place

\* The registry's view of a lease is the authority's.
LEMMA Views ==
  ASSUME PilotInv, NEW l \in Lease
  PROVE  /\ Standings[l] = "absent" <=> lease[l].state = "absent"
         /\ Standings[l] = "ended" <=> lease[l].state \in {"revoked", "sealed"}
         /\ Standings[l] = "active" <=> lease[l].state = "active" /\ l \notin revoking
         /\ Standings[l] = "announced" <=> lease[l].state = "active" /\ l \in revoking
         /\ Used[l] = lease[l].used
         /\ Used[l] \in 0..Bindings
         /\ Active(l) <=> /\ Standings[l] \in {"active", "announced"}
                          /\ window[l] = "within"
                          /\ Used[l] < Bindings
<1>1. StoreOK /\ lease[l] \in LeaseRecord
  BY DEF PilotInv, TypeOK, StoreOK
<1>2. lease[l].state \in {"absent", "active", "revoked", "sealed"} /\ lease[l].used \in 0..Bindings
  BY <1>1 DEF LeaseRecord
<1>3. /\ Standings[l] = "absent" <=> lease[l].state = "absent"
      /\ Standings[l] = "ended" <=> lease[l].state \in {"revoked", "sealed"}
      /\ Standings[l] = "active" <=> lease[l].state = "active" /\ l \notin revoking
      /\ Standings[l] = "announced" <=> lease[l].state = "active" /\ l \in revoking
  BY <1>2 DEF Standings, Standing
<1>4. lease[l].used # Bindings <=> lease[l].used < Bindings
  BY <1>2, PilotAssumption
<1> QED
  BY <1>1, <1>2, <1>3, <1>4, ActiveMeans DEF Used

\* A step that changes the state of one lease is seen as that.
LEMMA StateStep ==
  ASSUME PilotInv, NEW l \in Lease, NEW s, lease' = [lease EXCEPT ![l].state = s],
         UNCHANGED revoking
  PROVE  /\ Used' = Used
         /\ \A m \in Lease : m # l => Standing(m)' = Standing(m)
         /\ lease'[l].state = s
BY DEF PilotInv, TypeOK, StoreOK, LeaseRecord, Used, Standing

\* A binding that is consumed is seen as an authorized action.
LEMMA UsedStep ==
  ASSUME PilotInv, NEW l \in Lease, lease' = [lease EXCEPT ![l].used = @ + 1], UNCHANGED revoking
  PROVE  Standings' = Standings /\ Used' = [Used EXCEPT ![l] = Used[l] + 1]
<1>1. /\ \A m \in Lease : m # l => lease'[m] = lease[m]
      /\ lease'[l].state = lease[l].state
      /\ lease'[l].used = lease[l].used + 1
  BY DEF PilotInv, TypeOK, StoreOK, LeaseRecord
<1>2. \A m \in Lease : lease'[m].state = lease[m].state
  BY <1>1
<1>3. \A m \in Lease : Standing(m)' = Standing(m)
  BY <1>2 DEF Standing
<1>4. Standings' = Standings
  BY <1>3 DEF Standings
<1>5. \A m \in Lease : lease'[m].used = IF m = l THEN Used[l] + 1 ELSE Used[m]
  BY <1>1 DEF Used
<1>6. Used' = [Used EXCEPT ![l] = Used[l] + 1]
  BY <1>5 DEF Used
<1> QED
  BY <1>4, <1>6

\* Calls that consume a binding.
LEMMA ConsumeIsAuthorize ==
  ASSUME PilotInv, NEW l \in Lease, Consume(l), NextBinding(l) # EffectAt,
         UNCHANGED <<window, committed, revoking>>, Effecting' = Effecting
  PROVE  Authority!Authorize(l)
<1>1. Effecting = NoId /\ Active(l)
  BY EffectAlone DEF Consume, EffectIsAlone
<1>2. Standings' = Standings /\ Used' = [Used EXCEPT ![l] = Used[l] + 1]
  BY UsedStep DEF Consume
<1> QED
  BY <1>1, <1>2, Views
  DEF Authority!Authorize, Authority!Usable, Authority!InForce, NextBinding, Standings, Used

\* Issue, Act, Seal and Tick.
LEMMA LeaseSteps ==
  ASSUME PilotInv, PilotInv', NEW l \in Lease, Issue(l) \/ Act(l) \/ Seal(l) \/ Tick(l)
  PROVE  Authority!Next
<1>1. Effecting' = Effecting
  BY EffectAlone, EffectAloneNext DEF Issue, Act, Seal, Tick, threads, EffectIsAlone
<1>2. CASE Issue(l)
  <2>1. Effecting = NoId
    BY <1>2, EffectAlone DEF Issue, EffectIsAlone
  <2>2. /\ lease[l].state = "absent" /\ lease[l].used = 0 /\ l \notin revoking
        /\ \A m \in Lease : ~Active(m)
    BY <1>2 DEF Issue, PilotInv, GrantInv, RevokeInv
  <2>3. /\ \A m \in Lease : m # l => lease'[m] = lease[m]
        /\ lease'[l].state = "active" /\ lease'[l].used = 0
        /\ UNCHANGED <<window, committed, revoking>>
    BY <1>2 DEF Issue, PilotInv, TypeOK, StoreOK, ghosts
  <2>4. Standings' = [Standings EXCEPT ![l] = "active"] /\ Used' = Used
    BY <2>2, <2>3 DEF Standings, Standing, Used
  <2>5. Authority!Issue(l)
    BY <1>1, <2>1, <2>2, <2>3, <2>4, Views
    DEF Authority!Issue, Authority!Usable, Authority!InForce, Authority!Becomes, Standings, Used
  <2> QED
    BY <2>5 DEF Authority!Next
<1>3. CASE Act(l)
  <2>1. Authority!Authorize(l)
    BY <1>1, <1>3, ConsumeIsAuthorize DEF Act
  <2> QED
    BY <2>1 DEF Authority!Next
<1>4. CASE Seal(l)
  <2>1. Effecting = NoId /\ lease[l].state = "active"
    BY <1>4, EffectAlone, InForceLease DEF Seal, EffectIsAlone, PilotInv, TypeOK
  <2>2. /\ Used' = Used
        /\ \A m \in Lease : m # l => Standing(m)' = Standing(m)
        /\ lease'[l].state = "sealed"
    BY <1>4, StateStep DEF Seal, ghosts
  <2>3. Standings' = [Standings EXCEPT ![l] = "ended"]
    BY <2>2 DEF Standings, Standing
  <2>4. Authority!End(l)
    BY <1>1, <1>4, <2>1, <2>2, <2>3, Views
    DEF Seal, ghosts, Authority!End, Authority!Becomes, Standings, Used
  <2> QED
    BY <2>4 DEF Authority!Next
<1>5. CASE Tick(l)
  <2>1. Standings' = Standings /\ Used' = Used
    BY <1>5 DEF Tick, ghosts, Standings, Standing, Used
  <2>2. Authority!Tick(l)
    BY <1>1, <1>5, <2>1 DEF Tick, ghosts, Authority!Tick, Authority!authority, Standings, Used
  <2> QED
    BY <2>2 DEF Authority!Next
<1> QED
  BY <1>2, <1>3, <1>4, <1>5

\* revoke: announced, and then revoked.
LEMMA RevokeSteps ==
  ASSUME PilotInv, PilotInv', NEW h \in Manager,
         RevokeStep(h) \/ \E l \in Lease : Manage(h, l)
  PROVE  [Authority!Next]_<<Standings, Used, window, committed, Effecting>>
<1>1. ThreadsOK /\ StoreOK /\ h \in Thread
  BY DEF PilotInv, TypeOK, Thread
<1>2. ASSUME Retract(h) \/ \E l \in Lease : Manage(h, l) PROVE Quiet
  BY <1>1, <1>2, OtherReturns DEF Retract, Manage, Begin, store, ghosts, Quiet, Place
<1>3. ASSUME Announce(h), Revocable(arg[h], clock[h]), arg[h] \notin revoking
      PROVE  Authority!Next
  <2>1. PICK l \in Lease : l = arg[h]
    BY <1>1, <1>3 DEF Announce, PilotInv, PlaceInv
  <2>2. lease[l].state = "active" /\ Effecting = NoId
    BY <1>1, <1>3, <2>1, RevocableLease, EffectAlone DEF Announce, EffectIsAlone, ThreadsOK
  <2>3. Effecting' = NoId
    BY <1>3, EffectAloneNext DEF Announce, EffectIsAlone, mutexes
  <2>4. /\ Standings' = [Standings EXCEPT ![l] = "announced"] /\ Used' = Used
        /\ UNCHANGED <<window, committed>>
    BY <1>3, <2>1, <2>2 DEF Announce, Standings, Standing, Used
  <2>5. Authority!Announce(l)
    BY <1>3, <2>1, <2>2, <2>3, <2>4, Views
    DEF Authority!Announce, Authority!Becomes, Standings, Used
  <2> QED
    BY <2>5 DEF Authority!Next
<1>4. ASSUME Announce(h), ~ (Revocable(arg[h], clock[h]) /\ arg[h] \notin revoking)
      PROVE  Quiet
  BY <1>1, <1>4, OtherReturns DEF Announce, Quiet, Place
<1>5. ASSUME Revoke(h), Revocable(arg[h], clock[h]) PROVE Authority!Next
  <2>1. PICK l \in Lease : l = arg[h]
    BY <1>1, <1>5 DEF Revoke, PilotInv, PlaceInv
  <2>2. lease[l].state = "active" /\ Effecting = NoId
    BY <1>1, <1>5, <2>1, RevocableLease, EffectAlone DEF Revoke, EffectIsAlone, ThreadsOK
  <2>3. Effecting' = NoId
    BY <1>5, EffectAloneNext DEF Revoke, EffectIsAlone, mutexes
  <2>4. /\ Used' = Used
        /\ \A m \in Lease : m # l => Standing(m)' = Standing(m)
        /\ lease'[l].state = "revoked"
    BY <1>5, <2>1, StateStep DEF Revoke, ghosts
  <2>5. Standings' = [Standings EXCEPT ![l] = "ended"]
    BY <2>4 DEF Standings, Standing
  <2>6. Authority!End(l)
    BY <1>5, <2>2, <2>3, <2>4, <2>5, Views
    DEF Revoke, ghosts, Authority!End, Authority!Becomes, Standings, Used
  <2> QED
    BY <2>6 DEF Authority!Next
<1>6. ASSUME Revoke(h), ~ Revocable(arg[h], clock[h]) PROVE Quiet
  BY <1>1, <1>6, OtherReturns DEF Revoke, ghosts, Quiet, Place
<1> QED
  BY <1>2, <1>3, <1>4, <1>5, <1>6, QuietStep DEF RevokeStep

\* execute_authority_transaction: the commit.
LEMMA PublishSteps ==
  ASSUME PilotInv, PilotInv', SeenInv, NEW h \in Publisher,
         PublishStep(h) \/ \E l \in Lease : Publish(h, l)
  PROVE  [Authority!Next]_<<Standings, Used, window, committed, Effecting>>
<1>1. ThreadsOK /\ StoreOK /\ h \in Thread
  BY DEF PilotInv, TypeOK, Thread
<1>2. ASSUME NEW l \in Lease, Publish(h, l) PROVE Authority!Next
  <2>1. Effecting = NoId /\ Effecting' = NoId
    BY <1>2, EffectAlone, EffectAloneNext DEF Publish, Consume, mutexes, EffectIsAlone
  <2>2. Authority!Authorize(l)
    BY <1>2, <2>1, ConsumeIsAuthorize, PilotAssumption DEF Publish
  <2> QED
    BY <2>2 DEF Authority!Next
<1>3. ASSUME Ask(h) \/ Open(h) \/ Record(h) \/ Write(h) \/ Close(h) \/ Commit(h) \/ Withdraw(h)
      PROVE  Quiet
  BY <1>1, <1>3, OtherReturns
  DEF Ask, Open, Record, Write, Close, Commit, Withdraw, store, ghosts, Quiet, Place
<1>4. ASSUME Decide(h), committed' = committed PROVE Quiet
  BY <1>1, <1>4, OtherReturns DEF Decide, store, Quiet, Place
<1>5. ASSUME Decide(h), committed' # committed PROVE Authority!Next
  <2>1. PICK l \in Lease : l = arg[h]
    BY <1>1, <1>5 DEF Decide, PilotInv, PlaceInv
  <2>2. /\ Observation(l) = seen[h] /\ committed' = committed \cup {l}
        /\ pc[h] = "decide" /\ registry = NoThread /\ UNCHANGED <<lease, window, revoking, registry>>
    BY <1>5, <2>1 DEF Decide, store
  <2>3. Effecting = NoId /\ Effecting' = NoId
    BY <2>2, EffectAlone, EffectAloneNext DEF EffectIsAlone
  <2>4. /\ seen[h].lease.state = "active" /\ l \notin pending
        /\ seen[h].lease.used = EvidenceAt /\ seen[h].state \in {"active", "consumed"}
    BY <1>1, <2>1, <2>2 DEF PilotInv, RevokeInv, SeenInv
  <2>5. lease[l] = seen[h].lease /\ Effective(l) = seen[h].state
    BY <2>2 DEF Observation
  <2>6. window[l] = "within"
    BY <1>1, <2>4, <2>5 DEF Effective, StateAt, StoreOK, Window
  <2>7. l \notin revoking
    BY <2>4, <2>5, RevokingIsPending
  <2>8. Standings' = Standings /\ Used' = Used
    BY <2>2 DEF Standings, Standing, Used
  <2>9. Authority!Commit(l)
    BY <2>2, <2>3, <2>4, <2>5, <2>6, <2>7, <2>8, Views
    DEF Authority!Commit, Authority!authority, Standings, Used
  <2> QED
    BY <2>9 DEF Authority!Next
<1> QED
  BY <1>2, <1>3, <1>4, <1>5, QuietStep DEF PublishStep

\* authorize_execute_and_consume: the effect.
LEMMA EffectSteps ==
  ASSUME PilotInv, PilotInv', NEW h \in Effector,
         EffectStep(h) \/ \E l \in Lease : Request(h, l)
  PROVE  [Authority!Next]_<<Standings, Used, window, committed, Effecting>>
<1>1. ThreadsOK /\ StoreOK /\ h \in Thread
  BY DEF PilotInv, TypeOK, Thread
<1>2. ASSUME NEW l \in Lease, Request(h, l) PROVE Quiet
  BY <1>1, <1>2, OtherReturns DEF Request, Begin, store, ghosts, Quiet, Place
<1>3. ASSUME EffectBegins(h), ~ Permitted(arg[h]) PROVE Quiet
  BY <1>1, <1>3, OtherReturns DEF EffectBegins, store, ghosts, Quiet
<1>4. ASSUME EffectBegins(h), Permitted(arg[h]) PROVE Authority!Next
  <2>1. PICK l \in Lease : l = arg[h]
    BY <1>1, <1>4 DEF EffectBegins, PilotInv, PlaceInv
  <2>2. /\ lease[l].state = "active" /\ l \notin pending /\ Active(l)
        /\ lease[l].used + 1 = EffectAt
    BY <1>1, <1>4, <2>1, PermittedLease DEF Permitted, NextBinding
  <2>3. l \notin revoking
    BY <2>2, RevokingIsPending
  <2>4. Effecting = NoId
    BY <1>4, EffectAlone DEF EffectBegins, EffectIsAlone
  <2>5. pc'[h] = "effect" /\ arg'[h] = l /\ UNCHANGED <<lease, window, revoking, committed>>
    BY <1>1, <1>4, <2>1 DEF EffectBegins, Goto, ThreadsOK, store, ghosts
  <2>6. Effecting' = l
    BY <2>5, EffectAloneNext DEF EffectIsAlone
  <2>7. Standings' = Standings /\ Used' = Used
    BY <2>5 DEF Standings, Standing, Used
  <2>8. Authority!BeginEffect(l)
    BY <2>2, <2>3, <2>4, <2>5, <2>6, <2>7, Views
    DEF Authority!BeginEffect, Authority!authority, Standings, Used
  <2> QED
    BY <2>8 DEF Authority!Next
<1>5. ASSUME NEW ok \in BOOLEAN, EffectEnds(h, ok) PROVE Authority!Next
  <2>1. PICK l \in Lease : l = arg[h]
    BY <1>1, <1>5 DEF EffectEnds, PilotInv, PlaceInv
  <2>2. Effecting = l
    BY <1>5, <2>1, EffectAlone DEF EffectEnds, EffectIsAlone
  <2>3. Effecting' = NoId
    BY <1>5, EffectAloneNext DEF EffectEnds, EffectIsAlone
  <2>4. UNCHANGED <<window, committed, revoking>>
    BY <1>5 DEF EffectEnds
  <2>5. Standings' = Standings /\ (Used' = Used \/ Used' = [Used EXCEPT ![l] = Used[l] + 1])
    <3>1. CASE ok
      BY <1>5, <2>1, <2>4, <3>1, UsedStep DEF EffectEnds
    <3>2. CASE ~ ok
      BY <1>5, <2>4, <3>2 DEF EffectEnds, Standings, Standing, Used
    <3> QED
      BY <3>1, <3>2
  <2>6. Authority!EndEffect(l)
    BY <2>2, <2>3, <2>4, <2>5 DEF Authority!EndEffect, Standings, Used
  <2> QED
    BY <2>6 DEF Authority!Next
<1> QED
  BY <1>2, <1>3, <1>4, <1>5, QuietStep DEF EffectStep

\* The calls of the registry, on any number of leases by any number of threads, are
\* the atomic calls of LeaseAuthority, through restarts as well.
THEOREM RegistryIsTheAuthority == Spec => ImplementsAuthority
<1>1. Init => Authority!Init
  <2> SUFFICES ASSUME Init PROVE Authority!Init
    OBVIOUS
  <2>1. /\ Standings = [l \in Lease |-> "absent"]
        /\ Used = [l \in Lease |-> 0]
        /\ Effecting = NoId
    BY DEF Init, NoLease, Standings, Standing, Used, Effecting, Thread
  <2>2. window \in [Lease -> {"before", "within"}]
    BY PilotAssumption DEF Init
  <2> QED
    BY <2>1, <2>2 DEF Init, Authority!Init, Standings, Used
<1>2. PilotInv /\ PilotInv' /\ SeenInv /\ [Next]_vars =>
          [Authority!Next]_<<Standings, Used, window, committed, Effecting>>
  <2> SUFFICES ASSUME PilotInv, PilotInv', SeenInv, [Next]_vars
               PROVE  [Authority!Next]_<<Standings, Used, window, committed, Effecting>>
    OBVIOUS
  <2>1. ASSUME NEW h \in Recorder, RecordStep(h) \/ \E l \in Lease : Plan(h, l)
        PROVE  Quiet
    BY <2>1, OtherReturns
    DEF RecordStep, Lock, Verify, Plan, Begin, store, ghosts, Quiet, Place, PilotInv, TypeOK,
        Thread
  <2>2. CASE Restart
    <3>1. /\ Standings' = [l \in Lease |-> "absent"] /\ Used' = [l \in Lease |-> 0]
          /\ UNCHANGED <<window, committed>>
      BY <2>2 DEF Restart, NoLease, Standings, Standing, Used
    <3>2. Effecting' = NoId
      BY <2>2, EffectAloneNext DEF Restart, EffectIsAlone
    <3>3. Authority!Forget
      BY <3>1, <3>2 DEF Authority!Forget, Standings, Used
    <3> QED
      BY <3>3 DEF Authority!Next
  <2>3. CASE UNCHANGED vars
    BY <2>3, QuietStep DEF vars, store, ghosts, threads, Quiet
  <2> QED
    BY <2>1, <2>2, <2>3, LeaseSteps, RevokeSteps, PublishSteps, EffectSteps, QuietStep DEF Next
<1>3. PilotInv /\ PilotInv' /\ SeenInv /\ [Next]_vars => [Authority!Next]_Authority!vars
  BY <1>2 DEF Authority!vars, Authority!authority, Standings, Used
<1> QED
  BY <1>1, <1>3, SeenInvariant, PTL DEF Spec, ImplementsAuthority, Authority!Spec

=============================================================================
