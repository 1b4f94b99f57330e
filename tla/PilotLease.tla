------------------------------ MODULE PilotLease ------------------------------
(***************************************************************************)
(* The process-local registry of pilot scope leases                        *)
(* (governance/pilot_scope_lease.py: PilotScopeLeaseRegistry) and those who *)
(* work under a lease of one pilot run: the operator who revokes it        *)
(* (managed_copy_pilot_runtime.py), the requests that publish runtime      *)
(* evidence in an authority transaction, the halt that executes an effect, *)
(* and the recording of evidence outside a transaction                     *)
(* (managed_copy_runtime_evidence.py).                                     *)
(*                                                                         *)
(* A section under a mutex that takes no other mutex is one action, which  *)
(* waits for the mutex to be free.  A thread that waits for a mutex while  *)
(* it holds another is at a pc of its own.                                 *)
(***************************************************************************)
EXTENDS Naturals, FiniteSets

CONSTANTS
    Lease,         \* lease ids issued for one actor, package and pilot run
    Bindings,      \* how many actions a lease binds, in order
    EvidenceAt,    \* which of them is the publication of evidence
    EffectAt,      \* which of them is an effect (the halt of the runtime)
    Manager,       \* threads that revoke
    Publisher,     \* threads of requests that publish evidence
    Effector,      \* threads of requests that execute the effect
    Recorder,      \* threads that record evidence without a transaction
    NoThread,
    NoId,          \* lease of a thread without a call
    IssuedEarly,   \* may a lease be issued before its issued_at_ms?
    MaxCrashes     \* bound: restarts of the process in a behaviour

Thread == Manager \cup Publisher \cup Effector \cup Recorder

ASSUME PilotAssumption ==
    /\ Bindings \in Nat \ {0}
    /\ EvidenceAt \in 1..Bindings
    /\ EffectAt \in (1..Bindings) \ {EvidenceAt}
    /\ NoThread \notin Thread
    /\ NoId \notin Lease
    /\ IssuedEarly \in BOOLEAN
    /\ MaxCrashes \in Nat

VARIABLES
    lease,       \* lease[l]: the registry's _leases, with absence as a state
    window,      \* window[l]: now is before, within or after its lifetime
    pending,     \* _pending_revocations
    intent,      \* the thread that holds _intent_lock
    registry,    \* the thread that holds the registry's _lock over other waits
    recording,   \* the thread that holds _RECORD_LOCK
    managing,    \* the thread that holds the lock of managed_copy_pilot_runtime
    fileLock,    \* does the file .write.lock exist?
    receipts,    \* the leases whose evidence receipt is on disk
    pc,          \* pc[h]: where the thread is
    arg,         \* arg[h]: the lease it works under
    clock,       \* clock[h]: the window a revocation read before it waits
    seen,        \* seen[h]: the lease and the state its transaction began with
    published,   \* published[h]: what its transaction did to the receipt
    grants,      \* ghost: grants[l][b] authorized actions of a binding, at most Many
    revoking,    \* ghost: leases that somebody began to revoke while they held
    committed,   \* ghost: leases whose evidence was reported as recorded
    quarantined, \* ghost: leases of a denial that answered cleanup_required
    crashes

mutexes  == <<intent, registry, recording, managing>>
store    == <<lease, window, pending>>
evidence == <<fileLock, receipts>>
threads  == <<pc, arg, clock, seen, published>>
ghosts   == <<grants, revoking, committed, quarantined>>
vars     == <<store, mutexes, evidence, threads, ghosts, crashes>>

Many == 2

-----------------------------------------------------------------------------
NoLease == [state |-> "absent", used |-> 0]

Window == {"before", "within", "after"}

\* _effective_state of a lease at a time.
StateAt(l, w) ==
    IF lease[l].state # "active" THEN lease[l].state
    ELSE CASE w = "before" -> "pending"
           [] w = "after"  -> "expired"
           [] w = "within" -> IF lease[l].used = Bindings THEN "consumed" ELSE "active"

Revocable(l, w) == StateAt(l, w) \in {"active", "consumed"}

Effective(l)   == StateAt(l, window[l])
Active(l)      == Effective(l) = "active"
InForce(l)     == Revocable(l, window[l])
NextBinding(l) == lease[l].used + 1

\* The lease and its effective state, as a transaction compares them.
Observation(l) == [lease |-> lease[l], state |-> Effective(l)]
NoObservation  == [lease |-> NoLease, state |-> "absent"]

\* _lease_authority_snapshot: the actions before the publication are consumed.
Authorized(l) == InForce(l) /\ lease[l].used = EvidenceAt

LeaseRecord == [state : {"absent", "active", "revoked", "sealed"}, used : 0..Bindings]

State == {"absent", "pending", "active", "consumed", "expired", "revoked", "sealed"}

Place == {"idle", "announce", "revoke", "revoked", "ask", "open", "record", "write",
          "close", "commit", "decide", "denied", "begin", "effect", "lock", "verify"}

StoreOK ==
    /\ lease \in [Lease -> LeaseRecord]
    /\ window \in [Lease -> Window]
    /\ pending \subseteq Lease

MutexesOK ==
    /\ intent \in Thread \cup {NoThread}
    /\ registry \in Thread \cup {NoThread}
    /\ recording \in Thread \cup {NoThread}
    /\ managing \in Thread \cup {NoThread}

ThreadsOK ==
    /\ pc \in [Thread -> Place]
    /\ arg \in [Thread -> Lease \cup {NoId}]
    /\ clock \in [Thread -> Window]
    /\ seen \in [Thread -> [lease : LeaseRecord, state : State]]
    /\ published \in [Thread -> {"nothing", "wrote", "had"}]

GhostsOK ==
    /\ grants \in [Lease -> [1..Bindings -> 0..Many]]
    /\ revoking \subseteq Lease
    /\ committed \subseteq Lease
    /\ quarantined \subseteq Lease

TypeOK ==
    /\ StoreOK /\ MutexesOK /\ ThreadsOK /\ GhostsOK
    /\ fileLock \in BOOLEAN
    /\ receipts \subseteq Lease
    /\ crashes \in 0..MaxCrashes

Init ==
    /\ lease = [l \in Lease |-> NoLease]
    /\ window \in [Lease -> IF IssuedEarly THEN {"before", "within"} ELSE {"within"}]
    /\ pending = {}
    /\ intent = NoThread /\ registry = NoThread
    /\ recording = NoThread /\ managing = NoThread
    /\ fileLock = FALSE
    /\ receipts = {}
    /\ pc = [h \in Thread |-> "idle"]
    /\ arg = [h \in Thread |-> NoId]
    /\ clock = [h \in Thread |-> "before"]
    /\ seen = [h \in Thread |-> NoObservation]
    /\ published = [h \in Thread |-> "nothing"]
    /\ grants = [l \in Lease |-> [b \in 1..Bindings |-> 0]]
    /\ revoking = {}
    /\ committed = {}
    /\ quarantined = {}
    /\ crashes = 0

Goto(h, at) == pc' = [pc EXCEPT ![h] = at]

Count(l, b) == grants' = [grants EXCEPT ![l][b] = IF @ < Many THEN @ + 1 ELSE @]

\* A call begins, and returns.
Begin(h, l, at) ==
    /\ pc[h] = "idle"
    /\ arg' = [arg EXCEPT ![h] = l]
    /\ Goto(h, at)

Return(h) ==
    /\ Goto(h, "idle")
    /\ arg' = [arg EXCEPT ![h] = NoId]
    /\ clock' = [clock EXCEPT ![h] = "before"]
    /\ seen' = [seen EXCEPT ![h] = NoObservation]
    /\ published' = [published EXCEPT ![h] = "nothing"]

-----------------------------------------------------------------------------
(* Calls that are one section under the registry's lock. *)

\* Mutant: the leases of the same pilot run are not looked at.
IssueUnchecked(l) ==
    /\ managing = NoThread /\ registry = NoThread
    /\ lease[l].state = "absent"
    /\ lease' = [lease EXCEPT ![l] = [state |-> "active", used |-> 0]]
    /\ UNCHANGED <<window, pending, mutexes, evidence, threads, ghosts, crashes>>

\* issue_pilot_runtime_lease: refused while another lease of the run is active.
Issue(l) ==
    /\ managing = NoThread /\ registry = NoThread
    /\ lease[l].state = "absent"
    /\ \A m \in Lease : ~Active(m)
    /\ lease' = [lease EXCEPT ![l] = [state |-> "active", used |-> 0]]
    /\ UNCHANGED <<window, pending, mutexes, evidence, threads, ghosts, crashes>>

\* Mutant: a consumed binding is not recorded.
ConsumeForgotten(l) ==
    /\ registry = NoThread
    /\ Active(l)
    /\ Count(l, NextBinding(l))
    /\ UNCHANGED lease

\* authorize_binding: the next binding of the lease, before its action.
Consume(l) ==
    /\ registry = NoThread
    /\ Active(l)
    /\ lease' = [lease EXCEPT ![l].used = @ + 1]
    /\ Count(l, NextBinding(l))

\* A request whose action is neither the publication nor the effect.
Act(l) ==
    /\ Consume(l)
    /\ NextBinding(l) \notin {EvidenceAt, EffectAt}
    /\ UNCHANGED <<window, pending, mutexes, evidence, threads, revoking, committed,
                   quarantined, crashes>>

Seal(l) ==
    /\ registry = NoThread
    /\ InForce(l)
    /\ lease' = [lease EXCEPT ![l].state = "sealed"]
    /\ UNCHANGED <<window, pending, mutexes, evidence, threads, ghosts, crashes>>

-----------------------------------------------------------------------------
(* revoke_pilot_runtime_lease holds its module's lock and calls revoke: the  *)
(* time is read, the intent is announced, and the registry's lock waited for. *)

Manage(h, l) ==
    /\ managing = NoThread
    /\ lease[l].state # "absent"
    /\ Begin(h, l, "announce")
    /\ managing' = h
    /\ clock' = [clock EXCEPT ![h] = window[l]]
    /\ UNCHANGED <<store, intent, registry, recording, evidence, seen, published,
                   ghosts, crashes>>

Announce(h) ==
    LET l == arg[h] IN
    /\ pc[h] = "announce"
    /\ intent = NoThread
    /\ pending' = pending \cup {l}
    /\ revoking' = IF Revocable(l, clock[h]) THEN revoking \cup {l} ELSE revoking
    /\ Goto(h, "revoke")
    /\ UNCHANGED <<lease, window, mutexes, evidence, arg, clock, seen, published,
                   grants, committed, quarantined, crashes>>

Revoke(h) ==
    LET l == arg[h] IN
    /\ pc[h] = "revoke"
    /\ registry = NoThread
    /\ lease' = IF Revocable(l, clock[h]) THEN [lease EXCEPT ![l].state = "revoked"] ELSE lease
    /\ Goto(h, "revoked")
    /\ UNCHANGED <<window, pending, mutexes, evidence, arg, clock, seen, published, ghosts, crashes>>

Retract(h) ==
    /\ pc[h] = "revoked"
    /\ intent = NoThread
    /\ pending' = pending \ {arg[h]}
    /\ managing' = NoThread
    /\ Return(h)
    /\ UNCHANGED <<lease, window, intent, registry, recording, evidence, ghosts, crashes>>

-----------------------------------------------------------------------------
(* A request consumes the binding of its publication and then runs           *)
(* execute_authority_transaction, whose operation records evidence           *)
(* (record_safe_delta_runtime_evidence_with_lease and                        *)
(* record_runtime_evidence_with_lease_transaction).                          *)

Publish(h, l) ==
    /\ Consume(l)
    /\ NextBinding(l) = EvidenceAt
    /\ Begin(h, l, "ask")
    /\ UNCHANGED <<window, pending, mutexes, evidence, clock, seen, published,
                   revoking, committed,
                   quarantined, crashes>>

Ask(h) ==
    /\ pc[h] = "ask"
    /\ intent = NoThread
    /\ IF arg[h] \in pending
       THEN Return(h)
       ELSE Goto(h, "open") /\ UNCHANGED <<arg, clock, seen, published>>
    /\ UNCHANGED <<store, mutexes, evidence, ghosts, crashes>>

\* The registry's lock is taken and kept while the operation runs.
Open(h) ==
    LET l == arg[h] IN
    /\ pc[h] = "open"
    /\ registry = NoThread
    /\ \/ /\ Authorized(l)
          /\ registry' = h
          /\ seen' = [seen EXCEPT ![h] = Observation(l)]
          /\ Goto(h, "record")
          /\ UNCHANGED <<arg, clock, published>>
       \/ /\ ~Authorized(l)
          /\ Return(h)
          /\ UNCHANGED registry
    /\ UNCHANGED <<store, intent, recording, managing, evidence, ghosts, crashes>>

\* record_runtime_evidence: the mutex, then the lock file; if the file is there
\* nothing is recorded.
Record(h) ==
    /\ pc[h] = "record"
    /\ recording = NoThread
    /\ \/ /\ ~fileLock
          /\ recording' = h
          /\ fileLock' = TRUE
          /\ Goto(h, "write")
       \/ /\ fileLock
          /\ Goto(h, "close")
          /\ UNCHANGED <<recording, fileLock>>
    /\ UNCHANGED <<store, intent, registry, managing, receipts, arg, clock, seen, published,
                   ghosts, crashes>>

\* The receipt is created, or found as an earlier publication left it.
Write(h) ==
    LET l == arg[h] IN
    /\ pc[h] = "write"
    /\ receipts' = receipts \cup {l}
    /\ published' = [published EXCEPT ![h] = IF l \in receipts THEN "had" ELSE "wrote"]
    /\ recording' = NoThread
    /\ fileLock' = FALSE
    /\ Goto(h, "close")
    /\ UNCHANGED <<store, intent, registry, managing, arg, clock, seen, ghosts, crashes>>

\* Mutant: the registry's lock is kept until the commit is decided.
CloseKeeps(h) ==
    /\ pc[h] = "close"
    /\ Goto(h, "commit")
    /\ UNCHANGED <<store, mutexes, evidence, arg, clock, seen, published, ghosts, crashes>>

Close(h) ==
    /\ pc[h] = "close"
    /\ registry' = NoThread
    /\ Goto(h, "commit")
    /\ UNCHANGED <<store, intent, recording, managing, evidence, arg, clock, seen, published,
                   ghosts, crashes>>

\* Mutant: the announced revocations are not looked at.
CommitUnasked(h) ==
    /\ pc[h] = "commit"
    /\ intent = NoThread
    /\ intent' = h
    /\ Goto(h, "decide")
    /\ UNCHANGED <<store, registry, recording, managing, evidence, arg, clock, seen, published,
                   ghosts, crashes>>

\* A revocation that is announced by now is honoured: no commit.
Commit(h) ==
    /\ pc[h] = "commit"
    /\ intent = NoThread
    /\ \/ /\ arg[h] \in pending
          /\ Goto(h, "denied")
          /\ UNCHANGED intent
       \/ /\ arg[h] \notin pending
          /\ intent' = h
          /\ Goto(h, "decide")
    /\ UNCHANGED <<store, registry, recording, managing, evidence, arg, clock, seen, published,
                   ghosts, crashes>>

\* Nor is a lease that changed since the operation began.
Decide(h) ==
    LET l == arg[h] IN
    /\ pc[h] = "decide"
    /\ registry = NoThread
    /\ intent' = NoThread
    /\ \/ /\ Observation(l) = seen[h]
          /\ committed' = IF published[h] = "nothing" THEN committed ELSE committed \cup {l}
          /\ Return(h)
       \/ /\ Observation(l) # seen[h]
          /\ Goto(h, "denied")
          /\ UNCHANGED <<arg, clock, seen, published, committed>>
    /\ UNCHANGED <<store, registry, recording, managing, evidence, grants, revoking, quarantined,
                   crashes>>

\* Mutant: the receipt stays.
WithdrawNothing(h) ==
    /\ pc[h] = "denied"
    /\ Return(h)
    /\ UNCHANGED <<store, mutexes, evidence, ghosts, crashes>>

\* Mutant: a receipt that was there before is withdrawn too.
WithdrawAny(h) ==
    /\ pc[h] = "denied"
    /\ receipts' = receipts \ {arg[h]}
    /\ Return(h)
    /\ UNCHANGED <<store, mutexes, fileLock, ghosts, crashes>>

\* _runtime_evidence_transaction_failed: the receipt this call wrote is removed,
\* under no lock; when that fails it stays, and the answer is cleanup_required.
Withdraw(h) ==
    LET l == arg[h] IN
    /\ pc[h] = "denied"
    /\ \/ /\ published[h] # "wrote"
          /\ UNCHANGED <<receipts, quarantined>>
       \/ /\ published[h] = "wrote"
          /\ receipts' = receipts \ {l}
          /\ UNCHANGED quarantined
       \/ /\ published[h] = "wrote"
          /\ quarantined' = quarantined \cup {l}
          /\ UNCHANGED receipts
    /\ Return(h)
    /\ UNCHANGED <<store, mutexes, fileLock, grants, revoking, committed, crashes>>

-----------------------------------------------------------------------------
(* authorize_execute_and_consume: both locks are held while the effect runs. *)

Request(h, l) ==
    /\ intent = NoThread
    /\ Begin(h, l, "begin")
    /\ intent' = h
    /\ UNCHANGED <<store, registry, recording, managing, evidence, clock, seen, published,
                   ghosts, crashes>>

Permitted(l) == l \notin pending /\ Active(l) /\ NextBinding(l) = EffectAt

\* Mutant: a denied request leaves the intent lock held.
EffectBeginsKeeps(h) ==
    LET l == arg[h] IN
    /\ pc[h] = "begin"
    /\ registry = NoThread
    /\ IF Permitted(l)
       THEN registry' = h /\ Goto(h, "effect") /\ UNCHANGED <<arg, clock, seen, published>>
       ELSE Return(h) /\ UNCHANGED registry
    /\ UNCHANGED <<store, intent, recording, managing, evidence, ghosts, crashes>>

EffectBegins(h) ==
    LET l == arg[h] IN
    /\ pc[h] = "begin"
    /\ registry = NoThread
    /\ \/ /\ Permitted(l)
          /\ registry' = h
          /\ Goto(h, "effect")
          /\ UNCHANGED <<intent, arg, clock, seen, published>>
       \/ /\ ~Permitted(l)
          /\ intent' = NoThread
          /\ Return(h)
          /\ UNCHANGED registry
    /\ UNCHANGED <<store, recording, managing, evidence, ghosts, crashes>>

\* Only an effect that succeeds consumes its binding.
EffectEnds(h, ok) ==
    LET l == arg[h] IN
    /\ pc[h] = "effect"
    /\ IF ok THEN /\ lease' = [lease EXCEPT ![l].used = @ + 1]
                  /\ Count(l, NextBinding(l))
             ELSE UNCHANGED <<lease, grants>>
    /\ registry' = NoThread
    /\ intent' = NoThread
    /\ Return(h)
    /\ UNCHANGED <<window, pending, recording, managing, evidence, revoking, committed,
                   quarantined, crashes>>

-----------------------------------------------------------------------------
(* record_runtime_evidence of a runtime's start, without a transaction.      *)
(* verify_pilot_runtime_source asks the registry for the state of the lease  *)
(* when the record is planned, and again under the mutex.                    *)

Plan(h, l) ==
    /\ registry = NoThread
    /\ Active(l)
    /\ Begin(h, l, "lock")
    /\ UNCHANGED <<store, mutexes, evidence, clock, seen, published, ghosts, crashes>>

Lock(h) ==
    /\ pc[h] = "lock"
    /\ recording = NoThread
    /\ \/ /\ ~fileLock
          /\ recording' = h
          /\ fileLock' = TRUE
          /\ Goto(h, "verify")
          /\ UNCHANGED <<arg, clock, seen, published>>
       \/ /\ fileLock
          /\ Return(h)
          /\ UNCHANGED <<recording, fileLock>>
    /\ UNCHANGED <<store, intent, registry, managing, receipts, ghosts, crashes>>

\* Mutant: the lock file stays.
VerifyKeepsFile(h) ==
    /\ pc[h] = "verify"
    /\ registry = NoThread
    /\ recording' = NoThread
    /\ Return(h)
    /\ UNCHANGED <<store, intent, registry, managing, evidence, ghosts, crashes>>

\* The receipt of the start is another one than that of the publications.
Verify(h) ==
    /\ pc[h] = "verify"
    /\ registry = NoThread
    /\ recording' = NoThread
    /\ fileLock' = FALSE
    /\ Return(h)
    /\ UNCHANGED <<store, intent, registry, managing, receipts, ghosts, crashes>>

-----------------------------------------------------------------------------
\* Time passes issued_at_ms, or expires_at_ms.
Tick(l) ==
    /\ window[l] # "after"
    /\ window' = [window EXCEPT ![l] = IF @ = "before" THEN "within" ELSE "after"]
    /\ UNCHANGED <<lease, pending, mutexes, evidence, threads, ghosts, crashes>>

\* The process restarts: its registry is empty, the files are as they were.
Restart ==
    /\ crashes < MaxCrashes
    /\ crashes' = crashes + 1
    /\ lease' = [l \in Lease |-> NoLease]
    /\ pending' = {}
    /\ intent' = NoThread /\ registry' = NoThread
    /\ recording' = NoThread /\ managing' = NoThread
    /\ pc' = [h \in Thread |-> "idle"]
    /\ arg' = [h \in Thread |-> NoId]
    /\ clock' = [h \in Thread |-> "before"]
    /\ seen' = [h \in Thread |-> NoObservation]
    /\ published' = [h \in Thread |-> "nothing"]
    /\ grants' = [l \in Lease |-> [b \in 1..Bindings |-> 0]]
    /\ revoking' = {}
    /\ UNCHANGED <<window, evidence, committed, quarantined>>

RevokeStep(h)  == Announce(h) \/ Revoke(h) \/ Retract(h)
PublishStep(h) == Ask(h) \/ Open(h) \/ Record(h) \/ Write(h) \/ Close(h) \/ Commit(h)
                    \/ Decide(h) \/ Withdraw(h)
EffectStep(h)  == EffectBegins(h) \/ \E ok \in BOOLEAN : EffectEnds(h, ok)
RecordStep(h)  == Lock(h) \/ Verify(h)

Next ==
    \/ \E l \in Lease : Issue(l) \/ Act(l) \/ Seal(l) \/ Tick(l)
    \/ \E h \in Manager   : RevokeStep(h)  \/ \E l \in Lease : Manage(h, l)
    \/ \E h \in Publisher : PublishStep(h) \/ \E l \in Lease : Publish(h, l)
    \/ \E h \in Effector  : EffectStep(h)  \/ \E l \in Lease : Request(h, l)
    \/ \E h \in Recorder  : RecordStep(h)  \/ \E l \in Lease : Plan(h, l)
    \/ Restart

Spec == Init /\ [][Next]_vars

\* A thread that has begun a call is scheduled, and an effect ends.  A mutex is
\* not fair: what it owes a waiter is to be free again and again.
Fairness ==
    /\ \A h \in Manager   : SF_vars(RevokeStep(h))
    /\ \A h \in Publisher : SF_vars(PublishStep(h))
    /\ \A h \in Effector  : SF_vars(EffectStep(h))
    /\ \A h \in Recorder  : SF_vars(RecordStep(h))

FairSpec == Spec /\ Fairness

-----------------------------------------------------------------------------
(* Properties *)

\* Every binding of a lease authorizes one action, whoever asks and however
\* authorize_binding and authorize_execute_and_consume interleave.
GrantedOnce == \A l \in Lease, b \in 1..Bindings : grants[l][b] <= 1

\* At any time one lease of the actor, the package and the pilot run is active
\* (issue: conflicting_active_pilot_lease).
OneActiveLease == \A l, m \in Lease : Active(l) /\ Active(m) => l = m

\* Once the revocation of a lease in force is announced, no evidence is
\* committed under it and no effect begins, though the revocation may still be
\* waiting for the registry's lock (execute_authority_transaction fails closed
\* on a concurrent revocation).
RevocationIsHonoured ==
    [][\A l \in revoking :
          /\ l \in committed' => l \in committed
          /\ \A h \in Effector :
                pc[h] # "effect" /\ pc'[h] = "effect" => arg'[h] # l]_vars

\* Evidence that was reported as recorded is on disk: the clean-up of a denied
\* publication never removes the receipt of one that committed, before or after
\* a restart (_runtime_evidence_transaction_failed).
CommittedIsPublished == committed \subseteq receipts

\* Until a restart, the receipts on disk are those of committed publications and
\* of publications under way: a denied one leaves nothing behind, or answers
\* cleanup_required because the receipt could not be removed.
ReceiptHasCommit ==
    crashes = 0 => \A l \in receipts \ (committed \cup quarantined) :
        \E h \in Publisher : arg[h] = l /\ pc[h] \in {"close", "commit", "decide", "denied"}

\* Whom a thread that waits for a mutex waits for.
WaitsFor(h) ==
    CASE pc[h] \in {"announce", "revoked", "ask", "commit"}           -> intent
      [] pc[h] \in {"revoke", "open", "decide", "begin", "verify"}     -> registry
      [] pc[h] \in {"record", "lock"}                                 -> recording
      [] OTHER                                                        -> NoThread

\* Over _intent_lock, the registry's _lock and _RECORD_LOCK there is one way to
\* wait in a circle: a recording outside a transaction holds _RECORD_LOCK and asks
\* the registry, and a transaction's operation holds the registry and asks for
\* _RECORD_LOCK.  Whoever waits for each other, those two are among them.
OnlyInversionDeadlocks ==
    \A S \in SUBSET Thread :
        S # {} /\ (\A h \in S : WaitsFor(h) \in S) =>
            /\ \E h \in S : pc[h] = "verify" /\ recording = h
            /\ \E h \in S : pc[h] = "record" /\ registry = h

\* Until a restart, the lock file of the receipts is there only while somebody
\* records (_cross_process_receipt_lock).  A process that dies leaves it for good.
LockFileIsHeld == fileLock /\ crashes = 0 => \E h \in Thread : pc[h] \in {"write", "verify"}

\* Every call on the registry that begins returns.
CallsReturn == \A h \in Thread : pc[h] # "idle" ~> pc[h] = "idle"

\* What the registry makes of a lease for those who work under it.
Standing(l) ==
    CASE lease[l].state = "absent"             -> "absent"
      [] lease[l].state \in {"revoked", "sealed"} -> "ended"
      [] OTHER -> IF l \in revoking THEN "announced" ELSE "active"

\* The lease under which an effect runs.
Effecting == IF \E h \in Effector : pc[h] = "effect"
             THEN arg[CHOOSE h \in Effector : pc[h] = "effect"] ELSE NoId

Authority == INSTANCE LeaseAuthority WITH
    standing <- [l \in Lease |-> Standing(l)],
    used     <- [l \in Lease |-> lease[l].used],
    effect   <- Effecting

\* Over two mutexes, announced revocations and a second look at the lease, the
\* calls of the registry are the atomic ones of LeaseAuthority: a commit and the
\* beginning of an effect see a lease that nobody has begun to revoke, and an
\* effect runs as if nobody else were there.
ImplementsAuthority == Authority!Spec

=============================================================================
