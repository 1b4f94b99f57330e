---------------------------- MODULE LeaseAuthority ----------------------------
(***************************************************************************)
(* What the registry of pilot leases promises to those who work under one  *)
(* (authorize_binding, execute_authority_transaction and                   *)
(* authorize_execute_and_consume of governance/pilot_scope_lease.py): one  *)
(* lease authorizes at a time, binding by binding, in its lifetime.  From  *)
(* the moment its revocation is announced nothing is committed and no      *)
(* effect begins under it, and an effect has the authority to itself.      *)
(***************************************************************************)
EXTENDS Naturals

CONSTANTS Lease, Bindings, EvidenceAt, EffectAt, NoId

VARIABLES
    standing,    \* standing[l] of a lease
    used,        \* used[l]: its actions that were authorized
    window,      \* window[l]: now is before, within or after its lifetime
    committed,   \* the leases whose evidence was recorded
    effect       \* the lease under which an effect runs

authority == <<standing, used>>
vars      == <<authority, window, committed, effect>>

InForce(l) == standing[l] \in {"active", "announced"} /\ window[l] = "within"
Usable(l)  == InForce(l) /\ used[l] < Bindings

Init ==
    /\ standing = [l \in Lease |-> "absent"]
    /\ used = [l \in Lease |-> 0]
    /\ window \in [Lease -> {"before", "within"}]
    /\ committed = {}
    /\ effect = NoId

Becomes(l, s) == standing' = [standing EXCEPT ![l] = s]

Issue(l) ==
    /\ effect = NoId
    /\ standing[l] = "absent"
    /\ \A m \in Lease : ~ Usable(m)
    /\ Becomes(l, "active")
    /\ UNCHANGED <<used, window, committed, effect>>

Announce(l) ==
    /\ effect = NoId
    /\ standing[l] = "active"
    /\ Becomes(l, "announced")
    /\ UNCHANGED <<used, window, committed, effect>>

\* It is revoked, or the run is over.
End(l) ==
    /\ effect = NoId
    /\ standing[l] \in {"active", "announced"}
    /\ Becomes(l, "ended")
    /\ UNCHANGED <<used, window, committed, effect>>

\* An action other than the effect is authorized.  It may have passed the announcement.
Authorize(l) ==
    /\ effect = NoId
    /\ Usable(l)
    /\ used[l] + 1 # EffectAt
    /\ used' = [used EXCEPT ![l] = @ + 1]
    /\ UNCHANGED <<standing, window, committed, effect>>

\* Evidence is recorded while its binding is the last that was used.
Commit(l) ==
    /\ effect = NoId
    /\ standing[l] = "active"
    /\ window[l] = "within"
    /\ used[l] = EvidenceAt
    /\ committed' = committed \cup {l}
    /\ UNCHANGED <<authority, window, effect>>

BeginEffect(l) ==
    /\ effect = NoId
    /\ standing[l] = "active"
    /\ window[l] = "within"
    /\ used[l] + 1 = EffectAt
    /\ effect' = l
    /\ UNCHANGED <<authority, window, committed>>

\* An effect that succeeded has used its binding.
EndEffect(l) ==
    /\ effect = l
    /\ effect' = NoId
    /\ \/ used' = [used EXCEPT ![l] = @ + 1]
       \/ UNCHANGED used
    /\ UNCHANGED <<standing, window, committed>>

Tick(l) ==
    /\ window[l] # "after"
    /\ window' = [window EXCEPT ![l] = IF @ = "before" THEN "within" ELSE "after"]
    /\ UNCHANGED <<authority, committed, effect>>

\* The process restarts and knows of no lease.
Forget ==
    /\ standing' = [l \in Lease |-> "absent"]
    /\ used' = [l \in Lease |-> 0]
    /\ effect' = NoId
    /\ UNCHANGED <<window, committed>>

Next ==
    \/ \E l \in Lease : \/ Issue(l) \/ Announce(l) \/ End(l) \/ Authorize(l) \/ Commit(l)
                        \/ BeginEffect(l) \/ EndEffect(l) \/ Tick(l)
    \/ Forget

Spec == Init /\ [][Next]_vars
=============================================================================
