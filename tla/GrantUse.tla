------------------------------- MODULE GrantUse -------------------------------
(***************************************************************************)
(* What the approval store of compute promises (authorize and consume of   *)
(* compute_substrate_approvals.py, as execute uses them): a grant is open  *)
(* once it was issued, until it expires, is revoked or, for a single use,  *)
(* used; then it is closed for good.  A backend that needs an approval     *)
(* starts for a claim that was made on an open grant, for a task of its    *)
(* scope, and after the grant was closed for it if it is for a single use; *)
(* a claim may outlive the grant, and two claims may be made at once.      *)
(***************************************************************************)
CONSTANTS Submission, Task, Grant, Scope, Reusable

VARIABLES
    state,    \* state[g] of a grant
    claim,    \* claim[s]: the grant and the task that s is about to use it for
    due,      \* due[s]: those its backend is to be started with
    under     \* under[s]: those its backend was started with

vars == <<state, claim, due, under>>

Nothing == <<>>

Init ==
    /\ state = [g \in Grant |-> "none"]
    /\ claim = [s \in Submission |-> Nothing]
    /\ due = [s \in Submission |-> Nothing]
    /\ under = [s \in Submission |-> Nothing]

Issue(g) ==
    /\ state[g] = "none"
    /\ state' = [state EXCEPT ![g] = "open"]
    /\ UNCHANGED <<claim, due, under>>

\* It expires or is revoked.
Close(g) ==
    /\ state[g] = "open"
    /\ state' = [state EXCEPT ![g] = "closed"]
    /\ UNCHANGED <<claim, due, under>>

May(s, g, t) ==
    /\ state[g] = "open"
    /\ t \in Scope[g]
    /\ claim[s] = Nothing
    /\ due[s] = Nothing
    /\ under[s] = Nothing

Claim(s, g, t) ==
    /\ May(s, g, t)
    /\ g \notin Reusable
    /\ claim' = [claim EXCEPT ![s] = <<g, t>>]
    /\ UNCHANGED <<state, due, under>>

\* Nothing is written for a grant that stays good.
ClaimReusable(s, g, t) ==
    /\ May(s, g, t)
    /\ g \in Reusable
    /\ due' = [due EXCEPT ![s] = <<g, t>>]
    /\ UNCHANGED <<state, claim, under>>

Use(s) ==
    /\ claim[s] # Nothing
    /\ due' = [due EXCEPT ![s] = claim[s]]
    /\ claim' = [claim EXCEPT ![s] = Nothing]
    /\ state' = [state EXCEPT ![claim[s][1]] = "closed"]
    /\ UNCHANGED under

Start(s) ==
    /\ due[s] # Nothing
    /\ under' = [under EXCEPT ![s] = due[s]]
    /\ due' = [due EXCEPT ![s] = Nothing]
    /\ UNCHANGED <<state, claim>>

\* A write that fails, or the end of the process: what was used stays so.
GiveUp(S) ==
    /\ claim' = [s \in Submission |-> IF s \in S THEN Nothing ELSE claim[s]]
    /\ due' = [s \in Submission |-> IF s \in S THEN Nothing ELSE due[s]]
    /\ UNCHANGED <<state, under>>

Next ==
    \/ \E g \in Grant : Issue(g) \/ Close(g)
    \/ \E s \in Submission, g \in Grant, t \in Task : Claim(s, g, t) \/ ClaimReusable(s, g, t)
    \/ \E s \in Submission : Use(s) \/ Start(s)
    \/ \E S \in SUBSET Submission : GiveUp(S)

Spec == Init /\ [][Next]_vars
=============================================================================
