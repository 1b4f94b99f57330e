---------------------------- MODULE ApprovalGate ----------------------------
(***************************************************************************)
(* What the approval records promise to those who act on them              *)
(* (governance/approvals.py, _find_approval of agent/supervised_exec.py    *)
(* and agent/git_push.py): a request is decided at one instant and for     *)
(* good, every look-up reads what is decided just then, and what begins    *)
(* was approved for just that.  A request that two calls decided at once,  *)
(* or one that was interrupted, is disputed: of it, any answer is read.    *)
(***************************************************************************)
CONSTANTS Approval, Payload, NoPayload, Consumer, NoApproval

VARIABLES
    payload,     \* payload[a]: what request a asks for
    verdict,     \* verdict[a] on it
    using,       \* using[c]: the request that c looks up
    wants,       \* wants[c]: what c is to do
    found,       \* found[c]: what c read
    running      \* who runs a command or a push

records  == <<payload, verdict>>
consumer == <<using, wants, found, running>>

Decision == {"approved", "rejected", "emergency"}
Settled  == {"pending"} \cup Decision

\* Requests may be there already.
Init ==
    /\ payload \in [Approval -> Payload \cup {NoPayload}]
    /\ verdict = [a \in Approval |-> IF payload[a] = NoPayload THEN "absent" ELSE "pending"]
    /\ using = [c \in Consumer |-> NoApproval]
    /\ wants = [c \in Consumer |-> NoPayload]
    /\ found = [c \in Consumer |-> "none"]
    /\ running = {}

NewRequest(a, q) ==
    /\ payload[a] = NoPayload
    /\ payload' = [payload EXCEPT ![a] = q]
    /\ verdict' = [verdict EXCEPT ![a] = "pending"]

\* A decision, or the dispute that stands in its place.
Decide(a, s) ==
    /\ verdict[a] = "pending"
    /\ verdict' = [verdict EXCEPT ![a] = s]
    /\ UNCHANGED <<payload, consumer>>

Resume(c, a, q) ==
    /\ using[c] = NoApproval
    /\ verdict[a] # "absent"
    /\ using' = [using EXCEPT ![c] = a]
    /\ wants' = [wants EXCEPT ![c] = q]
    /\ UNCHANGED <<records, found, running>>

\* The verdict, or nothing of use when the file was moved just then.
Answers(a) == IF verdict[a] = "disputed" THEN Settled \cup {"corrupt"}
                                         ELSE {verdict[a], "corrupt"}

LookUp(c) ==
    /\ using[c] # NoApproval
    /\ found[c] = "none"
    /\ \E s \in Answers(using[c]) : found' = [found EXCEPT ![c] = s]
    /\ UNCHANGED <<records, using, wants, running>>

Begin(c) ==
    /\ found[c] = "approved"
    /\ payload[using[c]] = wants[c]
    /\ c \notin running
    /\ running' = running \cup {c}
    /\ UNCHANGED <<records, using, wants, found>>

\* The caller is answered, with a new request if it asked for something else; or its
\* process ends.
Leave(c) ==
    /\ using[c] # NoApproval
    /\ using' = [using EXCEPT ![c] = NoApproval]
    /\ wants' = [wants EXCEPT ![c] = NoPayload]
    /\ found' = [found EXCEPT ![c] = "none"]
    /\ running' = running \ {c}
    /\ \/ UNCHANGED records
       \/ found[c] # "none" /\ \E a \in Approval : NewRequest(a, wants[c])

Next ==
    \/ \E a \in Approval, q \in Payload : NewRequest(a, q) /\ UNCHANGED consumer
    \/ \E a \in Approval, s \in Decision \cup {"disputed"} : Decide(a, s)
    \/ \E c \in Consumer, a \in Approval, q \in Payload : Resume(c, a, q)
    \/ \E c \in Consumer : LookUp(c) \/ Begin(c) \/ Leave(c)

Spec == Init /\ [][Next]_<<records, consumer>>
=============================================================================
