------------------------------ MODULE Approvals ------------------------------
(***************************************************************************)
(* The approval records (governance/approvals.py), the operators and the   *)
(* builder who decide them (api/routes/approvals.py), and the supervised   *)
(* commands and pushes that ask for one and act on it                      *)
(* (agent/supervised_exec.py, agent/git_push.py).                          *)
(*                                                                         *)
(* A record is a file of one of four folders.  A decision is written to    *)
(* its folder by truncating and writing the file, and then the pending     *)
(* file is unlinked: nothing holds these steps together, and a reader      *)
(* looks through the folders one at a time.  The receipt that the builder  *)
(* writes first is a file of its kind of decision, written the same way.   *)
(***************************************************************************)
EXTENDS Naturals, Sequences

CONSTANTS
    Approval,      \* ids of approval requests (fresh uuids)
    Payload,       \* what is asked for: the action and its payload
    NoPayload,     \* of an id that was not requested yet
    LensAction,    \* payloads of the delegated lens actions
    BuildAction,   \* payloads that the builder may decide of its own accord
    Delegations,   \* the scopes delegated to the builder at first
    Operator,      \* calls of decide by an operator
    Builder,       \* calls of builder_self_decide
    Consumer,      \* callers of run_supervised_exec and run_git_push
    NoApproval,
    MaxCalls,      \* bound: calls that decide
    MaxFaults      \* bound: failed writes and unlinks, and crashes, of a decision

Decider == Operator \cup Builder

ASSUME ApprovalAssumption ==
    /\ NoPayload \notin Payload
    /\ NoApproval \notin Approval
    /\ LensAction \subseteq Payload
    /\ BuildAction \subseteq Payload \ LensAction
    /\ Delegations \subseteq {"lens", "full"}
    /\ Operator \cap Builder = {}
    /\ MaxCalls \in Nat
    /\ MaxFaults \in Nat

Decision == {"approved", "rejected", "emergency"}
Folder   == {"pending"} \cup Decision

\* The builder decides under a delegation, or as what it builds itself, and each
\* kind of decision has a folder of receipts.
Kind == {"delegated", "self"}

\* Mutant: decisions are looked for first.
DecisionsFirst == <<"approved", "rejected", "emergency", "pending">>

\* _find_approval goes through the folders in this order.
LookupOrder == <<"pending", "approved", "rejected", "emergency">>

\* What a file holds.  Two writers that truncated it before either wrote may
\* leave the longer text under the shorter one: mixed, which does not parse.
Readable == {"request", "operator"} \cup Kind
Content  == {"absent", "empty", "mixed"} \cup Readable
Receipt  == {"absent", "empty", "mixed"} \cup Decision

VARIABLES
    payload,     \* payload[a]: what request a asks for
    file,        \* file[f][a]: the file of a in folder f
    receipts,    \* receipts[k][a]: the builder's receipt of a decision of kind k
    delegated,   \* the scopes an active delegation grants to the builder
    pc,          \* pc[d]: where the deciding call is
    deciding,    \* deciding[d]: the request it decides
    status,      \* status[d]: as what
    kind,        \* kind[d]: on whose authority, "operator" or a Kind
    at,          \* at[c]: where the consumer is
    using,       \* using[c]: the approval id it was given
    wants,       \* wants[c]: what it is to do
    folder,      \* folder[c]: how far in LookupOrder it looked
    found,       \* found[c]: the status that _find_approval returns
    granted,     \* ghost: requests whose approval was once written in full
    told,        \* ghost: told[a]: the decisions of a that were answered with ok
    contested,   \* ghost: requests with two deciding calls at once, or an
                 \* interrupted one
    repeated,    \* ghost: requests the builder took up again while it was at
                 \* work on them, or had left a decision there
    calls,
    faults

fileVars     == <<payload, file, receipts>>
deciderVars  == <<pc, deciding, status, kind>>
consumerVars == <<at, using, wants, folder, found>>
ghostVars    == <<granted, told, contested, repeated>>
vars == <<fileVars, delegated, deciderVars, consumerVars, ghostVars, calls, faults>>

Requested == {a \in Approval : payload[a] # NoPayload}

\* d has read the pending request and will write its decision, or has begun to.
Holds(d) == pc[d] \in {"open", "write", "unlink"}

Init ==
    /\ payload = [a \in Approval |-> NoPayload]
    /\ file = [f \in Folder |-> [a \in Approval |-> "absent"]]
    /\ receipts = [k \in Kind |-> [a \in Approval |-> "absent"]]
    /\ delegated = Delegations
    /\ pc = [d \in Decider |-> "idle"]
    /\ deciding = [d \in Decider |-> NoApproval]
    /\ status = [d \in Decider |-> "approved"]
    /\ kind = [d \in Decider |-> "operator"]
    /\ at = [c \in Consumer |-> "idle"]
    /\ using = [c \in Consumer |-> NoApproval]
    /\ wants = [c \in Consumer |-> NoPayload]
    /\ folder = [c \in Consumer |-> 1]
    /\ found = [c \in Consumer |-> "none"]
    /\ granted = {}
    /\ told = [a \in Approval |-> {}]
    /\ contested = {}
    /\ repeated = {}
    /\ calls = 0
    /\ faults = 0

-----------------------------------------------------------------------------
(* Deciding *)

Goto(d, label) == pc' = [pc EXCEPT ![d] = label]

Return(d) ==
    /\ Goto(d, "idle")
    /\ deciding' = [deciding EXCEPT ![d] = NoApproval]
    /\ status' = [status EXCEPT ![d] = "approved"]
    /\ kind' = [kind EXCEPT ![d] = "operator"]

\* What the policy lets the builder decide: the lens actions by a delegation,
\* which only approves; everything by a full one; else what it builds itself.
BuilderMay(q, s) ==
    IF q \in LensAction
    THEN s = "approved" /\ delegated # {}
    ELSE s # "emergency" /\ ("full" \in delegated \/ q \in BuildAction)

\* and on which authority.
KindOf(q) == IF q \in LensAction \/ "full" \in delegated THEN "delegated" ELSE "self"

\* The builder takes a request up again, with an earlier call of its own still at
\* work on it or the file of a decision of its own in place.
TakesUpAgain(a) ==
    \/ \E e \in Builder : pc[e] # "idle" /\ deciding[e] = a
    \/ \E s \in Decision : file[s][a] \in Kind

\* Mutant: a decision under a delegation leaves no receipt.
EvaluateQuietly(d, a, s) ==
    /\ d \in Builder
    /\ pc[d] = "idle"
    /\ calls < MaxCalls
    /\ calls' = calls + 1
    /\ file["pending"][a] = "request"
    /\ BuilderMay(payload[a], s)
    /\ Goto(d, IF delegated # {} THEN "decide" ELSE "receipt")
    /\ deciding' = [deciding EXCEPT ![d] = a]
    /\ status' = [status EXCEPT ![d] = s]
    /\ kind' = [kind EXCEPT ![d] = KindOf(payload[a])]
    /\ repeated' = IF TakesUpAgain(a) THEN repeated \cup {a} ELSE repeated
    /\ UNCHANGED <<fileVars, delegated, consumerVars, granted, told, contested, faults>>

\* builder_self_decide, up to the evaluation of the policy.
Evaluate(d, a, s) ==
    /\ d \in Builder
    /\ pc[d] = "idle"
    /\ calls < MaxCalls
    /\ calls' = calls + 1
    /\ file["pending"][a] = "request"
    /\ BuilderMay(payload[a], s)
    /\ Goto(d, "receipt")
    /\ deciding' = [deciding EXCEPT ![d] = a]
    /\ status' = [status EXCEPT ![d] = s]
    /\ kind' = [kind EXCEPT ![d] = KindOf(payload[a])]
    /\ repeated' = IF TakesUpAgain(a) THEN repeated \cup {a} ELSE repeated
    /\ UNCHANGED <<fileVars, delegated, consumerVars, granted, told, contested, faults>>

\* _write_builder_receipt, _write_delegated_operator_approval_receipt: write_text
\* truncates the receipt of this request, if there was one,
OpenReceipt(d) ==
    /\ pc[d] = "receipt"
    /\ receipts' = [receipts EXCEPT ![kind[d]][deciding[d]] = "empty"]
    /\ Goto(d, "fill")
    /\ UNCHANGED <<payload, file, delegated, deciding, status, kind, consumerVars,
                   ghostVars, calls, faults>>

\* and writes it.
WriteReceipt(d) ==
    LET a == deciding[d]
        k == kind[d]
    IN
    /\ pc[d] = "fill"
    /\ \E text \in IF receipts[k][a] = "empty" THEN {status[d]} ELSE {status[d], "mixed"} :
           receipts' = [receipts EXCEPT ![k][a] = text]
    /\ Goto(d, "decide")
    /\ UNCHANGED <<payload, file, delegated, deciding, status, kind, consumerVars,
                   ghostVars, calls, faults>>

\* An operator's call of decide.
Call(d, a, s) ==
    /\ d \in Operator
    /\ pc[d] = "idle"
    /\ calls < MaxCalls
    /\ calls' = calls + 1
    /\ a \in Requested
    /\ Goto(d, "decide")
    /\ deciding' = [deciding EXCEPT ![d] = a]
    /\ status' = [status EXCEPT ![d] = s]
    /\ UNCHANGED <<fileVars, delegated, kind, consumerVars, ghostVars, faults>>

\* decide: the request is read, and the call goes on with its copy.
ReadPending(d) ==
    LET a == deciding[d] IN
    /\ pc[d] = "decide"
    /\ file["pending"][a] = "request"
    /\ Goto(d, "open")
    /\ contested' = contested \cup
           {b \in {a} : \E e \in Decider : Holds(e) /\ deciding[e] = b}
    /\ UNCHANGED <<fileVars, delegated, deciding, status, kind, consumerVars, granted,
                   told, repeated, calls, faults>>

\* decide: "Approval not found in pending queue."
NotPending(d) ==
    /\ pc[d] = "decide"
    /\ file["pending"][deciding[d]] = "absent"
    /\ Return(d)
    /\ UNCHANGED <<fileVars, delegated, consumerVars, ghostVars, calls, faults>>

\* Mutant: the request leaves the pending folder before its decision is there.
OpenMoves(d) ==
    /\ pc[d] = "open"
    /\ file' = [file EXCEPT !["pending"][deciding[d]] = "absent"]
    /\ Goto(d, "write")
    /\ UNCHANGED <<payload, receipts, delegated, deciding, status, kind, consumerVars,
                   ghostVars, calls, faults>>

\* decide: write_text opens the file of the decision, which truncates it,
Open(d) ==
    /\ pc[d] = "open"
    /\ file' = [file EXCEPT ![status[d]][deciding[d]] = "empty"]
    /\ Goto(d, "write")
    /\ UNCHANGED <<payload, receipts, delegated, deciding, status, kind, consumerVars,
                   ghostVars, calls, faults>>

\* and writes it, over what another writer put there in the meantime.
WriteDecision(d) ==
    LET a == deciding[d]
        s == status[d]
    IN
    /\ pc[d] = "write"
    /\ \E text \in IF file[s][a] = "empty" THEN {kind[d]} ELSE {kind[d], "mixed"} :
           /\ file' = [file EXCEPT ![s][a] = text]
           /\ granted' = IF s = "approved" /\ text # "mixed"
                         THEN granted \cup {a} ELSE granted
    /\ Goto(d, "unlink")
    /\ UNCHANGED <<payload, receipts, delegated, deciding, status, kind, consumerVars,
                   told, contested, repeated, calls, faults>>

\* Mutant: the pending request stays.
UnlinkLeaves(d) ==
    /\ pc[d] = "unlink"
    /\ file' = file
    /\ told' = [told EXCEPT ![deciding[d]] = @ \cup {status[d]}]
    /\ Return(d)
    /\ UNCHANGED <<payload, receipts, delegated, consumerVars, granted, contested,
                   repeated, calls, faults>>

\* decide: the request leaves the pending folder; ok.
Unlink(d) ==
    /\ pc[d] = "unlink"
    /\ file' = [file EXCEPT !["pending"][deciding[d]] = "absent"]
    /\ told' = [told EXCEPT ![deciding[d]] = @ \cup {status[d]}]
    /\ Return(d)
    /\ UNCHANGED <<payload, receipts, delegated, consumerVars, granted, contested,
                   repeated, calls, faults>>

\* decide: an exception of the unlink is passed over; ok all the same.
UnlinkFails(d) ==
    LET a == deciding[d] IN
    /\ pc[d] = "unlink"
    /\ file["pending"][a] # "absent"
    /\ faults < MaxFaults
    /\ faults' = faults + 1
    /\ told' = [told EXCEPT ![a] = @ \cup {status[d]}]
    /\ contested' = contested \cup {a}
    /\ Return(d)
    /\ UNCHANGED <<fileVars, delegated, consumerVars, calls, granted, repeated>>

\* A write raises or the process ends: the call is over where it is.
Interrupted(d) ==
    /\ pc[d] # "idle"
    /\ faults < MaxFaults
    /\ faults' = faults + 1
    /\ contested' = IF pc[d] \in {"write", "unlink"}
                    THEN contested \cup {deciding[d]} ELSE contested
    /\ Return(d)
    /\ UNCHANGED <<fileVars, delegated, consumerVars, calls, granted, told, repeated>>

\* A delegation expires.
Expire(g) ==
    /\ g \in delegated
    /\ delegated' = delegated \ {g}
    /\ UNCHANGED <<fileVars, deciderVars, consumerVars, ghostVars, calls, faults>>

-----------------------------------------------------------------------------
(* Acting on an approval *)

Step(c, label) == at' = [at EXCEPT ![c] = label]

Answer(c) ==
    /\ Step(c, "idle")
    /\ using' = [using EXCEPT ![c] = NoApproval]
    /\ wants' = [wants EXCEPT ![c] = NoPayload]
    /\ folder' = [folder EXCEPT ![c] = 1]
    /\ found' = [found EXCEPT ![c] = "none"]

\* approvals.request: a fresh id; nobody knows it before the file is written.
NewRequest(a, q) ==
    /\ payload[a] = NoPayload
    /\ payload' = [payload EXCEPT ![a] = q]
    /\ file' = [file EXCEPT !["pending"][a] = "request"]

\* run_supervised_exec, run_git_push without an id: needs_approval.
Ask(q) ==
    /\ \E a \in Approval : NewRequest(a, q)
    /\ UNCHANGED <<receipts, delegated, deciderVars, consumerVars, ghostVars,
                   calls, faults>>

\* The same with the id of a request, made for this or for something else.
Resume(c, a, q) ==
    /\ at[c] = "idle"
    /\ a \in Requested
    /\ Step(c, "find")
    /\ using' = [using EXCEPT ![c] = a]
    /\ wants' = [wants EXCEPT ![c] = q]
    /\ UNCHANGED <<fileVars, delegated, deciderVars, folder, found, ghostVars, calls, faults>>

\* _find_approval: path.exists() of one folder after the other.
Look(c) ==
    /\ at[c] = "find"
    /\ \/ /\ file[LookupOrder[folder[c]]][using[c]] # "absent"
          /\ Step(c, "read")
          /\ UNCHANGED <<folder, found>>
       \/ /\ file[LookupOrder[folder[c]]][using[c]] = "absent"
          /\ IF folder[c] < Len(LookupOrder)
             THEN /\ folder' = [folder EXCEPT ![c] = @ + 1]
                  /\ UNCHANGED <<at, found>>
             ELSE /\ found' = [found EXCEPT ![c] = "missing"]
                  /\ Step(c, "settle")
                  /\ UNCHANGED folder
    /\ UNCHANGED <<fileVars, delegated, deciderVars, using, wants, ghostVars, calls, faults>>

\* _find_approval: the file is read, if it is still there and parses.
Read(c) ==
    LET f == LookupOrder[folder[c]] IN
    /\ at[c] = "read"
    /\ found' = [found EXCEPT ![c] =
                    IF file[f][using[c]] \in Readable THEN f ELSE "corrupt"]
    /\ Step(c, "settle")
    /\ UNCHANGED <<fileVars, delegated, deciderVars, using, wants, folder, ghostVars,
                   calls, faults>>

\* Mutant: an approval is good for whatever the caller wants.
MatchesAny(c) == found[c] = "approved"

\* _approval_matches_request
Matches(c) == found[c] = "approved" /\ payload[using[c]] = wants[c]

\* Missing, corrupt, or of something else: a new request, as long as the model
\* has ids left; needs_approval.
Refresh(c) ==
    /\ at[c] = "settle"
    /\ found[c] \in {"missing", "corrupt", "approved"}
    /\ ~ Matches(c)
    /\ \/ \E a \in Approval : NewRequest(a, wants[c])
       \/ Requested = Approval /\ UNCHANGED <<payload, file>>
    /\ Answer(c)
    /\ UNCHANGED <<receipts, delegated, deciderVars, ghostVars, calls, faults>>

\* Pending: needs_approval.  Rejected or escalated: denied.
TurnAway(c) ==
    /\ at[c] = "settle"
    /\ found[c] \in {"pending", "rejected", "emergency"}
    /\ Answer(c)
    /\ UNCHANGED <<fileVars, delegated, deciderVars, ghostVars, calls, faults>>

\* Approved: the plan is written, the command or push begins,
Execute(c) ==
    /\ at[c] = "settle"
    /\ Matches(c)
    /\ Step(c, "run")
    /\ UNCHANGED <<fileVars, delegated, deciderVars, using, wants, folder, found,
                   ghostVars, calls, faults>>

\* and it ends, whatever its exit code.  The approval is not used up.
Finish(c) ==
    /\ at[c] = "run"
    /\ Answer(c)
    /\ UNCHANGED <<fileVars, delegated, deciderVars, ghostVars, calls, faults>>

-----------------------------------------------------------------------------

Decide(d) ==
    \/ \E a \in Approval, s \in Decision : Evaluate(d, a, s) \/ Call(d, a, s)
    \/ OpenReceipt(d) \/ WriteReceipt(d) \/ ReadPending(d) \/ NotPending(d)
    \/ Open(d) \/ WriteDecision(d) \/ Unlink(d)
    \/ UnlinkFails(d) \/ Interrupted(d)

Consume(c) ==
    \/ \E a \in Approval, q \in Payload : Resume(c, a, q)
    \/ Look(c) \/ Read(c) \/ Refresh(c) \/ TurnAway(c) \/ Execute(c) \/ Finish(c)

Next ==
    \/ \E d \in Decider : Decide(d)
    \/ \E q \in Payload : Ask(q)
    \/ \E c \in Consumer : Consume(c)
    \/ \E g \in Delegations : Expire(g)

Spec == Init /\ [][Next]_vars

-----------------------------------------------------------------------------
(* Properties *)

TypeOK ==
    /\ payload \in [Approval -> Payload \cup {NoPayload}]
    /\ file \in [Folder -> [Approval -> Content]]
    /\ receipts \in [Kind -> [Approval -> Receipt]]
    /\ delegated \subseteq Delegations
    /\ pc \in [Decider -> {"idle", "receipt", "fill", "decide", "open", "write", "unlink"}]
    /\ deciding \in [Decider -> Approval \cup {NoApproval}]
    /\ status \in [Decider -> Decision]
    /\ kind \in [Decider -> {"operator"} \cup Kind]
    /\ at \in [Consumer -> {"idle", "find", "read", "settle", "run"}]
    /\ using \in [Consumer -> Approval \cup {NoApproval}]
    /\ wants \in [Consumer -> Payload \cup {NoPayload}]
    /\ folder \in [Consumer -> 1..4]
    /\ found \in [Consumer -> Folder \cup {"none", "missing", "corrupt"}]
    /\ granted \subseteq Requested
    /\ told \in [Approval -> SUBSET Decision]
    /\ contested \subseteq Requested
    /\ repeated \subseteq Requested
    /\ calls \in 0..MaxCalls
    /\ faults \in 0..MaxFaults

\* A request that was made is found by every later look-up, though its file
\* moves from one folder to another while the look-up goes through them: the
\* decision is in place before the pending file goes (decide, _find_approval).
NeverMissing == \A c \in Consumer : found[c] # "missing"

\* What runs was approved, in writing and for just this request, whatever
\* deciders, readers and faults did in the meantime ("no approval => no
\* execution").
ExecutionIsApproved ==
    \A c \in Consumer :
        at[c] = "run" => /\ using[c] \in granted
                         /\ payload[using[c]] = wants[c]

\* Unless two calls decided a request at once or one of them was interrupted, a
\* request has one decision: one file, and no other answer was given with ok.
DecisionIsFinal ==
    \A a \in Approval \ contested : \A s, t \in Decision :
        /\ file[s][a] # "absent" /\ file[t][a] # "absent" => s = t
        /\ s \in told[a] => file[s][a] # "absent" /\ file["pending"][a] = "absent"

\* A decision in the builder's name has a receipt of its kind on disk, written in
\* full and of just this decision, whatever operators and faults do meanwhile;
\* when the builder took the request up again, over a call of its own or over its
\* decision, a receipt is there, but it may be cut short, or be of the later call
\* (builder_self_decide writes the receipt first, over an earlier one).
BuilderIsReceipted ==
    \A a \in Approval, s \in Decision : file[s][a] \in Kind =>
        /\ receipts[file[s][a]][a] # "absent"
        /\ a \notin repeated => receipts[file[s][a]][a] = s

\* What stands of a request, once the folders are put together.
Verdict(a) ==
    IF a \notin Requested THEN "absent"
    ELSE IF a \in contested THEN "disputed"
    ELSE IF file["pending"][a] # "absent" THEN "pending"
    ELSE CHOOSE s \in Decision : file[s][a] # "absent"

Gate == INSTANCE ApprovalGate WITH
    verdict <- [a \in Approval |-> Verdict(a)],
    running <- {c \in Consumer : at[c] = "run"}

\* To the callers that look a request up, its four files are one record: a
\* decision takes effect at one instant, the unlink, is final from then on, and
\* no look-up that goes through the folders meanwhile reads anything else.
ImplementsGate == Gate!Spec
=============================================================================
