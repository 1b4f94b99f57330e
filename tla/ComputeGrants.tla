---------------------------- MODULE ComputeGrants ----------------------------
(***************************************************************************)
(* Governed compute submissions: the service that records a submission and *)
(* its result (compute_substrate_service.py), the governor that authorizes *)
(* it, runs it and writes its receipt (compute_substrate_governor.py), and *)
(* the approval grants on disk that an execution uses up                   *)
(* (compute_substrate_approvals.py: LocalJsonComputeApprovalStore).        *)
(*                                                                         *)
(* Every file is replaced as a whole, and no lock holds a reading and a    *)
(* writing together: calls of several threads interleave between any two   *)
(* of them.                                                                *)
(***************************************************************************)
EXTENDS Naturals, FiniteSets

CONSTANTS
    Submission,     \* calls of ComputeSubstrateService.submit
    Task,           \* task ids; a task may be submitted again
    Grant,          \* approval ids
    NoTask,
    NoGrant,
    Refused,        \* tasks of an unregistered function or over the policy
    NeedsApproval,  \* tasks whose budget says approval_required
    Scope,          \* Scope[g]: the tasks that grant g covers
    Reusable,       \* grants that are not single_use
    Unstored,       \* calls of a service without a receipt store
    Asked,          \* bound: the pairs of a task and an approval id that are submitted
    MaxFaults       \* bound: failed writes and crashes of the process

ASSUME ComputeAssumption ==
    /\ NoTask \notin Task
    /\ NoGrant \notin Grant
    /\ Refused \subseteq Task
    /\ NeedsApproval \subseteq Task
    /\ Scope \in [Grant -> SUBSET Task]
    /\ Reusable \subseteq Grant
    /\ Unstored \subseteq Submission
    /\ Asked \subseteq Task \X (Grant \cup {NoGrant})
    /\ MaxFaults \in Nat

VARIABLES
    issued,      \* grants that have a file
    revoked,     \* grants whose file says revoked
    usedBy,      \* usedBy[g]: consumed_by_task_id of g's file
    expired,     \* grants whose expires_at_ms has passed
    revoking,    \* grants that a revocation has read and will write back,
    seenUsed,    \* seenUsed[g]: with this consumed_by_task_id
    pc,          \* pc[s]: where the call is
    task,        \* task[s]: the task it submits
    grant,       \* grant[s]: the approval id it submits it with
    cancelled,   \* calls submitted with a cancelled token; it is frozen
    outcome,     \* outcome[s]: the status of its ExecutionResult
    status,      \* status[t]: the task's status record
    receipts,    \* receipts[s]: the status of the receipt of s on disk
    started,     \* calls whose backend was started
    ran,         \* ghost: ran[g]: how often a task was started under g, up to 2
    withdrawn,   \* ghost: grants whose revocation was written
    raced,       \* ghost: grants consumed by two calls at once
    consumed,    \* ghost: calls whose consume wrote its grant as used
    faults

grantVars == <<issued, revoked, usedBy, expired, revoking, seenUsed>>
callVars  == <<pc, task, grant, cancelled, outcome>>
diskVars  == <<status, receipts>>
ghostVars == <<ran, withdrawn, raced, consumed>>
vars == <<grantVars, callVars, diskVars, started, ghostVars, faults>>

Outcome == {"denied", "cancelled", "timeout", "success", "error",
            "receipt_persistence_failed"}

Init ==
    /\ issued = {}
    /\ revoked = {}
    /\ usedBy = [g \in Grant |-> NoTask]
    /\ expired = {}
    /\ revoking = {}
    /\ seenUsed = [g \in Grant |-> NoTask]
    /\ pc = [s \in Submission |-> "new"]
    /\ task = [s \in Submission |-> NoTask]
    /\ grant = [s \in Submission |-> NoGrant]
    /\ cancelled = {}
    /\ outcome = [s \in Submission |-> "none"]
    /\ status = [t \in Task |-> "unknown"]
    /\ receipts = [s \in Submission |-> "none"]
    /\ started = {}
    /\ ran = [g \in Grant |-> 0]
    /\ withdrawn = {}
    /\ raced = {}
    /\ consumed = {}
    /\ faults = 0

-----------------------------------------------------------------------------
(* The grants *)

\* _evaluate_grant, of the grant on disk; scope stands for its scope checks.
Valid(g, t) ==
    /\ g \in issued
    /\ g \notin revoked
    /\ g \notin expired
    /\ g \in Reusable \/ usedBy[g] = NoTask
    /\ t \in Scope[g]

\* add of a new grant.
Issue(g) ==
    /\ g \notin issued
    /\ issued' = issued \cup {g}
    /\ UNCHANGED <<revoked, usedBy, expired, revoking, seenUsed, callVars, diskVars, started,
                   ghostVars, faults>>

Expire(g) ==
    /\ g \in issued \ expired
    /\ expired' = expired \cup {g}
    /\ UNCHANGED <<issued, revoked, usedBy, revoking, seenUsed, callVars, diskVars, started,
                   ghostVars, faults>>

\* A grant is revoked by adding it again, once in the model: get,
RevokeRead(g) ==
    /\ g \in issued
    /\ g \notin revoking \cup withdrawn
    /\ revoking' = revoking \cup {g}
    /\ seenUsed' = [seenUsed EXCEPT ![g] = usedBy[g]]
    /\ UNCHANGED <<issued, revoked, usedBy, expired, callVars, diskVars, started,
                   ghostVars, faults>>

\* and add of the copy with revoked=True, over what was written meanwhile.
RevokeWrite(g) ==
    /\ g \in revoking
    /\ revoking' = revoking \ {g}
    /\ revoked' = revoked \cup {g}
    /\ usedBy' = [usedBy EXCEPT ![g] = seenUsed[g]]
    /\ withdrawn' = withdrawn \cup {g}
    /\ UNCHANGED <<issued, expired, seenUsed, callVars, diskVars, started, ran, raced,
                   consumed, faults>>

-----------------------------------------------------------------------------
(* A submission *)

Goto(s, label) == pc' = [pc EXCEPT ![s] = label]

\* The call has its result, and goes on to write the receipt.
Ends(s, result) ==
    /\ outcome' = [outcome EXCEPT ![s] = result]
    /\ Goto(s, "receipt")

Fault ==
    /\ faults < MaxFaults
    /\ faults' = faults + 1

\* submit: the status record says submitted, or its write fails and is passed over.
Submit(s, t, g) ==
    /\ pc[s] = "new"
    /\ Goto(s, "govern")
    /\ task' = [task EXCEPT ![s] = t]
    /\ grant' = [grant EXCEPT ![s] = g]
    /\ cancelled' \in {cancelled, cancelled \cup {s}}
    /\ \/ status' = [status EXCEPT ![t] = "submitted"] /\ UNCHANGED faults
       \/ Fault /\ UNCHANGED status
    /\ UNCHANGED <<grantVars, outcome, receipts, started, ghostVars>>

\* Mutant: what is authorized is consumed, before the check for interruptions.
GovernConsumes(s) ==
    LET t == task[s]
        g == grant[s]
    IN
    /\ pc[s] = "govern"
    /\ IF t \in Refused \/ (t \in NeedsApproval /\ (g = NoGrant \/ ~ Valid(g, t)))
       THEN Ends(s, "denied") /\ UNCHANGED usedBy
       ELSE /\ Goto(s, "check")
            /\ usedBy' = IF t \in NeedsApproval THEN [usedBy EXCEPT ![g] = t] ELSE usedBy
            /\ UNCHANGED outcome
    /\ consumed' = IF usedBy' = usedBy THEN consumed ELSE consumed \cup {s}
    /\ UNCHANGED <<issued, revoked, expired, revoking, seenUsed, task, grant, cancelled,
                   diskVars, started, ran, withdrawn, raced, faults>>

\* execute: registry, authorize, and for an approval authorize_approval.
Govern(s) ==
    LET t == task[s]
        g == grant[s]
    IN
    /\ pc[s] = "govern"
    /\ IF t \in Refused \/ (t \in NeedsApproval /\ (g = NoGrant \/ ~ Valid(g, t)))
       THEN Ends(s, "denied")
       ELSE Goto(s, "check") /\ UNCHANGED outcome
    /\ UNCHANGED <<grantVars, task, grant, cancelled, diskVars, started,
                   ghostVars, faults>>

\* execute: raise_if_interrupted before the execution; time may have passed.
Interrupt(s) ==
    /\ pc[s] = "check"
    /\ IF s \in cancelled THEN Ends(s, "cancelled") ELSE Ends(s, "timeout")
    /\ UNCHANGED <<grantVars, task, grant, cancelled, diskVars, started,
                   ghostVars, faults>>

Count(g) == ran' = [ran EXCEPT ![g] = IF @ = 2 THEN 2 ELSE @ + 1]

\* execute: nothing to consume, the backend starts.
StartFreely(s) ==
    /\ pc[s] = "check"
    /\ s \notin cancelled
    /\ task[s] \notin NeedsApproval
    /\ Goto(s, "run")
    /\ started' = started \cup {s}
    /\ UNCHANGED <<grantVars, task, grant, cancelled, outcome, diskVars,
                   ghostVars, faults>>

Consuming(g) == {s \in Submission : pc[s] = "consume" /\ grant[s] = g}

\* Mutant: the approval that was authorized is not evaluated again.
ConsumeReadOnce(s) ==
    LET g == grant[s] IN
    /\ pc[s] = "check"
    /\ s \notin cancelled
    /\ task[s] \in NeedsApproval
    /\ Goto(s, "consume")
    /\ raced' = IF Consuming(g) # {} THEN raced \cup {g} ELSE raced
    /\ UNCHANGED <<grantVars, task, grant, cancelled, outcome, diskVars, started,
                   ran, withdrawn, consumed, faults>>

\* consume: the grant is read and evaluated; a reusable one is not written.
ConsumeRead(s) ==
    LET g == grant[s] IN
    /\ pc[s] = "check"
    /\ s \notin cancelled
    /\ task[s] \in NeedsApproval
    /\ \/ /\ ~ Valid(g, task[s])
          /\ Ends(s, "denied")
          /\ UNCHANGED raced
       \/ /\ Valid(g, task[s])
          /\ g \in Reusable
          /\ Goto(s, "start")
          /\ UNCHANGED <<outcome, raced>>
       \/ /\ Valid(g, task[s])
          /\ g \notin Reusable
          /\ Goto(s, "consume")
          /\ raced' = IF Consuming(g) # {} THEN raced \cup {g} ELSE raced
          /\ UNCHANGED outcome
    /\ UNCHANGED <<grantVars, task, grant, cancelled, diskVars, started, ran, withdrawn,
                   consumed, faults>>

\* Mutant: the copy is written back as it was.
ConsumeWriteCopy(s) ==
    /\ pc[s] = "consume"
    /\ revoked' = revoked \ {grant[s]}
    /\ consumed' = consumed \cup {s}
    /\ Goto(s, "start")
    /\ UNCHANGED <<issued, usedBy, expired, revoking, seenUsed, task, grant, cancelled, outcome,
                   diskVars, started, ran, withdrawn, raced, faults>>

\* consume: the copy is written back, unrevoked as it was, as used by this task.
ConsumeWrite(s) ==
    /\ pc[s] = "consume"
    /\ usedBy' = [usedBy EXCEPT ![grant[s]] = task[s]]
    /\ revoked' = revoked \ {grant[s]}
    /\ consumed' = consumed \cup {s}
    /\ Goto(s, "start")
    /\ UNCHANGED <<issued, expired, revoking, seenUsed, task, grant, cancelled, outcome,
                   diskVars, started, ran, withdrawn, raced, faults>>

\* execute: only then the backend starts.
Start(s) ==
    /\ pc[s] = "start"
    /\ Goto(s, "run")
    /\ started' = started \cup {s}
    /\ Count(grant[s])
    /\ UNCHANGED <<grantVars, task, grant, cancelled, outcome, diskVars, withdrawn, raced,
                   consumed, faults>>

\* consume: approval_persistence_failed.
ConsumeFails(s) ==
    /\ pc[s] = "consume"
    /\ Fault
    /\ Ends(s, "denied")
    /\ UNCHANGED <<grantVars, task, grant, cancelled, diskVars, started, ghostVars>>

\* execute: the backend returns in time or late, sees the deadline, or raises.
Run(s) ==
    /\ pc[s] = "run"
    /\ \E result \in {"success", "timeout", "error"} : Ends(s, result)
    /\ UNCHANGED <<grantVars, task, grant, cancelled, diskVars, started,
                   ghostVars, faults>>

\* _persist_receipt: without a store the receipt is only returned with the result.
KeepReceipt(s) ==
    /\ pc[s] = "receipt"
    /\ s \in Unstored
    /\ Goto(s, "record")
    /\ UNCHANGED <<grantVars, task, grant, cancelled, outcome, diskVars, started,
                   ghostVars, faults>>

\* _persist_receipt: the receipt is written.
WriteReceipt(s) ==
    /\ pc[s] = "receipt"
    /\ s \notin Unstored
    /\ receipts' = [receipts EXCEPT ![s] = outcome[s]]
    /\ Goto(s, "record")
    /\ UNCHANGED <<grantVars, task, grant, cancelled, outcome, status, started,
                   ghostVars, faults>>

\* Mutant: a failed write of the receipt changes nothing of the result.
ReceiptFailsUnseen(s) ==
    /\ pc[s] = "receipt"
    /\ s \notin Unstored
    /\ Fault
    /\ Goto(s, "record")
    /\ UNCHANGED <<grantVars, task, grant, cancelled, outcome, diskVars, started,
                   ghostVars>>

\* _result: a success without its receipt is none; other results stay.
ReceiptFails(s) ==
    /\ pc[s] = "receipt"
    /\ s \notin Unstored
    /\ Fault
    /\ outcome' = [outcome EXCEPT ![s] =
                      IF @ = "success" THEN "receipt_persistence_failed" ELSE @]
    /\ Goto(s, "record")
    /\ UNCHANGED <<grantVars, task, grant, cancelled, diskVars, started,
                   ghostVars>>

\* submit: the final status record, or a failed write that is passed over.
Record(s) ==
    /\ pc[s] = "record"
    /\ Goto(s, "done")
    /\ \/ status' = [status EXCEPT ![task[s]] = outcome[s]] /\ UNCHANGED faults
       \/ Fault /\ UNCHANGED status
    /\ UNCHANGED <<grantVars, task, grant, cancelled, outcome, receipts, started,
                   ghostVars>>

\* The process ends; the files stay.
Crash ==
    /\ Fault
    /\ pc' = [s \in Submission |-> IF pc[s] \in {"new", "done"} THEN pc[s] ELSE "dead"]
    /\ UNCHANGED <<grantVars, task, grant, cancelled, outcome, diskVars, started,
                   ghostVars>>

Call(s) ==
    \/ \E a \in Asked : Submit(s, a[1], a[2])
    \/ Govern(s) \/ Interrupt(s) \/ StartFreely(s)
    \/ ConsumeRead(s) \/ ConsumeWrite(s) \/ ConsumeFails(s) \/ Start(s)
    \/ Run(s) \/ KeepReceipt(s) \/ WriteReceipt(s) \/ ReceiptFails(s) \/ Record(s)

Next ==
    \/ \E g \in Grant : Issue(g) \/ Expire(g) \/ RevokeRead(g) \/ RevokeWrite(g)
    \/ \E s \in Submission : Call(s)
    \/ Crash

Spec == Init /\ [][Next]_vars

-----------------------------------------------------------------------------
(* Properties *)

TypeOK ==
    /\ issued \subseteq Grant
    /\ revoked \subseteq issued
    /\ usedBy \in [Grant -> Task \cup {NoTask}]
    /\ expired \subseteq issued
    /\ revoking \subseteq issued
    /\ seenUsed \in [Grant -> Task \cup {NoTask}]
    /\ pc \in [Submission -> {"new", "govern", "check", "consume", "start", "run",
                              "receipt", "record", "done", "dead"}]
    /\ task \in [Submission -> Task \cup {NoTask}]
    /\ grant \in [Submission -> Grant \cup {NoGrant}]
    /\ cancelled \subseteq Submission
    /\ outcome \in [Submission -> Outcome \cup {"none"}]
    /\ status \in [Task -> Outcome \cup {"unknown", "submitted"}]
    /\ receipts \in [Submission -> Outcome \cup {"none"}]
    /\ started \subseteq Submission
    /\ ran \in [Grant -> 0..2]
    /\ withdrawn \subseteq issued
    /\ raced \subseteq Grant \ Reusable
    /\ consumed \subseteq Submission
    /\ faults \in 0..MaxFaults

\* The grants that some consume has written as used.
Spent == {grant[s] : s \in consumed}

\* A grant that was revoked, or is for a single use and was used up, is never good
\* again, not even when the call that used it dies before its backend starts: a
\* consume and a revocation that overlap write each other's change away, but not
\* both (consume, add).
NotUsableAgain ==
    \A g \in withdrawn \cup Spent :
        g \in revoked \/ (g \notin Reusable /\ usedBy[g] # NoTask)

\* Unless two calls consume it at once, a grant for a single use starts one
\* backend, whatever is submitted again, fails or dies ("sequential single-use
\* consumption").
SingleUseRunsOnce ==
    \A g \in Grant \ (Reusable \cup raced) : ran[g] <= 1

\* A grant is used up only by a call that goes on to start its backend, or whose
\* process ends between the two; nobody who used one up or started is answered
\* denied or cancelled, so one that is interrupted before leaves the grant (execute).
OnlyStartsConsume ==
    /\ \A g \in Grant : usedBy[g] # NoTask =>
           \E s \in consumed : grant[s] = g /\ task[s] = usedBy[g]
    /\ \A s \in consumed : s \in started \/ pc[s] \in {"start", "dead"}
    /\ \A s \in consumed \cup started : outcome[s] \notin {"denied", "cancelled"}

\* Through a service with a receipt store, whoever is told of a success finds the
\* receipt of a run on disk; and a task whose status record says success was run,
\* with its receipt on disk unless a service without a store ran it (_result,
\* _persist_receipt, submit).
SuccessIsReceipted ==
    /\ \A s \in Submission \ Unstored :
           pc[s] \in {"record", "done"} /\ outcome[s] = "success"
               => receipts[s] = "success"
    /\ \A t \in Task : status[t] = "success" =>
           \E s \in started : /\ task[s] = t /\ outcome[s] = "success"
                              /\ s \in Unstored \/ receipts[s] = "success"

\* What stands of a grant, once its file is read.
State(g) ==
    IF g \notin issued THEN "none"
    ELSE IF g \in expired \cup revoked \/ (g \notin Reusable /\ usedBy[g] # NoTask)
    THEN "closed"
    ELSE "open"

Uses == INSTANCE GrantUse WITH
    state <- [g \in Grant |-> State(g)],
    claim <- [s \in Submission |->
                 IF pc[s] = "consume" THEN <<grant[s], task[s]>> ELSE <<>>],
    due   <- [s \in Submission |->
                 IF pc[s] = "start" THEN <<grant[s], task[s]>> ELSE <<>>],
    under <- [s \in Submission |->
                 IF s \in started /\ task[s] \in NeedsApproval
                 THEN <<grant[s], task[s]>> ELSE <<>>]

\* Though consume and add write back what they read, and each may undo what the
\* other wrote in between, a grant never opens again; and what starts under an
\* approval claimed it while it was open (authorize_approval alone decides
\* nothing: the grant is evaluated again by consume).
ImplementsGrantUse == Uses!Spec

=============================================================================
