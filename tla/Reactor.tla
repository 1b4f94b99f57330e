------------------------------- MODULE Reactor -------------------------------
(***************************************************************************)
(* An event of the Reactor (reactor/events.py), its retry schedules        *)
(* (reactor/retries.py), its deadletter and its requests for approval.     *)
(*                                                                         *)
(* Each is a JSON file.  Calls of the API dispatch the event, mark a       *)
(* schedule due, or dispatch a due retry: each reads files, decides on     *)
(* what it read and writes whole files back, without a lock.  Nothing      *)
(* calls of its own accord.  Files of two events have nothing in common,   *)
(* so one event stands for all.                                            *)
(***************************************************************************)
EXTENDS Naturals, FiniteSets

CONSTANTS
    Caller,        \* concurrent calls of the API
    Approval,      \* ids of approval requests (fresh uuids)
    Attached,      \* requests an event may name from the start
    NoApproval,
    Classes,       \* the states _classification may put the event in
    Engines,       \* what dispatch_event may make of its action class
    RetryLimits,   \* values of bounds.max_retries
    Backoff,       \* whether a schedule becomes due only after a while
    MaxAttempts,   \* bound: dispatch attempts
    MaxFaults      \* bound: calls that are cut short

Class   == {"awaiting_dispatch", "awaiting_approval", "blocked_by_mode", "blocked_by_budget"}
Engine  == {"action", "boundary", "none"}
Attempt == 1..MaxAttempts

ASSUME ReactorAssumption ==
    /\ Attached \subseteq Approval
    /\ NoApproval \notin Approval
    /\ Classes \subseteq Class
    /\ Engines \subseteq Engine
    /\ RetryLimits \subseteq 0..10
    /\ Backoff \in BOOLEAN
    /\ MaxAttempts \in Nat
    /\ MaxFaults \in Nat

Result  == {"none", "blocked", "deferred", "verified", "failed"}
Decision == {"approved", "rejected", "emergency"}
Verdict == {"absent", "pending", "disputed"} \cup Decision
Event   == [attempts : 0..MaxAttempts,            \* dispatch.attempt_count
            outcome  : Result,                    \* of the last attempt
            approval : Approval \cup {NoApproval},
            due      : 0..MaxAttempts,            \* latest_retry_due_receipt
            tried    : 0..MaxAttempts]            \* latest_retry_dispatch_attempt_receipt

VARIABLES
    class,      \* classification.stable_state
    engine,
    limit,      \* bounds.max_retries
    event,      \* the record of the event
    retry,      \* retry[n]: the schedule that attempt n left, or "absent"
    ripe,       \* the schedules whose due_after_ts has passed
    deadletter, \* whether the event has its deadletter
    verdict,    \* verdict[a]: where approval request a is
    pc,         \* pc[c]: where the call is
    on,         \* on[c]: the schedule it is about, or 0
    seen,       \* seen[c]: its copy of the record
    result,     \* result[c]: what its attempt came to
    ran,        \* ghost: the numbers under which something was executed
    again,      \* ghost: before calls crossed, a number was used again
    crossed,    \* ghost: two calls held a copy of the record at once, or one
                \* was cut short
    faults

boundVars  == <<class, engine, limit>>
retryVars  == <<retry, ripe>>
callVars   == <<pc, on, seen, result>>
ghostVars  == <<ran, again, crossed>>
vars == <<boundVars, event, retryVars, deadletter, verdict, callVars, ghostVars, faults>>

NewEvent(a) == [attempts |-> 0, outcome |-> "none", approval |-> a, due |-> 0, tried |-> 0]

\* enqueue_event.
Init ==
    /\ class \in Classes
    /\ engine \in Engines
    /\ limit \in RetryLimits
    /\ \E a \in {NoApproval} \cup Attached : event = NewEvent(a)
    /\ retry = [n \in Attempt |-> "absent"]
    /\ ripe = {}
    /\ deadletter = FALSE
    /\ verdict = [a \in Approval |-> IF a \in Attached THEN "pending" ELSE "absent"]
    /\ pc = [c \in Caller |-> "idle"]
    /\ on = [c \in Caller |-> 0]
    /\ seen = [c \in Caller |-> NewEvent(NoApproval)]
    /\ result = [c \in Caller |-> "none"]
    /\ ran = {}
    /\ again = FALSE
    /\ crossed = FALSE
    /\ faults = 0

Goto(c, label) == pc' = [pc EXCEPT ![c] = label]

\* The call returns, and its variables are no more.
Ends(c) ==
    /\ Goto(c, "idle")
    /\ on' = [on EXCEPT ![c] = 0]
    /\ seen' = [seen EXCEPT ![c] = NewEvent(NoApproval)]
    /\ result' = [result EXCEPT ![c] = "none"]

\* The number of the attempt that c makes.
Number(c) == seen[c].attempts + 1

\* c has a copy of the record that it may write back.
HasCopy(c) == pc[c] \in {"saveDue", "look", "run", "ask", "schedule", "create", "bury", "save"}

Reads(c) ==
    /\ seen' = [seen EXCEPT ![c] = event]
    /\ crossed' = (crossed \/ \E d \in Caller \ {c} : HasCopy(d))

-----------------------------------------------------------------------------
(* record_retry_due *)

\* mark_retry_due: the schedule is read, with the time.
ReadDue(c, n) ==
    /\ pc[c] = "idle"
    /\ retry[n] # "absent"
    /\ retry[n] = "due" \/ n \in ripe
    /\ on' = [on EXCEPT ![c] = n]
    /\ Goto(c, IF retry[n] = "due" THEN "loadDue" ELSE "markDue")
    /\ UNCHANGED <<boundVars, event, retryVars, deadletter, verdict, seen, result,
                   ghostVars, faults>>

\* mark_retry_due: whatever its status was, the schedule is due.
MarkDue(c) ==
    /\ pc[c] = "markDue"
    /\ retry' = [retry EXCEPT ![on[c]] = "due"]
    /\ Goto(c, "loadDue")
    /\ UNCHANGED <<boundVars, event, ripe, deadletter, verdict, on, seen, result,
                   ghostVars, faults>>

\* The record is read; if its latest due receipt is of this schedule, no more is done.
LoadDue(c) ==
    /\ pc[c] = "loadDue"
    /\ event.due # on[c]
    /\ Reads(c)
    /\ Goto(c, "saveDue")
    /\ UNCHANGED <<boundVars, event, retryVars, deadletter, verdict, on, result,
                   ran, again, faults>>

DueAlready(c) ==
    /\ pc[c] = "loadDue"
    /\ event.due = on[c]
    /\ Ends(c)
    /\ UNCHANGED <<boundVars, event, retryVars, deadletter, verdict, ghostVars, faults>>

SaveDue(c) ==
    /\ pc[c] = "saveDue"
    /\ event' = [seen[c] EXCEPT !.due = on[c]]
    /\ Ends(c)
    /\ UNCHANGED <<boundVars, retryVars, deadletter, verdict, ghostVars, faults>>

-----------------------------------------------------------------------------
(* record_retry_dispatch_attempt *)

\* The schedule and the record are read, and it is not the one just tried.
BeginRetry(c, n) ==
    /\ pc[c] = "idle"
    /\ retry[n] # "absent"
    /\ event.tried # n
    /\ on' = [on EXCEPT ![c] = n]
    /\ Goto(c, "readRetry")
    /\ UNCHANGED <<boundVars, event, retryVars, deadletter, verdict, seen, result,
                   ghostVars, faults>>

\* mark_retry_dispatch_attempted: only a due schedule is tried.
ReadRetry(c) ==
    /\ pc[c] = "readRetry"
    /\ retry[on[c]] = "due"
    /\ Goto(c, "markRetry")
    /\ UNCHANGED <<boundVars, event, retryVars, deadletter, verdict, on, seen, result,
                   ghostVars, faults>>

RetryNotDue(c) ==
    /\ pc[c] = "readRetry"
    /\ retry[on[c]] # "due"
    /\ Ends(c)
    /\ UNCHANGED <<boundVars, event, retryVars, deadletter, verdict, ghostVars, faults>>

MarkRetry(c) ==
    /\ pc[c] = "markRetry"
    /\ retry' = [retry EXCEPT ![on[c]] = "attempted"]
    /\ Goto(c, "load")
    /\ UNCHANGED <<boundVars, event, ripe, deadletter, verdict, on, seen, result,
                   ghostVars, faults>>

-----------------------------------------------------------------------------
(* record_dispatch_attempt *)

BeginDispatch(c) ==
    /\ pc[c] = "idle"
    /\ on' = [on EXCEPT ![c] = 0]
    /\ Goto(c, "load")
    /\ UNCHANGED <<boundVars, event, retryVars, deadletter, verdict, seen, result,
                   ghostVars, faults>>

Load(c) ==
    /\ pc[c] = "load"
    /\ event.attempts < MaxAttempts
    /\ Reads(c)
    /\ Goto(c, "look")
    /\ UNCHANGED <<boundVars, event, retryVars, deadletter, verdict, on, result,
                   ran, again, faults>>

\* What _approval_record_status may read of the request the record names: its
\* verdict, or nothing of use from a file that is moved meanwhile; anything of a
\* disputed one (ApprovalGate).
Readings(c) == LET a == seen[c].approval IN
    IF a = NoApproval THEN {"absent"}
    ELSE IF verdict[a] = "disputed" THEN {"pending", "corrupt"} \cup Decision
    ELSE {verdict[a], "corrupt"}

\* Mutant: a pending approval will do.
AllowedPending(s) ==
    \/ class = "awaiting_dispatch"
    \/ class = "awaiting_approval" /\ s \in {"pending", "approved"}

Allowed(s) ==
    \/ class = "awaiting_dispatch"
    \/ class = "awaiting_approval" /\ s = "approved"

\* Where the blocker of an attempt that is not allowed is routed (_blocker_route).
BlockerRoute(s) ==
    IF class = "blocked_by_budget" THEN "bury"
    ELSE IF class = "awaiting_approval" /\ s \notin {"rejected", "emergency"}
         THEN "ask"
         ELSE "save"

\* The classification and the approval are looked at.
Look(c) ==
    /\ pc[c] = "look"
    /\ \E s \in Readings(c) :
          \/ Allowed(s) /\ Goto(c, "run") /\ UNCHANGED result
          \/ /\ ~ Allowed(s)
             /\ result' = [result EXCEPT ![c] = "blocked"]
             /\ Goto(c, BlockerRoute(s))
    /\ UNCHANGED <<boundVars, event, retryVars, deadletter, verdict, on, seen,
                   ghostVars, faults>>

\* What dispatch_event may come to: the action runs or its own gates block it,
\* it is of a class that is always turned away, or of one it does not know.
Outcomes == CASE engine = "action"   -> {"verified", "failed", "blocked"}
              [] engine = "boundary" -> {"blocked"}
              [] engine = "none"     -> {"deferred"}

\* Mutant: the attempt that exhausts the retries goes nowhere.
RetryRouteOpen(c) == IF limit > 0 /\ Number(c) <= limit THEN "schedule" ELSE "save"

\* Where a failed or deferred attempt goes: _retry_candidate_receipt and
\* _retry_exhausted_receipt.
RetryRoute(c) == IF limit = 0 THEN "save"
                 ELSE IF Number(c) <= limit THEN "schedule" ELSE "bury"

Ran(n) ==
    /\ ran' = ran \cup {n}
    /\ again' = (again \/ (~ crossed /\ n \in ran))

\* dispatch_event.
Dispatch(c) ==
    /\ pc[c] = "run"
    /\ \E r \in Outcomes :
          /\ result' = [result EXCEPT ![c] = r]
          /\ IF r \in {"verified", "failed"} THEN Ran(Number(c)) ELSE UNCHANGED <<ran, again>>
          /\ Goto(c, IF r \in {"failed", "deferred"} THEN RetryRoute(c) ELSE "save")
    /\ UNCHANGED <<boundVars, event, retryVars, deadletter, verdict, on, seen,
                   crossed, faults>>

\* _maybe_request_reactor_approval: an approval is asked for once, and named in
\* the copy of the record.
Ask(c) ==
    /\ pc[c] = "ask"
    /\ \/ seen[c].approval # NoApproval /\ UNCHANGED <<verdict, seen>>
       \/ /\ seen[c].approval = NoApproval
          /\ \E a \in Approval :
                /\ verdict[a] = "absent"
                /\ verdict' = [verdict EXCEPT ![a] = "pending"]
                /\ seen' = [seen EXCEPT ![c].approval = a]
    /\ Goto(c, "save")
    /\ UNCHANGED <<boundVars, event, retryVars, deadletter, on, result,
                   ghostVars, faults>>

\* schedule_retry: the schedule of this number is looked for,
Schedule(c) ==
    /\ pc[c] = "schedule"
    /\ Goto(c, IF retry[Number(c)] = "absent" THEN "create" ELSE "save")
    /\ UNCHANGED <<boundVars, event, retryVars, deadletter, verdict, on, seen, result,
                   ghostVars, faults>>

\* and written if there was none, over whatever there is by now.
Create(c) ==
    /\ pc[c] = "create"
    /\ retry' = [retry EXCEPT ![Number(c)] = "scheduled"]
    /\ ripe' = IF Backoff THEN ripe \ {Number(c)} ELSE ripe \cup {Number(c)}
    /\ Goto(c, "save")
    /\ UNCHANGED <<boundVars, event, deadletter, verdict, on, seen, result,
                   ghostVars, faults>>

\* queue_deadletter.
Bury(c) ==
    /\ pc[c] = "bury"
    /\ deadletter' = TRUE
    /\ Goto(c, "save")
    /\ UNCHANGED <<boundVars, event, retryVars, verdict, on, seen, result,
                   ghostVars, faults>>

\* Mutant: the approval that was asked for is not saved.
SaveUnnamed(c) ==
    /\ pc[c] = "save"
    /\ event' = [event EXCEPT !.attempts = Number(c),
                              !.outcome = result[c],
                              !.tried = IF on[c] = 0 THEN @ ELSE on[c]]
    /\ Ends(c)
    /\ UNCHANGED <<boundVars, retryVars, deadletter, verdict, ghostVars, faults>>

\* The whole record is written, as the copy has it.
Save(c) ==
    /\ pc[c] = "save"
    /\ event' = [seen[c] EXCEPT !.attempts = Number(c),
                                !.outcome = result[c],
                                !.tried = IF on[c] = 0 THEN @ ELSE on[c]]
    /\ Ends(c)
    /\ UNCHANGED <<boundVars, retryVars, deadletter, verdict, ghostVars, faults>>

-----------------------------------------------------------------------------
(* Around the calls *)

\* The call ends here: its process dies, a write raises, or another call took
\* away the temporary file that writers of a file share.
CutShort(c) ==
    /\ pc[c] # "idle"
    /\ faults < MaxFaults
    /\ faults' = faults + 1
    /\ crossed' = TRUE
    /\ Ends(c)
    /\ UNCHANGED <<boundVars, event, retryVars, deadletter, verdict, ran, again>>

\* decide of governance/approvals.py, at the instant it takes effect; or what stands
\* in its place when two calls decide a request at once, or one is interrupted
\* (Approvals has its steps, and that they come to this: ImplementsGate).
Decide(a, v) ==
    /\ verdict[a] = "pending"
    /\ verdict' = [verdict EXCEPT ![a] = v]
    /\ UNCHANGED <<boundVars, event, retryVars, deadletter, callVars, ghostVars, faults>>

\* due_after_ts passes.
Ripens(n) ==
    /\ retry[n] # "absent"
    /\ n \notin ripe
    /\ ripe' = ripe \cup {n}
    /\ UNCHANGED <<boundVars, event, retry, deadletter, verdict, callVars, ghostVars, faults>>

Call(c) ==
    \/ \E n \in Attempt : ReadDue(c, n) \/ BeginRetry(c, n)
    \/ MarkDue(c) \/ LoadDue(c) \/ DueAlready(c) \/ SaveDue(c)
    \/ ReadRetry(c) \/ RetryNotDue(c) \/ MarkRetry(c)
    \/ BeginDispatch(c) \/ Load(c) \/ Look(c) \/ Dispatch(c) \/ Ask(c)
    \/ Schedule(c) \/ Create(c) \/ Bury(c) \/ Save(c)
    \/ CutShort(c)

Next ==
    \/ \E c \in Caller : Call(c)
    \/ \E a \in Approval, v \in Decision \cup {"disputed"} : Decide(a, v)
    \/ \E n \in Attempt : Ripens(n)

Spec == Init /\ [][Next]_vars
-----------------------------------------------------------------------------
(* Properties *)

TypeOK ==
    /\ class \in Class
    /\ engine \in Engine
    /\ limit \in 0..10
    /\ event \in Event
    /\ retry \in [Attempt -> {"absent", "scheduled", "due", "attempted"}]
    /\ ripe \subseteq Attempt
    /\ deadletter \in BOOLEAN
    /\ verdict \in [Approval -> Verdict]
    /\ pc \in [Caller -> {"idle", "markDue", "loadDue", "saveDue", "readRetry", "markRetry",
                          "load", "look", "run", "ask", "schedule", "create", "bury", "save"}]
    /\ on \in [Caller -> 0..MaxAttempts]
    /\ seen \in [Caller -> Event]
    /\ result \in [Caller -> Result]
    /\ ran \subseteq Attempt
    /\ again \in BOOLEAN
    /\ crossed \in BOOLEAN
    /\ faults \in 0..MaxFaults

\* Of an event that allows retries, a record whose last attempt failed, or was
\* deferred for want of an engine, has a schedule for that attempt while there are
\* retries left and a deadletter after them.  An event with max_retries 0, which
\* is the default, has neither, however often it fails: its failures are in its
\* record alone (_retry_candidate_receipt, _retry_exhausted_receipt).  One without
\* a budget has its deadletter whatever it allows.  The files are written before
\* the record, so this holds through every overlap and every call cut short.
\* Unless there was such a one, that schedule is yet to be tried
\* (record_dispatch_attempt).
FailureIsRouted ==
    /\ event.outcome \in {"failed", "deferred"} /\ limit > 0 =>
           IF event.attempts <= limit THEN retry[event.attempts] # "absent" ELSE deadletter
    /\ limit = 0 => /\ \A n \in Attempt : retry[n] = "absent"
                    /\ deadletter => class = "blocked_by_budget"
    /\ event.outcome = "blocked" /\ class = "blocked_by_budget" => deadletter
    /\ crossed \/ event.attempts = 0 \/ event.tried < event.attempts

\* Unless two calls held a copy of the record at once, or one was cut short, no
\* two executions have one number, and with it one receipt, and one approval at
\* most is asked for, however often the event is dispatched and retried.
NothingTwice ==
    /\ ~ again
    /\ crossed \/ \A a, b \in Approval \ Attached :
                     verdict[a] # "absent" /\ verdict[b] # "absent" => a = b

\* Nothing runs for an event that its mode or its budget blocks, and for one
\* that waits for approval nothing runs before a request was approved, or
\* disputed: a rejection is not undone by retries or by calls that overlap.
RunIsApproved ==
    ran # {} =>
        \/ class = "awaiting_dispatch"
        \/ class = "awaiting_approval" /\ \E a \in Approval : verdict[a] \in {"approved", "disputed"}

\* The call needs the request its copy names: it looks it up, was let through by
\* it, or ran for it.
Relies(c) ==
    /\ class = "awaiting_approval"
    /\ \/ pc[c] = "look" /\ seen[c].approval # NoApproval
       \/ pc[c] = "run"
       \/ pc[c] \in {"schedule", "create", "bury", "save"} /\ result[c] \in {"verified", "failed"}

Gate == INSTANCE ApprovalGate WITH
    Payload   <- {"dispatch"},
    NoPayload <- "nothing",
    Consumer  <- Caller,
    payload   <- [a \in Approval |-> IF verdict[a] = "absent" THEN "nothing" ELSE "dispatch"],
    using     <- [c \in Caller |-> IF Relies(c) THEN seen[c].approval ELSE NoApproval],
    wants     <- [c \in Caller |-> IF Relies(c) THEN "dispatch" ELSE "nothing"],
    found     <- [c \in Caller |-> IF Relies(c) /\ pc[c] # "look" THEN "approved" ELSE "none"],
    running   <- {c \in Caller : Relies(c) /\ pc[c] \notin {"look", "run"}}

\* Dispatches look requests up, and run, as ApprovalGate lets any caller: each for
\* a request that stood approved when that very attempt looked, though the copy
\* that names it may be old and the attempt a retry (record_dispatch_attempt).
UsesGate == Gate!Spec

=============================================================================
