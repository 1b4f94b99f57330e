---------------------------- MODULE ReactorProofs ----------------------------
(***************************************************************************)
(* Proofs about Reactor, for any number of calls, attempts, retries and    *)
(* faults, and any event.                                                  *)
(***************************************************************************)
EXTENDS Reactor, TLAPS

\* The places after the record was read, where the attempt has a number.
Dispatching == {"look", "run", "ask", "schedule", "create", "bury", "save"}

\* Where a call is, and what it has by then.
CallFits(c) ==
    /\ pc[c] \in Dispatching => Number(c) \in Attempt
    /\ pc[c] \in {"markDue", "loadDue", "saveDue", "readRetry", "markRetry"} => on[c] # 0
    /\ on[c] # 0 => retry[on[c]] # "absent"
    /\ pc[c] \in {"schedule", "create"} =>
           result[c] \in {"failed", "deferred"} /\ limit > 0 /\ Number(c) <= limit
    /\ pc[c] = "bury" =>
           \/ result[c] \in {"failed", "deferred"} /\ limit > 0 /\ Number(c) > limit
           \/ result[c] = "blocked" /\ class = "blocked_by_budget"
    /\ pc[c] = "run" => class # "blocked_by_budget"
    /\ pc[c] = "ask" => result[c] = "blocked" /\ class = "awaiting_approval"
    /\ pc[c] = "save" => result[c] # "none"

CallInv == \A c \in Caller : CallFits(c)

\* What a failure under number n must have left behind.
Routed(outcome, n) ==
    /\ outcome \in {"failed", "deferred"} /\ limit > 0 =>
           IF n <= limit THEN n \in Attempt /\ retry[n] # "absent" ELSE deadletter
    /\ outcome = "blocked" /\ class = "blocked_by_budget" => deadletter

\* It is there for the record, for every copy and for what is about to be saved.
CallRouted(c) ==
    /\ Routed(seen[c].outcome, seen[c].attempts)
    /\ pc[c] = "save" => Routed(result[c], Number(c))

RouteInv ==
    /\ Routed(event.outcome, event.attempts)
    /\ \A c \in Caller : CallRouted(c)

\* Whoever runs, or ran, had leave to.
Cleared ==
    \/ class = "awaiting_dispatch"
    \/ class = "awaiting_approval" /\ \E a \in Approval : verdict[a] \in {"approved", "disputed"}

LeaveInv ==
    /\ \A c \in Caller : pc[c] \in {"run", "schedule", "create"} => Cleared
    /\ ran # {} => Cleared

\* Unless calls crossed: one copy at most is about, and it is current but for
\* the approval it asked for; schedules, executions and approvals are those the
\* record, or that copy, accounts for.
OneCopy == \A c, d \in Caller : HasCopy(c) /\ HasCopy(d) => c = d

Current(c) ==
    HasCopy(c) =>
        /\ seen[c].attempts = event.attempts
        /\ seen[c].tried = event.tried
        /\ on[c] <= seen[c].attempts
        /\ \/ seen[c].approval = event.approval
           \/ event.approval = NoApproval /\ pc[c] = "save"

CopyInv == crossed \/ (OneCopy /\ \A c \in Caller : Current(c))

SchedulesCounted ==
    \A n \in Attempt : retry[n] # "absent" =>
        n <= event.attempts \/ \E c \in Caller : pc[c] = "save" /\ Number(c) = n

RunsCounted ==
    \A n \in ran :
        \/ n <= event.attempts
        \/ \E c \in Caller : /\ pc[c] \in {"schedule", "create", "bury", "save"}
                             /\ Number(c) = n

ApprovalsCounted ==
    \A a \in Approval \ Attached : verdict[a] # "absent" =>
        \/ event.approval = a
        \/ \E c \in Caller : pc[c] = "save" /\ seen[c].approval = a

TriesCounted == event.tried < event.attempts \/ (event.attempts = 0 /\ event.tried = 0)

LedgerInv ==
    crossed \/ (SchedulesCounted /\ RunsCounted /\ ApprovalsCounted /\ TriesCounted)

\* An event that allows no retry gets no schedule, and no deadletter for a failure.
UnroutedInv ==
    limit = 0 => /\ \A n \in Attempt : retry[n] = "absent"
                 /\ deadletter => class = "blocked_by_budget"

Inv == /\ TypeOK
       /\ CallInv
       /\ RouteInv
       /\ UnroutedInv
       /\ LeaveInv
       /\ CopyInv
       /\ LedgerInv
       /\ NothingTwice

-----------------------------------------------------------------------------
(* What the steps do, field by field *)

\* The records of the calls, typed.
CallTypes ==
    /\ pc \in [Caller -> {"idle", "markDue", "loadDue", "saveDue", "readRetry",
                          "markRetry", "load", "look", "run", "ask", "schedule",
                          "create", "bury", "save"}]
    /\ on \in [Caller -> 0..MaxAttempts]
    /\ seen \in [Caller -> Event]
    /\ result \in [Caller -> Result]

\* All calls but c are where they were, with what they had.
OthersStay(c) ==
    /\ CallTypes'
    /\ \A d \in Caller \ {c} :
           pc'[d] = pc[d] /\ on'[d] = on[d] /\ seen'[d] = seen[d] /\ result'[d] = result[d]

\* The call forgets what it had, or takes a copy of the record.
Leaves(c) ==
    /\ OthersStay(c)
    /\ pc'[c] = "idle" /\ on'[c] = 0 /\ result'[c] = "none"
    /\ seen'[c].attempts = 0 /\ seen'[c].outcome = "none"

Copies(c, label) ==
    /\ OthersStay(c)
    /\ pc'[c] = label /\ on'[c] = on[c] /\ seen'[c] = event /\ result'[c] = result[c]
    /\ crossed' = (crossed \/ \E d \in Caller \ {c} : HasCopy(d))

\* What a record holds.
LEMMA EventTypes ==
    \A e \in Event : /\ e.attempts \in 0..MaxAttempts /\ e.tried \in 0..MaxAttempts
                     /\ e.due \in 0..MaxAttempts /\ e.outcome \in Result
                     /\ e.approval \in Approval \cup {NoApproval}
  BY DEF Event

\* A call that returns forgets what it had.
LEMMA EndsFrame ==
    ASSUME CallTypes, NEW c \in Caller, Ends(c)
    PROVE  Leaves(c)
<1>1. /\ NewEvent(NoApproval) \in Event
      /\ NewEvent(NoApproval).attempts = 0
      /\ NewEvent(NoApproval).outcome = "none"
  BY ReactorAssumption DEF NewEvent, Event, Result
<1>2. NewEvent(NoApproval)' = NewEvent(NoApproval)
  BY DEF NewEvent
<1>3. QED
  BY <1>1, <1>2, ReactorAssumption
  DEF CallTypes, OthersStay, Leaves, Ends, Goto, Result

\* A call that reads the record has a copy of it.
LEMMA ReadsFrame ==
    ASSUME CallTypes, event \in Event, NEW c \in Caller, NEW label, Goto(c, label),
           label \in {"saveDue", "look"}, Reads(c), on' = on, result' = result
    PROVE  Copies(c, label)
  BY DEF CallTypes, OthersStay, Copies, Goto, Reads

\* A call begins, about a schedule or about none.
Begins(c) ==
    /\ pc[c] = "idle"
    /\ UNCHANGED <<boundVars, event, retryVars, deadletter, verdict, ghostVars, faults>>
    /\ OthersStay(c)
    /\ seen'[c] = seen[c] /\ result'[c] = result[c]
    /\ pc'[c] \in {"markDue", "loadDue", "readRetry", "load"}
    /\ pc'[c] = "load" => on'[c] = 0
    /\ pc'[c] # "load" => on'[c] \in Attempt /\ retry[on'[c]] # "absent"

\* This is how calls begin.
LEMMA BeginsFrame ==
    ASSUME CallTypes, NEW c \in Caller,
           BeginDispatch(c) \/ \E n \in Attempt : ReadDue(c, n) \/ BeginRetry(c, n)
    PROVE  Begins(c)
<1>1. CASE BeginDispatch(c)
  BY <1>1, ReactorAssumption DEF BeginDispatch, Goto, CallTypes, OthersStay, Begins
<1>2. ASSUME NEW n \in Attempt, ReadDue(c, n) PROVE Begins(c)
  BY <1>2, ReactorAssumption DEF ReadDue, Goto, CallTypes, OthersStay, Begins, Attempt
<1>3. ASSUME NEW n \in Attempt, BeginRetry(c, n) PROVE Begins(c)
  BY <1>3, ReactorAssumption DEF BeginRetry, Goto, CallTypes, OthersStay, Begins, Attempt
<1>4. QED
  BY <1>1, <1>2, <1>3

\* The record is read, to be saved with a due receipt or for an attempt.
Takes(c) ==
    /\ UNCHANGED <<boundVars, event, retryVars, deadletter, verdict, ran, again, faults>>
    /\ \/ pc[c] = "loadDue" /\ Copies(c, "saveDue")
       \/ pc[c] = "load" /\ event.attempts < MaxAttempts /\ Copies(c, "look")

\* A call that reads the record does this.
LEMMA TakesFrame ==
    ASSUME CallTypes, event \in Event, NEW c \in Caller, LoadDue(c) \/ Load(c)
    PROVE  Takes(c)
  BY ReadsFrame DEF LoadDue, Load, Takes

\* The call returns: there is nothing to do, or it is cut short.
Returns(c) ==
    /\ UNCHANGED <<boundVars, event, retryVars, deadletter, verdict, ran, again>>
    /\ faults' \in 0..MaxFaults
    /\ crossed' \in BOOLEAN
    /\ crossed => crossed'
    /\ crossed' \/ pc[c] \in {"loadDue", "readRetry"}
    /\ Leaves(c)

\* So does a call that is done or cut short.
LEMMA ReturnsFrame ==
    ASSUME CallTypes, faults \in 0..MaxFaults, crossed \in BOOLEAN, NEW c \in Caller,
           DueAlready(c) \/ RetryNotDue(c) \/ CutShort(c)
    PROVE  Returns(c)
<1>1. CASE DueAlready(c)
  BY <1>1, EndsFrame DEF DueAlready, Returns, ghostVars
<1>2. CASE RetryNotDue(c)
  BY <1>2, EndsFrame DEF RetryNotDue, Returns, ghostVars
<1>3. CASE CutShort(c)
  BY <1>3, EndsFrame, ReactorAssumption DEF CutShort, Returns
<1>4. QED
  BY <1>1, <1>2, <1>3

\* A schedule is written, or found, or the deadletter is.
PassesOn(c) ==
    /\ UNCHANGED <<boundVars, event, verdict, ghostVars, faults>>
    /\ OthersStay(c)
    /\ on'[c] = on[c] /\ seen'[c] = seen[c] /\ result'[c] = result[c]
    /\ retry' \in [Attempt -> {"absent", "scheduled", "due", "attempted"}]
    /\ ripe' \subseteq Attempt
    /\ deadletter' \in BOOLEAN
    /\ \A n \in Attempt : retry[n] # "absent" => retry'[n] # "absent"
    /\ \A n \in Attempt : retry'[n] # "absent" =>
           retry[n] # "absent" \/ (pc[c] = "create" /\ n = Number(c))
    /\ deadletter => deadletter'
    /\ deadletter' => deadletter \/ pc[c] = "bury"
    /\ \/ /\ pc[c] \in {"markDue", "readRetry", "markRetry"}
          /\ pc'[c] \in {"loadDue", "markRetry", "load"}
       \/ pc[c] = "schedule" /\ pc'[c] = "create"
       \/ pc[c] = "schedule" /\ pc'[c] = "save" /\ retry[Number(c)] # "absent"
       \/ pc[c] = "create" /\ pc'[c] = "save" /\ retry'[Number(c)] # "absent"
       \/ pc[c] = "bury" /\ pc'[c] = "save" /\ deadletter' = TRUE

\* These steps go on in this way.
LEMMA PassesOnFrame ==
    ASSUME TypeOK, CallInv, NEW c \in Caller,
           \/ MarkDue(c) \/ ReadRetry(c) \/ MarkRetry(c)
           \/ Schedule(c) \/ Create(c) \/ Bury(c)
    PROVE  PassesOn(c)
<1>1. CallTypes
  BY DEF TypeOK, CallTypes
<1>2. on[c] \in 0..MaxAttempts
  BY <1>1 DEF CallTypes
<1>3. CASE MarkDue(c)
  BY <1>1, <1>2, <1>3
  DEF MarkDue, Goto, CallTypes, OthersStay, PassesOn, TypeOK, CallInv, CallFits, Attempt
<1>4. CASE ReadRetry(c)
  BY <1>1, <1>4 DEF ReadRetry, Goto, CallTypes, OthersStay, PassesOn, TypeOK, retryVars
<1>5. CASE MarkRetry(c)
  BY <1>1, <1>2, <1>5
  DEF MarkRetry, Goto, CallTypes, OthersStay, PassesOn, TypeOK, CallInv, CallFits, Attempt
<1>6. CASE Schedule(c)
  BY <1>1, <1>6 DEF Schedule, Goto, CallTypes, OthersStay, PassesOn, TypeOK, retryVars
<1>7. CASE Create(c)
  <2>1. Number(c) \in Attempt
    BY <1>7 DEF Create, CallInv, CallFits, Dispatching
  <2>2. /\ retry' = [retry EXCEPT ![Number(c)] = "scheduled"]
        /\ pc[c] = "create" /\ pc' = [pc EXCEPT ![c] = "save"]
        /\ ripe' \subseteq Attempt
        /\ UNCHANGED <<boundVars, event, deadletter, verdict, on, seen, result, ghostVars, faults>>
    BY <2>1, <1>7 DEF Create, Goto, TypeOK
  <2>3. QED
    BY <1>1, <2>1, <2>2 DEF CallTypes, OthersStay, PassesOn, TypeOK
<1>8. CASE Bury(c)
  BY <1>1, <1>8 DEF Bury, Goto, CallTypes, OthersStay, PassesOn, TypeOK, retryVars
<1>9. QED
  BY <1>3, <1>4, <1>5, <1>6, <1>7, <1>8

\* A call that may go on runs, and one that may not is blocked.
Looks(c) ==
    /\ pc[c] = "look"
    /\ UNCHANGED <<boundVars, event, retryVars, deadletter, verdict, ghostVars, faults>>
    /\ OthersStay(c)
    /\ on'[c] = on[c] /\ seen'[c] = seen[c]
    /\ \/ (\E s \in Readings(c) : Allowed(s)) /\ pc'[c] = "run" /\ result'[c] = result[c]
       \/ result'[c] = "blocked" /\ class = "blocked_by_budget" /\ pc'[c] = "bury"
       \/ result'[c] = "blocked" /\ class = "awaiting_approval" /\ pc'[c] = "ask"
       \/ result'[c] = "blocked" /\ class # "blocked_by_budget" /\ pc'[c] = "save"

\* This is what looking at the approval does.
LEMMA LooksFrame ==
    ASSUME CallTypes, NEW c \in Caller, Look(c)
    PROVE  Looks(c)
<1>1. PICK s \in Readings(c) :
         \/ Allowed(s) /\ Goto(c, "run") /\ UNCHANGED result
         \/ /\ ~ Allowed(s)
            /\ result' = [result EXCEPT ![c] = "blocked"]
            /\ Goto(c, BlockerRoute(s))
  BY DEF Look
<1>2. CASE Allowed(s) /\ Goto(c, "run") /\ UNCHANGED result
  BY <1>2 DEF Look, Goto, CallTypes, OthersStay, Looks
<1>3. CASE ~ Allowed(s)
  <2>1. /\ result' = [result EXCEPT ![c] = "blocked"]
        /\ pc' = [pc EXCEPT ![c] = BlockerRoute(s)]
        /\ UNCHANGED <<on, seen>>
    BY <1>1, <1>3 DEF Look, Goto
  <2>2. \/ BlockerRoute(s) = "bury" /\ class = "blocked_by_budget"
        \/ BlockerRoute(s) = "ask" /\ class = "awaiting_approval"
        \/ BlockerRoute(s) = "save" /\ class # "blocked_by_budget"
    BY DEF BlockerRoute
  <2>3. QED
    BY <2>1, <2>2 DEF Look, CallTypes, OthersStay, Looks, Result
<1>4. QED
  BY <1>1, <1>2, <1>3

\* An attempt that ran, or was turned away, goes where its result is routed.
Dispatches(c) ==
    /\ pc[c] = "run"
    /\ UNCHANGED <<boundVars, event, retryVars, deadletter, verdict, crossed, faults>>
    /\ OthersStay(c)
    /\ on'[c] = on[c] /\ seen'[c] = seen[c]
    /\ ran' \in {ran, ran \cup {Number(c)}}
    /\ again' \in BOOLEAN
    /\ again' => again \/ (~ crossed /\ Number(c) \in ran)
    /\ \/ result'[c] \in {"verified", "blocked"} /\ pc'[c] = "save"
       \/ result'[c] \in {"failed", "deferred"} /\ pc'[c] = RetryRoute(c)

\* This is what dispatching does.
LEMMA DispatchesFrame ==
    ASSUME CallTypes, engine \in Engine, again \in BOOLEAN, NEW c \in Caller, Dispatch(c)
    PROVE  Dispatches(c)
<1>1. PICK r \in Outcomes :
         /\ result' = [result EXCEPT ![c] = r]
         /\ IF r \in {"verified", "failed"} THEN Ran(Number(c)) ELSE UNCHANGED <<ran, again>>
         /\ Goto(c, IF r \in {"failed", "deferred"} THEN RetryRoute(c) ELSE "save")
  BY DEF Dispatch
<1>2. r \in {"verified", "failed", "deferred", "blocked"}
  BY DEF Outcomes, Engine
<1>3. RetryRoute(c) \in {"save", "schedule", "bury"}
  BY DEF RetryRoute
<1>4. /\ result'[c] = r
      /\ result' \in [Caller -> Result]
      /\ \A d \in Caller \ {c} : result'[d] = result[d]
  BY <1>1, <1>2 DEF CallTypes, Result
<1>5. /\ pc'[c] = IF r \in {"failed", "deferred"} THEN RetryRoute(c) ELSE "save"
      /\ pc' \in [Caller -> {"idle", "markDue", "loadDue", "saveDue", "readRetry",
                             "markRetry", "load", "look", "run", "ask", "schedule",
                             "create", "bury", "save"}]
      /\ \A d \in Caller \ {c} : pc'[d] = pc[d]
  BY <1>1, <1>3 DEF CallTypes, Goto
<1>6. ran' \in {ran, ran \cup {Number(c)}}
  BY <1>1 DEF Ran
<1>7. again' \in BOOLEAN
  BY <1>1 DEF Ran
<1>8. again' => again \/ (~ crossed /\ Number(c) \in ran)
  BY <1>1 DEF Ran
<1>9. /\ pc[c] = "run" /\ seen' = seen /\ on' = on
      /\ UNCHANGED <<boundVars, event, retryVars, deadletter, verdict, crossed, faults>>
  BY DEF Dispatch
<1>10. OthersStay(c)
  BY <1>4, <1>5, <1>9 DEF CallTypes, OthersStay
<1>11. QED
  BY <1>2, <1>4, <1>5, <1>6, <1>7, <1>8, <1>9, <1>10 DEF Dispatches

\* An approval is asked for under a fresh id, unless the copy names one.
Asks(c) ==
    /\ pc[c] = "ask"
    /\ UNCHANGED <<boundVars, event, retryVars, deadletter, ghostVars, faults>>
    /\ OthersStay(c)
    /\ verdict' \in [Approval -> Verdict]
    /\ pc'[c] = "save" /\ on'[c] = on[c] /\ result'[c] = result[c]
    /\ seen'[c].attempts = seen[c].attempts /\ seen'[c].outcome = seen[c].outcome
    /\ seen'[c].tried = seen[c].tried
    /\ \/ /\ verdict' = verdict /\ seen[c].approval # NoApproval
          /\ seen'[c].approval = seen[c].approval
       \/ /\ seen[c].approval = NoApproval
          /\ \E a \in Approval :
                /\ verdict[a] = "absent" /\ verdict'[a] = "pending"
                /\ seen'[c].approval = a
                /\ \A b \in Approval \ {a} : verdict'[b] = verdict[b]

\* This is what asking does.
LEMMA AsksFrame ==
    ASSUME CallTypes, verdict \in [Approval -> Verdict], NEW c \in Caller, Ask(c)
    PROVE  Asks(c)
<1>1. CASE seen[c].approval # NoApproval
  BY <1>1 DEF Ask, Goto, callVars, CallTypes, OthersStay, Event, Asks
<1>2. CASE seen[c].approval = NoApproval
  <2>1. PICK a \in Approval :
           /\ verdict[a] = "absent"
           /\ verdict' = [verdict EXCEPT ![a] = "pending"]
           /\ seen' = [seen EXCEPT ![c] = [@ EXCEPT !.approval = a]]
    BY <1>2 DEF Ask
  <2>2. [seen[c] EXCEPT !.approval = a] \in Event
    BY DEF CallTypes, Event
  <2>3. QED
    BY <1>2, <2>1, <2>2 DEF Ask, Goto, CallTypes, OthersStay, Event, Verdict, Decision, Asks
<1>3. QED
  BY <1>1, <1>2

\* The record is saved with the attempt, from the copy.
Saves(c) ==
    /\ pc[c] = "save"
    /\ UNCHANGED <<boundVars, retryVars, deadletter, verdict, ghostVars, faults>>
    /\ Leaves(c)
    /\ event' \in Event
    /\ event'.attempts = Number(c) /\ event'.outcome = result[c]
    /\ event'.approval = seen[c].approval
    /\ event'.tried = IF on[c] = 0 THEN seen[c].tried ELSE on[c]

\* This is what saving an attempt does.
LEMMA SavesFrame ==
    ASSUME CallTypes, CallInv, event \in Event, NEW c \in Caller, Save(c)
    PROVE  Saves(c)
<1>1. seen[c] \in Event /\ result[c] \in Result /\ on[c] \in 0..MaxAttempts
  BY DEF CallTypes
<1>2. DEFINE t == IF on[c] = 0 THEN seen[c].tried ELSE on[c]
<1>3. Number(c) \in 0..MaxAttempts
  BY DEF Attempt, CallInv, CallFits, Dispatching, Save
<1>4. t \in 0..MaxAttempts
  BY <1>1, EventTypes
<1>5. event' = [seen[c] EXCEPT !.attempts = Number(c), !.outcome = result[c], !.tried = t]
  BY DEF Save
<1>6. HIDE DEF t
<1>7. /\ event' \in Event /\ event'.attempts = Number(c) /\ event'.outcome = result[c]
      /\ event'.approval = seen[c].approval /\ event'.tried = t
  BY <1>1, <1>3, <1>4, <1>5 DEF Event
<1>8. Leaves(c)
  BY EndsFrame DEF Save
<1>9. QED
  BY <1>7, <1>8 DEF Save, Saves, t

\* The record is saved with a due receipt, from the copy.
SavesDue(c) ==
    /\ pc[c] = "saveDue"
    /\ UNCHANGED <<boundVars, retryVars, deadletter, verdict, ghostVars, faults>>
    /\ Leaves(c)
    /\ event' \in Event
    /\ event'.attempts = seen[c].attempts /\ event'.outcome = seen[c].outcome
    /\ event'.approval = seen[c].approval /\ event'.tried = seen[c].tried

\* This is what saving a due receipt does.
LEMMA SavesDueFrame ==
    ASSUME CallTypes, NEW c \in Caller, SaveDue(c)
    PROVE  SavesDue(c)
<1>1. Leaves(c)
  BY EndsFrame DEF SaveDue
<1>2. /\ event' \in Event
      /\ event'.attempts = seen[c].attempts /\ event'.outcome = seen[c].outcome
      /\ event'.approval = seen[c].approval /\ event'.tried = seen[c].tried
  BY DEF CallTypes, SaveDue, Event
<1>3. QED
  BY <1>1, <1>2 DEF SaveDue, SavesDue

\* Every step has one of these effects.
LEMMA Effects ==
    ASSUME TypeOK, CallInv, [Next]_vars
    PROVE  \/ \E c \in Caller :
                 \/ Begins(c) \/ PassesOn(c) \/ Takes(c) \/ Returns(c) \/ Looks(c)
                 \/ Dispatches(c) \/ Asks(c) \/ SavesDue(c) \/ Saves(c)
           \/ \E a \in Approval, v \in Decision \cup {"disputed"} : Decide(a, v)
           \/ \E n \in Attempt : Ripens(n)
           \/ UNCHANGED vars
<1>1. /\ CallTypes /\ event \in Event /\ engine \in Engine /\ again \in BOOLEAN
      /\ verdict \in [Approval -> Verdict] /\ crossed \in BOOLEAN
      /\ faults \in 0..MaxFaults
  BY DEF TypeOK, CallTypes
<1>2. ASSUME NEW c \in Caller, Call(c)
      PROVE  \/ Begins(c) \/ PassesOn(c) \/ Takes(c) \/ Returns(c) \/ Looks(c)
             \/ Dispatches(c) \/ Asks(c) \/ SavesDue(c) \/ Saves(c)
  BY <1>1, <1>2, BeginsFrame, PassesOnFrame, TakesFrame, ReturnsFrame, LooksFrame,
     DispatchesFrame, AsksFrame, SavesDueFrame, SavesFrame
  DEF Call
<1>3. QED
  BY <1>2 DEF Next

-----------------------------------------------------------------------------
(* Each part of the invariant is preserved *)

\* The types: a call has a schedule to mark, and a number within the bound.
LEMMA TypeStep ==
    ASSUME TypeOK, CallInv, [Next]_vars
    PROVE  TypeOK'
<1>1. ASSUME NEW c \in Caller, Begins(c)
      PROVE  TypeOK'
  BY <1>1, ReactorAssumption, EventTypes
  DEF Begins, OthersStay, boundVars, retryVars, ghostVars, CallTypes, Verdict, Decision,
      TypeOK
<1>2. ASSUME NEW c \in Caller, PassesOn(c)
      PROVE  TypeOK'
  BY <1>2, ReactorAssumption, EventTypes
  DEF PassesOn, OthersStay, boundVars, retryVars, ghostVars, CallTypes,
      Verdict, Decision, TypeOK
<1>3. ASSUME NEW c \in Caller, Takes(c)
      PROVE  TypeOK'
  BY <1>3, ReactorAssumption, EventTypes
  DEF Takes, Copies, OthersStay, boundVars, retryVars, ghostVars, CallTypes,
      Verdict, Decision, TypeOK
<1>4. ASSUME NEW c \in Caller, Returns(c)
      PROVE  TypeOK'
  BY <1>4, ReactorAssumption, EventTypes
  DEF Returns, Leaves, OthersStay, boundVars, retryVars, ghostVars, CallTypes,
      Verdict, Decision, TypeOK
<1>5. ASSUME NEW c \in Caller, Looks(c)
      PROVE  TypeOK'
  BY <1>5, ReactorAssumption, EventTypes
  DEF Looks, OthersStay, boundVars, retryVars, ghostVars, CallTypes, Verdict, Decision,
      TypeOK
<1>6. ASSUME NEW c \in Caller, Dispatches(c)
      PROVE  TypeOK'
  BY <1>6, ReactorAssumption, EventTypes
  DEF Dispatches, RetryRoute, OthersStay, boundVars, retryVars, ghostVars,
      CallTypes, Verdict, Decision, TypeOK, CallInv, CallFits, Dispatching, Number
<1>7. ASSUME NEW c \in Caller, Asks(c)
      PROVE  TypeOK'
  BY <1>7, ReactorAssumption, EventTypes
  DEF Asks, OthersStay, boundVars, retryVars, ghostVars, CallTypes, Verdict, Decision,
      TypeOK
<1>8. ASSUME NEW c \in Caller, SavesDue(c)
      PROVE  TypeOK'
  BY <1>8, ReactorAssumption, EventTypes
  DEF SavesDue, Leaves, OthersStay, boundVars, retryVars, ghostVars, CallTypes,
      Verdict, Decision, TypeOK
<1>9. ASSUME NEW c \in Caller, Saves(c)
      PROVE  TypeOK'
  BY <1>9, ReactorAssumption, EventTypes
  DEF Saves, Leaves, OthersStay, boundVars, retryVars, ghostVars, CallTypes,
      Verdict, Decision, TypeOK
<1>10. ASSUME NEW a \in Approval,
             NEW v \in Decision \cup {"disputed"}, Decide(a, v)
      PROVE  TypeOK'
  BY <1>10, ReactorAssumption, EventTypes
  DEF Decide, callVars, boundVars, retryVars, ghostVars, CallTypes, Verdict, Decision,
      TypeOK
<1>11. ASSUME NEW n \in Attempt, Ripens(n)
      PROVE  TypeOK'
  BY <1>11, ReactorAssumption, EventTypes
  DEF Ripens, callVars, boundVars, retryVars, ghostVars, CallTypes, Verdict, Decision,
      TypeOK
<1>12. CASE UNCHANGED vars
  BY <1>12
  DEF vars, callVars, boundVars, retryVars, ghostVars, CallTypes, Verdict, Decision,
      TypeOK
<1>13. QED
  BY <1>1, <1>2, <1>3, <1>4, <1>5, <1>6, <1>7, <1>8, <1>9, <1>10, <1>11, <1>12,
     Effects

\* A call goes from one place to the next, and schedules stay.
LEMMA CallStep ==
    ASSUME TypeOK, CallInv, [Next]_vars
    PROVE  CallInv'
<1>1. ASSUME NEW c \in Caller, Begins(c)
      PROVE  CallInv'
  <2>1. CallFits(c)'
    BY <1>1, EventTypes, ReactorAssumption
    DEF Begins, OthersStay, boundVars, retryVars, ghostVars, CallFits, TypeOK,
        CallTypes, CallInv, Dispatching, Number, Result, Attempt
  <2>2. ASSUME NEW d \in Caller \ {c} PROVE CallFits(d)'
    BY <2>2, <1>1, EventTypes, ReactorAssumption
    DEF Begins, OthersStay, boundVars, retryVars, ghostVars, CallFits, TypeOK,
        CallTypes, CallInv, Dispatching, Number, Result, Attempt
  <2>3. QED
    BY <2>1, <2>2
    DEF CallInv
<1>2. ASSUME NEW c \in Caller, PassesOn(c)
      PROVE  CallInv'
  <2>1. Number(c)' = Number(c)
    BY <1>2, ReactorAssumption, EventTypes
    DEF PassesOn, boundVars, retryVars, ghostVars, Number
  <2>2. on[c] # 0 => on[c] \in Attempt
    BY <1>2, <2>1, ReactorAssumption, EventTypes
    DEF PassesOn, boundVars, retryVars, ghostVars, TypeOK, Attempt
  <2>3. CallFits(c)'
    BY <1>2, <2>1, <2>2, EventTypes, ReactorAssumption, SMTT(30)
    DEF PassesOn, OthersStay, boundVars, retryVars, ghostVars, CallFits, TypeOK,
        CallTypes, CallInv, Dispatching, Result, Attempt
  <2>4. ASSUME NEW d \in Caller \ {c} PROVE CallFits(d)'
    BY <2>4, <1>2, <2>1, <2>2, EventTypes, ReactorAssumption, SMTT(30)
    DEF PassesOn, OthersStay, boundVars, retryVars, ghostVars, CallFits, TypeOK,
        CallTypes, CallInv, Dispatching, Number, Result, Attempt
  <2>5. QED
    BY <2>3, <2>4
    DEF CallInv
<1>3. ASSUME NEW c \in Caller, Takes(c)
      PROVE  CallInv'
  <2>1. CallFits(c)'
    BY <1>3, EventTypes, ReactorAssumption
    DEF Takes, Copies, OthersStay, boundVars, retryVars, ghostVars, CallFits,
        TypeOK, CallTypes, CallInv, Dispatching, Number, Result, Attempt
  <2>2. ASSUME NEW d \in Caller \ {c} PROVE CallFits(d)'
    BY <2>2, <1>3, EventTypes, ReactorAssumption
    DEF Takes, Copies, OthersStay, boundVars, retryVars, ghostVars, CallFits,
        TypeOK, CallTypes, CallInv, Dispatching, Number, Result, Attempt
  <2>3. QED
    BY <2>1, <2>2
    DEF CallInv
<1>4. ASSUME NEW c \in Caller, Returns(c)
      PROVE  CallInv'
  <2>1. CallFits(c)'
    BY <1>4, EventTypes, ReactorAssumption
    DEF Returns, Leaves, OthersStay, boundVars, retryVars, ghostVars, CallFits,
        TypeOK, CallTypes, CallInv, Dispatching, Number, Result
  <2>2. ASSUME NEW d \in Caller \ {c} PROVE CallFits(d)'
    BY <2>2, <1>4, EventTypes, ReactorAssumption
    DEF Returns, Leaves, OthersStay, boundVars, retryVars, ghostVars, CallFits,
        TypeOK, CallTypes, CallInv, Dispatching, Number, Result
  <2>3. QED
    BY <2>1, <2>2
    DEF CallInv
<1>5. ASSUME NEW c \in Caller, Looks(c)
      PROVE  CallInv'
  <2>1. CallFits(c)'
    BY <1>5, EventTypes, ReactorAssumption
    DEF Looks, OthersStay, boundVars, retryVars, ghostVars, CallFits, TypeOK,
        CallTypes, CallInv, Dispatching, Number, Result, Allowed
  <2>2. ASSUME NEW d \in Caller \ {c} PROVE CallFits(d)'
    BY <2>2, <1>5, EventTypes, ReactorAssumption
    DEF Looks, OthersStay, boundVars, retryVars, ghostVars, CallFits, TypeOK,
        CallTypes, CallInv, Dispatching, Number, Result, Allowed
  <2>3. QED
    BY <2>1, <2>2
    DEF CallInv
<1>6. ASSUME NEW c \in Caller, Dispatches(c)
      PROVE  CallInv'
  <2>1. CallFits(c)'
    BY <1>6, EventTypes, ReactorAssumption
    DEF Dispatches, RetryRoute, OthersStay, boundVars, retryVars, ghostVars,
        CallFits, TypeOK, CallTypes, CallInv, Dispatching, Number, Result
  <2>2. ASSUME NEW d \in Caller \ {c} PROVE CallFits(d)'
    BY <2>2, <1>6, EventTypes, ReactorAssumption
    DEF Dispatches, RetryRoute, OthersStay, boundVars, retryVars, ghostVars,
        CallFits, TypeOK, CallTypes, CallInv, Dispatching, Number, Result
  <2>3. QED
    BY <2>1, <2>2
    DEF CallInv
<1>7. ASSUME NEW c \in Caller, Asks(c)
      PROVE  CallInv'
  <2>1. CallFits(c)'
    BY <1>7, EventTypes, ReactorAssumption
    DEF Asks, OthersStay, boundVars, retryVars, ghostVars, CallFits, TypeOK,
        CallTypes, CallInv, Dispatching, Number, Result
  <2>2. ASSUME NEW d \in Caller \ {c} PROVE CallFits(d)'
    BY <2>2, <1>7, EventTypes, ReactorAssumption
    DEF Asks, OthersStay, boundVars, retryVars, ghostVars, CallFits, TypeOK,
        CallTypes, CallInv, Dispatching, Number, Result
  <2>3. QED
    BY <2>1, <2>2
    DEF CallInv
<1>8. ASSUME NEW c \in Caller, SavesDue(c)
      PROVE  CallInv'
  <2>1. CallFits(c)'
    BY <1>8, EventTypes, ReactorAssumption
    DEF SavesDue, Leaves, OthersStay, boundVars, retryVars, ghostVars, CallFits,
        TypeOK, CallTypes, CallInv, Dispatching, Number, Result
  <2>2. ASSUME NEW d \in Caller \ {c} PROVE CallFits(d)'
    BY <2>2, <1>8, EventTypes, ReactorAssumption
    DEF SavesDue, Leaves, OthersStay, boundVars, retryVars, ghostVars, CallFits,
        TypeOK, CallTypes, CallInv, Dispatching, Number, Result
  <2>3. QED
    BY <2>1, <2>2
    DEF CallInv
<1>9. ASSUME NEW c \in Caller, Saves(c)
      PROVE  CallInv'
  <2>1. CallFits(c)'
    BY <1>9, EventTypes, ReactorAssumption
    DEF Saves, Leaves, OthersStay, boundVars, retryVars, ghostVars, CallFits,
        TypeOK, CallTypes, CallInv, Dispatching, Number, Result
  <2>2. ASSUME NEW d \in Caller \ {c} PROVE CallFits(d)'
    BY <2>2, <1>9, EventTypes, ReactorAssumption
    DEF Saves, Leaves, OthersStay, boundVars, retryVars, ghostVars, CallFits,
        TypeOK, CallTypes, CallInv, Dispatching, Number, Result
  <2>3. QED
    BY <2>1, <2>2
    DEF CallInv
<1>10. ASSUME NEW a \in Approval,
             NEW v \in Decision \cup {"disputed"}, Decide(a, v)
      PROVE  CallInv'
  BY <1>10, ReactorAssumption, EventTypes
  DEF Decide, callVars, boundVars, retryVars, ghostVars, CallFits, TypeOK,
      CallTypes, CallInv, Dispatching, Number, Result
<1>11. ASSUME NEW n \in Attempt, Ripens(n)
      PROVE  CallInv'
  BY <1>11, ReactorAssumption, EventTypes
  DEF Ripens, callVars, boundVars, retryVars, ghostVars, CallFits, TypeOK,
      CallTypes, CallInv, Dispatching, Number, Result
<1>12. CASE UNCHANGED vars
  BY <1>12
  DEF vars, callVars, boundVars, retryVars, ghostVars, CallFits, TypeOK,
      CallTypes, CallInv, Dispatching, Number, Result
<1>13. QED
  BY <1>1, <1>2, <1>3, <1>4, <1>5, <1>6, <1>7, <1>8, <1>9, <1>10, <1>11, <1>12,
     Effects

\* What a failure needs is written before the record, and it is never removed.
LEMMA RouteStep ==
    ASSUME TypeOK, CallInv, RouteInv, [Next]_vars
    PROVE  RouteInv'
<1>1. ASSUME NEW c \in Caller, Begins(c)
      PROVE  RouteInv'
  <2>1. Routed(event.outcome, event.attempts)'
    BY <1>1, EventTypes, ReactorAssumption
    DEF Begins, OthersStay, boundVars, retryVars, ghostVars, CallRouted, TypeOK,
        CallTypes, RouteInv, CallInv, CallFits, Dispatching, Number, Result,
        Routed
  <2>2. CallRouted(c)'
    BY <1>1, EventTypes, ReactorAssumption
    DEF Begins, OthersStay, boundVars, retryVars, ghostVars, CallRouted, TypeOK,
        CallTypes, RouteInv, CallInv, CallFits, Dispatching, Number, Result,
        Routed
  <2>3. ASSUME NEW d \in Caller \ {c} PROVE CallRouted(d)'
    BY <2>3, <1>1, EventTypes, ReactorAssumption
    DEF Begins, OthersStay, boundVars, retryVars, ghostVars, CallRouted, TypeOK,
        CallTypes, RouteInv, CallInv, CallFits, Dispatching, Number, Result,
        Routed
  <2>4. QED
    BY <2>1, <2>2, <2>3
    DEF RouteInv
<1>2. ASSUME NEW c \in Caller, PassesOn(c)
      PROVE  RouteInv'
  <2>1. Routed(event.outcome, event.attempts)'
    BY <1>2, EventTypes, ReactorAssumption
    DEF PassesOn, OthersStay, boundVars, retryVars, ghostVars, CallRouted,
        TypeOK, CallTypes, RouteInv, CallInv, CallFits, Dispatching, Number,
        Result, Routed
  <2>2. CallRouted(c)'
    BY <1>2, EventTypes, ReactorAssumption
    DEF PassesOn, OthersStay, boundVars, retryVars, ghostVars, CallRouted,
        TypeOK, CallTypes, RouteInv, CallInv, CallFits, Dispatching, Number,
        Result, Routed
  <2>3. ASSUME NEW d \in Caller \ {c} PROVE CallRouted(d)'
    BY <2>3, <1>2, EventTypes, ReactorAssumption
    DEF PassesOn, OthersStay, boundVars, retryVars, ghostVars, CallRouted,
        TypeOK, CallTypes, RouteInv, CallInv, CallFits, Dispatching, Number,
        Result, Routed
  <2>4. QED
    BY <2>1, <2>2, <2>3
    DEF RouteInv
<1>3. ASSUME NEW c \in Caller, Takes(c)
      PROVE  RouteInv'
  <2>1. Routed(event.outcome, event.attempts)'
    BY <1>3, EventTypes, ReactorAssumption
    DEF Takes, Copies, OthersStay, boundVars, retryVars, ghostVars, CallRouted,
        TypeOK, CallTypes, RouteInv, CallInv, CallFits, Dispatching, Number,
        Result, Routed
  <2>2. CallRouted(c)'
    BY <1>3, EventTypes, ReactorAssumption
    DEF Takes, Copies, OthersStay, boundVars, retryVars, ghostVars, CallRouted,
        TypeOK, CallTypes, RouteInv, CallInv, CallFits, Dispatching, Number,
        Result, Routed
  <2>3. ASSUME NEW d \in Caller \ {c} PROVE CallRouted(d)'
    BY <2>3, <1>3, EventTypes, ReactorAssumption
    DEF Takes, Copies, OthersStay, boundVars, retryVars, ghostVars, CallRouted,
        TypeOK, CallTypes, RouteInv, CallInv, CallFits, Dispatching, Number,
        Result, Routed
  <2>4. QED
    BY <2>1, <2>2, <2>3
    DEF RouteInv
<1>4. ASSUME NEW c \in Caller, Returns(c)
      PROVE  RouteInv'
  <2>1. Routed(event.outcome, event.attempts)'
    BY <1>4, EventTypes, ReactorAssumption
    DEF Returns, Leaves, OthersStay, boundVars, retryVars, ghostVars, CallRouted,
        TypeOK, CallTypes, RouteInv, CallInv, CallFits, Dispatching, Number,
        Result, Routed
  <2>2. CallRouted(c)'
    BY <1>4, EventTypes, ReactorAssumption
    DEF Returns, Leaves, OthersStay, boundVars, retryVars, ghostVars, CallRouted,
        TypeOK, CallTypes, RouteInv, CallInv, CallFits, Dispatching, Number,
        Result, Routed
  <2>3. ASSUME NEW d \in Caller \ {c} PROVE CallRouted(d)'
    BY <2>3, <1>4, EventTypes, ReactorAssumption
    DEF Returns, Leaves, OthersStay, boundVars, retryVars, ghostVars, CallRouted,
        TypeOK, CallTypes, RouteInv, CallInv, CallFits, Dispatching, Number,
        Result, Routed
  <2>4. QED
    BY <2>1, <2>2, <2>3
    DEF RouteInv
<1>5. ASSUME NEW c \in Caller, Looks(c)
      PROVE  RouteInv'
  <2>1. Routed(event.outcome, event.attempts)'
    BY <1>5, EventTypes, ReactorAssumption
    DEF Looks, OthersStay, boundVars, retryVars, ghostVars, CallRouted, TypeOK,
        CallTypes, RouteInv, CallInv, CallFits, Dispatching, Number, Result,
        Routed
  <2>2. CallRouted(c)'
    BY <1>5, EventTypes, ReactorAssumption
    DEF Looks, OthersStay, boundVars, retryVars, ghostVars, CallRouted, TypeOK,
        CallTypes, RouteInv, CallInv, CallFits, Dispatching, Number, Result,
        Routed
  <2>3. ASSUME NEW d \in Caller \ {c} PROVE CallRouted(d)'
    BY <2>3, <1>5, EventTypes, ReactorAssumption
    DEF Looks, OthersStay, boundVars, retryVars, ghostVars, CallRouted, TypeOK,
        CallTypes, RouteInv, CallInv, CallFits, Dispatching, Number, Result,
        Routed
  <2>4. QED
    BY <2>1, <2>2, <2>3
    DEF RouteInv
<1>6. ASSUME NEW c \in Caller, Dispatches(c)
      PROVE  RouteInv'
  <2>1. Routed(event.outcome, event.attempts)'
    BY <1>6, EventTypes, ReactorAssumption
    DEF Dispatches, RetryRoute, OthersStay, boundVars, retryVars, ghostVars,
        CallRouted, TypeOK, CallTypes, RouteInv, CallInv, CallFits, Dispatching,
        Number, Result, Routed
  <2>2. CallRouted(c)'
    BY <1>6, EventTypes, ReactorAssumption
    DEF Dispatches, RetryRoute, OthersStay, boundVars, retryVars, ghostVars,
        CallRouted, TypeOK, CallTypes, RouteInv, CallInv, CallFits, Dispatching,
        Number, Result, Routed
  <2>3. ASSUME NEW d \in Caller \ {c} PROVE CallRouted(d)'
    BY <2>3, <1>6, EventTypes, ReactorAssumption
    DEF Dispatches, RetryRoute, OthersStay, boundVars, retryVars, ghostVars,
        CallRouted, TypeOK, CallTypes, RouteInv, CallInv, CallFits, Dispatching,
        Number, Result, Routed
  <2>4. QED
    BY <2>1, <2>2, <2>3
    DEF RouteInv
<1>7. ASSUME NEW c \in Caller, Asks(c)
      PROVE  RouteInv'
  <2>1. Routed(event.outcome, event.attempts)'
    BY <1>7, EventTypes, ReactorAssumption
    DEF Asks, OthersStay, boundVars, retryVars, ghostVars, CallRouted, TypeOK,
        CallTypes, RouteInv, CallInv, CallFits, Dispatching, Number, Result,
        Routed
  <2>2. CallRouted(c)'
    BY <1>7, EventTypes, ReactorAssumption
    DEF Asks, OthersStay, boundVars, retryVars, ghostVars, CallRouted, TypeOK,
        CallTypes, RouteInv, CallInv, CallFits, Dispatching, Number, Result,
        Routed
  <2>3. ASSUME NEW d \in Caller \ {c} PROVE CallRouted(d)'
    BY <2>3, <1>7, EventTypes, ReactorAssumption
    DEF Asks, OthersStay, boundVars, retryVars, ghostVars, CallRouted, TypeOK,
        CallTypes, RouteInv, CallInv, CallFits, Dispatching, Number, Result,
        Routed
  <2>4. QED
    BY <2>1, <2>2, <2>3
    DEF RouteInv
<1>8. ASSUME NEW c \in Caller, SavesDue(c)
      PROVE  RouteInv'
  <2>1. Routed(event.outcome, event.attempts)'
    BY <1>8, EventTypes, ReactorAssumption
    DEF SavesDue, Leaves, OthersStay, boundVars, retryVars, ghostVars,
        CallRouted, TypeOK, CallTypes, RouteInv, CallInv, CallFits, Dispatching,
        Number, Result, Routed
  <2>2. CallRouted(c)'
    BY <1>8, EventTypes, ReactorAssumption
    DEF SavesDue, Leaves, OthersStay, boundVars, retryVars, ghostVars,
        CallRouted, TypeOK, CallTypes, RouteInv, CallInv, CallFits, Dispatching,
        Number, Result, Routed
  <2>3. ASSUME NEW d \in Caller \ {c} PROVE CallRouted(d)'
    BY <2>3, <1>8, EventTypes, ReactorAssumption
    DEF SavesDue, Leaves, OthersStay, boundVars, retryVars, ghostVars,
        CallRouted, TypeOK, CallTypes, RouteInv, CallInv, CallFits, Dispatching,
        Number, Result, Routed
  <2>4. QED
    BY <2>1, <2>2, <2>3
    DEF RouteInv
<1>9. ASSUME NEW c \in Caller, Saves(c)
      PROVE  RouteInv'
  <2>1. Routed(event.outcome, event.attempts)'
    BY <1>9, EventTypes, ReactorAssumption
    DEF Saves, Leaves, OthersStay, boundVars, retryVars, ghostVars, CallRouted,
        TypeOK, CallTypes, RouteInv, CallInv, CallFits, Dispatching, Number,
        Result, Routed
  <2>2. CallRouted(c)'
    BY <1>9, EventTypes, ReactorAssumption
    DEF Saves, Leaves, OthersStay, boundVars, retryVars, ghostVars, CallRouted,
        TypeOK, CallTypes, RouteInv, CallInv, CallFits, Dispatching, Number,
        Result, Routed
  <2>3. ASSUME NEW d \in Caller \ {c} PROVE CallRouted(d)'
    BY <2>3, <1>9, EventTypes, ReactorAssumption
    DEF Saves, Leaves, OthersStay, boundVars, retryVars, ghostVars, CallRouted,
        TypeOK, CallTypes, RouteInv, CallInv, CallFits, Dispatching, Number,
        Result, Routed
  <2>4. QED
    BY <2>1, <2>2, <2>3
    DEF RouteInv
<1>10. ASSUME NEW a \in Approval,
             NEW v \in Decision \cup {"disputed"}, Decide(a, v)
      PROVE  RouteInv'
  BY <1>10, ReactorAssumption, EventTypes
  DEF Decide, callVars, boundVars, retryVars, ghostVars, CallRouted, TypeOK,
      CallTypes, RouteInv, CallInv, CallFits, Dispatching, Number, Result,
      Routed
<1>11. ASSUME NEW n \in Attempt, Ripens(n)
      PROVE  RouteInv'
  BY <1>11, ReactorAssumption, EventTypes
  DEF Ripens, callVars, boundVars, retryVars, ghostVars, CallRouted, TypeOK,
      CallTypes, RouteInv, CallInv, CallFits, Dispatching, Number, Result,
      Routed
<1>12. CASE UNCHANGED vars
  BY <1>12
  DEF vars, callVars, boundVars, retryVars, ghostVars, CallRouted, TypeOK,
      CallTypes, RouteInv, CallInv, CallFits, Dispatching, Number, Result,
      Routed
<1>13. QED
  BY <1>1, <1>2, <1>3, <1>4, <1>5, <1>6, <1>7, <1>8, <1>9, <1>10, <1>11, <1>12,
     Effects

\* An approval that was given stays, and without one no call gets to run.
LEMMA LeaveStep ==
    ASSUME TypeOK, CallInv, LeaveInv, [Next]_vars
    PROVE  LeaveInv'
<1>1. ASSUME NEW c \in Caller, Begins(c)
      PROVE  LeaveInv'
  BY <1>1, ReactorAssumption, EventTypes
  DEF Begins, OthersStay, boundVars, retryVars, ghostVars, TypeOK, CallTypes,
      Cleared, LeaveInv
<1>2. ASSUME NEW c \in Caller, PassesOn(c)
      PROVE  LeaveInv'
  BY <1>2, ReactorAssumption, EventTypes
  DEF PassesOn, OthersStay, boundVars, retryVars, ghostVars, TypeOK, CallTypes,
      Cleared, LeaveInv
<1>3. ASSUME NEW c \in Caller, Takes(c)
      PROVE  LeaveInv'
  BY <1>3, ReactorAssumption, EventTypes
  DEF Takes, Copies, OthersStay, boundVars, retryVars, ghostVars, TypeOK,
      CallTypes, Cleared, LeaveInv
<1>4. ASSUME NEW c \in Caller, Returns(c)
      PROVE  LeaveInv'
  BY <1>4, ReactorAssumption, EventTypes
  DEF Returns, Leaves, OthersStay, boundVars, retryVars, ghostVars, TypeOK,
      CallTypes, Cleared, LeaveInv
<1>5. ASSUME NEW c \in Caller, Looks(c)
      PROVE  LeaveInv'
  BY <1>5, ReactorAssumption, EventTypes
  DEF Looks, OthersStay, boundVars, retryVars, ghostVars, TypeOK, CallTypes,
      Cleared, LeaveInv, Allowed, Readings, Decision
<1>6. ASSUME NEW c \in Caller, Dispatches(c)
      PROVE  LeaveInv'
  BY <1>6, ReactorAssumption, EventTypes
  DEF Dispatches, RetryRoute, OthersStay, boundVars, retryVars, ghostVars,
      TypeOK, CallTypes, Cleared, LeaveInv
<1>7. ASSUME NEW c \in Caller, Asks(c)
      PROVE  LeaveInv'
  BY <1>7, ReactorAssumption, EventTypes
  DEF Asks, OthersStay, boundVars, retryVars, ghostVars, TypeOK, CallTypes,
      Cleared, LeaveInv
<1>8. ASSUME NEW c \in Caller, SavesDue(c)
      PROVE  LeaveInv'
  BY <1>8, ReactorAssumption, EventTypes
  DEF SavesDue, Leaves, OthersStay, boundVars, retryVars, ghostVars, TypeOK,
      CallTypes, Cleared, LeaveInv
<1>9. ASSUME NEW c \in Caller, Saves(c)
      PROVE  LeaveInv'
  BY <1>9, ReactorAssumption, EventTypes
  DEF Saves, Leaves, OthersStay, boundVars, retryVars, ghostVars, TypeOK,
      CallTypes, Cleared, LeaveInv
<1>10. ASSUME NEW a \in Approval,
             NEW v \in Decision \cup {"disputed"}, Decide(a, v)
      PROVE  LeaveInv'
  BY <1>10, ReactorAssumption, EventTypes
  DEF Decide, callVars, boundVars, retryVars, ghostVars, TypeOK, CallTypes,
      Cleared, LeaveInv
<1>11. ASSUME NEW n \in Attempt, Ripens(n)
      PROVE  LeaveInv'
  BY <1>11, ReactorAssumption, EventTypes
  DEF Ripens, callVars, boundVars, retryVars, ghostVars, TypeOK, CallTypes,
      Cleared, LeaveInv
<1>12. CASE UNCHANGED vars
  BY <1>12
  DEF vars, callVars, boundVars, retryVars, ghostVars, TypeOK, CallTypes,
      Cleared, LeaveInv
<1>13. QED
  BY <1>1, <1>2, <1>3, <1>4, <1>5, <1>6, <1>7, <1>8, <1>9, <1>10, <1>11, <1>12,
     Effects

\* Schedules are created, and failures buried, for retries that are allowed.
LEMMA UnroutedStep ==
    ASSUME TypeOK, CallInv, UnroutedInv, [Next]_vars
    PROVE  UnroutedInv'
<1>1. ASSUME NEW c \in Caller, PassesOn(c)
      PROVE  UnroutedInv'
  BY <1>1 DEF PassesOn, boundVars, TypeOK, CallInv, CallFits, UnroutedInv
<1>2. ASSUME UNCHANGED <<boundVars, retry, deadletter>>
      PROVE  UnroutedInv'
  BY <1>2 DEF boundVars, UnroutedInv
<1>3. ASSUME NEW c \in Caller,
             Begins(c) \/ Takes(c) \/ Returns(c) \/ Looks(c) \/ Dispatches(c) \/ Asks(c)
                 \/ SavesDue(c) \/ Saves(c)
      PROVE  UnroutedInv'
  BY <1>2, <1>3
  DEF Begins, Takes, Returns, Looks, Dispatches, Asks, SavesDue, Saves, retryVars
<1>4. ASSUME NEW a \in Approval, NEW v \in Decision \cup {"disputed"}, Decide(a, v)
      PROVE  UnroutedInv'
  BY <1>2, <1>4 DEF Decide, retryVars
<1>5. ASSUME NEW n \in Attempt, Ripens(n)
      PROVE  UnroutedInv'
  BY <1>2, <1>5 DEF Ripens
<1>6. CASE UNCHANGED vars
  BY <1>2, <1>6 DEF vars, retryVars
<1>7. QED
  BY <1>1, <1>3, <1>4, <1>5, <1>6, Effects

\* Another copy is taken while there is none, or else calls have crossed.
LEMMA CopyStep ==
    ASSUME TypeOK, CallInv, LedgerInv, CopyInv, [Next]_vars
    PROVE  CopyInv'
<1>1. ASSUME NEW c \in Caller, Begins(c)
      PROVE  CopyInv'
  <2>1. CASE crossed'
    BY <2>1, <1>1
    DEF Begins, boundVars, retryVars, ghostVars, CopyInv
  <2>2. CASE ~ crossed'
    <3>1. ~ crossed /\ OneCopy /\ \A d \in Caller : Current(d)
      BY <1>1, <2>2
      DEF Begins, boundVars, retryVars, ghostVars, CopyInv
    <3>2. OneCopy'
      BY <1>1, <2>2, <3>1, EventTypes, ReactorAssumption
      DEF Begins, OthersStay, boundVars, retryVars, ghostVars, OneCopy, TypeOK,
          CallTypes, HasCopy
    <3>3. Current(c)'
      BY <1>1, <2>2, <3>1, EventTypes, ReactorAssumption
      DEF Begins, OthersStay, boundVars, retryVars, ghostVars, OneCopy, Current,
          TypeOK, CallTypes, HasCopy
    <3>4. ASSUME NEW d \in Caller \ {c} PROVE Current(d)'
      BY <3>4, <1>1, <2>2, <3>1, EventTypes, ReactorAssumption
      DEF Begins, OthersStay, boundVars, retryVars, ghostVars, OneCopy, Current,
          TypeOK, CallTypes, HasCopy
    <3>5. QED
      BY <3>2, <3>3, <3>4, <2>2, <3>1
      DEF CopyInv
  <2>3. QED
    BY <2>1, <2>2
<1>2. ASSUME NEW c \in Caller, PassesOn(c)
      PROVE  CopyInv'
  <2>1. CASE crossed'
    BY <2>1, <1>2
    DEF PassesOn, boundVars, retryVars, ghostVars, CopyInv
  <2>2. CASE ~ crossed'
    <3>1. ~ crossed /\ OneCopy /\ \A d \in Caller : Current(d)
      BY <1>2, <2>2
      DEF PassesOn, boundVars, retryVars, ghostVars, CopyInv
    <3>2. OneCopy'
      BY <1>2, <2>2, <3>1, EventTypes, ReactorAssumption
      DEF PassesOn, OthersStay, boundVars, retryVars, ghostVars, OneCopy, TypeOK,
          CallTypes, HasCopy
    <3>3. Current(c)'
      BY <1>2, <2>2, <3>1, EventTypes, ReactorAssumption
      DEF PassesOn, OthersStay, boundVars, retryVars, ghostVars, OneCopy, Current,
          TypeOK, CallTypes, HasCopy
    <3>4. ASSUME NEW d \in Caller \ {c} PROVE Current(d)'
      BY <3>4, <1>2, <2>2, <3>1, EventTypes, ReactorAssumption
      DEF PassesOn, OthersStay, boundVars, retryVars, ghostVars, OneCopy, Current,
          TypeOK, CallTypes, HasCopy
    <3>5. QED
      BY <3>2, <3>3, <3>4, <2>2, <3>1
      DEF CopyInv
  <2>3. QED
    BY <2>1, <2>2
<1>3. ASSUME NEW c \in Caller, Takes(c)
      PROVE  CopyInv'
  <2>1. CASE crossed'
    BY <2>1, <1>3
    DEF Takes, Copies, boundVars, retryVars, ghostVars, CopyInv
  <2>2. CASE ~ crossed'
    <3>1. ~ crossed /\ OneCopy /\ \A d \in Caller : Current(d)
      BY <1>3, <2>2
      DEF Takes, Copies, boundVars, retryVars, ghostVars, CopyInv
    <3>2. \A d \in Caller \ {c} : ~ HasCopy(d)
      BY <1>3, <2>2, <3>1, ReactorAssumption, EventTypes
      DEF Takes, Copies, boundVars, retryVars, ghostVars
    <3>3. on[c] <= event.attempts
      BY <1>3, <2>2, <3>1, <3>2, ReactorAssumption, EventTypes
      DEF Takes, Copies, boundVars, retryVars, ghostVars, HasCopy, LedgerInv,
          SchedulesCounted, TriesCounted, CallInv, CallFits, TypeOK, Attempt
    <3>4. OneCopy'
      BY <1>3, <2>2, <3>1, <3>2, <3>3, EventTypes, ReactorAssumption
      DEF Takes, Copies, OthersStay, boundVars, retryVars, ghostVars, OneCopy,
          TypeOK, CallTypes, HasCopy
    <3>5. Current(c)'
      BY <1>3, <2>2, <3>1, <3>2, <3>3, EventTypes, ReactorAssumption
      DEF Takes, Copies, OthersStay, boundVars, retryVars, ghostVars, OneCopy,
          Current, TypeOK, CallTypes, HasCopy, LedgerInv, SchedulesCounted,
          CallInv, CallFits, Attempt, Number, TriesCounted
    <3>6. ASSUME NEW d \in Caller \ {c} PROVE Current(d)'
      BY <3>6, <1>3, <2>2, <3>1, <3>2, <3>3, EventTypes, ReactorAssumption
      DEF Takes, Copies, OthersStay, boundVars, retryVars, ghostVars, OneCopy,
          Current, TypeOK, CallTypes, HasCopy, LedgerInv, SchedulesCounted,
          CallInv, CallFits, Attempt, Number, TriesCounted
    <3>7. QED
      BY <3>4, <3>5, <3>6, <2>2, <3>1
      DEF CopyInv
  <2>3. QED
    BY <2>1, <2>2
<1>4. ASSUME NEW c \in Caller, Returns(c)
      PROVE  CopyInv'
  <2>1. CASE crossed'
    BY <2>1, <1>4
    DEF Returns, Leaves, boundVars, retryVars, ghostVars, CopyInv
  <2>2. CASE ~ crossed'
    <3>1. ~ crossed /\ OneCopy /\ \A d \in Caller : Current(d)
      BY <1>4, <2>2
      DEF Returns, Leaves, boundVars, retryVars, ghostVars, CopyInv
    <3>2. OneCopy'
      BY <1>4, <2>2, <3>1, EventTypes, ReactorAssumption
      DEF Returns, Leaves, OthersStay, boundVars, retryVars, ghostVars, OneCopy,
          TypeOK, CallTypes, HasCopy
    <3>3. Current(c)'
      BY <1>4, <2>2, <3>1, EventTypes, ReactorAssumption
      DEF Returns, Leaves, OthersStay, boundVars, retryVars, ghostVars, OneCopy,
          Current, TypeOK, CallTypes, HasCopy
    <3>4. ASSUME NEW d \in Caller \ {c} PROVE Current(d)'
      BY <3>4, <1>4, <2>2, <3>1, EventTypes, ReactorAssumption
      DEF Returns, Leaves, OthersStay, boundVars, retryVars, ghostVars, OneCopy,
          Current, TypeOK, CallTypes, HasCopy
    <3>5. QED
      BY <3>2, <3>3, <3>4, <2>2, <3>1
      DEF CopyInv
  <2>3. QED
    BY <2>1, <2>2
<1>5. ASSUME NEW c \in Caller, Looks(c)
      PROVE  CopyInv'
  <2>1. CASE crossed'
    BY <2>1, <1>5
    DEF Looks, boundVars, retryVars, ghostVars, CopyInv
  <2>2. CASE ~ crossed'
    <3>1. ~ crossed /\ OneCopy /\ \A d \in Caller : Current(d)
      BY <1>5, <2>2
      DEF Looks, boundVars, retryVars, ghostVars, CopyInv
    <3>2. OneCopy'
      BY <1>5, <2>2, <3>1, EventTypes, ReactorAssumption
      DEF Looks, OthersStay, boundVars, retryVars, ghostVars, OneCopy, TypeOK,
          CallTypes, HasCopy
    <3>3. Current(c)'
      BY <1>5, <2>2, <3>1, EventTypes, ReactorAssumption
      DEF Looks, OthersStay, boundVars, retryVars, ghostVars, OneCopy, Current,
          TypeOK, CallTypes, HasCopy
    <3>4. ASSUME NEW d \in Caller \ {c} PROVE Current(d)'
      BY <3>4, <1>5, <2>2, <3>1, EventTypes, ReactorAssumption
      DEF Looks, OthersStay, boundVars, retryVars, ghostVars, OneCopy, Current,
          TypeOK, CallTypes, HasCopy
    <3>5. QED
      BY <3>2, <3>3, <3>4, <2>2, <3>1
      DEF CopyInv
  <2>3. QED
    BY <2>1, <2>2
<1>6. ASSUME NEW c \in Caller, Dispatches(c)
      PROVE  CopyInv'
  <2>1. CASE crossed'
    BY <2>1, <1>6
    DEF Dispatches, RetryRoute, boundVars, retryVars, ghostVars, CopyInv
  <2>2. CASE ~ crossed'
    <3>1. ~ crossed /\ OneCopy /\ \A d \in Caller : Current(d)
      BY <1>6, <2>2
      DEF Dispatches, RetryRoute, boundVars, retryVars, ghostVars, CopyInv
    <3>2. OneCopy'
      BY <1>6, <2>2, <3>1, EventTypes, ReactorAssumption
      DEF Dispatches, RetryRoute, OthersStay, boundVars, retryVars, ghostVars,
          OneCopy, TypeOK, CallTypes, HasCopy
    <3>3. Current(c)'
      BY <1>6, <2>2, <3>1, EventTypes, ReactorAssumption
      DEF Dispatches, RetryRoute, OthersStay, boundVars, retryVars, ghostVars,
          OneCopy, Current, TypeOK, CallTypes, HasCopy
    <3>4. ASSUME NEW d \in Caller \ {c} PROVE Current(d)'
      BY <3>4, <1>6, <2>2, <3>1, EventTypes, ReactorAssumption
      DEF Dispatches, RetryRoute, OthersStay, boundVars, retryVars, ghostVars,
          OneCopy, Current, TypeOK, CallTypes, HasCopy
    <3>5. QED
      BY <3>2, <3>3, <3>4, <2>2, <3>1
      DEF CopyInv
  <2>3. QED
    BY <2>1, <2>2
<1>7. ASSUME NEW c \in Caller, Asks(c)
      PROVE  CopyInv'
  <2>1. CASE crossed'
    BY <2>1, <1>7
    DEF Asks, boundVars, retryVars, ghostVars, CopyInv
  <2>2. CASE ~ crossed'
    <3>1. ~ crossed /\ OneCopy /\ \A d \in Caller : Current(d)
      BY <1>7, <2>2
      DEF Asks, boundVars, retryVars, ghostVars, CopyInv
    <3>2. OneCopy'
      BY <1>7, <2>2, <3>1, EventTypes, ReactorAssumption
      DEF Asks, OthersStay, boundVars, retryVars, ghostVars, OneCopy, TypeOK,
          CallTypes, HasCopy
    <3>3. Current(c)'
      BY <1>7, <2>2, <3>1, EventTypes, ReactorAssumption
      DEF Asks, OthersStay, boundVars, retryVars, ghostVars, OneCopy, Current,
          TypeOK, CallTypes, HasCopy
    <3>4. ASSUME NEW d \in Caller \ {c} PROVE Current(d)'
      BY <3>4, <1>7, <2>2, <3>1, EventTypes, ReactorAssumption
      DEF Asks, OthersStay, boundVars, retryVars, ghostVars, OneCopy, Current,
          TypeOK, CallTypes, HasCopy
    <3>5. QED
      BY <3>2, <3>3, <3>4, <2>2, <3>1
      DEF CopyInv
  <2>3. QED
    BY <2>1, <2>2
<1>8. ASSUME NEW c \in Caller, SavesDue(c)
      PROVE  CopyInv'
  <2>1. CASE crossed'
    BY <2>1, <1>8
    DEF SavesDue, Leaves, boundVars, retryVars, ghostVars, CopyInv
  <2>2. CASE ~ crossed'
    <3>1. ~ crossed /\ OneCopy /\ \A d \in Caller : Current(d)
      BY <1>8, <2>2
      DEF SavesDue, Leaves, boundVars, retryVars, ghostVars, CopyInv
    <3>2. OneCopy'
      BY <1>8, <2>2, <3>1, EventTypes, ReactorAssumption
      DEF SavesDue, Leaves, OthersStay, boundVars, retryVars, ghostVars, OneCopy,
          TypeOK, CallTypes, HasCopy
    <3>3. Current(c)'
      BY <1>8, <2>2, <3>1, EventTypes, ReactorAssumption
      DEF SavesDue, Leaves, OthersStay, boundVars, retryVars, ghostVars, OneCopy,
          Current, TypeOK, CallTypes, HasCopy
    <3>4. ASSUME NEW d \in Caller \ {c} PROVE Current(d)'
      BY <3>4, <1>8, <2>2, <3>1, EventTypes, ReactorAssumption
      DEF SavesDue, Leaves, OthersStay, boundVars, retryVars, ghostVars, OneCopy,
          Current, TypeOK, CallTypes, HasCopy
    <3>5. QED
      BY <3>2, <3>3, <3>4, <2>2, <3>1
      DEF CopyInv
  <2>3. QED
    BY <2>1, <2>2
<1>9. ASSUME NEW c \in Caller, Saves(c)
      PROVE  CopyInv'
  <2>1. CASE crossed'
    BY <2>1, <1>9
    DEF Saves, Leaves, boundVars, retryVars, ghostVars, CopyInv
  <2>2. CASE ~ crossed'
    <3>1. ~ crossed /\ OneCopy /\ \A d \in Caller : Current(d)
      BY <1>9, <2>2
      DEF Saves, Leaves, boundVars, retryVars, ghostVars, CopyInv
    <3>2. OneCopy'
      BY <1>9, <2>2, <3>1, EventTypes, ReactorAssumption
      DEF Saves, Leaves, OthersStay, boundVars, retryVars, ghostVars, OneCopy,
          TypeOK, CallTypes, HasCopy
    <3>3. Current(c)'
      BY <1>9, <2>2, <3>1, EventTypes, ReactorAssumption
      DEF Saves, Leaves, OthersStay, boundVars, retryVars, ghostVars, OneCopy,
          Current, TypeOK, CallTypes, HasCopy
    <3>4. ASSUME NEW d \in Caller \ {c} PROVE Current(d)'
      BY <3>4, <1>9, <2>2, <3>1, EventTypes, ReactorAssumption
      DEF Saves, Leaves, OthersStay, boundVars, retryVars, ghostVars, OneCopy,
          Current, TypeOK, CallTypes, HasCopy
    <3>5. QED
      BY <3>2, <3>3, <3>4, <2>2, <3>1
      DEF CopyInv
  <2>3. QED
    BY <2>1, <2>2
<1>10. ASSUME NEW a \in Approval,
             NEW v \in Decision \cup {"disputed"}, Decide(a, v)
      PROVE  CopyInv'
  BY <1>10, ReactorAssumption, EventTypes
  DEF Decide, callVars, boundVars, retryVars, ghostVars, OneCopy, Current,
      TypeOK, CallTypes, HasCopy, CopyInv
<1>11. ASSUME NEW n \in Attempt, Ripens(n)
      PROVE  CopyInv'
  BY <1>11, ReactorAssumption, EventTypes
  DEF Ripens, callVars, boundVars, retryVars, ghostVars, OneCopy, Current,
      TypeOK, CallTypes, HasCopy, CopyInv
<1>12. CASE UNCHANGED vars
  BY <1>12
  DEF vars, callVars, boundVars, retryVars, ghostVars, OneCopy, Current,
      TypeOK, CallTypes, HasCopy, CopyInv
<1>13. QED
  BY <1>1, <1>2, <1>3, <1>4, <1>5, <1>6, <1>7, <1>8, <1>9, <1>10, <1>11, <1>12,
     Effects

\* A number is used, a schedule written and an approval asked for by the one
\* copy that is about; they are saved with it.
LEMMA LedgerStep ==
    ASSUME TypeOK, CallInv, CopyInv, LedgerInv, NothingTwice, [Next]_vars
    PROVE  (LedgerInv /\ NothingTwice)'
<1>1. ASSUME NEW c \in Caller, Begins(c)
      PROVE  (LedgerInv /\ NothingTwice)'
  <2>1. CASE crossed'
    BY <2>1, <1>1
    DEF Begins, boundVars, retryVars, ghostVars, LedgerInv, NothingTwice, CopyInv
  <2>2. CASE ~ crossed'
    <3>1. /\ ~ crossed /\ SchedulesCounted /\ RunsCounted /\ ApprovalsCounted
          /\ TriesCounted /\ NothingTwice /\ OneCopy /\ \A d \in Caller : Current(d)
      BY <1>1, <2>2
      DEF Begins, boundVars, retryVars, ghostVars, LedgerInv, NothingTwice, CopyInv
    <3>2. SchedulesCounted'
      BY <1>1, <2>2, <3>1, EventTypes, ReactorAssumption
      DEF Begins, OthersStay, boundVars, retryVars, ghostVars, SchedulesCounted,
          TypeOK, CallTypes, Number
    <3>3. RunsCounted'
      BY <1>1, <2>2, <3>1, EventTypes, ReactorAssumption
      DEF Begins, OthersStay, boundVars, retryVars, ghostVars, RunsCounted, TypeOK,
          CallTypes, Number
    <3>4. ApprovalsCounted'
      BY <1>1, <2>2, <3>1, EventTypes, ReactorAssumption
      DEF Begins, OthersStay, boundVars, retryVars, ghostVars, ApprovalsCounted,
          TypeOK, CallTypes, Number
    <3>5. TriesCounted'
      BY <1>1, <2>2, <3>1, EventTypes, ReactorAssumption
      DEF Begins, OthersStay, boundVars, retryVars, ghostVars, TriesCounted,
          TypeOK, CallTypes, Number
    <3>6. NothingTwice'
      BY <1>1, <2>2, <3>1, EventTypes, ReactorAssumption
      DEF Begins, OthersStay, boundVars, retryVars, ghostVars, NothingTwice,
          TypeOK, CallTypes, Number
    <3>7. QED
      BY <3>2, <3>3, <3>4, <3>5, <3>6, <2>2, <3>1
      DEF LedgerInv, NothingTwice, CopyInv
  <2>3. QED
    BY <2>1, <2>2
<1>2. ASSUME NEW c \in Caller, PassesOn(c)
      PROVE  (LedgerInv /\ NothingTwice)'
  <2>1. CASE crossed'
    BY <2>1, <1>2
    DEF PassesOn, boundVars, retryVars, ghostVars, LedgerInv, NothingTwice,
        CopyInv
  <2>2. CASE ~ crossed'
    <3>1. /\ ~ crossed /\ SchedulesCounted /\ RunsCounted /\ ApprovalsCounted
          /\ TriesCounted /\ NothingTwice /\ OneCopy /\ \A d \in Caller : Current(d)
      BY <1>2, <2>2
      DEF PassesOn, boundVars, retryVars, ghostVars, LedgerInv, NothingTwice,
          CopyInv
    <3>2. /\ \A d \in Caller : Number(d)' = Number(d)
          /\ \A d \in Caller : pc[d] = "save" => pc'[d] = "save"
          /\ pc[c] = "create" => pc'[c] = "save"
      BY <1>2, <2>2, <3>1, ReactorAssumption, EventTypes
      DEF PassesOn, boundVars, retryVars, ghostVars, OthersStay, Number
    <3>3. SchedulesCounted'
      BY <1>2, <2>2, <3>1, <3>2, EventTypes, ReactorAssumption, SMTT(30)
      DEF PassesOn, OthersStay, boundVars, retryVars, ghostVars, SchedulesCounted,
          TypeOK, CallTypes
    <3>4. RunsCounted'
      BY <1>2, <2>2, <3>1, <3>2, EventTypes, ReactorAssumption
      DEF PassesOn, OthersStay, boundVars, retryVars, ghostVars, RunsCounted,
          TypeOK, CallTypes, Number
    <3>5. ApprovalsCounted'
      BY <1>2, <2>2, <3>1, <3>2, EventTypes, ReactorAssumption
      DEF PassesOn, OthersStay, boundVars, retryVars, ghostVars, ApprovalsCounted,
          TypeOK, CallTypes, Number
    <3>6. TriesCounted'
      BY <1>2, <2>2, <3>1, <3>2, EventTypes, ReactorAssumption
      DEF PassesOn, OthersStay, boundVars, retryVars, ghostVars, TriesCounted,
          TypeOK, CallTypes, Number
    <3>7. NothingTwice'
      BY <1>2, <2>2, <3>1, <3>2, EventTypes, ReactorAssumption
      DEF PassesOn, OthersStay, boundVars, retryVars, ghostVars, NothingTwice,
          TypeOK, CallTypes, Number
    <3>8. QED
      BY <3>3, <3>4, <3>5, <3>6, <3>7, <2>2, <3>1
      DEF LedgerInv, NothingTwice, CopyInv
  <2>3. QED
    BY <2>1, <2>2
<1>3. ASSUME NEW c \in Caller, Takes(c)
      PROVE  (LedgerInv /\ NothingTwice)'
  <2>1. CASE crossed'
    BY <2>1, <1>3
    DEF Takes, Copies, boundVars, retryVars, ghostVars, LedgerInv, NothingTwice,
        CopyInv
  <2>2. CASE ~ crossed'
    <3>1. /\ ~ crossed /\ SchedulesCounted /\ RunsCounted /\ ApprovalsCounted
          /\ TriesCounted /\ NothingTwice /\ OneCopy /\ \A d \in Caller : Current(d)
      BY <1>3, <2>2
      DEF Takes, Copies, boundVars, retryVars, ghostVars, LedgerInv, NothingTwice,
          CopyInv
    <3>2. SchedulesCounted'
      BY <1>3, <2>2, <3>1, EventTypes, ReactorAssumption
      DEF Takes, Copies, OthersStay, boundVars, retryVars, ghostVars,
          SchedulesCounted, TypeOK, CallTypes, Number
    <3>3. RunsCounted'
      BY <1>3, <2>2, <3>1, EventTypes, ReactorAssumption
      DEF Takes, Copies, OthersStay, boundVars, retryVars, ghostVars, RunsCounted,
          TypeOK, CallTypes, Number
    <3>4. ApprovalsCounted'
      BY <1>3, <2>2, <3>1, EventTypes, ReactorAssumption
      DEF Takes, Copies, OthersStay, boundVars, retryVars, ghostVars,
          ApprovalsCounted, TypeOK, CallTypes, Number
    <3>5. TriesCounted'
      BY <1>3, <2>2, <3>1, EventTypes, ReactorAssumption
      DEF Takes, Copies, OthersStay, boundVars, retryVars, ghostVars, TriesCounted,
          TypeOK, CallTypes, Number
    <3>6. NothingTwice'
      BY <1>3, <2>2, <3>1, EventTypes, ReactorAssumption
      DEF Takes, Copies, OthersStay, boundVars, retryVars, ghostVars, NothingTwice,
          TypeOK, CallTypes, Number
    <3>7. QED
      BY <3>2, <3>3, <3>4, <3>5, <3>6, <2>2, <3>1
      DEF LedgerInv, NothingTwice, CopyInv
  <2>3. QED
    BY <2>1, <2>2
<1>4. ASSUME NEW c \in Caller, Returns(c)
      PROVE  (LedgerInv /\ NothingTwice)'
  <2>1. CASE crossed'
    BY <2>1, <1>4
    DEF Returns, Leaves, boundVars, retryVars, ghostVars, LedgerInv,
        NothingTwice, CopyInv
  <2>2. CASE ~ crossed'
    <3>1. /\ ~ crossed /\ SchedulesCounted /\ RunsCounted /\ ApprovalsCounted
          /\ TriesCounted /\ NothingTwice /\ OneCopy /\ \A d \in Caller : Current(d)
      BY <1>4, <2>2
      DEF Returns, Leaves, boundVars, retryVars, ghostVars, LedgerInv,
          NothingTwice, CopyInv
    <3>2. SchedulesCounted'
      BY <1>4, <2>2, <3>1, EventTypes, ReactorAssumption
      DEF Returns, Leaves, OthersStay, boundVars, retryVars, ghostVars,
          SchedulesCounted, TypeOK, CallTypes, Number
    <3>3. RunsCounted'
      BY <1>4, <2>2, <3>1, EventTypes, ReactorAssumption
      DEF Returns, Leaves, OthersStay, boundVars, retryVars, ghostVars,
          RunsCounted, TypeOK, CallTypes, Number
    <3>4. ApprovalsCounted'
      BY <1>4, <2>2, <3>1, EventTypes, ReactorAssumption
      DEF Returns, Leaves, OthersStay, boundVars, retryVars, ghostVars,
          ApprovalsCounted, TypeOK, CallTypes, Number
    <3>5. TriesCounted'
      BY <1>4, <2>2, <3>1, EventTypes, ReactorAssumption
      DEF Returns, Leaves, OthersStay, boundVars, retryVars, ghostVars,
          TriesCounted, TypeOK, CallTypes, Number
    <3>6. NothingTwice'
      BY <1>4, <2>2, <3>1, EventTypes, ReactorAssumption
      DEF Returns, Leaves, OthersStay, boundVars, retryVars, ghostVars,
          NothingTwice, TypeOK, CallTypes, Number
    <3>7. QED
      BY <3>2, <3>3, <3>4, <3>5, <3>6, <2>2, <3>1
      DEF LedgerInv, NothingTwice, CopyInv
  <2>3. QED
    BY <2>1, <2>2
<1>5. ASSUME NEW c \in Caller, Looks(c)
      PROVE  (LedgerInv /\ NothingTwice)'
  <2>1. CASE crossed'
    BY <2>1, <1>5
    DEF Looks, boundVars, retryVars, ghostVars, LedgerInv, NothingTwice, CopyInv
  <2>2. CASE ~ crossed'
    <3>1. /\ ~ crossed /\ SchedulesCounted /\ RunsCounted /\ ApprovalsCounted
          /\ TriesCounted /\ NothingTwice /\ OneCopy /\ \A d \in Caller : Current(d)
      BY <1>5, <2>2
      DEF Looks, boundVars, retryVars, ghostVars, LedgerInv, NothingTwice, CopyInv
    <3>2. SchedulesCounted'
      BY <1>5, <2>2, <3>1, EventTypes, ReactorAssumption
      DEF Looks, OthersStay, boundVars, retryVars, ghostVars, SchedulesCounted,
          TypeOK, CallTypes, Number
    <3>3. RunsCounted'
      BY <1>5, <2>2, <3>1, EventTypes, ReactorAssumption
      DEF Looks, OthersStay, boundVars, retryVars, ghostVars, RunsCounted, TypeOK,
          CallTypes, Number
    <3>4. ApprovalsCounted'
      BY <1>5, <2>2, <3>1, EventTypes, ReactorAssumption
      DEF Looks, OthersStay, boundVars, retryVars, ghostVars, ApprovalsCounted,
          TypeOK, CallTypes, Number
    <3>5. TriesCounted'
      BY <1>5, <2>2, <3>1, EventTypes, ReactorAssumption
      DEF Looks, OthersStay, boundVars, retryVars, ghostVars, TriesCounted, TypeOK,
          CallTypes, Number
    <3>6. NothingTwice'
      BY <1>5, <2>2, <3>1, EventTypes, ReactorAssumption
      DEF Looks, OthersStay, boundVars, retryVars, ghostVars, NothingTwice, TypeOK,
          CallTypes, Number
    <3>7. QED
      BY <3>2, <3>3, <3>4, <3>5, <3>6, <2>2, <3>1
      DEF LedgerInv, NothingTwice, CopyInv
  <2>3. QED
    BY <2>1, <2>2
<1>6. ASSUME NEW c \in Caller, Dispatches(c)
      PROVE  (LedgerInv /\ NothingTwice)'
  <2>1. CASE crossed'
    BY <2>1, <1>6
    DEF Dispatches, RetryRoute, boundVars, retryVars, ghostVars, LedgerInv,
        NothingTwice, CopyInv
  <2>2. CASE ~ crossed'
    <3>1. /\ ~ crossed /\ SchedulesCounted /\ RunsCounted /\ ApprovalsCounted
          /\ TriesCounted /\ NothingTwice /\ OneCopy /\ \A d \in Caller : Current(d)
      BY <1>6, <2>2
      DEF Dispatches, RetryRoute, boundVars, retryVars, ghostVars, LedgerInv,
          NothingTwice, CopyInv
    <3>2. /\ seen[c].attempts = event.attempts /\ seen[c].tried = event.tried
          /\ on[c] <= seen[c].attempts
          /\ \A d \in Caller : HasCopy(d) => d = c
      BY <1>6, <2>2, <3>1, ReactorAssumption, EventTypes
      DEF Dispatches, RetryRoute, boundVars, retryVars, ghostVars, OneCopy,
          Current, HasCopy
    <3>3. SchedulesCounted'
      BY <1>6, <2>2, <3>1, <3>2, EventTypes, ReactorAssumption
      DEF Dispatches, RetryRoute, OthersStay, boundVars, retryVars, ghostVars,
          SchedulesCounted, TypeOK, CallTypes, Number, OneCopy, Current, HasCopy,
          CallInv, CallFits, Dispatching
    <3>4. RunsCounted'
      BY <1>6, <2>2, <3>1, <3>2, EventTypes, ReactorAssumption
      DEF Dispatches, RetryRoute, OthersStay, boundVars, retryVars, ghostVars,
          RunsCounted, TypeOK, CallTypes, Number, OneCopy, Current, HasCopy,
          CallInv, CallFits, Dispatching
    <3>5. ApprovalsCounted'
      BY <1>6, <2>2, <3>1, <3>2, EventTypes, ReactorAssumption
      DEF Dispatches, RetryRoute, OthersStay, boundVars, retryVars, ghostVars,
          ApprovalsCounted, TypeOK, CallTypes, Number, OneCopy, Current, HasCopy,
          CallInv, CallFits, Dispatching
    <3>6. TriesCounted'
      BY <1>6, <2>2, <3>1, <3>2, EventTypes, ReactorAssumption
      DEF Dispatches, RetryRoute, OthersStay, boundVars, retryVars, ghostVars,
          TriesCounted, TypeOK, CallTypes, Number, OneCopy, Current, HasCopy,
          CallInv, CallFits, Dispatching
    <3>7. NothingTwice'
      BY <1>6, <2>2, <3>1, <3>2, EventTypes, ReactorAssumption
      DEF Dispatches, RetryRoute, OthersStay, boundVars, retryVars, ghostVars,
          NothingTwice, TypeOK, CallTypes, Number, OneCopy, Current, HasCopy,
          RunsCounted, CallInv, CallFits, Dispatching
    <3>8. QED
      BY <3>3, <3>4, <3>5, <3>6, <3>7, <2>2, <3>1
      DEF LedgerInv, NothingTwice, CopyInv
  <2>3. QED
    BY <2>1, <2>2
<1>7. ASSUME NEW c \in Caller, Asks(c)
      PROVE  (LedgerInv /\ NothingTwice)'
  <2>1. CASE crossed'
    BY <2>1, <1>7
    DEF Asks, boundVars, retryVars, ghostVars, LedgerInv, NothingTwice, CopyInv
  <2>2. CASE ~ crossed'
    <3>1. /\ ~ crossed /\ SchedulesCounted /\ RunsCounted /\ ApprovalsCounted
          /\ TriesCounted /\ NothingTwice /\ OneCopy /\ \A d \in Caller : Current(d)
      BY <1>7, <2>2
      DEF Asks, boundVars, retryVars, ghostVars, LedgerInv, NothingTwice, CopyInv
    <3>2. SchedulesCounted'
      BY <1>7, <2>2, <3>1, EventTypes, ReactorAssumption
      DEF Asks, OthersStay, boundVars, retryVars, ghostVars, SchedulesCounted,
          TypeOK, CallTypes, Number
    <3>3. RunsCounted'
      BY <1>7, <2>2, <3>1, EventTypes, ReactorAssumption
      DEF Asks, OthersStay, boundVars, retryVars, ghostVars, RunsCounted, TypeOK,
          CallTypes, Number
    <3>4. ApprovalsCounted'
      BY <1>7, <2>2, <3>1, EventTypes, ReactorAssumption
      DEF Asks, OthersStay, boundVars, retryVars, ghostVars, ApprovalsCounted,
          TypeOK, CallTypes, Number, OneCopy, Current, HasCopy
    <3>5. TriesCounted'
      BY <1>7, <2>2, <3>1, EventTypes, ReactorAssumption
      DEF Asks, OthersStay, boundVars, retryVars, ghostVars, TriesCounted, TypeOK,
          CallTypes, Number
    <3>6. NothingTwice'
      BY <1>7, <2>2, <3>1, EventTypes, ReactorAssumption
      DEF Asks, OthersStay, boundVars, retryVars, ghostVars, NothingTwice, TypeOK,
          CallTypes, Number, OneCopy, Current, HasCopy, ApprovalsCounted
    <3>7. QED
      BY <3>2, <3>3, <3>4, <3>5, <3>6, <2>2, <3>1
      DEF LedgerInv, NothingTwice, CopyInv
  <2>3. QED
    BY <2>1, <2>2
<1>8. ASSUME NEW c \in Caller, SavesDue(c)
      PROVE  (LedgerInv /\ NothingTwice)'
  <2>1. CASE crossed'
    BY <2>1, <1>8
    DEF SavesDue, Leaves, boundVars, retryVars, ghostVars, LedgerInv,
        NothingTwice, CopyInv
  <2>2. CASE ~ crossed'
    <3>1. /\ ~ crossed /\ SchedulesCounted /\ RunsCounted /\ ApprovalsCounted
          /\ TriesCounted /\ NothingTwice /\ OneCopy /\ \A d \in Caller : Current(d)
      BY <1>8, <2>2
      DEF SavesDue, Leaves, boundVars, retryVars, ghostVars, LedgerInv,
          NothingTwice, CopyInv
    <3>2. /\ seen[c].attempts = event.attempts /\ seen[c].tried = event.tried
          /\ on[c] <= seen[c].attempts
          /\ \A d \in Caller : HasCopy(d) => d = c
      BY <1>8, <2>2, <3>1, ReactorAssumption, EventTypes
      DEF SavesDue, Leaves, boundVars, retryVars, ghostVars, OneCopy, Current,
          HasCopy
    <3>3. SchedulesCounted'
      BY <1>8, <2>2, <3>1, <3>2, EventTypes, ReactorAssumption
      DEF SavesDue, Leaves, OthersStay, boundVars, retryVars, ghostVars,
          SchedulesCounted, TypeOK, CallTypes, Number, OneCopy, Current, HasCopy
    <3>4. RunsCounted'
      BY <1>8, <2>2, <3>1, <3>2, EventTypes, ReactorAssumption
      DEF SavesDue, Leaves, OthersStay, boundVars, retryVars, ghostVars,
          RunsCounted, TypeOK, CallTypes, Number, OneCopy, Current, HasCopy
    <3>5. ApprovalsCounted'
      BY <1>8, <2>2, <3>1, <3>2, EventTypes, ReactorAssumption
      DEF SavesDue, Leaves, OthersStay, boundVars, retryVars, ghostVars,
          ApprovalsCounted, TypeOK, CallTypes, Number, OneCopy, Current, HasCopy
    <3>6. TriesCounted'
      BY <1>8, <2>2, <3>1, <3>2, EventTypes, ReactorAssumption
      DEF SavesDue, Leaves, OthersStay, boundVars, retryVars, ghostVars,
          TriesCounted, TypeOK, CallTypes, Number, OneCopy, Current, HasCopy
    <3>7. NothingTwice'
      BY <1>8, <2>2, <3>1, <3>2, EventTypes, ReactorAssumption
      DEF SavesDue, Leaves, OthersStay, boundVars, retryVars, ghostVars,
          NothingTwice, TypeOK, CallTypes, Number
    <3>8. QED
      BY <3>3, <3>4, <3>5, <3>6, <3>7, <2>2, <3>1
      DEF LedgerInv, NothingTwice, CopyInv
  <2>3. QED
    BY <2>1, <2>2
<1>9. ASSUME NEW c \in Caller, Saves(c)
      PROVE  (LedgerInv /\ NothingTwice)'
  <2>1. CASE crossed'
    BY <2>1, <1>9
    DEF Saves, Leaves, boundVars, retryVars, ghostVars, LedgerInv, NothingTwice,
        CopyInv
  <2>2. CASE ~ crossed'
    <3>1. /\ ~ crossed /\ SchedulesCounted /\ RunsCounted /\ ApprovalsCounted
          /\ TriesCounted /\ NothingTwice /\ OneCopy /\ \A d \in Caller : Current(d)
      BY <1>9, <2>2
      DEF Saves, Leaves, boundVars, retryVars, ghostVars, LedgerInv, NothingTwice,
          CopyInv
    <3>2. /\ seen[c].attempts = event.attempts /\ seen[c].tried = event.tried
          /\ on[c] <= seen[c].attempts
          /\ \A d \in Caller : HasCopy(d) => d = c
      BY <1>9, <2>2, <3>1, ReactorAssumption, EventTypes
      DEF Saves, Leaves, boundVars, retryVars, ghostVars, OneCopy, Current, HasCopy
    <3>3. /\ Number(c) = event.attempts + 1 /\ event'.attempts = Number(c)
          /\ event.attempts \in Nat
      BY <1>9, <2>2, <3>1, <3>2, ReactorAssumption, EventTypes
      DEF Saves, Leaves, boundVars, retryVars, ghostVars, Number, TypeOK
    <3>4. /\ ran' = ran /\ ran \subseteq Attempt /\ retry' = retry
          /\ \A n \in Attempt : n <= event.attempts \/ n = Number(c) => n <= event'.attempts
      BY <1>9, <2>2, <3>1, <3>2, <3>3, ReactorAssumption, EventTypes
      DEF Saves, Leaves, boundVars, retryVars, ghostVars, TypeOK, Attempt
    <3>5. \A d \in Caller : pc[d] \in {"schedule", "create", "bury", "save"} =>
              Number(d) = Number(c)
      BY <1>9, <2>2, <3>1, <3>2, <3>3, <3>4, ReactorAssumption, EventTypes
      DEF Saves, Leaves, boundVars, retryVars, ghostVars, HasCopy
    <3>6. SchedulesCounted'
      BY <1>9, <2>2, <3>1, <3>2, <3>3, <3>4, <3>5, EventTypes, ReactorAssumption
      DEF boundVars, retryVars, ghostVars, SchedulesCounted
    <3>7. RunsCounted'
      BY <1>9, <2>2, <3>1, <3>2, <3>3, <3>4, <3>5, EventTypes, ReactorAssumption,
         SMTT(30)
      DEF boundVars, retryVars, ghostVars, RunsCounted
    <3>8. ApprovalsCounted'
      BY <1>9, <2>2, <3>1, <3>2, <3>3, <3>4, <3>5, EventTypes, ReactorAssumption
      DEF Saves, Leaves, OthersStay, boundVars, retryVars, ghostVars,
          ApprovalsCounted, TypeOK, CallTypes, Number, OneCopy, Current, HasCopy,
          CallInv, CallFits, Dispatching
    <3>9. TriesCounted'
      BY <1>9, <2>2, <3>1, <3>2, <3>3, <3>4, <3>5, EventTypes, ReactorAssumption
      DEF Saves, Leaves, OthersStay, boundVars, retryVars, ghostVars, TriesCounted,
          TypeOK, CallTypes, Number, OneCopy, Current, HasCopy, CallInv, CallFits,
          Dispatching, Attempt
    <3>10. NothingTwice'
      BY <1>9, <2>2, <3>1, <3>2, <3>3, <3>4, <3>5, EventTypes, ReactorAssumption
      DEF Saves, Leaves, OthersStay, boundVars, retryVars, ghostVars, NothingTwice,
          TypeOK, CallTypes, Number
    <3>11. QED
      BY <3>6, <3>7, <3>8, <3>9, <3>10, <2>2, <3>1
      DEF LedgerInv, NothingTwice, CopyInv
  <2>3. QED
    BY <2>1, <2>2
<1>10. ASSUME NEW a \in Approval,
             NEW v \in Decision \cup {"disputed"}, Decide(a, v)
      PROVE  (LedgerInv /\ NothingTwice)'
  BY <1>10, ReactorAssumption, EventTypes
  DEF Decide, callVars, boundVars, retryVars, ghostVars, SchedulesCounted,
      RunsCounted, ApprovalsCounted, TriesCounted, NothingTwice, TypeOK,
      CallTypes, Number, LedgerInv, CopyInv
<1>11. ASSUME NEW n \in Attempt, Ripens(n)
      PROVE  (LedgerInv /\ NothingTwice)'
  BY <1>11, ReactorAssumption, EventTypes
  DEF Ripens, callVars, boundVars, retryVars, ghostVars, SchedulesCounted,
      RunsCounted, ApprovalsCounted, TriesCounted, NothingTwice, TypeOK,
      CallTypes, Number, LedgerInv, CopyInv
<1>12. CASE UNCHANGED vars
  BY <1>12
  DEF vars, callVars, boundVars, retryVars, ghostVars, SchedulesCounted,
      RunsCounted, ApprovalsCounted, TriesCounted, NothingTwice, TypeOK,
      CallTypes, Number, LedgerInv, CopyInv
<1>13. QED
  BY <1>1, <1>2, <1>3, <1>4, <1>5, <1>6, <1>7, <1>8, <1>9, <1>10, <1>11, <1>12,
     Effects

-----------------------------------------------------------------------------
(* What holds of every behaviour *)

\* The invariant holds at first and is kept by every step.
LEMMA Inductive == Spec => []Inv
<1>1. Init => Inv
  <2>1. ASSUME Init
        PROVE  TypeOK
    <3>1. \A a \in Approval \cup {NoApproval} : NewEvent(a) \in Event
      BY ReactorAssumption DEF NewEvent, Event, Result
    <3>2. class \in Class /\ engine \in Engine /\ limit \in 0..10 /\ event \in Event
      BY <2>1, <3>1, ReactorAssumption DEF Init
    <3>3. retry \in [Attempt -> {"absent", "scheduled", "due", "attempted"}]
          /\ verdict \in [Approval -> Verdict]
      BY <2>1 DEF Init, Verdict, Decision
    <3>4. seen \in [Caller -> Event] /\ result \in [Caller -> Result]
      BY <2>1, <3>1 DEF Init, Result
    <3>5. on \in [Caller -> 0..MaxAttempts] /\ faults \in 0..MaxFaults
      BY <2>1, ReactorAssumption DEF Init
    <3>6. QED
      BY <2>1, <3>2, <3>3, <3>4, <3>5 DEF Init, TypeOK
  <2>2. ASSUME Init
        PROVE  /\ \A c \in Caller : pc[c] = "idle" /\ on[c] = 0 /\ seen[c] = NewEvent(NoApproval)
               /\ event.outcome = "none" /\ event.attempts = 0 /\ event.tried = 0
               /\ ran = {} /\ ~ again /\ \A n \in Attempt : retry[n] = "absent"
               /\ \A a \in Approval \ Attached : verdict[a] = "absent"
               /\ NewEvent(NoApproval).outcome = "none"
    BY <2>2 DEF Init, NewEvent, Attempt
  <2>3. ASSUME Init
        PROVE  CallInv /\ RouteInv /\ LeaveInv
    BY <2>2, <2>3
    DEF CallInv, CallFits, RouteInv, CallRouted, Routed, LeaveInv, Dispatching
  <2>4. ASSUME Init
        PROVE  CopyInv /\ LedgerInv /\ NothingTwice
    BY <2>2, <2>4
    DEF CopyInv, OneCopy, Current, HasCopy, LedgerInv, SchedulesCounted, RunsCounted,
        ApprovalsCounted, TriesCounted, NothingTwice
  <2>5. ASSUME Init
        PROVE  UnroutedInv
    BY <2>2, <2>5 DEF Init, UnroutedInv
  <2>6. QED
    BY <2>1, <2>3, <2>4, <2>5 DEF Inv
<1>2. Inv /\ [Next]_vars => Inv'
  BY TypeStep, CallStep, RouteStep, UnroutedStep, LeaveStep, CopyStep, LedgerStep DEF Inv
<1>3. QED
  BY <1>1, <1>2, PTL DEF Spec

\* Every value stays in its type, so that no attempt has a number past the bound.
THEOREM TypeCorrect == Spec => []TypeOK
  BY Inductive, PTL DEF Inv

\* Where retries are allowed a failure has its schedule or its deadletter, and where
\* none are it has neither, through every overlap and every call cut short; unless
\* there was one, that schedule is still to be tried.
THEOREM FailuresAreRouted == Spec => []FailureIsRouted
<1>1. Inv => FailureIsRouted
  BY EventTypes, ReactorAssumption
  DEF Inv, TypeOK, RouteInv, Routed, UnroutedInv, LedgerInv, TriesCounted, FailureIsRouted
<1>2. QED
  BY Inductive, <1>1, PTL

\* Unless calls crossed, no number is used for two executions and one approval
\* at most is asked for.
THEOREM NothingRunsTwice == Spec => []NothingTwice
  BY Inductive, PTL DEF Inv

\* Nothing runs that was blocked, or without a request that was approved or disputed.
THEOREM RunsAreApproved == Spec => []RunIsApproved
<1>1. Inv => RunIsApproved
  BY DEF Inv, LeaveInv, Cleared, RunIsApproved
<1>2. QED
  BY Inductive, <1>1, PTL

-----------------------------------------------------------------------------
(* Dispatches use requests for approval as ApprovalGate says. *)

\* What ApprovalGate sees.
Payloads   == [a \in Approval |-> IF verdict[a] = "absent" THEN "nothing" ELSE "dispatch"]
UsingOf(c) == IF Relies(c) THEN seen[c].approval ELSE NoApproval
WantsOf(c) == IF Relies(c) THEN "dispatch" ELSE "nothing"
FoundOf(c) == IF Relies(c) /\ pc[c] # "look" THEN "approved" ELSE "none"
Running    == {c \in Caller : Relies(c) /\ pc[c] \notin {"look", "run"}}
Using      == [c \in Caller |-> UsingOf(c)]
Wants      == [c \in Caller |-> WantsOf(c)]
Found      == [c \in Caller |-> FoundOf(c)]
GateVars   == <<Payloads, verdict, Using, Wants, Found, Running>>

\* A request that the record names, or a copy of it, was asked for; and a call that
\* was let through by a request names it.
NamedInv ==
    /\ event.approval # NoApproval => verdict[event.approval] # "absent"
    /\ \A c \in Caller : HasCopy(c) /\ seen[c].approval # NoApproval =>
                             verdict[seen[c].approval] # "absent"
    /\ \A c \in Caller : Relies(c) => seen[c].approval # NoApproval

\* A request that was asked for is never unasked.
LEMMA RequestsStay ==
  ASSUME TypeOK, CallInv, [Next]_vars
  PROVE  /\ class' = class
         /\ \A a \in Approval : verdict[a] # "absent" => verdict'[a] # "absent"
<1>1. ASSUME NEW c \in Caller,
             \/ Begins(c) \/ PassesOn(c) \/ Takes(c) \/ Returns(c) \/ Looks(c)
             \/ Dispatches(c) \/ SavesDue(c) \/ Saves(c)
      PROVE  verdict' = verdict /\ class' = class
  BY <1>1
  DEF Begins, PassesOn, Takes, Returns, Looks, Dispatches, SavesDue, Saves, boundVars
<1>2. ASSUME NEW c \in Caller, Asks(c)
      PROVE  /\ class' = class
             /\ \A a \in Approval : verdict[a] # "absent" => verdict'[a] # "absent"
  BY <1>2 DEF Asks, boundVars
<1>3. ASSUME NEW a \in Approval, NEW v \in Decision \cup {"disputed"}, Decide(a, v)
      PROVE  /\ class' = class
             /\ \A b \in Approval : verdict[b] # "absent" => verdict'[b] # "absent"
  BY <1>3 DEF Decide, Decision, boundVars, TypeOK
<1>4. ASSUME UNCHANGED vars \/ \E n \in Attempt : Ripens(n)
      PROVE  verdict' = verdict /\ class' = class
  BY <1>4 DEF vars, Ripens, boundVars
<1> QED
  BY <1>1, <1>2, <1>3, <1>4, Effects

\* A call changes how it relies on a request, not how others do.
LEMMA OthersRely ==
  ASSUME NEW c \in Caller, OthersStay(c), class' = class, NEW d \in Caller, d # c
  PROVE  /\ Relies(d)' <=> Relies(d)
         /\ UsingOf(d)' = UsingOf(d) /\ WantsOf(d)' = WantsOf(d) /\ FoundOf(d)' = FoundOf(d)
         /\ pc'[d] = pc[d]
         /\ HasCopy(d)' <=> HasCopy(d)
         /\ seen'[d] = seen[d]
BY DEF OthersStay, Relies, UsingOf, WantsOf, FoundOf, HasCopy

\* Every step keeps it: a request is named after it was asked for.
LEMMA NamedStep ==
  ASSUME Inv, NamedInv, [Next]_vars
  PROVE  NamedInv'
<1>1. TypeOK /\ CallInv /\ CallTypes
  BY DEF Inv, TypeOK, CallTypes
<1>2. /\ class' = class
      /\ \A a \in Approval : verdict[a] # "absent" => verdict'[a] # "absent"
  BY <1>1, RequestsStay
<1>3. /\ event.approval \in Approval \cup {NoApproval}
      /\ \A c \in Caller : seen[c].approval \in Approval \cup {NoApproval}
  BY <1>1, EventTypes DEF TypeOK
<1>4. ASSUME NEW c \in Caller, OthersStay(c), NEW d \in Caller \ {c}
      PROVE  /\ HasCopy(d)' /\ seen'[d].approval # NoApproval => verdict'[seen'[d].approval] # "absent"
             /\ Relies(d)' => seen'[d].approval # NoApproval
  BY <1>2, <1>3, <1>4, OthersRely DEF NamedInv
<1>5. event' = event => (event'.approval # NoApproval => verdict'[event'.approval] # "absent")
  BY <1>2, <1>3 DEF NamedInv
<1>6. ASSUME NEW c \in Caller, Begins(c)
      PROVE  NamedInv'
  <2>1. ~ HasCopy(c)' /\ ~ Relies(c)' /\ event' = event /\ OthersStay(c)
    BY <1>6 DEF Begins, HasCopy, Relies
  <2> QED
    BY <1>4, <1>5, <2>1 DEF NamedInv
<1>7. ASSUME NEW c \in Caller, PassesOn(c)
      PROVE  NamedInv'
  <2>1. /\ HasCopy(c)' => HasCopy(c)
        /\ Relies(c)' => Relies(c)
        /\ seen'[c] = seen[c] /\ event' = event /\ OthersStay(c)
    BY <1>2, <1>7 DEF PassesOn, HasCopy, Relies
  <2> QED
    BY <1>2, <1>3, <1>4, <1>5, <2>1 DEF NamedInv
<1>8. ASSUME NEW c \in Caller, Takes(c)
      PROVE  NamedInv'
  <2>1. /\ Relies(c)' => seen'[c].approval # NoApproval
        /\ seen'[c] = event /\ event' = event /\ OthersStay(c)
    BY <1>8 DEF Takes, Copies, Relies
  <2> QED
    BY <1>4, <1>5, <2>1 DEF NamedInv
<1>9. ASSUME NEW c \in Caller, Returns(c)
      PROVE  NamedInv'
  <2>1. ~ HasCopy(c)' /\ ~ Relies(c)' /\ event' = event /\ OthersStay(c)
    BY <1>9 DEF Returns, Leaves, HasCopy, Relies
  <2> QED
    BY <1>4, <1>5, <2>1 DEF NamedInv
<1>10. ASSUME NEW c \in Caller, Looks(c)
       PROVE  NamedInv'
  <2>1. /\ HasCopy(c)
        /\ seen'[c] = seen[c] /\ event' = event /\ OthersStay(c)
    BY <1>10 DEF Looks, HasCopy
  <2>2. Relies(c)' => seen[c].approval # NoApproval
    BY <1>2, <1>10 DEF Looks, Relies, Allowed, Readings, Decision
  <2> QED
    BY <1>2, <1>3, <1>4, <1>5, <2>1, <2>2 DEF NamedInv
<1>11. ASSUME NEW c \in Caller, Dispatches(c)
       PROVE  NamedInv'
  <2>1. /\ HasCopy(c)
        /\ Relies(c)' => Relies(c)
        /\ seen'[c] = seen[c] /\ event' = event /\ OthersStay(c)
    BY <1>2, <1>11 DEF Dispatches, HasCopy, Relies, RetryRoute
  <2> QED
    BY <1>2, <1>3, <1>4, <1>5, <2>1 DEF NamedInv
<1>12. ASSUME NEW c \in Caller, Asks(c)
       PROVE  NamedInv'
  <2>1. event' = event /\ OthersStay(c) /\ HasCopy(c)
    BY <1>12 DEF Asks, HasCopy
  <2>2. ~ Relies(c)'
    BY <1>1, <1>12 DEF Asks, Relies, CallInv, CallFits
  <2>3. seen'[c].approval # NoApproval => verdict'[seen'[c].approval] # "absent"
    BY <1>2, <1>3, <1>12, <2>1 DEF Asks, NamedInv
  <2> QED
    BY <1>4, <1>5, <2>1, <2>2, <2>3 DEF NamedInv
<1>13. ASSUME NEW c \in Caller, SavesDue(c) \/ Saves(c)
       PROVE  NamedInv'
  <2>1. /\ ~ HasCopy(c)' /\ ~ Relies(c)' /\ HasCopy(c) /\ OthersStay(c)
        /\ event'.approval = seen[c].approval
    BY <1>13 DEF SavesDue, Saves, Leaves, HasCopy, Relies
  <2>2. event'.approval # NoApproval => verdict'[event'.approval] # "absent"
    BY <1>2, <1>3, <2>1 DEF NamedInv
  <2> QED
    BY <1>4, <2>1, <2>2 DEF NamedInv
<1>14. ASSUME UNCHANGED <<event, callVars>>
       PROVE  NamedInv'
  <2>1. \A c \in Caller : /\ HasCopy(c)' <=> HasCopy(c)
                          /\ Relies(c)' <=> Relies(c)
                          /\ seen'[c] = seen[c]
    BY <1>2, <1>14 DEF callVars, HasCopy, Relies
  <2> QED
    BY <1>2, <1>3, <1>5, <1>14, <2>1 DEF NamedInv
<1> QED
  BY <1>1, <1>6, <1>7, <1>8, <1>9, <1>10, <1>11, <1>12, <1>13, <1>14, Effects
  DEF Decide, Ripens, vars

\* What a call does to how it relies on a request is all that the gate sees of it.
LEMMA CallsRely ==
  ASSUME NEW c \in Caller, OthersStay(c), class' = class
  PROVE  /\ Using' = [Using EXCEPT ![c] = UsingOf(c)']
         /\ Wants' = [Wants EXCEPT ![c] = WantsOf(c)']
         /\ Found' = [Found EXCEPT ![c] = FoundOf(c)']
         /\ Running' = IF Relies(c)' /\ pc'[c] \notin {"look", "run"}
                       THEN Running \cup {c} ELSE Running \ {c}
<1>1. Using' = [Using EXCEPT ![c] = UsingOf(c)']
  BY OthersRely DEF Using
<1>2. Wants' = [Wants EXCEPT ![c] = WantsOf(c)']
  BY OthersRely DEF Wants
<1>3. Found' = [Found EXCEPT ![c] = FoundOf(c)']
  BY OthersRely DEF Found
<1>4. \A d \in Caller \ {c} : d \in Running' <=> d \in Running
  BY OthersRely DEF Running
<1>5. c \in Running' <=> (Relies(c)' /\ pc'[c] \notin {"look", "run"})
  BY DEF Running
<1>6. Running \subseteq Caller /\ Running' \subseteq Caller
  BY DEF Running
<1> QED
  BY <1>1, <1>2, <1>3, <1>4, <1>5, <1>6

\* A call that relies on its request as before is not seen.
LEMMA Unseen ==
  ASSUME NEW c \in Caller, OthersStay(c), class' = class, verdict' = verdict,
         Relies(c)' <=> Relies(c),
         Relies(c) => /\ seen'[c].approval = seen[c].approval
                      /\ pc'[c] = pc[c] \/ {pc[c], pc'[c]} \cap {"look", "run"} = {}
  PROVE  UNCHANGED GateVars
<1>1. /\ UsingOf(c)' = UsingOf(c) /\ WantsOf(c)' = WantsOf(c) /\ FoundOf(c)' = FoundOf(c)
      /\ (Relies(c)' /\ pc'[c] \notin {"look", "run"}) <=> c \in Running
  BY DEF UsingOf, WantsOf, FoundOf, Running
<1>2. Running' = Running
  BY <1>1, CallsRely
<1>3. \A d \in Caller : /\ UsingOf(d)' = UsingOf(d) /\ WantsOf(d)' = WantsOf(d)
                        /\ FoundOf(d)' = FoundOf(d)
  BY <1>1, OthersRely
<1>4. Using' = Using /\ Wants' = Wants /\ Found' = Found
  BY <1>3 DEF Using, Wants, Found
<1> QED
  BY <1>2, <1>4 DEF GateVars, Payloads

\* A call that no longer relies on its request has left.
LEMMA Leaving ==
  ASSUME NamedInv, NEW c \in Caller, OthersStay(c), class' = class, verdict' = verdict,
         ~ Relies(c)'
  PROVE  [Gate!Next]_GateVars
<1>1. CASE ~ Relies(c)
  BY <1>1, Unseen
<1>2. CASE Relies(c)
  <2>1. Using[c] # NoApproval
    BY <1>2 DEF NamedInv, Using, UsingOf
  <2>2. /\ Using' = [Using EXCEPT ![c] = NoApproval]
        /\ Wants' = [Wants EXCEPT ![c] = "nothing"]
        /\ Found' = [Found EXCEPT ![c] = "none"]
        /\ Running' = Running \ {c}
    BY CallsRely DEF UsingOf, WantsOf, FoundOf
  <2>3. Payloads' = Payloads
    BY DEF Payloads
  <2>4. Gate!Leave(c)
    BY <2>1, <2>2, <2>3
    DEF Gate!Leave, Gate!records, Payloads, Using, UsingOf, Wants, WantsOf, Found, FoundOf, Running
  <2> QED
    BY <2>4 DEF Gate!Next
<1> QED
  BY <1>1, <1>2

\* The steps of a call, as the gate sees them.
LEMMA CallUsesGate ==
  ASSUME Inv, NamedInv, NEW c \in Caller,
         \/ Begins(c) \/ PassesOn(c) \/ Takes(c) \/ Returns(c) \/ Looks(c)
         \/ Dispatches(c) \/ Asks(c) \/ SavesDue(c) \/ Saves(c)
  PROVE  [Gate!Next]_GateVars
<1>1. TypeOK /\ CallInv /\ CallTypes
  BY DEF Inv, TypeOK, CallTypes
<1>2. /\ event.approval \in Approval \cup {NoApproval}
      /\ seen[c].approval \in Approval \cup {NoApproval}
  BY <1>1, EventTypes DEF TypeOK
<1>3. CASE Begins(c) \/ Returns(c) \/ SavesDue(c) \/ Saves(c)
  <2>1. OthersStay(c) /\ class' = class /\ verdict' = verdict /\ ~ Relies(c)'
    BY <1>3 DEF Begins, Returns, SavesDue, Saves, Leaves, Relies, boundVars
  <2> QED
    BY <2>1, Leaving
<1>4. CASE PassesOn(c)
  <2>1. /\ OthersStay(c) /\ class' = class /\ verdict' = verdict
        /\ Relies(c)' <=> Relies(c)
        /\ seen'[c] = seen[c]
        /\ {pc[c], pc'[c]} \cap {"look", "run"} = {}
    BY <1>4 DEF PassesOn, Relies, boundVars
  <2> QED
    BY <2>1, Unseen
<1>5. CASE Takes(c)
  <2>1. /\ OthersStay(c) /\ class' = class /\ verdict' = verdict /\ ~ Relies(c)
        /\ seen'[c] = event
    BY <1>5 DEF Takes, Copies, Relies, boundVars
  <2>2. CASE ~ Relies(c)'
    BY <2>1, <2>2, Leaving
  <2>3. CASE Relies(c)'
    <3>1. pc'[c] = "look" /\ event.approval # NoApproval
      BY <1>5, <2>1, <2>3 DEF Takes, Copies, Relies
    <3>2. PICK a \in Approval : a = event.approval
      BY <1>2, <3>1
    <3>3. /\ Using' = [Using EXCEPT ![c] = a]
          /\ Wants' = [Wants EXCEPT ![c] = "dispatch"]
          /\ Found' = [Found EXCEPT ![c] = "none"]
          /\ Running' = Running \ {c}
      BY <2>1, <2>3, <3>1, <3>2, CallsRely DEF UsingOf, WantsOf, FoundOf
    <3>4. c \notin Running /\ Using[c] = NoApproval /\ Found[c] = "none"
      BY <2>1 DEF Running, Using, UsingOf, Found, FoundOf
    <3>5. Found' = Found /\ Running' = Running /\ Payloads' = Payloads
      BY <2>1, <3>3, <3>4 DEF Found, Payloads
    <3>6. verdict[a] # "absent"
      BY <3>1, <3>2 DEF NamedInv
    <3>7. Gate!Resume(c, a, "dispatch")
      BY <2>1, <3>3, <3>4, <3>5, <3>6
      DEF Gate!Resume, Gate!records, Payloads, Using, UsingOf, Wants, WantsOf, Found, FoundOf,
          Running
    <3> QED
      BY <3>2, <3>7 DEF Gate!Next
  <2> QED
    BY <2>2, <2>3
<1>6. CASE Looks(c)
  <2>1. /\ OthersStay(c) /\ class' = class /\ verdict' = verdict
        /\ pc[c] = "look" /\ seen'[c] = seen[c]
    BY <1>6 DEF Looks, boundVars
  <2>2. CASE ~ Relies(c)'
    BY <2>1, <2>2, Leaving
  <2>3. CASE Relies(c)'
    <3>1. pc'[c] = "run" /\ class = "awaiting_approval"
      BY <1>6, <2>1, <2>3 DEF Looks, Relies
    <3>2. seen[c].approval # NoApproval /\ verdict[seen[c].approval] \in {"approved", "disputed"}
      BY <1>6, <3>1 DEF Looks, Allowed, Readings, Decision
    <3>3. PICK a \in Approval : a = seen[c].approval
      BY <1>2, <3>2
    <3>4. Relies(c)
      BY <2>1, <3>1, <3>2 DEF Relies
    <3>5. Using[c] = a /\ Wants[c] = "dispatch" /\ Found[c] = "none" /\ c \notin Running
      BY <2>1, <3>3, <3>4 DEF Using, UsingOf, Wants, WantsOf, Found, FoundOf, Running
    <3>6. /\ Using' = [Using EXCEPT ![c] = a]
          /\ Wants' = [Wants EXCEPT ![c] = "dispatch"]
          /\ Found' = [Found EXCEPT ![c] = "approved"]
          /\ Running' = Running \ {c}
      BY <2>1, <2>3, <3>1, <3>3, CallsRely DEF UsingOf, WantsOf, FoundOf
    <3>7. Using' = Using /\ Wants' = Wants /\ Running' = Running /\ Payloads' = Payloads
      BY <2>1, <3>5, <3>6 DEF Using, Wants, Payloads
    <3>8. "approved" \in Gate!Answers(a)
      BY <3>2, <3>3 DEF Gate!Answers, Gate!Settled, Gate!Decision
    <3>9. Gate!LookUp(c)
      BY <2>1, <3>2, <3>3, <3>5, <3>6, <3>7, <3>8
      DEF Gate!LookUp, Gate!records, Payloads, Using, UsingOf, Wants, WantsOf, Found, FoundOf,
          Running
    <3> QED
      BY <3>9 DEF Gate!Next
  <2> QED
    BY <2>2, <2>3
<1>7. CASE Dispatches(c)
  <2>1. /\ OthersStay(c) /\ class' = class /\ verdict' = verdict
        /\ pc[c] = "run" /\ seen'[c] = seen[c]
        /\ pc'[c] \in {"save", "schedule", "bury"}
    BY <1>7 DEF Dispatches, RetryRoute, boundVars
  <2>2. CASE ~ Relies(c)'
    BY <2>1, <2>2, Leaving
  <2>3. CASE Relies(c)'
    <3>1. Relies(c)
      BY <2>1, <2>3 DEF Relies
    <3>2. seen[c].approval # NoApproval
      BY <3>1 DEF NamedInv
    <3>3. PICK a \in Approval : a = seen[c].approval
      BY <1>2, <3>2
    <3>4. verdict[a] # "absent"
      BY <2>1, <3>2, <3>3 DEF NamedInv, HasCopy
    <3>5. Using[c] = a /\ Wants[c] = "dispatch" /\ Found[c] = "approved" /\ c \notin Running
      BY <2>1, <3>1, <3>3 DEF Using, UsingOf, Wants, WantsOf, Found, FoundOf, Running
    <3>6. /\ Using' = [Using EXCEPT ![c] = a]
          /\ Wants' = [Wants EXCEPT ![c] = "dispatch"]
          /\ Found' = [Found EXCEPT ![c] = "approved"]
          /\ Running' = Running \cup {c}
      BY <2>1, <2>3, <3>3, CallsRely DEF UsingOf, WantsOf, FoundOf
    <3>7. Using' = Using /\ Wants' = Wants /\ Found' = Found /\ Payloads' = Payloads
      BY <2>1, <3>5, <3>6 DEF Using, Wants, Found, Payloads
    <3>8. Payloads[a] = "dispatch"
      BY <3>4 DEF Payloads
    <3>9. Gate!Begin(c)
      BY <2>1, <3>5, <3>6, <3>7, <3>8
      DEF Gate!Begin, Gate!records, Payloads, Using, UsingOf, Wants, WantsOf, Found, FoundOf,
          Running
    <3> QED
      BY <3>9 DEF Gate!Next
  <2> QED
    BY <2>2, <2>3
<1>8. CASE Asks(c)
  <2>1. OthersStay(c) /\ class' = class /\ ~ Relies(c) /\ ~ Relies(c)'
    BY <1>1, <1>8 DEF Asks, Relies, boundVars, CallInv, CallFits
  <2>2. CASE verdict' = verdict
    BY <2>1, <2>2, Leaving
  <2>3. CASE verdict' # verdict
    <3>1. PICK a \in Approval :
             /\ verdict[a] = "absent" /\ verdict'[a] = "pending"
             /\ \A b \in Approval \ {a} : verdict'[b] = verdict[b]
      BY <1>8, <2>3 DEF Asks
    <3>2. verdict' = [verdict EXCEPT ![a] = "pending"]
      BY <1>1, <1>8, <3>1 DEF Asks, TypeOK
    <3>3. Payloads[a] = "nothing" /\ Payloads' = [Payloads EXCEPT ![a] = "dispatch"]
      BY <3>1 DEF Payloads
    <3>4. c \notin Running /\ Using[c] = NoApproval /\ Wants[c] = "nothing" /\ Found[c] = "none"
      BY <2>1 DEF Running, Using, UsingOf, Wants, WantsOf, Found, FoundOf
    <3>5. /\ Using' = [Using EXCEPT ![c] = NoApproval]
          /\ Wants' = [Wants EXCEPT ![c] = "nothing"]
          /\ Found' = [Found EXCEPT ![c] = "none"]
          /\ Running' = Running \ {c}
      BY <2>1, CallsRely DEF UsingOf, WantsOf, FoundOf
    <3>6. UNCHANGED <<Using, Wants, Found, Running>>
      BY <3>4, <3>5 DEF Using, Wants, Found
    <3>7. Gate!NewRequest(a, "dispatch") /\ UNCHANGED Gate!consumer
      BY <3>2, <3>3, <3>6
      DEF Gate!NewRequest, Gate!consumer, Payloads, Using, UsingOf, Wants, WantsOf, Found,
          FoundOf, Running
    <3> QED
      BY <3>7 DEF Gate!Next
  <2> QED
    BY <2>2, <2>3
<1> QED
  BY <1>3, <1>4, <1>5, <1>6, <1>7, <1>8

\* A dispatch looks its request up, and runs, as ApprovalGate lets any caller, and
\* never for an older answer; for any event, callers, retries and faults.
THEOREM DispatchesUseGate == Spec => UsesGate
<1>1. Init => Gate!Init /\ NamedInv
  <2> SUFFICES ASSUME Init PROVE Gate!Init /\ NamedInv
    OBVIOUS
  <2>1. \A c \in Caller : ~ Relies(c) /\ ~ HasCopy(c)
    BY DEF Init, Relies, HasCopy
  <2>2. NamedInv
    BY <2>1, ReactorAssumption DEF Init, NewEvent, NamedInv
  <2>3. /\ Payloads \in [Approval -> {"dispatch"} \cup {"nothing"}]
        /\ verdict = [a \in Approval |-> IF Payloads[a] = "nothing" THEN "absent" ELSE "pending"]
    BY DEF Init, Payloads
  <2>4. /\ Using = [c \in Caller |-> NoApproval]
        /\ Wants = [c \in Caller |-> "nothing"]
        /\ Found = [c \in Caller |-> "none"]
        /\ Running = {}
    BY <2>1 DEF Using, UsingOf, Wants, WantsOf, Found, FoundOf, Running
  <2> QED
    BY <2>2, <2>3, <2>4
    DEF Gate!Init, Payloads, Using, UsingOf, Wants, WantsOf, Found, FoundOf, Running
<1>2. Inv /\ NamedInv /\ [Next]_vars => NamedInv'
  BY NamedStep
<1>3. ASSUME Inv, NamedInv, [Next]_vars
      PROVE  [Gate!Next]_GateVars
  <2>1. TypeOK /\ CallInv
    BY <1>3 DEF Inv
  <2>2. ASSUME NEW a \in Approval, NEW v \in Decision \cup {"disputed"}, Decide(a, v)
        PROVE  Gate!Next
    <3>1. /\ verdict[a] = "pending" /\ verdict' = [verdict EXCEPT ![a] = v]
          /\ UNCHANGED <<class, callVars>>
      BY <2>2 DEF Decide, boundVars
    <3>2. Payloads' = Payloads
      BY <2>1, <3>1 DEF Payloads, Decision, TypeOK
    <3>3. UNCHANGED <<Using, Wants, Found, Running>>
      BY <3>1 DEF callVars, Relies, Using, UsingOf, Wants, WantsOf, Found, FoundOf, Running
    <3>4. Gate!Decide(a, v)
      BY <3>1, <3>2, <3>3
      DEF Gate!Decide, Gate!consumer, Payloads, Using, UsingOf, Wants, WantsOf, Found,
          FoundOf, Running
    <3> QED
      BY <3>4 DEF Gate!Next, Gate!Decision, Decision
  <2>3. ASSUME UNCHANGED vars \/ \E n \in Attempt : Ripens(n)
        PROVE  UNCHANGED GateVars
    <3>1. UNCHANGED <<class, verdict, callVars>>
      BY <2>3 DEF vars, Ripens, boundVars
    <3> QED
      BY <3>1 DEF callVars, Relies, Using, UsingOf, Wants, WantsOf, Found, FoundOf, Running,
                  Payloads, GateVars
  <2> QED
    BY <1>3, <2>1, <2>2, <2>3, Effects, CallUsesGate
<1>4. Inv /\ NamedInv /\ [Next]_vars => [Gate!Next]_<<Gate!records, Gate!consumer>>
  BY <1>3
  DEF GateVars, Gate!records, Gate!consumer, Payloads, Using, UsingOf, Wants, WantsOf, Found,
      FoundOf, Running
<1> QED
  BY <1>1, <1>2, <1>4, Inductive, PTL DEF Spec, UsesGate, Gate!Spec

=============================================================================
