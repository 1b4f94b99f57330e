----------------------------- MODULE Deadletters -----------------------------
(***************************************************************************)
(* What becomes of a deadletter (reactor/deadletters.py), and how the      *)
(* record of its event follows (the record_deadletter_* functions of       *)
(* reactor/events.py).                                                     *)
(*                                                                         *)
(* A call reads the event's record, then reads the deadletter, checks its  *)
(* status, writes what belongs to the step (a delivery, its output, a      *)
(* recovery event), writes the deadletter, and writes the record with a    *)
(* copy of it.  All are JSON files, written whole; no lock is held, and a  *)
(* call may end between any two writes.                                    *)
(***************************************************************************)
EXTENDS Naturals

CONSTANTS
    Caller,        \* concurrent calls of the API
    Recovery,      \* ids of recovery events (fresh uuids)
    NoEvent,
    MaxOverlaps,   \* bound: calls that begin beside another
    MaxFaults      \* bound: calls that are cut short

ASSUME DeadletterAssumption ==
    /\ NoEvent \notin Recovery
    /\ MaxOverlaps \in Nat
    /\ MaxFaults \in Nat

Status   == {"queued", "reviewed", "resolved", "escalation_pending",
             "resolution_deferred", "handoff_recorded", "acknowledged",
             "attempted", "attempted_locally", "delivery_queued",
             "processor_handoff", "processor_completed", "sender_blocked",
             "recovery_requested", "recovery_dispatched"}
Delivery == {"absent", "queued", "processor_handoff", "processor_completed",
             "sender_blocked"}

\* The steps, the status each leads to, and those it may be taken in.  An
\* attempt through the local outbox, once ready, can be delivered; no other can.
To == [review       |-> "reviewed",
       resolve      |-> "resolved",
       escalate     |-> "escalation_pending",
       defer        |-> "resolution_deferred",
       handoff      |-> "handoff_recorded",
       acknowledge  |-> "acknowledged",
       attempt      |-> "attempted",
       attemptLocal |-> "attempted_locally",
       deliver      |-> "delivery_queued",
       process      |-> "processor_handoff",
       complete     |-> "processor_completed",
       send         |-> "sender_blocked",
       request      |-> "recovery_requested",
       settle       |-> "recovery_dispatched"]

Step == DOMAIN To

Resolvable == {"reviewed", "resolved", "escalation_pending", "resolution_deferred"}

From == [review       |-> Status,
         resolve      |-> Resolvable,
         escalate     |-> Resolvable,
         defer        |-> Resolvable,
         handoff      |-> {"escalation_pending"},
         acknowledge  |-> {"handoff_recorded"},
         attempt      |-> {"acknowledged"},
         attemptLocal |-> {"acknowledged"},
         deliver      |-> {"attempted_locally"},
         process      |-> {"delivery_queued"},
         complete     |-> {"processor_handoff"},
         send         |-> {"processor_completed"},
         request      |-> {"acknowledged", "attempted", "attempted_locally"},
         settle       |-> {"recovery_requested"}]

\* The steps that are asked for by the delivery, and the status they expect of it.
Processor == {"process", "complete", "send"}
Expected  == [process  |-> "queued",
              complete |-> "processor_handoff",
              send     |-> "processor_completed"]
Stored    == [deliver  |-> "queued",
              process  |-> "processor_handoff",
              complete |-> "processor_completed",
              send     |-> "sender_blocked"]

Item  == [status : Status, recovery : Recovery \cup {NoEvent}]
Event == [item     : Item,                       \* latest_deadletter_item
          recovery : Recovery \cup {NoEvent},    \* dispatch.recovery_event_id
          reviewed : BOOLEAN]                    \* latest_deadletter_review_receipt

VARIABLES
    item,       \* the deadletter
    delivery,   \* the status of its delivery in the outbox
    output,     \* whether the processor's output is there
    event,      \* the record of the event it is of
    enqueued,   \* the recovery events that were enqueued
    verified,   \* those with a verified dispatch
    pc,         \* pc[c]: where the call is
    step,       \* step[c]: what it is to do; "requeue" for a dispatch of the event
    seen,       \* seen[c]: its copy of the record
    parcel,     \* parcel[c]: the status of the delivery it read
    copy,       \* copy[c]: the deadletter as it read or wrote it
    about,      \* about[c]: the recovery event it is about
    requested,  \* ghost: the recovery events the deadletter named
    lost,       \* ghost: those whose request was cut short
    torn,       \* ghost: the deadletter was written, and the record is not yet
    overlaps,   \* the calls that began while another ran
    faults

fileVars  == <<item, delivery, output, event>>
callVars  == <<pc, step, seen, parcel, copy, about>>
ghostVars == <<requested, lost, torn>>
limitVars == <<overlaps, faults>>
vars == <<fileVars, enqueued, verified, callVars, ghostVars, limitVars>>

NewItem  == [status |-> "queued", recovery |-> NoEvent]
NewEvent == [item |-> NewItem, recovery |-> NoEvent, reviewed |-> FALSE]

\* The deadletter was queued, and the record saved with it (Reactor: Bury, Save).
Init ==
    /\ item = NewItem
    /\ delivery = "absent"
    /\ output = FALSE
    /\ event = NewEvent
    /\ enqueued = {}
    /\ verified = {}
    /\ pc = [c \in Caller |-> "idle"]
    /\ step = [c \in Caller |-> "requeue"]
    /\ seen = [c \in Caller |-> NewEvent]
    /\ parcel = [c \in Caller |-> "absent"]
    /\ copy = [c \in Caller |-> NewItem]
    /\ about = [c \in Caller |-> NoEvent]
    /\ requested = {}
    /\ lost = {}
    /\ overlaps = 0
    /\ torn = FALSE
    /\ faults = 0

Goto(c, label) == pc' = [pc EXCEPT ![c] = label]

\* The call returns, and its variables are no more.
Ends(c) ==
    /\ Goto(c, "idle")
    /\ step' = [step EXCEPT ![c] = "requeue"]
    /\ seen' = [seen EXCEPT ![c] = NewEvent]
    /\ parcel' = [parcel EXCEPT ![c] = "absent"]
    /\ copy' = [copy EXCEPT ![c] = NewItem]
    /\ about' = [about EXCEPT ![c] = NoEvent]

Begins(c, s, label) ==
    /\ pc[c] = "idle"
    /\ step' = [step EXCEPT ![c] = s]
    /\ Goto(c, label)
    /\ IF \A d \in Caller : pc[d] = "idle"
       THEN UNCHANGED overlaps
       ELSE overlaps < MaxOverlaps /\ overlaps' = overlaps + 1

-----------------------------------------------------------------------------
(* Calls *)

\* record_deadletter_*: the record is read.  (A review whose decision the record
\* has already returns here and changes nothing.)
Begin(c, s) ==
    /\ s \notin {"request", "settle"}
    /\ s \in Processor => delivery # "absent"
    /\ Begins(c, s, IF s \in Processor THEN "parcel" ELSE "item")
    /\ seen' = [seen EXCEPT ![c] = event]
    /\ UNCHANGED <<fileVars, enqueued, verified, parcel, copy, about, requested, lost, torn, faults>>

\* Mutant: the event is enqueued before anything is checked.
BeginRequestAny(c) ==
    /\ Begins(c, "request", "enqueue")
    /\ seen' = [seen EXCEPT ![c] = event]
    /\ UNCHANGED <<fileVars, enqueued, verified, parcel, copy, about, requested, lost, torn, faults>>

\* record_deadletter_recovery_request: the status must allow one.
BeginRequest(c) ==
    /\ item.status \in From.request
    /\ Begins(c, "request", "enqueue")
    /\ seen' = [seen EXCEPT ![c] = event]
    /\ UNCHANGED <<fileVars, enqueued, verified, parcel, copy, about, requested, lost, torn, faults>>

\* enqueue_event of the recovery event, with no retries.
Enqueue(c) ==
    /\ pc[c] = "enqueue"
    /\ \E r \in Recovery \ enqueued :
           /\ enqueued' = enqueued \cup {r}
           /\ about' = [about EXCEPT ![c] = r]
    /\ Goto(c, "item")
    /\ UNCHANGED <<fileVars, verified, step, seen, parcel, copy, ghostVars, limitVars>>

\* enqueue_event fails: the request is over (and so it is at the model's last id).
EnqueueFails(c) ==
    /\ pc[c] = "enqueue"
    /\ Ends(c)
    /\ UNCHANGED <<fileVars, enqueued, verified, ghostVars, limitVars>>

\* A dispatch of a recovery event was verified and is saved; it settles now.
Recover(c, r) ==
    /\ r \in enqueued
    /\ verified' = verified \cup {r}
    /\ Begins(c, "settle", "item")
    /\ about' = [about EXCEPT ![c] = r]
    /\ UNCHANGED <<fileVars, enqueued, seen, parcel, copy, requested, lost, torn, faults>>

\* The steps of the processor and the sender read the delivery first.
ReadDelivery(c) ==
    /\ pc[c] = "parcel"
    /\ parcel' = [parcel EXCEPT ![c] = delivery]
    /\ Goto(c, "item")
    /\ UNCHANGED <<fileVars, enqueued, verified, step, seen, copy, about, ghostVars, limitVars>>

-----------------------------------------------------------------------------
(* The deadletter is read *)

\* Mutant: a settlement does not ask for which recovery event was requested.
AdmittedAnyEvent(c) ==
    /\ item.status \in From[step[c]]
    /\ step[c] \in Processor => parcel[c] = Expected[step[c]]

Admitted(c) ==
    /\ item.status \in From[step[c]]
    /\ step[c] \in Processor => parcel[c] = Expected[step[c]]
    /\ step[c] = "settle" => about[c] = item.recovery

\* It is in the status the step leads to.  A review with another decision is a
\* new one all the same.
Already(c) == step[c] \in Step /\ item.status = To[step[c]]

\* The status allows the step.
Admit(c) ==
    /\ pc[c] = "item"
    /\ step[c] # "requeue"
    /\ Admitted(c)
    /\ ~ Already(c) \/ step[c] = "review"
    /\ copy' = [copy EXCEPT ![c] = item]
    /\ Goto(c, IF step[c] = "deliver" THEN "look"
               ELSE IF step[c] = "complete" THEN "output"
               ELSE IF step[c] \in Processor THEN "store"
               ELSE "write")
    /\ UNCHANGED <<fileVars, enqueued, verified, step, seen, parcel, about, ghostVars, limitVars>>

\* It does not, or there is nothing to do.
Refuse(c) ==
    /\ pc[c] = "item"
    /\ step[c] # "requeue"
    /\ Already(c) \/ ~ Admitted(c)
    /\ ~ (Already(c) /\ step[c] = "settle")
    /\ ~ (Already(c) /\ step[c] = "review" /\ ~ seen[c].reviewed)
    /\ Ends(c)
    /\ UNCHANGED <<fileVars, enqueued, verified, ghostVars, limitVars>>

\* A review that the record does not show, a settlement, and a dispatch of the
\* event that finds its deadletter: the record gets a copy of what there is.
Find(c) ==
    /\ pc[c] = "item"
    /\ \/ step[c] = "requeue"
       \/ Already(c) /\ step[c] = "settle"
       \/ Already(c) /\ step[c] = "review" /\ ~ seen[c].reviewed
    /\ copy' = [copy EXCEPT ![c] = item]
    /\ Goto(c, IF step[c] = "settle" THEN "reread" ELSE "record")
    /\ UNCHANGED <<fileVars, enqueued, verified, step, seen, parcel, about, ghostVars, limitVars>>

-----------------------------------------------------------------------------
(* The files of a delivery *)

\* record_external_escalation_delivery: an earlier delivery is taken over.
Look(c) ==
    /\ pc[c] = "look"
    /\ Goto(c, IF delivery = "absent" THEN "store" ELSE "write")
    /\ UNCHANGED <<fileVars, enqueued, verified, step, seen, parcel, copy, about, ghostVars, limitVars>>

\* Mutant: the output is left for later.
WriteOutputLater(c) ==
    /\ pc[c] = "output"
    /\ Goto(c, "store")
    /\ UNCHANGED <<fileVars, enqueued, verified, step, seen, parcel, copy, about, ghostVars, limitVars>>

\* The output of the processor, unless there is one.
WriteOutput(c) ==
    /\ pc[c] = "output"
    /\ output' = TRUE
    /\ Goto(c, "store")
    /\ UNCHANGED <<item, delivery, event, enqueued, verified, step, seen, parcel, copy, about,
                   ghostVars, limitVars>>

\* The delivery is written, ahead of the deadletter.
Store(c) ==
    /\ pc[c] = "store"
    /\ delivery' = Stored[step[c]]
    /\ Goto(c, "write")
    /\ UNCHANGED <<item, output, event, enqueued, verified, step, seen, parcel, copy, about,
                   ghostVars, limitVars>>

-----------------------------------------------------------------------------
(* The deadletter and the record are written *)

\* What a step makes of the deadletter.
Changed(c) ==
    [status   |-> To[step[c]],
     recovery |-> IF step[c] = "request" THEN about[c] ELSE copy[c].recovery]

WriteItem(c) ==
    /\ pc[c] = "write"
    /\ item' = Changed(c)
    /\ copy' = [copy EXCEPT ![c] = Changed(c)]
    /\ requested' = IF step[c] = "request" THEN requested \cup {about[c]} ELSE requested
    /\ torn' = TRUE
    /\ Goto(c, IF step[c] = "settle" THEN "reread" ELSE "record")
    /\ UNCHANGED <<delivery, output, event, enqueued, verified, step, seen, parcel, about,
                   lost, limitVars>>

\* _record_recovery_dispatch_settlement: the record is read only now, and left
\* alone if it names another recovery event.
Reread(c) ==
    /\ pc[c] = "reread"
    /\ \/ /\ event.recovery \in {NoEvent, about[c]}
          /\ seen' = [seen EXCEPT ![c] = event]
          /\ Goto(c, "record")
          /\ UNCHANGED <<step, parcel, copy, about>>
       \/ /\ event.recovery \notin {NoEvent, about[c]}
          /\ Ends(c)
    /\ UNCHANGED <<fileVars, enqueued, verified, ghostVars, limitVars>>

\* Mutant: the record keeps the deadletter it had.
WriteRecordStale(c) ==
    /\ pc[c] = "record"
    /\ event' = [seen[c] EXCEPT
                    !.recovery = IF step[c] \in {"request", "settle"} THEN about[c] ELSE @,
                    !.reviewed = @ \/ step[c] = "review"]
    /\ torn' = FALSE
    /\ Ends(c)
    /\ UNCHANGED <<item, delivery, output, enqueued, verified, requested, lost, limitVars>>

\* The whole record is written, with the deadletter as the call knows it.
WriteRecord(c) ==
    /\ pc[c] = "record"
    /\ event' = [item     |-> copy[c],
                 recovery |-> IF step[c] \in {"request", "settle"}
                              THEN about[c] ELSE seen[c].recovery,
                 reviewed |-> seen[c].reviewed \/ step[c] = "review"]
    /\ torn' = FALSE
    /\ Ends(c)
    /\ UNCHANGED <<item, delivery, output, enqueued, verified, requested, lost, limitVars>>

\* The call ends here: its process dies, or a write raises.
CutShort(c) ==
    /\ pc[c] # "idle"
    /\ faults < MaxFaults
    /\ faults' = faults + 1
    /\ lost' = IF step[c] = "request" THEN lost \cup {about[c]} ELSE lost
    /\ Ends(c)
    /\ UNCHANGED <<fileVars, enqueued, verified, requested, torn, overlaps>>

Call(c) ==
    \/ \E s \in Step \cup {"requeue"} : Begin(c, s)
    \/ BeginRequest(c) \/ Enqueue(c) \/ EnqueueFails(c)
    \/ \E r \in Recovery : Recover(c, r)
    \/ ReadDelivery(c) \/ Admit(c) \/ Refuse(c) \/ Find(c)
    \/ Look(c) \/ WriteOutput(c) \/ Store(c)
    \/ WriteItem(c) \/ Reread(c) \/ WriteRecord(c)
    \/ CutShort(c)

Next == \E c \in Caller : Call(c)

Spec == Init /\ [][Next]_vars

-----------------------------------------------------------------------------
(* Properties *)

TypeOK ==
    /\ item \in Item
    /\ delivery \in Delivery
    /\ output \in BOOLEAN
    /\ event \in Event
    /\ enqueued \subseteq Recovery
    /\ verified \subseteq enqueued
    /\ pc \in [Caller -> {"idle", "enqueue", "parcel", "item", "look", "output", "store",
                          "write", "reread", "record"}]
    /\ step \in [Caller -> Step \cup {"requeue"}]
    /\ seen \in [Caller -> Event]
    /\ parcel \in [Caller -> Delivery]
    /\ copy \in [Caller -> Item]
    /\ about \in [Caller -> Recovery \cup {NoEvent}]
    /\ requested \subseteq enqueued
    /\ lost \subseteq enqueued \cup {NoEvent}
    /\ overlaps \in 0..MaxOverlaps
    /\ torn \in BOOLEAN
    /\ faults \in 0..MaxFaults

\* A settled deadletter was recovered: the recovery event it names was dispatched
\* and verified, and one that waits for its recovery names an event that is
\* there.  Overlaps and calls cut short do not undo this, in the deadletter or in
\* the record (record_recovery_request, record_recovery_dispatch).
SettledByItsRun ==
    \A i \in {item, event.item} :
        /\ i.status = "recovery_requested" => i.recovery \in enqueued
        /\ i.status = "recovery_dispatched" => i.recovery \in verified

\* The delivery d has got at least as far as the status i says.
Ahead(i, d) ==
    /\ i = "delivery_queued"     => d # "absent"
    /\ i = "processor_handoff"   => d \notin {"absent", "queued"}
    /\ i = "processor_completed" => d \in {"processor_completed", "sender_blocked"}
    /\ i = "sender_blocked"      => d = "sender_blocked"

\* Unless calls overlapped, the delivery on disk is at least as far as the
\* deadletter says, whatever was cut short and whatever review took the
\* deadletter back; a processed one has its output, overlaps or not
\* (record_external_escalation_delivery*).
DeliveryIsAhead ==
    /\ overlaps = 0 => Ahead(item.status, delivery)
    /\ item.status \in {"processor_completed", "sender_blocked"} => output
    /\ delivery \in {"processor_completed", "sender_blocked"} => output

\* Unless calls overlapped, the record shows the deadletter as it is but for the
\* call that has just written it; what a call that was cut short left behind is
\* put right by the next one that writes the record.
TrailAgrees == overlaps = 0 /\ ~ torn => event.item = item

\* Unless calls overlapped, a recovery event that no deadletter named is that of a
\* request under way or cut short: none is enqueued for a request that is then
\* refused (record_deadletter_recovery_request enqueues before it records).
OrphansAreCutShort ==
    overlaps = 0 =>
        enqueued \subseteq requested \cup lost
                              \cup {about[c] : c \in {d \in Caller : step[d] = "request"}}

=============================================================================
