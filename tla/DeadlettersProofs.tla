-------------------------- MODULE DeadlettersProofs --------------------------
(***************************************************************************)
(* Proofs about Deadletters, for any number of calls, recovery events,     *)
(* overlaps and calls that are cut short.                                  *)
(***************************************************************************)
EXTENDS Deadletters, TLAPS

Place == {"idle", "enqueue", "parcel", "item", "look", "output", "store", "write",
          "reread", "record"}

\* What a deadletter says of its recovery is so.
Good(i) ==
    /\ i.status = "recovery_requested" => i.recovery \in enqueued
    /\ i.status = "recovery_dispatched" => i.recovery \in verified

\* Where a call is, and what it has by then.
CallFits(c) ==
    /\ pc[c] = "idle" => step[c] = "requeue" /\ about[c] = NoEvent
    /\ pc[c] = "enqueue" => step[c] = "request" /\ about[c] = NoEvent
    /\ step[c] = "request" /\ pc[c] # "enqueue" => about[c] \in enqueued
    /\ step[c] = "settle" => about[c] \in verified
    /\ pc[c] = "parcel" => step[c] \in Processor
    /\ pc[c] = "look" => step[c] = "deliver"
    /\ pc[c] = "output" => step[c] = "complete"
    /\ pc[c] = "store" => step[c] \in {"deliver", "process", "complete", "send"}
    /\ pc[c] = "write" => step[c] \in Step
    /\ pc[c] = "reread" => step[c] = "settle"
    /\ pc[c] = "write" /\ step[c] = "settle" => copy[c].recovery = about[c]
    /\ pc[c] \in {"store", "write"} /\ step[c] \in {"complete", "send"} => output
    /\ pc[c] \in {"record", "reread"} => Good(copy[c])

CallInv == \A c \in Caller : CallFits(c)

\* SettledByItsRun, and of DeliveryIsAhead what overlaps do not undo.
FilesInv ==
    /\ Good(item)
    /\ Good(event.item)
    /\ item.status \in {"processor_completed", "sender_blocked"} => output
    /\ delivery \in {"processor_completed", "sender_blocked"} => output

\* The one call there is has a current copy, and the status still allows its step.
CallSolo(c) ==
    /\ pc[c] \in {"look", "output", "store", "write", "record", "reread"} => copy[c] = item
    /\ pc[c] \in {"look", "output", "store", "write"} => item.status \in From[step[c]]
    /\ pc[c] = "item" /\ step[c] \in Processor => parcel[c] = delivery
    /\ pc[c] = "write" => Ahead(To[step[c]], delivery)
    /\ pc[c] \in {"enqueue", "item"} /\ step[c] = "request" => item.status \in From.request
    /\ pc[c] = "record" /\ step[c] = "request" => about[c] \in requested

Solo ==
    /\ \A c, d \in Caller : pc[c] # "idle" /\ pc[d] # "idle" => c = d
    /\ Ahead(item.status, delivery)
    /\ ~ torn => event.item = item
    /\ \A c \in Caller : CallSolo(c)

SoloInv == overlaps = 0 => Solo

\* The others are idle, and nothing is asked of them.
OthersSolo(c) ==
    /\ \A d \in Caller \ {c} : CallSolo(d)
    /\ \A d, e \in Caller : pc[d] # "idle" /\ pc[e] # "idle" => d = e

\* A recovery event was named by the deadletter, or its request was cut short, or
\* is under way.
Accounted(r) ==
    \/ r \in requested
    \/ r \in lost
    \/ \E c \in Caller : step[c] = "request" /\ about[c] = r

OrphanInv == overlaps = 0 => \A r \in enqueued : Accounted(r)

Inv == /\ TypeOK
       /\ CallInv
       /\ FilesInv
       /\ SoloInv
       /\ OrphanInv

-----------------------------------------------------------------------------
(* The tables of the steps *)

\* The steps there are.
LEMMA Steps ==
    Step = {"review", "resolve", "escalate", "defer", "handoff", "acknowledge", "attempt",
            "attemptLocal", "deliver", "process", "complete", "send", "request", "settle"}
  BY DEF Step, To

\* A step leads to a status, most of them to one of their own.
LEMMA ToTable ==
    \A s \in Step :
        /\ To[s] \in Status
        /\ To[s] = "recovery_requested" <=> s = "request"
        /\ To[s] = "recovery_dispatched" <=> s = "settle"
        /\ To[s] = "delivery_queued" <=> s = "deliver"
        /\ To[s] = "processor_handoff" <=> s = "process"
        /\ To[s] = "processor_completed" <=> s = "complete"
        /\ To[s] = "sender_blocked" <=> s = "send"
  BY Steps DEF To, Status

\* What the steps that write the delivery expect and leave.
LEMMA StoreTable ==
    /\ \A s \in {"deliver", "process", "complete", "send"} :
           Stored[s] \in Delivery \ {"absent"}
    /\ Stored["deliver"] = "queued" /\ Stored["process"] = "processor_handoff"
    /\ Stored["complete"] = "processor_completed" /\ Stored["send"] = "sender_blocked"
    /\ Expected["process"] = "queued" /\ Expected["complete"] = "processor_handoff"
    /\ Expected["send"] = "processor_completed"
  BY DEF Stored, Expected, Delivery

\* The statuses of the steps of the delivery and the recovery.
LEMMA FromTable ==
    /\ From["deliver"] = {"attempted_locally"}
    /\ From["process"] = {"delivery_queued"}
    /\ From["complete"] = {"processor_handoff"}
    /\ From["send"] = {"processor_completed"}
    /\ From["request"] = {"acknowledged", "attempted", "attempted_locally"}
    /\ From["settle"] = {"recovery_requested"}
  BY DEF From

\* A new deadletter and its record, typed.
LEMMA NewTypes ==
    NewItem \in Item /\ NewEvent \in Event /\ NewItem.status = "queued" /\ NewEvent.item = NewItem
  BY DEF NewItem, NewEvent, Item, Event, Status

\* What a deadletter and a record hold.
LEMMA FieldTypes ==
    /\ \A i \in Item : i.status \in Status /\ i.recovery \in Recovery \cup {NoEvent}
    /\ \A e \in Event : /\ e.item \in Item /\ e.recovery \in Recovery \cup {NoEvent}
                        /\ e.reviewed \in BOOLEAN
  BY DEF Item, Event

-----------------------------------------------------------------------------
(* How the steps move a call *)

\* The variables of the calls, typed.
CallTypes ==
    /\ pc \in [Caller -> Place]
    /\ step \in [Caller -> Step \cup {"requeue"}]
    /\ seen \in [Caller -> Event]
    /\ parcel \in [Caller -> Delivery]
    /\ copy \in [Caller -> Item]
    /\ about \in [Caller -> Recovery \cup {NoEvent}]

\* The others, typed.
FileTypes ==
    /\ item \in Item
    /\ delivery \in Delivery
    /\ output \in BOOLEAN
    /\ event \in Event
    /\ enqueued \subseteq Recovery
    /\ verified \subseteq enqueued
    /\ requested \subseteq enqueued
    /\ lost \subseteq enqueued \cup {NoEvent}
    /\ overlaps \in 0..MaxOverlaps
    /\ torn \in BOOLEAN
    /\ faults \in 0..MaxFaults

\* All calls but c are where they were, with what they had.
OthersStay(c) ==
    \A d \in Caller \ {c} :
        /\ pc'[d] = pc[d] /\ step'[d] = step[d] /\ seen'[d] = seen[d]
        /\ parcel'[d] = parcel[d] /\ copy'[d] = copy[d] /\ about'[d] = about[d]

\* And c has come to this.
Becomes(c, label, s, e, p, i, r) ==
    /\ CallTypes'
    /\ OthersStay(c)
    /\ pc'[c] = label /\ step'[c] = s /\ seen'[c] = e
    /\ parcel'[c] = p /\ copy'[c] = i /\ about'[c] = r

\* A call that returns forgets what it had.
LEMMA EndsMoves ==
    ASSUME CallTypes, NEW c \in Caller, Ends(c)
    PROVE  Becomes(c, "idle", "requeue", NewEvent, "absent", NewItem, NoEvent)
  BY NewTypes DEF Ends, Goto, CallTypes, Becomes, OthersStay, Place, Delivery

\* A call that goes on keeps what it had.
LEMMA GotoMoves ==
    ASSUME CallTypes, NEW c \in Caller, NEW label \in Place, Goto(c, label),
           UNCHANGED <<step, seen, parcel, copy, about>>
    PROVE  Becomes(c, label, step[c], seen[c], parcel[c], copy[c], about[c])
  BY DEF Goto, CallTypes, Becomes, OthersStay

\* A call begins with the record.
LEMMA BeginMoves ==
    ASSUME CallTypes, item \in Item, event \in Event, delivery \in Delivery,
           NEW c \in Caller, NEW s \in Step \cup {"requeue"}, Begin(c, s)
    PROVE  pc[c] = "idle" /\ Becomes(c, IF s \in Processor THEN "parcel" ELSE "item",
                               s, event, parcel[c], copy[c], about[c])
  BY DEF Begin, Begins, Goto, CallTypes, Becomes, OthersStay, Place

\* So does a request.
LEMMA BeginRequestMoves ==
    ASSUME CallTypes, item \in Item, event \in Event, delivery \in Delivery,
           NEW c \in Caller, BeginRequest(c)
    PROVE  pc[c] = "idle" /\ Becomes(c, "enqueue", "request", event, parcel[c], copy[c], about[c])
  BY Steps
  DEF BeginRequest, Begins, Goto, CallTypes, Becomes, OthersStay, Place

\* A request gets its recovery event.
LEMMA EnqueueMoves ==
    ASSUME CallTypes, item \in Item, event \in Event, delivery \in Delivery,
           NEW c \in Caller, Enqueue(c)
    PROVE  \E r \in Recovery \ enqueued :
               /\ enqueued' = enqueued \cup {r}
               /\ Becomes(c, "item", step[c], seen[c], parcel[c], copy[c], r)
  BY DEF Enqueue, Goto, CallTypes, Becomes, OthersStay, Place

\* Or it is over.
LEMMA EnqueueFailsMoves ==
    ASSUME CallTypes, item \in Item, event \in Event, delivery \in Delivery,
           NEW c \in Caller, EnqueueFails(c)
    PROVE  Becomes(c, "idle", "requeue", NewEvent, "absent", NewItem, NoEvent)
  BY EndsMoves
  DEF EnqueueFails

\* A settlement is about its recovery event.
LEMMA RecoverMoves ==
    ASSUME CallTypes, item \in Item, event \in Event, delivery \in Delivery,
           NEW c \in Caller, NEW r \in Recovery, Recover(c, r)
    PROVE  pc[c] = "idle" /\ Becomes(c, "item", "settle", seen[c], parcel[c], copy[c], r)
  BY Steps
  DEF Recover, Begins, Goto, CallTypes, Becomes, OthersStay, Place

\* The delivery is read.
LEMMA ReadDeliveryMoves ==
    ASSUME CallTypes, item \in Item, event \in Event, delivery \in Delivery,
           NEW c \in Caller, ReadDelivery(c)
    PROVE  Becomes(c, "item", step[c], seen[c], delivery, copy[c], about[c])
  BY DEF ReadDelivery, Goto, CallTypes, Becomes, OthersStay, Place

\* The deadletter is read, and the step goes to where it writes first.
LEMMA AdmitMoves ==
    ASSUME CallTypes, item \in Item, event \in Event, delivery \in Delivery,
           NEW c \in Caller, Admit(c)
    PROVE  Becomes(c, IF step[c] = "deliver" THEN "look"
                      ELSE IF step[c] = "complete" THEN "output"
                      ELSE IF step[c] \in Processor THEN "store"
                      ELSE "write",
                      step[c], seen[c], parcel[c], item, about[c])
  BY DEF Admit, Goto, CallTypes, Becomes, OthersStay, Place

\* The step is refused.
LEMMA RefuseMoves ==
    ASSUME CallTypes, item \in Item, event \in Event, delivery \in Delivery,
           NEW c \in Caller, Refuse(c)
    PROVE  Becomes(c, "idle", "requeue", NewEvent, "absent", NewItem, NoEvent)
  BY EndsMoves
  DEF Refuse

\* The deadletter is read for the record.
LEMMA FindMoves ==
    ASSUME CallTypes, item \in Item, event \in Event, delivery \in Delivery,
           NEW c \in Caller, Find(c)
    PROVE  Becomes(c, IF step[c] = "settle" THEN "reread" ELSE "record",
                      step[c], seen[c], parcel[c], item, about[c])
  BY DEF Find, Goto, CallTypes, Becomes, OthersStay, Place

\* An earlier delivery is found, or none.
LEMMA LookMoves ==
    ASSUME CallTypes, item \in Item, event \in Event, delivery \in Delivery,
           NEW c \in Caller, Look(c)
    PROVE  Becomes(c, IF delivery = "absent" THEN "store" ELSE "write",
                      step[c], seen[c], parcel[c], copy[c], about[c])
  BY GotoMoves
  DEF Look, Place

\* The output is written.
LEMMA WriteOutputMoves ==
    ASSUME CallTypes, item \in Item, event \in Event, delivery \in Delivery,
           NEW c \in Caller, WriteOutput(c)
    PROVE  Becomes(c, "store", step[c], seen[c], parcel[c], copy[c], about[c])
  BY GotoMoves
  DEF WriteOutput, Place

\* The delivery is written.
LEMMA StoreMoves ==
    ASSUME CallTypes, item \in Item, event \in Event, delivery \in Delivery,
           NEW c \in Caller, Store(c)
    PROVE  Becomes(c, "write", step[c], seen[c], parcel[c], copy[c], about[c])
  BY GotoMoves
  DEF Store, Place

\* The deadletter is written, and the call knows it so.
LEMMA WriteItemMoves ==
    ASSUME CallTypes, item \in Item, event \in Event, delivery \in Delivery,
           CallInv, NEW c \in Caller, WriteItem(c)
    PROVE  /\ Changed(c) \in Item
           /\ Becomes(c, IF step[c] = "settle" THEN "reread" ELSE "record",
                         step[c], seen[c], parcel[c], Changed(c), about[c])
<1>1. step[c] \in Step
  BY DEF WriteItem, CallInv, CallFits
<1>2. Changed(c) \in Item
  BY <1>1, ToTable, FieldTypes DEF Changed, Item, CallTypes
<1>3. QED
  BY <1>2
  DEF WriteItem, Goto, CallTypes, Becomes, OthersStay, Place

\* The record is read, or left alone.
LEMMA RereadMoves ==
    ASSUME CallTypes, item \in Item, event \in Event, delivery \in Delivery,
           NEW c \in Caller, Reread(c)
    PROVE  \/ Becomes(c, "record", step[c], event, parcel[c], copy[c], about[c])
           \/ Becomes(c, "idle", "requeue", NewEvent, "absent", NewItem, NoEvent)
<1>1. CASE Ends(c)
  BY <1>1, EndsMoves
<1>2. CASE ~ Ends(c)
  BY <1>2 DEF Reread, Goto, CallTypes, Becomes, OthersStay, Place
<1>3. QED
  BY <1>1, <1>2

\* The record is written, and the call returns.
LEMMA WriteRecordMoves ==
    ASSUME CallTypes, item \in Item, event \in Event, delivery \in Delivery,
           NEW c \in Caller, WriteRecord(c)
    PROVE  Becomes(c, "idle", "requeue", NewEvent, "absent", NewItem, NoEvent)
  BY EndsMoves
  DEF WriteRecord

\* The call is cut short.
LEMMA CutShortMoves ==
    ASSUME CallTypes, item \in Item, event \in Event, delivery \in Delivery,
           NEW c \in Caller, CutShort(c)
    PROVE  Becomes(c, "idle", "requeue", NewEvent, "absent", NewItem, NoEvent)
  BY EndsMoves
  DEF CutShort


-----------------------------------------------------------------------------
(* Each part of the invariant is preserved *)

\* A typed state has typed files and calls.
LEMMA Typed ==
    /\ TypeOK <=> CallTypes /\ FileTypes
    /\ TypeOK' <=> CallTypes' /\ FileTypes'
    /\ TypeOK => item \in Item /\ event \in Event /\ delivery \in Delivery
  BY DEF TypeOK, CallTypes, FileTypes, Place

\* What other calls are about stays so.
LEMMA FitsStays ==
    ASSUME CallInv, NEW c \in Caller, OthersStay(c),
           enqueued \subseteq enqueued', verified \subseteq verified', output => output'
    PROVE  \A d \in Caller \ {c} : CallFits(d)'
<1>1. ASSUME NEW d \in Caller \ {c}
      PROVE  CallFits(d)'
  <2>1. CallFits(d)
    BY DEF CallInv
  <2>2. /\ pc'[d] = pc[d] /\ step'[d] = step[d] /\ copy'[d] = copy[d] /\ about'[d] = about[d]
        /\ Good(copy[d]) => Good(copy[d])'
    BY DEF OthersStay, Good
  <2>3. QED
    BY <2>1, <2>2 DEF CallFits, Good
<1>2. QED
  BY <1>1

\* A call that is alone stays so, and there is nothing to say of the others.
LEMMA AloneStays ==
    ASSUME NEW c \in Caller, OthersStay(c), \A d \in Caller \ {c} : pc[d] = "idle"
    PROVE  OthersSolo(c)'
<1>1. \A d \in Caller \ {c} : pc'[d] = "idle"
  BY DEF OthersStay
<1>2. QED
  BY <1>1 DEF CallSolo, OthersSolo

\* The record that a call writes is typed.
LEMMA RecordTyped ==
    ASSUME TypeOK, NEW c \in Caller
    PROVE  [item     |-> copy[c],
            recovery |-> IF step[c] \in {"request", "settle"}
                         THEN about[c] ELSE seen[c].recovery,
            reviewed |-> seen[c].reviewed \/ step[c] = "review"] \in Event
<1>1. copy[c] \in Item /\ about[c] \in Recovery \cup {NoEvent} /\ seen[c] \in Event
  BY DEF TypeOK
<1>2. (seen[c].reviewed \/ step[c] = "review") \in BOOLEAN
  BY Zenon
<1>3. QED
  BY <1>1, <1>2, FieldTypes DEF Event

\* The variables keep their types.
LEMMA TypeStep ==
    ASSUME TypeOK, CallInv, [Next]_vars
    PROVE  TypeOK'
<1>1. ASSUME NEW c \in Caller, NEW s \in Step \cup {"requeue"}, Begin(c, s)
      PROVE  TypeOK'
  <2>1. CallTypes'
    BY <1>1, BeginMoves, Typed DEF Becomes
  <2>2. FileTypes'
    BY <1>1, BeginMoves, Typed, DeadletterAssumption
    DEF Begin, Begins, Becomes, OthersStay, fileVars, ghostVars, limitVars, FileTypes,
        TypeOK
  <2>3. QED
    BY <2>1, <2>2, Typed
<1>2. ASSUME NEW c \in Caller, BeginRequest(c)
      PROVE  TypeOK'
  <2>1. CallTypes'
    BY <1>2, BeginRequestMoves, Typed DEF Becomes
  <2>2. FileTypes'
    BY <1>2, BeginRequestMoves, Typed, DeadletterAssumption
    DEF BeginRequest, Begins, Becomes, OthersStay, fileVars, ghostVars, limitVars,
        FileTypes, TypeOK
  <2>3. QED
    BY <2>1, <2>2, Typed
<1>3. ASSUME NEW c \in Caller, Enqueue(c)
      PROVE  TypeOK'
  <2>1. CallTypes'
    BY <1>3, EnqueueMoves, Typed DEF Becomes
  <2>2. FileTypes'
    BY <1>3, EnqueueMoves, Typed
    DEF Enqueue, Becomes, OthersStay, fileVars, ghostVars, limitVars, FileTypes,
        TypeOK, CallInv, CallFits
  <2>3. QED
    BY <2>1, <2>2, Typed
<1>4. ASSUME NEW c \in Caller, EnqueueFails(c)
      PROVE  TypeOK'
  <2>1. CallTypes'
    BY <1>4, EnqueueFailsMoves, Typed DEF Becomes
  <2>2. FileTypes'
    BY <1>4, EnqueueFailsMoves, Typed
    DEF EnqueueFails, Becomes, OthersStay, fileVars, ghostVars, limitVars, FileTypes,
        TypeOK
  <2>3. QED
    BY <2>1, <2>2, Typed
<1>5. ASSUME NEW c \in Caller, NEW r \in Recovery, Recover(c, r)
      PROVE  TypeOK'
  <2>1. CallTypes'
    BY <1>5, RecoverMoves, Typed DEF Becomes
  <2>2. FileTypes'
    BY <1>5, RecoverMoves, Typed, DeadletterAssumption
    DEF Recover, Begins, Becomes, OthersStay, fileVars, ghostVars, limitVars,
        FileTypes, TypeOK, CallInv, CallFits
  <2>3. QED
    BY <2>1, <2>2, Typed
<1>6. ASSUME NEW c \in Caller, ReadDelivery(c)
      PROVE  TypeOK'
  <2>1. CallTypes'
    BY <1>6, ReadDeliveryMoves, Typed DEF Becomes
  <2>2. FileTypes'
    BY <1>6, ReadDeliveryMoves, Typed
    DEF ReadDelivery, Becomes, OthersStay, fileVars, ghostVars, limitVars, FileTypes,
        TypeOK
  <2>3. QED
    BY <2>1, <2>2, Typed
<1>7. ASSUME NEW c \in Caller, Admit(c)
      PROVE  TypeOK'
  <2>1. CallTypes'
    BY <1>7, AdmitMoves, Typed DEF Becomes
  <2>2. FileTypes'
    BY <1>7, AdmitMoves, Typed
    DEF Admit, Admitted, Already, Becomes, OthersStay, fileVars, ghostVars, limitVars,
        FileTypes, TypeOK
  <2>3. QED
    BY <2>1, <2>2, Typed
<1>8. ASSUME NEW c \in Caller, Refuse(c)
      PROVE  TypeOK'
  <2>1. CallTypes'
    BY <1>8, RefuseMoves, Typed DEF Becomes
  <2>2. FileTypes'
    BY <1>8, RefuseMoves, Typed
    DEF Refuse, Admitted, Already, Becomes, OthersStay, fileVars, ghostVars, limitVars,
        FileTypes, TypeOK
  <2>3. QED
    BY <2>1, <2>2, Typed
<1>9. ASSUME NEW c \in Caller, Find(c)
      PROVE  TypeOK'
  <2>1. CallTypes'
    BY <1>9, FindMoves, Typed DEF Becomes
  <2>2. FileTypes'
    BY <1>9, FindMoves, Typed
    DEF Find, Already, Becomes, OthersStay, fileVars, ghostVars, limitVars, FileTypes,
        TypeOK
  <2>3. QED
    BY <2>1, <2>2, Typed
<1>10. ASSUME NEW c \in Caller, Look(c)
      PROVE  TypeOK'
  <2>1. CallTypes'
    BY <1>10, LookMoves, Typed DEF Becomes
  <2>2. FileTypes'
    BY <1>10, LookMoves, Typed
    DEF Look, Becomes, OthersStay, fileVars, ghostVars, limitVars, FileTypes, TypeOK
  <2>3. QED
    BY <2>1, <2>2, Typed
<1>11. ASSUME NEW c \in Caller, WriteOutput(c)
      PROVE  TypeOK'
  <2>1. CallTypes'
    BY <1>11, WriteOutputMoves, Typed DEF Becomes
  <2>2. FileTypes'
    BY <1>11, WriteOutputMoves, Typed
    DEF WriteOutput, Becomes, OthersStay, fileVars, ghostVars, limitVars, FileTypes,
        TypeOK
  <2>3. QED
    BY <2>1, <2>2, Typed
<1>12. ASSUME NEW c \in Caller, Store(c)
      PROVE  TypeOK'
  <2>1. CallTypes'
    BY <1>12, StoreMoves, Typed, StoreTable DEF Becomes
  <2>2. FileTypes'
    BY <1>12, StoreMoves, Typed, StoreTable
    DEF Store, Becomes, OthersStay, fileVars, ghostVars, limitVars, FileTypes, TypeOK,
        CallInv, CallFits
  <2>3. QED
    BY <2>1, <2>2, Typed
<1>13. ASSUME NEW c \in Caller, WriteItem(c)
      PROVE  TypeOK'
  <2>1. CallTypes'
    BY <1>13, WriteItemMoves, Typed DEF Becomes
  <2>2. FileTypes'
    <3>1. Changed(c) \in Item /\ (step[c] = "request" => about[c] \in enqueued)
      BY <1>13, WriteItemMoves, Typed DEF WriteItem, CallInv, CallFits
    <3>2. QED
      BY <1>13, <3>1, Typed DEF WriteItem, FileTypes, limitVars
  <2>3. QED
    BY <2>1, <2>2, Typed
<1>14. ASSUME NEW c \in Caller, Reread(c)
      PROVE  TypeOK'
  <2>1. CallTypes'
    BY <1>14, RereadMoves, Typed DEF Becomes
  <2>2. FileTypes'
    BY <1>14, RereadMoves, Typed
    DEF Reread, Becomes, OthersStay, fileVars, ghostVars, limitVars, FileTypes, TypeOK
  <2>3. QED
    BY <2>1, <2>2, Typed
<1>15. ASSUME NEW c \in Caller, WriteRecord(c)
      PROVE  TypeOK'
  <2>1. CallTypes'
    BY <1>15, WriteRecordMoves, Typed DEF Becomes
  <2>2. FileTypes'
    BY <1>15, WriteRecordMoves, Typed, RecordTyped
    DEF WriteRecord, Becomes, OthersStay, fileVars, ghostVars, limitVars, FileTypes,
        TypeOK, CallInv, CallFits
  <2>3. QED
    BY <2>1, <2>2, Typed
<1>16. ASSUME NEW c \in Caller, CutShort(c)
      PROVE  TypeOK'
  <2>1. CallTypes'
    BY <1>16, CutShortMoves, Typed DEF Becomes
  <2>2. FileTypes'
    BY <1>16, CutShortMoves, Typed, DeadletterAssumption
    DEF CutShort, Becomes, OthersStay, fileVars, ghostVars, limitVars, FileTypes,
        TypeOK, CallInv, CallFits
  <2>3. QED
    BY <2>1, <2>2, Typed
<1>17. CASE UNCHANGED vars
  BY <1>17 DEF vars, callVars, fileVars, ghostVars, limitVars, FileTypes, TypeOK
<1>18. QED
  BY <1>1, <1>2, <1>3, <1>4, <1>5, <1>6, <1>7, <1>8, <1>9, <1>10, <1>11, <1>12, <1>13,
     <1>14, <1>15, <1>16, <1>17
  DEF Next, Call

\* A call goes from one place to the next.
LEMMA CallStep ==
    ASSUME TypeOK, CallInv, FilesInv, [Next]_vars
    PROVE  CallInv'
<1>1. ASSUME NEW c \in Caller, NEW s \in Step \cup {"requeue"}, Begin(c, s)
      PROVE  CallInv'
  <2>1. CallFits(c)'
    BY <1>1, BeginMoves, Typed, Steps
    DEF Begin, Begins, Becomes, OthersStay, fileVars, ghostVars, limitVars, CallFits,
        Good, CallTypes, CallInv, Processor
  <2>2. (\A d \in Caller \ {c} : CallFits(d))'
    BY <1>1, BeginMoves, Typed, FitsStays DEF Begin, Becomes, fileVars
  <2>3. QED
    BY <2>1, <2>2 DEF CallInv
<1>2. ASSUME NEW c \in Caller, BeginRequest(c)
      PROVE  CallInv'
  <2>1. CallFits(c)'
    BY <1>2, BeginRequestMoves, Typed
    DEF BeginRequest, Begins, Becomes, OthersStay, fileVars, ghostVars, limitVars,
        CallFits, Good, CallTypes, CallInv
  <2>2. (\A d \in Caller \ {c} : CallFits(d))'
    BY <1>2, BeginRequestMoves, Typed, FitsStays DEF BeginRequest, Becomes, fileVars
  <2>3. QED
    BY <2>1, <2>2 DEF CallInv
<1>3. ASSUME NEW c \in Caller, Enqueue(c)
      PROVE  CallInv'
  <2>1. CallFits(c)'
    BY <1>3, EnqueueMoves, Typed
    DEF Enqueue, Becomes, OthersStay, fileVars, ghostVars, limitVars, CallFits, Good,
        CallTypes, CallInv, FileTypes
  <2>2. (\A d \in Caller \ {c} : CallFits(d))'
    BY <1>3, EnqueueMoves, Typed, FitsStays DEF Enqueue, Becomes, fileVars
  <2>3. QED
    BY <2>1, <2>2 DEF CallInv
<1>4. ASSUME NEW c \in Caller, EnqueueFails(c)
      PROVE  CallInv'
  <2>1. CallFits(c)'
    BY <1>4, EnqueueFailsMoves, Typed
    DEF EnqueueFails, Becomes, OthersStay, fileVars, ghostVars, limitVars, CallFits,
        Good, CallTypes, CallInv
  <2>2. (\A d \in Caller \ {c} : CallFits(d))'
    BY <1>4, EnqueueFailsMoves, Typed, FitsStays DEF EnqueueFails, Becomes, fileVars
  <2>3. QED
    BY <2>1, <2>2 DEF CallInv
<1>5. ASSUME NEW c \in Caller, NEW r \in Recovery, Recover(c, r)
      PROVE  CallInv'
  <2>1. CallFits(c)'
    BY <1>5, RecoverMoves, Typed
    DEF Recover, Begins, Becomes, OthersStay, fileVars, ghostVars, limitVars, CallFits,
        Good, CallTypes, CallInv, FileTypes
  <2>2. (\A d \in Caller \ {c} : CallFits(d))'
    BY <1>5, RecoverMoves, Typed, FitsStays DEF Recover, Becomes, fileVars
  <2>3. QED
    BY <2>1, <2>2 DEF CallInv
<1>6. ASSUME NEW c \in Caller, ReadDelivery(c)
      PROVE  CallInv'
  <2>1. CallFits(c)'
    BY <1>6, ReadDeliveryMoves, Typed
    DEF ReadDelivery, Becomes, OthersStay, fileVars, ghostVars, limitVars, CallFits,
        Good, CallTypes, CallInv, Processor
  <2>2. (\A d \in Caller \ {c} : CallFits(d))'
    BY <1>6, ReadDeliveryMoves, Typed, FitsStays DEF ReadDelivery, Becomes, fileVars
  <2>3. QED
    BY <2>1, <2>2 DEF CallInv
<1>7. ASSUME NEW c \in Caller, Admit(c)
      PROVE  CallInv'
  <2>1. CallFits(c)'
    <3>1. /\ step[c] \in Step /\ pc[c] = "item" /\ CallFits(c)
          /\ item.status \in From[step[c]] /\ (step[c] = "settle" => about[c] = item.recovery)
          /\ UNCHANGED <<output, enqueued, verified>>
      BY <1>7, Typed DEF Admit, Admitted, CallTypes, CallInv, fileVars
    <3>2. Becomes(c, IF step[c] = "deliver" THEN "look"
                     ELSE IF step[c] = "complete" THEN "output"
                     ELSE IF step[c] \in Processor THEN "store"
                     ELSE "write",
                     step[c], seen[c], parcel[c], item, about[c])
      BY <1>7, AdmitMoves, Typed
    <3>3. step[c] = "send" => output
      BY <3>1, FromTable DEF FilesInv
    <3>4. QED
      BY <3>1, <3>2, <3>3 DEF Becomes, CallFits, Processor
  <2>2. (\A d \in Caller \ {c} : CallFits(d))'
    BY <1>7, AdmitMoves, Typed, FitsStays DEF Admit, Becomes, fileVars
  <2>3. QED
    BY <2>1, <2>2 DEF CallInv
<1>8. ASSUME NEW c \in Caller, Refuse(c)
      PROVE  CallInv'
  <2>1. CallFits(c)'
    BY <1>8, RefuseMoves, Typed
    DEF Refuse, Admitted, Already, Becomes, OthersStay, fileVars, ghostVars, limitVars,
        CallFits, Good, CallTypes, CallInv
  <2>2. (\A d \in Caller \ {c} : CallFits(d))'
    BY <1>8, RefuseMoves, Typed, FitsStays DEF Refuse, Becomes, fileVars
  <2>3. QED
    BY <2>1, <2>2 DEF CallInv
<1>9. ASSUME NEW c \in Caller, Find(c)
      PROVE  CallInv'
  <2>1. CallFits(c)'
    BY <1>9, FindMoves, Typed
    DEF Find, Already, Becomes, OthersStay, fileVars, ghostVars, limitVars, CallFits,
        Good, CallTypes, CallInv, FilesInv
  <2>2. (\A d \in Caller \ {c} : CallFits(d))'
    BY <1>9, FindMoves, Typed, FitsStays DEF Find, Becomes, fileVars
  <2>3. QED
    BY <2>1, <2>2 DEF CallInv
<1>10. ASSUME NEW c \in Caller, Look(c)
      PROVE  CallInv'
  <2>1. CallFits(c)'
    BY <1>10, LookMoves, Typed, Steps
    DEF Look, Becomes, OthersStay, fileVars, ghostVars, limitVars, CallFits, Good,
        CallTypes, CallInv
  <2>2. (\A d \in Caller \ {c} : CallFits(d))'
    BY <1>10, LookMoves, Typed, FitsStays DEF Look, Becomes, fileVars
  <2>3. QED
    BY <2>1, <2>2 DEF CallInv
<1>11. ASSUME NEW c \in Caller, WriteOutput(c)
      PROVE  CallInv'
  <2>1. CallFits(c)'
    BY <1>11, WriteOutputMoves, Typed
    DEF WriteOutput, Becomes, OthersStay, fileVars, ghostVars, limitVars, CallFits,
        Good, CallTypes, CallInv
  <2>2. (\A d \in Caller \ {c} : CallFits(d))'
    BY <1>11, WriteOutputMoves, Typed, FitsStays DEF WriteOutput, Becomes, fileVars
  <2>3. QED
    BY <2>1, <2>2 DEF CallInv
<1>12. ASSUME NEW c \in Caller, Store(c)
      PROVE  CallInv'
  <2>1. CallFits(c)'
    BY <1>12, StoreMoves, Typed, StoreTable, Steps
    DEF Store, Becomes, OthersStay, fileVars, ghostVars, limitVars, CallFits, Good,
        CallTypes, CallInv
  <2>2. (\A d \in Caller \ {c} : CallFits(d))'
    BY <1>12, StoreMoves, Typed, StoreTable, FitsStays DEF Store, Becomes, fileVars
  <2>3. QED
    BY <2>1, <2>2 DEF CallInv
<1>13. ASSUME NEW c \in Caller, WriteItem(c)
      PROVE  CallInv'
  <2>1. CallFits(c)'
    <3>1. step[c] \in Step /\ pc[c] = "write" /\ CallFits(c)
      BY <1>13 DEF WriteItem, CallInv, CallFits
    <3>2. Good(Changed(c))
      BY <3>1, ToTable DEF Changed, Good, CallFits
    <3>3. Becomes(c, IF step[c] = "settle" THEN "reread" ELSE "record",
                     step[c], seen[c], parcel[c], Changed(c), about[c])
      BY <1>13, WriteItemMoves, Typed
    <3>4. Good(copy[c])'
      BY <1>13, <3>2, <3>3 DEF Good, Becomes, WriteItem
    <3>5. QED
      BY <1>13, <3>1, <3>3, <3>4 DEF Becomes, WriteItem, CallFits
  <2>2. (\A d \in Caller \ {c} : CallFits(d))'
    BY <1>13, WriteItemMoves, Typed, FitsStays DEF WriteItem, Becomes, fileVars
  <2>3. QED
    BY <2>1, <2>2 DEF CallInv
<1>14. ASSUME NEW c \in Caller, Reread(c)
      PROVE  CallInv'
  <2>1. CallFits(c)'
    BY <1>14, RereadMoves, Typed
    DEF Reread, Becomes, OthersStay, fileVars, ghostVars, limitVars, CallFits, Good,
        CallTypes, CallInv
  <2>2. (\A d \in Caller \ {c} : CallFits(d))'
    BY <1>14, RereadMoves, Typed, FitsStays DEF Reread, Becomes, fileVars
  <2>3. QED
    BY <2>1, <2>2 DEF CallInv
<1>15. ASSUME NEW c \in Caller, WriteRecord(c)
      PROVE  CallInv'
  <2>1. CallFits(c)'
    BY <1>15, WriteRecordMoves, Typed
    DEF WriteRecord, Becomes, OthersStay, fileVars, ghostVars, limitVars, CallFits,
        Good, CallTypes, CallInv
  <2>2. (\A d \in Caller \ {c} : CallFits(d))'
    BY <1>15, WriteRecordMoves, Typed, FitsStays DEF WriteRecord, Becomes, fileVars
  <2>3. QED
    BY <2>1, <2>2 DEF CallInv
<1>16. ASSUME NEW c \in Caller, CutShort(c)
      PROVE  CallInv'
  <2>1. CallFits(c)'
    BY <1>16, CutShortMoves, Typed
    DEF CutShort, Becomes, OthersStay, fileVars, ghostVars, limitVars, CallFits, Good,
        CallTypes, CallInv
  <2>2. (\A d \in Caller \ {c} : CallFits(d))'
    BY <1>16, CutShortMoves, Typed, FitsStays DEF CutShort, Becomes, fileVars
  <2>3. QED
    BY <2>1, <2>2 DEF CallInv
<1>17. CASE UNCHANGED vars
  BY <1>17
  DEF vars, callVars, fileVars, ghostVars, limitVars, CallFits, CallSolo, Good,
      Accounted, CallTypes, CallInv
<1>18. QED
  BY <1>1, <1>2, <1>3, <1>4, <1>5, <1>6, <1>7, <1>8, <1>9, <1>10, <1>11, <1>12, <1>13,
     <1>14, <1>15, <1>16, <1>17
  DEF Next, Call

\* What a deadletter says of its recovery, and its delivery of its output, stays so.
LEMMA FilesStep ==
    ASSUME TypeOK, CallInv, FilesInv, [Next]_vars
    PROVE  FilesInv'
<1>1. ASSUME NEW c \in Caller, NEW s \in Step \cup {"requeue"}, Begin(c, s)
      PROVE  FilesInv'
  BY <1>1, BeginMoves, Typed
  DEF Begin, Begins, Becomes, OthersStay, fileVars, ghostVars, limitVars, CallTypes,
      CallInv, CallFits, FilesInv, Good
<1>2. ASSUME NEW c \in Caller, BeginRequest(c)
      PROVE  FilesInv'
  BY <1>2, BeginRequestMoves, Typed
  DEF BeginRequest, Begins, Becomes, OthersStay, fileVars, ghostVars, limitVars,
      CallTypes, CallInv, CallFits, FilesInv, Good
<1>3. ASSUME NEW c \in Caller, Enqueue(c)
      PROVE  FilesInv'
  BY <1>3, EnqueueMoves, Typed
  DEF Enqueue, Becomes, OthersStay, fileVars, ghostVars, limitVars, CallTypes, CallInv,
      CallFits, FilesInv, Good
<1>4. ASSUME NEW c \in Caller, EnqueueFails(c)
      PROVE  FilesInv'
  BY <1>4, EnqueueFailsMoves, Typed
  DEF EnqueueFails, Becomes, OthersStay, fileVars, ghostVars, limitVars, CallTypes,
      CallInv, CallFits, FilesInv, Good
<1>5. ASSUME NEW c \in Caller, NEW r \in Recovery, Recover(c, r)
      PROVE  FilesInv'
  BY <1>5, RecoverMoves, Typed
  DEF Recover, Begins, Becomes, OthersStay, fileVars, ghostVars, limitVars, CallTypes,
      CallInv, CallFits, FilesInv, Good
<1>6. ASSUME NEW c \in Caller, ReadDelivery(c)
      PROVE  FilesInv'
  BY <1>6, ReadDeliveryMoves, Typed
  DEF ReadDelivery, Becomes, OthersStay, fileVars, ghostVars, limitVars, CallTypes,
      CallInv, CallFits, FilesInv, Good
<1>7. ASSUME NEW c \in Caller, Admit(c)
      PROVE  FilesInv'
  BY <1>7, AdmitMoves, Typed
  DEF Admit, Admitted, Already, Becomes, OthersStay, fileVars, ghostVars, limitVars,
      CallTypes, CallInv, CallFits, FilesInv, Good
<1>8. ASSUME NEW c \in Caller, Refuse(c)
      PROVE  FilesInv'
  BY <1>8, RefuseMoves, Typed
  DEF Refuse, Admitted, Already, Becomes, OthersStay, fileVars, ghostVars, limitVars,
      CallTypes, CallInv, CallFits, FilesInv, Good
<1>9. ASSUME NEW c \in Caller, Find(c)
      PROVE  FilesInv'
  BY <1>9, FindMoves, Typed
  DEF Find, Already, Becomes, OthersStay, fileVars, ghostVars, limitVars, CallTypes,
      CallInv, CallFits, FilesInv, Good
<1>10. ASSUME NEW c \in Caller, Look(c)
      PROVE  FilesInv'
  BY <1>10, LookMoves, Typed
  DEF Look, Becomes, OthersStay, fileVars, ghostVars, limitVars, CallTypes, CallInv,
      CallFits, FilesInv, Good
<1>11. ASSUME NEW c \in Caller, WriteOutput(c)
      PROVE  FilesInv'
  BY <1>11, WriteOutputMoves, Typed
  DEF WriteOutput, Becomes, OthersStay, fileVars, ghostVars, limitVars, CallTypes,
      CallInv, CallFits, FilesInv, Good
<1>12. ASSUME NEW c \in Caller, Store(c)
      PROVE  FilesInv'
  BY <1>12, StoreMoves, Typed, StoreTable
  DEF Store, Becomes, OthersStay, fileVars, ghostVars, limitVars, CallTypes, CallInv,
      CallFits, FilesInv, Good
<1>13. ASSUME NEW c \in Caller, WriteItem(c)
      PROVE  FilesInv'
  BY <1>13, WriteItemMoves, Typed, ToTable, FieldTypes
  DEF WriteItem, Changed, Becomes, OthersStay, fileVars, ghostVars, limitVars,
      CallTypes, CallInv, CallFits, FilesInv, Good
<1>14. ASSUME NEW c \in Caller, Reread(c)
      PROVE  FilesInv'
  BY <1>14, RereadMoves, Typed
  DEF Reread, Becomes, OthersStay, fileVars, ghostVars, limitVars, CallTypes, CallInv,
      CallFits, FilesInv, Good
<1>15. ASSUME NEW c \in Caller, WriteRecord(c)
      PROVE  FilesInv'
  BY <1>15, WriteRecordMoves, Typed
  DEF WriteRecord, Becomes, OthersStay, fileVars, ghostVars, limitVars, CallTypes,
      CallInv, CallFits, FilesInv, Good
<1>16. ASSUME NEW c \in Caller, CutShort(c)
      PROVE  FilesInv'
  BY <1>16, CutShortMoves, Typed
  DEF CutShort, Becomes, OthersStay, fileVars, ghostVars, limitVars, CallTypes,
      CallInv, CallFits, FilesInv, Good
<1>17. CASE UNCHANGED vars
  BY <1>17
  DEF vars, callVars, fileVars, ghostVars, limitVars, CallTypes, CallInv, CallFits,
      FilesInv, Good
<1>18. QED
  BY <1>1, <1>2, <1>3, <1>4, <1>5, <1>6, <1>7, <1>8, <1>9, <1>10, <1>11, <1>12, <1>13,
     <1>14, <1>15, <1>16, <1>17
  DEF Next, Call

\* The one call there is writes one file after the other.
LEMMA SoloStep ==
    ASSUME TypeOK, CallInv, SoloInv, [Next]_vars
    PROVE  SoloInv'
<1>1. ASSUME NEW c \in Caller, NEW s \in Step \cup {"requeue"}, Begin(c, s)
      PROVE  SoloInv'
  <2>1. CASE overlaps' # 0
    BY <2>1 DEF SoloInv, Solo, OthersSolo
  <2>2. CASE overlaps' = 0
    <3>1. overlaps = 0 /\ Solo /\ \A d \in Caller : pc[d] = "idle"
      BY <2>2, <1>1, DeadletterAssumption
      DEF Begin, Begins, fileVars, ghostVars, limitVars, TypeOK, SoloInv, Solo,
          OthersSolo
    <3>2. Ahead(item.status, delivery)'
      BY <1>1, <2>2, <3>1, BeginMoves, Typed
      DEF Begin, Begins, Becomes, OthersStay, fileVars, ghostVars, limitVars, Ahead,
          Solo, CallSolo, CallTypes, CallInv, CallFits
    <3>3. (~ torn => event.item = item)'
      BY <1>1, <2>2, <3>1, BeginMoves, Typed
      DEF Begin, Begins, Becomes, OthersStay, fileVars, ghostVars, limitVars, Solo,
          CallSolo, CallTypes, CallInv, CallFits
    <3>4. CallSolo(c)'
      BY <1>1, <2>2, <3>1, BeginMoves, Typed
      DEF Begin, Begins, Becomes, OthersStay, fileVars, ghostVars, limitVars, CallSolo,
          Solo, CallTypes, CallInv, CallFits
    <3>5. OthersSolo(c)'
      BY <1>1, <2>2, <3>1, BeginMoves, Typed, AloneStays DEF Becomes
    <3>6. QED
      BY <3>2, <3>3, <3>4, <3>5, <2>2 DEF SoloInv, Solo, OthersSolo
  <2>3. QED
    BY <2>1, <2>2
<1>2. ASSUME NEW c \in Caller, BeginRequest(c)
      PROVE  SoloInv'
  <2>1. CASE overlaps' # 0
    BY <2>1 DEF SoloInv, Solo, OthersSolo
  <2>2. CASE overlaps' = 0
    <3>1. overlaps = 0 /\ Solo /\ \A d \in Caller : pc[d] = "idle"
      BY <2>2, <1>2, DeadletterAssumption
      DEF BeginRequest, Begins, fileVars, ghostVars, limitVars, TypeOK, SoloInv, Solo,
          OthersSolo
    <3>2. Ahead(item.status, delivery)'
      BY <1>2, <2>2, <3>1, BeginRequestMoves, Typed
      DEF BeginRequest, Begins, Becomes, OthersStay, fileVars, ghostVars, limitVars,
          Ahead, Solo, CallSolo, CallTypes, CallInv, CallFits
    <3>3. (~ torn => event.item = item)'
      BY <1>2, <2>2, <3>1, BeginRequestMoves, Typed
      DEF BeginRequest, Begins, Becomes, OthersStay, fileVars, ghostVars, limitVars,
          Solo, CallSolo, CallTypes, CallInv, CallFits
    <3>4. CallSolo(c)'
      BY <1>2, <2>2, <3>1, BeginRequestMoves, Typed
      DEF BeginRequest, Begins, Becomes, OthersStay, fileVars, ghostVars, limitVars,
          CallSolo, Solo, CallTypes, CallInv, CallFits, Processor
    <3>5. OthersSolo(c)'
      BY <1>2, <2>2, <3>1, BeginRequestMoves, Typed, AloneStays DEF Becomes
    <3>6. QED
      BY <3>2, <3>3, <3>4, <3>5, <2>2 DEF SoloInv, Solo, OthersSolo
  <2>3. QED
    BY <2>1, <2>2
<1>3. ASSUME NEW c \in Caller, Enqueue(c)
      PROVE  SoloInv'
  <2>1. CASE overlaps' # 0
    BY <2>1 DEF SoloInv, Solo, OthersSolo
  <2>2. CASE overlaps' = 0
    <3>1. overlaps = 0 /\ Solo /\ \A d \in Caller \ {c} : pc[d] = "idle"
      BY <2>2, <1>3, DeadletterAssumption
      DEF Enqueue, fileVars, ghostVars, limitVars, TypeOK, SoloInv, Solo, OthersSolo
    <3>2. Ahead(item.status, delivery)'
      BY <1>3, <2>2, <3>1, EnqueueMoves, Typed
      DEF Enqueue, Becomes, OthersStay, fileVars, ghostVars, limitVars, Ahead, Solo,
          CallSolo, CallTypes, CallInv, CallFits
    <3>3. (~ torn => event.item = item)'
      BY <1>3, <2>2, <3>1, EnqueueMoves, Typed
      DEF Enqueue, Becomes, OthersStay, fileVars, ghostVars, limitVars, Solo, CallSolo,
          CallTypes, CallInv, CallFits
    <3>4. CallSolo(c)'
      BY <1>3, <2>2, <3>1, EnqueueMoves, Typed
      DEF Enqueue, Becomes, OthersStay, fileVars, ghostVars, limitVars, CallSolo, Solo,
          CallTypes, CallInv, CallFits, Processor
    <3>5. OthersSolo(c)'
      BY <1>3, <2>2, <3>1, EnqueueMoves, Typed, AloneStays DEF Becomes
    <3>6. QED
      BY <3>2, <3>3, <3>4, <3>5, <2>2 DEF SoloInv, Solo, OthersSolo
  <2>3. QED
    BY <2>1, <2>2
<1>4. ASSUME NEW c \in Caller, EnqueueFails(c)
      PROVE  SoloInv'
  <2>1. CASE overlaps' # 0
    BY <2>1 DEF SoloInv, Solo, OthersSolo
  <2>2. CASE overlaps' = 0
    <3>1. overlaps = 0 /\ Solo /\ \A d \in Caller \ {c} : pc[d] = "idle"
      BY <2>2, <1>4, DeadletterAssumption
      DEF EnqueueFails, fileVars, ghostVars, limitVars, TypeOK, SoloInv, Solo,
          OthersSolo
    <3>2. Ahead(item.status, delivery)'
      BY <1>4, <2>2, <3>1, EnqueueFailsMoves, Typed
      DEF EnqueueFails, Becomes, OthersStay, fileVars, ghostVars, limitVars, Ahead,
          Solo, CallSolo, CallTypes, CallInv, CallFits
    <3>3. (~ torn => event.item = item)'
      BY <1>4, <2>2, <3>1, EnqueueFailsMoves, Typed
      DEF EnqueueFails, Becomes, OthersStay, fileVars, ghostVars, limitVars, Solo,
          CallSolo, CallTypes, CallInv, CallFits
    <3>4. CallSolo(c)'
      BY <1>4, <2>2, <3>1, EnqueueFailsMoves, Typed
      DEF EnqueueFails, Becomes, OthersStay, fileVars, ghostVars, limitVars, CallSolo,
          Solo, CallTypes, CallInv, CallFits
    <3>5. OthersSolo(c)'
      BY <1>4, <2>2, <3>1, EnqueueFailsMoves, Typed, AloneStays DEF Becomes
    <3>6. QED
      BY <3>2, <3>3, <3>4, <3>5, <2>2 DEF SoloInv, Solo, OthersSolo
  <2>3. QED
    BY <2>1, <2>2
<1>5. ASSUME NEW c \in Caller, NEW r \in Recovery, Recover(c, r)
      PROVE  SoloInv'
  <2>1. CASE overlaps' # 0
    BY <2>1 DEF SoloInv, Solo, OthersSolo
  <2>2. CASE overlaps' = 0
    <3>1. overlaps = 0 /\ Solo /\ \A d \in Caller : pc[d] = "idle"
      BY <2>2, <1>5, DeadletterAssumption
      DEF Recover, Begins, fileVars, ghostVars, limitVars, TypeOK, SoloInv, Solo,
          OthersSolo
    <3>2. Ahead(item.status, delivery)'
      BY <1>5, <2>2, <3>1, RecoverMoves, Typed
      DEF Recover, Begins, Becomes, OthersStay, fileVars, ghostVars, limitVars, Ahead,
          Solo, CallSolo, CallTypes, CallInv, CallFits
    <3>3. (~ torn => event.item = item)'
      BY <1>5, <2>2, <3>1, RecoverMoves, Typed
      DEF Recover, Begins, Becomes, OthersStay, fileVars, ghostVars, limitVars, Solo,
          CallSolo, CallTypes, CallInv, CallFits
    <3>4. CallSolo(c)'
      BY <1>5, <2>2, <3>1, RecoverMoves, Typed
      DEF Recover, Begins, Becomes, OthersStay, fileVars, ghostVars, limitVars,
          CallSolo, Solo, CallTypes, CallInv, CallFits, Processor
    <3>5. OthersSolo(c)'
      BY <1>5, <2>2, <3>1, RecoverMoves, Typed, AloneStays DEF Becomes
    <3>6. QED
      BY <3>2, <3>3, <3>4, <3>5, <2>2 DEF SoloInv, Solo, OthersSolo
  <2>3. QED
    BY <2>1, <2>2
<1>6. ASSUME NEW c \in Caller, ReadDelivery(c)
      PROVE  SoloInv'
  <2>1. CASE overlaps' # 0
    BY <2>1 DEF SoloInv, Solo, OthersSolo
  <2>2. CASE overlaps' = 0
    <3>1. overlaps = 0 /\ Solo /\ \A d \in Caller \ {c} : pc[d] = "idle"
      BY <2>2, <1>6, DeadletterAssumption
      DEF ReadDelivery, fileVars, ghostVars, limitVars, TypeOK, SoloInv, Solo,
          OthersSolo
    <3>2. Ahead(item.status, delivery)'
      BY <1>6, <2>2, <3>1, ReadDeliveryMoves, Typed
      DEF ReadDelivery, Becomes, OthersStay, fileVars, ghostVars, limitVars, Ahead,
          Solo, CallSolo, CallTypes, CallInv, CallFits
    <3>3. (~ torn => event.item = item)'
      BY <1>6, <2>2, <3>1, ReadDeliveryMoves, Typed
      DEF ReadDelivery, Becomes, OthersStay, fileVars, ghostVars, limitVars, Solo,
          CallSolo, CallTypes, CallInv, CallFits
    <3>4. CallSolo(c)'
      BY <1>6, <2>2, <3>1, ReadDeliveryMoves, Typed
      DEF ReadDelivery, Becomes, OthersStay, fileVars, ghostVars, limitVars, CallSolo,
          Solo, CallTypes, CallInv, CallFits, Processor
    <3>5. OthersSolo(c)'
      BY <1>6, <2>2, <3>1, ReadDeliveryMoves, Typed, AloneStays DEF Becomes
    <3>6. QED
      BY <3>2, <3>3, <3>4, <3>5, <2>2 DEF SoloInv, Solo, OthersSolo
  <2>3. QED
    BY <2>1, <2>2
<1>7. ASSUME NEW c \in Caller, Admit(c)
      PROVE  SoloInv'
  <2>1. CASE overlaps' # 0
    BY <2>1 DEF SoloInv, Solo, OthersSolo
  <2>2. CASE overlaps' = 0
    <3>1. overlaps = 0 /\ Solo /\ \A d \in Caller \ {c} : pc[d] = "idle"
      BY <2>2, <1>7, DeadletterAssumption
      DEF Admit, Admitted, Already, fileVars, ghostVars, limitVars, TypeOK, SoloInv,
          Solo, OthersSolo
    <3>2. Ahead(item.status, delivery)'
      BY <1>7, <2>2, <3>1, AdmitMoves, Typed
      DEF Admit, Admitted, Already, Becomes, OthersStay, fileVars, ghostVars,
          limitVars, Ahead, Solo, CallSolo, CallTypes, CallInv, CallFits
    <3>3. (~ torn => event.item = item)'
      BY <1>7, <2>2, <3>1, AdmitMoves, Typed
      DEF Admit, Admitted, Already, Becomes, OthersStay, fileVars, ghostVars,
          limitVars, Solo, CallSolo, CallTypes, CallInv, CallFits
    <3>4. CallSolo(c)'
      <4>1. /\ step[c] \in Step /\ pc[c] = "item" /\ item' = item /\ delivery' = delivery
            /\ item.status \in From[step[c]]
        BY <1>7, Typed DEF Admit, Admitted, CallTypes, fileVars
      <4>2. Becomes(c, IF step[c] = "deliver" THEN "look"
                       ELSE IF step[c] = "complete" THEN "output"
                       ELSE IF step[c] \in Processor THEN "store"
                       ELSE "write",
                       step[c], seen[c], parcel[c], item, about[c])
        BY <1>7, AdmitMoves, Typed
      <4>3. step[c] \notin Processor \cup {"deliver"} => Ahead(To[step[c]], delivery)
        BY <4>1, ToTable DEF Ahead, Processor
      <4>4. pc'[c] = "write" => Ahead(To[step'[c]], delivery')
        BY <4>1, <4>2, <4>3 DEF Becomes, Processor
      <4>5. QED
        BY <4>1, <4>2, <4>4 DEF Becomes, CallSolo
    <3>5. OthersSolo(c)'
      BY <1>7, <2>2, <3>1, AdmitMoves, Typed, AloneStays DEF Becomes
    <3>6. QED
      BY <3>2, <3>3, <3>4, <3>5, <2>2 DEF SoloInv, Solo, OthersSolo
  <2>3. QED
    BY <2>1, <2>2
<1>8. ASSUME NEW c \in Caller, Refuse(c)
      PROVE  SoloInv'
  <2>1. CASE overlaps' # 0
    BY <2>1 DEF SoloInv, Solo, OthersSolo
  <2>2. CASE overlaps' = 0
    <3>1. overlaps = 0 /\ Solo /\ \A d \in Caller \ {c} : pc[d] = "idle"
      BY <2>2, <1>8, DeadletterAssumption
      DEF Refuse, Admitted, Already, fileVars, ghostVars, limitVars, TypeOK, SoloInv,
          Solo, OthersSolo
    <3>2. Ahead(item.status, delivery)'
      BY <1>8, <2>2, <3>1, RefuseMoves, Typed
      DEF Refuse, Admitted, Already, Becomes, OthersStay, fileVars, ghostVars,
          limitVars, Ahead, Solo, CallSolo, CallTypes, CallInv, CallFits
    <3>3. (~ torn => event.item = item)'
      BY <1>8, <2>2, <3>1, RefuseMoves, Typed
      DEF Refuse, Admitted, Already, Becomes, OthersStay, fileVars, ghostVars,
          limitVars, Solo, CallSolo, CallTypes, CallInv, CallFits
    <3>4. CallSolo(c)'
      BY <1>8, <2>2, <3>1, RefuseMoves, Typed
      DEF Refuse, Admitted, Already, Becomes, OthersStay, fileVars, ghostVars,
          limitVars, CallSolo, Solo, CallTypes, CallInv, CallFits
    <3>5. OthersSolo(c)'
      BY <1>8, <2>2, <3>1, RefuseMoves, Typed, AloneStays DEF Becomes
    <3>6. QED
      BY <3>2, <3>3, <3>4, <3>5, <2>2 DEF SoloInv, Solo, OthersSolo
  <2>3. QED
    BY <2>1, <2>2
<1>9. ASSUME NEW c \in Caller, Find(c)
      PROVE  SoloInv'
  <2>1. CASE overlaps' # 0
    BY <2>1 DEF SoloInv, Solo, OthersSolo
  <2>2. CASE overlaps' = 0
    <3>1. overlaps = 0 /\ Solo /\ \A d \in Caller \ {c} : pc[d] = "idle"
      BY <2>2, <1>9, DeadletterAssumption
      DEF Find, Already, fileVars, ghostVars, limitVars, TypeOK, SoloInv, Solo,
          OthersSolo
    <3>2. Ahead(item.status, delivery)'
      BY <1>9, <2>2, <3>1, FindMoves, Typed
      DEF Find, Already, Becomes, OthersStay, fileVars, ghostVars, limitVars, Ahead,
          Solo, CallSolo, CallTypes, CallInv, CallFits
    <3>3. (~ torn => event.item = item)'
      BY <1>9, <2>2, <3>1, FindMoves, Typed
      DEF Find, Already, Becomes, OthersStay, fileVars, ghostVars, limitVars, Solo,
          CallSolo, CallTypes, CallInv, CallFits
    <3>4. CallSolo(c)'
      BY <1>9, <2>2, <3>1, FindMoves, Typed
      DEF Find, Already, Becomes, OthersStay, fileVars, ghostVars, limitVars, CallSolo,
          Solo, CallTypes, CallInv, CallFits
    <3>5. OthersSolo(c)'
      BY <1>9, <2>2, <3>1, FindMoves, Typed, AloneStays DEF Becomes
    <3>6. QED
      BY <3>2, <3>3, <3>4, <3>5, <2>2 DEF SoloInv, Solo, OthersSolo
  <2>3. QED
    BY <2>1, <2>2
<1>10. ASSUME NEW c \in Caller, Look(c)
      PROVE  SoloInv'
  <2>1. CASE overlaps' # 0
    BY <2>1 DEF SoloInv, Solo, OthersSolo
  <2>2. CASE overlaps' = 0
    <3>1. overlaps = 0 /\ Solo /\ \A d \in Caller \ {c} : pc[d] = "idle"
      BY <2>2, <1>10, DeadletterAssumption
      DEF Look, fileVars, ghostVars, limitVars, TypeOK, SoloInv, Solo, OthersSolo
    <3>2. Ahead(item.status, delivery)'
      BY <1>10, <2>2, <3>1, LookMoves, Typed
      DEF Look, Becomes, OthersStay, fileVars, ghostVars, limitVars, Ahead, Solo,
          CallSolo, CallTypes, CallInv, CallFits
    <3>3. (~ torn => event.item = item)'
      BY <1>10, <2>2, <3>1, LookMoves, Typed
      DEF Look, Becomes, OthersStay, fileVars, ghostVars, limitVars, Solo, CallSolo,
          CallTypes, CallInv, CallFits
    <3>4. CallSolo(c)'
      BY <1>10, <2>2, <3>1, LookMoves, Typed, ToTable, FromTable, Steps
      DEF Look, Becomes, OthersStay, fileVars, ghostVars, limitVars, CallSolo, Solo,
          CallTypes, CallInv, CallFits, Ahead
    <3>5. OthersSolo(c)'
      BY <1>10, <2>2, <3>1, LookMoves, Typed, AloneStays DEF Becomes
    <3>6. QED
      BY <3>2, <3>3, <3>4, <3>5, <2>2 DEF SoloInv, Solo, OthersSolo
  <2>3. QED
    BY <2>1, <2>2
<1>11. ASSUME NEW c \in Caller, WriteOutput(c)
      PROVE  SoloInv'
  <2>1. CASE overlaps' # 0
    BY <2>1 DEF SoloInv, Solo, OthersSolo
  <2>2. CASE overlaps' = 0
    <3>1. overlaps = 0 /\ Solo /\ \A d \in Caller \ {c} : pc[d] = "idle"
      BY <2>2, <1>11, DeadletterAssumption
      DEF WriteOutput, fileVars, ghostVars, limitVars, TypeOK, SoloInv, Solo,
          OthersSolo
    <3>2. Ahead(item.status, delivery)'
      BY <1>11, <2>2, <3>1, WriteOutputMoves, Typed
      DEF WriteOutput, Becomes, OthersStay, fileVars, ghostVars, limitVars, Ahead,
          Solo, CallSolo, CallTypes, CallInv, CallFits
    <3>3. (~ torn => event.item = item)'
      BY <1>11, <2>2, <3>1, WriteOutputMoves, Typed
      DEF WriteOutput, Becomes, OthersStay, fileVars, ghostVars, limitVars, Solo,
          CallSolo, CallTypes, CallInv, CallFits
    <3>4. CallSolo(c)'
      BY <1>11, <2>2, <3>1, WriteOutputMoves, Typed
      DEF WriteOutput, Becomes, OthersStay, fileVars, ghostVars, limitVars, CallSolo,
          Solo, CallTypes, CallInv, CallFits
    <3>5. OthersSolo(c)'
      BY <1>11, <2>2, <3>1, WriteOutputMoves, Typed, AloneStays DEF Becomes
    <3>6. QED
      BY <3>2, <3>3, <3>4, <3>5, <2>2 DEF SoloInv, Solo, OthersSolo
  <2>3. QED
    BY <2>1, <2>2
<1>12. ASSUME NEW c \in Caller, Store(c)
      PROVE  SoloInv'
  <2>1. CASE overlaps' # 0
    BY <2>1 DEF SoloInv, Solo, OthersSolo
  <2>2. CASE overlaps' = 0
    <3>1. overlaps = 0 /\ Solo /\ \A d \in Caller \ {c} : pc[d] = "idle"
      BY <2>2, <1>12, DeadletterAssumption
      DEF Store, fileVars, ghostVars, limitVars, TypeOK, SoloInv, Solo, OthersSolo
    <3>2. Ahead(item.status, delivery)'
      BY <1>12, <2>2, <3>1, StoreMoves, Typed, StoreTable, FromTable
      DEF Store, Becomes, OthersStay, fileVars, ghostVars, limitVars, Ahead, Solo,
          CallSolo, CallTypes, CallInv, CallFits
    <3>3. (~ torn => event.item = item)'
      BY <1>12, <2>2, <3>1, StoreMoves, Typed, StoreTable
      DEF Store, Becomes, OthersStay, fileVars, ghostVars, limitVars, Solo, CallSolo,
          CallTypes, CallInv, CallFits
    <3>4. CallSolo(c)'
      BY <1>12, <2>2, <3>1, StoreMoves, Typed, StoreTable, ToTable, Steps
      DEF Store, Becomes, OthersStay, fileVars, ghostVars, limitVars, CallSolo, Solo,
          CallTypes, CallInv, CallFits, Ahead, Processor
    <3>5. OthersSolo(c)'
      BY <1>12, <2>2, <3>1, StoreMoves, Typed, StoreTable, AloneStays DEF Becomes
    <3>6. QED
      BY <3>2, <3>3, <3>4, <3>5, <2>2 DEF SoloInv, Solo, OthersSolo
  <2>3. QED
    BY <2>1, <2>2
<1>13. ASSUME NEW c \in Caller, WriteItem(c)
      PROVE  SoloInv'
  <2>1. CASE overlaps' # 0
    BY <2>1 DEF SoloInv, Solo, OthersSolo
  <2>2. CASE overlaps' = 0
    <3>1. overlaps = 0 /\ Solo /\ \A d \in Caller \ {c} : pc[d] = "idle"
      BY <2>2, <1>13, DeadletterAssumption
      DEF WriteItem, Changed, fileVars, ghostVars, limitVars, TypeOK, SoloInv, Solo,
          OthersSolo
    <3>2. Ahead(item.status, delivery)'
      BY <1>13, <2>2, <3>1, WriteItemMoves, Typed, FieldTypes
      DEF WriteItem, Changed, Becomes, OthersStay, fileVars, ghostVars, limitVars,
          Ahead, Solo, CallSolo, CallTypes, CallInv, CallFits
    <3>3. (~ torn => event.item = item)'
      BY <1>13, <2>2, <3>1, WriteItemMoves, Typed
      DEF WriteItem, Changed, Becomes, OthersStay, fileVars, ghostVars, limitVars,
          Solo, CallSolo, CallTypes, CallInv, CallFits
    <3>4. CallSolo(c)'
      BY <1>13, <2>2, <3>1, WriteItemMoves, Typed, Steps
      DEF WriteItem, Changed, Becomes, OthersStay, fileVars, ghostVars, limitVars,
          CallSolo, Solo, CallTypes, CallInv, CallFits
    <3>5. OthersSolo(c)'
      BY <1>13, <2>2, <3>1, WriteItemMoves, Typed, AloneStays DEF Becomes
    <3>6. QED
      BY <3>2, <3>3, <3>4, <3>5, <2>2 DEF SoloInv, Solo, OthersSolo
  <2>3. QED
    BY <2>1, <2>2
<1>14. ASSUME NEW c \in Caller, Reread(c)
      PROVE  SoloInv'
  <2>1. CASE overlaps' # 0
    BY <2>1 DEF SoloInv, Solo, OthersSolo
  <2>2. CASE overlaps' = 0
    <3>1. overlaps = 0 /\ Solo /\ \A d \in Caller \ {c} : pc[d] = "idle"
      BY <2>2, <1>14, DeadletterAssumption
      DEF Reread, fileVars, ghostVars, limitVars, TypeOK, SoloInv, Solo, OthersSolo
    <3>2. Ahead(item.status, delivery)'
      BY <1>14, <2>2, <3>1, RereadMoves, Typed
      DEF Reread, Becomes, OthersStay, fileVars, ghostVars, limitVars, Ahead, Solo,
          CallSolo, CallTypes, CallInv, CallFits
    <3>3. (~ torn => event.item = item)'
      BY <1>14, <2>2, <3>1, RereadMoves, Typed
      DEF Reread, Becomes, OthersStay, fileVars, ghostVars, limitVars, Solo, CallSolo,
          CallTypes, CallInv, CallFits
    <3>4. CallSolo(c)'
      BY <1>14, <2>2, <3>1, RereadMoves, Typed
      DEF Reread, Becomes, OthersStay, fileVars, ghostVars, limitVars, CallSolo, Solo,
          CallTypes, CallInv, CallFits
    <3>5. OthersSolo(c)'
      BY <1>14, <2>2, <3>1, RereadMoves, Typed, AloneStays DEF Becomes
    <3>6. QED
      BY <3>2, <3>3, <3>4, <3>5, <2>2 DEF SoloInv, Solo, OthersSolo
  <2>3. QED
    BY <2>1, <2>2
<1>15. ASSUME NEW c \in Caller, WriteRecord(c)
      PROVE  SoloInv'
  <2>1. CASE overlaps' # 0
    BY <2>1 DEF SoloInv, Solo, OthersSolo
  <2>2. CASE overlaps' = 0
    <3>1. overlaps = 0 /\ Solo /\ \A d \in Caller \ {c} : pc[d] = "idle"
      BY <2>2, <1>15, DeadletterAssumption
      DEF WriteRecord, fileVars, ghostVars, limitVars, TypeOK, SoloInv, Solo,
          OthersSolo
    <3>2. Ahead(item.status, delivery)'
      BY <1>15, <2>2, <3>1, WriteRecordMoves, Typed
      DEF WriteRecord, Becomes, OthersStay, fileVars, ghostVars, limitVars, Ahead,
          Solo, CallSolo, CallTypes, CallInv, CallFits
    <3>3. (~ torn => event.item = item)'
      BY <1>15, <2>2, <3>1, WriteRecordMoves, Typed
      DEF WriteRecord, Becomes, OthersStay, fileVars, ghostVars, limitVars, Solo,
          CallSolo, CallTypes, CallInv, CallFits
    <3>4. CallSolo(c)'
      BY <1>15, <2>2, <3>1, WriteRecordMoves, Typed
      DEF WriteRecord, Becomes, OthersStay, fileVars, ghostVars, limitVars, CallSolo,
          Solo, CallTypes, CallInv, CallFits
    <3>5. OthersSolo(c)'
      BY <1>15, <2>2, <3>1, WriteRecordMoves, Typed, AloneStays DEF Becomes
    <3>6. QED
      BY <3>2, <3>3, <3>4, <3>5, <2>2 DEF SoloInv, Solo, OthersSolo
  <2>3. QED
    BY <2>1, <2>2
<1>16. ASSUME NEW c \in Caller, CutShort(c)
      PROVE  SoloInv'
  <2>1. CASE overlaps' # 0
    BY <2>1 DEF SoloInv, Solo, OthersSolo
  <2>2. CASE overlaps' = 0
    <3>1. overlaps = 0 /\ Solo /\ \A d \in Caller \ {c} : pc[d] = "idle"
      BY <2>2, <1>16, DeadletterAssumption
      DEF CutShort, fileVars, ghostVars, limitVars, TypeOK, SoloInv, Solo, OthersSolo
    <3>2. Ahead(item.status, delivery)'
      BY <1>16, <2>2, <3>1, CutShortMoves, Typed
      DEF CutShort, Becomes, OthersStay, fileVars, ghostVars, limitVars, Ahead, Solo,
          CallSolo, CallTypes, CallInv, CallFits
    <3>3. (~ torn => event.item = item)'
      BY <1>16, <2>2, <3>1, CutShortMoves, Typed
      DEF CutShort, Becomes, OthersStay, fileVars, ghostVars, limitVars, Solo,
          CallSolo, CallTypes, CallInv, CallFits
    <3>4. CallSolo(c)'
      BY <1>16, <2>2, <3>1, CutShortMoves, Typed
      DEF CutShort, Becomes, OthersStay, fileVars, ghostVars, limitVars, CallSolo,
          Solo, CallTypes, CallInv, CallFits
    <3>5. OthersSolo(c)'
      BY <1>16, <2>2, <3>1, CutShortMoves, Typed, AloneStays DEF Becomes
    <3>6. QED
      BY <3>2, <3>3, <3>4, <3>5, <2>2 DEF SoloInv, Solo, OthersSolo
  <2>3. QED
    BY <2>1, <2>2
<1>17. CASE UNCHANGED vars
  BY <1>17
  DEF vars, callVars, fileVars, ghostVars, limitVars, CallFits, CallSolo, Good,
      Accounted, Ahead, Solo, CallTypes, CallInv, SoloInv, OthersSolo
<1>18. QED
  BY <1>1, <1>2, <1>3, <1>4, <1>5, <1>6, <1>7, <1>8, <1>9, <1>10, <1>11, <1>12, <1>13,
     <1>14, <1>15, <1>16, <1>17
  DEF Next, Call

\* A recovery event is named by the deadletter before its call is gone.
LEMMA OrphanStep ==
    ASSUME TypeOK, CallInv, SoloInv, OrphanInv, [Next]_vars
    PROVE  OrphanInv'
<1>1. ASSUME NEW c \in Caller, NEW s \in Step \cup {"requeue"}, Begin(c, s)
      PROVE  OrphanInv'
  <2>1. CASE overlaps' # 0
    BY <2>1 DEF OrphanInv, SoloInv, CallInv
  <2>2. CASE overlaps' = 0
    <3>1. overlaps = 0 /\ Solo /\ \A d \in Caller : pc[d] = "idle"
      BY <2>2, <1>1, DeadletterAssumption
      DEF Begin, Begins, fileVars, ghostVars, limitVars, TypeOK, OrphanInv, SoloInv,
          CallInv, Solo
    <3>2. (\A r \in enqueued : Accounted(r))'
      BY <1>1, <2>2, <3>1, BeginMoves, Typed
      DEF Begin, Begins, Becomes, OthersStay, fileVars, ghostVars, limitVars,
          Accounted, CallTypes, CallInv, CallFits, OrphanInv
    <3>3. QED
      BY <3>2, <2>2 DEF OrphanInv, SoloInv, CallInv
  <2>3. QED
    BY <2>1, <2>2
<1>2. ASSUME NEW c \in Caller, BeginRequest(c)
      PROVE  OrphanInv'
  <2>1. CASE overlaps' # 0
    BY <2>1 DEF OrphanInv, SoloInv, CallInv
  <2>2. CASE overlaps' = 0
    <3>1. overlaps = 0 /\ Solo /\ \A d \in Caller : pc[d] = "idle"
      BY <2>2, <1>2, DeadletterAssumption
      DEF BeginRequest, Begins, fileVars, ghostVars, limitVars, TypeOK, OrphanInv,
          SoloInv, CallInv, Solo
    <3>2. (\A r \in enqueued : Accounted(r))'
      BY <1>2, <2>2, <3>1, BeginRequestMoves, Typed
      DEF BeginRequest, Begins, Becomes, OthersStay, fileVars, ghostVars, limitVars,
          Accounted, CallTypes, CallInv, CallFits, OrphanInv
    <3>3. QED
      BY <3>2, <2>2 DEF OrphanInv, SoloInv, CallInv
  <2>3. QED
    BY <2>1, <2>2
<1>3. ASSUME NEW c \in Caller, Enqueue(c)
      PROVE  OrphanInv'
  <2>1. CASE overlaps' # 0
    BY <2>1 DEF OrphanInv, SoloInv, CallInv
  <2>2. CASE overlaps' = 0
    <3>1. overlaps = 0 /\ Solo /\ \A d \in Caller \ {c} : pc[d] = "idle"
      BY <2>2, <1>3, DeadletterAssumption
      DEF Enqueue, fileVars, ghostVars, limitVars, TypeOK, OrphanInv, SoloInv, CallInv,
          Solo
    <3>2. (\A r \in enqueued : Accounted(r))'
      BY <1>3, <2>2, <3>1, EnqueueMoves, Typed, DeadletterAssumption
      DEF Enqueue, Becomes, OthersStay, fileVars, ghostVars, limitVars, Accounted,
          CallTypes, CallInv, CallFits, OrphanInv, FileTypes
    <3>3. QED
      BY <3>2, <2>2 DEF OrphanInv, SoloInv, CallInv
  <2>3. QED
    BY <2>1, <2>2
<1>4. ASSUME NEW c \in Caller, EnqueueFails(c)
      PROVE  OrphanInv'
  <2>1. CASE overlaps' # 0
    BY <2>1 DEF OrphanInv, SoloInv, CallInv
  <2>2. CASE overlaps' = 0
    <3>1. overlaps = 0 /\ Solo /\ \A d \in Caller \ {c} : pc[d] = "idle"
      BY <2>2, <1>4, DeadletterAssumption
      DEF EnqueueFails, fileVars, ghostVars, limitVars, TypeOK, OrphanInv, SoloInv,
          CallInv, Solo
    <3>2. (\A r \in enqueued : Accounted(r))'
      BY <1>4, <2>2, <3>1, EnqueueFailsMoves, Typed, DeadletterAssumption
      DEF EnqueueFails, Becomes, OthersStay, fileVars, ghostVars, limitVars, Accounted,
          CallTypes, CallInv, CallFits, OrphanInv, FileTypes
    <3>3. QED
      BY <3>2, <2>2 DEF OrphanInv, SoloInv, CallInv
  <2>3. QED
    BY <2>1, <2>2
<1>5. ASSUME NEW c \in Caller, NEW q \in Recovery, Recover(c, q)
      PROVE  OrphanInv'
  <2>1. CASE overlaps' # 0
    BY <2>1 DEF OrphanInv, SoloInv, CallInv
  <2>2. CASE overlaps' = 0
    <3>1. overlaps = 0 /\ Solo /\ \A d \in Caller : pc[d] = "idle"
      BY <2>2, <1>5, DeadletterAssumption
      DEF Recover, Begins, fileVars, ghostVars, limitVars, TypeOK, OrphanInv, SoloInv,
          CallInv, Solo
    <3>2. (\A r \in enqueued : Accounted(r))'
      BY <1>5, <2>2, <3>1, RecoverMoves, Typed
      DEF Recover, Begins, Becomes, OthersStay, fileVars, ghostVars, limitVars,
          Accounted, CallTypes, CallInv, CallFits, OrphanInv
    <3>3. QED
      BY <3>2, <2>2 DEF OrphanInv, SoloInv, CallInv
  <2>3. QED
    BY <2>1, <2>2
<1>6. ASSUME NEW c \in Caller, ReadDelivery(c)
      PROVE  OrphanInv'
  <2>1. CASE overlaps' # 0
    BY <2>1 DEF OrphanInv, SoloInv, CallInv
  <2>2. CASE overlaps' = 0
    <3>1. overlaps = 0 /\ Solo /\ \A d \in Caller \ {c} : pc[d] = "idle"
      BY <2>2, <1>6, DeadletterAssumption
      DEF ReadDelivery, fileVars, ghostVars, limitVars, TypeOK, OrphanInv, SoloInv,
          CallInv, Solo
    <3>2. (\A r \in enqueued : Accounted(r))'
      BY <1>6, <2>2, <3>1, ReadDeliveryMoves, Typed
      DEF ReadDelivery, Becomes, OthersStay, fileVars, ghostVars, limitVars, Accounted,
          CallTypes, CallInv, CallFits, OrphanInv
    <3>3. QED
      BY <3>2, <2>2 DEF OrphanInv, SoloInv, CallInv
  <2>3. QED
    BY <2>1, <2>2
<1>7. ASSUME NEW c \in Caller, Admit(c)
      PROVE  OrphanInv'
  <2>1. CASE overlaps' # 0
    BY <2>1 DEF OrphanInv, SoloInv, CallInv
  <2>2. CASE overlaps' = 0
    <3>1. overlaps = 0 /\ Solo /\ \A d \in Caller \ {c} : pc[d] = "idle"
      BY <2>2, <1>7, DeadletterAssumption
      DEF Admit, Admitted, Already, fileVars, ghostVars, limitVars, TypeOK, OrphanInv,
          SoloInv, CallInv, Solo
    <3>2. (\A r \in enqueued : Accounted(r))'
      BY <1>7, <2>2, <3>1, AdmitMoves, Typed
      DEF Admit, Admitted, Already, Becomes, OthersStay, fileVars, ghostVars,
          limitVars, Accounted, CallTypes, CallInv, CallFits, OrphanInv
    <3>3. QED
      BY <3>2, <2>2 DEF OrphanInv, SoloInv, CallInv
  <2>3. QED
    BY <2>1, <2>2
<1>8. ASSUME NEW c \in Caller, Refuse(c)
      PROVE  OrphanInv'
  <2>1. CASE overlaps' # 0
    BY <2>1 DEF OrphanInv, SoloInv, CallInv
  <2>2. CASE overlaps' = 0
    <3>1. overlaps = 0 /\ Solo /\ \A d \in Caller \ {c} : pc[d] = "idle"
      BY <2>2, <1>8, DeadletterAssumption
      DEF Refuse, Admitted, Already, fileVars, ghostVars, limitVars, TypeOK, OrphanInv,
          SoloInv, CallInv, Solo
    <3>2. (\A r \in enqueued : Accounted(r))'
      <4>1. step[c] # "request"
        <5>1. SUFFICES ASSUME step[c] = "request"
                      PROVE  FALSE
          OBVIOUS
        <5>2. item.status \in From["request"]
          BY <1>8, <3>1, <5>1 DEF Refuse, Solo, CallSolo
        <5>3. ~ Already(c)
          BY <5>1, <5>2, FromTable, ToTable, Steps DEF Already
        <5>4. Admitted(c)
          BY <5>1, <5>2 DEF Admitted, Processor
        <5>5. QED
          BY <1>8, <5>3, <5>4 DEF Refuse
      <4>2. QED
        BY <1>8, <3>1, <4>1, RefuseMoves, Typed
        DEF Refuse, Becomes, OthersStay, ghostVars, Accounted, OrphanInv
    <3>3. QED
      BY <3>2, <2>2 DEF OrphanInv, SoloInv, CallInv
  <2>3. QED
    BY <2>1, <2>2
<1>9. ASSUME NEW c \in Caller, Find(c)
      PROVE  OrphanInv'
  <2>1. CASE overlaps' # 0
    BY <2>1 DEF OrphanInv, SoloInv, CallInv
  <2>2. CASE overlaps' = 0
    <3>1. overlaps = 0 /\ Solo /\ \A d \in Caller \ {c} : pc[d] = "idle"
      BY <2>2, <1>9, DeadletterAssumption
      DEF Find, Already, fileVars, ghostVars, limitVars, TypeOK, OrphanInv, SoloInv,
          CallInv, Solo
    <3>2. (\A r \in enqueued : Accounted(r))'
      BY <1>9, <2>2, <3>1, FindMoves, Typed
      DEF Find, Already, Becomes, OthersStay, fileVars, ghostVars, limitVars,
          Accounted, CallTypes, CallInv, CallFits, OrphanInv
    <3>3. QED
      BY <3>2, <2>2 DEF OrphanInv, SoloInv, CallInv
  <2>3. QED
    BY <2>1, <2>2
<1>10. ASSUME NEW c \in Caller, Look(c)
      PROVE  OrphanInv'
  <2>1. CASE overlaps' # 0
    BY <2>1 DEF OrphanInv, SoloInv, CallInv
  <2>2. CASE overlaps' = 0
    <3>1. overlaps = 0 /\ Solo /\ \A d \in Caller \ {c} : pc[d] = "idle"
      BY <2>2, <1>10, DeadletterAssumption
      DEF Look, fileVars, ghostVars, limitVars, TypeOK, OrphanInv, SoloInv, CallInv,
          Solo
    <3>2. (\A r \in enqueued : Accounted(r))'
      BY <1>10, <2>2, <3>1, LookMoves, Typed
      DEF Look, Becomes, OthersStay, fileVars, ghostVars, limitVars, Accounted,
          CallTypes, CallInv, CallFits, OrphanInv
    <3>3. QED
      BY <3>2, <2>2 DEF OrphanInv, SoloInv, CallInv
  <2>3. QED
    BY <2>1, <2>2
<1>11. ASSUME NEW c \in Caller, WriteOutput(c)
      PROVE  OrphanInv'
  <2>1. CASE overlaps' # 0
    BY <2>1 DEF OrphanInv, SoloInv, CallInv
  <2>2. CASE overlaps' = 0
    <3>1. overlaps = 0 /\ Solo /\ \A d \in Caller \ {c} : pc[d] = "idle"
      BY <2>2, <1>11, DeadletterAssumption
      DEF WriteOutput, fileVars, ghostVars, limitVars, TypeOK, OrphanInv, SoloInv,
          CallInv, Solo
    <3>2. (\A r \in enqueued : Accounted(r))'
      BY <1>11, <2>2, <3>1, WriteOutputMoves, Typed
      DEF WriteOutput, Becomes, OthersStay, fileVars, ghostVars, limitVars, Accounted,
          CallTypes, CallInv, CallFits, OrphanInv
    <3>3. QED
      BY <3>2, <2>2 DEF OrphanInv, SoloInv, CallInv
  <2>3. QED
    BY <2>1, <2>2
<1>12. ASSUME NEW c \in Caller, Store(c)
      PROVE  OrphanInv'
  <2>1. CASE overlaps' # 0
    BY <2>1 DEF OrphanInv, SoloInv, CallInv
  <2>2. CASE overlaps' = 0
    <3>1. overlaps = 0 /\ Solo /\ \A d \in Caller \ {c} : pc[d] = "idle"
      BY <2>2, <1>12, DeadletterAssumption
      DEF Store, fileVars, ghostVars, limitVars, TypeOK, OrphanInv, SoloInv, CallInv,
          Solo
    <3>2. (\A r \in enqueued : Accounted(r))'
      BY <1>12, <2>2, <3>1, StoreMoves, Typed, StoreTable
      DEF Store, Becomes, OthersStay, fileVars, ghostVars, limitVars, Accounted,
          CallTypes, CallInv, CallFits, OrphanInv
    <3>3. QED
      BY <3>2, <2>2 DEF OrphanInv, SoloInv, CallInv
  <2>3. QED
    BY <2>1, <2>2
<1>13. ASSUME NEW c \in Caller, WriteItem(c)
      PROVE  OrphanInv'
  <2>1. CASE overlaps' # 0
    BY <2>1 DEF OrphanInv, SoloInv, CallInv
  <2>2. CASE overlaps' = 0
    <3>1. overlaps = 0 /\ Solo /\ \A d \in Caller \ {c} : pc[d] = "idle"
      BY <2>2, <1>13, DeadletterAssumption
      DEF WriteItem, Changed, fileVars, ghostVars, limitVars, TypeOK, OrphanInv,
          SoloInv, CallInv, Solo
    <3>2. (\A r \in enqueued : Accounted(r))'
      BY <1>13, <2>2, <3>1, WriteItemMoves, Typed
      DEF WriteItem, Changed, Becomes, OthersStay, fileVars, ghostVars, limitVars,
          Accounted, CallTypes, CallInv, CallFits, OrphanInv
    <3>3. QED
      BY <3>2, <2>2 DEF OrphanInv, SoloInv, CallInv
  <2>3. QED
    BY <2>1, <2>2
<1>14. ASSUME NEW c \in Caller, Reread(c)
      PROVE  OrphanInv'
  <2>1. CASE overlaps' # 0
    BY <2>1 DEF OrphanInv, SoloInv, CallInv
  <2>2. CASE overlaps' = 0
    <3>1. overlaps = 0 /\ Solo /\ \A d \in Caller \ {c} : pc[d] = "idle"
      BY <2>2, <1>14, DeadletterAssumption
      DEF Reread, fileVars, ghostVars, limitVars, TypeOK, OrphanInv, SoloInv, CallInv,
          Solo
    <3>2. (\A r \in enqueued : Accounted(r))'
      BY <1>14, <2>2, <3>1, RereadMoves, Typed
      DEF Reread, Becomes, OthersStay, fileVars, ghostVars, limitVars, Accounted,
          CallTypes, CallInv, CallFits, OrphanInv
    <3>3. QED
      BY <3>2, <2>2 DEF OrphanInv, SoloInv, CallInv
  <2>3. QED
    BY <2>1, <2>2
<1>15. ASSUME NEW c \in Caller, WriteRecord(c)
      PROVE  OrphanInv'
  <2>1. CASE overlaps' # 0
    BY <2>1 DEF OrphanInv, SoloInv, CallInv
  <2>2. CASE overlaps' = 0
    <3>1. overlaps = 0 /\ Solo /\ \A d \in Caller \ {c} : pc[d] = "idle"
      BY <2>2, <1>15, DeadletterAssumption
      DEF WriteRecord, fileVars, ghostVars, limitVars, TypeOK, OrphanInv, SoloInv,
          CallInv, Solo
    <3>2. (\A r \in enqueued : Accounted(r))'
      BY <1>15, <2>2, <3>1, WriteRecordMoves, Typed
      DEF WriteRecord, Becomes, OthersStay, fileVars, ghostVars, limitVars, Accounted,
          CallTypes, CallInv, CallFits, OrphanInv, Solo, CallSolo
    <3>3. QED
      BY <3>2, <2>2 DEF OrphanInv, SoloInv, CallInv
  <2>3. QED
    BY <2>1, <2>2
<1>16. ASSUME NEW c \in Caller, CutShort(c)
      PROVE  OrphanInv'
  <2>1. CASE overlaps' # 0
    BY <2>1 DEF OrphanInv, SoloInv, CallInv
  <2>2. CASE overlaps' = 0
    <3>1. overlaps = 0 /\ Solo /\ \A d \in Caller \ {c} : pc[d] = "idle"
      BY <2>2, <1>16, DeadletterAssumption
      DEF CutShort, fileVars, ghostVars, limitVars, TypeOK, OrphanInv, SoloInv,
          CallInv, Solo
    <3>2. (\A r \in enqueued : Accounted(r))'
      BY <1>16, <2>2, <3>1, CutShortMoves, Typed
      DEF CutShort, Becomes, OthersStay, fileVars, ghostVars, limitVars, Accounted,
          CallTypes, CallInv, CallFits, OrphanInv
    <3>3. QED
      BY <3>2, <2>2 DEF OrphanInv, SoloInv, CallInv
  <2>3. QED
    BY <2>1, <2>2
<1>17. CASE UNCHANGED vars
  BY <1>17
  DEF vars, callVars, fileVars, ghostVars, limitVars, CallFits, CallSolo, Good,
      Accounted, CallTypes, CallInv, OrphanInv, SoloInv
<1>18. QED
  BY <1>1, <1>2, <1>3, <1>4, <1>5, <1>6, <1>7, <1>8, <1>9, <1>10, <1>11, <1>12, <1>13,
     <1>14, <1>15, <1>16, <1>17
  DEF Next, Call

-----------------------------------------------------------------------------
(* What holds of every behaviour *)

\* The invariant holds at first and is kept by every step.
LEMMA Inductive == Spec => []Inv
<1>1. Init => Inv
  <2>1. ASSUME Init
        PROVE  TypeOK
    <3>1. CallTypes
      BY <2>1, NewTypes DEF Init, CallTypes, Place, Delivery
    <3>2. FileTypes
      <4>1. output \in BOOLEAN /\ torn \in BOOLEAN
        BY <2>1, Zenon DEF Init
      <4>2. overlaps \in 0..MaxOverlaps /\ faults \in 0..MaxFaults
        BY <2>1, DeadletterAssumption DEF Init
      <4>3. /\ item \in Item /\ event \in Event /\ delivery \in Delivery
            /\ enqueued = {} /\ verified = {} /\ requested = {} /\ lost = {}
        BY <2>1, NewTypes DEF Init, Delivery
      <4>4. QED
        BY <4>1, <4>2, <4>3 DEF FileTypes
    <3>3. QED
      BY <3>1, <3>2, Typed
  <2>2. ASSUME Init
        PROVE  CallInv /\ FilesInv
    BY <2>2, NewTypes DEF Init, CallInv, CallFits, FilesInv, Good
  <2>3. ASSUME Init
        PROVE  SoloInv /\ OrphanInv
    BY <2>3, NewTypes DEF Init, SoloInv, Solo, CallSolo, Ahead, OrphanInv
  <2>4. QED
    BY <2>1, <2>2, <2>3 DEF Inv
<1>2. Inv /\ [Next]_vars => Inv'
  BY TypeStep, CallStep, FilesStep, SoloStep, OrphanStep DEF Inv
<1>3. QED
  BY <1>1, <1>2, PTL DEF Spec

\* The deadletter, its record, its files and the calls keep their types.
THEOREM TypeCorrect == Spec => []TypeOK
<1>1. Inv => TypeOK
  BY DEF Inv
<1>2. QED
  BY Inductive, <1>1, PTL

\* A settled deadletter was recovered by the event it names, for any number of
\* calls that overlap or are cut short.
THEOREM SettlementIsEarned == Spec => []SettledByItsRun
<1>1. Inv => SettledByItsRun
  BY DEF Inv, FilesInv, Good, SettledByItsRun
<1>2. QED
  BY Inductive, <1>1, PTL

\* Calls that come one after the other, cut short or not, leave the delivery at
\* least as far as the deadletter; a processed delivery has its output in any case.
THEOREM DeliveryKeepsAhead == Spec => []DeliveryIsAhead
<1>1. Inv => DeliveryIsAhead
  BY DEF Inv, FilesInv, SoloInv, Solo, DeliveryIsAhead
<1>2. QED
  BY Inductive, <1>1, PTL

\* Calls that come one after the other leave the record with the deadletter as it
\* is, but for one that was cut short after it wrote the deadletter.
THEOREM TrailFollows == Spec => []TrailAgrees
<1>1. Inv => TrailAgrees
  BY DEF Inv, SoloInv, Solo, TrailAgrees
<1>2. QED
  BY Inductive, <1>1, PTL

\* Calls that come one after the other leave a recovery event that no deadletter
\* named only if its request was cut short.
THEOREM OrphansAreAccountedFor == Spec => []OrphansAreCutShort
<1>1. Inv => OrphansAreCutShort
  BY DEF Inv, OrphanInv, Accounted, OrphansAreCutShort
<1>2. QED
  BY Inductive, <1>1, PTL

=============================================================================
