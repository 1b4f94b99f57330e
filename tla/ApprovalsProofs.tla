--------------------------- MODULE ApprovalsProofs ---------------------------
(***************************************************************************)
(* Proofs about Approvals, for any numbers of requests, deciding calls,    *)
(* consumers, calls and faults.                                            *)
(***************************************************************************)
EXTENDS Approvals, TLAPS

\* A request has a file as soon as it is made, and before that it has none.
HasFile(a, fs) == \E f \in fs : file[f][a] # "absent"

FilesInv ==
    /\ \A a \in Requested : HasFile(a, Folder)
    /\ \A a \in Approval \ Requested, f \in Folder : file[f][a] = "absent"
    /\ \A a \in Approval : file["approved"][a] \in Readable => a \in granted

\* A deciding call that has opened the file of its decision has it on disk.
DecidersInv ==
    \A d \in Decider :
        /\ pc[d] # "idle" => deciding[d] \in Requested
        /\ pc[d] \in {"write", "unlink"} => file[status[d]][deciding[d]] # "absent"

\* The folders that a look-up has not reached yet hold a file of its request.
Ahead(k) == {LookupOrder[i] : i \in k..4}

LookInv ==
    \A c \in Consumer :
        /\ at[c] # "idle" => using[c] \in Requested /\ wants[c] \in Payload
        /\ at[c] = "find" => HasFile(using[c], Ahead(folder[c]))
        /\ found[c] # "missing"
        /\ found[c] = "approved" => using[c] \in granted
        /\ at[c] = "idle" => folder[c] = 1 /\ found[c] = "none"
        /\ at[c] = "run" => found[c] = "approved" /\ payload[using[c]] = wants[c]

\* A request that is not contested is in the hands of one call at most; it is
\* pending until that call unlinks it, and what is decided is what that call
\* decides, or once decided.
DecidedInv ==
    \A a \in Approval \ contested :
        /\ \A d, e \in Decider :
               Holds(d) /\ Holds(e) /\ deciding[d] = a /\ deciding[e] = a => d = e
        /\ \A d \in Decider :
               Holds(d) /\ deciding[d] = a => file["pending"][a] # "absent"
        /\ file["pending"][a] # "absent" =>
               /\ told[a] = {}
               /\ \A s \in Decision : file[s][a] # "absent" =>
                      \E d \in Decider : /\ pc[d] \in {"write", "unlink"}
                                         /\ deciding[d] = a /\ status[d] = s

\* A call of the builder past its receipt has it on disk.  A request that the
\* builder did not take up again is in the hands of one such call at most, whose
\* receipt nobody overwrites, and has no decision of the builder before.
ReceiptInv ==
    /\ \A d \in Operator : kind[d] = "operator"
    /\ \A d \in Builder : pc[d] # "idle" =>
           /\ kind[d] \in Kind
           /\ pc[d] # "receipt" => receipts[kind[d]][deciding[d]] # "absent"
           /\ deciding[d] \notin repeated =>
                  /\ pc[d] = "fill" => receipts[kind[d]][deciding[d]] = "empty"
                  /\ pc[d] \in {"decide", "open", "write", "unlink"} =>
                         receipts[kind[d]][deciding[d]] = status[d]
                  /\ pc[d] \in {"receipt", "fill"} =>
                         \A s \in Decision : file[s][deciding[d]] \notin Kind
                  /\ \A e \in Builder : pc[e] # "idle" /\ deciding[e] = deciding[d] => e = d

Inv == /\ TypeOK
       /\ FilesInv
       /\ DecidersInv
       /\ LookInv
       /\ DecidedInv
       /\ DecisionIsFinal
       /\ ReceiptInv
       /\ BuilderIsReceipted

-----------------------------------------------------------------------------
(* The steps of a kind, seen by the other actors *)

\* The folders are looked through in this order, and there is no other.
LEMMA FourFolders ==
    /\ Len(LookupOrder) = 4
    /\ LookupOrder[1] = "pending"
    /\ LookupOrder[2] = "approved"
    /\ LookupOrder[3] = "rejected"
    /\ LookupOrder[4] = "emergency"
    /\ \A i \in 1..4 : LookupOrder[i] \in Folder
    /\ Ahead(1) = Folder
<1>1. \A i \in 1..4 : LookupOrder[i] \in Folder
  BY DEF LookupOrder, Folder, Decision
<1>2. Folder \subseteq Ahead(1)
  <2>1. \A i \in {1, 2, 3, 4} : LookupOrder[i] \in Ahead(1)
    BY DEF Ahead
  <2>2. QED
    BY <2>1 DEF LookupOrder, Folder, Decision
<1>3. QED
  BY <1>1, <1>2 DEF LookupOrder, Ahead

\* A consumer changes nothing of the records but by a new request.
Requesting ==
    /\ UNCHANGED <<receipts, delegated, deciderVars, ghostVars>>
    /\ \/ UNCHANGED <<payload, file>>
       \/ \E a \in Approval, q \in Payload : NewRequest(a, q)

\* What run_supervised_exec and run_git_push write is new requests.
LEMMA RequestFrame ==
    /\ \A q \in Payload : Ask(q) => Requesting
    /\ TypeOK /\ LookInv => \A c \in Consumer : Consume(c) => Requesting
<1>1. ASSUME NEW q \in Payload, Ask(q) PROVE Requesting
  BY <1>1 DEF Ask, Requesting
<1>2. ASSUME TypeOK, LookInv, NEW c \in Consumer, Refresh(c) PROVE Requesting
  <2>1. wants[c] \in Payload
    BY <1>2 DEF Refresh, LookInv, TypeOK
  <2>2. QED
    BY <1>2, <2>1 DEF Refresh, Requesting
<1>3. ASSUME NEW c \in Consumer, Consume(c), ~ Refresh(c) PROVE Requesting
  BY <1>3 DEF Consume, Resume, Look, Read, TurnAway, Execute, Finish, Requesting,
      fileVars
<1>4. QED
  BY <1>1, <1>2, <1>3

\* A deciding call leaves the consumers alone; once a request has the file of a
\* decision, it keeps it, and it has one before its pending file goes.
Deciding ==
    /\ UNCHANGED <<payload, consumerVars>>
    /\ granted \subseteq granted'
    /\ contested \subseteq contested'
    /\ \A a \in Approval, s \in Decision :
           file[s][a] # "absent" => file'[s][a] # "absent"
    /\ \A a \in Approval :
           file["pending"][a] = "absent" => file'["pending"][a] = "absent"
    /\ \A a \in Approval :
           file["pending"][a] # "absent" =>
               \E f \in Folder : file'[f][a] # "absent"

\* decide and builder_self_decide, step by step.
LEMMA DecideFrame ==
    ASSUME TypeOK, DecidersInv, NEW d \in Decider, Decide(d)
    PROVE  Deciding
<1>1. ASSUME NEW a \in Approval, NEW s \in Decision, Evaluate(d, a, s)
      PROVE  Deciding
  BY <1>1
  DEF Kind, Evaluate, Goto, Deciding, TypeOK, DecidersInv, Requested, Decision,
      Folder, fileVars, ghostVars
<1>2. ASSUME OpenReceipt(d) \/ WriteReceipt(d)
      PROVE  Deciding
  BY <1>2
  DEF Kind, OpenReceipt, WriteReceipt, Goto, Deciding, TypeOK, DecidersInv, Requested, Decision,
      Folder, fileVars, ghostVars
<1>3. ASSUME NEW a \in Approval, NEW s \in Decision, Call(d, a, s)
      PROVE  Deciding
  BY <1>3
  DEF Call, Goto, Deciding, TypeOK, DecidersInv, Requested, Decision, Folder,
      fileVars, ghostVars
<1>4. ASSUME ReadPending(d)
      PROVE  Deciding
  BY <1>4
  DEF ReadPending, Goto, Deciding, TypeOK, DecidersInv, Requested, Decision,
      Folder, fileVars, ghostVars
<1>5. ASSUME NotPending(d)
      PROVE  Deciding
  BY <1>5
  DEF NotPending, Return, Goto, Deciding, TypeOK, DecidersInv, Requested,
      Decision, Folder, fileVars, ghostVars
<1>6. ASSUME Open(d)
      PROVE  Deciding
  BY <1>6
  DEF Kind, Open, Goto, Deciding, TypeOK, DecidersInv, Requested, Decision, Folder,
      fileVars, ghostVars
<1>7. ASSUME WriteDecision(d)
      PROVE  Deciding
  BY <1>7
  DEF Kind, WriteDecision, Goto, Deciding, TypeOK, DecidersInv, Requested,
      Decision, Folder, fileVars, ghostVars
<1>8. ASSUME Unlink(d)
      PROVE  Deciding
  BY <1>8
  DEF Unlink, Return, Goto, Deciding, TypeOK, DecidersInv, Requested, Decision,
      Folder, fileVars, ghostVars
<1>9. ASSUME UnlinkFails(d)
      PROVE  Deciding
  BY <1>9
  DEF UnlinkFails, Return, Goto, Deciding, TypeOK, DecidersInv, Requested,
      Decision, Folder, fileVars, ghostVars
<1>10. ASSUME Interrupted(d)
      PROVE  Deciding
  BY <1>10
  DEF Interrupted, Return, Goto, Deciding, TypeOK, DecidersInv, Requested,
      Decision, Folder, fileVars, ghostVars
<1>11. QED
  BY <1>1, <1>2, <1>3, <1>4, <1>5, <1>6, <1>7, <1>8, <1>9, <1>10
  DEF Decide

-----------------------------------------------------------------------------
(* Each part of the invariant is preserved *)

\* The types need that a deciding call has a request.
LEMMA TypeStep ==
    ASSUME TypeOK, FilesInv, DecidersInv, [Next]_vars
    PROVE  TypeOK'
<1>1. ASSUME NEW d \in Decider, NEW a \in Approval, NEW s \in Decision, Evaluate(d, a, s)
      PROVE  TypeOK'
  <2>1. KindOf(payload[a]) \in Kind
    BY DEF KindOf, Kind
  <2>2. a \in Requested
    BY <1>1 DEF Evaluate, FilesInv, Folder
  <2>3. /\ pc' \in [Decider -> {"idle", "receipt", "fill", "decide", "open", "write", "unlink"}]
        /\ deciding' \in [Decider -> Approval \cup {NoApproval}]
        /\ status' \in [Decider -> Decision]
    BY <1>1 DEF Evaluate, Goto, TypeOK
  <2>4. kind' \in [Decider -> {"operator"} \cup Kind]
    BY <1>1, <2>1 DEF Evaluate, TypeOK
  <2>5. repeated' \subseteq Requested /\ calls' \in 0..MaxCalls
    BY <1>1, <2>2, ApprovalAssumption DEF Evaluate, TypeOK
  <2>6. UNCHANGED <<payload, file, receipts, delegated, at, using, wants, folder, found,
                    granted, told, contested, faults>>
    BY <1>1 DEF Evaluate, fileVars, consumerVars
  <2>7. QED
    BY <2>3, <2>4, <2>5, <2>6 DEF TypeOK, Requested
<1>2. ASSUME NEW d \in Decider, OpenReceipt(d) \/ WriteReceipt(d)
      PROVE  TypeOK'
  <2>1. kind[d] \in {"operator"} \cup Kind /\ status[d] \in Decision
    BY DEF TypeOK
  <2>2. receipts' \in [Kind -> [Approval -> Receipt]]
    <3>1. ASSUME NEW t \in Receipt,
                 receipts' = [receipts EXCEPT ![kind[d]][deciding[d]] = t]
          PROVE  receipts' \in [Kind -> [Approval -> Receipt]]
      BY <3>1 DEF TypeOK
    <3>2. {"empty", "mixed", status[d]} \subseteq Receipt
      BY <2>1 DEF Receipt
    <3>3. \E t \in {"empty", "mixed", status[d]} :
              receipts' = [receipts EXCEPT ![kind[d]][deciding[d]] = t]
      BY <1>2 DEF OpenReceipt, WriteReceipt
    <3>4. QED
      BY <3>1, <3>2, <3>3
  <2>3. pc' \in [Decider -> {"idle", "receipt", "fill", "decide", "open", "write", "unlink"}]
    BY <1>2 DEF OpenReceipt, WriteReceipt, Goto, TypeOK
  <2>4. UNCHANGED <<payload, file, delegated, deciding, status, kind, at, using, wants,
                    folder, found, granted, told, contested, repeated, calls, faults>>
    BY <1>2 DEF OpenReceipt, WriteReceipt, consumerVars, ghostVars
  <2>5. QED
    BY <2>2, <2>3, <2>4 DEF TypeOK, Requested
<1>3. ASSUME NEW d \in Decider, NEW a \in Approval, NEW s \in Decision, Call(d, a, s)
      PROVE  TypeOK'
  BY <1>3, ApprovalAssumption
  DEF Call, Goto, TypeOK, Requested, Decision, DecidersInv, fileVars,
      deciderVars, consumerVars, ghostVars
<1>4. ASSUME NEW d \in Decider, ReadPending(d)
      PROVE  TypeOK'
  BY <1>4, ApprovalAssumption
  DEF ReadPending, Goto, TypeOK, Requested, Decision, DecidersInv, fileVars,
      deciderVars, consumerVars, ghostVars
<1>5. ASSUME NEW d \in Decider, NotPending(d)
      PROVE  TypeOK'
  BY <1>5, ApprovalAssumption
  DEF NotPending, Return, Goto, TypeOK, Requested, Decision, DecidersInv,
      fileVars, deciderVars, consumerVars, ghostVars
<1>6. ASSUME NEW d \in Decider, Open(d)
      PROVE  TypeOK'
  BY <1>6, ApprovalAssumption
  DEF Open, Goto, TypeOK, Requested, Decision, DecidersInv, Folder, Content, Kind,
      Readable, fileVars, deciderVars, consumerVars, ghostVars
<1>7. ASSUME NEW d \in Decider, WriteDecision(d)
      PROVE  TypeOK'
  BY <1>7, ApprovalAssumption
  DEF WriteDecision, Goto, TypeOK, Requested, Decision, DecidersInv,
      Folder, Content, Kind, Readable, fileVars, deciderVars, consumerVars, ghostVars
<1>8. ASSUME NEW d \in Decider, Unlink(d)
      PROVE  TypeOK'
  BY <1>8, ApprovalAssumption
  DEF Unlink, Return, Goto, TypeOK, Requested, Decision, DecidersInv, Folder,
      Content, Kind, Readable, fileVars, deciderVars, consumerVars, ghostVars
<1>9. ASSUME NEW d \in Decider, UnlinkFails(d)
      PROVE  TypeOK'
  BY <1>9, ApprovalAssumption
  DEF UnlinkFails, Return, Goto, TypeOK, Requested, Decision, DecidersInv,
      fileVars, deciderVars, consumerVars, ghostVars
<1>10. ASSUME NEW d \in Decider, Interrupted(d)
      PROVE  TypeOK'
  BY <1>10, ApprovalAssumption
  DEF Interrupted, Return, Goto, TypeOK, Requested, Decision, DecidersInv,
      fileVars, deciderVars, consumerVars, ghostVars
<1>11. ASSUME NEW c \in Consumer, NEW a \in Approval, NEW q \in Payload, Resume(c, a, q)
      PROVE  TypeOK'
  BY <1>11, ApprovalAssumption
  DEF Resume, Step, TypeOK, Requested, Decision, DecidersInv, fileVars,
      deciderVars, consumerVars, ghostVars
<1>12. ASSUME NEW c \in Consumer, Look(c)
      PROVE  TypeOK'
  <2>1. CASE file[LookupOrder[folder[c]]][using[c]] # "absent"
    BY <1>12, <2>1 DEF Look, Step, TypeOK, Requested, fileVars, deciderVars, ghostVars
  <2>2. CASE file[LookupOrder[folder[c]]][using[c]] = "absent" /\ folder[c] < 4
    <3>1. folder[c] + 1 \in 1..4
      BY <2>2 DEF TypeOK
    <3>2. QED
      BY <1>12, <2>2, <3>1, FourFolders
      DEF Look, TypeOK, Requested, fileVars, deciderVars, ghostVars
  <2>3. CASE file[LookupOrder[folder[c]]][using[c]] = "absent" /\ ~ (folder[c] < 4)
    BY <1>12, <2>3, FourFolders
    DEF Look, Step, TypeOK, Requested, fileVars, deciderVars, ghostVars
  <2>4. QED
    BY <2>1, <2>2, <2>3
<1>13. ASSUME NEW c \in Consumer, Read(c)
      PROVE  TypeOK'
  BY <1>13, ApprovalAssumption, FourFolders
  DEF Read, Step, TypeOK, Requested, Decision, Folder, Content, Kind, Readable,
      fileVars, deciderVars, consumerVars, ghostVars
<1>14. ASSUME NEW c \in Consumer, Refresh(c)
      PROVE  TypeOK'
  BY <1>14, ApprovalAssumption
  DEF Refresh, Answer, Step, NewRequest, TypeOK, Requested, Decision,
      DecidersInv, Folder, Content, Kind, Readable, fileVars, deciderVars,
      consumerVars, ghostVars
<1>15. ASSUME NEW c \in Consumer, TurnAway(c)
      PROVE  TypeOK'
  BY <1>15, ApprovalAssumption
  DEF TurnAway, Answer, Step, TypeOK, Requested, Decision, DecidersInv,
      fileVars, deciderVars, consumerVars, ghostVars
<1>16. ASSUME NEW c \in Consumer, Execute(c)
      PROVE  TypeOK'
  BY <1>16, ApprovalAssumption
  DEF Execute, Step, TypeOK, Requested, Decision, DecidersInv, fileVars,
      deciderVars, consumerVars, ghostVars
<1>17. ASSUME NEW c \in Consumer, Finish(c)
      PROVE  TypeOK'
  BY <1>17, ApprovalAssumption
  DEF Finish, Answer, Step, TypeOK, Requested, Decision, DecidersInv, fileVars,
      deciderVars, consumerVars, ghostVars
<1>18. ASSUME NEW q \in Payload, Ask(q)
      PROVE  TypeOK'
  BY <1>18
  DEF Ask, NewRequest, TypeOK, Requested, Decision, Folder, Content, Kind, Readable,
      consumerVars, ghostVars, deciderVars
<1>19. ASSUME NEW g \in Delegations, Expire(g)
      PROVE  TypeOK'
  BY <1>19
  DEF Expire, TypeOK, Requested, Decision, fileVars, deciderVars, consumerVars,
      ghostVars
<1>20. CASE UNCHANGED vars
  BY <1>20
  DEF TypeOK, Requested, Decision, vars, fileVars, deciderVars, consumerVars,
      ghostVars
<1>21. QED
  BY <1>1, <1>2, <1>3, <1>4, <1>5, <1>6, <1>7, <1>8, <1>9, <1>10, <1>11, <1>12,
     <1>13, <1>14, <1>15, <1>16, <1>17, <1>18, <1>19, <1>20
  DEF Next, Decide, Consume

\* Who decides a request has found it in the pending folder.
LEMMA DecidersStep ==
    ASSUME TypeOK, FilesInv, LookInv, DecidersInv, [Next]_vars
    PROVE  DecidersInv'
<1>1. ASSUME NEW d \in Decider, NEW a \in Approval, NEW s \in Decision, Evaluate(d, a, s)
      PROVE  DecidersInv'
  BY <1>1, ApprovalAssumption
  DEF Kind, Evaluate, KindOf, Goto, TypeOK, Requested, Decision, DecidersInv, FilesInv,
      Folder, fileVars, deciderVars, consumerVars, ghostVars
<1>2. ASSUME NEW d \in Decider, OpenReceipt(d) \/ WriteReceipt(d)
      PROVE  DecidersInv'
  BY <1>2, ApprovalAssumption
  DEF Kind, OpenReceipt, WriteReceipt, Goto, TypeOK, Requested, Decision, DecidersInv, fileVars,
      deciderVars, consumerVars, ghostVars
<1>3. ASSUME NEW d \in Decider, NEW a \in Approval, NEW s \in Decision, Call(d, a, s)
      PROVE  DecidersInv'
  BY <1>3, ApprovalAssumption
  DEF Call, Goto, TypeOK, Requested, Decision, DecidersInv, fileVars,
      deciderVars, consumerVars, ghostVars
<1>4. ASSUME NEW d \in Decider, ReadPending(d)
      PROVE  DecidersInv'
  BY <1>4, ApprovalAssumption
  DEF ReadPending, Goto, TypeOK, Requested, Decision, DecidersInv, fileVars,
      deciderVars, consumerVars, ghostVars
<1>5. ASSUME NEW d \in Decider, NotPending(d)
      PROVE  DecidersInv'
  BY <1>5, ApprovalAssumption
  DEF NotPending, Return, Goto, TypeOK, Requested, Decision, DecidersInv,
      fileVars, deciderVars, consumerVars, ghostVars
<1>6. ASSUME NEW d \in Decider, Open(d)
      PROVE  DecidersInv'
  BY <1>6, ApprovalAssumption
  DEF Kind, Open, Goto, TypeOK, Requested, Decision, DecidersInv, Folder, Content,
      fileVars, deciderVars, consumerVars, ghostVars
<1>7. ASSUME NEW d \in Decider, WriteDecision(d)
      PROVE  DecidersInv'
  BY <1>7, ApprovalAssumption
  DEF Kind, WriteDecision, Goto, TypeOK, Requested, Decision, DecidersInv,
      fileVars, deciderVars, consumerVars, ghostVars
<1>8. ASSUME NEW d \in Decider, Unlink(d)
      PROVE  DecidersInv'
  BY <1>8, ApprovalAssumption
  DEF Unlink, Return, Goto, TypeOK, Requested, Decision, DecidersInv, fileVars,
      deciderVars, consumerVars, ghostVars
<1>9. ASSUME NEW d \in Decider, UnlinkFails(d)
      PROVE  DecidersInv'
  BY <1>9, ApprovalAssumption
  DEF UnlinkFails, Return, Goto, TypeOK, Requested, Decision, DecidersInv,
      fileVars, deciderVars, consumerVars, ghostVars
<1>10. ASSUME NEW d \in Decider, Interrupted(d)
      PROVE  DecidersInv'
  BY <1>10, ApprovalAssumption
  DEF Interrupted, Return, Goto, TypeOK, Requested, Decision, DecidersInv,
      fileVars, deciderVars, consumerVars, ghostVars
<1>11. CASE Requesting
  BY <1>11, ApprovalAssumption
  DEF Requesting, NewRequest, TypeOK, Requested, Decision, DecidersInv, Folder,
      deciderVars, ghostVars
<1>12. ASSUME NEW g \in Delegations, Expire(g)
      PROVE  DecidersInv'
  BY <1>12
  DEF Expire, TypeOK, Requested, Decision, DecidersInv, fileVars, deciderVars,
      consumerVars, ghostVars
<1>13. CASE UNCHANGED vars
  BY <1>13
  DEF TypeOK, Requested, Decision, DecidersInv, vars, fileVars, deciderVars,
      consumerVars, ghostVars
<1>14. QED
  BY <1>1, <1>2, <1>3, <1>4, <1>5, <1>6, <1>7, <1>8, <1>9, <1>10, <1>11, <1>12,
     <1>13, RequestFrame
  DEF Next, Decide

\* A request has a file; who finds an approval finds one that was written.
LEMMA FilesStep ==
    ASSUME TypeOK, LookInv, DecidersInv, FilesInv, [Next]_vars
    PROVE  FilesInv'
<1>1. ASSUME NEW d \in Decider, NEW a \in Approval, NEW s \in Decision, Evaluate(d, a, s)
      PROVE  FilesInv'
  BY <1>1, ApprovalAssumption
  DEF Kind, Evaluate, KindOf, Goto, TypeOK, Requested, Decision, FilesInv, HasFile, Folder,
      DecidersInv, fileVars, deciderVars, consumerVars, ghostVars
<1>2. ASSUME NEW d \in Decider, OpenReceipt(d) \/ WriteReceipt(d)
      PROVE  FilesInv'
  BY <1>2, ApprovalAssumption
  DEF Kind, OpenReceipt, WriteReceipt, Goto, TypeOK, Requested, Decision, FilesInv, HasFile,
      Folder, DecidersInv, fileVars, deciderVars, consumerVars, ghostVars
<1>3. ASSUME NEW d \in Decider, NEW a \in Approval, NEW s \in Decision, Call(d, a, s)
      PROVE  FilesInv'
  BY <1>3, ApprovalAssumption
  DEF Call, Goto, TypeOK, Requested, Decision, FilesInv, HasFile, Folder,
      DecidersInv, fileVars, deciderVars, consumerVars, ghostVars
<1>4. ASSUME NEW d \in Decider, ReadPending(d)
      PROVE  FilesInv'
  BY <1>4, ApprovalAssumption
  DEF ReadPending, Goto, TypeOK, Requested, Decision, FilesInv, HasFile,
      Folder, DecidersInv, fileVars, deciderVars, consumerVars, ghostVars
<1>5. ASSUME NEW d \in Decider, NotPending(d)
      PROVE  FilesInv'
  BY <1>5, ApprovalAssumption
  DEF NotPending, Return, Goto, TypeOK, Requested, Decision, FilesInv, HasFile,
      Folder, DecidersInv, fileVars, deciderVars, consumerVars, ghostVars
<1>6. ASSUME NEW d \in Decider, Open(d)
      PROVE  FilesInv'
  BY <1>6, ApprovalAssumption
  DEF Kind, Open, Goto, TypeOK, Requested, Decision, FilesInv, HasFile, Folder,
      DecidersInv, Readable, fileVars, deciderVars, consumerVars,
      ghostVars
<1>7. ASSUME NEW d \in Decider, WriteDecision(d)
      PROVE  FilesInv'
  BY <1>7, ApprovalAssumption
  DEF Kind, WriteDecision, Goto, TypeOK, Requested, Decision, FilesInv,
      HasFile, Folder, DecidersInv, Readable, fileVars, deciderVars,
      consumerVars, ghostVars
<1>8. ASSUME NEW d \in Decider, Unlink(d)
      PROVE  FilesInv'
  BY <1>8, ApprovalAssumption
  DEF Unlink, Return, Goto, TypeOK, Requested, Decision, FilesInv, HasFile,
      Folder, DecidersInv, fileVars, deciderVars, consumerVars, ghostVars
<1>9. ASSUME NEW d \in Decider, UnlinkFails(d)
      PROVE  FilesInv'
  BY <1>9, ApprovalAssumption
  DEF UnlinkFails, Return, Goto, TypeOK, Requested, Decision, FilesInv,
      HasFile, Folder, DecidersInv, fileVars, deciderVars, consumerVars,
      ghostVars
<1>10. ASSUME NEW d \in Decider, Interrupted(d)
      PROVE  FilesInv'
  BY <1>10, ApprovalAssumption
  DEF Interrupted, Return, Goto, TypeOK, Requested, Decision, FilesInv,
      HasFile, Folder, DecidersInv, fileVars, deciderVars, consumerVars,
      ghostVars
<1>11. CASE Requesting
  BY <1>11, ApprovalAssumption
  DEF Requesting, NewRequest, TypeOK, Requested, Decision, FilesInv, HasFile,
      Folder, DecidersInv, Content, Kind, Readable, deciderVars, ghostVars
<1>12. ASSUME NEW g \in Delegations, Expire(g)
      PROVE  FilesInv'
  BY <1>12
  DEF Expire, TypeOK, Requested, Decision, FilesInv, HasFile, Folder,
      DecidersInv, fileVars, deciderVars, consumerVars, ghostVars
<1>13. CASE UNCHANGED vars
  BY <1>13
  DEF TypeOK, Requested, Decision, FilesInv, HasFile, Folder, DecidersInv,
      vars, fileVars, deciderVars, consumerVars, ghostVars
<1>14. QED
  BY <1>1, <1>2, <1>3, <1>4, <1>5, <1>6, <1>7, <1>8, <1>9, <1>10, <1>11, <1>12,
     <1>13, RequestFrame
  DEF Next, Decide

\* A look-up is ahead of a file of its request, whoever decides meanwhile.
LEMMA LookStep ==
    ASSUME TypeOK, DecidersInv, FilesInv, LookInv, [Next]_vars
    PROVE  LookInv'
<1>1. ASSUME NEW d \in Decider, Decide(d)
      PROVE  LookInv'
  <2>1. Deciding
    BY <1>1, DecideFrame
  <2>2. ASSUME NEW c \in Consumer, at[c] = "find"
        PROVE  HasFile(using[c], Ahead(folder[c]))'
    <3>1. using[c] \in Approval /\ HasFile(using[c], Ahead(folder[c]))
      BY <2>2 DEF LookInv, Requested
    <3>2. CASE folder[c] = 1
      BY <2>1, <3>1, <3>2, FourFolders DEF Deciding, HasFile, consumerVars, Folder
    <3>3. CASE folder[c] # 1
      <4>1. \A i \in folder[c]..4 : LookupOrder[i] \in Decision
        BY <3>3, FourFolders DEF TypeOK, Decision
      <4>2. QED
        BY <2>1, <3>1, <4>1 DEF Deciding, HasFile, consumerVars, Ahead
    <3>4. QED
      BY <3>2, <3>3
  <2>3. QED
    BY <2>1, <2>2 DEF Deciding, LookInv, Requested, consumerVars
<1>2. ASSUME NEW c \in Consumer, NEW a \in Approval, NEW q \in Payload, Resume(c, a, q)
      PROVE  LookInv'
  <2>1. HasFile(a, Ahead(1))
    BY <1>2, FourFolders DEF Resume, FilesInv
  <2>2. folder[c] = 1 /\ found[c] = "none"
    BY <1>2 DEF Resume, LookInv
  <2>3. QED
    BY <1>2, <2>1, <2>2
    DEF Resume, Step, TypeOK, Requested, LookInv, HasFile, fileVars, ghostVars
<1>3. ASSUME NEW c \in Consumer, Look(c)
      PROVE  LookInv'
  BY <1>3, ApprovalAssumption, FourFolders
  DEF Look, Step, TypeOK, Requested, Decision, LookInv, HasFile, Ahead, Folder,
      fileVars, deciderVars, consumerVars, ghostVars
<1>4. ASSUME NEW c \in Consumer, Read(c)
      PROVE  LookInv'
  BY <1>4, ApprovalAssumption, FourFolders
  DEF Read, Step, TypeOK, Requested, Decision, LookInv, HasFile, Ahead, Folder,
      FilesInv, fileVars, deciderVars, consumerVars, ghostVars
<1>5. ASSUME NEW c \in Consumer, Refresh(c)
      PROVE  LookInv'
  <2>1. /\ \A a \in Requested : a \in Requested' /\ payload'[a] = payload[a]
        /\ \A a \in Approval, f \in Folder :
               file[f][a] # "absent" => file'[f][a] # "absent"
    BY <1>5, ApprovalAssumption
    DEF Refresh, NewRequest, LookInv, TypeOK, Requested, Folder
  <2>2. \A k : Ahead(k)' = Ahead(k)
    BY DEF Ahead
  <2>3. \A k \in 1..4 : Ahead(k) \subseteq Folder
    BY FourFolders DEF Ahead
  <2>4. ASSUME NEW e \in Consumer, at'[e] = "find"
        PROVE  HasFile(using[e], Ahead(folder[e]))'
    <3>1. /\ e # c /\ at[e] = "find"
          /\ using'[e] = using[e] /\ folder'[e] = folder[e]
      BY <1>5, <2>4 DEF Refresh, Answer, Step, TypeOK
    <3>2. HasFile(using[e], Ahead(folder[e])) /\ folder[e] \in 1..4
              /\ using[e] \in Approval
      BY <3>1 DEF LookInv, TypeOK, Requested
    <3>3. QED
      BY <2>1, <2>2, <2>3, <3>1, <3>2 DEF HasFile
  <2>5. QED
    BY <1>5, <2>1, <2>4 DEF Refresh, Answer, Step, TypeOK, LookInv, ghostVars
<1>6. ASSUME NEW c \in Consumer, TurnAway(c)
      PROVE  LookInv'
  BY <1>6, ApprovalAssumption
  DEF TurnAway, Answer, Step, TypeOK, Requested, Decision, LookInv, HasFile,
      Ahead, Folder, fileVars, deciderVars, consumerVars, ghostVars
<1>7. ASSUME NEW c \in Consumer, Execute(c)
      PROVE  LookInv'
  BY <1>7, ApprovalAssumption
  DEF Execute, Step, TypeOK, Requested, Decision, LookInv, HasFile, Ahead,
      Folder, Matches, fileVars, deciderVars, consumerVars, ghostVars
<1>8. ASSUME NEW c \in Consumer, Finish(c)
      PROVE  LookInv'
  BY <1>8, ApprovalAssumption
  DEF Finish, Answer, Step, TypeOK, Requested, Decision, LookInv, HasFile,
      Ahead, Folder, fileVars, deciderVars, consumerVars, ghostVars
<1>9. ASSUME NEW q \in Payload, Ask(q)
      PROVE  LookInv'
  BY <1>9
  DEF Ask, NewRequest, TypeOK, Requested, Decision, LookInv, HasFile, Ahead,
      Folder, consumerVars, ghostVars, deciderVars
<1>10. ASSUME NEW g \in Delegations, Expire(g)
      PROVE  LookInv'
  BY <1>10
  DEF Expire, TypeOK, Requested, Decision, LookInv, HasFile, Ahead, Folder,
      fileVars, deciderVars, consumerVars, ghostVars
<1>11. CASE UNCHANGED vars
  BY <1>11
  DEF TypeOK, Requested, Decision, LookInv, HasFile, Ahead, Folder, vars,
      fileVars, deciderVars, consumerVars, ghostVars
<1>12. QED
  BY <1>1, <1>2, <1>3, <1>4, <1>5, <1>6, <1>7, <1>8, <1>9, <1>10, <1>11
  DEF Next, Consume

\* A request is decided by one call, unless it is contested.
LEMMA DecidedStep ==
    ASSUME TypeOK, LookInv, FilesInv, DecidersInv, DecidedInv, DecisionIsFinal, [Next]_vars
    PROVE  (DecidedInv /\ DecisionIsFinal)'
<1>1. ASSUME NEW d \in Decider, NEW a \in Approval, NEW s \in Decision, Evaluate(d, a, s)
      PROVE  (DecidedInv /\ DecisionIsFinal)'
  <2>1. UNCHANGED <<file, told, contested>>
    BY <1>1 DEF Evaluate, fileVars
  <2>2. ASSUME NEW e \in Decider
        PROVE  /\ Holds(e)' => Holds(e) /\ deciding'[e] = deciding[e]
               /\ pc[e] \in {"write", "unlink"} =>
                      /\ pc'[e] = pc[e]
                      /\ deciding'[e] = deciding[e]
                      /\ status'[e] = status[e]
    BY <1>1, <2>2 DEF Evaluate, Goto, TypeOK, Holds
  <2>3. QED
    BY <2>1, <2>2 DEF DecidedInv, DecisionIsFinal
<1>2. ASSUME NEW d \in Decider, OpenReceipt(d) \/ WriteReceipt(d)
      PROVE  (DecidedInv /\ DecisionIsFinal)'
  BY <1>2, ApprovalAssumption
  DEF Kind, OpenReceipt, WriteReceipt, Goto, TypeOK, Requested, Decision, DecidedInv,
      DecisionIsFinal, Holds, DecidersInv, fileVars, deciderVars, consumerVars,
      ghostVars
<1>3. ASSUME NEW d \in Decider, NEW a \in Approval, NEW s \in Decision, Call(d, a, s)
      PROVE  (DecidedInv /\ DecisionIsFinal)'
  BY <1>3, ApprovalAssumption
  DEF Call, Goto, TypeOK, Requested, Decision, DecidedInv, DecisionIsFinal,
      Holds, DecidersInv, fileVars, deciderVars, consumerVars, ghostVars
<1>4. ASSUME NEW d \in Decider, ReadPending(d)
      PROVE  (DecidedInv /\ DecisionIsFinal)'
  BY <1>4, ApprovalAssumption
  DEF ReadPending, Goto, TypeOK, Requested, Decision, DecidedInv,
      DecisionIsFinal, Holds, DecidersInv, fileVars, deciderVars, consumerVars,
      ghostVars
<1>5. ASSUME NEW d \in Decider, NotPending(d)
      PROVE  (DecidedInv /\ DecisionIsFinal)'
  BY <1>5, ApprovalAssumption
  DEF NotPending, Return, Goto, TypeOK, Requested, Decision, DecidedInv,
      DecisionIsFinal, Holds, DecidersInv, fileVars, deciderVars, consumerVars,
      ghostVars
<1>6. ASSUME NEW d \in Decider, Open(d)
      PROVE  (DecidedInv /\ DecisionIsFinal)'
  BY <1>6, ApprovalAssumption
  DEF Open, Goto, TypeOK, Requested, Decision, DecidedInv, DecisionIsFinal,
      Holds, DecidersInv, Folder, Content, fileVars, deciderVars, consumerVars,
      ghostVars
<1>7. ASSUME NEW d \in Decider, WriteDecision(d)
      PROVE  (DecidedInv /\ DecisionIsFinal)'
  BY <1>7, ApprovalAssumption
  DEF Kind, WriteDecision, Goto, TypeOK, Requested, Decision, DecidedInv,
      DecisionIsFinal, Holds, DecidersInv, fileVars, deciderVars, consumerVars,
      ghostVars
<1>8. ASSUME NEW d \in Decider, Unlink(d)
      PROVE  (DecidedInv /\ DecisionIsFinal)'
  BY <1>8, ApprovalAssumption
  DEF Unlink, Return, Goto, TypeOK, Requested, Decision, DecidedInv,
      DecisionIsFinal, Holds, DecidersInv, Folder, Content, fileVars,
      deciderVars, consumerVars, ghostVars
<1>9. ASSUME NEW d \in Decider, UnlinkFails(d)
      PROVE  (DecidedInv /\ DecisionIsFinal)'
  BY <1>9, ApprovalAssumption
  DEF UnlinkFails, Return, Goto, TypeOK, Requested, Decision, DecidedInv,
      DecisionIsFinal, Holds, DecidersInv, fileVars, deciderVars, consumerVars,
      ghostVars
<1>10. ASSUME NEW d \in Decider, Interrupted(d)
      PROVE  (DecidedInv /\ DecisionIsFinal)'
  BY <1>10, ApprovalAssumption
  DEF Interrupted, Return, Goto, TypeOK, Requested, Decision, DecidedInv,
      DecisionIsFinal, Holds, DecidersInv, fileVars, deciderVars, consumerVars,
      ghostVars
<1>11. CASE Requesting
  BY <1>11
  DEF Requesting, NewRequest, TypeOK, Requested, Decision, DecidedInv,
      DecisionIsFinal, Holds, DecidersInv, FilesInv, Folder, deciderVars,
      ghostVars
<1>12. ASSUME NEW g \in Delegations, Expire(g)
      PROVE  (DecidedInv /\ DecisionIsFinal)'
  BY <1>12
  DEF Expire, TypeOK, Requested, Decision, DecidedInv, DecisionIsFinal, Holds,
      DecidersInv, fileVars, deciderVars, consumerVars, ghostVars
<1>13. CASE UNCHANGED vars
  BY <1>13
  DEF TypeOK, Requested, Decision, DecidedInv, DecisionIsFinal, Holds,
      DecidersInv, vars, fileVars, deciderVars, consumerVars, ghostVars
<1>14. QED
  BY <1>1, <1>2, <1>3, <1>4, <1>5, <1>6, <1>7, <1>8, <1>9, <1>10, <1>11, <1>12,
     <1>13, RequestFrame
  DEF Next, Decide

\* The builder decides a request after it wrote the receipt.
LEMMA ReceiptStep ==
    ASSUME TypeOK, LookInv, DecidersInv, ReceiptInv, BuilderIsReceipted, [Next]_vars
    PROVE  (ReceiptInv /\ BuilderIsReceipted)'
<1>1. ASSUME NEW d \in Decider, NEW a \in Approval, NEW s \in Decision, Evaluate(d, a, s)
      PROVE  (ReceiptInv /\ BuilderIsReceipted)'
  <2>1. /\ d \in Builder /\ pc[d] = "idle"
        /\ pc' = [pc EXCEPT ![d] = "receipt"]
        /\ deciding' = [deciding EXCEPT ![d] = a]
        /\ status' = [status EXCEPT ![d] = s]
        /\ kind' = [kind EXCEPT ![d] = KindOf(payload[a])]
        /\ UNCHANGED <<file, receipts>>
    BY <1>1 DEF Evaluate, Goto, fileVars
  <2>2. KindOf(payload[a]) \in Kind
    BY DEF KindOf, Kind
  <2>3. /\ repeated \subseteq repeated'
        /\ a \notin repeated' => ~ TakesUpAgain(a)
    BY <1>1 DEF Evaluate
  <2>4. Builder \subseteq Decider /\ Operator \cap Builder = {} /\ Operator \subseteq Decider
    BY ApprovalAssumption DEF Decider
  <2>5. /\ \A e \in Decider : e # d => /\ pc'[e] = pc[e] /\ deciding'[e] = deciding[e]
                                       /\ status'[e] = status[e] /\ kind'[e] = kind[e]
        /\ pc'[d] = "receipt" /\ deciding'[d] = a /\ kind'[d] \in Kind
    BY <2>1, <2>2, <2>4 DEF TypeOK
  <2>6. BuilderIsReceipted'
    BY <2>1, <2>3 DEF BuilderIsReceipted
  <2>7. \A e \in Operator : kind'[e] = "operator"
    BY <2>1, <2>4, <2>5 DEF ReceiptInv
  <2>8. ASSUME NEW e \in Builder, pc'[e] # "idle"
        PROVE  /\ kind'[e] \in Kind
               /\ pc'[e] # "receipt" => receipts'[kind'[e]][deciding'[e]] # "absent"
               /\ deciding'[e] \notin repeated' =>
                    /\ pc'[e] = "fill" => receipts'[kind'[e]][deciding'[e]] = "empty"
                    /\ pc'[e] \in {"decide", "open", "write", "unlink"} =>
                           receipts'[kind'[e]][deciding'[e]] = status'[e]
                    /\ pc'[e] \in {"receipt", "fill"} =>
                           \A t \in Decision : file'[t][deciding'[e]] \notin Kind
                    /\ \A f \in Builder :
                           pc'[f] # "idle" /\ deciding'[f] = deciding'[e] => f = e
    <3>1. CASE e = d
      BY <2>1, <2>3, <2>4, <2>5, <3>1 DEF TakesUpAgain
    <3>2. CASE e # d
      <4>1. pc[e] # "idle" /\ (deciding[e] = a => TakesUpAgain(a))
        BY <2>4, <2>5, <2>8, <3>2 DEF TakesUpAgain
      <4>2. QED
        BY <2>1, <2>3, <2>4, <2>5, <3>2, <4>1 DEF ReceiptInv
    <3>3. QED
      BY <3>1, <3>2
  <2>9. QED
    BY <2>6, <2>7, <2>8 DEF ReceiptInv
<1>2. ASSUME NEW d \in Decider, OpenReceipt(d) \/ WriteReceipt(d)
      PROVE  (ReceiptInv /\ BuilderIsReceipted)'
  <2> DEFINE a == deciding[d]
             k == kind[d]
  <2>1. PICK t : /\ receipts' = [receipts EXCEPT ![k][a] = t]
                 /\ t # "absent"
                 /\ OpenReceipt(d) => t = "empty"
                 /\ WriteReceipt(d) => (receipts[k][a] = "empty" => t = status[d])
    <3>1. CASE OpenReceipt(d)
      BY <3>1 DEF OpenReceipt, WriteReceipt
    <3>2. CASE WriteReceipt(d)
      <4>1. status[d] # "absent"
        BY DEF TypeOK, Decision
      <4>2. QED
        BY <3>2, <4>1 DEF OpenReceipt, WriteReceipt
    <3>3. QED
      BY <1>2, <3>1, <3>2
  <2>2. /\ OpenReceipt(d) => pc[d] = "receipt" /\ pc' = [pc EXCEPT ![d] = "fill"]
        /\ WriteReceipt(d) => pc[d] = "fill" /\ pc' = [pc EXCEPT ![d] = "decide"]
        /\ UNCHANGED <<file, deciding, status, kind, repeated>>
    BY <1>2 DEF OpenReceipt, WriteReceipt, Goto, ghostVars
  <2>3. Builder \subseteq Decider /\ a \in Requested
    BY <1>2, <2>2 DEF Decider, DecidersInv
  <2>4. \A j \in Kind, b \in Approval :
            receipts'[j][b] = IF j = k /\ b = a THEN t ELSE receipts[j][b]
    BY <2>1, <2>3 DEF TypeOK
  <2>5. pc[d] \in {"receipt", "fill"} /\ d \in Decider
    BY <1>2, <2>2
  <2>6. d \in Builder \/ (k \notin Kind)
    BY DEF ReceiptInv, Decider, Kind
  <2>7. \A e \in Builder : e # d => pc'[e] = pc[e]
    BY <1>2, <2>2, <2>3 DEF TypeOK
  <2>8. BuilderIsReceipted'
    <3> SUFFICES ASSUME NEW b \in Approval, NEW s \in Decision, file[s][b] \in Kind
                 PROVE  /\ receipts'[file[s][b]][b] # "absent"
                        /\ b \notin repeated => receipts'[file[s][b]][b] = s
      BY <2>2 DEF BuilderIsReceipted
    <3>1. b = a /\ file[s][b] = k => a \in repeated
      BY <2>5, <2>6 DEF ReceiptInv
    <3>2. QED
      BY <2>1, <2>4, <3>1 DEF BuilderIsReceipted
  <2>9. ASSUME NEW e \in Builder, pc'[e] # "idle"
        PROVE  /\ kind'[e] \in Kind
               /\ pc'[e] # "receipt" => receipts'[kind'[e]][deciding'[e]] # "absent"
               /\ deciding'[e] \notin repeated' =>
                    /\ pc'[e] = "fill" => receipts'[kind'[e]][deciding'[e]] = "empty"
                    /\ pc'[e] \in {"decide", "open", "write", "unlink"} =>
                           receipts'[kind'[e]][deciding'[e]] = status'[e]
                    /\ pc'[e] \in {"receipt", "fill"} =>
                           \A s \in Decision : file'[s][deciding'[e]] \notin Kind
                    /\ \A f \in Builder :
                           pc'[f] # "idle" /\ deciding'[f] = deciding'[e] => f = e
    <3>1. /\ pc[e] # "idle" /\ kind[e] \in Kind /\ deciding[e] \in Approval
          /\ \A f \in Builder : pc'[f] # "idle" => pc[f] # "idle"
      BY <2>3, <2>5, <2>7, <2>9 DEF ReceiptInv, DecidersInv, Requested
    <3>2. CASE e = d
      <4>1. /\ receipts'[k][a] = t
            /\ OpenReceipt(d) => pc'[d] = "fill"
            /\ WriteReceipt(d) => pc'[d] = "decide"
        BY <2>2, <2>3, <2>4, <3>1, <3>2 DEF TypeOK, Requested
      <4>2. deciding[e] \notin repeated /\ WriteReceipt(d) => t = status[d]
        BY <2>1, <2>2, <3>1, <3>2 DEF ReceiptInv
      <4>3. QED
        BY <1>2, <2>1, <2>2, <2>5, <3>1, <3>2, <4>1, <4>2 DEF ReceiptInv
    <3>3. CASE e # d
      <4>1. deciding[e] \notin repeated => deciding[e] # a \/ kind[e] # k
        BY <2>5, <2>6, <3>1, <3>3 DEF ReceiptInv
      <4>2. /\ receipts'[kind[e]][deciding[e]] = receipts[kind[e]][deciding[e]]
               \/ (kind[e] = k /\ deciding[e] = a /\ receipts'[kind[e]][deciding[e]] = t)
        BY <2>4, <3>1
      <4>3. QED
        BY <2>1, <2>2, <2>7, <3>1, <3>3, <4>1, <4>2 DEF ReceiptInv
    <3>4. QED
      BY <3>2, <3>3
  <2>10. QED
    BY <2>2, <2>8, <2>9 DEF ReceiptInv
<1>3. ASSUME NEW d \in Decider, NEW a \in Approval, NEW s \in Decision, Call(d, a, s)
      PROVE  (ReceiptInv /\ BuilderIsReceipted)'
  BY <1>3, ApprovalAssumption
  DEF Call, Goto, TypeOK, Requested, Decision, ReceiptInv,
      BuilderIsReceipted, fileVars, deciderVars, consumerVars, ghostVars
<1>4. ASSUME NEW d \in Decider, ReadPending(d)
      PROVE  (ReceiptInv /\ BuilderIsReceipted)'
  BY <1>4, ApprovalAssumption
  DEF ReadPending, Goto, TypeOK, Requested, Decision, ReceiptInv,
      BuilderIsReceipted, fileVars, deciderVars, consumerVars,
      ghostVars
<1>5. ASSUME NEW d \in Decider, NotPending(d)
      PROVE  (ReceiptInv /\ BuilderIsReceipted)'
  BY <1>5, ApprovalAssumption
  DEF NotPending, Return, Goto, TypeOK, Requested, Decision, ReceiptInv,
      BuilderIsReceipted, fileVars, deciderVars, consumerVars,
      ghostVars
<1>6. ASSUME NEW d \in Decider, Open(d)
      PROVE  (ReceiptInv /\ BuilderIsReceipted)'
  BY <1>6, ApprovalAssumption
  DEF Kind, Open, Goto, TypeOK, Requested, Decision, ReceiptInv,
      BuilderIsReceipted, fileVars, deciderVars, consumerVars, ghostVars
<1>7. ASSUME NEW d \in Decider, WriteDecision(d)
      PROVE  (ReceiptInv /\ BuilderIsReceipted)'
  <2> DEFINE a == deciding[d]
             s == status[d]
  <2>1. PICK t \in {kind[d], "mixed"} : file' = [file EXCEPT ![s][a] = t]
    BY <1>7 DEF WriteDecision
  <2>2. /\ pc[d] = "write" /\ pc' = [pc EXCEPT ![d] = "unlink"]
        /\ UNCHANGED <<receipts, deciding, status, kind, repeated>>
    BY <1>7 DEF WriteDecision, Goto
  <2>3. /\ Builder \subseteq Decider /\ a \in Approval /\ s \in Decision
        /\ d \in Builder \/ d \in Operator
    BY <2>2 DEF Decider, DecidersInv, Requested, TypeOK
  <2>4. \A u \in Decision, b \in Approval :
            file'[u][b] = IF u = s /\ b = a THEN t ELSE file[u][b]
    BY <2>1, <2>3 DEF TypeOK, Folder
  <2>5. t \in Kind => /\ d \in Builder /\ t = kind[d]
                      /\ receipts[t][a] # "absent"
                      /\ a \notin repeated => receipts[t][a] = s
    BY <2>2, <2>3 DEF ReceiptInv, Kind
  <2>6. BuilderIsReceipted'
    BY <2>2, <2>4, <2>5 DEF BuilderIsReceipted
  <2>7. \A e \in Builder :
            /\ pc'[e] # "idle" => pc[e] # "idle"
            /\ pc'[e] # pc[e] => e = d /\ pc'[e] = "unlink"
    BY <2>2, <2>3 DEF TypeOK
  <2>8. ASSUME NEW e \in Builder, pc[e] \in {"receipt", "fill"}, deciding[e] \notin repeated
        PROVE  \A u \in Decision : file'[u][deciding[e]] \notin Kind
    <3>1. deciding[e] \in Approval /\ e # d
      BY <2>2, <2>3, <2>8 DEF DecidersInv, Requested
    <3>2. deciding[e] = a => d \notin Builder
      BY <2>2, <2>8, <3>1 DEF ReceiptInv
    <3>3. QED
      BY <2>4, <2>5, <2>8, <3>1, <3>2 DEF ReceiptInv
  <2>9. ReceiptInv'
    BY <2>2, <2>3, <2>7, <2>8 DEF ReceiptInv
  <2>10. QED
    BY <2>6, <2>9
<1>8. ASSUME NEW d \in Decider, Unlink(d)
      PROVE  (ReceiptInv /\ BuilderIsReceipted)'
  BY <1>8, ApprovalAssumption
  DEF Unlink, Return, Goto, TypeOK, Requested, Decision, ReceiptInv,
      BuilderIsReceipted, fileVars, deciderVars, consumerVars,
      ghostVars
<1>9. ASSUME NEW d \in Decider, UnlinkFails(d)
      PROVE  (ReceiptInv /\ BuilderIsReceipted)'
  BY <1>9, ApprovalAssumption
  DEF UnlinkFails, Return, Goto, TypeOK, Requested, Decision, ReceiptInv,
      BuilderIsReceipted, fileVars, deciderVars, consumerVars,
      ghostVars
<1>10. ASSUME NEW d \in Decider, Interrupted(d)
      PROVE  (ReceiptInv /\ BuilderIsReceipted)'
  BY <1>10, ApprovalAssumption
  DEF Interrupted, Return, Goto, TypeOK, Requested, Decision, ReceiptInv,
      BuilderIsReceipted, fileVars, deciderVars, consumerVars,
      ghostVars
<1>11. CASE Requesting
  BY <1>11
  DEF Requesting, NewRequest, TypeOK, Requested, Decision, ReceiptInv,
      BuilderIsReceipted, Folder, deciderVars, ghostVars
<1>12. ASSUME NEW g \in Delegations, Expire(g)
      PROVE  (ReceiptInv /\ BuilderIsReceipted)'
  BY <1>12
  DEF Expire, TypeOK, Requested, Decision, ReceiptInv,
      BuilderIsReceipted, fileVars, deciderVars, consumerVars, ghostVars
<1>13. CASE UNCHANGED vars
  BY <1>13
  DEF TypeOK, Requested, Decision, ReceiptInv, BuilderIsReceipted,
      vars, fileVars, deciderVars, consumerVars, ghostVars
<1>14. QED
  BY <1>1, <1>2, <1>3, <1>4, <1>5, <1>6, <1>7, <1>8, <1>9, <1>10, <1>11, <1>12,
     <1>13, RequestFrame
  DEF Next, Decide

-----------------------------------------------------------------------------
(* What holds of every behaviour *)

\* The invariant holds at first.
LEMMA InitInv == ASSUME Init PROVE Inv
<1>1. Requested = {} /\ \A f \in Folder, a \in Approval : file[f][a] = "absent"
  BY DEF Init, Requested
<1>2. TypeOK
  BY <1>1, ApprovalAssumption
  DEF Init, TypeOK, Folder, Content, Receipt, Kind, Readable, Decision
<1>3. FilesInv /\ DecidersInv /\ LookInv
  BY <1>1 DEF Kind, Init, FilesInv, DecidersInv, LookInv, Folder, Decision,
      Readable
<1>4. DecidedInv /\ DecisionIsFinal
  BY <1>1 DEF Init, DecidedInv, DecisionIsFinal, Holds, Folder
<1>5. ReceiptInv /\ BuilderIsReceipted
  BY <1>1, ApprovalAssumption DEF Init, ReceiptInv, BuilderIsReceipted, Folder, Kind, Decider
<1>6. QED
  BY <1>2, <1>3, <1>4, <1>5 DEF Inv

\* Every step keeps it.
LEMMA NextInv == Inv /\ [Next]_vars => Inv'
  BY TypeStep, DecidersStep, FilesStep, LookStep, DecidedStep, ReceiptStep DEF Inv

\* So it holds of every behaviour.
LEMMA Inductive == Spec => []Inv
  BY InitInv, NextInv, PTL DEF Spec

\* Every value stays in its type: no id, folder or status is used that the code
\* has no name for.
THEOREM TypeCorrect == Spec => []TypeOK
  BY Inductive, PTL DEF Inv

\* No look-up of a request that was made comes back with nothing.
THEOREM RequestsAreFound == Spec => []NeverMissing
<1>1. Inv => NeverMissing
  BY DEF Inv, LookInv, NeverMissing
<1>2. QED
  BY <1>1, Inductive, PTL

\* No command runs and nothing is pushed but what was approved.
THEOREM NoApprovalNoExecution == Spec => []ExecutionIsApproved
<1>1. Inv => ExecutionIsApproved
  BY DEF Inv, LookInv, ExecutionIsApproved
<1>2. QED
  BY <1>1, Inductive, PTL

\* A request that was decided by one uninterrupted call has one decision for good.
THEOREM OneDecision == Spec => []DecisionIsFinal
  BY Inductive, PTL DEF Inv

\* Every decision in the builder's name has its receipt, in full and of that
\* decision unless the builder took the request up again: for any number of
\* builders, operators, interruptions and expiring delegations.
THEOREM BuilderLeavesReceipt == Spec => []BuilderIsReceipted
  BY Inductive, PTL DEF Inv

-----------------------------------------------------------------------------
(* The four files of a request are one record to who looks it up *)

\* Of a request that is not contested, nobody else writes the file that a call
\* has opened; what is decided is there in full when the pending file goes.
SoloInv ==
    /\ \A d \in Decider : deciding[d] \notin contested =>
           /\ pc[d] = "write" => file[status[d]][deciding[d]] = "empty"
           /\ pc[d] = "unlink" => file[status[d]][deciding[d]] \in Readable
    /\ \A a \in Approval \ contested :
           file["pending"][a] = "absent" =>
               \A s \in Decision : file[s][a] \in Readable \cup {"absent"}

\* A look-up that went past the pending folder is of a decided request.
AnswerInv ==
    \A c \in Consumer :
        /\ at[c] = "idle" <=> using[c] = NoApproval
        /\ at[c] = "idle" => wants[c] = NoPayload
        /\ at[c] \in {"idle", "find", "read"} <=> found[c] = "none"
        /\ /\ at[c] \in {"find", "read"}
           /\ folder[c] > 1
           /\ using[c] \notin contested
           => file["pending"][using[c]] = "absent"
        /\ at[c] = "read" /\ folder[c] > 1 =>
               file[LookupOrder[folder[c]]][using[c]] # "absent"

\* A call that has a request to itself finds its file as it left it.
LEMMA SoloStep ==
    ASSUME TypeOK, LookInv, FilesInv, DecidersInv, DecidedInv, SoloInv, [Next]_vars
    PROVE  SoloInv'
<1>1. ASSUME NEW d \in Decider, NEW a \in Approval, NEW s \in Decision, Evaluate(d, a, s)
      PROVE  SoloInv'
  BY <1>1, ApprovalAssumption
  DEF Kind, Evaluate, KindOf, Goto, TypeOK, Requested, Decision, SoloInv, DecidedInv,
      DecidersInv, Holds, Folder, Readable, fileVars, deciderVars, consumerVars, ghostVars
<1>2. ASSUME NEW d \in Decider, OpenReceipt(d) \/ WriteReceipt(d)
      PROVE  SoloInv'
  BY <1>2, ApprovalAssumption
  DEF Kind, OpenReceipt, WriteReceipt, Goto, TypeOK, Requested, Decision, SoloInv, DecidedInv,
      DecidersInv, Holds, Folder, Readable, fileVars, deciderVars, consumerVars, ghostVars
<1>3. ASSUME NEW d \in Decider, NEW a \in Approval, NEW s \in Decision, Call(d, a, s)
      PROVE  SoloInv'
  BY <1>3, ApprovalAssumption
  DEF Kind, Call, Goto, TypeOK, Requested, Decision, SoloInv, DecidedInv,
      DecidersInv, Holds, Folder, Readable, fileVars, deciderVars, consumerVars, ghostVars
<1>4. ASSUME NEW d \in Decider, ReadPending(d)
      PROVE  SoloInv'
  BY <1>4, ApprovalAssumption
  DEF Kind, ReadPending, Goto, TypeOK, Requested, Decision, SoloInv, DecidedInv,
      DecidersInv, Holds, Folder, Readable, fileVars, deciderVars, consumerVars, ghostVars
<1>5. ASSUME NEW d \in Decider, NotPending(d)
      PROVE  SoloInv'
  BY <1>5, ApprovalAssumption
  DEF Kind, NotPending, Return, Goto, TypeOK, Requested, Decision, SoloInv, DecidedInv,
      DecidersInv, Holds, Folder, Readable, fileVars, deciderVars, consumerVars, ghostVars
<1>6. ASSUME NEW d \in Decider, Open(d)
      PROVE  SoloInv'
  BY <1>6, ApprovalAssumption
  DEF Kind, Open, Goto, TypeOK, Requested, Decision, SoloInv, DecidedInv,
      DecidersInv, Holds, Folder, Readable, fileVars, deciderVars, consumerVars, ghostVars
<1>7. ASSUME NEW d \in Decider, WriteDecision(d)
      PROVE  SoloInv'
  <2> DEFINE a == deciding[d]
             s == status[d]
  <2>1. /\ pc[d] = "write" /\ pc' = [pc EXCEPT ![d] = "unlink"]
        /\ UNCHANGED <<deciding, status, contested>>
    BY <1>7 DEF WriteDecision, Goto
  <2>2. a \in Approval /\ s \in Decision /\ kind[d] \in Readable
    BY <2>1 DEF DecidersInv, Requested, TypeOK, Readable
  <2>3. PICK t : /\ file' = [file EXCEPT ![s][a] = t]
                 /\ file[s][a] = "empty" => t = kind[d]
    BY <1>7 DEF WriteDecision
  <2>4. \A u \in Folder, b \in Approval :
            file'[u][b] = IF u = s /\ b = a THEN t ELSE file[u][b]
    BY <2>2, <2>3 DEF TypeOK, Folder
  <2>5. a \notin contested => t \in Readable
    BY <2>1, <2>2, <2>3 DEF SoloInv
  <2>6. ASSUME NEW e \in Decider, e # d, deciding[e] = a, a \notin contested
        PROVE  pc[e] \notin {"write", "unlink"}
    BY <2>1, <2>2, <2>6 DEF DecidedInv, Holds
  <2>7. ASSUME NEW e \in Decider, pc[e] \in {"write", "unlink"}
        PROVE  deciding[e] \in Approval /\ status[e] \in Folder
    BY <2>7 DEF DecidersInv, Requested, TypeOK, Folder
  <2>8. ASSUME NEW e \in Decider, deciding[e] \notin contested
        PROVE  /\ pc'[e] = "write" => file'[status[e]][deciding[e]] = "empty"
               /\ pc'[e] = "unlink" => file'[status[e]][deciding[e]] \in Readable
    <3>1. CASE e = d
      BY <2>1, <2>2, <2>4, <2>5, <2>8, <3>1 DEF TypeOK, Folder
    <3>2. CASE e # d
      <4>1. pc'[e] = pc[e]
        BY <2>1, <3>2 DEF TypeOK
      <4>2. QED
        BY <2>4, <2>6, <2>7, <2>8, <3>2, <4>1 DEF SoloInv
    <3>3. QED
      BY <3>1, <3>2
  <2>9. ASSUME NEW b \in Approval, b \notin contested, file'["pending"][b] = "absent"
        PROVE  \A u \in Decision : file'[u][b] \in Readable \cup {"absent"}
    <3>1. file["pending"][b] = "absent"
      BY <2>2, <2>4, <2>9 DEF Folder, Decision
    <3>2. QED
      <4>1. \A u \in Decision : file[u][b] \in Readable \cup {"absent"}
        BY <2>1, <2>9, <3>1 DEF SoloInv
      <4>2. \A u \in Decision : u = s /\ b = a => t \in Readable
        BY <2>5, <2>1, <2>9
      <4>3. QED
        BY <2>4, <4>1, <4>2 DEF Folder
  <2>10. QED
    BY <2>1, <2>8, <2>9 DEF SoloInv
<1>8. ASSUME NEW d \in Decider, Unlink(d)
      PROVE  SoloInv'
  BY <1>8, ApprovalAssumption
  DEF Kind, Unlink, Return, Goto, TypeOK, Requested, Decision, SoloInv, DecidedInv,
      DecidersInv, Holds, Folder, Readable, fileVars, deciderVars, consumerVars, ghostVars
<1>9. ASSUME NEW d \in Decider, UnlinkFails(d)
      PROVE  SoloInv'
  BY <1>9, ApprovalAssumption
  DEF Kind, UnlinkFails, Return, Goto, TypeOK, Requested, Decision, SoloInv, DecidedInv,
      DecidersInv, Holds, Folder, Readable, fileVars, deciderVars, consumerVars, ghostVars
<1>10. ASSUME NEW d \in Decider, Interrupted(d)
      PROVE  SoloInv'
  BY <1>10, ApprovalAssumption
  DEF Kind, Interrupted, Return, Goto, TypeOK, Requested, Decision, SoloInv, DecidedInv,
      DecidersInv, Holds, Folder, Readable, fileVars, deciderVars, consumerVars, ghostVars
<1>11. CASE Requesting
  BY <1>11
  DEF Kind, Requesting, NewRequest, TypeOK, Requested, Decision, SoloInv, DecidersInv,
      FilesInv, Folder, Readable, deciderVars, ghostVars
<1>12. ASSUME NEW g \in Delegations, Expire(g)
      PROVE  SoloInv'
  BY <1>12 DEF Expire, SoloInv, fileVars, deciderVars, ghostVars
<1>13. CASE UNCHANGED vars
  BY <1>13 DEF SoloInv, vars, fileVars, deciderVars, ghostVars
<1>14. QED
  BY <1>1, <1>2, <1>3, <1>4, <1>5, <1>6, <1>7, <1>8, <1>9, <1>10, <1>11, <1>12,
     <1>13, RequestFrame
  DEF Next, Decide

\* A look-up goes past the pending folder when the request has left it.
LEMMA AnswerStep ==
    ASSUME TypeOK, LookInv, FilesInv, DecidersInv, AnswerInv, [Next]_vars
    PROVE  AnswerInv'
<1>1. ASSUME NEW d \in Decider, Decide(d)
      PROVE  AnswerInv'
  <2>1. Deciding
    BY <1>1, DecideFrame
  <2>2. ASSUME NEW c \in Consumer, at[c] = "read", folder[c] > 1
        PROVE  file'[LookupOrder[folder[c]]][using[c]] # "absent"
    <3>1. LookupOrder[folder[c]] \in Decision /\ using[c] \in Approval
      BY <2>2, FourFolders DEF TypeOK, Decision, LookInv, Requested
    <3>2. QED
      BY <2>1, <2>2, <3>1 DEF Deciding, AnswerInv
  <2>3. ASSUME NEW c \in Consumer, at[c] \in {"find", "read"}, folder[c] > 1,
               using[c] \notin contested'
        PROVE  file'["pending"][using[c]] = "absent"
    BY <2>1, <2>3 DEF Deciding, AnswerInv, LookInv, Requested
  <2>4. QED
    BY <2>1, <2>2, <2>3 DEF Deciding, AnswerInv, consumerVars
<1>2. ASSUME NEW c \in Consumer, NEW a \in Approval, NEW q \in Payload, Resume(c, a, q)
      PROVE  AnswerInv'
  <2>1. folder[c] = 1 /\ found[c] = "none"
    BY <1>2 DEF Resume, LookInv
  <2>2. QED
    BY <1>2, <2>1, ApprovalAssumption
    DEF Resume, Step, TypeOK, AnswerInv, fileVars, ghostVars
<1>3. ASSUME NEW c \in Consumer, Look(c)
      PROVE  AnswerInv'
  BY <1>3, ApprovalAssumption, FourFolders
  DEF Look, Step, TypeOK, AnswerInv, LookInv, HasFile, Ahead, Folder, Requested,
      fileVars, ghostVars
<1>4. ASSUME NEW c \in Consumer, Read(c)
      PROVE  AnswerInv'
  BY <1>4, FourFolders
  DEF Read, Step, TypeOK, AnswerInv, Folder, Decision, fileVars, ghostVars
<1>5. ASSUME NEW c \in Consumer, Refresh(c)
      PROVE  AnswerInv'
  <2>1. /\ UNCHANGED contested
        /\ \A a \in Requested, f \in Folder : file'[f][a] = file[f][a]
    BY <1>5 DEF Refresh, NewRequest, TypeOK, Requested, Folder, ghostVars
  <2>2. \A e \in Consumer : at[e] # "idle" =>
            using[e] \in Requested /\ folder[e] \in 1..4
    BY DEF LookInv, TypeOK
  <2>3. "pending" \in Folder
    BY DEF Folder
  <2>4. QED
    BY <1>5, <2>1, <2>2, <2>3, FourFolders DEF Refresh, Answer, Step, TypeOK, AnswerInv
<1>6. ASSUME NEW c \in Consumer, TurnAway(c)
      PROVE  AnswerInv'
  BY <1>6 DEF TurnAway, Answer, Step, TypeOK, AnswerInv, fileVars, ghostVars
<1>7. ASSUME NEW c \in Consumer, Execute(c)
      PROVE  AnswerInv'
  BY <1>7 DEF Execute, Step, TypeOK, AnswerInv, fileVars, ghostVars
<1>8. ASSUME NEW c \in Consumer, Finish(c)
      PROVE  AnswerInv'
  BY <1>8 DEF Finish, Answer, Step, TypeOK, AnswerInv, fileVars, ghostVars
<1>9. ASSUME NEW q \in Payload, Ask(q)
      PROVE  AnswerInv'
  <2>1. /\ UNCHANGED contested
        /\ \A a \in Requested, f \in Folder : file'[f][a] = file[f][a]
    BY <1>9 DEF Ask, NewRequest, TypeOK, Requested, Folder, ghostVars
  <2>2. \A e \in Consumer : at[e] # "idle" =>
            using[e] \in Requested /\ folder[e] \in 1..4
    BY DEF LookInv, TypeOK
  <2>3. "pending" \in Folder
    BY DEF Folder
  <2>4. QED
    BY <1>9, <2>1, <2>2, <2>3, FourFolders DEF Ask, AnswerInv, consumerVars
<1>10. ASSUME NEW g \in Delegations, Expire(g)
      PROVE  AnswerInv'
  BY <1>10 DEF Expire, AnswerInv, fileVars, consumerVars, ghostVars
<1>11. CASE UNCHANGED vars
  BY <1>11 DEF AnswerInv, vars, fileVars, consumerVars, ghostVars
<1>12. QED
  BY <1>1, <1>2, <1>3, <1>4, <1>5, <1>6, <1>7, <1>8, <1>9, <1>10, <1>11
  DEF Next, Consume

GateInv == Inv /\ SoloInv /\ AnswerInv

\* Both hold of every behaviour.
LEMMA GateInductive == Spec => []GateInv
<1>1. Init => GateInv
  <2> SUFFICES ASSUME Init PROVE GateInv
    OBVIOUS
  <2>1. Inv
    BY InitInv
  <2>2. SoloInv
    BY ApprovalAssumption DEF Init, SoloInv, Folder, Decision
  <2>3. AnswerInv
    BY DEF Init, AnswerInv
  <2>4. QED
    BY <2>1, <2>2, <2>3 DEF GateInv
<1>2. GateInv /\ [Next]_vars => GateInv'
  BY NextInv, SoloStep, AnswerStep DEF GateInv, Inv
<1>3. QED
  BY <1>1, <1>2, PTL DEF Spec

\* A request that was made, is not contested and is not pending has one decision.
VerdictIsOne ==
    \A a \in Requested \ contested : file["pending"][a] = "absent" =>
        /\ Verdict(a) \in Decision
        /\ file[Verdict(a)][a] # "absent"
        /\ \A s \in Decision : file[s][a] # "absent" => s = Verdict(a)

\* So says the invariant, of a state and of the one that follows.
LEMMA VerdictOf == GateInv => VerdictIsOne
<1> SUFFICES ASSUME GateInv, NEW a \in Requested \ contested, file["pending"][a] = "absent"
             PROVE  /\ Verdict(a) \in Decision
                    /\ file[Verdict(a)][a] # "absent"
                    /\ \A s \in Decision : file[s][a] # "absent" => s = Verdict(a)
  BY DEF VerdictIsOne
<1>1. \E s \in Decision : file[s][a] # "absent"
  BY DEF GateInv, Inv, FilesInv, HasFile, Folder
<1>2. Verdict(a) = CHOOSE s \in Decision : file[s][a] # "absent"
  BY DEF Verdict
<1>3. Verdict(a) \in Decision /\ file[Verdict(a)][a] # "absent"
  BY <1>1, <1>2
<1>4. a \in Approval \ contested
  BY DEF Requested
<1>5. QED
  BY <1>3, <1>4 DEF GateInv, Inv, DecisionIsFinal

\* So does the next state's, when the invariant holds there.
LEMMA NextVerdictOf == GateInv' => VerdictIsOne'
  BY VerdictOf, PTL

\* What reads as a decision is one.
LEMMA VerdictKind ==
    ASSUME GateInv, NEW a \in Approval
    PROVE  /\ Verdict(a) = "absent" <=> a \notin Requested
           /\ Verdict(a) = "disputed" <=> a \in contested
           /\ Verdict(a) = "pending" <=> /\ a \in Requested \ contested
                                         /\ file["pending"][a] # "absent"
  BY VerdictOf DEF VerdictIsOne, Verdict, Decision, GateInv, Inv, TypeOK

\* What stands of a request is the same after a step that leaves its files, or
\* all but those of its decision while it is pending.
LEMMA VerdictKept ==
    ASSUME GateInv, GateInv', NEW a \in Approval,
           a \in Requested' <=> a \in Requested,
           a \in contested' <=> a \in contested,
           a \notin contested =>
               /\ file'["pending"][a] # "absent" <=> file["pending"][a] # "absent"
               /\ file["pending"][a] = "absent" =>
                      \A s \in Decision : file'[s][a] = file[s][a]
    PROVE  Verdict(a)' = Verdict(a)
<1>1. CASE a \in Requested /\ a \notin contested /\ file["pending"][a] = "absent"
  <2>1. /\ Verdict(a) \in Decision
        /\ file[Verdict(a)][a] # "absent"
    BY <1>1, VerdictOf DEF VerdictIsOne
  <2>2. /\ Verdict(a)' \in Decision
        /\ \A s \in Decision : file'[s][a] # "absent" => s = Verdict(a)'
    BY <1>1, NextVerdictOf DEF VerdictIsOne
  <2>3. QED
    BY <1>1, <2>1, <2>2
<1>2. CASE ~ (a \in Requested /\ a \notin contested /\ file["pending"][a] = "absent")
  BY <1>2 DEF Verdict
<1>3. QED
  BY <1>1, <1>2

\* The records as the gate sees them.
Verdicts == [a \in Approval |-> Verdict(a)]

\* A deciding call leaves the verdicts as they are, or decides a pending one, or
\* has it disputed.
LEMMA DecidersDecide ==
    ASSUME GateInv, GateInv', NEW d \in Decider, Decide(d)
    PROVE  \/ Verdicts' = Verdicts
           \/ \E a \in Approval, s \in Decision \cup {"disputed"} :
                  /\ Verdict(a) = "pending"
                  /\ Verdicts' = [Verdicts EXCEPT ![a] = s]
<1> USE DEF Verdicts
<1>0. Requested' = Requested
  BY DecideFrame DEF GateInv, Inv, Deciding, Requested
<1>1. ASSUME file' = file, contested' = contested
      PROVE  Verdicts' = Verdicts
  BY <1>0, <1>1, VerdictKept
<1>2. ASSUME NEW a \in Requested, contested' = contested \cup {a}, file' = file,
             a \notin contested, file["pending"][a] # "absent"
      PROVE  \E b \in Approval, s \in Decision \cup {"disputed"} :
                  /\ Verdict(b) = "pending"
                  /\ Verdicts' = [Verdicts EXCEPT ![b] = s]
  <2>1. a \in Approval /\ Verdict(a) = "pending"
    BY <1>2, VerdictKind DEF Requested
  <2>2. Verdict(a)' = "disputed"
    BY <1>0, <1>2 DEF Verdict
  <2>3. \A b \in Approval : b # a => Verdict(b)' = Verdict(b)
    BY <1>0, <1>2, VerdictKept
  <2>4. Verdicts' = [Verdicts EXCEPT ![a] = "disputed"]
    BY <2>1, <2>2, <2>3
  <2>5. QED
    BY <2>1, <2>4
<1>3. ASSUME NEW a \in Requested, contested' = contested \cup {a}, file' = file,
             a \in contested \/ file["pending"][a] # "absent"
      PROVE  \/ Verdicts' = Verdicts
             \/ \E b \in Approval, s \in Decision \cup {"disputed"} :
                    /\ Verdict(b) = "pending"
                    /\ Verdicts' = [Verdicts EXCEPT ![b] = s]
  <2>1. CASE a \in contested
    BY <1>1, <1>3, <2>1
  <2>2. CASE a \notin contested
    BY <1>2, <1>3, <2>2
  <2>3. QED
    BY <2>1, <2>2
<1>4. /\ pc[d] # "idle" => deciding[d] \in Requested
      /\ Holds(d) => \/ deciding[d] \in contested
                     \/ file["pending"][deciding[d]] # "absent"
      /\ status[d] \in Decision
  <2>1. /\ pc[d] # "idle" => deciding[d] \in Requested
        /\ status[d] \in Decision
    BY DEF GateInv, Inv, DecidersInv, TypeOK
  <2>2. Holds(d) => deciding[d] \in Approval
    BY <2>1 DEF Holds, Requested
  <2>3. \A a \in Approval \ contested :
            Holds(d) /\ deciding[d] = a => file["pending"][a] # "absent"
    BY DEF GateInv, Inv, DecidedInv
  <2>4. QED
    BY <2>1, <2>2, <2>3
<1>5. ASSUME NEW s \in Decision, deciding[d] \in Requested, contested' = contested,
             \A f \in Folder, b \in Approval :
                 ~ (f = s /\ b = deciding[d]) => file'[f][b] = file[f][b],
             Holds(d)
      PROVE  Verdicts' = Verdicts
  <2>1. s # "pending" /\ "pending" \in Folder /\ Decision \subseteq Folder
    BY DEF Decision, Folder
  <2>2. \A a \in Approval : Verdict(a)' = Verdict(a)
    BY <1>0, <1>4, <1>5, <2>1, VerdictKept
  <2>3. QED
    BY <2>2
<1>6. ASSUME NEW a \in Approval, NEW s \in Decision, Evaluate(d, a, s) \/ Call(d, a, s)
      PROVE  Verdicts' = Verdicts
  BY <1>1, <1>6 DEF Kind, Evaluate, Call, fileVars, ghostVars
<1>7. ASSUME OpenReceipt(d) \/ WriteReceipt(d) \/ NotPending(d)
      PROVE  Verdicts' = Verdicts
  BY <1>1, <1>7 DEF Kind, OpenReceipt, WriteReceipt, NotPending, fileVars, ghostVars
<1>8. ASSUME ReadPending(d)
      PROVE  \/ Verdicts' = Verdicts
             \/ \E b \in Approval, s \in Decision \cup {"disputed"} :
                    /\ Verdict(b) = "pending"
                    /\ Verdicts' = [Verdicts EXCEPT ![b] = s]
  <2>1. CASE contested' = contested
    BY <1>1, <1>8, <2>1 DEF ReadPending, fileVars
  <2>2. CASE contested' = contested \cup {deciding[d]}
    BY <1>3, <1>4, <1>8, <2>2 DEF ReadPending, fileVars
  <2>3. QED
    BY <1>8, <2>1, <2>2 DEF ReadPending
<1>9. ASSUME Open(d)
      PROVE  Verdicts' = Verdicts
  BY <1>4, <1>5, <1>9 DEF Kind, Open, Holds, GateInv, Inv, TypeOK, ghostVars
<1>10. ASSUME WriteDecision(d)
       PROVE  Verdicts' = Verdicts
  BY <1>4, <1>5, <1>10 DEF Kind, WriteDecision, Holds, GateInv, Inv, TypeOK
<1>11. ASSUME Unlink(d)
       PROVE  \/ Verdicts' = Verdicts
              \/ \E b \in Approval, s \in Decision \cup {"disputed"} :
                     /\ Verdict(b) = "pending"
                     /\ Verdicts' = [Verdicts EXCEPT ![b] = s]
  <2>0. PICK a \in Approval : a = deciding[d]
    BY <1>4, <1>11 DEF Unlink, Requested
  <2>1. /\ a \in Requested
        /\ contested' = contested
        /\ file["pending"][a] # "absent" => file[status[d]][a] # "absent"
    BY <1>4, <1>11, <2>0 DEF Unlink, GateInv, Inv, DecidersInv
  <2>2. /\ file'["pending"][a] = "absent"
        /\ \A f \in Folder, b \in Approval :
               ~ (f = "pending" /\ b = a) => file'[f][b] = file[f][b]
    BY <1>11, <2>0 DEF Unlink, GateInv, Inv, TypeOK, Folder
  <2>3. "pending" \in Folder /\ "pending" \notin Decision /\ Decision \subseteq Folder
    BY DEF Decision, Folder
  <2>4. \A b \in Approval : b # a \/ a \in contested => Verdict(b)' = Verdict(b)
    BY <1>0, <2>1, <2>2, <2>3, VerdictKept
  <2>5. CASE a \in contested
    BY <2>4, <2>5
  <2>6. CASE a \notin contested
    <3>1. Verdict(a) = "pending"
      BY <1>4, <1>11, <2>0, <2>1, <2>6, VerdictKind DEF Unlink, Holds
    <3>2. file'[status[d]][a] # "absent"
      BY <1>4, <1>11, <2>0, <2>1, <2>2, <2>3 DEF Unlink, GateInv, Inv, DecidersInv
    <3>3. Verdict(a)' = status[d]
      BY <1>0, <1>4, <2>1, <2>2, <2>6, <3>2, NextVerdictOf DEF VerdictIsOne
    <3>4. Verdicts' = [Verdicts EXCEPT ![a] = status[d]]
      BY <2>1, <2>4, <3>3
    <3>5. QED
      BY <1>4, <2>1, <3>1, <3>4
  <2>7. QED
    BY <2>5, <2>6
<1>12. ASSUME UnlinkFails(d)
       PROVE  \/ Verdicts' = Verdicts
              \/ \E b \in Approval, s \in Decision \cup {"disputed"} :
                     /\ Verdict(b) = "pending"
                     /\ Verdicts' = [Verdicts EXCEPT ![b] = s]
  BY <1>3, <1>4, <1>12 DEF UnlinkFails, Holds, fileVars
<1>13. ASSUME Interrupted(d)
       PROVE  \/ Verdicts' = Verdicts
              \/ \E b \in Approval, s \in Decision \cup {"disputed"} :
                     /\ Verdict(b) = "pending"
                     /\ Verdicts' = [Verdicts EXCEPT ![b] = s]
  <2>1. CASE pc[d] \in {"write", "unlink"}
    BY <1>3, <1>4, <1>13, <2>1 DEF Interrupted, Holds, fileVars
  <2>2. CASE pc[d] \notin {"write", "unlink"}
    BY <1>1, <1>13, <2>2 DEF Interrupted, fileVars
  <2>3. QED
    BY <2>1, <2>2
<1>14. QED
  BY <1>6, <1>7, <1>8, <1>9, <1>10, <1>11, <1>12, <1>13 DEF Decide

\* A new request is pending, and of another request nothing changes.
LEMMA RequestIsPending ==
    ASSUME GateInv, GateInv', NEW a \in Approval, NEW q \in Payload, NewRequest(a, q),
           UNCHANGED contested
    PROVE  Gate!NewRequest(a, q)
<1>1. /\ Requested' = Requested \cup {a} /\ a \notin Requested /\ a \notin contested
      /\ \A f \in Folder, b \in Approval : b # a => file'[f][b] = file[f][b]
      /\ file'["pending"][a] # "absent"
  BY ApprovalAssumption DEF NewRequest, Requested, GateInv, Inv, TypeOK, Folder
<1>2. Verdict(a)' = "pending"
  BY <1>1 DEF Verdict
<1>3. "pending" \in Folder /\ Decision \subseteq Folder
  BY DEF Folder
<1>4. \A b \in Approval : b # a => Verdict(b)' = Verdict(b)
  BY <1>1, <1>3, VerdictKept
<1>5. QED
  BY <1>2, <1>4 DEF NewRequest, Gate!NewRequest

\* To those who act on approvals the files are what ApprovalGate promises.
THEOREM FilesAreOneRecord == Spec => ImplementsGate
<1> USE DEF Verdicts
<1>1. Init => Gate!Init
  <2> SUFFICES ASSUME Init PROVE Gate!Init
    OBVIOUS
  <2>1. Requested = {}
    BY DEF Init, Requested
  <2>2. \A a \in Approval : Verdict(a) = "absent"
    BY <2>1 DEF Verdict
  <2>3. Verdicts = [a \in Approval |-> IF payload[a] = NoPayload THEN "absent" ELSE "pending"]
    BY <2>2 DEF Init
  <2>4. QED
    BY <2>3 DEF Init, Gate!Init
<1>2. ASSUME GateInv, GateInv', [Next]_vars
      PROVE  [Gate!Next]_<<payload, Verdicts, using, wants, found, {c \in Consumer : at[c] = "run"}>>
  <2> DEFINE running == {c \in Consumer : at[c] = "run"}
  <2>1. ASSUME UNCHANGED <<payload, file, contested>>
        PROVE  Verdicts' = Verdicts
    BY <1>2, <2>1, VerdictKept DEF Requested
  <2>2. ASSUME NEW d \in Decider, Decide(d)
        PROVE  Gate!Next \/ UNCHANGED <<payload, Verdicts, consumerVars>>
    <3>1. payload' = payload /\ UNCHANGED consumerVars
      BY <1>2, <2>2, DecideFrame DEF GateInv, Inv, Deciding
    <3>2. QED
      BY <1>2, <2>2, <3>1, DecidersDecide
      DEF Gate!Next, Gate!Decide, Gate!Decision, Gate!consumer, Decision, consumerVars
  <2>3. ASSUME NEW q \in Payload, Ask(q)
        PROVE  Gate!Next
    BY <1>2, <2>3, RequestIsPending
    DEF Ask, Gate!Next, Gate!consumer, consumerVars, ghostVars
  <2>4. ASSUME NEW g \in Delegations, Expire(g)
        PROVE  UNCHANGED <<payload, Verdicts, consumerVars>>
    BY <2>1, <2>4 DEF Expire, fileVars, ghostVars
  <2>5. ASSUME NEW c \in Consumer, NEW a \in Approval, NEW q \in Payload, Resume(c, a, q)
        PROVE  Gate!Next
    <3>1. using[c] = NoApproval /\ Verdict(a) # "absent" /\ Verdicts' = Verdicts
      BY <1>2, <2>1, <2>5, VerdictKind
      DEF Resume, GateInv, AnswerInv, fileVars, ghostVars
    <3>2. running' = running
      BY <1>2, <2>5 DEF Resume, Step, GateInv, Inv, TypeOK
    <3>3. QED
      BY <2>5, <3>1, <3>2
      DEF Resume, Gate!Next, Gate!Resume, Gate!records, fileVars
  <2>6. ASSUME NEW c \in Consumer, Look(c)
        PROVE  UNCHANGED <<payload, Verdicts, using, wants, found, running>>
    <3>1. Verdicts' = Verdicts
      BY <2>1, <2>6 DEF Look, fileVars, ghostVars
    <3>2. running' = running
      BY <1>2, <2>6 DEF Look, Step, GateInv, Inv, TypeOK
    <3>3. found' = found
      BY <1>2, <2>6, FourFolders
      DEF Look, Step, GateInv, Inv, LookInv, TypeOK, HasFile, Ahead
    <3>4. QED
      BY <2>6, <3>1, <3>2, <3>3 DEF Look, fileVars
  <2>7. ASSUME NEW c \in Consumer, Read(c)
        PROVE  Gate!Next
    <3>1. Verdicts' = Verdicts
      BY <2>1, <2>7 DEF Read, fileVars, ghostVars
    <3>2. running' = running
      BY <1>2, <2>7 DEF Read, Step, GateInv, Inv, TypeOK
    <3>3. using[c] \in Requested /\ using[c] # NoApproval /\ found[c] = "none"
      BY <1>2, <2>7, ApprovalAssumption
      DEF Read, GateInv, Inv, LookInv, AnswerInv, Requested
    <3>4. PICK a \in Requested : a = using[c]
      BY <3>3
    <3>5. PICK f \in Folder : f = LookupOrder[folder[c]]
      BY <1>2, FourFolders DEF GateInv, Inv, TypeOK
    <3>6. PICK s \in Folder \cup {"corrupt"} :
              /\ found' = [found EXCEPT ![c] = s]
              /\ s = IF file[f][a] \in Readable THEN f ELSE "corrupt"
      BY <2>7, <3>4, <3>5 DEF Read
    <3>7. CASE a \in contested
      <4>1. Verdict(a) = "disputed"
        BY <1>2, <3>7, VerdictKind DEF Requested
      <4>2. s \in Gate!Answers(a)
        BY <4>1, <3>4 DEF Gate!Answers, Gate!Settled, Gate!Decision, Folder, Decision, Requested
      <4>3. QED
        BY <2>7, <3>1, <3>2, <3>3, <3>4, <3>6, <4>2
        DEF Read, Gate!Next, Gate!LookUp, Gate!records, fileVars
    <3>8. CASE a \notin contested
      <4>1. s # "corrupt" => s = f /\ file[f][a] # "absent"
        BY <3>6 DEF Kind, Readable
      <4>2. s # "corrupt" /\ f = "pending" => s = Verdict(a)
        BY <1>2, <3>8, <4>1, VerdictKind DEF Requested
      <4>3. s # "corrupt" /\ f # "pending" => s = Verdict(a)
        <5> SUFFICES ASSUME s # "corrupt", f # "pending" PROVE s = Verdict(a)
          OBVIOUS
        <5>1. folder[c] \in 1..4 /\ folder[c] # 1
          BY <1>2, <3>5, FourFolders DEF GateInv, Inv, TypeOK
        <5>2. file["pending"][a] = "absent"
          BY <1>2, <2>7, <3>4, <3>8, <5>1 DEF Read, GateInv, AnswerInv
        <5>3. f \in Decision
          BY DEF Folder
        <5>4. QED
          BY <1>2, <3>8, <4>1, <5>2, <5>3, VerdictOf DEF VerdictIsOne
      <4>4. s \in {Verdict(a), "corrupt"}
        BY <4>2, <4>3
      <4>5. Verdict(a) # "disputed"
        BY <1>2, <3>8, VerdictKind DEF Requested
      <4>6. s \in Gate!Answers(a)
        BY <4>4, <4>5, <3>4 DEF Gate!Answers, Requested
      <4>7. QED
        BY <2>7, <3>1, <3>2, <3>3, <3>4, <3>6, <4>6
        DEF Read, Gate!Next, Gate!LookUp, Gate!records, fileVars
    <3>9. QED
      BY <3>7, <3>8
  <2>8. ASSUME NEW c \in Consumer, Answer(c), found[c] # "none"
        PROVE  /\ using' = [using EXCEPT ![c] = NoApproval]
               /\ wants' = [wants EXCEPT ![c] = NoPayload]
               /\ found' = [found EXCEPT ![c] = "none"]
               /\ running' = running \ {c}
    BY <1>2, <2>8 DEF Answer, Step, GateInv, Inv, TypeOK
  <2>9. ASSUME NEW c \in Consumer, Refresh(c)
        PROVE  Gate!Next
    <3>1. found[c] # "none" /\ using[c] # NoApproval /\ wants[c] \in Payload
      BY <1>2, <2>9 DEF Refresh, GateInv, AnswerInv, Inv, LookInv
    <3>2. \/ UNCHANGED <<payload, Verdicts>>
          \/ \E a \in Approval : Gate!NewRequest(a, wants[c])
      BY <1>2, <2>1, <2>9, <3>1, RequestIsPending DEF Refresh, ghostVars
    <3>3. QED
      BY <2>8, <2>9, <3>1, <3>2 DEF Refresh, Gate!Next, Gate!Leave, Gate!records
  <2>10. ASSUME NEW c \in Consumer, TurnAway(c) \/ Finish(c)
         PROVE  Gate!Next
    <3>1. found[c] # "none" /\ using[c] # NoApproval /\ Verdicts' = Verdicts
      BY <1>2, <2>1, <2>10
      DEF TurnAway, Finish, GateInv, AnswerInv, fileVars, ghostVars
    <3>2. QED
      BY <2>8, <2>10, <3>1
      DEF TurnAway, Finish, Gate!Next, Gate!Leave, Gate!records, fileVars
  <2>11. ASSUME NEW c \in Consumer, Execute(c)
         PROVE  Gate!Next
    <3>1. Verdicts' = Verdicts
      BY <2>1, <2>11 DEF Execute, fileVars, ghostVars
    <3>2. running' = running \cup {c} /\ c \notin running
      BY <1>2, <2>11 DEF Execute, Step, GateInv, Inv, TypeOK
    <3>3. QED
      BY <2>11, <3>1, <3>2
      DEF Execute, Matches, Gate!Next, Gate!Begin, Gate!records, fileVars
  <2>12. CASE UNCHANGED vars
    BY <2>1, <2>12 DEF vars, fileVars, consumerVars, ghostVars
  <2>13. ASSUME UNCHANGED <<payload, Verdicts, consumerVars>>
         PROVE  UNCHANGED <<payload, Verdicts, using, wants, found, running>>
    BY <2>13 DEF consumerVars
  <2>14. QED
    BY <1>2, <2>2, <2>3, <2>4, <2>5, <2>6, <2>7, <2>9, <2>10, <2>11, <2>12, <2>13
    DEF Next, Consume
<1>3. GateInv /\ GateInv' /\ [Next]_vars => [Gate!Next]_<<Gate!records, Gate!consumer>>
  BY <1>2 DEF Gate!records, Gate!consumer
<1>4. QED
  BY <1>1, <1>3, GateInductive, PTL DEF Spec, ImplementsGate, Gate!Spec
=============================================================================
