------------------------- MODULE ComputeGrantsProofs -------------------------
(***************************************************************************)
(* Proofs about ComputeGrants, for any sets of calls, tasks and grants and *)
(* any number of faults.                                                   *)
(***************************************************************************)
EXTENDS ComputeGrants, TLAPS

\* Where a call is, what it has, and whether it used its grant up and was started.
CallInv ==
    \A s \in Submission :
        /\ pc[s] # "new" => task[s] \in Task
        /\ pc[s] \in {"new", "govern", "check", "consume", "start"} => s \notin started
        /\ pc[s] = "check" /\ task[s] \in NeedsApproval => grant[s] \in Grant
        /\ pc[s] = "consume" => grant[s] \in Grant \ Reusable
        /\ pc[s] = "start" => grant[s] \in Grant
        /\ pc[s] = "start" /\ grant[s] \notin Reusable => s \in consumed
        /\ s \in consumed => /\ grant[s] \in Grant \ Reusable
                             /\ pc[s] \notin {"new", "govern", "check", "consume"}
        /\ pc[s] = "run" => s \in started
        /\ pc[s] \in {"new", "govern", "check", "consume", "start", "run"}
               => outcome[s] = "none"
        /\ pc[s] \in {"receipt", "record"} => outcome[s] # "none"

\* The calls that are about to use g, or have it and are about to start.
Holding(g) == {s \in Submission : pc[s] \in {"consume", "start"} /\ grant[s] = g}

\* Nothing was started under a grant in the hands of a call that consumes it, unless
\* two calls have it; and what was started under a grant had used it up.
RaceInv ==
    \A g \in Grant \ (Reusable \cup raced) :
        /\ \A s \in Holding(g) : ran[g] = 0
        /\ \A s, u \in Holding(g) : s = u
        /\ ran[g] # 0 => g \in Spent

\* What a revocation read as used was used by some call.
UsedBySomeone(g, t) == \E s \in consumed : grant[s] = g /\ task[s] = t

SeenInv == \A g \in Grant : seenUsed[g] # NoTask => UsedBySomeone(g, seenUsed[g])

\* The receipt of a success is of a backend that was started.
ReceiptInv ==
    \A s \in Submission :
        /\ outcome[s] = "success" => s \in started
        /\ receipts[s] # "none" => receipts[s] = outcome[s]
        /\ receipts[s] # "none" => pc[s] \in {"record", "done", "dead"}

Inv == /\ TypeOK
       /\ CallInv
       /\ RaceInv
       /\ NotUsableAgain
       /\ SingleUseRunsOnce
       /\ SeenInv
       /\ OnlyStartsConsume
       /\ ReceiptInv
       /\ SuccessIsReceipted

\* What is submitted is a task with an approval id or none.
LEMMA AskedPairs ==
    \A a \in Asked : a[1] \in Task /\ a[2] \in Grant \cup {NoGrant}
  BY ComputeAssumption

-----------------------------------------------------------------------------
(* Each part of the invariant is preserved *)

\* The types; a call that consumes has a task and a grant.
LEMMA TypeStep ==
    ASSUME TypeOK, CallInv, [Next]_vars
    PROVE  TypeOK'
<1>1. ASSUME NEW g \in Grant, Issue(g)
      PROVE  TypeOK'
  BY <1>1, ComputeAssumption
  DEF Issue, TypeOK, CallInv, Outcome, grantVars, callVars, diskVars, ghostVars
<1>2. ASSUME NEW g \in Grant, Expire(g)
      PROVE  TypeOK'
  BY <1>2, ComputeAssumption
  DEF Expire, TypeOK, CallInv, Outcome, grantVars, callVars, diskVars,
      ghostVars
<1>3. ASSUME NEW g \in Grant, RevokeRead(g)
      PROVE  TypeOK'
  BY <1>3, ComputeAssumption
  DEF RevokeRead, TypeOK, CallInv, Outcome, grantVars, callVars, diskVars,
      ghostVars
<1>4. ASSUME NEW g \in Grant, RevokeWrite(g)
      PROVE  TypeOK'
  BY <1>4, ComputeAssumption
  DEF RevokeWrite, TypeOK, CallInv, Outcome, grantVars, callVars, diskVars,
      ghostVars
<1>5. ASSUME NEW s \in Submission, NEW t \in Task,
             NEW g \in Grant \cup {NoGrant}, Submit(s, t, g)
      PROVE  TypeOK'
  BY <1>5, ComputeAssumption
  DEF Submit, Goto, Fault, TypeOK, CallInv, Outcome, grantVars, callVars,
      diskVars, ghostVars
<1>6. ASSUME NEW s \in Submission, Govern(s)
      PROVE  TypeOK'
  BY <1>6, ComputeAssumption
  DEF Govern, Goto, Ends, TypeOK, CallInv, Outcome, grantVars, callVars,
      diskVars, ghostVars
<1>7. ASSUME NEW s \in Submission, Interrupt(s)
      PROVE  TypeOK'
  BY <1>7, ComputeAssumption
  DEF Interrupt, Ends, Goto, TypeOK, CallInv, Outcome, grantVars, callVars,
      diskVars, ghostVars
<1>8. ASSUME NEW s \in Submission, StartFreely(s)
      PROVE  TypeOK'
  BY <1>8, ComputeAssumption
  DEF StartFreely, Goto, TypeOK, CallInv, Outcome, grantVars, callVars,
      diskVars, ghostVars
<1>9. ASSUME NEW s \in Submission, ConsumeRead(s)
      PROVE  TypeOK'
  BY <1>9, ComputeAssumption
  DEF ConsumeRead, Ends, Goto, Count, Valid, TypeOK, CallInv, Outcome,
      grantVars, callVars, diskVars, ghostVars
<1>10. ASSUME NEW s \in Submission, ConsumeWrite(s) \/ Start(s)
      PROVE  TypeOK'
  BY <1>10, ComputeAssumption
  DEF ConsumeWrite, Start, Goto, Count, TypeOK, CallInv, Outcome, grantVars, callVars,
      diskVars, ghostVars
<1>11. ASSUME NEW s \in Submission, ConsumeFails(s)
      PROVE  TypeOK'
  BY <1>11, ComputeAssumption
  DEF ConsumeFails, Ends, Goto, Fault, TypeOK, CallInv, Outcome, grantVars,
      callVars, diskVars, ghostVars
<1>12. ASSUME NEW s \in Submission, Run(s)
      PROVE  TypeOK'
  BY <1>12, ComputeAssumption
  DEF Run, Ends, Goto, TypeOK, CallInv, Outcome, grantVars, callVars, diskVars,
      ghostVars
<1>13. ASSUME NEW s \in Submission, WriteReceipt(s) \/ KeepReceipt(s)
      PROVE  TypeOK'
  BY <1>13, ComputeAssumption
  DEF WriteReceipt, KeepReceipt, Goto, TypeOK, CallInv, Outcome, grantVars, callVars,
      diskVars, ghostVars
<1>14. ASSUME NEW s \in Submission, ReceiptFails(s)
      PROVE  TypeOK'
  BY <1>14, ComputeAssumption
  DEF ReceiptFails, Goto, Fault, TypeOK, CallInv, Outcome, grantVars, callVars,
      diskVars, ghostVars
<1>15. ASSUME NEW s \in Submission, Record(s)
      PROVE  TypeOK'
  BY <1>15, ComputeAssumption
  DEF Record, Goto, Fault, TypeOK, CallInv, Outcome, grantVars, callVars,
      diskVars, ghostVars
<1>16. CASE Crash
  BY <1>16, ComputeAssumption
  DEF Crash, Fault, TypeOK, CallInv, Outcome, grantVars, callVars, diskVars,
      ghostVars
<1>17. CASE UNCHANGED vars
  BY <1>17
  DEF vars, TypeOK, CallInv, Outcome, grantVars, callVars, diskVars, ghostVars
<1>18. QED
  BY AskedPairs, <1>1, <1>2, <1>3, <1>4, <1>5, <1>6, <1>7, <1>8, <1>9, <1>10, <1>11, <1>12,
     <1>13, <1>14, <1>15, <1>16, <1>17
  DEF Next, Call

\* A call goes from one place to the next; the backend starts on the way.
LEMMA CallStep ==
    ASSUME TypeOK, CallInv, [Next]_vars
    PROVE  CallInv'
<1>1. ASSUME NEW g \in Grant,
             Issue(g) \/ Expire(g) \/ RevokeRead(g) \/ RevokeWrite(g)
      PROVE  CallInv'
  BY <1>1
  DEF Issue, Expire, RevokeRead, RevokeWrite, TypeOK, CallInv, grantVars,
      callVars, diskVars, ghostVars
<1>2. ASSUME NEW s \in Submission, NEW t \in Task,
             NEW g \in Grant \cup {NoGrant}, Submit(s, t, g)
      PROVE  CallInv'
  BY <1>2, ComputeAssumption
  DEF Submit, Goto, Fault, TypeOK, CallInv, grantVars, callVars, diskVars,
      ghostVars
<1>3. ASSUME NEW s \in Submission, Govern(s)
      PROVE  CallInv'
  BY <1>3, ComputeAssumption
  DEF Govern, Goto, Ends, TypeOK, CallInv, grantVars, callVars, diskVars,
      ghostVars
<1>4. ASSUME NEW s \in Submission, Interrupt(s)
      PROVE  CallInv'
  BY <1>4, ComputeAssumption
  DEF Interrupt, Ends, Goto, TypeOK, CallInv, grantVars, callVars, diskVars,
      ghostVars
<1>5. ASSUME NEW s \in Submission, StartFreely(s)
      PROVE  CallInv'
  BY <1>5, ComputeAssumption
  DEF StartFreely, Goto, TypeOK, CallInv, grantVars, callVars, diskVars,
      ghostVars
<1>6. ASSUME NEW s \in Submission, ConsumeRead(s)
      PROVE  CallInv'
  BY <1>6, ComputeAssumption
  DEF ConsumeRead, Ends, Goto, Count, Valid, TypeOK, CallInv, grantVars,
      callVars, diskVars, ghostVars
<1>7. ASSUME NEW s \in Submission, ConsumeWrite(s) \/ Start(s)
      PROVE  CallInv'
  BY <1>7, ComputeAssumption
  DEF ConsumeWrite, Start, Goto, Count, TypeOK, CallInv, grantVars, callVars,
      diskVars, ghostVars
<1>8. ASSUME NEW s \in Submission, ConsumeFails(s)
      PROVE  CallInv'
  BY <1>8, ComputeAssumption
  DEF ConsumeFails, Ends, Goto, Fault, TypeOK, CallInv, grantVars, callVars,
      diskVars, ghostVars
<1>9. ASSUME NEW s \in Submission, Run(s)
      PROVE  CallInv'
  BY <1>9, ComputeAssumption
  DEF Run, Ends, Goto, TypeOK, CallInv, grantVars, callVars, diskVars,
      ghostVars
<1>10. ASSUME NEW s \in Submission, WriteReceipt(s) \/ KeepReceipt(s)
      PROVE  CallInv'
  BY <1>10, ComputeAssumption
  DEF WriteReceipt, KeepReceipt, Goto, TypeOK, CallInv, grantVars, callVars, diskVars,
      ghostVars
<1>11. ASSUME NEW s \in Submission, ReceiptFails(s)
      PROVE  CallInv'
  BY <1>11, ComputeAssumption
  DEF ReceiptFails, Goto, Fault, TypeOK, CallInv, grantVars, callVars,
      diskVars, ghostVars
<1>12. ASSUME NEW s \in Submission, Record(s)
      PROVE  CallInv'
  BY <1>12, ComputeAssumption
  DEF Record, Goto, Fault, TypeOK, CallInv, grantVars, callVars, diskVars,
      ghostVars
<1>13. CASE Crash
  BY <1>13
  DEF Crash, Fault, TypeOK, CallInv, grantVars, callVars, diskVars, ghostVars
<1>14. CASE UNCHANGED vars
  BY <1>14
  DEF vars, TypeOK, CallInv, grantVars, callVars, diskVars, ghostVars
<1>15. QED
  BY AskedPairs, <1>1, <1>2, <1>3, <1>4, <1>5, <1>6, <1>7, <1>8, <1>9, <1>10, <1>11, <1>12,
     <1>13, <1>14
  DEF Next, Call

\* A consume begins with a grant that was not used, so that nothing was started
\* under it; another that begins meanwhile makes the two race.
LEMMA RaceStep ==
    ASSUME TypeOK, CallInv, RaceInv, NotUsableAgain, SingleUseRunsOnce, [Next]_vars
    PROVE  (RaceInv /\ SingleUseRunsOnce)'
<1>1. ASSUME NEW g \in Grant,
             Issue(g) \/ Expire(g) \/ RevokeRead(g) \/ RevokeWrite(g)
      PROVE  (RaceInv /\ SingleUseRunsOnce)'
  BY <1>1
  DEF Issue, Expire, RevokeRead, RevokeWrite, TypeOK, CallInv, RaceInv,
      SingleUseRunsOnce, Consuming, Holding, Spent, grantVars, callVars, diskVars, ghostVars
<1>2. ASSUME NEW s \in Submission, NEW t \in Task,
             NEW g \in Grant \cup {NoGrant}, Submit(s, t, g)
      PROVE  (RaceInv /\ SingleUseRunsOnce)'
  BY <1>2
  DEF Submit, Goto, Fault, TypeOK, CallInv, RaceInv, SingleUseRunsOnce,
      Consuming, Holding, Spent, grantVars, callVars, diskVars, ghostVars
<1>3. ASSUME NEW s \in Submission,
             Govern(s) \/ Interrupt(s) \/ StartFreely(s) \/ ConsumeFails(s) \/ Run(s) \/ WriteReceipt(s) \/ KeepReceipt(s) \/ ReceiptFails(s) \/ Record(s)
      PROVE  (RaceInv /\ SingleUseRunsOnce)'
  BY <1>3
  DEF Govern, Interrupt, StartFreely, ConsumeFails, Run, WriteReceipt, KeepReceipt,
      ReceiptFails, Record, Goto, Ends, Fault, TypeOK, CallInv, RaceInv,
      SingleUseRunsOnce, Consuming, Holding, Spent, grantVars, callVars, diskVars, ghostVars
<1>4. ASSUME NEW s \in Submission, ConsumeRead(s)
      PROVE  (RaceInv /\ SingleUseRunsOnce)'
  BY <1>4, ComputeAssumption
  DEF ConsumeRead, Ends, Goto, Count, Valid, TypeOK, CallInv, RaceInv,
      SingleUseRunsOnce, Consuming, Holding, Spent, NotUsableAgain, grantVars, callVars,
      diskVars, ghostVars
<1>5. ASSUME NEW s \in Submission, ConsumeWrite(s) \/ Start(s)
      PROVE  (RaceInv /\ SingleUseRunsOnce)'
  BY <1>5
  DEF ConsumeWrite, Start, Goto, Count, TypeOK, CallInv, RaceInv, SingleUseRunsOnce,
      Consuming, Holding, Spent, grantVars, callVars, diskVars, ghostVars
<1>6. CASE Crash
  BY <1>6
  DEF Crash, Fault, TypeOK, CallInv, RaceInv, SingleUseRunsOnce, Consuming, Holding, Spent,
      grantVars, callVars, diskVars, ghostVars
<1>7. CASE UNCHANGED vars
  BY <1>7
  DEF vars, TypeOK, CallInv, RaceInv, SingleUseRunsOnce, Consuming, Holding, Spent, grantVars,
      callVars, diskVars, ghostVars
<1>8. QED
  BY AskedPairs, <1>1, <1>2, <1>3, <1>4, <1>5, <1>6, <1>7
  DEF Next, Call

\* A stale copy that is written back is of a revoked or of a used grant.
LEMMA UsableStep ==
    ASSUME TypeOK, CallInv, NotUsableAgain, [Next]_vars
    PROVE  NotUsableAgain'
<1>1. ASSUME NEW g \in Grant, Issue(g) \/ Expire(g) \/ RevokeRead(g)
      PROVE  NotUsableAgain'
  BY <1>1
  DEF Issue, Expire, RevokeRead, TypeOK, CallInv, NotUsableAgain, Spent, grantVars,
      callVars, diskVars, ghostVars
<1>2. ASSUME NEW g \in Grant, RevokeWrite(g)
      PROVE  NotUsableAgain'
  BY <1>2
  DEF RevokeWrite, TypeOK, CallInv, NotUsableAgain, Spent, grantVars, callVars,
      diskVars, ghostVars
<1>3. ASSUME NEW s \in Submission, NEW t \in Task,
             NEW g \in Grant \cup {NoGrant}, Submit(s, t, g)
      PROVE  NotUsableAgain'
  BY <1>3
  DEF Submit, Goto, Fault, TypeOK, CallInv, NotUsableAgain, Spent, grantVars,
      callVars, diskVars, ghostVars
<1>4. ASSUME NEW s \in Submission,
             Govern(s) \/ Interrupt(s) \/ StartFreely(s) \/ ConsumeFails(s) \/ Run(s) \/ WriteReceipt(s) \/ KeepReceipt(s) \/ ReceiptFails(s) \/ Record(s)
      PROVE  NotUsableAgain'
  BY <1>4
  DEF Govern, Interrupt, StartFreely, ConsumeFails, Run, WriteReceipt, KeepReceipt,
      ReceiptFails, Record, Goto, Ends, Fault, TypeOK, CallInv, NotUsableAgain, Spent,
      grantVars, callVars, diskVars, ghostVars
<1>5. ASSUME NEW s \in Submission, ConsumeRead(s)
      PROVE  NotUsableAgain'
  BY <1>5
  DEF ConsumeRead, Ends, Goto, Count, Valid, TypeOK, CallInv, NotUsableAgain, Spent,
      grantVars, callVars, diskVars, ghostVars
<1>6. ASSUME NEW s \in Submission, ConsumeWrite(s) \/ Start(s)
      PROVE  NotUsableAgain'
  BY <1>6, ComputeAssumption
  DEF ConsumeWrite, Start, Goto, Count, TypeOK, CallInv, NotUsableAgain, Spent, grantVars,
      callVars, diskVars, ghostVars
<1>7. CASE Crash
  BY <1>7
  DEF Crash, Fault, TypeOK, CallInv, NotUsableAgain, Spent, grantVars, callVars,
      diskVars, ghostVars
<1>8. CASE UNCHANGED vars
  BY <1>8
  DEF vars, TypeOK, CallInv, NotUsableAgain, Spent, grantVars, callVars, diskVars,
      ghostVars
<1>9. QED
  BY AskedPairs, <1>1, <1>2, <1>3, <1>4, <1>5, <1>6, <1>7, <1>8
  DEF Next, Call

\* What is written as used was used by a call that goes on to start.
LEMMA UsedStep ==
    ASSUME TypeOK, CallInv, SeenInv, OnlyStartsConsume, [Next]_vars
    PROVE  (SeenInv /\ OnlyStartsConsume)'
<1>1. ASSUME NEW g \in Grant, Issue(g) \/ Expire(g)
      PROVE  (SeenInv /\ OnlyStartsConsume)'
  BY <1>1
  DEF Issue, Expire, TypeOK, CallInv, SeenInv, OnlyStartsConsume,
      UsedBySomeone, grantVars, callVars, diskVars, ghostVars
<1>2. ASSUME NEW g \in Grant, RevokeRead(g)
      PROVE  (SeenInv /\ OnlyStartsConsume)'
  BY <1>2
  DEF RevokeRead, TypeOK, CallInv, SeenInv, OnlyStartsConsume, UsedBySomeone,
      grantVars, callVars, diskVars, ghostVars
<1>3. ASSUME NEW g \in Grant, RevokeWrite(g)
      PROVE  (SeenInv /\ OnlyStartsConsume)'
  BY <1>3
  DEF RevokeWrite, TypeOK, CallInv, SeenInv, OnlyStartsConsume, UsedBySomeone,
      grantVars, callVars, diskVars, ghostVars
<1>4. ASSUME NEW s \in Submission, NEW t \in Task,
             NEW g \in Grant \cup {NoGrant}, Submit(s, t, g)
      PROVE  (SeenInv /\ OnlyStartsConsume)'
  BY <1>4
  DEF Submit, Goto, Fault, TypeOK, CallInv, SeenInv, OnlyStartsConsume,
      UsedBySomeone, grantVars, callVars, diskVars, ghostVars
<1>5. ASSUME NEW s \in Submission, Run(s) \/ WriteReceipt(s) \/ KeepReceipt(s) \/ Record(s)
      PROVE  (SeenInv /\ OnlyStartsConsume)'
  BY <1>5
  DEF Run, WriteReceipt, KeepReceipt, Record, Ends, Goto, Fault, TypeOK, CallInv, SeenInv,
      OnlyStartsConsume, UsedBySomeone, grantVars, callVars, diskVars,
      ghostVars
<1>6. ASSUME NEW s \in Submission, Govern(s)
      PROVE  (SeenInv /\ OnlyStartsConsume)'
  BY <1>6
  DEF Govern, Goto, Ends, TypeOK, CallInv, SeenInv, OnlyStartsConsume,
      UsedBySomeone, grantVars, callVars, diskVars, ghostVars
<1>7. ASSUME NEW s \in Submission, Interrupt(s)
      PROVE  (SeenInv /\ OnlyStartsConsume)'
  BY <1>7
  DEF Interrupt, Ends, Goto, TypeOK, CallInv, SeenInv, OnlyStartsConsume,
      UsedBySomeone, grantVars, callVars, diskVars, ghostVars
<1>8. ASSUME NEW s \in Submission, StartFreely(s)
      PROVE  (SeenInv /\ OnlyStartsConsume)'
  BY <1>8
  DEF StartFreely, Goto, TypeOK, CallInv, SeenInv, OnlyStartsConsume,
      UsedBySomeone, grantVars, callVars, diskVars, ghostVars
<1>9. ASSUME NEW s \in Submission, ConsumeRead(s)
      PROVE  (SeenInv /\ OnlyStartsConsume)'
  BY <1>9
  DEF ConsumeRead, Ends, Goto, Count, Valid, TypeOK, CallInv, SeenInv,
      OnlyStartsConsume, UsedBySomeone, grantVars, callVars, diskVars,
      ghostVars
<1>10. ASSUME NEW s \in Submission, ConsumeWrite(s) \/ Start(s)
      PROVE  (SeenInv /\ OnlyStartsConsume)'
  BY <1>10
  DEF ConsumeWrite, Start, Goto, Count, TypeOK, CallInv, SeenInv, OnlyStartsConsume,
      UsedBySomeone, grantVars, callVars, diskVars, ghostVars
<1>11. ASSUME NEW s \in Submission, ConsumeFails(s)
      PROVE  (SeenInv /\ OnlyStartsConsume)'
  BY <1>11
  DEF ConsumeFails, Ends, Goto, Fault, TypeOK, CallInv, SeenInv,
      OnlyStartsConsume, UsedBySomeone, grantVars, callVars, diskVars,
      ghostVars
<1>12. ASSUME NEW s \in Submission, ReceiptFails(s)
      PROVE  (SeenInv /\ OnlyStartsConsume)'
  BY <1>12
  DEF ReceiptFails, Goto, Fault, TypeOK, CallInv, SeenInv, OnlyStartsConsume,
      UsedBySomeone, grantVars, callVars, diskVars, ghostVars
<1>13. CASE Crash
  BY <1>13
  DEF Crash, Fault, TypeOK, CallInv, SeenInv, OnlyStartsConsume, UsedBySomeone,
      grantVars, callVars, diskVars, ghostVars
<1>14. CASE UNCHANGED vars
  BY <1>14
  DEF vars, TypeOK, CallInv, SeenInv, OnlyStartsConsume, UsedBySomeone,
      grantVars, callVars, diskVars, ghostVars
<1>15. QED
  BY AskedPairs, <1>1, <1>2, <1>3, <1>4, <1>5, <1>6, <1>7, <1>8, <1>9, <1>10, <1>11, <1>12,
     <1>13, <1>14
  DEF Next, Call

\* A success is recorded after its receipt was written.
LEMMA ReceiptStep ==
    ASSUME TypeOK, CallInv, ReceiptInv, SuccessIsReceipted, [Next]_vars
    PROVE  (ReceiptInv /\ SuccessIsReceipted)'
<1>1. ASSUME NEW g \in Grant,
             Issue(g) \/ Expire(g) \/ RevokeRead(g) \/ RevokeWrite(g)
      PROVE  (ReceiptInv /\ SuccessIsReceipted)'
  BY <1>1
  DEF Issue, Expire, RevokeRead, RevokeWrite, TypeOK, CallInv, ReceiptInv,
      SuccessIsReceipted, grantVars, callVars, diskVars, ghostVars
<1>2. ASSUME NEW s \in Submission, NEW t \in Task,
             NEW g \in Grant \cup {NoGrant}, Submit(s, t, g)
      PROVE  (ReceiptInv /\ SuccessIsReceipted)'
  BY <1>2
  DEF Submit, Goto, Fault, TypeOK, CallInv, ReceiptInv, SuccessIsReceipted,
      grantVars, callVars, diskVars, ghostVars
<1>3. ASSUME NEW s \in Submission,
             Govern(s) \/ Interrupt(s) \/ StartFreely(s) \/ ConsumeWrite(s) \/ Start(s)
                 \/ ConsumeFails(s)
      PROVE  (ReceiptInv /\ SuccessIsReceipted)'
  BY <1>3
  DEF Govern, Interrupt, StartFreely, ConsumeWrite, Start, ConsumeFails, Goto, Ends,
      Count, Fault, TypeOK, CallInv, ReceiptInv, SuccessIsReceipted, grantVars,
      callVars, diskVars, ghostVars
<1>4. ASSUME NEW s \in Submission, ConsumeRead(s)
      PROVE  (ReceiptInv /\ SuccessIsReceipted)'
  BY <1>4
  DEF ConsumeRead, Ends, Goto, Count, Valid, TypeOK, CallInv, ReceiptInv,
      SuccessIsReceipted, grantVars, callVars, diskVars, ghostVars
<1>5. ASSUME NEW s \in Submission, Run(s)
      PROVE  (ReceiptInv /\ SuccessIsReceipted)'
  BY <1>5
  DEF Run, Ends, Goto, TypeOK, CallInv, ReceiptInv, SuccessIsReceipted,
      grantVars, callVars, diskVars, ghostVars
<1>6. ASSUME NEW s \in Submission, WriteReceipt(s) \/ KeepReceipt(s)
      PROVE  (ReceiptInv /\ SuccessIsReceipted)'
  BY <1>6
  DEF WriteReceipt, KeepReceipt, Goto, TypeOK, CallInv, ReceiptInv, SuccessIsReceipted,
      grantVars, callVars, diskVars, ghostVars
<1>7. ASSUME NEW s \in Submission, ReceiptFails(s)
      PROVE  (ReceiptInv /\ SuccessIsReceipted)'
  BY <1>7
  DEF ReceiptFails, Goto, Fault, TypeOK, CallInv, ReceiptInv,
      SuccessIsReceipted, grantVars, callVars, diskVars, ghostVars
<1>8. ASSUME NEW s \in Submission, Record(s)
      PROVE  (ReceiptInv /\ SuccessIsReceipted)'
  BY <1>8
  DEF Record, Goto, Fault, TypeOK, CallInv, ReceiptInv, SuccessIsReceipted,
      grantVars, callVars, diskVars, ghostVars
<1>9. CASE Crash
  BY <1>9
  DEF Crash, Fault, TypeOK, CallInv, ReceiptInv, SuccessIsReceipted, grantVars,
      callVars, diskVars, ghostVars
<1>10. CASE UNCHANGED vars
  BY <1>10
  DEF vars, TypeOK, CallInv, ReceiptInv, SuccessIsReceipted, grantVars,
      callVars, diskVars, ghostVars
<1>11. QED
  BY AskedPairs, <1>1, <1>2, <1>3, <1>4, <1>5, <1>6, <1>7, <1>8, <1>9, <1>10
  DEF Next, Call

-----------------------------------------------------------------------------
(* What holds of every behaviour *)

\* The invariant holds at first and is kept by every step.
LEMMA Inductive == Spec => []Inv
<1>1. Init => Inv
  BY ComputeAssumption
  DEF Init, Inv, TypeOK, CallInv, RaceInv, Holding, Spent, NotUsableAgain, SingleUseRunsOnce,
      SeenInv, OnlyStartsConsume, ReceiptInv, SuccessIsReceipted
<1>2. Inv /\ [Next]_vars => Inv'
  BY TypeStep, CallStep, RaceStep, UsableStep, UsedStep, ReceiptStep DEF Inv
<1>3. QED
  BY <1>1, <1>2, PTL DEF Spec

\* Every value stays in its type: every result has one of the statuses the
\* service knows.
THEOREM TypeCorrect == Spec => []TypeOK
  BY Inductive, PTL DEF Inv

\* A grant that was revoked or used up never becomes good again, however
\* revocations and submissions write over each other.
THEOREM SpentForGood == Spec => []NotUsableAgain
  BY Inductive, PTL DEF Inv

\* A grant for a single use starts one backend, unless two calls consume it at
\* the same time.
THEOREM SingleUse == Spec => []SingleUseRunsOnce
  BY Inductive, PTL DEF Inv

\* A grant is used up only by a call that starts its backend or whose process ends
\* before it can.
THEOREM StartsConsume == Spec => []OnlyStartsConsume
  BY Inductive, PTL DEF Inv

\* Every success that is reported through a service with a receipt store has its
\* receipt on disk.
THEOREM SuccessHasReceipt == Spec => []SuccessIsReceipted
  BY Inductive, PTL DEF Inv


-----------------------------------------------------------------------------
(* The files of the grants are what GrantUse promises *)

\* A call that consumes has a grant with a file, and a task that needs one.
ClaimInv ==
    /\ \A s \in Submission :
           pc[s] \in {"consume", "start"} =>
               grant[s] \in issued /\ task[s] \in NeedsApproval
    /\ \A g \in Grant : usedBy[g] # NoTask => g \in issued

\* It holds with Inv in every state: a submission never claims a grant it has not.
LEMMA ClaimInductive == Spec => [](Inv /\ ClaimInv)
<1>1. Init => ClaimInv
  BY DEF Init, ClaimInv
<1>2. Inv /\ ClaimInv /\ [Next]_vars => ClaimInv'
  <2> SUFFICES ASSUME Inv, ClaimInv, [Next]_vars PROVE ClaimInv'
    OBVIOUS
  <2>1. ASSUME NEW g \in Grant,
               Issue(g) \/ Expire(g) \/ RevokeRead(g) \/ RevokeWrite(g)
        PROVE  ClaimInv'
    BY <2>1
    DEF Issue, Expire, RevokeRead, RevokeWrite, ClaimInv, Inv, TypeOK, callVars
  <2>2. ASSUME NEW s \in Submission, NEW t \in Task,
               NEW g \in Grant \cup {NoGrant}, Submit(s, t, g)
        PROVE  ClaimInv'
    BY <2>2 DEF Submit, Goto, ClaimInv, Inv, TypeOK, grantVars
  <2>3. ASSUME NEW s \in Submission,
               Govern(s) \/ Interrupt(s) \/ StartFreely(s) \/ ConsumeWrite(s)
                   \/ Start(s) \/ ConsumeFails(s) \/ Run(s) \/ WriteReceipt(s) \/ KeepReceipt(s) \/ ReceiptFails(s)
                   \/ Record(s)
        PROVE  ClaimInv'
    BY <2>3
    DEF Govern, Interrupt, StartFreely, ConsumeWrite, Start, ConsumeFails, Run, WriteReceipt, KeepReceipt,
        ReceiptFails, Record, Ends, Goto, ClaimInv, Inv, TypeOK, grantVars
  <2>4. ASSUME NEW s \in Submission, ConsumeRead(s)
        PROVE  ClaimInv'
    BY <2>4 DEF ConsumeRead, Valid, Ends, Goto, ClaimInv, Inv, TypeOK, grantVars
  <2>5. CASE Crash
    BY <2>5 DEF Crash, ClaimInv, Inv, TypeOK, grantVars
  <2>6. CASE UNCHANGED vars
    BY <2>6 DEF vars, ClaimInv, grantVars, callVars
  <2>7. QED
    BY AskedPairs, <2>1, <2>2, <2>3, <2>4, <2>5, <2>6 DEF Next, Call
<1>3. QED
  BY <1>1, <1>2, Inductive, PTL DEF Spec

\* What GrantUse sees.
States == [g \in Grant |-> State(g)]
Claims == [s \in Submission |-> IF pc[s] = "consume" THEN <<grant[s], task[s]>> ELSE <<>>]
Dues == [s \in Submission |-> IF pc[s] = "start" THEN <<grant[s], task[s]>> ELSE <<>>]
Unders == [s \in Submission |-> IF s \in started /\ task[s] \in NeedsApproval
                                THEN <<grant[s], task[s]>> ELSE <<>>]

\* A step on one grant leaves it as it was, or issues or closes it.
LEMMA GrantStep ==
    ASSUME Inv, ClaimInv, NEW g \in Grant,
           Issue(g) \/ Expire(g) \/ RevokeRead(g) \/ RevokeWrite(g)
    PROVE  States' = States \/ Uses!Issue(g) \/ Uses!Close(g)
<1>1. Claims' = Claims /\ Dues' = Dues /\ Unders' = Unders
  BY DEF Issue, Expire, RevokeRead, RevokeWrite, Claims, Dues, Unders, callVars
<1>2. \A h \in Grant : h # g => State(h)' = State(h)
  BY DEF Issue, Expire, RevokeRead, RevokeWrite, State, Inv, TypeOK
<1>3. /\ Issue(g) => State(g) = "none" /\ State(g)' \in {"open", "closed"}
      /\ RevokeRead(g) => State(g)' = State(g)
      /\ Expire(g) \/ RevokeWrite(g) => State(g) # "none" /\ State(g)' = "closed"
  BY DEF Issue, Expire, RevokeRead, RevokeWrite, State, Inv, TypeOK
<1>4. Issue(g) => State(g)' = "open"
  BY DEF Issue, State, Inv, TypeOK, ClaimInv
<1>5. State(g) \in {"none", "open", "closed"}
  BY DEF State
<1>6. QED
  BY <1>1, <1>2, <1>3, <1>4, <1>5
  DEF Uses!Issue, Uses!Close, States, Claims, Dues, Unders

\* A step of a call is a claim, a use, a start, a claim given up, or nothing to the
\* grants.
LEMMA CallsUse ==
    ASSUME Inv, ClaimInv, NEW s \in Submission, Call(s)
    PROVE  [Uses!Next]_<<States, Claims, Dues, Unders>>
<1>0. /\ pc[s] = "consume" => /\ grant[s] \in Grant \ Reusable
                              /\ task[s] \in NeedsApproval /\ task[s] \in Task
                              /\ s \notin started
      /\ pc[s] = "start" => /\ grant[s] \in Grant /\ s \notin started
                            /\ task[s] \in NeedsApproval /\ task[s] \in Task
      /\ pc[s] = "check" => /\ task[s] \in NeedsApproval => grant[s] \in Grant
                            /\ task[s] \in Task /\ s \notin started
      /\ pc[s] = "new" => s \notin started
  BY DEF Inv, CallInv, ClaimInv
<1>1. ASSUME UNCHANGED grantVars
      PROVE  States' = States
  BY <1>1 DEF States, State, grantVars
<1>2. ASSUME UNCHANGED <<task, grant, started>>
      PROVE  Unders' = Unders
  BY <1>2 DEF Unders
<1>3. ASSUME UNCHANGED <<task, grant>>, pc[s] \notin {"consume", "start"},
             NEW l \in {"check", "run", "receipt", "record", "done"}, pc' = [pc EXCEPT ![s] = l]
      PROVE  Claims' = Claims /\ Dues' = Dues
  BY <1>3 DEF Claims, Dues, Inv, TypeOK
<1>4. ASSUME NEW t \in Task, NEW g \in Grant \cup {NoGrant}, Submit(s, t, g)
      PROVE  UNCHANGED <<States, Claims, Dues, Unders>>
  <2>1. Claims' = Claims /\ Dues' = Dues /\ Unders' = Unders
    BY <1>0, <1>4 DEF Submit, Goto, Claims, Dues, Unders, Inv, TypeOK
  <2>2. QED
    BY <1>1, <1>4, <2>1 DEF Submit
<1>5. ASSUME Govern(s) \/ Interrupt(s) \/ Run(s) \/ KeepReceipt(s) \/ WriteReceipt(s)
                 \/ ReceiptFails(s) \/ Record(s)
      PROVE  UNCHANGED <<States, Claims, Dues, Unders>>
  BY <1>1, <1>2, <1>3, <1>5
  DEF Govern, Interrupt, Run, KeepReceipt, WriteReceipt, ReceiptFails, Record, Ends, Goto
<1>6. ASSUME StartFreely(s)
      PROVE  UNCHANGED <<States, Claims, Dues, Unders>>
  <2>1. Unders' = Unders
    BY <1>6 DEF StartFreely, Unders
  <2>2. QED
    BY <1>1, <1>3, <1>6, <2>1 DEF StartFreely, Goto
<1>7. ASSUME NEW g \in Grant, g = grant[s], pc[s] = "check", task[s] \in NeedsApproval,
             Valid(g, task[s])
      PROVE  Uses!May(s, g, task[s])
  <2>1. State(g) = "open"
    BY <1>7 DEF Valid, State
  <2>2. Claims[s] = <<>> /\ Dues[s] = <<>> /\ Unders[s] = <<>>
    BY <1>0, <1>7 DEF Claims, Dues, Unders
  <2>3. QED
    BY <1>7, <2>1, <2>2 DEF Uses!May, Uses!Nothing, Valid, Claims, Dues, Unders
<1>8. ASSUME ConsumeRead(s)
      PROVE  [Uses!Next]_<<States, Claims, Dues, Unders>>
  <2>0. PICK t \in Task : t = task[s]
    BY <1>0, <1>8 DEF ConsumeRead
  <2>1. PICK g \in Grant : g = grant[s]
    BY <1>0, <1>8 DEF ConsumeRead
  <2>2. /\ States' = States /\ Unders' = Unders
        /\ UNCHANGED <<task, grant>> /\ task[s] \in NeedsApproval /\ pc[s] = "check"
    BY <1>1, <1>2, <1>8 DEF ConsumeRead
  <2>3. CASE Ends(s, "denied")
    BY <1>3, <2>2, <2>3 DEF Ends, Goto
  <2>4. CASE Valid(g, task[s]) /\ g \in Reusable /\ Goto(s, "start")
    <3>1. Claims' = Claims
      BY <2>2, <2>4 DEF Goto, Claims, Inv, TypeOK
    <3>2. Dues' = [Dues EXCEPT ![s] = <<g, t>>]
      BY <2>0, <2>1, <2>2, <2>4 DEF Dues, Goto, Inv, TypeOK
    <3>3. Uses!ClaimReusable(s, g, t)
      BY <1>7, <2>0, <2>1, <2>2, <2>4, <3>1, <3>2
      DEF Uses!ClaimReusable, States, Claims, Dues, Unders
    <3>4. Uses!Next
      BY <3>3, Zenon DEF Uses!Next
    <3>5. QED
      BY <3>4
  <2>5. CASE Valid(g, task[s]) /\ g \notin Reusable /\ Goto(s, "consume")
    <3>1. Dues' = Dues
      BY <2>2, <2>5 DEF Goto, Dues, Inv, TypeOK
    <3>2. Claims' = [Claims EXCEPT ![s] = <<g, t>>]
      BY <2>0, <2>1, <2>2, <2>5 DEF Claims, Goto, Inv, TypeOK
    <3>3. Uses!Claim(s, g, t)
      BY <1>7, <2>0, <2>1, <2>2, <2>5, <3>1, <3>2
      DEF Uses!Claim, States, Claims, Dues, Unders
    <3>4. Uses!Next
      BY <3>3, Zenon DEF Uses!Next
    <3>5. QED
      BY <3>4
  <2>6. QED
    BY <1>8, <2>1, <2>3, <2>4, <2>5 DEF ConsumeRead
<1>9. ASSUME ConsumeWrite(s)
      PROVE  Uses!Use(s)
  <2>1. PICK g \in Grant : g = grant[s]
    BY <1>0, <1>9 DEF ConsumeWrite
  <2>2. /\ Claims[s] = <<g, task[s]>> /\ Claims[s] # <<>> /\ Claims[s][1] = g
        /\ g \in issued /\ task[s] # NoTask
    BY <1>0, <1>9, <2>1, ComputeAssumption DEF ConsumeWrite, Claims, ClaimInv
  <2>3. Claims' = [Claims EXCEPT ![s] = <<>>]
    BY <1>9 DEF ConsumeWrite, Claims, Goto, Inv, TypeOK
  <2>4. Dues' = [Dues EXCEPT ![s] = Claims[s]]
    BY <1>0, <1>9, <2>1, <2>2 DEF ConsumeWrite, Dues, Goto, Inv, TypeOK
  <2>5. State(g)' = "closed"
    BY <1>0, <1>9, <2>1, <2>2 DEF ConsumeWrite, State, Inv, TypeOK
  <2>6. \A h \in Grant : h # g => State(h)' = State(h)
    BY <1>9, <2>1 DEF ConsumeWrite, State, Inv, TypeOK
  <2>7. States' = [States EXCEPT ![g] = "closed"]
    BY <2>5, <2>6 DEF States
  <2>8. Unders' = Unders
    BY <1>2, <1>9 DEF ConsumeWrite
  <2>9. QED
    BY <2>2, <2>3, <2>4, <2>7, <2>8
    DEF Uses!Use, Uses!Nothing, States, Claims, Dues, Unders
<1>10. ASSUME Start(s)
       PROVE  Uses!Start(s)
  <2>1. Dues[s] = <<grant[s], task[s]>> /\ Dues[s] # <<>>
    BY <1>10 DEF Start, Dues
  <2>2. Claims' = Claims /\ Dues' = [Dues EXCEPT ![s] = <<>>]
    BY <1>10 DEF Start, Claims, Dues, Goto, Inv, TypeOK
  <2>3. Unders' = [Unders EXCEPT ![s] = Dues[s]]
    BY <1>0, <1>10, <2>1 DEF Start, Unders
  <2>4. States' = States
    BY <1>1, <1>10 DEF Start
  <2>5. QED
    BY <2>1, <2>2, <2>3, <2>4 DEF Uses!Start, Uses!Nothing, States, Claims, Dues, Unders
<1>11. ASSUME ConsumeFails(s)
       PROVE  Uses!GiveUp({s})
  <2>1. Claims' = [u \in Submission |-> IF u \in {s} THEN <<>> ELSE Claims[u]]
    BY <1>11 DEF ConsumeFails, Ends, Goto, Claims, Inv, TypeOK
  <2>2. Dues' = [u \in Submission |-> IF u \in {s} THEN <<>> ELSE Dues[u]]
    BY <1>11 DEF ConsumeFails, Ends, Goto, Dues, Inv, TypeOK
  <2>3. QED
    BY <1>1, <1>2, <1>11, <2>1, <2>2
    DEF ConsumeFails, Uses!GiveUp, Uses!Nothing, States, Claims, Dues, Unders
<1>12. QED
  BY AskedPairs, <1>4, <1>5, <1>6, <1>8, <1>9, <1>10, <1>11 DEF Call, Uses!Next

\* Every start under an approval is by a claim that was made on an open grant, and a
\* grant that closed stays closed, whatever is written back over it.
THEOREM GrantsImplementUse == Spec => ImplementsGrantUse
<1>1. Init => Uses!Init
  BY DEF Init, Uses!Init, Uses!Nothing, State
<1>2. Inv /\ ClaimInv /\ [Next]_vars => [Uses!Next]_<<States, Claims, Dues, Unders>>
  <2> SUFFICES ASSUME Inv, ClaimInv, [Next]_vars
               PROVE  [Uses!Next]_<<States, Claims, Dues, Unders>>
    OBVIOUS
  <2>1. ASSUME NEW g \in Grant, Issue(g) \/ Expire(g) \/ RevokeRead(g) \/ RevokeWrite(g)
        PROVE  [Uses!Next]_<<States, Claims, Dues, Unders>>
    <3>1. Claims' = Claims /\ Dues' = Dues /\ Unders' = Unders
      BY <2>1 DEF Issue, Expire, RevokeRead, RevokeWrite, Claims, Dues, Unders, callVars
    <3>2. QED
      BY <2>1, <3>1, GrantStep DEF Uses!Next
  <2>2. CASE Crash
    <3>0. PICK S \in SUBSET Submission : S = {s \in Submission : pc[s] \in {"consume", "start"}}
      OBVIOUS
    <3>1. /\ Claims' = [s \in Submission |-> IF s \in S THEN <<>> ELSE Claims[s]]
          /\ Dues' = [s \in Submission |-> IF s \in S THEN <<>> ELSE Dues[s]]
      BY <2>2, <3>0 DEF Crash, Claims, Dues
    <3>2. States' = States /\ Unders' = Unders
      BY <2>2 DEF Crash, States, State, Unders, grantVars
    <3>3. Uses!GiveUp(S)
      BY <3>1, <3>2 DEF Uses!GiveUp, Uses!Nothing, States, Claims, Dues, Unders
    <3>4. Uses!Next
      BY <3>3, Zenon DEF Uses!Next
    <3>5. QED
      BY <3>4
  <2>3. CASE UNCHANGED vars
    BY <2>3 DEF vars, grantVars, callVars, States, State, Claims, Dues, Unders
  <2>4. QED
    BY <2>1, <2>2, <2>3, CallsUse DEF Next
<1>3. Inv /\ ClaimInv /\ [Next]_vars => [Uses!Next]_Uses!vars
  BY <1>2 DEF Uses!vars, States, Claims, Dues, Unders
<1>4. QED
  BY <1>1, <1>3, ClaimInductive, PTL DEF Spec, ImplementsGrantUse, Uses!Spec
=============================================================================
