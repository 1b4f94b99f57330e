--------------------------- MODULE MissionsProofs ---------------------------
(***************************************************************************)
(* Proofs about Missions.  What the calls hold fits their lists of steps   *)
(* (Fits), and a list has an order: what works on a task comes before what *)
(* leaves it (Listed).  From there on a proof looks at heads of lists only. *)
(***************************************************************************)
EXTENDS Missions, SequenceTheorems, TLAPS

\* The steps that come after others in a list; those that execute a task, and
\* those that may come between them; and those that need to know their task.
Later     == {"decide", "tick", "receipt", "acquire", "run", "release", "hold"}
Executing == {"operate", "acquire", "start", "run", "hold", "sync", "release"}
Works     == Executing \cup {"save"}
Tasked    == Executing \cup {"link", "unlink"}

\* The order of a list.
Listed(s) ==
    /\ \A i \in 2..Len(s) : s[i] \in Later
    /\ \A i, j \in 1..Len(s) : i < j /\ s[j] \in Executing => s[i] \in Works

\* A call holds what its steps need.
Fits(c) ==
    /\ c \in Call
    /\ Listed(c.todo)
    /\ c.todo # <<>> => c.mission \in Mission
    /\ (\E i \in 1..Len(c.todo) : c.todo[i] \in Tasked) => c.task \in Task
    /\ c.todo # <<>> /\ Head(c.todo) = "sync" => c.says.status # "absent"

\* A pending operation belongs to a mission, an editor has loaded a task and cancels
\* none that is over, and a mission that is completed has been.
Loaded(d) ==
    /\ d.task \in Task
    /\ d.status # "absent"
    /\ d.cancels => d.status \notin Over
    /\ d.status = "pending" => task[d.task].mission \in Mission

FilesInv ==
    /\ \A t \in Task : task[t].status = "pending" => task[t].mission \in Mission
    /\ \A e \in Editor : edit[e] # NoEdit => Loaded(edit[e])
    /\ \A m \in Mission : mission[m].status = "completed" => m \in finished

MissionInv == TypeOK /\ FilesInv /\ \A h \in Thread : Fits(call[h])

-----------------------------------------------------------------------------
(* Lists of steps. *)

\* What a list is when other steps replace its head.
LEMMA Replaced ==
  ASSUME NEW s \in Seq(Step), s # <<>>, NEW steps \in Seq(Step)
  PROVE  LET r == steps \o Tail(s) IN
         /\ r \in Seq(Step)
         /\ Len(r) = Len(steps) + Len(s) - 1
         /\ Len(r) \in Nat /\ Len(steps) \in Nat /\ Len(s) \in Nat /\ Len(s) > 0
         /\ \A i \in 1..Len(r) : r[i] = IF i <= Len(steps) THEN steps[i] ELSE s[i - Len(steps) + 1]
         /\ r # <<>> => Len(r) > 0 /\ Head(r) = r[1]
OBVIOUS

\* Such a list is in order if the steps are, and if they do not leave the task
\* before the others of the list have worked on it.
LEMMA ReplacedIsListed ==
  ASSUME NEW s \in Seq(Step), s # <<>>, Listed(s), NEW steps \in Seq(Step), Listed(steps),
         s[1] \in Works => \A i \in 1..Len(steps) : steps[i] \in Works
  PROVE  Listed(steps \o Tail(s))
<1> DEFINE r == steps \o Tail(s)
<1>1. /\ r \in Seq(Step) /\ Len(r) = Len(steps) + Len(s) - 1 /\ Len(s) > 0
      /\ \A i \in 1..Len(r) : r[i] = IF i <= Len(steps) THEN steps[i] ELSE s[i - Len(steps) + 1]
      /\ Len(steps) \in Nat /\ Len(s) \in Nat
  BY Replaced
<1> HIDE DEF r
<1>2. \A i \in 2..Len(r) : r[i] \in Later
  BY <1>1 DEF Listed
<1>3. ASSUME NEW i \in 1..Len(r), NEW j \in 1..Len(r), i < j, r[j] \in Executing
      PROVE  r[i] \in Works
  <2>1. CASE j <= Len(steps)
    BY <1>1, <1>3, <2>1 DEF Listed
  <2>2. CASE i > Len(steps)
    <3>1. /\ s[i - Len(steps) + 1] = r[i] /\ s[j - Len(steps) + 1] = r[j]
          /\ i - Len(steps) + 1 \in 1..Len(s) /\ j - Len(steps) + 1 \in 1..Len(s)
          /\ i - Len(steps) + 1 < j - Len(steps) + 1
      BY <1>1, <1>3, <2>2
    <3> QED
      BY <1>3, <3>1 DEF Listed
  <2>3. CASE i <= Len(steps) /\ j > Len(steps)
    <3> DEFINE k == j - Len(steps) + 1
    <3>1. s[k] = r[j] /\ steps[i] = r[i] /\ k \in 1..Len(s) /\ 1 \in 1..Len(s) /\ 1 < k
      BY <1>1, <1>3, <2>3
    <3> HIDE DEF k
    <3>2. s[1] \in Works
      BY <1>3, <3>1 DEF Listed
    <3> QED
      BY <1>1, <2>3, <3>1, <3>2
  <2> QED
    BY <1>1, <2>1, <2>2, <2>3
<1> QED
  BY <1>2, <1>3 DEF r, Listed

\* What a step gives to its call: the steps that come next, and what they need.
Gives(h, c, steps) ==
    /\ c \in Call /\ c.mission \in Mission
    /\ steps \in Seq(Step) /\ Listed(steps)
    /\ call[h].todo[1] \in Works => \A i \in 1..Len(steps) : steps[i] \in Works
    /\ \/ c.task \in Task
       \/ /\ \A i \in 1..Len(steps) : steps[i] \notin Tasked
          /\ call[h].todo[1] \notin Works \/ c.task = call[h].task
    /\ steps # <<>> /\ steps[1] = "sync" => c.says.status # "absent"

\* The new list is what it was given and what is left of the old list.
Lists(h, steps) ==
    /\ call'[h].todo \in {<<>>, steps \o Tail(call[h].todo)}
    /\ \A i \in 1..Len(call'[h].todo) :
          \/ \E j \in 1..Len(steps) : call'[h].todo[i] = steps[j]
          \/ \E j \in 2..Len(call[h].todo) : call'[h].todo[i] = call[h].todo[j]

\* What comes of it: nothing else is to do, or a step that the list had or that it
\* was given; and the call keeps what it was given, or the mission only.
Took(h, c, steps) ==
    /\ call' \in [Thread -> Call]
    /\ \A g \in Thread \ {h} : call'[g] = call[g]
    /\ Fits(call'[h]) /\ Lists(h, steps)
    /\ \/ call'[h] = NoCall
       \/ /\ call'[h].todo # <<>>
          /\ IF steps = <<>> THEN Head(call'[h].todo) \in Later
                             ELSE Head(call'[h].todo) = steps[1]
          /\ IF Head(call'[h].todo) \in {"tick", "decide", "receipt"}
             THEN call'[h] = [NoCall EXCEPT !.mission = c.mission, !.todo = call'[h].todo]
             ELSE call'[h] = [c EXCEPT !.todo = call'[h].todo]

\* The call of no steps fits.
LEMMA NoCallFits == Fits(NoCall)
<1>1. NoCall \in Call
  BY DEF NoCall, Call, Blank, Silent, MissionRecord, MissionStatus, Report, TaskStatus
<1>2. NoCall.todo = <<>>
  BY DEF NoCall
<1> QED
  BY <1>1, <1>2 DEF Fits, Listed

\* A call that goes on fits what it is to do.
LEMMA ProceedTakes ==
  ASSUME call \in [Thread -> Call], NEW h \in Thread, Fits(call[h]), call[h].todo # <<>>,
         NEW c, NEW steps, Gives(h, c, steps), Proceed(h, c, steps)
  PROVE  Took(h, c, steps)
<1> DEFINE s == call[h].todo
           r == steps \o Tail(s)
<1>1. /\ s \in Seq(Step) /\ s # <<>> /\ Listed(s)
      /\ steps \in Seq(Step) /\ Listed(steps) /\ c \in Call /\ c.mission \in Mission
      /\ (\E i \in 1..Len(s) : s[i] \in Tasked) => call[h].task \in Task
  BY DEF Fits, Gives, Call
<1>2. /\ r \in Seq(Step) /\ Len(r) = Len(steps) + Len(s) - 1 /\ Len(s) > 0
      /\ Len(steps) \in Nat /\ Len(s) \in Nat
      /\ \A i \in 1..Len(r) : r[i] = IF i <= Len(steps) THEN steps[i] ELSE s[i - Len(steps) + 1]
      /\ r # <<>> => Len(r) > 0 /\ Head(r) = r[1]
  BY <1>1, Replaced
<1>3. Listed(r)
  BY <1>1, ReplacedIsListed DEF Gives
<1>4. ASSUME r # <<>>
      PROVE  /\ steps # <<>> => Head(r) = steps[1]
             /\ steps = <<>> => Head(r) \in Later
  <2>1. r[1] = IF 1 <= Len(steps) THEN steps[1] ELSE s[2 - Len(steps)]
    BY <1>2, <1>4
  <2>2. CASE steps # <<>>
    <3>1. Len(steps) >= 1
      BY <1>1, <2>2
    <3> QED
      BY <1>2, <1>4, <2>1, <2>2, <3>1
  <2>3. CASE steps = <<>>
    <3>1. Len(steps) = 0
      BY <2>3
    <3>2. r[1] = s[2] /\ 2 \in 2..Len(s)
      BY <1>2, <1>4, <2>1, <3>1
    <3> QED
      BY <1>1, <1>2, <1>4, <2>3, <3>2 DEF Listed
  <2> QED
    BY <2>2, <2>3
<1>5. ASSUME NEW i \in 1..Len(r), r[i] \in Tasked
      PROVE  c.task \in Task
  <2>1. CASE c.task \in Task
    BY <2>1
  <2>2. CASE /\ \A k \in 1..Len(steps) : steps[k] \notin Tasked
             /\ s[1] \notin Works \/ c.task = call[h].task
    <3> DEFINE k == i - Len(steps) + 1
    <3>1. i > Len(steps)
      BY <1>2, <1>5, <2>2
    <3>2. k \in 2..Len(s) /\ k \in 1..Len(s) /\ 1 \in 1..Len(s) /\ 1 < k /\ r[i] = s[k]
      BY <1>2, <1>5, <3>1
    <3> HIDE DEF k
    <3>3. s[k] \in Later /\ s[k] \in Tasked
      BY <1>1, <1>5, <3>2 DEF Listed
    <3>4. s[k] \in Executing
      BY <3>3 DEF Later, Tasked, Executing
    <3>5. s[1] \in Works
      BY <1>1, <3>2, <3>4 DEF Listed
    <3> QED
      BY <1>1, <2>2, <3>2, <3>3, <3>5
  <2> QED
    BY <2>1, <2>2 DEF Gives
<1>10. ASSUME NEW i \in 1..Len(r)
       PROVE  \/ \E j \in 1..Len(steps) : r[i] = steps[j]
              \/ \E j \in 2..Len(s) : r[i] = s[j]
  <2>1. CASE i <= Len(steps)
    <3>1. i \in 1..Len(steps) /\ r[i] = steps[i]
      BY <1>2, <2>1
    <3> QED
      BY <3>1
  <2>2. CASE i > Len(steps)
    <3>1. i - Len(steps) + 1 \in 2..Len(s) /\ r[i] = s[i - Len(steps) + 1]
      BY <1>2, <2>2
    <3> QED
      BY <3>1
  <2> QED
    BY <1>2, <2>1, <2>2
<1> DEFINE kept == IF r # <<>> /\ Head(r) \in {"tick", "decide", "receipt"}
                   THEN [NoCall EXCEPT !.mission = c.mission] ELSE c
<1>6. call' = [call EXCEPT ![h] = IF r = <<>> THEN NoCall ELSE [kept EXCEPT !.todo = r]]
  BY DEF Proceed
<1>11. ASSUME call'[h].todo = r PROVE Lists(h, steps)
  <2>1. call'[h].todo \in {<<>>, steps \o Tail(call[h].todo)}
    BY <1>11
  <2> QED
    BY <1>10, <1>11, <2>1 DEF Lists
<1> HIDE DEF r, s
<1>7. CASE r = <<>>
  <2>1. call'[h] = NoCall /\ \A g \in Thread \ {h} : call'[g] = call[g]
    BY <1>6, <1>7
  <2>2. NoCall \in Call
    BY NoCallFits DEF Fits
  <2>3. call' \in [Thread -> Call]
    BY <1>6, <1>7, <2>2
  <2>4. Lists(h, steps)
    BY <1>7, <1>11, <2>1 DEF NoCall
  <2> QED
    BY <2>1, <2>3, <2>4, NoCallFits DEF Took
<1>8. CASE r # <<>> /\ Head(r) \in {"tick", "decide", "receipt"}
  <2> DEFINE d == [NoCall EXCEPT !.mission = c.mission, !.todo = r]
  <2>1. /\ d \in Call /\ d.todo = r /\ d.mission = c.mission
        /\ d = [NoCall EXCEPT !.mission = c.mission, !.todo = d.todo]
    BY <1>1, <1>2, NoCallFits DEF Fits, Call, NoCall
  <2>2. call' = [call EXCEPT ![h] = d]
    BY <1>6, <1>8
  <2>3. \A i \in 1..Len(r) : r[i] \notin Tasked
    <3> SUFFICES ASSUME NEW i \in 1..Len(r), r[i] \in Tasked PROVE FALSE
      OBVIOUS
    <3>1. r[1] \notin Works /\ r[1] \notin Tasked
      BY <1>2, <1>8 DEF Works, Executing, Tasked
    <3>2. 1 < i /\ i \in 2..Len(r) /\ 1 \in 1..Len(r)
      BY <1>2, <3>1
    <3>3. r[i] \in Executing
      BY <1>3, <3>2 DEF Listed, Later, Tasked, Executing
    <3> QED
      BY <1>3, <3>1, <3>2, <3>3 DEF Listed
  <2> HIDE DEF d
  <2>4. Fits(d)
    BY <1>1, <1>3, <1>8, <2>1, <2>3 DEF Fits
  <2>5. call'[h] = d /\ call' \in [Thread -> Call] /\ \A g \in Thread \ {h} : call'[g] = call[g]
    BY <2>1, <2>2
  <2> QED
    BY <1>4, <1>8, <1>11, <2>1, <2>4, <2>5 DEF Took
<1>9. CASE r # <<>> /\ Head(r) \notin {"tick", "decide", "receipt"}
  <2> DEFINE d == [c EXCEPT !.todo = r]
  <2>1. /\ d \in Call /\ d.todo = r /\ d.mission = c.mission /\ d.task = c.task
        /\ d.says = c.says /\ d = [c EXCEPT !.todo = d.todo]
    BY <1>1, <1>2 DEF Call
  <2>2. call' = [call EXCEPT ![h] = d]
    BY <1>6, <1>9
  <2> HIDE DEF d
  <2>3. Head(r) = "sync" => c.says.status # "absent"
    BY <1>4, <1>9 DEF Gives, Later
  <2>4. Fits(d)
    BY <1>1, <1>3, <1>5, <2>1, <2>3 DEF Fits
  <2>5. call'[h] = d /\ call' \in [Thread -> Call] /\ \A g \in Thread \ {h} : call'[g] = call[g]
    BY <2>1, <2>2
  <2> QED
    BY <1>4, <1>9, <1>11, <2>1, <2>4, <2>5 DEF Took
<1> QED
  BY <1>7, <1>8, <1>9
-----------------------------------------------------------------------------
(* What each step of a call makes of the call. *)

\* What a call that has something to do is made of.
LEMMA CallTyped ==
  ASSUME MissionInv, NEW h \in Thread, call[h].todo # <<>>
  PROVE  /\ call \in [Thread -> Call] /\ Fits(call[h])
         /\ call[h] \in Call /\ call[h].mission \in Mission
         /\ call[h].copy \in MissionRecord /\ call[h].says \in Report
         /\ Mine(h) \in MissionRecord
         /\ call[h].todo \in Seq(Step) /\ Head(call[h].todo) = call[h].todo[1]
         /\ call[h].todo[1] \in Tasked => call[h].task \in Task
<1>1. call \in [Thread -> Call] /\ Fits(call[h]) /\ mission \in [Mission -> MissionRecord]
  BY DEF MissionInv, TypeOK
<1>2. /\ call[h] \in Call /\ call[h].todo \in Seq(Step) /\ call[h].mission \in Mission
      /\ call[h].copy \in MissionRecord /\ call[h].says \in Report
  BY <1>1 DEF Fits, Call
<1>3. Head(call[h].todo) = call[h].todo[1] /\ 1 \in 1..Len(call[h].todo)
  BY <1>2
<1> QED
  BY <1>1, <1>2, <1>3 DEF Mine, Fits

\* The lists that steps give.
LEMMA ListsFit ==
  /\ \A s \in Step : <<s>> \in Seq(Step) /\ Listed(<<s>>)
  /\ <<>> \in Seq(Step) /\ Listed(<<>>)
  /\ \A s \in {"run", "release"} :
        <<"sync", s>> \in Seq(Step) /\ Listed(<<"sync", s>>)
  /\ <<"release", "hold">> \in Seq(Step) /\ Listed(<<"release", "hold">>)
  /\ <<"hold", "acquire">> \in Seq(Step) /\ Listed(<<"hold", "acquire">>)
  /\ \A s \in {"make", "operate"} :
        <<s, "tick", "receipt">> \in Seq(Step) /\ Listed(<<s, "tick", "receipt">>)
BY DEF Step, Listed, Later, Executing, Works

\* A call with fields of their types is one.
LEMMA CallWith ==
  ASSUME NEW c \in Call
  PROVE  /\ \A r \in MissionRecord : [c EXCEPT !.copy = r] \in Call
         /\ \A t \in Task : [c EXCEPT !.task = t] \in Call
         /\ \A t \in Task : [c EXCEPT !.task = t, !.key = NoKey] \in Call
         /\ \A r \in Report : [c EXCEPT !.says = r] \in Call
         /\ \A r \in MissionRecord, q \in Report : [c EXCEPT !.copy = r, !.says = q] \in Call
         /\ \A r \in MissionRecord, m \in Mission :
               [NoCall EXCEPT !.mission = m, !.copy = r] \in Call
<1>1. NoCall \in Call
  BY NoCallFits DEF Fits
<1> QED
  BY <1>1 DEF Call

\* A blank copy is a record.
LEMMA BlankType == Blank \in MissionRecord /\ Silent \in Report
BY DEF Blank, MissionRecord, MissionStatus, Silent, Report, TaskStatus

\* A call that leaves its head and keeps its fields.
LEMMA SkipTakes ==
  ASSUME MissionInv, NEW h \in Thread, call[h].todo # <<>>, NEW r \in MissionRecord,
         Proceed(h, [call[h] EXCEPT !.copy = r], <<>>)
  PROVE  Took(h, [call[h] EXCEPT !.copy = r], <<>>)
<1> DEFINE c == [call[h] EXCEPT !.copy = r]
<1>1.  c \in Call /\ c.mission \in Mission /\ c.task = call[h].task
  <2>1. call[h] \in Call /\ call[h].mission \in Mission
    BY CallTyped
  <2>2. c \in Call
    BY <2>1, CallWith
  <2>3. c.mission = call[h].mission /\ c.task = call[h].task
    BY <2>1 DEF Call
  <2> QED
    BY <2>1, <2>2, <2>3
<1>2. Gives(h, c, <<>>)
  BY <1>1, ListsFit DEF Gives
<1> QED
  BY <1>2, CallTyped, ProceedTakes

\* The same of Skip.
LEMMA SkipTakesCall ==
  ASSUME MissionInv, NEW h \in Thread, call[h].todo # <<>>, Skip(h)
  PROVE  Took(h, call[h], <<>>)
<1>1. Gives(h, call[h], <<>>)
  BY CallTyped, ListsFit DEF Gives
<1> QED
  BY <1>1, CallTyped, ProceedTakes DEF Skip

\* A call that is to save a copy, when no step of it works on a task.
LEMMA ToSaveTakes ==
  ASSUME MissionInv, NEW h \in Thread, call[h].todo # <<>>, call[h].todo[1] \notin Works,
         NEW r \in MissionRecord, ToSave(h, r)
  PROVE  Took(h, [NoCall EXCEPT !.mission = call[h].mission, !.copy = r], <<"save">>)
<1> DEFINE c == [NoCall EXCEPT !.mission = call[h].mission, !.copy = r]
<1>1. c \in Call /\ c.mission \in Mission
  BY CallTyped, CallWith DEF NoCall
<1>2. <<"save">> \in Seq(Step) /\ Listed(<<"save">>)
  BY ListsFit DEF Step
<1>3. Gives(h, c, <<"save">>)
  BY <1>1, <1>2 DEF Gives, Tasked, Executing
<1> QED
  BY <1>3, CallTyped, ProceedTakes DEF ToSave

\* A call that goes on with steps that need no task.
LEMMA StepTakes ==
  ASSUME MissionInv, NEW h \in Thread, call[h].todo # <<>>, call[h].todo[1] \notin Works,
         NEW c \in Call, c.mission = call[h].mission,
         NEW steps \in Seq(Step), Listed(steps),
         \A i \in 1..Len(steps) : steps[i] \notin Tasked,
         Proceed(h, c, steps)
  PROVE  Took(h, c, steps)
<1>1. steps # <<>> => 1 \in 1..Len(steps)
  OBVIOUS
<1>2. "sync" \in Tasked
  BY DEF Tasked, Executing
<1>3. Gives(h, c, steps)
  BY <1>1, <1>2, CallTyped DEF Gives
<1> QED
  BY <1>3, CallTyped, ProceedTakes

\* A call that goes on with a task that it has just found.
LEMMA TaskTakes ==
  ASSUME MissionInv, NEW h \in Thread, call[h].todo # <<>>, call[h].todo[1] \notin Works,
         NEW c \in Call, c.mission = call[h].mission, c.task \in Task,
         NEW steps \in Seq(Step), Listed(steps), steps # <<>> => steps[1] # "sync",
         Proceed(h, c, steps)
  PROVE  Took(h, c, steps)
<1>1. Gives(h, c, steps)
  BY CallTyped DEF Gives
<1> QED
  BY <1>1, CallTyped, ProceedTakes

\* A call that goes on with steps that work on its task.
LEMMA WorkTakes ==
  ASSUME MissionInv, NEW h \in Thread, call[h].todo # <<>>, call[h].task \in Task,
         NEW c \in Call, c.mission = call[h].mission, c.task = call[h].task,
         NEW steps \in Seq(Step), Listed(steps), \A i \in 1..Len(steps) : steps[i] \in Works,
         steps # <<>> /\ steps[1] = "sync" => c.says.status # "absent",
         Proceed(h, c, steps)
  PROVE  Took(h, c, steps)
<1>1. Gives(h, c, steps)
  BY CallTyped DEF Gives
<1> QED
  BY <1>1, CallTyped, ProceedTakes

\* A call that begins at one step.
LEMMA BeginTakes ==
  ASSUME call \in [Thread -> Call], NEW h \in Thread, NEW c, Fits(c), Begin(h, c)
  PROVE  /\ call' \in [Thread -> Call] /\ call'[h] = c /\ Fits(call'[h])
         /\ \A g \in Thread \ {h} : call'[g] = call[g]
<1>1. c \in Call
  BY DEF Fits
<1> QED
  BY <1>1 DEF Begin

\* A call is over, and the others go on.
Ended(h) ==
    /\ call' \in [Thread -> Call]
    /\ call'[h] = NoCall
    /\ \A g \in Thread \ {h} : call'[g] = call[g]

\* A call that returns.
LEMMA ReturnTakes ==
  ASSUME call \in [Thread -> Call], NEW h \in Thread, Return(h)
  PROVE  Ended(h)
<1>1. NoCall \in Call
  BY NoCallFits DEF Fits
<1> QED
  BY <1>1 DEF Return, Ended

\* Whatever a call is given, it may be over.
LEMMA EndedTakes ==
  ASSUME NEW h \in Thread, Ended(h), NEW c, NEW steps
  PROVE  Took(h, c, steps)
<1>1. Lists(h, steps)
  BY DEF Ended, Lists, NoCall
<1> QED
  BY <1>1, NoCallFits DEF Ended, Took
-----------------------------------------------------------------------------
(* What each action makes of its call. *)

\* The step of an action is the head of the list.
LEMMA HeadIs ==
  ASSUME MissionInv, NEW h \in Thread, NEW step, At(h, step)
  PROVE  call[h].todo # <<>> /\ call[h].todo[1] = step
BY CallTyped DEF At

\* A saved copy is forgotten, and a failed save may end the call.
LEMMA SaveTakes ==
  ASSUME MissionInv, NEW h \in Thread, Save(h) \/ SaveFails(h)
  PROVE  Took(h, [call[h] EXCEPT !.copy = Blank], <<>>)
<1>1. call[h].todo # <<>> /\ call \in [Thread -> Call]
  BY DEF Save, SaveFails, At, MissionInv, TypeOK
<1>2. CASE Proceed(h, [call[h] EXCEPT !.copy = Blank], <<>>)
  BY <1>1, <1>2, SkipTakes, BlankType
<1>3. CASE Return(h)
  BY <1>1, <1>3, ReturnTakes, EndedTakes
<1> QED
  BY <1>2, <1>3 DEF Save, SaveFails

\* A tick loads the record.
LEMMA TickTakes ==
  ASSUME MissionInv, NEW h \in Thread, Tick(h)
  PROVE  Took(h, [call[h] EXCEPT !.copy = Mine(h)], <<"derive">>)
<1> DEFINE c == [call[h] EXCEPT !.copy = Mine(h)]
<1>1. call[h].todo # <<>> /\ call[h].todo[1] = "tick"
  BY HeadIs DEF Tick
<1>2. call[h] \in Call /\ Mine(h) \in MissionRecord
  BY <1>1, CallTyped
<1>3. c \in Call /\ c.mission = call[h].mission
  BY <1>2, CallWith DEF Call
<1>4. <<"derive">> \in Seq(Step) /\ Listed(<<"derive">>)
  BY ListsFit DEF Step
<1>5. Proceed(h, c, <<"derive">>)
  BY DEF Tick
<1> HIDE DEF c
<1>6. "tick" \notin Works /\ \A i \in 1..Len(<<"derive">>) : <<"derive">>[i] \notin Tasked
  BY DEF Works, Executing, Tasked
<1> QED
  BY <1>1, <1>3, <1>4, <1>5, <1>6, StepTakes DEF c

\* Derived statuses are statuses.
LEMMA TickedType ==
  ASSUME NEW r \in MissionRecord, NEW S \in SUBSET Task
  PROVE  Ticked(r, S) \in MissionRecord /\ Ticked(r, S).links = r.links
<1>1. r.status \in MissionStatus /\ r.links \in SUBSET Task
  BY DEF MissionRecord
<1>2. Derived(S, r.status) \in MissionStatus
  BY <1>1 DEF Derived, MissionStatus
<1> QED
  BY <1>1, <1>2 DEF Ticked, MissionRecord

\* A tick saves what the tasks amount to, or nothing.
LEMMA DeriveTakes ==
  ASSUME MissionInv, NEW h \in Thread, Derive(h)
  PROVE  LET r == Ticked(call[h].copy, call[h].copy.links) IN
         \/ /\ call[h].copy.links # {}
            /\ Took(h, [NoCall EXCEPT !.mission = call[h].mission, !.copy = r], <<"save">>)
         \/ Took(h, [call[h] EXCEPT !.copy = Blank], <<>>)
<1> DEFINE r == Ticked(call[h].copy, call[h].copy.links)
<1>1. call[h].todo # <<>> /\ call[h].todo[1] = "derive" /\ call[h].copy \in MissionRecord
  BY HeadIs, CallTyped DEF Derive
<1>2. r \in MissionRecord
  BY <1>1, TickedType DEF MissionRecord
<1>3. CASE call[h].copy.links # {} /\ ToSave(h, r)
  BY <1>1, <1>2, <1>3, ToSaveTakes DEF Works, Executing
<1>4. CASE Proceed(h, [call[h] EXCEPT !.copy = Blank], <<>>)
  BY <1>1, <1>4, SkipTakes, BlankType
<1> QED
  BY <1>3, <1>4 DEF Derive

\* A task is linked, or is so already.
LEMMA LinkTakes ==
  ASSUME MissionInv, NEW h \in Thread, Link(h)
  PROVE  LET r == [Mine(h) EXCEPT !.links = @ \cup {call[h].task}] IN
         \/ call[h].task \in Mine(h).links /\ Took(h, call[h], <<>>)
         \/ Took(h, [NoCall EXCEPT !.mission = call[h].mission, !.copy = r], <<"save">>)
<1> DEFINE r == [Mine(h) EXCEPT !.links = @ \cup {call[h].task}]
<1>1. /\ call[h].todo # <<>> /\ call[h].todo[1] = "link" /\ Mine(h) \in MissionRecord
      /\ call[h].task \in Task
  BY HeadIs, CallTyped DEF Link, Tasked
<1>2. r \in MissionRecord
  BY <1>1 DEF MissionRecord
<1>3. CASE call[h].task \in Mine(h).links /\ Skip(h)
  BY <1>1, <1>3, SkipTakesCall
<1>4. CASE ToSave(h, r)
  BY <1>1, <1>2, <1>4, ToSaveTakes DEF Works, Executing
<1> QED
  BY <1>3, <1>4 DEF Link

\* What a worker reports is a record of the mission.
LEMMA TransitionType ==
  ASSUME NEW r \in MissionRecord, NEW t \in Task, NEW says \in Report, says.status # "absent"
  PROVE  /\ Transition(r, t, says) \in MissionRecord
         /\ Transition(r, t, says).links = r.links \cup {t}
<1>1. /\ r.status \in MissionStatus /\ r.links \in SUBSET Task
      /\ says.status \in TaskStatus
  BY DEF MissionRecord, Report
<1>2. ByTask[says.status] \in MissionStatus
  BY <1>1 DEF ByTask, TaskStatus, MissionStatus
<1> QED
  BY <1>1, <1>2 DEF Transition, MissionRecord, MissionStatus

\* The mission is told of the task.
LEMMA SyncTakes ==
  ASSUME MissionInv, NEW h \in Thread, Sync(h)
  PROVE  LET r == Transition(Mine(h), call[h].task, call[h].says) IN
         /\ r \in MissionRecord
         /\ Took(h, [call[h] EXCEPT !.copy = r, !.says = Silent], <<"save">>)
<1> DEFINE r == Transition(Mine(h), call[h].task, call[h].says)
           c == [call[h] EXCEPT !.copy = r, !.says = Silent]
<1>1. /\ call[h].todo # <<>> /\ call[h].todo[1] = "sync" /\ Mine(h) \in MissionRecord
      /\ call[h].task \in Task /\ call[h].says \in Report /\ call[h] \in Call
      /\ call[h].says.status # "absent"
  BY HeadIs, CallTyped DEF Sync, Tasked, Executing, Fits
<1>2. r \in MissionRecord
  BY <1>1, TransitionType
<1>3. c \in Call
  BY <1>1, <1>2, CallWith, BlankType
<1>4. c.mission = call[h].mission /\ c.task = call[h].task
  BY <1>1 DEF Call
<1>5. Proceed(h, c, <<"save">>)
  BY DEF Sync
<1> HIDE DEF c, r
<1>6. /\ <<"save">> \in Seq(Step) /\ Listed(<<"save">>)
      /\ \A i \in 1..Len(<<"save">>) : <<"save">>[i] \in Works
      /\ <<"save">>[1] # "sync"
  BY ListsFit DEF Step, Works
<1>7. Took(h, c, <<"save">>)
  BY <1>1, <1>3, <1>4, <1>5, <1>6, WorkTakes
<1> QED
  BY <1>2, <1>7 DEF c, r

\* A receipt changes meta fields.
LEMMA ReceiptTakes ==
  ASSUME MissionInv, NEW h \in Thread, Receipt(h)
  PROVE  Took(h, [NoCall EXCEPT !.mission = call[h].mission, !.copy = Mine(h)], <<"save">>)
<1>1. call[h].todo # <<>> /\ call[h].todo[1] = "receipt" /\ Mine(h) \in MissionRecord
  BY HeadIs, CallTyped DEF Receipt
<1> QED
  BY <1>1, ToSaveTakes DEF Receipt, Works, Executing

\* An edit ends, or saves what it changed.
LEMMA EditTakes ==
  ASSUME MissionInv, NEW h \in Thread, Deadletter(h) \/ Patch(h) \/ Unlink(h)
  PROVE  \/ Ended(h)
         \/ At(h, "deadletter") /\ Took(h, call[h], <<"patch">>)
         \/ /\ At(h, "patch")
            /\ Mine(h).status \in Terminal => Mine(h).status = call[h].want
            /\ Took(h, [NoCall EXCEPT !.mission = call[h].mission,
                                      !.copy = [Mine(h) EXCEPT !.status = call[h].want]],
                    <<"save">>)
         \/ /\ At(h, "unlink")
            /\ Took(h, [NoCall EXCEPT !.mission = call[h].mission,
                                      !.copy = [Mine(h) EXCEPT !.links = @ \ {call[h].task}]],
                    <<"save">>)
<1>1. call[h].todo # <<>> /\ call \in [Thread -> Call]
  BY DEF Deadletter, Patch, Unlink, At, MissionInv, TypeOK
<1>2. /\ call[h] \in Call /\ Mine(h) \in MissionRecord /\ call[h].want \in MissionStatus
      /\ call[h].copy \in MissionRecord
  BY <1>1, CallTyped DEF Call
<1>3. CASE Return(h)
  BY <1>1, <1>3, ReturnTakes
<1>4. CASE At(h, "deadletter") /\ Proceed(h, call[h], <<"patch">>)
  <2>1. <<"patch">> \in Seq(Step) /\ Listed(<<"patch">>)
    BY ListsFit DEF Step
  <2>2. call[h].todo[1] \notin Works /\ \A i \in 1..Len(<<"patch">>) : <<"patch">>[i] \notin Tasked
    BY <1>4, HeadIs DEF Works, Executing, Tasked
  <2>3. Took(h, call[h], <<"patch">>)
    BY <1>1, <1>2, <1>4, <2>1, <2>2, StepTakes
  <2> QED
    BY <1>4, <2>3
<1>5. CASE /\ At(h, "patch")
           /\ Mine(h).status \in Terminal => Mine(h).status = call[h].want
           /\ ToSave(h, [Mine(h) EXCEPT !.status = call[h].want])
  <2> DEFINE r == [Mine(h) EXCEPT !.status = call[h].want]
  <2>1. call[h].todo[1] = "patch"
    BY <1>5, HeadIs
  <2>2. r \in MissionRecord
    BY <1>2 DEF MissionRecord
  <2>3. Took(h, [NoCall EXCEPT !.mission = call[h].mission, !.copy = r], <<"save">>)
    BY <1>1, <1>5, <2>1, <2>2, ToSaveTakes DEF Works, Executing
  <2> QED
    BY <1>5, <2>3
<1>6. CASE Unlink(h) /\ ToSave(h, [Mine(h) EXCEPT !.links = @ \ {call[h].task}])
  <2> DEFINE r == [Mine(h) EXCEPT !.links = @ \ {call[h].task}]
  <2>1. call[h].todo[1] = "unlink" /\ At(h, "unlink")
    BY <1>6, HeadIs DEF Unlink
  <2>2. r \in MissionRecord
    BY <1>2 DEF MissionRecord
  <2>3. Took(h, [NoCall EXCEPT !.mission = call[h].mission, !.copy = r], <<"save">>)
    BY <1>1, <1>6, <2>1, <2>2, ToSaveTakes DEF Works, Executing
  <2> QED
    BY <2>1, <2>3
<1> QED
  BY <1>3, <1>4, <1>5, <1>6 DEF Deadletter, Patch, Unlink

\* A replacement leaves a receipt in the mission that it replaces.
LEMMA ReplaceTakes ==
  ASSUME MissionInv, NEW h \in Thread, Replace(h)
  PROVE  Ended(h) \/ Took(h, call[h], <<"receipt">>)
<1>1. /\ call[h].todo # <<>> /\ call \in [Thread -> Call] /\ call[h].todo[1] = "replace"
      /\ call[h] \in Call
  BY HeadIs, CallTyped DEF Replace, At, MissionInv, TypeOK
<1>2. /\ <<"receipt">> \in Seq(Step) /\ Listed(<<"receipt">>) /\ "replace" \notin Works
      /\ \A i \in 1..Len(<<"receipt">>) : <<"receipt">>[i] \notin Tasked
  BY ListsFit DEF Step, Works, Executing, Tasked
<1>3. CASE Return(h)
  BY <1>1, <1>3, ReturnTakes
<1>4. CASE Proceed(h, call[h], <<"receipt">>)
  BY <1>1, <1>2, <1>4, StepTakes
<1> QED
  BY <1>3, <1>4 DEF Replace

\* A requester that finds no operation makes one.
LEMMA FindTakes ==
  ASSUME MissionInv, NEW h \in Thread, Find(h)
  PROVE  \/ Ended(h)
         \/ /\ \A t \in Task : task[t].key # call[h].key
            /\ Took(h, call[h], <<"make">>)
<1>1. /\ call[h].todo # <<>> /\ call \in [Thread -> Call] /\ call[h].todo[1] = "find"
      /\ call[h] \in Call
  BY HeadIs, CallTyped DEF Find, At, MissionInv, TypeOK
<1>2. /\ <<"make">> \in Seq(Step) /\ Listed(<<"make">>) /\ "find" \notin Works
      /\ \A i \in 1..Len(<<"make">>) : <<"make">>[i] \notin Tasked
  BY ListsFit DEF Step, Works, Executing, Tasked
<1>3. CASE Return(h)
  BY <1>1, <1>3, ReturnTakes
<1>4. CASE /\ \A t \in Task : task[t].key # call[h].key
           /\ Proceed(h, call[h], <<"make">>)
  BY <1>1, <1>2, <1>4, StepTakes
<1> QED
  BY <1>3, <1>4 DEF Find

\* An operation is created and will be linked, or it is refused.
LEMMA MakeTakes ==
  ASSUME MissionInv, NEW h \in Thread, Make(h)
  PROVE  \/ /\ Took(h, call[h], <<>>)
            /\ UNCHANGED <<task, firsts>>
         \/ \E t \in Task :
              /\ ~Exists(t)
              /\ task' = [task EXCEPT ![t] = [status |-> "pending", held |-> FALSE,
                                              mission |-> call[h].mission, key |-> call[h].key]]
              /\ Took(h, [call[h] EXCEPT !.task = t, !.key = NoKey], <<"link">>)
              /\ firsts' = IF h \in Advancer /\ call[h].key = NoKey
                           THEN [firsts EXCEPT ![call[h].mission] = IF @ < Many THEN @ + 1 ELSE @]
                           ELSE firsts
<1>1. /\ call[h].todo # <<>> /\ call \in [Thread -> Call] /\ call[h].todo[1] = "make"
      /\ call[h] \in Call
  BY HeadIs, CallTyped DEF Make, At, MissionInv, TypeOK
<1>2. /\ <<"link">> \in Seq(Step) /\ Listed(<<"link">>) /\ "make" \notin Works
      /\ <<"link">>[1] # "sync"
  BY ListsFit DEF Step, Works, Executing
<1>3. CASE Skip(h) /\ UNCHANGED <<task, firsts>>
  BY <1>1, <1>3, SkipTakesCall
<1>4. ASSUME NEW t \in Task, Proceed(h, [call[h] EXCEPT !.task = t, !.key = NoKey], <<"link">>)
      PROVE  Took(h, [call[h] EXCEPT !.task = t, !.key = NoKey], <<"link">>)
  <2> DEFINE c == [call[h] EXCEPT !.task = t, !.key = NoKey]
  <2>1. c \in Call /\ c.mission = call[h].mission /\ c.task = t
    BY <1>1, CallWith DEF Call
  <2>2. Proceed(h, c, <<"link">>)
    BY <1>4
  <2> HIDE DEF c
  <2>3. Took(h, c, <<"link">>)
    BY <1>1, <1>2, <2>1, <2>2, TaskTakes
  <2> QED
    BY <2>3 DEF c
<1> QED
  BY <1>3, <1>4 DEF Make

\* An advance creates the first operation, runs a linked one, or leaves it.
LEMMA DecideTakes ==
  ASSUME MissionInv, NEW h \in Thread, Decide(h)
  PROVE  \/ Ended(h)
         \/ Took(h, call[h], <<"receipt">>)
         \/ /\ Ready(call[h].mission) /\ Mine(h).links = {}
            /\ Took(h, call[h], <<"make", "tick", "receipt">>)
         \/ \E t \in Task :
              /\ Target(call[h].mission, t)
              /\ Took(h, [call[h] EXCEPT !.task = t], <<"operate", "tick", "receipt">>)
<1>1. /\ call[h].todo # <<>> /\ call \in [Thread -> Call] /\ call[h].todo[1] = "decide"
      /\ call[h] \in Call
  BY HeadIs, CallTyped DEF Decide, At, MissionInv, TypeOK
<1>2. /\ <<"receipt">> \in Seq(Step) /\ Listed(<<"receipt">>) /\ "decide" \notin Works
      /\ \A i \in 1..Len(<<"receipt">>) : <<"receipt">>[i] \notin Tasked
  BY ListsFit DEF Step, Works, Executing, Tasked
<1>3. CASE Return(h)
  BY <1>1, <1>3, ReturnTakes
<1>4. CASE Proceed(h, call[h], <<"receipt">>)
  BY <1>1, <1>2, <1>4, StepTakes
<1>5. CASE /\ Ready(call[h].mission) /\ mission[call[h].mission].links = {}
           /\ Proceed(h, call[h], <<"make", "tick", "receipt">>)
  <2>1. /\ <<"make", "tick", "receipt">> \in Seq(Step) /\ Listed(<<"make", "tick", "receipt">>)
        /\ \A i \in 1..Len(<<"make", "tick", "receipt">>) :
              <<"make", "tick", "receipt">>[i] \notin Tasked
    BY ListsFit DEF Tasked, Executing
  <2> QED
    BY <1>1, <1>2, <1>5, <2>1, StepTakes DEF Mine
<1>6. ASSUME NEW t \in Task, Target(call[h].mission, t),
             Proceed(h, [call[h] EXCEPT !.task = t], <<"operate", "tick", "receipt">>)
      PROVE  Took(h, [call[h] EXCEPT !.task = t], <<"operate", "tick", "receipt">>)
  <2> DEFINE c == [call[h] EXCEPT !.task = t]
  <2>1. c \in Call /\ c.mission = call[h].mission /\ c.task = t
    BY <1>1, CallWith DEF Call
  <2>2. Proceed(h, c, <<"operate", "tick", "receipt">>)
    BY <1>6
  <2>3. /\ <<"operate", "tick", "receipt">> \in Seq(Step)
        /\ Listed(<<"operate", "tick", "receipt">>)
        /\ <<"operate", "tick", "receipt">>[1] # "sync"
    BY ListsFit
  <2> HIDE DEF c
  <2>4. Took(h, c, <<"operate", "tick", "receipt">>)
    BY <1>1, <1>2, <2>1, <2>2, <2>3, TaskTakes
  <2> QED
    BY <2>4 DEF c
<1> QED
  BY <1>3, <1>4, <1>5, <1>6 DEF Decide

\* A call that is to tell the mission of its task.
LEMMA TellTakes ==
  ASSUME MissionInv, NEW h \in Thread, call[h].todo # <<>>, call[h].task \in Task,
         NEW status \in TaskStatus \ {"absent"}, NEW held \in BOOLEAN,
         NEW steps \in {<<"sync">>, <<"sync", "run">>, <<"sync", "release">>},
         Tell(h, status, held, steps)
  PROVE  Took(h, [call[h] EXCEPT !.says = [status |-> status, held |-> held]], steps)
<1> DEFINE says == [status |-> status, held |-> held]
           c == [call[h] EXCEPT !.says = says]
<1>1. call[h] \in Call
  BY CallTyped
<1>2. says \in Report /\ says.status # "absent"
  BY DEF Report
<1>3. c \in Call
  BY <1>1, <1>2, CallWith
<1>4. c.mission = call[h].mission /\ c.task = call[h].task /\ c.says = says
  BY <1>1 DEF Call
<1>5. /\ steps \in Seq(Step) /\ Listed(steps)
      /\ \A i \in 1..Len(steps) : steps[i] \in Works
  <2>1. CASE steps = <<"sync">>
    BY <2>1, ListsFit DEF Step, Works, Executing
  <2>3. CASE steps = <<"sync", "run">>
    BY <2>3, ListsFit DEF Works, Executing
  <2>4. CASE steps = <<"sync", "release">>
    BY <2>4, ListsFit DEF Works, Executing
  <2> QED
    BY <2>1, <2>3, <2>4
<1>6. Proceed(h, c, steps)
  BY DEF Tell
<1> HIDE DEF c
<1>7. Took(h, c, steps)
  BY <1>2, <1>3, <1>4, <1>5, <1>6, WorkTakes
<1> QED
  BY <1>7 DEF c

\* A run of an operation accepts again what governance held, and goes on to the
\* lock of the task, or leaves it.
LEMMA OperateTakes ==
  ASSUME MissionInv, NEW h \in Thread, Operate(h)
  PROVE  \/ Took(h, call[h], <<>>) /\ task' = task
         \/ Took(h, call[h], <<"acquire">>) /\ task' = task
         \/ /\ task[call[h].task].status \in Over /\ task[call[h].task].held
            /\ Took(h, call[h], <<"hold", "acquire">>) /\ task' = task
<1>1. /\ call[h].todo # <<>> /\ call[h].task \in Task /\ call[h] \in Call
  BY HeadIs, CallTyped DEF Operate, Tasked, Executing
<1>2. CASE Skip(h) /\ task' = task
  BY <1>1, <1>2, SkipTakesCall
<1>3. CASE Proceed(h, call[h], <<"acquire">>) /\ task' = task
  <2>1. /\ <<"acquire">> \in Seq(Step) /\ Listed(<<"acquire">>) /\ <<"acquire">>[1] # "sync"
        /\ \A i \in 1..Len(<<"acquire">>) : <<"acquire">>[i] \in Works
    BY ListsFit DEF Step, Works, Executing
  <2> QED
    BY <1>1, <1>3, <2>1, WorkTakes
<1>4. CASE /\ task[call[h].task].status \in Over /\ task[call[h].task].held
           /\ Proceed(h, call[h], <<"hold", "acquire">>) /\ task' = task
  <2> DEFINE steps == <<"hold", "acquire">>
  <2>1. /\ steps \in Seq(Step) /\ Listed(steps) /\ steps[1] # "sync"
        /\ \A i \in 1..Len(steps) : steps[i] \in Works
        /\ Proceed(h, call[h], steps)
    BY <1>4, ListsFit DEF Works, Executing
  <2> HIDE DEF steps
  <2>2. Took(h, call[h], steps)
    BY <1>1, <2>1, WorkTakes
  <2> QED
    BY <1>4, <2>2 DEF steps
<1>5. /\ task' = task
      /\ \/ Skip(h)
         \/ Proceed(h, call[h], <<"acquire">>)
         \/ /\ task[call[h].task].status \in Over /\ task[call[h].task].held
            /\ Proceed(h, call[h], <<"hold", "acquire">>)
  BY DEF Operate, ghosts
<1> QED
  BY <1>2, <1>3, <1>4, <1>5

\* Whoever finds the lock of the task free takes it.
LEMMA AcquireTakes ==
  ASSUME MissionInv, NEW h \in Thread, Acquire(h)
  PROVE  \/ Took(h, call[h], <<>>) /\ lock' = lock
         \/ /\ lock[call[h].task] = NoThread
            /\ lock' = [lock EXCEPT ![call[h].task] = h]
            /\ Took(h, call[h], <<"start">>)
<1>1. /\ call[h].todo # <<>> /\ call[h].task \in Task /\ call[h] \in Call
  BY HeadIs, CallTyped DEF Acquire, Tasked, Executing
<1>2. CASE Skip(h) /\ lock' = lock
  BY <1>1, <1>2, SkipTakesCall
<1>3. ASSUME Proceed(h, call[h], <<"start">>)
      PROVE  Took(h, call[h], <<"start">>)
  <2>1. /\ <<"start">> \in Seq(Step) /\ Listed(<<"start">>) /\ <<"start">>[1] # "sync"
        /\ \A i \in 1..Len(<<"start">>) : <<"start">>[i] \in Works
    BY ListsFit DEF Step, Works, Executing
  <2> QED
    BY <1>1, <1>3, <2>1, WorkTakes
<1> QED
  BY <1>2, <1>3 DEF Acquire

\* An execution leaves a finished task, fails an expired one or starts it.
LEMMA StartTakes ==
  ASSUME MissionInv, NEW h \in Thread, StartTask(h)
  PROVE  LET r == task[call[h].task] IN
         \/ Took(h, call[h], <<"release">>) /\ task' = task
         \/ /\ r.status \notin {"complete", "failed"}
            /\ SaveTask(h, "failed", r.held)
            /\ Took(h, call[h], <<"release">>)
         \/ /\ r.status \notin {"complete", "failed"}
            /\ SaveTask(h, "running", r.held)
            /\ Took(h, [call[h] EXCEPT !.says = [status |-> "running", held |-> r.held]],
                    <<"sync", "run">>)
<1> DEFINE r == task[call[h].task]
<1>1. /\ call[h].todo # <<>> /\ call[h].task \in Task /\ call[h] \in Call
  BY HeadIs, CallTyped DEF StartTask, Tasked, Executing
<1>2. r.held \in BOOLEAN
  BY <1>1 DEF MissionInv, TypeOK, TaskRecord
<1>3. ASSUME Proceed(h, call[h], <<"release">>)
      PROVE  Took(h, call[h], <<"release">>)
  <2>1. /\ <<"release">> \in Seq(Step) /\ Listed(<<"release">>) /\ <<"release">>[1] # "sync"
        /\ \A i \in 1..Len(<<"release">>) : <<"release">>[i] \in Works
    BY ListsFit DEF Step, Works, Executing
  <2> QED
    BY <1>1, <1>3, <2>1, WorkTakes
<1>4. ASSUME Tell(h, "running", r.held, <<"sync", "run">>)
      PROVE  Took(h, [call[h] EXCEPT !.says = [status |-> "running", held |-> r.held]],
                  <<"sync", "run">>)
  <2>1. "running" \in TaskStatus \ {"absent"}
    BY DEF TaskStatus
  <2> HIDE DEF r
  <2> QED
    BY <1>1, <1>2, <1>4, <2>1, TellTakes
<1> QED
  BY <1>3, <1>4 DEF StartTask

\* A run ends with a report, or with the release of what governance held.
LEMMA RunTakes ==
  ASSUME MissionInv, NEW h \in Thread, NEW x \in {"ok", "error", "held"}, Run(h, x)
  PROVE  LET status == IF x = "ok" THEN "complete" ELSE "failed" IN
         /\ SaveTask(h, status, x = "held")
         /\ \/ /\ x # "held"
               /\ Took(h, [call[h] EXCEPT !.says = [status |-> status, held |-> FALSE]],
                       <<"sync", "release">>)
            \/ x = "held" /\ Took(h, call[h], <<"release">>)
            \/ x = "held" /\ ~Pooled(h) /\ Took(h, call[h], <<"release", "hold">>)
<1> DEFINE status == IF x = "ok" THEN "complete" ELSE "failed"
<1>1. /\ call[h].todo # <<>> /\ call[h].task \in Task /\ call[h] \in Call
  BY HeadIs, CallTyped DEF Run, Tasked, Executing
<1>2. SaveTask(h, status, x = "held")
  BY DEF Run
<1>3. CASE x # "held"
  <2>1. Tell(h, status, FALSE, <<"sync", "release">>)
    BY <1>3 DEF Run
  <2>2. status \in TaskStatus \ {"absent"}
    BY DEF TaskStatus
  <2> HIDE DEF status
  <2>3. Took(h, [call[h] EXCEPT !.says = [status |-> status, held |-> FALSE]],
             <<"sync", "release">>)
    BY <1>1, <2>1, <2>2, TellTakes
  <2> QED
    BY <1>2, <1>3, <2>3 DEF status
<1>4. CASE x = "held" /\ Pooled(h)
  <2>1. Proceed(h, call[h], <<"release">>)
    BY <1>4 DEF Run
  <2>2. /\ <<"release">> \in Seq(Step) /\ Listed(<<"release">>) /\ <<"release">>[1] # "sync"
        /\ \A i \in 1..Len(<<"release">>) : <<"release">>[i] \in Works
    BY ListsFit DEF Step, Works, Executing
  <2>3. Took(h, call[h], <<"release">>)
    BY <1>1, <2>1, <2>2, WorkTakes
  <2> QED
    BY <1>2, <1>4, <2>3
<1>5. CASE x = "held" /\ ~Pooled(h)
  <2>1. Proceed(h, call[h], <<"release", "hold">>)
    BY <1>5 DEF Run
  <2>2. /\ <<"release", "hold">> \in Seq(Step) /\ Listed(<<"release", "hold">>)
        /\ <<"release", "hold">>[1] # "sync"
        /\ \A i \in 1..Len(<<"release", "hold">>) : <<"release", "hold">>[i] \in Works
    BY ListsFit DEF Works, Executing
  <2>3. Took(h, call[h], <<"release", "hold">>)
    BY <1>1, <2>1, <2>2, WorkTakes
  <2> QED
    BY <1>2, <1>5, <2>3
<1> QED
  BY <1>3, <1>4, <1>5

\* The lock is given back.
LEMMA ReleaseTakes ==
  ASSUME MissionInv, NEW h \in Thread, Release(h)
  PROVE  Took(h, call[h], <<>>)
<1>1. call[h].todo # <<>>
  BY DEF Release, At
<1> QED
  BY <1>1, SkipTakesCall DEF Release

\* What governance held is accepted again, and the mission told.
LEMMA HoldTakes ==
  ASSUME MissionInv, NEW h \in Thread, Hold(h)
  PROVE  /\ SaveTask(h, "accepted", TRUE)
         /\ Took(h, [call[h] EXCEPT !.says = [status |-> "accepted", held |-> TRUE]], <<"sync">>)
<1>1. /\ call[h].todo # <<>> /\ call[h].task \in Task
  BY HeadIs, CallTyped DEF Hold, Tasked, Executing
<1>2. "accepted" \in TaskStatus \ {"absent"}
  BY DEF TaskStatus
<1> QED
  BY <1>1, <1>2, TellTakes DEF Hold

-----------------------------------------------------------------------------
(* Every step keeps MissionInv. *)

\* The conjuncts that are not about calls.
Rest ==
    /\ mission \in [Mission -> MissionRecord]
    /\ task \in [Task -> TaskRecord]
    /\ lock \in [Task -> Thread \cup {NoThread}]
    /\ firsts \in [Mission -> 0..Many]
    /\ finished \subseteq Mission
    /\ overwritten \subseteq Task
    /\ contested \subseteq Key \cup {NoKey}
    /\ edit \in [Editor -> Edit]
    /\ trouble \in 0..MaxTrouble
    /\ FilesInv

Calls == call \in [Thread -> Call] /\ \A h \in Thread : Fits(call[h])

\* When a call moves, all calls still fit.
LEMMA TookFits ==
  ASSUME MissionInv, NEW h \in Thread,
         Ended(h) \/ \E c, steps : Took(h, c, steps)
  PROVE  Calls'
<1>1. /\ call' \in [Thread -> Call] /\ Fits(call'[h])
      /\ \A g \in Thread \ {h} : call'[g] = call[g]
  BY NoCallFits DEF Ended, Took
<1> QED
  BY <1>1 DEF MissionInv, Calls

\* A request of a mission begins with a call that fits.
LEMMA RequestFits ==
  ASSUME MissionInv, NEW h \in Thread, NEW m \in Mission, NEW c \in Call,
         Listed(c.todo), \A i \in 1..Len(c.todo) : c.todo[i] \notin Executing \cup {"link"},
         (\E i \in 1..Len(c.todo) : c.todo[i] = "unlink") => c.task \in Task,
         Request(h, m, c)
  PROVE  /\ Calls'
         /\ call'[h] = [c EXCEPT !.mission = m]
         /\ \A g \in Thread \ {h} : call'[g] = call[g]
<1> DEFINE d == [c EXCEPT !.mission = m]
<1>1. /\ d \in Call /\ d.todo = c.todo /\ d.task = c.task /\ d.mission = m
      /\ d.todo \in Seq(Step)
  BY DEF Call
<1>2. d.todo # <<>> => Head(d.todo) = d.todo[1] /\ 1 \in 1..Len(d.todo)
  BY <1>1
<1>3. Begin(h, d)
  BY DEF Request
<1> HIDE DEF d
<1>4. \A i \in 1..Len(d.todo) : d.todo[i] \in Tasked => d.todo[i] = "unlink"
  BY <1>1 DEF Tasked
<1>5. d.todo # <<>> => Head(d.todo) # "sync"
  BY <1>1, <1>2 DEF Executing
<1>6. Fits(d)
  BY <1>1, <1>4, <1>5 DEF Fits
<1>7. call' \in [Thread -> Call] /\ call'[h] = d /\ \A g \in Thread \ {h} : call'[g] = call[g]
  BY <1>3, <1>6, BeginTakes DEF MissionInv, TypeOK
<1> QED
  BY <1>6, <1>7 DEF MissionInv, Calls, d

\* Requests, and slots of pools, begin with such calls.
LEMMA BeginFits ==
  ASSUME MissionInv,
         \/ \E h \in Advancer, m \in Mission : Advances(h, m)
         \/ \E h \in Clerk, m \in Mission : Ticks(h, m) \/ Edits(h, m)
         \/ \E h \in Clerk, m \in Mission, k \in Key : Creates(h, m, k)
         \/ \E w \in Worker, t \in Task : Claim(w, t)
  PROVE  Calls'
<1>1. Advancer \subseteq Thread /\ Clerk \subseteq Thread /\ Worker \subseteq Thread
  BY DEF Thread
<1>2. /\ NoCall \in Call /\ mission \in [Mission -> MissionRecord]
      /\ NoCall.todo = <<>> /\ call \in [Thread -> Call]
  BY NoCallFits DEF Fits, MissionInv, TypeOK, NoCall
<1>3. ASSUME NEW h \in Advancer, NEW m \in Mission, Advances(h, m) PROVE Calls'
  <2> DEFINE c == [NoCall EXCEPT !.todo = <<"derive", "decide">>, !.copy = mission[m]]
  <2>1. <<"derive", "decide">> \in Seq(Step)
    BY DEF Step
  <2>2. c \in Call /\ c.todo = <<"derive", "decide">>
    BY <1>2, <2>1 DEF Call, NoCall
  <2>3. /\ Listed(<<"derive", "decide">>)
        /\ \A i \in 1..Len(<<"derive", "decide">>) :
              /\ <<"derive", "decide">>[i] \notin Executing \cup {"link"}
              /\ <<"derive", "decide">>[i] # "unlink"
    BY DEF Listed, Later, Executing
  <2>4. Request(h, m, c)
    BY <1>3 DEF Advances
  <2> HIDE DEF c
  <2> QED
    BY <1>1, <2>2, <2>3, <2>4, RequestFits
<1>4. ASSUME NEW h \in Clerk, NEW m \in Mission, Ticks(h, m) PROVE Calls'
  <2> DEFINE c == [NoCall EXCEPT !.todo = <<"derive">>, !.copy = mission[m]]
  <2>1. <<"derive">> \in Seq(Step)
    BY DEF Step
  <2>2. c \in Call /\ c.todo = <<"derive">>
    BY <1>2, <2>1 DEF Call, NoCall
  <2>3. /\ Listed(<<"derive">>)
        /\ \A i \in 1..Len(<<"derive">>) :
              /\ <<"derive">>[i] \notin Executing \cup {"link"}
              /\ <<"derive">>[i] # "unlink"
    BY DEF Listed, Later, Executing
  <2>4. Request(h, m, c)
    BY <1>4 DEF Ticks
  <2> HIDE DEF c
  <2> QED
    BY <1>1, <2>2, <2>3, <2>4, RequestFits
<1>5. ASSUME NEW h \in Clerk, NEW m \in Mission, NEW k \in Key, Creates(h, m, k) PROVE Calls'
  <2> DEFINE c == [NoCall EXCEPT !.todo = <<"find">>, !.key = k]
  <2>1. <<"find">> \in Seq(Step)
    BY DEF Step
  <2>2. c \in Call /\ c.todo = <<"find">>
    BY <1>2, <2>1 DEF Call, NoCall
  <2>3. /\ Listed(<<"find">>)
        /\ \A i \in 1..Len(<<"find">>) :
              /\ <<"find">>[i] \notin Executing \cup {"link"}
              /\ <<"find">>[i] # "unlink"
    BY DEF Listed, Later, Executing
  <2>4. Request(h, m, c)
    BY <1>5 DEF Creates
  <2> HIDE DEF c
  <2> QED
    BY <1>1, <2>2, <2>3, <2>4, RequestFits
<1>6. ASSUME NEW h \in Clerk, NEW m \in Mission, Edits(h, m) PROVE Calls'
  <2>1. ASSUME NEW c \in Call, NEW s \in {"patch", "deadletter", "replace", "unlink"},
               c.todo = <<s>>, s = "unlink" => c.task \in Task, Request(h, m, c)
        PROVE  Calls'
    <3>1. /\ Listed(<<s>>)
          /\ \A i \in 1..Len(<<s>>) :
                <<s>>[i] \notin Executing \cup {"link"} /\ <<s>>[i] = s
      BY DEF Listed, Later, Executing
    <3> QED
      BY <1>1, <2>1, <3>1, RequestFits
  <2>2. ASSUME NEW s \in Wanted,
               Request(h, m, [NoCall EXCEPT !.todo = <<"patch">>, !.want = s])
        PROVE  Calls'
    <3> DEFINE c == [NoCall EXCEPT !.todo = <<"patch">>, !.want = s]
    <3>1. <<"patch">> \in Seq(Step) /\ s \in MissionStatus
      BY MissionAssumption DEF Step, MissionStatus
    <3>2. c \in Call /\ c.todo = <<"patch">>
      BY <1>2, <3>1 DEF Call, NoCall
    <3> QED
      BY <2>1, <2>2, <3>2
  <2>3. ASSUME Request(h, m, [NoCall EXCEPT !.todo = <<"deadletter">>, !.want = "deadlettered"])
        PROVE  Calls'
    <3> DEFINE c == [NoCall EXCEPT !.todo = <<"deadletter">>, !.want = "deadlettered"]
    <3>1. <<"deadletter">> \in Seq(Step) /\ "deadlettered" \in MissionStatus
      BY DEF Step, MissionStatus
    <3>2. c \in Call /\ c.todo = <<"deadletter">>
      BY <1>2, <3>1 DEF Call, NoCall
    <3> QED
      BY <2>1, <2>3, <3>2
  <2>4. ASSUME NEW t \in Task,
               Request(h, m, [NoCall EXCEPT !.todo = <<"unlink">>, !.task = t])
        PROVE  Calls'
    <3> DEFINE c == [NoCall EXCEPT !.todo = <<"unlink">>, !.task = t]
    <3>1. <<"unlink">> \in Seq(Step)
      BY DEF Step
    <3>2. c \in Call /\ c.todo = <<"unlink">> /\ c.task = t
      BY <1>2, <3>1 DEF Call, NoCall
    <3> QED
      BY <2>1, <2>4, <3>2
  <2>5. ASSUME Request(h, m, [NoCall EXCEPT !.todo = <<"replace">>])
        PROVE  Calls'
    <3> DEFINE c == [NoCall EXCEPT !.todo = <<"replace">>]
    <3>1. <<"replace">> \in Seq(Step)
      BY DEF Step
    <3>2. c \in Call /\ c.todo = <<"replace">>
      BY <1>2, <3>1 DEF Call, NoCall
    <3> QED
      BY <2>1, <2>5, <3>2
  <2> QED
    BY <1>6, <2>2, <2>3, <2>4, <2>5 DEF Edits
<1>7. ASSUME NEW w \in Worker, NEW t \in Task, Claim(w, t) PROVE Calls'
  <2> DEFINE c == [NoCall EXCEPT !.todo = <<"start">>, !.mission = task[t].mission, !.task = t]
  <2>1. task[t].mission \in Mission
    BY <1>7 DEF Claim, MissionInv, FilesInv
  <2>2. <<"start">> \in Seq(Step) /\ Listed(<<"start">>) /\ Head(<<"start">>) # "sync"
    BY ListsFit DEF Step
  <2>3. c \in Call /\ c.todo = <<"start">> /\ c.mission = task[t].mission /\ c.task = t
    BY <1>2, <2>1, <2>2 DEF Call, NoCall
  <2>4. Begin(w, c)
    BY <1>7 DEF Claim
  <2> HIDE DEF c
  <2>5. Fits(c)
    BY <2>1, <2>2, <2>3 DEF Fits
  <2>6. call' \in [Thread -> Call] /\ call'[w] = c /\ \A g \in Thread \ {w} : call'[g] = call[g]
    BY <1>1, <1>2, <2>4, <2>5, BeginTakes
  <2> QED
    BY <2>5, <2>6 DEF MissionInv, Calls
<1> QED
  BY <1>3, <1>4, <1>5, <1>6, <1>7

\* What editors have loaded stays so while tasks keep their missions.
LEMMA FilesKept ==
  ASSUME FilesInv, UNCHANGED edit,
         \A t \in Task : task'[t].mission \in Mission \cup {task[t].mission},
         \A t \in Task : task'[t].status = "pending" => task'[t].mission \in Mission,
         \A m \in Mission : mission'[m].status = "completed" => m \in finished'
  PROVE  FilesInv'
<1>1. ASSUME NEW e \in Editor, edit'[e] # NoEdit PROVE Loaded(edit[e])'
  <2>1. edit'[e] = edit[e] /\ Loaded(edit[e])
    BY <1>1 DEF FilesInv
  <2>2. task'[edit[e].task].mission \in Mission \cup {task[edit[e].task].mission}
    BY <2>1 DEF Loaded
  <2> QED
    BY <2>1, <2>2 DEF Loaded
<1> QED
  BY <1>1 DEF FilesInv

\* A saved copy keeps the missions in their types, and a completed one is noted.
LEMMA WriteRest ==
  ASSUME MissionInv, NEW h \in Thread, call[h].todo # <<>>, Write(h),
         UNCHANGED <<task, lock, firsts, overwritten, contested, edit>>, trouble' \in 0..MaxTrouble
  PROVE  Rest'
<1> DEFINE m == call[h].mission
<1>1. m \in Mission /\ call[h].copy \in MissionRecord
  BY CallTyped
<1>2. mission' = [mission EXCEPT ![m] = call[h].copy]
  BY DEF Write
<1>3. mission' \in [Mission -> MissionRecord]
  BY <1>1, <1>2 DEF MissionInv, TypeOK
<1>4. finished' = IF mission'[m].status = "completed" THEN finished \cup {m} ELSE finished
  BY DEF Write
<1>5. ASSUME NEW n \in Mission, mission'[n].status = "completed" PROVE n \in finished'
  <2>1. CASE n = m
    BY <1>4, <1>5, <2>1
  <2>2. CASE n # m
    BY <1>1, <1>2, <1>4, <1>5, <2>2 DEF MissionInv, TypeOK, FilesInv
  <2> QED
    BY <2>1, <2>2
<1>6. FilesInv'
  BY <1>5, FilesKept DEF MissionInv, FilesInv
<1> QED
  BY <1>1, <1>3, <1>4, <1>6 DEF MissionInv, TypeOK, Rest

\* A saved task keeps its mission.
LEMMA SaveTaskRest ==
  ASSUME MissionInv, NEW h \in Thread, call[h].task \in Task,
         NEW status \in TaskStatus \ {"pending"}, NEW held \in BOOLEAN,
         SaveTask(h, status, held), UNCHANGED <<mission, lock, ghosts, edit, trouble>>
  PROVE  Rest'
<1> DEFINE t == call[h].task
           r == [task[t] EXCEPT !.status = status, !.held = held]
<1>1. task \in [Task -> TaskRecord] /\ task[t] \in TaskRecord
  BY DEF MissionInv, TypeOK
<1>2. r \in TaskRecord /\ r.mission = task[t].mission /\ r.status # "pending"
  BY <1>1 DEF TaskRecord
<1>3. task' = [task EXCEPT ![t] = r]
  BY <1>1 DEF SaveTask
<1> HIDE DEF r
<1>4. task' \in [Task -> TaskRecord] /\ task'[t].status # "pending"
  BY <1>1, <1>2, <1>3
<1>5. \A u \in Task : u # t => task'[u] = task[u]
  BY <1>1, <1>3
<1>6. \A u \in Task : task'[u].mission = task[u].mission
  BY <1>1, <1>2, <1>3
<1>7. FilesInv'
  BY <1>4, <1>5, <1>6, FilesKept DEF MissionInv, FilesInv, ghosts
<1> QED
  BY <1>4, <1>7 DEF MissionInv, TypeOK, Rest, ghosts

\* An editor that has nothing to save.
LEMMA NoEditType == NoEdit \in Edit
BY DEF NoEdit, Edit, TaskStatus

\* Every step keeps the conjuncts that are not about calls.
LEMMA RestStep ==
  ASSUME MissionInv, [Next]_vars
  PROVE  Rest'
<1> USE DEF ghosts
<1>1. Rest /\ NoThread \notin Thread
  BY MissionAssumption DEF MissionInv, TypeOK, Rest
<1>2. ASSUME UNCHANGED <<mission, task, lock, ghosts, edit>>, trouble' \in 0..MaxTrouble
      PROVE  Rest'
  <2>1. FilesInv'
    BY <1>1, <1>2, FilesKept DEF Rest, FilesInv
  <2> QED
    BY <1>1, <1>2, <2>1 DEF Rest
<1>3. ASSUME trouble < MaxTrouble, trouble' = trouble + 1 PROVE trouble' \in 0..MaxTrouble
  BY <1>1, <1>3, MissionAssumption DEF Rest
<1>4. ASSUME NEW m \in Mission, CreateMission(m) PROVE Rest'
  <2>1. mission' = [mission EXCEPT ![m] = [mission[m] EXCEPT !.status = "queued"]]
    BY <1>4 DEF CreateMission
  <2>2. [mission[m] EXCEPT !.status = "queued"] \in MissionRecord
    BY <1>1 DEF Rest, MissionRecord, MissionStatus
  <2>3. [mission[m] EXCEPT !.status = "queued"].status # "completed"
    BY <1>1 DEF Rest, MissionRecord
  <2>4. mission' \in [Mission -> MissionRecord]
    BY <1>1, <2>1, <2>2 DEF Rest
  <2>5. \A n \in Mission : mission'[n].status = "completed" => mission[n].status = "completed"
    BY <1>1, <2>1, <2>3 DEF Rest
  <2>6. FilesInv'
    BY <1>1, <1>4, <2>5, FilesKept DEF CreateMission, Rest, FilesInv
  <2> QED
    BY <1>1, <1>4, <2>4, <2>6 DEF CreateMission, Rest
<1>5. ASSUME NEW e \in Editor, TaskEdit(e) PROVE Rest'
  <2>1. ASSUME NEW t \in Task, NEW cancels \in BOOLEAN, LoadTask(e, t, cancels) PROVE Rest'
    <3> DEFINE d == [task |-> t, cancels |-> cancels,
                     status |-> task[t].status, held |-> task[t].held]
    <3>1. d \in Edit /\ Loaded(d)
      BY <1>1, <2>1 DEF Rest, TaskRecord, TaskStatus, Edit, Loaded, LoadTask, Exists, FilesInv
    <3>2. edit' = [edit EXCEPT ![e] = d]
      BY <2>1 DEF LoadTask
    <3> HIDE DEF d
    <3>3. edit' \in [Editor -> Edit] /\ \A f \in Editor : edit'[f] = edit[f] \/ Loaded(edit'[f])
      BY <1>1, <3>1, <3>2 DEF Rest
    <3>4. trouble' \in 0..MaxTrouble /\ UNCHANGED <<mission, task, lock, ghosts>>
      BY <1>3, <2>1 DEF LoadTask
    <3>5. \A f \in Editor : edit'[f] # NoEdit => Loaded(edit[f])'
      <4> SUFFICES ASSUME NEW f \in Editor, edit'[f] # NoEdit PROVE Loaded(edit[f])'
        OBVIOUS
      <4>1. Loaded(edit'[f]) /\ task' = task
        BY <1>1, <3>3, <3>4 DEF Rest, FilesInv
      <4> QED
        BY <4>1 DEF Loaded
    <3>6. FilesInv'
      BY <1>1, <3>4, <3>5 DEF Rest, FilesInv
    <3> QED
      BY <1>1, <3>3, <3>4, <3>6 DEF Rest
  <2>2. CASE StoreTask(e)
    <3> DEFINE d == edit[e]
               r == [task[d.task] EXCEPT !.status = IF d.cancels THEN "cancelled" ELSE d.status,
                                         !.held = d.held]
    <3>1. d \in Edit /\ Loaded(d) /\ d.task \in Task
      BY <1>1, <1>5, <2>2 DEF StoreTask, Rest, FilesInv, Loaded
    <3>2. r \in TaskRecord /\ r.mission = task[d.task].mission
          /\ (r.status = "pending" => d.status = "pending")
      <4>1. task[d.task] \in TaskRecord /\ d.held \in BOOLEAN /\ d.status \in TaskStatus
        BY <1>1, <3>1 DEF Rest, Edit
      <4>2. (IF d.cancels THEN "cancelled" ELSE d.status) \in TaskStatus
        BY <4>1 DEF TaskStatus
      <4> HIDE DEF d
      <4> QED
        BY <4>1, <4>2 DEF TaskRecord
    <3>3. task' = [task EXCEPT ![d.task] = r]
      BY <1>1, <3>1, <2>2 DEF StoreTask, Rest
    <3>4. /\ UNCHANGED <<mission, lock, firsts, finished, contested, trouble>>
          /\ edit' = [edit EXCEPT ![e] = NoEdit]
          /\ overwritten' \in {overwritten, overwritten \cup {d.task}}
      BY <2>2 DEF StoreTask
    <3> HIDE DEF r
    <3>5. task' \in [Task -> TaskRecord] /\ task'[d.task] = r
          /\ \A u \in Task : u # d.task => task'[u] = task[u]
      BY <1>1, <3>1, <3>2, <3>3 DEF Rest
    <3>6. \A u \in Task : task'[u].mission = task[u].mission
      BY <3>2, <3>5
    <3>7. \A u \in Task : task'[u].status = "pending" => task'[u].mission \in Mission
      BY <1>1, <3>1, <3>2, <3>5 DEF Rest, FilesInv, Loaded
    <3>8. \A f \in Editor : edit'[f] # NoEdit => edit'[f] = edit[f] /\ Loaded(edit[f])
      BY <1>1, <1>5, <3>4 DEF Rest, FilesInv
    <3>9. \A f \in Editor : edit'[f] # NoEdit => Loaded(edit[f])'
      <4> SUFFICES ASSUME NEW f \in Editor, edit'[f] # NoEdit PROVE Loaded(edit[f])'
        OBVIOUS
      <4>1. edit'[f] = edit[f] /\ Loaded(edit[f])
        BY <3>8
      <4>2. task'[edit[f].task].mission = task[edit[f].task].mission
        BY <3>6, <4>1 DEF Loaded
      <4> QED
        BY <4>1, <4>2 DEF Loaded
    <3>10. edit' \in [Editor -> Edit]
      BY <1>1, <3>4, NoEditType DEF Rest
    <3>11. FilesInv'
      BY <1>1, <3>4, <3>7, <3>9 DEF Rest, FilesInv
    <3> QED
      BY <1>1, <3>1, <3>4, <3>5, <3>7, <3>9, <3>10, <3>11 DEF Rest
  <2> QED
    BY <1>5, <2>1, <2>2 DEF TaskEdit
<1>6. ASSUME NEW t \in Task, Reclaim(t) PROVE Rest'
  <2>1. FilesInv'
    BY <1>1, <1>6, FilesKept DEF Reclaim, Rest, FilesInv
  <2> QED
    BY <1>1, <1>6, <2>1 DEF Reclaim, Rest
<1>7. ASSUME NEW h \in Thread, StoreStep(h) PROVE Rest'
  <2>1. CASE Save(h)
    BY <1>1, <2>1, WriteRest DEF Save, At, Rest
  <2>2. CASE SaveFails(h)
    <3>1. trouble' \in 0..MaxTrouble /\ UNCHANGED <<task, lock, firsts, overwritten, contested, edit>>
          /\ call[h].todo # <<>>
      BY <1>3, <2>2 DEF SaveFails, At
    <3>2. CASE Write(h)
      BY <3>1, <3>2, WriteRest
    <3>3. CASE UNCHANGED <<mission, finished>>
      BY <1>2, <3>1, <3>3
    <3> QED
      BY <2>2, <3>2, <3>3 DEF SaveFails
  <2>3. CASE Tick(h) \/ Derive(h) \/ Link(h) \/ Sync(h) \/ Receipt(h)
    BY <1>1, <1>2, <2>3 DEF Tick, Derive, Link, Sync, Receipt, Rest
  <2> QED
    BY <1>7, <2>1, <2>2, <2>3 DEF StoreStep
<1>8. ASSUME NEW h \in Thread, EditStep(h) PROVE Rest'
  <2>1. CASE Deadletter(h) \/ Patch(h) \/ Unlink(h)
    BY <1>1, <1>2, <2>1 DEF Deadletter, Patch, Unlink, Rest
  <2>2. CASE Replace(h) /\ mission' = mission
    BY <1>1, <1>2, <2>2 DEF Replace, Rest
  <2>3. ASSUME Replace(h), NEW m \in Mission,
               mission' = [mission EXCEPT ![m].status = "queued"]
        PROVE  Rest'
    <3>1. mission' = [mission EXCEPT ![m] = [mission[m] EXCEPT !.status = "queued"]]
      BY <2>3
    <3>2. [mission[m] EXCEPT !.status = "queued"] \in MissionRecord
      BY <1>1 DEF Rest, MissionRecord, MissionStatus
    <3>3. [mission[m] EXCEPT !.status = "queued"].status # "completed"
      BY <1>1 DEF Rest, MissionRecord
    <3>4. mission' \in [Mission -> MissionRecord]
      BY <1>1, <3>1, <3>2 DEF Rest
    <3>5. \A n \in Mission : mission'[n].status = "completed" => mission[n].status = "completed"
      BY <1>1, <3>1, <3>3 DEF Rest
    <3>6. FilesInv'
      BY <1>1, <2>3, <3>5, FilesKept DEF Replace, Rest, FilesInv
    <3> QED
      BY <1>1, <2>3, <3>4, <3>6 DEF Replace, Rest
  <2> QED
    BY <1>8, <2>1, <2>2, <2>3 DEF EditStep, Replace
<1>9. ASSUME NEW h \in Thread, CreateStep(h) PROVE Rest'
  <2>1. CASE Find(h)
    <3>1. /\ UNCHANGED <<mission, task, lock, firsts, finished, overwritten, edit, trouble>>
          /\ contested' \in {contested, contested \cup {call[h].key}}
          /\ call[h].todo # <<>>
      BY <2>1 DEF Find, At
    <3>2. call[h].key \in Key \cup {NoKey}
      BY <3>1, CallTyped DEF Call
    <3>3. contested' \subseteq Key \cup {NoKey}
      BY <1>1, <3>1, <3>2 DEF Rest
    <3>4. FilesInv'
      BY <1>1, <3>1, FilesKept DEF Rest, FilesInv
    <3> QED
      BY <1>1, <3>1, <3>3, <3>4 DEF Rest
  <2>2. CASE Make(h)
    <3>1. UNCHANGED <<mission, lock, finished, overwritten, contested, edit, trouble>> /\ call[h].todo # <<>>
      BY <2>2 DEF Make, At
    <3>2. call[h].mission \in Mission /\ call[h].key \in Key \cup {NoKey}
      BY <3>1, CallTyped DEF Call
    <3>3. firsts' \in [Mission -> 0..Many]
      <4> DEFINE m == call[h].mission
                 n == IF firsts[m] < Many THEN firsts[m] + 1 ELSE firsts[m]
      <4>1. n \in 0..Many
        <5>1. firsts[m] \in 0..Many
          BY <1>1, <3>2 DEF Rest
        <5> QED
          BY <5>1 DEF Many
      <4>2. firsts' = firsts \/ firsts' = [firsts EXCEPT ![m] = n]
        BY <2>2, MakeTakes
      <4> HIDE DEF n, m
      <4> QED
        BY <1>1, <4>1, <4>2 DEF Rest
    <3>4. CASE task' = task
      <4>1. FilesInv'
        BY <1>1, <3>1, <3>4, FilesKept DEF Rest, FilesInv
      <4> QED
        BY <1>1, <3>1, <3>3, <3>4, <4>1 DEF Rest
    <3>5. ASSUME NEW t \in Task,
                 task' = [task EXCEPT ![t] = [status |-> "pending", held |-> FALSE,
                                              mission |-> call[h].mission, key |-> call[h].key]]
          PROVE  Rest'
      <4> DEFINE r == [status |-> "pending", held |-> FALSE,
                       mission |-> call[h].mission, key |-> call[h].key]
      <4>1. r \in TaskRecord /\ r.mission \in Mission
        BY <3>2 DEF TaskRecord, TaskStatus
      <4>2. task' = [task EXCEPT ![t] = r]
        BY <3>5
      <4> HIDE DEF r
      <4>3. task' \in [Task -> TaskRecord] /\ task'[t].mission \in Mission
            /\ \A u \in Task : u # t => task'[u] = task[u]
        BY <1>1, <4>1, <4>2 DEF Rest
      <4>4. FilesInv'
        BY <1>1, <3>1, <4>3, FilesKept DEF Rest, FilesInv
      <4> QED
        BY <1>1, <3>1, <3>3, <4>3, <4>4 DEF Rest
    <3> QED
      BY <2>2, <3>4, <3>5, MakeTakes
  <2> QED
    BY <1>9, <2>1, <2>2 DEF CreateStep
<1>10. ASSUME NEW h \in Thread, AdvanceStep(h) PROVE Rest'
  <2>1. CASE Decide(h)
    BY <1>1, <1>2, <2>1 DEF Decide, Rest
  <2>2. CASE Operate(h)
    <3>1. call[h].task \in Task /\ UNCHANGED <<mission, lock, ghosts, edit, trouble>>
      BY <2>2, HeadIs, CallTyped DEF Operate, Tasked, Executing
    <3>2. task' = task
      BY <2>2, OperateTakes
    <3> QED
      BY <1>1, <1>2, <3>1, <3>2 DEF Rest
  <2>3. CASE Acquire(h)
    <3>1. UNCHANGED <<mission, task, ghosts, edit, trouble>>
      BY <2>3 DEF Acquire
    <3>2. lock' \in [Task -> Thread \cup {NoThread}]
      BY <1>1, <2>3, AcquireTakes DEF Rest
    <3>3. FilesInv'
      BY <1>1, <3>1, FilesKept DEF Rest, FilesInv
    <3> QED
      BY <1>1, <3>1, <3>2, <3>3 DEF Rest
  <2> QED
    BY <1>10, <2>1, <2>2, <2>3 DEF AdvanceStep
<1>11. ASSUME NEW h \in Thread, ExecuteStep(h) PROVE Rest'
  <2>1. CASE StartTask(h)
    <3>1. call[h].task \in Task /\ UNCHANGED <<mission, lock, ghosts, edit, trouble>>
      BY <2>1, HeadIs, CallTyped DEF StartTask, Tasked, Executing
    <3>2. task[call[h].task].held \in BOOLEAN
      BY <1>1, <3>1 DEF Rest, TaskRecord
    <3>3. CASE task' = task
      BY <1>1, <1>2, <3>1, <3>3 DEF Rest
    <3>4. ASSUME NEW s \in {"failed", "running"}, SaveTask(h, s, task[call[h].task].held)
          PROVE  Rest'
      BY <3>1, <3>2, <3>4, SaveTaskRest DEF TaskStatus
    <3> QED
      BY <2>1, <3>3, <3>4, StartTakes
  <2>2. CASE Release(h)
    <3>1. UNCHANGED <<mission, task, ghosts, edit, trouble>>
          /\ lock' = [lock EXCEPT ![call[h].task] = NoThread]
      BY <2>2 DEF Release
    <3>2. lock' \in [Task -> Thread \cup {NoThread}]
      BY <1>1, <3>1 DEF Rest
    <3>3. FilesInv'
      BY <1>1, <3>1, FilesKept DEF Rest, FilesInv
    <3> QED
      BY <1>1, <3>1, <3>2, <3>3 DEF Rest
  <2>3. CASE Hold(h)
    <3>1. call[h].task \in Task /\ UNCHANGED <<mission, lock, ghosts, edit, trouble>>
      BY <2>3, HeadIs, CallTyped DEF Hold, Tasked, Executing
    <3>2. SaveTask(h, "accepted", TRUE)
      BY <2>3 DEF Hold
    <3> QED
      BY <3>1, <3>2, SaveTaskRest DEF TaskStatus
  <2>4. ASSUME NEW x \in {"ok", "error", "held"}, Run(h, x) PROVE Rest'
    <3>1. call[h].task \in Task /\ UNCHANGED <<mission, lock, ghosts, edit, trouble>>
      BY <2>4, HeadIs, CallTyped DEF Run, Tasked, Executing
    <3>2. PICK s \in {"complete", "failed"} : SaveTask(h, s, x = "held")
      BY <2>4 DEF Run
    <3>3. s \in TaskStatus \ {"pending"} /\ (x = "held") \in BOOLEAN
      BY DEF TaskStatus
    <3> QED
      BY <3>1, <3>2, <3>3, SaveTaskRest
  <2> QED
    BY <1>11, <2>1, <2>2, <2>3, <2>4 DEF ExecuteStep
<1>12. ASSUME \/ \E h \in Advancer, m \in Mission : Advances(h, m)
              \/ \E h \in Clerk, m \in Mission : Ticks(h, m)
              \/ \E h \in Clerk, m \in Mission, k \in Key : Creates(h, m, k)
       PROVE  Rest'
  BY <1>1, <1>2, <1>12 DEF Advances, Ticks, Creates, Rest
<1>13. ASSUME NEW h \in Clerk, NEW m \in Mission, Edits(h, m) PROVE Rest'
  <2>1. UNCHANGED <<mission, task, lock, ghosts, edit>> /\ trouble' \in 0..MaxTrouble
    BY <1>3, <1>13 DEF Edits
  <2> QED
    BY <1>2, <2>1
<1>14. ASSUME NEW w \in Worker, NEW t \in Task, Claim(w, t) PROVE Rest'
  <2>1. lock' = [lock EXCEPT ![t] = w] /\ UNCHANGED <<mission, task, ghosts, edit, trouble>>
    BY <1>14 DEF Claim
  <2>2. FilesInv'
    BY <1>1, <2>1, FilesKept DEF Rest, FilesInv
  <2> QED
    BY <1>1, <2>1, <2>2 DEF Rest, Thread
<1>15. ASSUME NEW dead \in Process, Crash(dead) PROVE Rest'
  <2>1. UNCHANGED <<mission, task, lock, ghosts, edit>> /\ trouble' \in 0..MaxTrouble
    BY <1>3, <1>15 DEF Crash
  <2> QED
    BY <1>2, <2>1
<1>16. CASE UNCHANGED vars
  BY <1>1, <1>2, <1>16 DEF vars, Rest
<1> QED
  BY <1>4, <1>5, <1>6, <1>7, <1>8, <1>9, <1>10, <1>11, <1>12, <1>13, <1>14, <1>15, <1>16 DEF Next

\* The call of a thread that takes a step moves on or is over.
LEMMA StepMoves ==
  ASSUME MissionInv, NEW h \in Thread,
         StoreStep(h) \/ EditStep(h) \/ CreateStep(h) \/ AdvanceStep(h) \/ ExecuteStep(h)
  PROVE  Ended(h) \/ \E c, steps : Took(h, c, steps)
<1>1. CASE StoreStep(h)
  BY <1>1, SaveTakes, TickTakes, DeriveTakes, LinkTakes, SyncTakes, ReceiptTakes DEF StoreStep
<1>2. CASE EditStep(h)
  BY <1>2, EditTakes, ReplaceTakes DEF EditStep
<1>3. CASE CreateStep(h)
  BY <1>3, FindTakes, MakeTakes DEF CreateStep
<1>4. CASE AdvanceStep(h)
  BY <1>4, DecideTakes, OperateTakes, AcquireTakes DEF AdvanceStep
<1>5. CASE ExecuteStep(h)
  BY <1>5, StartTakes, ReleaseTakes, HoldTakes, RunTakes DEF ExecuteStep
<1> QED
  BY <1>1, <1>2, <1>3, <1>4, <1>5

\* Threads that die have no call afterwards.
LEMMA CrashTakes ==
  ASSUME call \in [Thread -> Call], NEW dead \in Process, Crash(dead)
  PROVE  /\ call' \in [Thread -> Call]
         /\ \A g \in Thread : call'[g] = call[g] \/ call'[g] = NoCall
<1>1. NoCall \in Call
  BY NoCallFits DEF Fits
<1> QED
  BY <1>1 DEF Crash

\* Every step keeps the calls in order.
LEMMA CallsStep ==
  ASSUME MissionInv, [Next]_vars
  PROVE  Calls'
<1>1. Calls
  BY DEF MissionInv, TypeOK, Calls
<1>2. ASSUME call' = call PROVE Calls'
  BY <1>1, <1>2 DEF Calls
<1>3. ASSUME NEW h \in Thread,
             StoreStep(h) \/ EditStep(h) \/ CreateStep(h) \/ AdvanceStep(h) \/ ExecuteStep(h)
      PROVE  Calls'
  BY <1>3, StepMoves, TookFits
<1>4. ASSUME NEW dead \in Process, Crash(dead) PROVE Calls'
  BY <1>1, <1>4, CrashTakes, NoCallFits DEF Calls
<1>5. ASSUME NEW m \in Mission, CreateMission(m) PROVE Calls'
  BY <1>2, <1>5 DEF CreateMission
<1>6. ASSUME \/ \E t \in Task : Reclaim(t)
             \/ \E e \in Editor : TaskEdit(e)
      PROVE  Calls'
  BY <1>2, <1>6 DEF TaskEdit, LoadTask, StoreTask, Reclaim
<1>7. CASE UNCHANGED vars
  BY <1>2, <1>7 DEF vars
<1> QED
  BY <1>3, <1>4, <1>5, <1>6, <1>7, BeginFits DEF Next

\* The invariant holds at the start ...
LEMMA MissionInvInit == Init => MissionInv
<1> SUFFICES ASSUME Init PROVE MissionInv
  OBVIOUS
<1>1. TypeOK
  BY NoCallFits, BlankType, MissionAssumption
  DEF Init, TypeOK, Fits, NoRecord, TaskRecord, TaskStatus, Many, NoEdit, Edit
<1>2. FilesInv
  BY DEF Init, FilesInv, Blank, NoRecord
<1> QED
  BY <1>1, <1>2, NoCallFits DEF Init, MissionInv

\* ... and every step keeps it ...
LEMMA MissionInvStep == MissionInv /\ [Next]_vars => MissionInv'
BY RestStep, CallsStep DEF MissionInv, TypeOK, Rest, Calls

\* ... so it holds always.
LEMMA MissionInvariant == Spec => []MissionInv
BY MissionInvInit, MissionInvStep, PTL DEF Spec

-----------------------------------------------------------------------------
(* The theorems. *)

\* The files, the locks and the calls keep their types: whatever list of steps a
\* call comes to, each finds the mission, the task and the report that it needs.
THEOREM MissionTypeCorrect == Spec => []TypeOK
<1>1. MissionInv => TypeOK
  BY DEF MissionInv
<1> QED
  BY <1>1, MissionInvariant, PTL

\* How the head of a moving call came there: from the list, or from the step.
LEMMA HeadComes ==
  ASSUME NEW h \in Thread, NEW c, NEW steps, Took(h, c, steps),
         NEW step, At(h, step)', step \notin Later
  PROVE  /\ steps # <<>> /\ steps[1] = step
         /\ call'[h] = [c EXCEPT !.todo = call'[h].todo]
BY DEF Took, At, Later, NoCall

\* A call that is over is at no step.
LEMMA EndedIsIdle ==
  ASSUME NEW h, Ended(h), NEW step
  PROVE  ~At(h, step)'
BY DEF Ended, At, NoCall

\* A call comes to the creation of an operation from the search for one, or from the
\* decision that a mission of which the dependencies are complete has none.
LEMMA MakeComes ==
  ASSUME MissionInv, NEW h \in Thread,
         StoreStep(h) \/ EditStep(h) \/ CreateStep(h) \/ AdvanceStep(h) \/ ExecuteStep(h),
         NEW step \in {"find", "make"}, At(h, step)'
  PROVE  /\ step = "make"
         /\ call'[h].mission = call[h].mission /\ call'[h].key = call[h].key
         /\ \/ At(h, "find") /\ \A t \in Task : task[t].key # call[h].key
            \/ At(h, "decide") /\ Ready(call[h].mission) /\ Mine(h).links = {}
         /\ UNCHANGED <<mission, task, firsts>>
<1>1. step \notin Later /\ ~Ended(h)
  BY EndedIsIdle DEF Later
<1>2. call[h] \in Call
  BY CallTyped DEF StoreStep, EditStep, CreateStep, AdvanceStep, ExecuteStep, Save, SaveFails,
     Tick, Derive, Link, Sync, Receipt, Deadletter, Patch, Unlink, Replace, Find, Make, Decide,
     Operate, Acquire, StartTask, Release, Hold, Run, At
<1>3. ASSUME NEW c, NEW steps, Took(h, c, steps)
      PROVE  /\ steps # <<>> /\ steps[1] = step
             /\ call'[h] = [c EXCEPT !.todo = call'[h].todo]
  BY <1>1, <1>3, HeadComes
<1>4. ASSUME NEW c
      PROVE  /\ ~Took(h, c, <<>>)
             /\ \A s \in Step \ {step} : ~Took(h, c, <<s>>)
             /\ \A s \in Step : ~Took(h, c, <<"sync", s>>)
             /\ ~Took(h, c, <<"release", "hold">>) /\ ~Took(h, c, <<"hold", "acquire">>)
             /\ ~Took(h, c, <<"operate", "tick", "receipt">>)
  <2>1. ~Took(h, c, <<>>)
    BY <1>3
  <2>2. ASSUME NEW s \in Step \ {step} PROVE ~Took(h, c, <<s>>)
    <3>1. <<s>>[1] = s
      OBVIOUS
    <3> QED
      BY <1>3, <3>1
  <2>3. ASSUME NEW s \in Step PROVE ~Took(h, c, <<"sync", s>>)
    <3>1. <<"sync", s>>[1] = "sync"
      OBVIOUS
    <3> QED
      BY <1>3, <3>1
  <2>4. ~Took(h, c, <<"release", "hold">>)
    <3>1. <<"release", "hold">>[1] = "release"
      OBVIOUS
    <3> QED
      BY <1>3, <3>1
  <2>5. ~Took(h, c, <<"operate", "tick", "receipt">>)
    <3>1. <<"operate", "tick", "receipt">>[1] = "operate"
      OBVIOUS
    <3> QED
      BY <1>3, <3>1
  <2>6. ~Took(h, c, <<"hold", "acquire">>)
    <3>1. <<"hold", "acquire">>[1] = "hold"
      OBVIOUS
    <3> QED
      BY <1>3, <3>1
  <2> QED
    BY <2>1, <2>2, <2>3, <2>4, <2>5, <2>6
<1>5. ASSUME NEW c
      PROVE  /\ ~Took(h, c, <<>>) /\ ~Took(h, c, <<"save">>) /\ ~Took(h, c, <<"derive">>)
             /\ ~Took(h, c, <<"receipt">>) /\ ~Took(h, c, <<"patch">>)
             /\ ~Took(h, c, <<"link">>) /\ ~Took(h, c, <<"acquire">>)
             /\ ~Took(h, c, <<"start">>) /\ ~Took(h, c, <<"release">>)
             /\ ~Took(h, c, <<"sync">>)
             /\ ~Took(h, c, <<"sync", "run">>) /\ ~Took(h, c, <<"sync", "release">>)
             /\ ~Took(h, c, <<"release", "hold">>) /\ ~Took(h, c, <<"hold", "acquire">>)
             /\ ~Took(h, c, <<"operate", "tick", "receipt">>)
  BY <1>4 DEF Step
<1>6. ~StoreStep(h)
  BY <1>5, SaveTakes, TickTakes, DeriveTakes, LinkTakes, SyncTakes, ReceiptTakes DEF StoreStep
<1>7. ~EditStep(h)
  BY <1>1, <1>5, EditTakes, ReplaceTakes DEF EditStep
<1>8. ~ExecuteStep(h)
  BY <1>5, StartTakes, ReleaseTakes, HoldTakes, RunTakes DEF ExecuteStep
<1>9. ~Make(h) /\ ~Operate(h) /\ ~Acquire(h)
  BY <1>5, MakeTakes, OperateTakes, AcquireTakes
<1>10. CASE Find(h)
  <2>1. /\ \A t \in Task : task[t].key # call[h].key
        /\ Took(h, call[h], <<"make">>)
    BY <1>1, <1>10, FindTakes
  <2>2. step = "make" /\ call'[h] = [call[h] EXCEPT !.todo = call'[h].todo]
    BY <1>3, <2>1
  <2> QED
    BY <1>2, <1>10, <2>1, <2>2 DEF Find, Call, ghosts
<1>11. CASE Decide(h)
  <2>1. /\ Ready(call[h].mission) /\ Mine(h).links = {}
        /\ Took(h, call[h], <<"make", "tick", "receipt">>)
    BY <1>1, <1>5, <1>11, DecideTakes
  <2>2. step = "make" /\ call'[h] = [call[h] EXCEPT !.todo = call'[h].todo]
    BY <1>3, <2>1
  <2> QED
    BY <1>2, <1>11, <2>1, <2>2 DEF Decide, Call, ghosts
<1> QED
  BY <1>6, <1>7, <1>8, <1>9, <1>10, <1>11 DEF CreateStep, AdvanceStep

\* How the calls of other threads, and those that begin, come to their heads.
LEMMA OthersStay ==
  ASSUME MissionInv, NEW h \in Thread,
         StoreStep(h) \/ EditStep(h) \/ CreateStep(h) \/ AdvanceStep(h) \/ ExecuteStep(h)
  PROVE  \A g \in Thread \ {h} : call'[g] = call[g]
BY StepMoves DEF Ended, Took

\* How a call begins, and whose.
Began(g) ==
    \/ /\ g \in Advancer
       /\ \E m \in Mission : call'[g] =
             [NoCall EXCEPT !.todo = <<"derive", "decide">>, !.copy = mission[m], !.mission = m]
    \/ /\ g \in Clerk
       /\ \E m \in Mission : call'[g] =
             [NoCall EXCEPT !.todo = <<"derive">>, !.copy = mission[m], !.mission = m]
    \/ /\ g \in Clerk
       /\ \E m \in Mission, k \in Key : call'[g] =
             [NoCall EXCEPT !.todo = <<"find">>, !.key = k, !.mission = m]
    \/ /\ g \in Clerk /\ trouble' > 0
       /\ call'[g].key = NoKey /\ call'[g].copy = Blank
       /\ call'[g].todo \in {<<"patch">>, <<"deadletter">>, <<"unlink">>, <<"replace">>}
    \/ /\ g \in Worker
       /\ \E t \in Task :
             /\ task[t].status = "pending" /\ lock[t] = NoThread
             /\ call'[g] = [NoCall EXCEPT !.todo = <<"start">>, !.mission = task[t].mission,
                                          !.task = t]

\* The step that such a call begins with.
LEMMA BeganAt ==
  ASSUME NEW g, Began(g)
  PROVE  /\ call'[g].todo # <<>>
         /\ \/ Head(call'[g].todo) = "derive" /\ g \in Advancer \cup Clerk
            \/ Head(call'[g].todo) = "find" /\ g \in Clerk
            \/ Head(call'[g].todo) = "start" /\ g \in Worker
            \/ /\ Head(call'[g].todo) \in {"patch", "deadletter", "unlink", "replace"}
               /\ g \in Clerk /\ trouble' > 0
<1>1. ASSUME NEW m \in Mission, call'[g] =
             [NoCall EXCEPT !.todo = <<"derive", "decide">>, !.copy = mission[m], !.mission = m]
      PROVE  call'[g].todo # <<>> /\ Head(call'[g].todo) = "derive"
  <2>1. call'[g].todo = <<"derive", "decide">>
    BY <1>1 DEF NoCall
  <2> QED
    BY <2>1
<1>2. ASSUME NEW m \in Mission, call'[g] =
             [NoCall EXCEPT !.todo = <<"derive">>, !.copy = mission[m], !.mission = m]
      PROVE  call'[g].todo # <<>> /\ Head(call'[g].todo) = "derive"
  <2>1. call'[g].todo = <<"derive">>
    BY <1>2 DEF NoCall
  <2> QED
    BY <2>1
<1>3. ASSUME NEW m \in Mission, NEW k \in Key, call'[g] =
             [NoCall EXCEPT !.todo = <<"find">>, !.key = k, !.mission = m]
      PROVE  call'[g].todo # <<>> /\ Head(call'[g].todo) = "find"
  <2>1. call'[g].todo = <<"find">>
    BY <1>3 DEF NoCall
  <2> QED
    BY <2>1
<1>4. ASSUME NEW t \in Task, call'[g] =
             [NoCall EXCEPT !.todo = <<"start">>, !.mission = task[t].mission, !.task = t]
      PROVE  call'[g].todo # <<>> /\ Head(call'[g].todo) = "start"
  <2>1. call'[g].todo = <<"start">>
    BY <1>4 DEF NoCall
  <2> QED
    BY <2>1
<1>5. ASSUME NEW s \in {"patch", "deadletter", "unlink", "replace"}, call'[g].todo = <<s>>
      PROVE  call'[g].todo # <<>> /\ Head(call'[g].todo) = s
  BY <1>5
<1>6. call'[g].todo \in {<<"patch">>, <<"deadletter">>, <<"unlink">>, <<"replace">>}
        => /\ call'[g].todo # <<>>
           /\ Head(call'[g].todo) \in {"patch", "deadletter", "unlink", "replace"}
  BY <1>5
<1> QED
  BY <1>1, <1>2, <1>3, <1>4, <1>6 DEF Began

\* Where no call takes a step, calls begin, are over, or stay.
LEMMA BeginsAt ==
  ASSUME MissionInv, [Next]_vars,
         ~ \E h \in Thread : StoreStep(h) \/ EditStep(h) \/ CreateStep(h) \/ AdvanceStep(h)
                                \/ ExecuteStep(h),
         NEW g \in Thread
  PROVE  call'[g] = call[g] \/ call'[g] = NoCall \/ Began(g)
<1>1. /\ call \in [Thread -> Call] /\ trouble \in Nat
      /\ Advancer \subseteq Thread /\ Clerk \subseteq Thread /\ Worker \subseteq Thread
  BY MissionAssumption DEF MissionInv, TypeOK, Thread
<1>2. ASSUME NEW h \in Thread, NEW c, Begin(h, c)
      PROVE  IF g = h THEN call'[g] = c ELSE call'[g] = call[g]
  BY <1>1, <1>2 DEF Begin
<1>3. ASSUME NEW h \in Advancer, NEW m \in Mission, Advances(h, m)
      PROVE  call'[g] = call[g] \/ Began(g)
  <2>1. Begin(h, [NoCall EXCEPT !.todo = <<"derive", "decide">>, !.copy = mission[m],
                                !.mission = m])
    BY <1>3 DEF Advances, Request
  <2> QED
    BY <1>1, <1>2, <2>1 DEF Began
<1>4. ASSUME NEW h \in Clerk, NEW m \in Mission, Ticks(h, m)
      PROVE  call'[g] = call[g] \/ Began(g)
  <2>1. Begin(h, [NoCall EXCEPT !.todo = <<"derive">>, !.copy = mission[m], !.mission = m])
    BY <1>4 DEF Ticks, Request
  <2> QED
    BY <1>1, <1>2, <2>1 DEF Began
<1>5. ASSUME NEW h \in Clerk, NEW m \in Mission, NEW k \in Key, Creates(h, m, k)
      PROVE  call'[g] = call[g] \/ Began(g)
  <2>1. Begin(h, [NoCall EXCEPT !.todo = <<"find">>, !.key = k, !.mission = m])
    BY <1>5 DEF Creates, Request
  <2> QED
    BY <1>1, <1>2, <2>1 DEF Began
<1>6. ASSUME NEW h \in Clerk, NEW m \in Mission, Edits(h, m)
      PROVE  call'[g] = call[g] \/ Began(g)
  <2>1. trouble' > 0
    <3>1. trouble' = trouble + 1
      BY <1>6 DEF Edits
    <3> QED
      BY <1>1, <3>1
  <2>2. PICK c : /\ Begin(h, c)
                 /\ c.key = NoKey /\ c.copy = Blank
                 /\ c.todo \in {<<"patch">>, <<"deadletter">>, <<"unlink">>, <<"replace">>}
    <3>1. ASSUME NEW s \in Wanted,
                 Request(h, m, [NoCall EXCEPT !.todo = <<"patch">>, !.want = s])
          PROVE  \E c : /\ Begin(h, c) /\ c.key = NoKey /\ c.copy = Blank /\ c.todo = <<"patch">>
      <4> DEFINE c == [[NoCall EXCEPT !.todo = <<"patch">>, !.want = s] EXCEPT !.mission = m]
      <4>1. Begin(h, c)
        BY <3>1 DEF Request
      <4>2. c.key = NoKey /\ c.copy = Blank /\ c.todo = <<"patch">>
        BY DEF NoCall
      <4> QED
        BY <4>1, <4>2
    <3>2. ASSUME Request(h, m, [NoCall EXCEPT !.todo = <<"deadletter">>, !.want = "deadlettered"])
          PROVE  \E c : /\ Begin(h, c) /\ c.key = NoKey /\ c.copy = Blank /\ c.todo = <<"deadletter">>
      <4> DEFINE c == [[NoCall EXCEPT !.todo = <<"deadletter">>, !.want = "deadlettered"] EXCEPT !.mission = m]
      <4>1. Begin(h, c)
        BY <3>2 DEF Request
      <4>2. c.key = NoKey /\ c.copy = Blank /\ c.todo = <<"deadletter">>
        BY DEF NoCall
      <4> QED
        BY <4>1, <4>2
    <3>3. ASSUME NEW t \in Task, Request(h, m, [NoCall EXCEPT !.todo = <<"unlink">>, !.task = t])
          PROVE  \E c : /\ Begin(h, c) /\ c.key = NoKey /\ c.copy = Blank /\ c.todo = <<"unlink">>
      <4> DEFINE c == [[NoCall EXCEPT !.todo = <<"unlink">>, !.task = t] EXCEPT !.mission = m]
      <4>1. Begin(h, c)
        BY <3>3 DEF Request
      <4>2. c.key = NoKey /\ c.copy = Blank /\ c.todo = <<"unlink">>
        BY DEF NoCall
      <4> QED
        BY <4>1, <4>2
    <3>4. ASSUME Request(h, m, [NoCall EXCEPT !.todo = <<"replace">>])
          PROVE  \E c : /\ Begin(h, c) /\ c.key = NoKey /\ c.copy = Blank /\ c.todo = <<"replace">>
      <4> DEFINE c == [[NoCall EXCEPT !.todo = <<"replace">>] EXCEPT !.mission = m]
      <4>1. Begin(h, c)
        BY <3>4 DEF Request
      <4>2. c.key = NoKey /\ c.copy = Blank /\ c.todo = <<"replace">>
        BY DEF NoCall
      <4> QED
        BY <4>1, <4>2
    <3> QED
      BY <1>6, <3>1, <3>2, <3>3, <3>4 DEF Edits
  <2> QED
    BY <1>1, <1>2, <2>1, <2>2 DEF Began
<1>7. ASSUME NEW w \in Worker, NEW t \in Task, Claim(w, t)
      PROVE  call'[g] = call[g] \/ Began(g)
  <2>1. /\ task[t].status = "pending" /\ lock[t] = NoThread
        /\ Begin(w, [NoCall EXCEPT !.todo = <<"start">>, !.mission = task[t].mission, !.task = t])
    BY <1>7 DEF Claim
  <2> QED
    BY <1>1, <1>2, <2>1 DEF Began
<1>8. ASSUME NEW dead \in Process, Crash(dead)
      PROVE  call'[g] = call[g] \/ call'[g] = NoCall
  BY <1>1, <1>8, CrashTakes
<1>9. ASSUME \/ \E m \in Mission : CreateMission(m)
             \/ \E t \in Task : Reclaim(t)
             \/ \E e \in Editor : TaskEdit(e)
             \/ UNCHANGED vars
      PROVE  call' = call
  BY <1>9 DEF CreateMission, TaskEdit, LoadTask, StoreTask, Reclaim, vars
<1> QED
  BY <1>3, <1>4, <1>5, <1>6, <1>7, <1>8, <1>9 DEF Next

-----------------------------------------------------------------------------
(* Dependencies and idempotency keys. *)

\* Missions that have been completed stay noted, and a thread's steps do not take
\* any out.
LEMMA FinishedGrows ==
  ASSUME [Next]_vars
  PROVE  finished \subseteq finished'
BY DEF Next, vars, ghosts, CreateMission, TaskEdit, LoadTask, StoreTask, Reclaim, StoreStep, EditStep, CreateStep,
   AdvanceStep, ExecuteStep, Save, SaveFails, Write, Tick, Derive, Link, Sync, Receipt, Deadletter,
   Patch, Unlink, Replace, Find, Make, Decide, Operate, Acquire, StartTask, Release, Hold, Run,
   Advances, Ticks, Creates, Edits, Claim, Crash

\* Who looks for an operation before making one is a clerk, and an advancer that
\* makes one has found the dependencies of the mission completed.
DependInv ==
    \A h \in Thread :
        /\ At(h, "find") => h \in Clerk
        /\ h \in Advancer /\ At(h, "make") => DependsOn[call[h].mission] \subseteq finished

\* Every step keeps this.
LEMMA DependStep ==
  ASSUME Advancer \cap Clerk = {}, MissionInv, DependInv, [Next]_vars
  PROVE  DependInv'
<1> SUFFICES ASSUME NEW g \in Thread
             PROVE  /\ At(g, "find")' => g \in Clerk
                    /\ g \in Advancer /\ At(g, "make")'
                          => DependsOn[call'[g].mission] \subseteq finished'
  BY DEF DependInv
<1>1. finished \subseteq finished'
  BY FinishedGrows
<1>2. CASE call'[g] = call[g]
  BY <1>1, <1>2 DEF DependInv, At
<1>3. ASSUME NEW h \in Thread,
             StoreStep(h) \/ EditStep(h) \/ CreateStep(h) \/ AdvanceStep(h) \/ ExecuteStep(h)
      PROVE  /\ At(g, "find")' => g \in Clerk
             /\ g \in Advancer /\ At(g, "make")'
                   => DependsOn[call'[g].mission] \subseteq finished'
  <2>1. CASE g # h
    BY <1>2, <1>3, <2>1, OthersStay
  <2>2. CASE g = h
    <3>1. ~At(g, "find")'
      BY <1>3, <2>2, MakeComes DEF At
    <3>2. ASSUME g \in Advancer, At(g, "make")'
          PROVE  DependsOn[call'[g].mission] \subseteq finished'
      <4>1. /\ call'[g].mission = call[g].mission
            /\ \/ At(g, "find")
               \/ At(g, "decide") /\ Ready(call[g].mission)
        <5>1. At(h, "make")'
          BY <2>2, <3>2 DEF At
        <5>2. /\ call'[h].mission = call[h].mission
              /\ \/ At(h, "find")
                 \/ At(h, "decide") /\ Ready(call[h].mission)
          BY <1>3, <5>1, MakeComes DEF At
        <5> QED
          BY <2>2, <5>2
      <4>2. Ready(call[g].mission) /\ At(g, "decide")
        BY <3>2, <4>1 DEF DependInv
      <4>3. call[g].mission \in Mission
        BY <4>2, CallTyped DEF At
      <4>4. DependsOn[call[g].mission] \subseteq Mission
        BY <4>3, MissionAssumption
      <4>5. DependsOn[call[g].mission] \subseteq finished
        BY <4>2, <4>4 DEF Ready, MissionInv, FilesInv
      <4> QED
        BY <1>1, <4>1, <4>5
    <3> QED
      BY <3>1, <3>2
  <2> QED
    BY <2>1, <2>2
<1>4. ASSUME ~ \E h \in Thread : StoreStep(h) \/ EditStep(h) \/ CreateStep(h) \/ AdvanceStep(h)
                                   \/ ExecuteStep(h)
      PROVE  /\ At(g, "find")' => g \in Clerk
             /\ g \in Advancer /\ At(g, "make")'
                   => DependsOn[call'[g].mission] \subseteq finished'
  <2>1. CASE call'[g] # call[g]
    <3>1. call'[g] = NoCall \/ Began(g)
      BY <1>4, <2>1, BeginsAt
    <3>2. ~At(g, "make")' /\ (At(g, "find")' => g \in Clerk)
      BY <3>1, BeganAt DEF At, NoCall
    <3> QED
      BY <3>2
  <2> QED
    BY <1>2, <2>1
<1> QED
  BY <1>3, <1>4

\* An advance creates the first operation of a mission only when its dependencies
\* have been completed, for any number of missions, threads, edits and crashes.
THEOREM DependenciesComeFirst ==
  ASSUME Advancer \cap Clerk = {}
  PROVE  Spec => DependenciesFirst
<1>1. Init => DependInv
  BY DEF Init, DependInv, At, NoCall
<1>2. ASSUME MissionInv, DependInv, [Next]_vars, NEW m \in Mission, firsts'[m] # firsts[m]
      PROVE  DependsOn[m] \subseteq finished
  <2>1. PICK h \in Thread : Make(h) /\ firsts' # firsts
    BY <1>2
    DEF Next, vars, ghosts, CreateMission, TaskEdit, LoadTask, StoreTask, Reclaim, StoreStep, EditStep, CreateStep,
        AdvanceStep, ExecuteStep, Save, SaveFails, Tick, Derive, Link, Sync, Receipt, Deadletter,
        Patch, Unlink, Replace, Find, Decide, Operate, Acquire, StartTask, Release, Hold, Run,
        Advances, Ticks, Creates, Edits, Claim, Crash
  <2>2. /\ h \in Advancer
        /\ firsts' = [firsts EXCEPT ![call[h].mission] = IF @ < Many THEN @ + 1 ELSE @]
    BY <2>1 DEF Make
  <2>3. At(h, "make") /\ m = call[h].mission
    BY <1>2, <2>1, <2>2 DEF Make, MissionInv, TypeOK
  <2> QED
    BY <1>2, <2>2, <2>3 DEF DependInv
<1>3. MissionInv /\ DependInv /\ [Next]_vars => DependInv'
  BY DependStep
<1>4. MissionInv /\ DependInv /\ [Next]_vars
        => [\A m \in Mission : firsts'[m] # firsts[m] => DependsOn[m] \subseteq finished]_vars
  BY <1>2
<1> QED
  BY <1>1, <1>3, <1>4, MissionInvariant, PTL DEF Spec, DependenciesFirst

-----------------------------------------------------------------------------
(* Terminal missions. *)

\* A copy that is to be saved, or was just loaded, comes from the record or from the
\* copy of a tick, by a step that leaves a terminal status as it is.
LEMMA CopyComes ==
  ASSUME MissionInv, NEW h \in Thread,
         StoreStep(h) \/ EditStep(h) \/ CreateStep(h) \/ AdvanceStep(h) \/ ExecuteStep(h),
         NEW step \in {"derive", "save"}, At(h, step)'
  PROVE  /\ call'[h].mission = call[h].mission /\ call[h].mission \in Mission
         /\ \/ Mine(h).status \in Terminal => call'[h].copy.status = Mine(h).status
            \/ /\ At(h, "derive")
               /\ call[h].copy.status \in Terminal => call'[h].copy.status = call[h].copy.status
<1> DEFINE Goal == /\ call'[h].mission = call[h].mission /\ call[h].mission \in Mission
                   /\ \/ Mine(h).status \in Terminal => call'[h].copy.status = Mine(h).status
                      \/ /\ At(h, "derive")
                         /\ call[h].copy.status \in Terminal
                               => call'[h].copy.status = call[h].copy.status
<1>1. step \notin Later /\ ~Ended(h)
  BY EndedIsIdle DEF Later
<1>2. call[h].todo # <<>>
  BY DEF StoreStep, EditStep, CreateStep, AdvanceStep, ExecuteStep, Save, SaveFails,
     Tick, Derive, Link, Sync, Receipt, Deadletter, Patch, Unlink, Replace, Find, Make, Decide,
     Operate, Acquire, StartTask, Release, Hold, Run, At
<1>3. /\ call[h] \in Call /\ call[h].mission \in Mission /\ Mine(h) \in MissionRecord
      /\ call[h].copy \in MissionRecord /\ NoCall \in Call
  BY <1>2, CallTyped, NoCallFits DEF Fits
<1>4. ASSUME NEW c, NEW steps, Took(h, c, steps)
      PROVE  /\ steps # <<>> /\ steps[1] = step
             /\ call'[h] = [c EXCEPT !.todo = call'[h].todo]
  BY <1>1, <1>4, HeadComes
<1>5. ASSUME NEW c
      PROVE  /\ ~Took(h, c, <<>>)
             /\ ~Took(h, c, <<"receipt">>) /\ ~Took(h, c, <<"patch">>)
             /\ ~Took(h, c, <<"link">>) /\ ~Took(h, c, <<"acquire">>)
             /\ ~Took(h, c, <<"start">>) /\ ~Took(h, c, <<"release">>)
             /\ ~Took(h, c, <<"sync">>) /\ ~Took(h, c, <<"make">>)
  <2>1. ~Took(h, c, <<>>)
    BY <1>4
  <2>2. ASSUME NEW s \in Step \ {"derive", "save"} PROVE ~Took(h, c, <<s>>)
    <3>1. <<s>>[1] = s
      OBVIOUS
    <3> QED
      BY <1>4, <3>1
  <2> QED
    BY <2>1, <2>2 DEF Step
<1>6. ASSUME NEW c
      PROVE  /\ ~Took(h, c, <<"sync", "run">>)
             /\ ~Took(h, c, <<"sync", "release">>) /\ ~Took(h, c, <<"release", "hold">>)
             /\ ~Took(h, c, <<"hold", "acquire">>)
             /\ ~Took(h, c, <<"operate", "tick", "receipt">>)
             /\ ~Took(h, c, <<"make", "tick", "receipt">>)
  <2>1. ASSUME NEW s \in Step PROVE <<"sync", s>>[1] = "sync"
    OBVIOUS
  <2>2. /\ <<"release", "hold">>[1] = "release" /\ <<"hold", "acquire">>[1] = "hold"
        /\ <<"operate", "tick", "receipt">>[1] = "operate"
        /\ <<"make", "tick", "receipt">>[1] = "make"
    OBVIOUS
  <2>3. \A s \in Step : ~Took(h, c, <<"sync", s>>)
    BY <1>4, <2>1
  <2>4. ~Took(h, c, <<"release", "hold">>)
    BY <1>4, <2>2
  <2>5. ~Took(h, c, <<"operate", "tick", "receipt">>)
    BY <1>4, <2>2
  <2>6. ~Took(h, c, <<"make", "tick", "receipt">>)
    BY <1>4, <2>2
  <2>7. ~Took(h, c, <<"hold", "acquire">>)
    BY <1>4, <2>2
  <2> QED
    BY <2>3, <2>4, <2>5, <2>6, <2>7 DEF Step
<1>7. ~CreateStep(h) /\ ~AdvanceStep(h) /\ ~ExecuteStep(h)
  <2>1. ~Find(h) /\ ~Make(h)
    BY <1>1, <1>5, FindTakes, MakeTakes
  <2>2. ~Decide(h) /\ ~Operate(h) /\ ~Acquire(h)
    BY <1>1, <1>5, <1>6, DecideTakes, OperateTakes, AcquireTakes
  <2>3. ~StartTask(h) /\ ~Release(h) /\ ~Hold(h)
    BY <1>5, <1>6, StartTakes, ReleaseTakes, HoldTakes
  <2>4. \A x \in {"ok", "error", "held"} : ~Run(h, x)
    BY <1>5, <1>6, RunTakes
  <2> QED
    BY <2>1, <2>2, <2>3, <2>4 DEF CreateStep, AdvanceStep, ExecuteStep
<1>8. ASSUME NEW r \in MissionRecord,
             Took(h, [NoCall EXCEPT !.mission = call[h].mission, !.copy = r], <<"save">>)
      PROVE  call'[h].mission = call[h].mission /\ call'[h].copy = r
  <2>1. call'[h] = [[NoCall EXCEPT !.mission = call[h].mission, !.copy = r]
                       EXCEPT !.todo = call'[h].todo]
    BY <1>4, <1>8
  <2> QED
    BY <2>1 DEF NoCall
<1>9. CASE Tick(h)
  <2>1. call'[h] = [[call[h] EXCEPT !.copy = Mine(h)] EXCEPT !.todo = call'[h].todo]
    BY <1>4, <1>9, TickTakes
  <2>2. call'[h].mission = call[h].mission /\ call'[h].copy = Mine(h)
    BY <1>3, <2>1 DEF Call
  <2> QED
    BY <1>3, <2>2
<1>10. CASE Derive(h)
  <2> DEFINE r == Ticked(call[h].copy, call[h].copy.links)
  <2>1. Took(h, [NoCall EXCEPT !.mission = call[h].mission, !.copy = r], <<"save">>)
    BY <1>5, <1>10, DeriveTakes
  <2>2. call[h].copy.links \in SUBSET Task
    BY <1>3 DEF MissionRecord
  <2>3. r \in MissionRecord
    BY <1>3, <2>2, TickedType
  <2>4. call'[h].mission = call[h].mission /\ call'[h].copy = r
    BY <1>8, <2>1, <2>3
  <2>5. call[h].copy.status \in Terminal => r.status = call[h].copy.status
    BY DEF Ticked
  <2>6. At(h, "derive")
    BY <1>10 DEF Derive
  <2> QED
    BY <1>3, <2>4, <2>5, <2>6
<1>11. CASE Link(h)
  <2> DEFINE r == [Mine(h) EXCEPT !.links = @ \cup {call[h].task}]
  <2>1. Took(h, [NoCall EXCEPT !.mission = call[h].mission, !.copy = r], <<"save">>)
    BY <1>5, <1>11, LinkTakes
  <2>2. call[h].task \in Task
    BY <1>2, <1>11, HeadIs, CallTyped DEF Link, Tasked
  <2>3. r \in MissionRecord /\ r.status = Mine(h).status
    BY <1>3, <2>2 DEF MissionRecord
  <2>4. call'[h].mission = call[h].mission /\ call'[h].copy = r
    BY <1>8, <2>1, <2>3
  <2> QED
    BY <1>3, <2>3, <2>4
<1>12. CASE Sync(h)
  <2> DEFINE r == Transition(Mine(h), call[h].task, call[h].says)
  <2>1. call'[h] = [[call[h] EXCEPT !.copy = r, !.says = Silent] EXCEPT !.todo = call'[h].todo]
    BY <1>4, <1>12, SyncTakes
  <2>2. call'[h].mission = call[h].mission /\ call'[h].copy = r
    BY <1>3, <2>1 DEF Call
  <2>3. Mine(h).status \in Terminal => r.status = Mine(h).status
    BY DEF Transition
  <2> QED
    BY <1>3, <2>2, <2>3
<1>13. CASE Receipt(h)
  <2>1. Took(h, [NoCall EXCEPT !.mission = call[h].mission, !.copy = Mine(h)], <<"save">>)
    BY <1>13, ReceiptTakes
  <2> QED
    BY <1>3, <1>8, <2>1
<1>14. CASE EditStep(h)
  <2>1. ~Replace(h)
    BY <1>1, <1>5, ReplaceTakes
  <2>2. Deadletter(h) \/ Patch(h) \/ Unlink(h)
    BY <1>14, <2>1 DEF EditStep
  <2>3. \/ /\ Mine(h).status \in Terminal => Mine(h).status = call[h].want
           /\ Took(h, [NoCall EXCEPT !.mission = call[h].mission,
                                     !.copy = [Mine(h) EXCEPT !.status = call[h].want]], <<"save">>)
        \/ Took(h, [NoCall EXCEPT !.mission = call[h].mission,
                                  !.copy = [Mine(h) EXCEPT !.links = @ \ {call[h].task}]], <<"save">>)
    BY <1>1, <1>5, <2>2, EditTakes
  <2>4. ASSUME NEW r \in MissionRecord,
               Mine(h).status \in Terminal => r.status = Mine(h).status,
               Took(h, [NoCall EXCEPT !.mission = call[h].mission, !.copy = r], <<"save">>)
        PROVE  Goal
    BY <1>3, <1>8, <2>4
  <2>5. /\ [Mine(h) EXCEPT !.status = call[h].want] \in MissionRecord
        /\ [Mine(h) EXCEPT !.status = call[h].want].status = call[h].want
        /\ [Mine(h) EXCEPT !.links = @ \ {call[h].task}] \in MissionRecord
        /\ [Mine(h) EXCEPT !.links = @ \ {call[h].task}].status = Mine(h).status
    BY <1>3 DEF MissionRecord, Call
  <2> QED
    BY <2>3, <2>4, <2>5
<1>15. ~Save(h) /\ ~SaveFails(h)
  BY <1>5, SaveTakes
<1> QED
  BY <1>7, <1>9, <1>10, <1>11, <1>12, <1>13, <1>14, <1>15 DEF StoreStep

\* A step writes the copy of a save, or a mission that was not there.
LEMMA StatusComes ==
  ASSUME MissionInv, [Next]_vars, NEW m \in Mission, mission'[m].status # mission[m].status
  PROVE  \/ mission[m].status = "absent"
         \/ \E h \in Thread : /\ At(h, "save") /\ call[h].mission = m
                              /\ mission'[m] = call[h].copy
<1>1. mission \in [Mission -> MissionRecord]
  BY DEF MissionInv, TypeOK
<1>2. ASSUME NEW n \in Mission, mission[n].status = "absent",
             mission' = [mission EXCEPT ![n].status = "queued"]
      PROVE  mission[m].status = "absent"
  BY <1>1, <1>2
<1>3. ASSUME NEW h \in Thread, At(h, "save"), Write(h)
      PROVE  call[h].mission = m /\ mission'[m] = call[h].copy
  BY <1>1, <1>3 DEF Write
<1>4. \/ \E n \in Mission : /\ mission[n].status = "absent"
                            /\ mission' = [mission EXCEPT ![n].status = "queued"]
      \/ \E h \in Thread : At(h, "save") /\ Write(h)
  <2>1. mission' # mission
    OBVIOUS
  <2>2. ASSUME NEW n \in Mission, CreateMission(n)
        PROVE  /\ mission[n].status = "absent"
               /\ mission' = [mission EXCEPT ![n].status = "queued"]
    BY <2>2 DEF CreateMission
  <2>3. ASSUME NEW h \in Thread, StoreStep(h) PROVE At(h, "save") /\ Write(h)
    BY <2>1, <2>3 DEF StoreStep, Save, SaveFails, Tick, Derive, Link, Sync, Receipt
  <2>4. ASSUME NEW h \in Thread, EditStep(h)
        PROVE  \E n \in Mission : /\ mission[n].status = "absent"
                                  /\ mission' = [mission EXCEPT ![n].status = "queued"]
    BY <2>1, <2>4 DEF EditStep, Deadletter, Patch, Unlink, Replace
  <2>5. ~ \E h \in Thread : CreateStep(h) \/ AdvanceStep(h) \/ ExecuteStep(h)
    BY <2>1 DEF CreateStep, AdvanceStep, ExecuteStep, Find, Make, Decide, Operate, Acquire,
                StartTask, Release, Hold, Run
  <2>6. /\ ~ \E t \in Task : Reclaim(t)
        /\ ~ \E e \in Editor : TaskEdit(e)
    BY <2>1 DEF TaskEdit, LoadTask, StoreTask, Reclaim
  <2>7. /\ ~ \E h \in Advancer, n \in Mission : Advances(h, n)
        /\ ~ \E h \in Clerk, n \in Mission : Ticks(h, n) \/ Edits(h, n)
        /\ ~ \E h \in Clerk, n \in Mission, k \in Key : Creates(h, n, k)
        /\ ~ \E w \in Worker, t \in Task : Claim(w, t)
        /\ ~ \E dead \in Process : Crash(dead)
        /\ ~UNCHANGED vars
    BY <2>1 DEF Advances, Ticks, Edits, Creates, Claim, Crash, vars
  <2> QED
    BY <2>2, <2>3, <2>4, <2>5, <2>6, <2>7 DEF Next
<1> QED
  BY <1>2, <1>3, <1>4

\* A terminal mission of which nobody holds an older copy is final, for any number
\* of ticks, requests, workers, failed saves and crashes.
THEOREM SettledStaysSettled == Spec => SettledMissionIsFinal
<1>1. ASSUME MissionInv, [Next]_vars, NEW m \in Mission, Settled(m)
      PROVE  Settled(m)' /\ mission'[m].status = mission[m].status
  <2>1. mission'[m].status = mission[m].status
    BY <1>1, StatusComes DEF Settled, Terminal
  <2>2. ASSUME NEW g \in Thread, At(g, "derive")' \/ At(g, "save")', call'[g].mission = m
        PROVE  call'[g].copy.status = mission[m].status
    <3>1. CASE call'[g] = call[g]
      BY <1>1, <2>2, <3>1 DEF Settled, At
    <3>2. ASSUME NEW h \in Thread,
                 StoreStep(h) \/ EditStep(h) \/ CreateStep(h) \/ AdvanceStep(h) \/ ExecuteStep(h)
          PROVE  call'[g].copy.status = mission[m].status
      <4>1. CASE g # h
        BY <1>1, <3>1, <3>2, <4>1, OthersStay
      <4>2. CASE g = h
        <5>1. PICK step \in {"derive", "save"} : At(h, step)'
          BY <2>2, <4>2 DEF At
        <5>2. /\ call[h].mission = m
              /\ \/ Mine(h).status \in Terminal => call'[h].copy.status = Mine(h).status
                 \/ /\ At(h, "derive")
                    /\ call[h].copy.status \in Terminal
                          => call'[h].copy.status = call[h].copy.status
          BY <1>1, <2>2, <3>2, <4>2, <5>1, CopyComes
        <5>3. Mine(h).status = mission[m].status /\ mission[m].status \in Terminal
          BY <1>1, <5>2 DEF Mine, Settled
        <5>4. At(h, "derive") => call[h].copy.status = mission[m].status
          BY <1>1, <5>2 DEF Settled
        <5>5. call'[h].copy.status = mission[m].status
          <6>1. CASE Mine(h).status \in Terminal => call'[h].copy.status = Mine(h).status
            BY <5>3, <6>1
          <6>2. ASSUME At(h, "derive"),
                       call[h].copy.status \in Terminal
                         => call'[h].copy.status = call[h].copy.status
                PROVE  call'[h].copy.status = mission[m].status
            BY <5>3, <5>4, <6>2
          <6> QED
            BY <5>2, <6>1, <6>2
        <5> QED
          BY <4>2, <5>5
      <4> QED
        BY <4>1, <4>2
    <3>3. ASSUME ~ \E h \in Thread : StoreStep(h) \/ EditStep(h) \/ CreateStep(h)
                                       \/ AdvanceStep(h) \/ ExecuteStep(h),
                 call'[g] # call[g]
          PROVE  call'[g].copy.status = mission[m].status
      <4>1. Began(g)
        BY <1>1, <2>2, <3>3, BeginsAt DEF At, NoCall
      <4>2. Head(call'[g].todo) \in {"derive", "save"}
        BY <2>2 DEF At
      <4>3. PICK n \in Mission : call'[g].mission = n /\ call'[g].copy = mission[n]
        <5>1. Head(call'[g].todo) = "derive"
          BY <4>1, <4>2, BeganAt
        <5>2. CASE g \in Advancer /\ \E n \in Mission :
                     call'[g] = [NoCall EXCEPT !.todo = <<"derive", "decide">>,
                                               !.copy = mission[n], !.mission = n]
          BY <5>2 DEF NoCall
        <5>3. CASE g \in Clerk /\ \E n \in Mission :
                     call'[g] = [NoCall EXCEPT !.todo = <<"derive">>,
                                               !.copy = mission[n], !.mission = n]
          BY <5>3 DEF NoCall
        <5>4. CASE g \in Clerk /\ \E n \in Mission, k \in Key :
                     call'[g] = [NoCall EXCEPT !.todo = <<"find">>, !.key = k, !.mission = n]
          BY <5>1, <5>4 DEF NoCall
        <5>5. CASE call'[g].todo \in
                     {<<"patch">>, <<"deadletter">>, <<"unlink">>, <<"replace">>}
          BY <5>1, <5>5
        <5>6. CASE \E t \in Task :
                     call'[g] = [NoCall EXCEPT !.todo = <<"start">>, !.task = t,
                                               !.mission = task[t].mission]
          BY <5>1, <5>6 DEF NoCall
        <5> QED
          BY <4>1, <5>2, <5>3, <5>4, <5>5, <5>6 DEF Began
      <4> QED
        BY <2>2, <4>3
    <3> QED
      BY <3>1, <3>2, <3>3
  <2> QED
    BY <1>1, <2>1, <2>2 DEF Settled
<1>2. MissionInv /\ [Next]_vars
        => [\A m \in Mission : Settled(m)
               => Settled(m)' /\ mission'[m].status = mission[m].status]_vars
  BY <1>1
<1> QED
  BY <1>2, MissionInvariant, PTL DEF Spec, SettledMissionIsFinal

-----------------------------------------------------------------------------
(* Idempotency keys. *)

\* What a creation found: no operation with its key, and nobody about to make one.
Alone(h) ==
    /\ \A t \in Task : task[t].key # call[h].key
    /\ \A g \in Thread \ {h} : At(g, "make") => call[g].key # call[h].key

\* A call has a key from its search until its creation of an operation, and when it
\* comes to that, no operation has the key and no other call is to create one with it;
\* unless the key is contested.
KeyInv ==
    /\ KeyUsedOnce
    /\ \A h \in Thread :
          call[h].key # NoKey =>
             \/ call[h].todo = <<"find">>
             \/ /\ call[h].todo = <<"make">>
                /\ call[h].key \in contested \/ Alone(h)

\* A step that goes on without a key has none afterwards.
LEMMA NoKeyStays ==
  ASSUME call \in [Thread -> Call], NEW h \in Thread,
         NEW c \in Call, c.key = NoKey, NEW steps, Proceed(h, c, steps)
  PROVE  call'[h].key = NoKey
<1>1. NoCall \in Call /\ NoCall.key = NoKey
  BY NoCallFits DEF Fits, NoCall
<1>2. \A d \in Call : \A m, s :
         /\ [d EXCEPT !.mission = m].key = d.key
         /\ [d EXCEPT !.todo = s].key = d.key
         /\ [[d EXCEPT !.mission = m] EXCEPT !.todo = s].key = d.key
  BY DEF Call
<1> QED
  BY <1>1, <1>2 DEF Proceed

\* Where a call has no key, no step but one at its beginning gives it one.
LEMMA KeyStays ==
  ASSUME MissionInv, NEW h \in Thread,
         StoreStep(h) \/ EditStep(h) \/ CreateStep(h) \/ AdvanceStep(h) \/ ExecuteStep(h),
         call[h].key = NoKey
  PROVE  call'[h].key = NoKey
<1>1. call[h].todo # <<>>
  BY DEF StoreStep, EditStep, CreateStep, AdvanceStep, ExecuteStep, Save, SaveFails,
     Tick, Derive, Link, Sync, Receipt, Deadletter, Patch, Unlink, Replace, Find, Make, Decide,
     Operate, Acquire, StartTask, Release, Hold, Run, At
<1>2. call[h] \in Call /\ call \in [Thread -> Call] /\ NoCall \in Call /\ NoCall.key = NoKey
  BY <1>1, CallTyped, NoCallFits DEF Fits, NoCall
<1> DEFINE Keyless(c) == \A s : [c EXCEPT !.todo = s].key = NoKey
<1>3. /\ Keyless(call[h]) /\ \A r : Keyless([call[h] EXCEPT !.copy = r])
      /\ \A t : Keyless([call[h] EXCEPT !.task = t])
      /\ \A t : Keyless([call[h] EXCEPT !.task = t, !.key = NoKey])
      /\ \A q : Keyless([call[h] EXCEPT !.says = q])
      /\ \A r, q : Keyless([call[h] EXCEPT !.copy = r, !.says = q])
      /\ \A m, r : Keyless([NoCall EXCEPT !.mission = m, !.copy = r])
  BY <1>2 DEF Call, NoCall
<1>4. ASSUME NEW c, NEW steps, Took(h, c, steps), Keyless(c) PROVE call'[h].key = NoKey
  <2>1. \A m, s : [NoCall EXCEPT !.mission = m, !.todo = s].key = NoKey
    BY DEF NoCall
  <2>2. \/ call'[h] = NoCall
        \/ call'[h] = [c EXCEPT !.todo = call'[h].todo]
        \/ call'[h] = [NoCall EXCEPT !.mission = c.mission, !.todo = call'[h].todo]
    BY <1>4 DEF Took
  <2>3. CASE call'[h] = [c EXCEPT !.todo = call'[h].todo]
    <3>1. [c EXCEPT !.todo = call'[h].todo].key = NoKey
      BY <1>4
    <3> QED
      BY <2>3, <3>1
  <2>4. CASE call'[h] = [NoCall EXCEPT !.mission = c.mission, !.todo = call'[h].todo]
    <3>1. [NoCall EXCEPT !.mission = c.mission, !.todo = call'[h].todo].key = NoKey
      BY <2>1
    <3> QED
      BY <2>4, <3>1
  <2> QED
    BY <1>2, <2>2, <2>3, <2>4
<1>5. ASSUME Ended(h) PROVE call'[h].key = NoKey
  BY <1>2, <1>5 DEF Ended
<1> HIDE DEF Keyless
<1>6. CASE StoreStep(h)
  BY <1>3, <1>4, <1>6, SaveTakes, TickTakes, DeriveTakes, LinkTakes, SyncTakes, ReceiptTakes
  DEF StoreStep
<1>7. CASE EditStep(h)
  BY <1>3, <1>4, <1>5, <1>7, EditTakes, ReplaceTakes DEF EditStep
<1>8. CASE CreateStep(h)
  BY <1>3, <1>4, <1>5, <1>8, FindTakes, MakeTakes DEF CreateStep
<1>9. CASE AdvanceStep(h)
  BY <1>3, <1>4, <1>5, <1>9, DecideTakes, OperateTakes, AcquireTakes DEF AdvanceStep
<1>10. CASE ExecuteStep(h)
  BY <1>3, <1>4, <1>10, StartTakes, ReleaseTakes, HoldTakes, RunTakes DEF ExecuteStep
<1> QED
  BY <1>6, <1>7, <1>8, <1>9, <1>10

\* Only a creation gives an operation a key, its own.
LEMMA TaskKeys ==
  ASSUME MissionInv, [Next]_vars
  PROVE  \/ \A t \in Task : task'[t].key = task[t].key
         \/ \E h \in Thread : Make(h)
<1>1. task \in [Task -> TaskRecord]
  BY DEF MissionInv, TypeOK
<1>2. ASSUME NEW h, NEW status, NEW held, SaveTask(h, status, held)
      PROVE  \A t \in Task : task'[t].key = task[t].key
  BY <1>1, <1>2 DEF SaveTask, TaskRecord
<1>3. ASSUME NEW e \in Editor, TaskEdit(e)
      PROVE  \A s \in Task : task'[s].key = task[s].key
  BY <1>1, <1>3 DEF TaskEdit, LoadTask, StoreTask, TaskRecord
<1>4. ASSUME NEW h \in Thread, ExecuteStep(h) \/ AdvanceStep(h)
      PROVE  \A t \in Task : task'[t].key = task[t].key
  BY <1>2, <1>4 DEF ExecuteStep, AdvanceStep, Decide, Operate, Acquire, StartTask, Release, Hold,
     Run
<1>5. ASSUME NEW h \in Thread, StoreStep(h) \/ EditStep(h) \/ Find(h)
      PROVE  task' = task
  BY <1>5 DEF StoreStep, EditStep, Save, SaveFails, Tick, Derive, Link, Sync, Receipt,
     Deadletter, Patch, Unlink, Replace, Find
<1> QED
  BY <1>3, <1>4, <1>5 DEF Next, vars, CreateStep, CreateMission, Reclaim, Advances, Ticks,
     Edits, Creates, Claim, Crash

\* Only a search makes a key contested, its own.
LEMMA ContestedBySearch ==
  ASSUME [Next]_vars
  PROVE  contested' = contested \/ \E h \in Thread : Find(h)
BY DEF Next, vars, ghosts, CreateMission, TaskEdit, LoadTask, StoreTask, Reclaim, StoreStep,
   EditStep, CreateStep, AdvanceStep, ExecuteStep, Save, SaveFails, Tick, Derive, Link, Sync,
   Receipt, Deadletter, Patch, Unlink, Replace, Make, Decide, Operate, Acquire, StartTask,
   Release, Hold, Run, Advances, Ticks, Creates, Edits, Claim, Crash

\* A call that comes to the creation with a key has just searched for it.
LEMMA KeyComes ==
  ASSUME MissionInv, KeyInv, [Next]_vars, NEW g \in Thread, call'[g] # call[g],
         call'[g].key # NoKey
  PROVE  \/ call'[g].todo = <<"find">>
         \/ /\ Find(g) /\ call[g].todo = <<"find">>
            /\ call'[g].todo = <<"make">> /\ call'[g].key = call[g].key
            /\ \A t \in Task : task[t].key # call[g].key
<1>1. call \in [Thread -> Call] /\ NoCall.key = NoKey
  BY DEF MissionInv, TypeOK, NoCall
<1>2. CASE StoreStep(g) \/ EditStep(g) \/ CreateStep(g) \/ AdvanceStep(g) \/ ExecuteStep(g)
  <2>1. CASE call[g].key = NoKey
    BY <1>2, <2>1, KeyStays
  <2>2. CASE call[g].key # NoKey /\ call[g].todo = <<"find">>
    <3>1. Find(g)
      BY <1>2, <2>2 DEF StoreStep, EditStep, CreateStep, AdvanceStep, ExecuteStep, Save,
         SaveFails, Tick, Derive, Link, Sync, Receipt, Deadletter, Patch, Unlink, Replace,
         Make, Decide, Operate, Acquire, StartTask, Release, Hold, Run, At
    <3>2. CASE Return(g)
      BY <1>1, <3>2 DEF Return
    <3>3. CASE /\ \A t \in Task : task[t].key # call[g].key
               /\ Proceed(g, call[g], <<"make">>)
      <4>1. call'[g] = [call[g] EXCEPT !.todo = <<"make">>]
        BY <1>1, <2>2, <3>3 DEF Proceed
      <4>2. call'[g].key = call[g].key /\ call'[g].todo = <<"make">>
        BY <1>1, <4>1 DEF Call
      <4> QED
        BY <2>2, <3>1, <3>3, <4>2
    <3> QED
      BY <3>1, <3>2, <3>3 DEF Find
  <2>3. CASE call[g].key # NoKey /\ call[g].todo = <<"make">>
    <3>1. Make(g)
      BY <1>2, <2>3 DEF StoreStep, EditStep, CreateStep, AdvanceStep, ExecuteStep, Save,
         SaveFails, Tick, Derive, Link, Sync, Receipt, Deadletter, Patch, Unlink, Replace,
         Find, Decide, Operate, Acquire, StartTask, Release, Hold, Run, At
    <3>2. CASE Skip(g)
      BY <1>1, <2>3, <3>2 DEF Skip, Proceed
    <3>3. ASSUME NEW t \in Task,
                 Proceed(g, [call[g] EXCEPT !.task = t, !.key = NoKey], <<"link">>)
          PROVE  call'[g].key = NoKey
      <4>1. [call[g] EXCEPT !.task = t, !.key = NoKey] \in Call
        BY <1>1, CallWith
      <4>2. [call[g] EXCEPT !.task = t, !.key = NoKey].key = NoKey
        BY <1>1 DEF Call
      <4> QED
        BY <1>1, <3>3, <4>1, <4>2, NoKeyStays
    <3> QED
      BY <3>1, <3>2, <3>3 DEF Make
  <2> QED
    BY <2>1, <2>2, <2>3 DEF KeyInv
<1>3. ASSUME NEW h \in Thread, g # h,
             StoreStep(h) \/ EditStep(h) \/ CreateStep(h) \/ AdvanceStep(h) \/ ExecuteStep(h)
      PROVE  FALSE
  BY <1>3, OthersStay
<1>4. ASSUME ~ \E h \in Thread : StoreStep(h) \/ EditStep(h) \/ CreateStep(h)
                                   \/ AdvanceStep(h) \/ ExecuteStep(h)
      PROVE  call'[g].todo = <<"find">>
  <2>1. call'[g] = NoCall \/ Began(g)
    BY <1>4, BeginsAt
  <2>2. CASE \E n \in Mission : call'[g] =
                [NoCall EXCEPT !.todo = <<"derive", "decide">>, !.copy = mission[n],
                               !.mission = n]
    BY <2>2 DEF NoCall
  <2>3. CASE \E n \in Mission : call'[g] =
                [NoCall EXCEPT !.todo = <<"derive">>, !.copy = mission[n], !.mission = n]
    BY <2>3 DEF NoCall
  <2>4. CASE \E n \in Mission, k \in Key : call'[g] =
                [NoCall EXCEPT !.todo = <<"find">>, !.key = k, !.mission = n]
    BY <2>4 DEF NoCall
  <2>5. CASE \E t \in Task : call'[g] =
                [NoCall EXCEPT !.todo = <<"start">>, !.mission = task[t].mission, !.task = t]
    BY <2>5 DEF NoCall
  <2> QED
    BY <1>1, <2>1, <2>2, <2>3, <2>4, <2>5 DEF Began
<1> QED
  BY <1>2, <1>3, <1>4

\* Every step keeps the keys apart.
LEMMA KeyStep ==
  ASSUME MissionInv, KeyInv, [Next]_vars
  PROVE  KeyInv'
<1>1. call \in [Thread -> Call] /\ task \in [Task -> TaskRecord]
  BY DEF MissionInv, TypeOK
<1>2. contested \subseteq contested'
  BY ContestedBySearch DEF Find
<1>3. \/ \A t \in Task : task'[t].key = task[t].key
      \/ \E h \in Thread : /\ Make(h) /\ contested' = contested
                           /\ \E q \in Task : /\ task'[q].key = call[h].key
                                              /\ \A t \in Task \ {q} : task'[t].key = task[t].key
  <2>1. ASSUME NEW h \in Thread, Make(h)
        PROVE  \/ task' = task
               \/ /\ contested' = contested
                  /\ \E q \in Task : /\ task'[q].key = call[h].key
                                     /\ \A t \in Task \ {q} : task'[t].key = task[t].key
    <3>1. CASE task' = task
      BY <3>1
    <3>2. ASSUME NEW q \in Task, task' = [task EXCEPT ![q] =
                    [status |-> "pending", held |-> FALSE, mission |-> call[h].mission,
                     key |-> call[h].key]]
          PROVE  /\ task'[q].key = call[h].key
                 /\ \A t \in Task \ {q} : task'[t].key = task[t].key
      BY <1>1, <3>2
    <3>3. contested' = contested
      BY <2>1 DEF Make
    <3> QED
      BY <2>1, <3>1, <3>2, <3>3 DEF Make
  <2> QED
    BY <2>1, TaskKeys
<1>4. ASSUME NEW h \in Thread, At(h, "make"), call[h].key \notin {NoKey} \cup contested
      PROVE  Alone(h)
  BY <1>4 DEF KeyInv, At
<1>5. KeyUsedOnce'
  <2>1. CASE \A t \in Task : task'[t].key = task[t].key
    BY <1>2, <2>1 DEF KeyInv, KeyUsedOnce
  <2>2. ASSUME NEW h \in Thread, Make(h), contested' = contested, NEW q \in Task,
               task'[q].key = call[h].key,
               \A t \in Task \ {q} : task'[t].key = task[t].key
        PROVE  KeyUsedOnce'
    <3>1. call[h].key \notin {NoKey} \cup contested =>
             \A t \in Task : task[t].key # call[h].key
      BY <1>4, <2>2 DEF Make, Alone
    <3> QED
      BY <2>2, <3>1 DEF KeyInv, KeyUsedOnce
  <2> QED
    BY <1>3, <2>1, <2>2
<1>6. ASSUME NEW g \in Thread, call'[g].key # NoKey, call'[g].todo # <<"find">>,
             call'[g].key \notin contested'
      PROVE  call'[g].todo = <<"make">> /\ Alone(g)'
  <2>1. CASE call'[g] = call[g]
    <3>1. call[g].todo = <<"make">> /\ At(g, "make") /\ Alone(g)
      BY <1>2, <1>6, <2>1 DEF KeyInv, At
    <3>2. ASSUME NEW h \in Thread \ {g}, At(h, "make")', call'[h].key = call[g].key
          PROVE  FALSE
      <4>1. CASE call'[h] = call[h]
        BY <3>1, <3>2, <4>1 DEF Alone, At
      <4>2. CASE call'[h] # call[h]
        <5>1. Find(h) /\ call[h].key = call[g].key
          BY <1>6, <2>1, <3>2, <4>2, KeyComes DEF At
        <5>2. call'[h] # NoCall
          BY <3>2 DEF At, NoCall
        <5>3. ~Return(h)
          BY <1>1, <5>2 DEF Return
        <5> QED
          BY <1>6, <2>1, <3>1, <5>1, <5>3 DEF Find
      <4> QED
        BY <4>1, <4>2
    <3>3. ASSUME NEW t \in Task, task'[t].key = call[g].key PROVE FALSE
      <4>1. PICK h \in Thread : Make(h) /\ call[h].key = call[g].key
        BY <1>3, <3>1, <3>3 DEF Alone
      <4>2. h = g
        BY <3>1, <4>1 DEF Alone, Make
      <4>3. call'[g].key = NoKey \/ call'[g] # call[g]
        <5>1. CASE Skip(g)
          BY <1>1, <3>1, <5>1 DEF Skip, Proceed, NoCall
        <5>2. ASSUME NEW q \in Task,
                     Proceed(g, [call[g] EXCEPT !.task = q, !.key = NoKey], <<"link">>)
              PROVE  call'[g].key = NoKey
          <6>1. [call[g] EXCEPT !.task = q, !.key = NoKey] \in Call
            BY <1>1, CallWith
          <6>2. [call[g] EXCEPT !.task = q, !.key = NoKey].key = NoKey
            BY <1>1 DEF Call
          <6> QED
            BY <1>1, <5>2, <6>1, <6>2, NoKeyStays
        <5> QED
          BY <4>1, <4>2, <5>1, <5>2 DEF Make
      <4> QED
        BY <1>6, <2>1, <4>3
    <3> QED
      BY <2>1, <3>1, <3>2, <3>3 DEF Alone
  <2>2. CASE call'[g] # call[g]
    <3>1. /\ Find(g) /\ call[g].todo = <<"find">>
          /\ call'[g].todo = <<"make">> /\ call'[g].key = call[g].key
          /\ \A t \in Task : task[t].key # call[g].key
      BY <1>6, <2>2, KeyComes
    <3>2. task' = task /\ \A h \in Thread \ {g} : call'[h] = call[h]
      BY <3>1, OthersStay DEF CreateStep, Find
    <3>3. ~Return(g)
      BY <1>1, <3>1 DEF Return, NoCall
    <3>4. \A h \in Thread : At(h, "make") => call[h].key # call[g].key
      BY <1>6, <3>1, <3>3 DEF Find
    <3> QED
      BY <3>1, <3>2, <3>4 DEF Alone, At
  <2> QED
    BY <2>1, <2>2
<1>7. ASSUME NEW g \in Thread, call'[g].key # NoKey
      PROVE  call'[g].todo \in {<<"find">>, <<"make">>}
  BY <1>7, KeyComes DEF KeyInv
<1> QED
  BY <1>5, <1>6, <1>7 DEF KeyInv

\* Requests with one idempotency key create one operation, for any number of missions,
\* operations, clerks, advancers and workers, edits and crashes, unless two of them
\* look for it before either creates it.
THEOREM OneOperationPerKey == Spec => []KeyUsedOnce
<1>1. Init => KeyInv
  BY DEF Init, KeyInv, KeyUsedOnce, NoCall, NoRecord
<1>2. MissionInv /\ KeyInv /\ [Next]_vars => KeyInv'
  BY KeyStep
<1>3. KeyInv => KeyUsedOnce
  BY DEF KeyInv
<1> QED
  BY <1>1, <1>2, <1>3, MissionInvariant, PTL DEF Spec

-----------------------------------------------------------------------------
(* The first operation of a mission. *)

\* A call is to do a step of X.
Has(h, X) == \E i \in 1..Len(call[h].todo) : call[h].todo[i] \in X

Advancing == {"decide", "receipt"}
Editing   == {"patch", "deadletter", "unlink", "replace"}

\* What a list has, it had or was given.
LEMMA HasComes ==
  ASSUME NEW h \in Thread, NEW c, NEW steps, Took(h, c, steps),
         call[h].todo \in Seq(Step), NEW X, Has(h, X)'
  PROVE  Has(h, X) \/ \E j \in 1..Len(steps) : steps[j] \in X
<1>1. PICK i \in 1..Len(call'[h].todo) : call'[h].todo[i] \in X
  BY DEF Has
<1>2. \/ \E j \in 1..Len(steps) : call'[h].todo[i] = steps[j]
      \/ \E j \in 2..Len(call[h].todo) : call'[h].todo[i] = call[h].todo[j]
  BY <1>1 DEF Took, Lists
<1>3. Len(call[h].todo) \in Nat
  OBVIOUS
<1> QED
  BY <1>1, <1>2, <1>3 DEF Has

\* Whatever moves a call that is over is none of its steps.
LEMMA Moves ==
  ASSUME NEW h \in Thread,
         StoreStep(h) \/ EditStep(h) \/ CreateStep(h) \/ AdvanceStep(h) \/ ExecuteStep(h)
  PROVE  call[h].todo # <<>>
BY DEF StoreStep, EditStep, CreateStep, AdvanceStep, ExecuteStep, Save, SaveFails,
   Tick, Derive, Link, Sync, Receipt, Deadletter, Patch, Unlink, Replace, Find, Make, Decide,
   Operate, Acquire, StartTask, Release, Hold, Run, At

\* Only the steps of an advance bring further steps of one, and a replacement.
LEMMA AdvancingComes ==
  ASSUME MissionInv, NEW h \in Thread,
         StoreStep(h) \/ EditStep(h) \/ CreateStep(h) \/ AdvanceStep(h) \/ ExecuteStep(h),
         ~At(h, "replace"), Has(h, Advancing)'
  PROVE  Has(h, Advancing)
<1>1. call[h].todo \in Seq(Step) /\ call[h].todo # <<>>
  BY Moves, CallTyped
<1> DEFINE Brings(steps) == \E j \in 1..Len(steps) : steps[j] \in Advancing
<1>2. ASSUME NEW c, NEW steps, Took(h, c, steps), ~Brings(steps)
      PROVE  Has(h, Advancing)
  BY <1>1, <1>2, HasComes
<1>3. /\ ~Brings(<<>>) /\ ~Brings(<<"save">>) /\ ~Brings(<<"derive">>) /\ ~Brings(<<"patch">>)
      /\ ~Brings(<<"make">>) /\ ~Brings(<<"link">>) /\ ~Brings(<<"acquire">>)
      /\ ~Brings(<<"start">>) /\ ~Brings(<<"release">>) /\ ~Brings(<<"sync">>)
      /\ ~Brings(<<"sync", "run">>)
      /\ ~Brings(<<"sync", "release">>) /\ ~Brings(<<"release", "hold">>)
      /\ ~Brings(<<"hold", "acquire">>)
  BY DEF Advancing
<1>4. ~Ended(h)
  BY DEF Ended, Has, NoCall
<1>5. ASSUME At(h, "decide") \/ At(h, "receipt") PROVE Has(h, Advancing)
  <2>1. 1 \in 1..Len(call[h].todo) /\ call[h].todo[1] \in Advancing
    BY <1>1, <1>5 DEF At, Advancing
  <2> QED
    BY <2>1 DEF Has
<1> HIDE DEF Brings
<1>6. CASE StoreStep(h)
  BY <1>2, <1>3, <1>6, SaveTakes, TickTakes, DeriveTakes, LinkTakes, SyncTakes, ReceiptTakes
  DEF StoreStep
<1>7. CASE EditStep(h)
  BY <1>2, <1>3, <1>4, <1>7, EditTakes DEF EditStep, Replace
<1>8. CASE CreateStep(h)
  BY <1>2, <1>3, <1>4, <1>8, FindTakes, MakeTakes DEF CreateStep
<1>9. CASE Decide(h)
  BY <1>5, <1>9 DEF Decide
<1>10. CASE Operate(h) \/ Acquire(h)
  BY <1>2, <1>3, <1>10, OperateTakes, AcquireTakes
<1>11. CASE ExecuteStep(h)
  BY <1>2, <1>3, <1>11, StartTakes, ReleaseTakes, HoldTakes, RunTakes DEF ExecuteStep
<1> QED
  BY <1>6, <1>7, <1>8, <1>9, <1>10, <1>11 DEF AdvanceStep

\* An edit goes on with an edit, and nothing else does.
LEMMA EditingComes ==
  ASSUME MissionInv, NEW h \in Thread,
         StoreStep(h) \/ EditStep(h) \/ CreateStep(h) \/ AdvanceStep(h) \/ ExecuteStep(h),
         NEW step \in Editing, At(h, step)'
  PROVE  \E s \in Editing : At(h, s)
<1>1. step \notin Later /\ ~Ended(h)
  BY EndedIsIdle DEF Later, Editing
<1>2. ASSUME NEW c, NEW steps, Took(h, c, steps) PROVE steps # <<>> /\ steps[1] = step
  BY <1>1, <1>2, HeadComes
<1>3. ASSUME NEW c
      PROVE  /\ ~Took(h, c, <<>>)
             /\ \A s \in Step \ Editing : ~Took(h, c, <<s>>)
             /\ \A s \in Step : ~Took(h, c, <<"sync", s>>)
             /\ ~Took(h, c, <<"release", "hold">>) /\ ~Took(h, c, <<"hold", "acquire">>)
             /\ \A s \in {"make", "operate"} : ~Took(h, c, <<s, "tick", "receipt">>)
  <2>1. ~Took(h, c, <<>>)
    BY <1>2
  <2>2. ASSUME NEW s \in Step \ Editing PROVE ~Took(h, c, <<s>>)
    <3>1. <<s>>[1] = s
      OBVIOUS
    <3> QED
      BY <1>2, <3>1
  <2>3. ASSUME NEW s \in Step PROVE ~Took(h, c, <<"sync", s>>)
    <3>1. <<"sync", s>>[1] = "sync"
      OBVIOUS
    <3> QED
      BY <1>2, <3>1 DEF Editing
  <2>4. ~Took(h, c, <<"release", "hold">>)
    <3>1. <<"release", "hold">>[1] = "release"
      OBVIOUS
    <3> QED
      BY <1>2, <3>1 DEF Editing
  <2>5. ASSUME NEW s \in {"make", "operate"} PROVE ~Took(h, c, <<s, "tick", "receipt">>)
    <3>1. <<s, "tick", "receipt">>[1] = s
      OBVIOUS
    <3> QED
      BY <1>2, <3>1 DEF Editing
  <2>6. ~Took(h, c, <<"hold", "acquire">>)
    <3>1. <<"hold", "acquire">>[1] = "hold"
      OBVIOUS
    <3> QED
      BY <1>2, <3>1 DEF Editing
  <2> QED
    BY <2>1, <2>2, <2>3, <2>4, <2>5, <2>6
<1>4. ASSUME NEW c
      PROVE  /\ ~Took(h, c, <<>>) /\ ~Took(h, c, <<"save">>) /\ ~Took(h, c, <<"derive">>)
             /\ ~Took(h, c, <<"receipt">>) /\ ~Took(h, c, <<"make">>)
             /\ ~Took(h, c, <<"link">>) /\ ~Took(h, c, <<"acquire">>)
             /\ ~Took(h, c, <<"start">>) /\ ~Took(h, c, <<"release">>)
             /\ ~Took(h, c, <<"sync">>)
             /\ ~Took(h, c, <<"sync", "run">>) /\ ~Took(h, c, <<"sync", "release">>)
             /\ ~Took(h, c, <<"release", "hold">>) /\ ~Took(h, c, <<"hold", "acquire">>)
             /\ ~Took(h, c, <<"make", "tick", "receipt">>)
             /\ ~Took(h, c, <<"operate", "tick", "receipt">>)
  BY <1>3 DEF Step, Editing
<1>5. ~StoreStep(h)
  BY <1>4, SaveTakes, TickTakes, DeriveTakes, LinkTakes, SyncTakes, ReceiptTakes DEF StoreStep
<1>6. ~ExecuteStep(h)
  BY <1>4, StartTakes, ReleaseTakes, HoldTakes, RunTakes DEF ExecuteStep
<1>7. ~CreateStep(h)
  BY <1>1, <1>4, FindTakes, MakeTakes DEF CreateStep
<1>8. ~AdvanceStep(h)
  BY <1>1, <1>4, DecideTakes, OperateTakes, AcquireTakes DEF AdvanceStep
<1>9. CASE EditStep(h)
  BY <1>9 DEF EditStep, Deadletter, Patch, Unlink, Replace, Editing
<1> QED
  BY <1>5, <1>6, <1>7, <1>8, <1>9

\* A call that begins without trouble is no edit, and advances if it is an advancer's.
LEMMA BeganAdvancing ==
  ASSUME NEW g, call'[g] = NoCall \/ Began(g), trouble' = 0
  PROVE  /\ Has(g, Advancing)' => g \in Advancer
         /\ \A step \in Editing : ~At(g, step)'
<1>1. CASE call'[g] = NoCall
  BY <1>1 DEF Has, At, NoCall
<1>2. CASE Began(g)
  <2>1. ASSUME NEW s \in {"derive", "find", "start"}, call'[g].todo = <<s>>
        PROVE  ~Has(g, Advancing)'
    BY <2>1 DEF Has, Advancing
  <2>2. g \in Advancer \/ \E s \in {"derive", "find", "start"} : call'[g].todo = <<s>>
    <3>1. CASE \E n \in Mission : call'[g] =
                  [NoCall EXCEPT !.todo = <<"derive">>, !.copy = mission[n], !.mission = n]
      BY <3>1 DEF NoCall
    <3>2. CASE \E n \in Mission, k \in Key : call'[g] =
                  [NoCall EXCEPT !.todo = <<"find">>, !.key = k, !.mission = n]
      BY <3>2 DEF NoCall
    <3>3. CASE \E t \in Task : call'[g] =
                  [NoCall EXCEPT !.todo = <<"start">>, !.mission = task[t].mission, !.task = t]
      BY <3>3 DEF NoCall
    <3>4. ~(trouble' > 0)
      OBVIOUS
    <3> QED
      BY <1>2, <3>1, <3>2, <3>3, <3>4, Zenon DEF Began
  <2>3. ASSUME NEW step \in Editing PROVE ~At(g, step)'
    BY <1>2, BeganAt DEF At, Editing
  <2> QED
    BY <2>1, <2>2, <2>3
<1> QED
  BY <1>1, <1>2

\* Trouble grows, and where it does not, there was none.
LEMMA TroubleGrows ==
  ASSUME MissionInv, [Next]_vars, trouble' = 0
  PROVE  /\ trouble = 0
         /\ \A h \in Thread : ~SaveFails(h)
         /\ \A dead \in Process : ~Crash(dead)
<1>1. trouble \in Nat
  BY MissionAssumption DEF MissionInv, TypeOK
<1>2. \A h : ~SaveFails(h)
  BY <1>1 DEF SaveFails
<1>3. \A dead : ~Crash(dead)
  BY <1>1 DEF Crash
<1>4. ASSUME NEW h, NEW m, Edits(h, m) PROVE FALSE
  <2>1. trouble' = trouble + 1
    BY <1>4, Zenon DEF Edits
  <2> QED
    BY <1>1, <2>1
<1>5. \A e : TaskEdit(e) => trouble' = trouble
  BY <1>1 DEF TaskEdit, LoadTask, StoreTask
<1>6. ASSUME NEW h \in Thread,
             StoreStep(h) \/ EditStep(h) \/ CreateStep(h) \/ AdvanceStep(h) \/ ExecuteStep(h)
      PROVE  trouble' = trouble
  BY <1>2, <1>6
  DEF StoreStep, EditStep, CreateStep, AdvanceStep, ExecuteStep, Save, Tick, Derive, Link, Sync,
      Receipt, Deadletter, Patch, Unlink, Replace, Find, Make, Decide, Operate, Acquire,
      StartTask, Release, Hold, Run
<1>7. trouble' = trouble
  BY <1>3, <1>4, <1>5, <1>6
  DEF Next, vars, CreateMission, Reclaim, Advances, Ticks, Creates, Claim
<1> QED
  BY <1>2, <1>3, <1>7

\* Without trouble there are no edits, and receipts are left by advancers.
CalmInv ==
    trouble = 0 =>
        \A h \in Thread :
            /\ Has(h, Advancing) => h \in Advancer
            /\ \A step \in Editing : ~At(h, step)

\* Every step keeps this.
LEMMA CalmStep ==
  ASSUME MissionInv, CalmInv, [Next]_vars
  PROVE  CalmInv'
<1> SUFFICES ASSUME trouble' = 0, NEW g \in Thread
             PROVE  /\ Has(g, Advancing)' => g \in Advancer
                    /\ \A step \in Editing : ~At(g, step)'
  BY DEF CalmInv
<1>1. trouble = 0
  BY TroubleGrows
<1>2. CASE call'[g] = call[g]
  BY <1>1, <1>2 DEF CalmInv, Has, At
<1>3. ASSUME NEW h \in Thread,
             StoreStep(h) \/ EditStep(h) \/ CreateStep(h) \/ AdvanceStep(h) \/ ExecuteStep(h)
      PROVE  /\ Has(g, Advancing)' => g \in Advancer
             /\ \A step \in Editing : ~At(g, step)'
  <2>1. CASE g # h
    BY <1>2, <1>3, <2>1, OthersStay
  <2>2. CASE g = h
    <3>1. \A step \in Editing : ~At(h, step)
      BY <1>1 DEF CalmInv
    <3>2. Has(h, Advancing)' => h \in Advancer
      BY <1>1, <1>3, <3>1, AdvancingComes DEF CalmInv, Editing
    <3>3. ASSUME NEW step \in Editing, At(h, step)'
          PROVE  FALSE
      BY <1>3, <3>1, <3>3, EditingComes
    <3> QED
      BY <2>2, <3>2, <3>3
  <2> QED
    BY <2>1, <2>2
<1>4. ASSUME ~ \E h \in Thread : StoreStep(h) \/ EditStep(h) \/ CreateStep(h) \/ AdvanceStep(h)
                                   \/ ExecuteStep(h),
             call'[g] # call[g]
      PROVE  /\ Has(g, Advancing)' => g \in Advancer
             /\ \A step \in Editing : ~At(g, step)'
  <2>1. call'[g] = NoCall \/ Began(g)
    BY <1>4, BeginsAt
  <2> QED
    BY <2>1, BeganAdvancing
<1> QED
  BY <1>2, <1>3, <1>4

\* Where there is one advancer, a mission for which it made an operation has links,
\* or that one is about to be linked; it makes one for a mission without any, and
\* only it saves a copy without links, of a mission without operations.
LinksInv ==
    trouble = 0 =>
        /\ \A m \in Mission : firsts[m] # 0 =>
              \/ mission[m].links # {}
              \/ \E h \in Advancer : call[h].mission = m /\ (At(h, "link") \/ At(h, "save"))
        /\ \A h \in Thread :
              /\ At(h, "save") /\ call[h].copy.links = {}
                    => h \in Advancer /\ firsts[call[h].mission] = 0
              /\ At(h, "make") /\ h \in Advancer => firsts[call[h].mission] = 0
        /\ \A m \in Mission : firsts[m] <= 1

\* A call that is given one step is at it.
LEMMA ProceedsTo ==
  ASSUME call \in [Thread -> Call], NEW h \in Thread, call[h].todo # <<>>,
         NEW c \in Call, NEW step \in Step, step \notin {"tick", "decide", "receipt"},
         Proceed(h, c, <<step>>)
  PROVE  At(h, step)' /\ call'[h].mission = c.mission
<1> DEFINE rest == <<step>> \o Tail(call[h].todo)
<1>1. call[h].todo \in Seq(Step)
  BY DEF Call
<1>2. rest # <<>> /\ Head(rest) = step
  BY <1>1, Replaced
<1>3. call' = [call EXCEPT ![h] = [c EXCEPT !.todo = rest]]
  BY <1>2 DEF Proceed
<1> HIDE DEF rest
<1>4. call'[h].todo = rest /\ call'[h].mission = c.mission
  BY <1>3 DEF Call
<1> QED
  BY <1>2, <1>4 DEF At

\* Only a receipt, when there are no edits, saves a copy without links.
LEMMA EmptyCopyComes ==
  ASSUME MissionInv, NEW h \in Thread,
         StoreStep(h) \/ EditStep(h) \/ CreateStep(h) \/ AdvanceStep(h) \/ ExecuteStep(h),
         \A step \in Editing : ~At(h, step),
         At(h, "save")', call'[h].copy.links = {}
  PROVE  At(h, "receipt") /\ Mine(h).links = {} /\ call'[h].mission = call[h].mission
<1>1. "save" \notin Later /\ ~Ended(h)
  BY EndedIsIdle DEF Later
<1>2. /\ call[h] \in Call /\ Mine(h) \in MissionRecord /\ call[h].copy \in MissionRecord
      /\ call[h].says \in Report
  BY Moves, CallTyped
<1>3. ASSUME NEW c, NEW steps, Took(h, c, steps)
      PROVE  /\ steps # <<>> /\ steps[1] = "save"
             /\ call'[h] = [c EXCEPT !.todo = call'[h].todo]
  BY <1>1, <1>3, HeadComes
<1>4. ASSUME NEW c
      PROVE  /\ ~Took(h, c, <<>>)
             /\ \A s \in Step \ {"save"} : ~Took(h, c, <<s>>)
             /\ \A s \in Step : ~Took(h, c, <<"sync", s>>)
             /\ ~Took(h, c, <<"release", "hold">>) /\ ~Took(h, c, <<"hold", "acquire">>)
             /\ \A s \in {"make", "operate"} : ~Took(h, c, <<s, "tick", "receipt">>)
  <2>1. ~Took(h, c, <<>>)
    BY <1>3
  <2>2. ASSUME NEW s \in Step \ {"save"} PROVE ~Took(h, c, <<s>>)
    <3>1. <<s>>[1] = s
      OBVIOUS
    <3> QED
      BY <1>3, <3>1
  <2>3. ASSUME NEW s \in Step PROVE ~Took(h, c, <<"sync", s>>)
    <3>1. <<"sync", s>>[1] = "sync"
      OBVIOUS
    <3> QED
      BY <1>3, <3>1
  <2>4. ~Took(h, c, <<"release", "hold">>)
    <3>1. <<"release", "hold">>[1] = "release"
      OBVIOUS
    <3> QED
      BY <1>3, <3>1
  <2>5. ASSUME NEW s \in {"make", "operate"} PROVE ~Took(h, c, <<s, "tick", "receipt">>)
    <3>1. <<s, "tick", "receipt">>[1] = s
      OBVIOUS
    <3> QED
      BY <1>3, <3>1
  <2>6. ~Took(h, c, <<"hold", "acquire">>)
    <3>1. <<"hold", "acquire">>[1] = "hold"
      OBVIOUS
    <3> QED
      BY <1>3, <3>1
  <2> QED
    BY <2>1, <2>2, <2>3, <2>4, <2>5, <2>6
<1>5. ASSUME NEW c
      PROVE  /\ ~Took(h, c, <<>>) /\ ~Took(h, c, <<"derive">>)
             /\ ~Took(h, c, <<"receipt">>) /\ ~Took(h, c, <<"make">>)
             /\ ~Took(h, c, <<"link">>) /\ ~Took(h, c, <<"acquire">>)
             /\ ~Took(h, c, <<"start">>) /\ ~Took(h, c, <<"release">>)
             /\ ~Took(h, c, <<"sync">>)
             /\ ~Took(h, c, <<"sync", "run">>) /\ ~Took(h, c, <<"sync", "release">>)
             /\ ~Took(h, c, <<"release", "hold">>) /\ ~Took(h, c, <<"hold", "acquire">>)
             /\ ~Took(h, c, <<"make", "tick", "receipt">>)
             /\ ~Took(h, c, <<"operate", "tick", "receipt">>)
  BY <1>4 DEF Step
<1>6. ASSUME NEW r \in MissionRecord, r.links # {}
      PROVE  ~Took(h, [NoCall EXCEPT !.mission = call[h].mission, !.copy = r], <<"save">>)
  <2> SUFFICES ASSUME Took(h, [NoCall EXCEPT !.mission = call[h].mission, !.copy = r], <<"save">>)
               PROVE  FALSE
    OBVIOUS
  <2>1. call'[h] = [[NoCall EXCEPT !.mission = call[h].mission, !.copy = r]
                      EXCEPT !.todo = call'[h].todo]
    BY <1>3
  <2>2. call'[h].copy = r
    BY <2>1 DEF NoCall
  <2> QED
    BY <1>6, <2>2
<1>7. ~Derive(h)
  <2> DEFINE r == Ticked(call[h].copy, call[h].copy.links)
  <2>1. r \in MissionRecord /\ r.links = call[h].copy.links
    BY <1>2, TickedType DEF MissionRecord
  <2> QED
    BY <1>5, <1>6, <2>1, DeriveTakes
<1>8. ~Link(h)
  <2> DEFINE r == [Mine(h) EXCEPT !.links = @ \cup {call[h].task}]
  <2> SUFFICES ASSUME Link(h) PROVE FALSE
    OBVIOUS
  <2>1. call[h].task \in Task
    BY HeadIs, CallTyped DEF Link, Tasked
  <2>2. r \in MissionRecord /\ r.links # {}
    BY <1>2, <2>1 DEF MissionRecord
  <2> QED
    BY <1>5, <1>6, <2>2, LinkTakes
<1>9. ~Sync(h)
  <2> DEFINE r == Transition(Mine(h), call[h].task, call[h].says)
  <2> SUFFICES ASSUME Sync(h) PROVE FALSE
    OBVIOUS
  <2>1. /\ r \in MissionRecord
        /\ call'[h] = [[call[h] EXCEPT !.copy = r, !.says = Silent] EXCEPT !.todo = call'[h].todo]
    BY <1>3, SyncTakes
  <2>2. r.links = Mine(h).links \cup {call[h].task}
    BY DEF Transition
  <2> HIDE DEF r
  <2>3. call'[h].copy = r
    BY <1>2, <2>1 DEF Call
  <2> QED
    BY <2>2, <2>3
<1>10. ~Save(h) /\ ~SaveFails(h) /\ ~Tick(h)
  BY <1>5, SaveTakes, TickTakes
<1>11. ~EditStep(h)
  BY DEF EditStep, Deadletter, Patch, Unlink, Replace, Editing
<1>12. ~ExecuteStep(h)
  BY <1>5, StartTakes, ReleaseTakes, HoldTakes, RunTakes DEF ExecuteStep
<1>13. ~CreateStep(h)
  BY <1>1, <1>5, FindTakes, MakeTakes DEF CreateStep
<1>14. ~AdvanceStep(h)
  BY <1>1, <1>5, DecideTakes, OperateTakes, AcquireTakes DEF AdvanceStep
<1>15. CASE Receipt(h)
  <2>1. call'[h] = [[NoCall EXCEPT !.mission = call[h].mission, !.copy = Mine(h)]
                      EXCEPT !.todo = call'[h].todo]
    BY <1>3, <1>15, ReceiptTakes
  <2>2. call'[h].copy = Mine(h) /\ call'[h].mission = call[h].mission
    BY <2>1 DEF NoCall
  <2> QED
    BY <1>15, <2>2 DEF Receipt
<1> QED
  BY <1>7, <1>8, <1>9, <1>10, <1>11, <1>12, <1>13, <1>14, <1>15 DEF StoreStep

\* The links of a mission change when its copy is saved.
LEMMA LinksChange ==
  ASSUME MissionInv, [Next]_vars, NEW m \in Mission
  PROVE  \/ mission'[m].links = mission[m].links
         \/ \E h \in Thread : /\ Save(h) \/ SaveFails(h)
                              /\ call[h].mission = m /\ mission'[m] = call[h].copy
<1>1. mission \in [Mission -> MissionRecord]
  BY DEF MissionInv, TypeOK
<1>2. ASSUME NEW n \in Mission, mission' = [mission EXCEPT ![n].status = "queued"]
      PROVE  mission'[m].links = mission[m].links
  BY <1>1, <1>2 DEF MissionRecord
<1>3. ASSUME NEW h \in Thread, Write(h)
      PROVE  \/ mission'[m].links = mission[m].links
             \/ call[h].mission = m /\ mission'[m] = call[h].copy
  BY <1>1, <1>3 DEF Write
<1>4. ASSUME NEW h \in Thread, Save(h) \/ SaveFails(h)
      PROVE  \/ mission'[m].links = mission[m].links
             \/ call[h].mission = m /\ mission'[m] = call[h].copy
  BY <1>3, <1>4 DEF Save, SaveFails
<1>5. ASSUME NEW h \in Thread, Replace(h) PROVE mission'[m].links = mission[m].links
  BY <1>2, <1>5 DEF Replace
<1>6. ASSUME NEW h \in Thread,
             StoreStep(h) \/ EditStep(h) \/ CreateStep(h) \/ AdvanceStep(h) \/ ExecuteStep(h)
      PROVE  \/ mission' = mission \/ Save(h) \/ SaveFails(h) \/ Replace(h)
  BY <1>6 DEF StoreStep, EditStep, CreateStep, AdvanceStep, ExecuteStep, Tick, Derive, Link, Sync,
      Receipt, Deadletter, Patch, Unlink, Find, Make, Decide, Operate, Acquire,
      StartTask, Release, Hold, Run
<1>7. ASSUME NEW n \in Mission, CreateMission(n) PROVE mission'[m].links = mission[m].links
  BY <1>2, <1>7 DEF CreateMission
<1> QED
  BY <1>4, <1>5, <1>6, <1>7
  DEF Next, vars, TaskEdit, LoadTask, StoreTask, Reclaim, Advances, Ticks, Creates, Edits, Claim, Crash

\* First operations are made by advancers, which link them next.
LEMMA FirstsChange ==
  ASSUME MissionInv, [Next]_vars, firsts' # firsts
  PROVE  \E h \in Advancer :
            /\ At(h, "make") /\ At(h, "link")' /\ call'[h].mission = call[h].mission
            /\ firsts' = [firsts EXCEPT ![call[h].mission] = IF @ < Many THEN @ + 1 ELSE @]
<1>1. PICK h \in Thread : Make(h)
  BY DEF Next, vars, ghosts, CreateMission, TaskEdit, LoadTask, StoreTask, Reclaim, StoreStep, EditStep, CreateStep,
      AdvanceStep, ExecuteStep, Save, SaveFails, Tick, Derive, Link, Sync, Receipt, Deadletter,
      Patch, Unlink, Replace, Find, Decide, Operate, Acquire, StartTask, Release, Hold, Run,
      Advances, Ticks, Creates, Edits, Claim, Crash
<1>2. /\ h \in Advancer /\ At(h, "make")
      /\ firsts' = [firsts EXCEPT ![call[h].mission] = IF @ < Many THEN @ + 1 ELSE @]
      /\ \E t \in Task : Proceed(h, [call[h] EXCEPT !.task = t, !.key = NoKey], <<"link">>)
  BY <1>1 DEF Make
<1>3. call \in [Thread -> Call] /\ call[h] \in Call /\ call[h].todo # <<>>
  BY <1>2 DEF MissionInv, TypeOK, At
<1>4. PICK t \in Task : Proceed(h, [call[h] EXCEPT !.task = t, !.key = NoKey], <<"link">>)
  BY <1>2
<1>5. /\ [call[h] EXCEPT !.task = t, !.key = NoKey] \in Call
      /\ [call[h] EXCEPT !.task = t, !.key = NoKey].mission = call[h].mission
  BY <1>3, CallWith DEF Call
<1>6. At(h, "link")' /\ call'[h].mission = call[h].mission
  BY <1>3, <1>4, <1>5, ProceedsTo DEF Step
<1> QED
  BY <1>2, <1>6

\* A call that is not over stays as it is while no call takes a step, unless its
\* process dies.
LEMMA CallsStay ==
  ASSUME MissionInv, [Next]_vars,
         ~ \E h \in Thread : StoreStep(h) \/ EditStep(h) \/ CreateStep(h) \/ AdvanceStep(h)
                                \/ ExecuteStep(h),
         NEW g \in Thread, call[g].todo # <<>>
  PROVE  \/ call'[g] = call[g]
         \/ call'[g] = NoCall /\ \E dead \in Process : Crash(dead)
<1>1. ASSUME NEW dead \in Process, Crash(dead) PROVE call'[g] = call[g] \/ call'[g] = NoCall
  BY <1>1, CrashTakes DEF MissionInv, TypeOK
<1>2. ASSUME NEW h, NEW c, Begin(h, c) PROVE call'[g] = call[g]
  BY <1>2 DEF Begin, Idle, MissionInv, TypeOK
<1>3. ASSUME NEW h, NEW m, Edits(h, m) PROVE call'[g] = call[g]
  BY <1>2, <1>3 DEF Edits, Request
<1>4. CASE \E dead \in Process : Crash(dead)
  BY <1>1, <1>4
<1>5. ASSUME NEW h, NEW m, Advances(h, m) \/ Ticks(h, m) PROVE call'[g] = call[g]
  BY <1>2, <1>5 DEF Advances, Ticks, Request
<1>6. ASSUME NEW h, NEW m, NEW k, Creates(h, m, k) PROVE call'[g] = call[g]
  BY <1>2, <1>6 DEF Creates, Request
<1>7. ASSUME NEW w, NEW t, Claim(w, t) PROVE call'[g] = call[g]
  BY <1>2, <1>7 DEF Claim
<1>8. ASSUME ~ \E dead \in Process : Crash(dead) PROVE call'[g] = call[g]
  BY <1>3, <1>5, <1>6, <1>7, <1>8 DEF Next, vars, CreateMission, TaskEdit, LoadTask, StoreTask, Reclaim
<1> QED
  BY <1>4, <1>8

\* With one advancer, every step keeps this.
LEMMA LinksStep ==
  ASSUME \A g, h \in Advancer : g = h, Advancer \cap Clerk = {},
         MissionInv, DependInv, CalmInv, LinksInv, [Next]_vars
  PROVE  LinksInv'
<1> SUFFICES ASSUME trouble' = 0
             PROVE  /\ \A m \in Mission : firsts'[m] # 0 =>
                          \/ mission'[m].links # {}
                          \/ \E h \in Advancer : /\ call'[h].mission = m
                                                 /\ At(h, "link")' \/ At(h, "save")'
                    /\ \A h \in Thread :
                          /\ At(h, "save")' /\ call'[h].copy.links = {}
                                => h \in Advancer /\ firsts'[call'[h].mission] = 0
                          /\ At(h, "make")' /\ h \in Advancer => firsts'[call'[h].mission] = 0
                    /\ \A m \in Mission : firsts'[m] <= 1
  BY DEF LinksInv
<1> DEFINE Steps(h) == StoreStep(h) \/ EditStep(h) \/ CreateStep(h) \/ AdvanceStep(h)
                         \/ ExecuteStep(h)
<1>1. /\ trouble = 0 /\ \A h \in Thread : ~SaveFails(h)
      /\ call \in [Thread -> Call] /\ firsts \in [Mission -> 0..Many]
      /\ Advancer \subseteq Thread
  BY TroubleGrows DEF MissionInv, TypeOK, Thread
<1>2. ASSUME NEW m \in Mission, firsts'[m] # firsts[m]
      PROVE  /\ firsts[m] = 0 /\ firsts'[m] = 1
             /\ \E h \in Advancer : /\ At(h, "make") /\ At(h, "link")'
                                    /\ call[h].mission = m /\ call'[h].mission = m
  <2>1. PICK h \in Advancer :
            /\ At(h, "make") /\ At(h, "link")' /\ call'[h].mission = call[h].mission
            /\ firsts' = [firsts EXCEPT ![call[h].mission] = IF @ < Many THEN @ + 1 ELSE @]
    BY <1>2, FirstsChange
  <2>2. m = call[h].mission
    BY <1>1, <1>2, <2>1
  <2>3. firsts[m] = 0
    BY <1>1, <2>1, <2>2 DEF LinksInv
  <2> QED
    BY <1>1, <2>1, <2>2, <2>3 DEF Many
<1>3. ASSUME NEW m \in Mission, firsts'[m] # 0
      PROVE  \/ mission'[m].links # {}
             \/ \E h \in Advancer : call'[h].mission = m /\ (At(h, "link")' \/ At(h, "save")')
  <2>1. CASE firsts'[m] # firsts[m]
    BY <1>2, <2>1
  <2>2. CASE firsts'[m] = firsts[m] /\ mission[m].links # {}
    <3>1. CASE mission'[m].links = mission[m].links
      BY <2>2, <3>1
    <3>2. ASSUME NEW h \in Thread, Save(h), call[h].mission = m, mission'[m] = call[h].copy
          PROVE  mission'[m].links # {}
      BY <1>1, <1>3, <2>2, <3>2 DEF Save, LinksInv
    <3> QED
      BY <1>1, <3>1, <3>2, LinksChange
  <2>3. CASE firsts'[m] = firsts[m] /\ mission[m].links = {}
    <3>1. PICK h \in Advancer : call[h].mission = m /\ (At(h, "link") \/ At(h, "save"))
      BY <1>1, <1>3, <2>3 DEF LinksInv
    <3>2. h \in Thread /\ call[h].todo # <<>>
      BY <1>1, <3>1 DEF At
    <3>3. CASE call'[h] = call[h]
      BY <3>1, <3>3 DEF At
    <3>4. CASE Steps(h)
      <4>1. CASE At(h, "link")
        <5>1. Link(h)
          BY <3>4, <4>1 DEF StoreStep, EditStep, CreateStep, AdvanceStep, ExecuteStep, Save,
             SaveFails, Tick, Derive, Sync, Receipt, Deadletter, Patch, Unlink, Replace, Find,
             Make, Decide, Operate, Acquire, StartTask, Release, Hold, Run, At
        <5>2. ToSave(h, [Mine(h) EXCEPT !.links = @ \cup {call[h].task}])
          BY <2>3, <3>1, <5>1 DEF Link, Mine
        <5>3. /\ Mine(h) \in MissionRecord /\ call[h].task \in Task /\ m \in Mission
          BY <3>2, <5>1, HeadIs, CallTyped DEF Link, Tasked
        <5> DEFINE r == [Mine(h) EXCEPT !.links = @ \cup {call[h].task}]
                   c == [NoCall EXCEPT !.mission = call[h].mission, !.copy = r]
        <5>4. r \in MissionRecord
          BY <5>3 DEF MissionRecord
        <5>5. c \in Call /\ c.mission = m
          BY <3>1, <3>2, <5>4, CallTyped, CallWith DEF NoCall
        <5>6. Proceed(h, c, <<"save">>)
          BY <5>2 DEF ToSave
        <5> HIDE DEF c
        <5>7. At(h, "save")' /\ call'[h].mission = m
          BY <1>1, <3>2, <5>5, <5>6, ProceedsTo DEF Step
        <5> QED
          BY <5>7
      <4>2. CASE At(h, "save")
        <5>1. Save(h)
          BY <1>1, <3>2, <3>4, <4>2 DEF StoreStep, EditStep, CreateStep, AdvanceStep, ExecuteStep,
             Tick, Derive, Link, Sync, Receipt, Deadletter, Patch, Unlink, Replace, Find,
             Make, Decide, Operate, Acquire, StartTask, Release, Hold, Run, At
        <5>2. mission'[m] = call[h].copy
          BY <3>1, <5>1 DEF Save, Write, MissionInv, TypeOK
        <5>3. call[h].copy.links # {}
          BY <1>1, <1>3, <2>3, <3>1, <3>2, <4>2 DEF LinksInv
        <5> QED
          BY <5>2, <5>3
      <4> QED
        BY <3>1, <4>1, <4>2
    <3>5. ASSUME NEW g \in Thread, g # h, Steps(g) PROVE call'[h] = call[h]
      BY <3>2, <3>5, OthersStay
    <3>6. ASSUME ~ \E g \in Thread : Steps(g) PROVE call'[h] = call[h]
      BY <3>2, <3>6, CallsStay, TroubleGrows
    <3> QED
      BY <3>2, <3>3, <3>4, <3>5, <3>6
  <2> QED
    BY <2>1, <2>2, <2>3
<1>4. ASSUME NEW g \in Advancer, ~At(g, "make") \/ At(g, "make")', NEW m \in Mission
      PROVE  firsts'[m] = firsts[m]
  BY <1>2, <1>4 DEF At
<1>5. ASSUME NEW g \in Thread, At(g, "save")', call'[g].copy.links = {}
      PROVE  g \in Advancer /\ firsts'[call'[g].mission] = 0
  <2>1. CASE call'[g] = call[g]
    <3>1. g \in Advancer /\ firsts[call[g].mission] = 0 /\ At(g, "save")
      BY <1>1, <1>5, <2>1 DEF LinksInv, At
    <3>2. ~At(g, "make") /\ call[g].mission \in Mission
      BY <3>1, CallTyped DEF At
    <3> QED
      BY <1>4, <2>1, <3>1, <3>2
  <2>2. CASE Steps(g)
    <3>1. At(g, "receipt") /\ Mine(g).links = {} /\ call'[g].mission = call[g].mission
      BY <1>1, <1>5, <2>2, EmptyCopyComes DEF CalmInv
    <3>2. /\ call[g].todo \in Seq(Step) /\ call[g].todo # <<>> /\ call[g].mission \in Mission
          /\ call[g].todo[1] = "receipt"
      BY <3>1, HeadIs, CallTyped
    <3>3. 1 \in 1..Len(call[g].todo) /\ call[g].todo[1] \in Advancing
      BY <3>2 DEF Advancing
    <3>4. g \in Advancer
      BY <1>1, <3>3 DEF CalmInv, Has
    <3>5. ~At(g, "make") /\ ~At(g, "link") /\ ~At(g, "save")
      BY <3>1 DEF At
    <3>6. firsts[call[g].mission] = 0
      BY <1>1, <3>1, <3>2, <3>4, <3>5 DEF LinksInv, Mine
    <3> QED
      BY <1>4, <3>1, <3>2, <3>4, <3>5, <3>6
  <2>3. ASSUME NEW h \in Thread, h # g, Steps(h) PROVE call'[g] = call[g]
    BY <2>3, OthersStay
  <2>4. ASSUME ~ \E h \in Thread : Steps(h) PROVE call'[g] = call[g]
    <3>1. ~Began(g) /\ call'[g] # NoCall
      BY <1>5, BeganAt DEF At, NoCall
    <3> QED
      BY <2>4, <3>1, BeginsAt
  <2> QED
    BY <2>1, <2>2, <2>3, <2>4
<1>6. ASSUME NEW g \in Thread, At(g, "make")', g \in Advancer
      PROVE  firsts'[call'[g].mission] = 0
  <2>1. CASE call'[g] = call[g]
    <3>1. firsts[call[g].mission] = 0 /\ At(g, "make")
      BY <1>1, <1>6, <2>1 DEF LinksInv, At
    <3>2. call[g].mission \in Mission
      BY <3>1, CallTyped DEF At
    <3> QED
      BY <1>4, <1>6, <2>1, <3>1, <3>2
  <2>2. CASE Steps(g)
    <3>1. /\ call'[g].mission = call[g].mission
          /\ \/ At(g, "find")
             \/ At(g, "decide") /\ Mine(g).links = {}
      BY <1>6, <2>2, MakeComes
    <3>2. At(g, "decide") /\ Mine(g).links = {}
      BY <1>6, <3>1 DEF DependInv
    <3>3. ~At(g, "link") /\ ~At(g, "save") /\ call[g].mission \in Mission
      BY <3>2, CallTyped DEF At
    <3>4. firsts[call[g].mission] = 0
      BY <1>1, <1>6, <3>2, <3>3 DEF LinksInv, Mine
    <3> QED
      BY <1>4, <1>6, <3>1, <3>3, <3>4
  <2>3. ASSUME NEW h \in Thread, h # g, Steps(h) PROVE call'[g] = call[g]
    BY <2>3, OthersStay
  <2>4. ASSUME ~ \E h \in Thread : Steps(h) PROVE call'[g] = call[g]
    <3>1. ~Began(g) /\ call'[g] # NoCall
      BY <1>6, BeganAt DEF At, NoCall
    <3> QED
      BY <2>4, <3>1, BeginsAt
  <2> QED
    BY <2>1, <2>2, <2>3, <2>4
<1>7. ASSUME NEW m \in Mission PROVE firsts'[m] <= 1
  BY <1>1, <1>2 DEF LinksInv
<1> QED
  BY <1>3, <1>5, <1>6, <1>7

\* An advance creates the first operation of a mission once, for any number of missions,
\* clerks and workers, as long as one thread advances and nothing is edited or fails.
THEOREM FirstOperationIsMadeOnce ==
  ASSUME \A g, h \in Advancer : g = h, Advancer \cap Clerk = {}
  PROVE  Spec => []FirstOperationOnce
<1>1. Init => DependInv /\ CalmInv /\ LinksInv
  BY DEF Init, DependInv, CalmInv, LinksInv, Has, At, NoCall
<1>2. MissionInv /\ DependInv /\ CalmInv /\ LinksInv /\ [Next]_vars
        => (DependInv /\ CalmInv /\ LinksInv)'
  BY DependStep, CalmStep, LinksStep
<1>3. LinksInv => FirstOperationOnce
  BY DEF LinksInv, FirstOperationOnce
<1> QED
  BY <1>1, <1>2, <1>3, MissionInvariant, PTL DEF Spec

-----------------------------------------------------------------------------
(* Completion. *)

\* What only the holder of the task's lock is to do, the execution itself, what may
\* come before it, and what the threads do that advance no missions.
Holding == {"start", "run", "release"}
Working == {"start", "run"}
Told    == {"sync", "save"}

Ordered(s) ==
    \A i, j \in 1..Len(s) : i < j =>
        /\ s[j] \in Holding => s[i] \in Told
        /\ s[j] = "hold" => s[i] = "release"

Plain(s) ==
    \/ s = <<>>
    \/ \E a \in Step \ {"tick", "decide", "operate", "acquire", "hold"} : s = <<a>>
    \/ \E a \in Told, b \in {"run", "release"} : s = <<a, b>>

ListInv ==
    \A h \in Thread : /\ Ordered(call[h].todo)
                      /\ h \notin Advancer => Plain(call[h].todo)

\* What keeps the lists like this.
Orderly(h, steps) ==
    /\ steps \in Seq(Step) /\ Ordered(steps)
    /\ call[h].todo[1] \in Told => steps \in {<<>>, <<"save">>}
    /\ call[h].todo[1] = "release" => steps = <<>>
    /\ h \notin Advancer => Plain(steps)

\* The lists that steps give are such.
LEMMA ListsAreOrdered ==
  /\ Ordered(<<>>) /\ \A s \in Step : Ordered(<<s>>)
  /\ \A s \in {"run", "release"} : Ordered(<<"sync", s>>)
  /\ Ordered(<<"release", "hold">>) /\ Ordered(<<"hold", "acquire">>)
  /\ \A s \in {"make", "operate"} : Ordered(<<s, "tick", "receipt">>)
BY DEF Ordered, Holding, Told

\* A list stays in order.
LEMMA OrderStays ==
  ASSUME NEW h \in Thread, NEW c, NEW steps, Took(h, c, steps), Orderly(h, steps),
         call[h].todo \in Seq(Step), call[h].todo # <<>>, Ordered(call[h].todo)
  PROVE  Ordered(call'[h].todo)
<1> DEFINE s == call[h].todo
           r == steps \o Tail(s)
<1>1. call'[h].todo \in {<<>>, r}
  BY DEF Took, Lists
<1>2. /\ r \in Seq(Step) /\ Len(r) = Len(steps) + Len(s) - 1 /\ Len(s) > 0
      /\ \A i \in 1..Len(r) : r[i] = IF i <= Len(steps) THEN steps[i] ELSE s[i - Len(steps) + 1]
      /\ Len(steps) \in Nat /\ Len(s) \in Nat
  BY Replaced DEF Orderly
<1>5. s \in Seq(Step) /\ Ordered(s)
  OBVIOUS
<1> HIDE DEF r, s
<1>3. ASSUME NEW i \in 1..Len(r), NEW j \in 1..Len(r), i < j
      PROVE  /\ r[j] \in Holding => r[i] \in Told
             /\ r[j] = "hold" => r[i] = "release"
  <2>1. CASE j <= Len(steps)
    <3>1. i \in 1..Len(steps) /\ j \in 1..Len(steps) /\ r[i] = steps[i] /\ r[j] = steps[j]
      BY <1>2, <1>3, <2>1
    <3> QED
      BY <1>3, <3>1 DEF Orderly, Ordered
  <2>2. CASE i > Len(steps)
    <3>1. /\ s[i - Len(steps) + 1] = r[i] /\ s[j - Len(steps) + 1] = r[j]
          /\ i - Len(steps) + 1 \in 1..Len(s) /\ j - Len(steps) + 1 \in 1..Len(s)
          /\ i - Len(steps) + 1 < j - Len(steps) + 1
      BY <1>2, <1>3, <2>2
    <3> QED
      BY <1>5, <3>1 DEF Ordered
  <2>3. CASE i <= Len(steps) /\ j > Len(steps)
    <3> DEFINE k == j - Len(steps) + 1
    <3>0. /\ i \in Nat /\ j \in Nat /\ 1 <= i /\ j <= Len(r)
          /\ Len(r) = Len(steps) + Len(s) - 1 /\ Len(steps) \in Nat /\ Len(s) \in Nat
          /\ i <= Len(steps) /\ j > Len(steps)
      BY <1>2, <1>3, <2>3
    <3>a. k \in 1..Len(s) /\ 1 \in 1..Len(s) /\ 1 < k
      BY <3>0
    <3>b. j \in 1..Len(r) /\ i \in 1..Len(r) /\ ~(j <= Len(steps))
      BY <1>3, <3>0
    <3>c. r[j] = IF j <= Len(steps) THEN steps[j] ELSE s[k]
      BY <1>2, <3>b, Zenon
    <3>d. r[i] = IF i <= Len(steps) THEN steps[i] ELSE s[i - Len(steps) + 1]
      BY <1>2, <3>b, Zenon
    <3>e. s[k] = r[j]
      BY <3>b, <3>c
    <3>f. steps[i] = r[i]
      BY <2>3, <3>d
    <3>1. s[k] = r[j] /\ steps[i] = r[i] /\ k \in 1..Len(s) /\ 1 \in 1..Len(s) /\ 1 < k
      BY <3>a, <3>e, <3>f
    <3>2. steps # <<>> /\ (steps = <<"save">> => steps[i] = "save")
      BY <1>2, <1>3, <2>3 DEF Orderly
    <3> HIDE DEF k
    <3>3. /\ s[k] \in Holding => s[1] \in Told
          /\ s[k] = "hold" => s[1] = "release"
      BY <1>5, <3>1 DEF Ordered
    <3> QED
      BY <3>1, <3>2, <3>3 DEF Orderly, Told, s
  <2> QED
    BY <1>2, <2>1, <2>2, <2>3
<1>4. Ordered(r)
  BY <1>3 DEF Ordered
<1> QED
  BY <1>1, <1>4, ListsAreOrdered

\* A plain list stays plain.
LEMMA PlainStays ==
  ASSUME NEW h \in Thread, NEW c, NEW steps, Took(h, c, steps), Orderly(h, steps),
         h \notin Advancer, call[h].todo # <<>>, Plain(call[h].todo)
  PROVE  Plain(call'[h].todo)
<1>1. call'[h].todo \in {<<>>, steps \o Tail(call[h].todo)}
  BY DEF Took, Lists
<1>2. CASE \E a \in Step \ {"tick", "decide", "operate", "acquire", "hold"} : call[h].todo = <<a>>
  <2>1. Tail(call[h].todo) = <<>>
    BY <1>2
  <2>2. steps \in Seq(Step) /\ Plain(steps)
    BY DEF Orderly
  <2>3. steps \o <<>> = steps
    BY <2>2
  <2> QED
    BY <1>1, <2>1, <2>2, <2>3 DEF Plain
<1>3. ASSUME NEW a \in Told, NEW b \in {"run", "release"}, call[h].todo = <<a, b>>
      PROVE  Plain(call'[h].todo)
  <2>1. Tail(call[h].todo) = <<b>> /\ call[h].todo[1] \in Told
    BY <1>3
  <2>2. steps \in {<<>>, <<"save">>}
    BY <2>1 DEF Orderly
  <2>3. <<>> \o <<b>> = <<b>> /\ <<"save">> \o <<b>> = <<"save", b>>
    <3>1. /\ <<b>> \in Seq(Step) /\ <<"save">> \in Seq(Step)
          /\ <<"save">> \o <<b>> \in Seq(Step) /\ <<"save", b>> \in Seq(Step)
      BY DEF Step
    <3>2. <<>> \o <<b>> = <<b>>
      BY <3>1
    <3>3. Len(<<"save">> \o <<b>>) = 2 /\ Len(<<"save", b>>) = 2
      BY <3>1
    <3>4. (<<"save">> \o <<b>>)[1] = "save" /\ (<<"save">> \o <<b>>)[2] = b
      BY <3>1
    <3>5. \A i \in 1..2 : (<<"save">> \o <<b>>)[i] = <<"save", b>>[i]
      BY <3>4
    <3> QED
      BY <3>1, <3>2, <3>3, <3>5, SeqEqual
  <2>4. Plain(<<>>) /\ Plain(<<b>>) /\ Plain(<<"save", b>>)
    <3>1. b \in Step \ {"tick", "decide", "operate", "acquire", "hold"} /\ "save" \in Told
      BY DEF Step, Told
    <3> QED
      BY <3>1 DEF Plain
  <2> QED
    BY <1>1, <2>1, <2>2, <2>3, <2>4
<1> QED
  BY <1>2, <1>3 DEF Plain

\* Every step of a call gives it such a list, or ends it.
LEMMA StepsAreOrderly ==
  ASSUME MissionInv, NEW h \in Thread,
         Ordered(call[h].todo), h \notin Advancer => Plain(call[h].todo),
         StoreStep(h) \/ EditStep(h) \/ CreateStep(h) \/ AdvanceStep(h) \/ ExecuteStep(h)
  PROVE  Ended(h) \/ \E c, steps : Took(h, c, steps) /\ Orderly(h, steps)
<1>1. call[h].todo \in Seq(Step) /\ call[h].todo # <<>>
  BY Moves, CallTyped
<1>2. ASSUME NEW step, At(h, step) PROVE call[h].todo[1] = step
  BY <1>2, HeadIs
<1>3. ASSUME h \notin Advancer
      PROVE  /\ call[h].todo[1] \notin {"tick", "decide", "operate", "acquire", "hold"}
             /\ call[h].todo[1] = "run" => Pooled(h)
  <2>1. CASE \E a \in Step \ {"tick", "decide", "operate", "acquire", "hold"} : call[h].todo = <<a>>
    BY <2>1 DEF Pooled
  <2>2. CASE \E a \in Told, b \in {"run", "release"} : call[h].todo = <<a, b>>
    BY <2>2 DEF Told
  <2> QED
    BY <1>1, <1>3, <2>1, <2>2 DEF Plain
<1>4. ASSUME NEW s \in Step \ {"tick", "decide", "operate", "acquire", "hold"}
      PROVE  Plain(<<s>>)
  BY <1>4 DEF Plain
<1>5. Plain(<<>>) /\ \A s \in {"run", "release"} : Plain(<<"sync", s>>)
  BY DEF Plain, Told
<1> DEFINE Steps == {<<>>, <<"save">>, <<"derive">>, <<"receipt">>, <<"patch">>, <<"make">>,
                     <<"link">>, <<"start">>, <<"release">>, <<"sync">>, <<"sync", "run">>,
                     <<"sync", "release">>}
<1>6. \A s \in Steps : s \in Seq(Step) /\ Ordered(s) /\ Plain(s)
  BY <1>4, <1>5, ListsFit, ListsAreOrdered DEF Step
<1>7. \A s \in {<<"acquire">>, <<"hold", "acquire">>, <<"release", "hold">>,
                <<"make", "tick", "receipt">>, <<"operate", "tick", "receipt">>} :
         s \in Seq(Step) /\ Ordered(s)
  BY ListsFit, ListsAreOrdered DEF Step
<1>8. Orderly(h, <<>>)
  BY <1>6 DEF Orderly
<1>9. ASSUME call[h].todo[1] \notin Told \cup {"release"}
      PROVE  /\ \A s \in Steps : Orderly(h, s)
             /\ h \in Advancer => /\ Orderly(h, <<"acquire">>)
                                  /\ Orderly(h, <<"hold", "acquire">>)
                                  /\ Orderly(h, <<"release", "hold">>)
                                  /\ Orderly(h, <<"make", "tick", "receipt">>)
                                  /\ Orderly(h, <<"operate", "tick", "receipt">>)
  BY <1>6, <1>7, <1>9 DEF Orderly
<1> HIDE DEF Steps
<1>10. /\ <<"save">> \in Steps /\ <<"derive">> \in Steps /\ <<"receipt">> \in Steps
       /\ <<"patch">> \in Steps /\ <<"make">> \in Steps /\ <<"link">> \in Steps
       /\ <<"start">> \in Steps /\ <<"release">> \in Steps /\ <<"sync">> \in Steps
       /\ <<"sync", "run">> \in Steps /\ <<"sync", "release">> \in Steps
  BY DEF Steps
<1>11. CASE Save(h) \/ SaveFails(h)
  BY <1>8, <1>11, SaveTakes
<1>12. CASE Tick(h)
  <2>1. call[h].todo[1] \notin Told \cup {"release"}
    BY <1>2, <1>12 DEF Tick, Told
  <2> QED
    BY <1>9, <1>10, <1>12, <2>1, TickTakes
<1>13. CASE Derive(h)
  <2>1. call[h].todo[1] \notin Told \cup {"release"}
    BY <1>2, <1>13 DEF Derive, Told
  <2> QED
    BY <1>8, <1>9, <1>10, <1>13, <2>1, DeriveTakes
<1>14. CASE Link(h)
  <2>1. call[h].todo[1] \notin Told \cup {"release"}
    BY <1>2, <1>14 DEF Link, Told
  <2> QED
    BY <1>8, <1>9, <1>10, <1>14, <2>1, LinkTakes
<1>15. CASE Sync(h)
  <2>1. call[h].todo[1] = "sync"
    BY <1>2, <1>15 DEF Sync
  <2>2. Orderly(h, <<"save">>)
    BY <1>6, <1>10, <2>1 DEF Orderly
  <2> QED
    BY <1>15, <2>2, SyncTakes
<1>16. CASE Receipt(h)
  <2>1. call[h].todo[1] \notin Told \cup {"release"}
    BY <1>2, <1>16 DEF Receipt, Told
  <2> QED
    BY <1>9, <1>10, <1>16, <2>1, ReceiptTakes
<1>17. CASE EditStep(h)
  <2>1. call[h].todo[1] \notin Told \cup {"release"}
    BY <1>2, <1>17 DEF EditStep, Deadletter, Patch, Unlink, Replace, Told
  <2> QED
    BY <1>9, <1>10, <1>17, <2>1, EditTakes, ReplaceTakes DEF EditStep
<1>18. CASE CreateStep(h)
  <2>1. call[h].todo[1] \notin Told \cup {"release"}
    BY <1>2, <1>18 DEF CreateStep, Find, Make, Told
  <2> QED
    BY <1>8, <1>9, <1>10, <1>18, <2>1, FindTakes, MakeTakes DEF CreateStep
<1>19. CASE Decide(h)
  <2>1. call[h].todo[1] \notin Told \cup {"release"} /\ h \in Advancer
    BY <1>2, <1>3, <1>19 DEF Decide, Told
  <2> QED
    BY <1>9, <1>10, <1>19, <2>1, DecideTakes
<1>20. CASE Operate(h)
  <2>1. call[h].todo[1] \notin Told \cup {"release"} /\ h \in Advancer
    BY <1>2, <1>3, <1>20 DEF Operate, Told
  <2> QED
    BY <1>8, <1>9, <1>20, <2>1, OperateTakes
<1>21. CASE Acquire(h)
  <2>1. call[h].todo[1] \notin Told \cup {"release"}
    BY <1>2, <1>21 DEF Acquire, Told
  <2> QED
    BY <1>8, <1>9, <1>10, <1>21, <2>1, AcquireTakes
<1>22. CASE StartTask(h)
  <2>1. call[h].todo[1] \notin Told \cup {"release"}
    BY <1>2, <1>22 DEF StartTask, Told
  <2> QED
    BY <1>9, <1>10, <1>22, <2>1, StartTakes
<1>23. ASSUME NEW x \in {"ok", "error", "held"}, Run(h, x)
       PROVE  \E c, steps : Took(h, c, steps) /\ Orderly(h, steps)
  <2>1. call[h].todo[1] = "run" /\ "run" \notin Told \cup {"release"}
    BY <1>2, <1>23 DEF Run, Told
  <2>2. ~Pooled(h) => h \in Advancer
    BY <1>3, <2>1
  <2> QED
    BY <1>9, <1>10, <1>23, <2>1, <2>2, RunTakes
<1>24. CASE Release(h)
  BY <1>8, <1>24, ReleaseTakes
<1>25. CASE Hold(h)
  <2>1. call[h].todo[1] \notin Told \cup {"release"}
    BY <1>2, <1>25 DEF Hold, Told
  <2> QED
    BY <1>9, <1>10, <1>25, <2>1, HoldTakes
<1> QED
  BY <1>11, <1>12, <1>13, <1>14, <1>15, <1>16, <1>17, <1>18, <1>19, <1>20, <1>21, <1>22, <1>23,
     <1>24, <1>25 DEF StoreStep, AdvanceStep, ExecuteStep

\* The list that a call begins with.
LEMMA BeganList ==
  ASSUME NEW g, Began(g)
  PROVE  /\ call'[g].todo \in {<<"derive", "decide">>, <<"derive">>, <<"find">>, <<"patch">>,
                               <<"deadletter">>, <<"unlink">>, <<"replace">>, <<"start">>}
         /\ call'[g].todo = <<"derive", "decide">> => g \in Advancer
<1>1. CASE g \in Advancer /\ \E n \in Mission : call'[g] =
             [NoCall EXCEPT !.todo = <<"derive", "decide">>, !.copy = mission[n], !.mission = n]
  BY <1>1 DEF NoCall
<1>2. CASE \E n \in Mission : call'[g] =
             [NoCall EXCEPT !.todo = <<"derive">>, !.copy = mission[n], !.mission = n]
  <2>1. call'[g].todo = <<"derive">>
    BY <1>2 DEF NoCall
  <2> QED
    BY <2>1
<1>3. CASE \E n \in Mission, k \in Key : call'[g] =
             [NoCall EXCEPT !.todo = <<"find">>, !.key = k, !.mission = n]
  <2>1. call'[g].todo = <<"find">>
    BY <1>3 DEF NoCall
  <2> QED
    BY <2>1
<1>4. CASE call'[g].todo \in {<<"patch">>, <<"deadletter">>, <<"unlink">>, <<"replace">>}
  BY <1>4
<1>5. CASE \E t \in Task : call'[g] =
             [NoCall EXCEPT !.todo = <<"start">>, !.mission = task[t].mission, !.task = t]
  <2>1. call'[g].todo = <<"start">>
    BY <1>5 DEF NoCall
  <2> QED
    BY <2>1
<1> QED
  BY <1>1, <1>2, <1>3, <1>4, <1>5, Zenon DEF Began

\* Every step keeps the lists in order.
LEMMA ListStep ==
  ASSUME MissionInv, ListInv, [Next]_vars
  PROVE  ListInv'
<1> SUFFICES ASSUME NEW g \in Thread
             PROVE  /\ Ordered(call'[g].todo)
                    /\ g \notin Advancer => Plain(call'[g].todo)
  BY DEF ListInv
<1>1. Ordered(<<>>) /\ Plain(<<>>) /\ NoCall.todo = <<>>
  BY ListsAreOrdered DEF Plain, NoCall
<1>2. CASE call'[g] = call[g]
  BY <1>2 DEF ListInv
<1>3. CASE call'[g] = NoCall
  BY <1>1, <1>3
<1>4. ASSUME NEW h \in Thread, g # h,
             StoreStep(h) \/ EditStep(h) \/ CreateStep(h) \/ AdvanceStep(h) \/ ExecuteStep(h)
      PROVE  call'[g] = call[g]
  BY <1>4, OthersStay
<1>5. CASE StoreStep(g) \/ EditStep(g) \/ CreateStep(g) \/ AdvanceStep(g) \/ ExecuteStep(g)
  <2>1. call[g].todo \in Seq(Step) /\ call[g].todo # <<>>
    BY <1>5, Moves, CallTyped
  <2>2. Ordered(call[g].todo) /\ (g \notin Advancer => Plain(call[g].todo))
    BY DEF ListInv
  <2>3. CASE Ended(g)
    BY <1>3, <2>3 DEF Ended
  <2>4. ASSUME NEW c, NEW steps, Took(g, c, steps), Orderly(g, steps)
        PROVE  Ordered(call'[g].todo) /\ (g \notin Advancer => Plain(call'[g].todo))
    BY <2>1, <2>2, <2>4, OrderStays, PlainStays
  <2> QED
    BY <1>5, <2>2, <2>3, <2>4, StepsAreOrderly
<1>6. CASE Began(g)
  <2>1. call'[g].todo \in {<<"derive", "decide">>, <<"derive">>, <<"find">>, <<"patch">>,
                           <<"deadletter">>, <<"unlink">>, <<"replace">>, <<"start">>}
        /\ (call'[g].todo = <<"derive", "decide">> => g \in Advancer)
    BY <1>6, BeganList
  <2>2. \A s \in {"derive", "find", "patch", "deadletter", "unlink", "replace", "start"} :
           Ordered(<<s>>) /\ Plain(<<s>>)
    BY ListsAreOrdered DEF Plain, Step
  <2>3. Ordered(<<"derive", "decide">>)
    BY DEF Ordered, Holding
  <2> QED
    BY <2>1, <2>2, <2>3
<1> QED
  BY <1>2, <1>3, <1>4, <1>5, <1>6, BeginsAt

\* Who is to do a step of an advance or of a run of an operation is an advancer.
LEMMA AdvancersOnly ==
  ASSUME MissionInv, ListInv, NEW h \in Thread,
         NEW step \in {"tick", "decide", "operate", "acquire", "hold"},
         At(h, step) \/ Has(h, {step})
  PROVE  h \in Advancer
<1> SUFFICES ASSUME h \notin Advancer PROVE FALSE
  OBVIOUS
<1>1. call[h].todo # <<>> /\ \E i \in 1..Len(call[h].todo) : call[h].todo[i] = step
  <2>1. call[h].todo \in Seq(Step)
    BY DEF MissionInv, TypeOK, Call
  <2>2. CASE At(h, step)
    <3>1. 1 \in 1..Len(call[h].todo) /\ call[h].todo[1] = step /\ call[h].todo # <<>>
      BY <2>1, <2>2 DEF At
    <3> QED
      BY <3>1
  <2>3. CASE Has(h, {step})
    BY <2>1, <2>3 DEF Has
  <2> QED
    BY <2>2, <2>3
<1>2. CASE \E a \in Step \ {"tick", "decide", "operate", "acquire", "hold"} : call[h].todo = <<a>>
  BY <1>1, <1>2
<1>3. CASE \E a \in Told, b \in {"run", "release"} : call[h].todo = <<a, b>>
  BY <1>1, <1>3 DEF Told
<1> QED
  BY <1>1, <1>2, <1>3 DEF ListInv, Plain

\* Who is to work on a task has one.
LEMMA HasTask ==
  ASSUME MissionInv, NEW h \in Thread, NEW X, X \subseteq Tasked, Has(h, X)
  PROVE  call[h].task \in Task
BY DEF MissionInv, Fits, Has

\* Who is at a step has it.
LEMMA AtHas ==
  ASSUME MissionInv, NEW h \in Thread, NEW step, At(h, step), NEW X, step \in X
  PROVE  Has(h, X)
<1>1. call[h].todo \in Seq(Step)
  BY DEF MissionInv, TypeOK, Call
<1>2. 1 \in 1..Len(call[h].todo) /\ call[h].todo[1] = step
  BY <1>1 DEF At
<1> QED
  BY <1>2 DEF Has

\* A call that is to work on its task later has kept it.
LEMMA TaskKept ==
  ASSUME NEW h \in Thread, NEW c, NEW steps, Took(h, c, steps),
         NEW X, X \subseteq Executing, Has(h, X)'
  PROVE  call'[h] = [c EXCEPT !.todo = call'[h].todo]
<1>1. PICK i \in 1..Len(call'[h].todo) : call'[h].todo[i] \in X
  BY DEF Has
<1>2. call'[h].todo \in Seq(Step) /\ Listed(call'[h].todo)
  BY DEF Took, Fits, Call
<1>3. call'[h].todo # <<>> /\ Head(call'[h].todo) = call'[h].todo[1] /\ 1 \in 1..Len(call'[h].todo)
  BY <1>1, <1>2
<1>4. call'[h].todo[1] \in Works
  <2>1. CASE i = 1
    BY <1>1, <2>1 DEF Works
  <2>2. CASE i # 1
    <3>1. 1 < i
      BY <1>1, <1>2, <2>2
    <3> QED
      BY <1>1, <1>2, <1>3, <3>1 DEF Listed
  <2> QED
    BY <2>1, <2>2
<1>5. Head(call'[h].todo) \notin {"tick", "decide", "receipt"}
  BY <1>3, <1>4 DEF Works, Executing
<1>6. call'[h] # NoCall
  BY <1>3 DEF NoCall
<1> QED
  BY <1>5, <1>6 DEF Took

\* What a list has of the holder's steps it was given, or it is being told.
LEMMA HoldingComes ==
  ASSUME NEW h \in Thread, NEW c, NEW steps, Took(h, c, steps),
         call[h].todo \in Seq(Step), Ordered(call[h].todo),
         NEW X \in {Holding, Working, {"hold"}}, Has(h, X)'
  PROVE  \/ \E j \in 1..Len(steps) : steps[j] \in X
         \/ /\ Has(h, X)
            /\ X \subseteq Holding => call[h].todo[1] \in Told
            /\ X = {"hold"} => call[h].todo[1] = "release"
<1>1. PICK i \in 1..Len(call'[h].todo) : call'[h].todo[i] \in X
  BY DEF Has
<1>2. CASE \E j \in 1..Len(steps) : call'[h].todo[i] = steps[j]
  BY <1>1, <1>2
<1>3. ASSUME NEW j \in 2..Len(call[h].todo), call'[h].todo[i] = call[h].todo[j]
      PROVE  /\ Has(h, X)
             /\ X \subseteq Holding => call[h].todo[1] \in Told
             /\ X = {"hold"} => call[h].todo[1] = "release"
  <2>1. j \in 1..Len(call[h].todo) /\ 1 \in 1..Len(call[h].todo) /\ 1 < j
    OBVIOUS
  <2> QED
    BY <1>1, <1>3, <2>1 DEF Has, Ordered
<1> QED
  BY <1>2, <1>3 DEF Took, Lists

\* Who is to do a holder's step was to do one before, or has just got the lock.
LEMMA HoldingStep ==
  ASSUME MissionInv, ListInv, NEW h \in Thread,
         StoreStep(h) \/ EditStep(h) \/ CreateStep(h) \/ AdvanceStep(h) \/ ExecuteStep(h),
         Has(h, Holding)'
  PROVE  /\ call'[h].task = call[h].task
         /\ \/ Acquire(h) /\ lock' = [lock EXCEPT ![call[h].task] = h]
            \/ Has(h, Holding) /\ lock' = lock
<1>1. /\ call[h].todo \in Seq(Step) /\ call[h].todo # <<>> /\ call[h] \in Call
      /\ Ordered(call[h].todo)
  BY Moves, CallTyped DEF ListInv
<1>2. ASSUME NEW step, At(h, step) PROVE call[h].todo[1] = step
  BY <1>2, HeadIs
<1> DEFINE Brings(steps) == \E j \in 1..Len(steps) : steps[j] \in Holding
<1>3. ASSUME NEW c, NEW steps, Took(h, c, steps)
      PROVE  /\ call'[h] = [c EXCEPT !.todo = call'[h].todo]
             /\ Brings(steps) \/ Has(h, Holding)
             /\ Brings(steps) \/ call[h].todo[1] \in Told
  <2>1. Holding \subseteq Executing
    BY DEF Holding, Executing
  <2> QED
    BY <1>1, <1>3, <2>1, TaskKept, HoldingComes
<1>4. /\ ~Brings(<<>>) /\ ~Brings(<<"save">>) /\ ~Brings(<<"derive">>) /\ ~Brings(<<"patch">>)
      /\ ~Brings(<<"make">>) /\ ~Brings(<<"link">>) /\ ~Brings(<<"acquire">>)
      /\ ~Brings(<<"sync">>) /\ ~Brings(<<"hold", "acquire">>) /\ ~Brings(<<"receipt">>)
      /\ ~Brings(<<"make", "tick", "receipt">>) /\ ~Brings(<<"operate", "tick", "receipt">>)
  BY DEF Holding
<1> HIDE DEF Brings
<1>5. ~Ended(h)
  BY DEF Ended, Has, NoCall
<1>7. CASE Save(h) \/ SaveFails(h)
  <2>1. Took(h, [call[h] EXCEPT !.copy = Blank], <<>>)
    BY <1>7, SaveTakes
  <2>2. call'[h] = [[call[h] EXCEPT !.copy = Blank] EXCEPT !.todo = call'[h].todo]
    BY <1>3, <2>1
  <2>3. call'[h].task = call[h].task
    BY <1>1, <2>2 DEF Call
  <2> QED
    BY <1>3, <1>4, <1>7, <2>1, <2>3 DEF Save, SaveFails
<1>8. CASE Sync(h)
  <2>1. PICK r : Took(h, [call[h] EXCEPT !.copy = r, !.says = Silent], <<"save">>)
    BY <1>8, SyncTakes
  <2>2. call'[h] = [[call[h] EXCEPT !.copy = r, !.says = Silent] EXCEPT !.todo = call'[h].todo]
    BY <1>3, <2>1
  <2>3. call'[h].task = call[h].task
    BY <1>1, <2>2 DEF Call
  <2> QED
    BY <1>3, <1>4, <1>8, <2>1, <2>3 DEF Sync
<1>9. ~Tick(h) /\ ~Derive(h) /\ ~Link(h) /\ ~Receipt(h)
  <2>1. Tick(h) \/ Derive(h) \/ Link(h) \/ Receipt(h) => call[h].todo[1] \notin Told
    BY <1>2 DEF Tick, Derive, Link, Receipt, Told
  <2> QED
    BY <1>3, <1>4, <2>1, TickTakes, DeriveTakes, LinkTakes, ReceiptTakes
<1>10. ~EditStep(h) /\ ~CreateStep(h)
  <2>1. EditStep(h) \/ CreateStep(h) => call[h].todo[1] \notin Told
    BY <1>2 DEF EditStep, CreateStep, Deadletter, Patch, Unlink, Replace, Find, Make, Told
  <2>2. ~EditStep(h)
    BY <1>3, <1>4, <1>5, <2>1, EditTakes, ReplaceTakes DEF EditStep
  <2>3. ~CreateStep(h)
    BY <1>3, <1>4, <1>5, <2>1, FindTakes, MakeTakes DEF CreateStep
  <2> QED
    BY <2>2, <2>3
<1>11. ~Decide(h) /\ ~Operate(h) /\ ~Release(h) /\ ~Hold(h)
  <2>1. Decide(h) \/ Operate(h) \/ Release(h) \/ Hold(h) => call[h].todo[1] \notin Told
    BY <1>2 DEF Decide, Operate, Release, Hold, Told
  <2> QED
    BY <1>3, <1>4, <1>5, <2>1, DecideTakes, OperateTakes, ReleaseTakes, HoldTakes
<1>12. CASE Acquire(h)
  <2>1. call[h].todo[1] \notin Told
    BY <1>2, <1>12 DEF Acquire, Told
  <2>2. /\ Took(h, call[h], <<"start">>)
        /\ lock' = [lock EXCEPT ![call[h].task] = h]
    BY <1>3, <1>4, <1>12, <2>1, AcquireTakes
  <2>3. call'[h] = [call[h] EXCEPT !.todo = call'[h].todo]
    BY <1>3, <2>2
  <2>4. call'[h].task = call[h].task
    BY <1>1, <2>3 DEF Call
  <2> QED
    BY <1>12, <2>2, <2>4
<1>13. CASE StartTask(h)
  <2>1. Has(h, Holding) /\ lock' = lock
    BY <1>13, AtHas DEF StartTask, Holding
  <2>2. \/ Took(h, call[h], <<"release">>)
        \/ \E q : Took(h, [call[h] EXCEPT !.says = q], <<"sync", "run">>)
    BY <1>13, StartTakes
  <2>3. \/ call'[h] = [call[h] EXCEPT !.todo = call'[h].todo]
        \/ \E q : call'[h] = [[call[h] EXCEPT !.says = q] EXCEPT !.todo = call'[h].todo]
    BY <1>3, <2>2
  <2>4. call'[h].task = call[h].task
    BY <1>1, <2>3 DEF Call
  <2> QED
    BY <2>1, <2>4
<1>14. ASSUME NEW x \in {"ok", "error", "held"}, Run(h, x)
       PROVE  call'[h].task = call[h].task /\ Has(h, Holding) /\ lock' = lock
  <2>1. Has(h, Holding) /\ lock' = lock
    BY <1>14, AtHas DEF Run, Holding
  <2>2. \/ \E steps : Took(h, call[h], steps)
        \/ \E q : Took(h, [call[h] EXCEPT !.says = q], <<"sync", "release">>)
    BY <1>14, RunTakes
  <2>3. \/ call'[h] = [call[h] EXCEPT !.todo = call'[h].todo]
        \/ \E q : call'[h] = [[call[h] EXCEPT !.says = q] EXCEPT !.todo = call'[h].todo]
    BY <1>3, <2>2
  <2>4. call'[h].task = call[h].task
    BY <1>1, <2>3 DEF Call
  <2> QED
    BY <2>1, <2>4
<1> QED
  BY <1>7, <1>8, <1>9, <1>10, <1>11, <1>12, <1>13, <1>14
  DEF StoreStep, AdvanceStep, ExecuteStep

\* How the lock of a task changes.
LEMMA LockChange ==
  ASSUME MissionInv, [Next]_vars, NEW t \in Task, lock'[t] # lock[t]
  PROVE  \/ lock[t] = NoThread
         \/ \E h \in Thread : Release(h) /\ call[h].task = t
         \/ Reclaim(t)
<1>1. lock \in [Task -> Thread \cup {NoThread}]
  BY DEF MissionInv, TypeOK
<1>2. ASSUME NEW s, Reclaim(s) PROVE s = t
  BY <1>1, <1>2 DEF Reclaim
<1>3. ASSUME NEW w, NEW s, Claim(w, s) PROVE lock[t] = NoThread
  BY <1>1, <1>3 DEF Claim
<1>4. ASSUME NEW h, Acquire(h) PROVE lock[t] = NoThread
  BY <1>1, <1>4 DEF Acquire
<1>5. ASSUME NEW h, Release(h) PROVE call[h].task = t
  BY <1>1, <1>5 DEF Release
<1>6. ASSUME NEW h \in Thread,
             StoreStep(h) \/ EditStep(h) \/ CreateStep(h) \/ AdvanceStep(h) \/ ExecuteStep(h)
      PROVE  Acquire(h) \/ Release(h)
  BY <1>6 DEF StoreStep, EditStep, CreateStep, AdvanceStep, ExecuteStep, Save, SaveFails, Tick,
      Derive, Link, Sync, Receipt, Deadletter, Patch, Unlink, Replace, Find, Make, Decide, Operate,
      StartTask, Hold, Run
<1> QED
  BY <1>2, <1>3, <1>4, <1>5, <1>6
  DEF Next, vars, CreateMission, TaskEdit, LoadTask, StoreTask, Advances, Ticks, Creates, Edits, Crash

\* Who begins with a holder's step has claimed a task.
LEMMA ClaimBegins ==
  ASSUME MissionInv, [Next]_vars,
         ~ \E h \in Thread : StoreStep(h) \/ EditStep(h) \/ CreateStep(h) \/ AdvanceStep(h)
                                \/ ExecuteStep(h),
         NEW g \in Thread, call'[g] # call[g], Has(g, Holding)'
  PROVE  \E t \in Task : /\ Claim(g, t) /\ lock'[t] = g
                         /\ call'[g].task = t
<1>1. call \in [Thread -> Call] /\ lock \in [Task -> Thread \cup {NoThread}]
  BY DEF MissionInv, TypeOK
<1>2. ASSUME NEW h, NEW c, Begin(h, c) PROVE g = h /\ call'[g] = c
  BY <1>1, <1>2 DEF Begin
<1>3. ASSUME call'[g].todo \in {<<>>, <<"derive", "decide">>, <<"derive">>, <<"find">>,
                                <<"patch">>, <<"deadletter">>, <<"unlink">>, <<"replace">>}
      PROVE  FALSE
  BY <1>3 DEF Has, Holding
<1>4. ASSUME NEW h, NEW m, Advances(h, m) \/ Ticks(h, m) PROVE FALSE
  <2>1. \/ call'[g] = [NoCall EXCEPT !.todo = <<"derive", "decide">>, !.copy = mission[m],
                                      !.mission = m]
        \/ call'[g] = [NoCall EXCEPT !.todo = <<"derive">>, !.copy = mission[m], !.mission = m]
    BY <1>2, <1>4 DEF Advances, Ticks, Request
  <2>2. call'[g].todo \in {<<"derive", "decide">>, <<"derive">>}
    BY <2>1 DEF NoCall
  <2> QED
    BY <1>3, <2>2
<1>6. ASSUME NEW h, NEW m, NEW k, Creates(h, m, k) PROVE FALSE
  <2>1. call'[g] = [NoCall EXCEPT !.todo = <<"find">>, !.key = k, !.mission = m]
    BY <1>2, <1>6 DEF Creates, Request
  <2>2. call'[g].todo = <<"find">>
    BY <2>1 DEF NoCall
  <2> QED
    BY <1>3, <2>2
<1>7. ASSUME NEW h, NEW m, Edits(h, m) PROVE FALSE
  <2>1. \/ \E s : call'[g] = [NoCall EXCEPT !.todo = <<"patch">>, !.want = s, !.mission = m]
        \/ call'[g] = [NoCall EXCEPT !.todo = <<"deadletter">>, !.want = "deadlettered",
                                     !.mission = m]
        \/ \E t : call'[g] = [NoCall EXCEPT !.todo = <<"unlink">>, !.task = t, !.mission = m]
        \/ call'[g] = [NoCall EXCEPT !.todo = <<"replace">>, !.mission = m]
    BY <1>2, <1>7 DEF Edits, Request
  <2>2. call'[g].todo \in {<<"patch">>, <<"deadletter">>, <<"unlink">>, <<"replace">>}
    BY <2>1 DEF NoCall
  <2> QED
    BY <1>3, <2>2
<1>8. ASSUME NEW dead \in Process, Crash(dead) PROVE FALSE
  BY <1>1, <1>3, <1>8, CrashTakes DEF NoCall
<1>9. ASSUME NEW w, NEW t \in Task, Claim(w, t)
      PROVE  Claim(g, t) /\ lock'[t] = g /\ call'[g].task = t
  <2>1. g = w /\ call'[g] = [NoCall EXCEPT !.todo = <<"start">>, !.mission = task[t].mission,
                                           !.task = t]
    BY <1>2, <1>9 DEF Claim
  <2>2. call'[g].task = t
    BY <2>1 DEF NoCall
  <2> QED
    BY <1>1, <1>9, <2>1, <2>2 DEF Claim
<1> QED
  BY <1>4, <1>6, <1>7, <1>8, <1>9 DEF Next, vars, CreateMission, TaskEdit, LoadTask, StoreTask, Reclaim

\* Who is to do a holder's step holds the lock of its task.
LockInv == \A h \in Thread : Has(h, Holding) => lock[call[h].task] = h

\* Every step keeps this.
LEMMA LockStep ==
  ASSUME MissionInv, ListInv, LockInv, [Next]_vars
  PROVE  LockInv'
<1> SUFFICES ASSUME NEW g \in Thread, Has(g, Holding)'
             PROVE  lock'[call'[g].task] = g
  BY DEF LockInv
<1> DEFINE Steps(h) == StoreStep(h) \/ EditStep(h) \/ CreateStep(h) \/ AdvanceStep(h)
                         \/ ExecuteStep(h)
<1>1. /\ lock \in [Task -> Thread \cup {NoThread}] /\ NoThread \notin Thread
      /\ Holding \subseteq Tasked
  BY MissionAssumption DEF MissionInv, TypeOK, Holding, Tasked, Executing
<1>2. CASE Steps(g)
  <2>1. /\ call'[g].task = call[g].task
        /\ \/ Acquire(g) /\ lock' = [lock EXCEPT ![call[g].task] = g]
           \/ Has(g, Holding) /\ lock' = lock
    BY <1>2, HoldingStep
  <2>2. CASE Has(g, Holding) /\ lock' = lock
    BY <2>1, <2>2 DEF LockInv
  <2>3. CASE Acquire(g) /\ lock' = [lock EXCEPT ![call[g].task] = g]
    <3>1. call[g].task \in Task
      BY <2>3, HeadIs, CallTyped DEF Acquire, Tasked, Executing
    <3> QED
      BY <1>1, <2>1, <2>3, <3>1
  <2> QED
    BY <2>1, <2>2, <2>3
<1>3. CASE ~Steps(g) /\ call'[g] = call[g]
  <2>1. Has(g, Holding)
    BY <1>3 DEF Has
  <2>2. lock[call[g].task] = g /\ call[g].task \in Task
    BY <1>1, <2>1, HasTask DEF LockInv
  <2>3. ASSUME NEW h \in Thread, Release(h), call[h].task = call[g].task
        PROVE  FALSE
    <3>1. Has(h, Holding)
      BY <2>3, AtHas DEF Release, Holding
    <3>2. h = g
      BY <2>2, <2>3, <3>1 DEF LockInv
    <3> QED
      BY <1>3, <2>3, <3>2 DEF ExecuteStep
  <2>4. ~Reclaim(call[g].task)
    BY <2>2 DEF Reclaim
  <2> QED
    BY <1>1, <1>3, <2>2, <2>3, <2>4, LockChange
<1>4. CASE ~Steps(g) /\ call'[g] # call[g]
  <2>1. ~ \E h \in Thread : Steps(h)
    BY <1>4, OthersStay
  <2> QED
    BY <1>4, <2>1, ClaimBegins
<1> QED
  BY <1>2, <1>3, <1>4

\* How a task changes.
LEMMA TaskChange ==
  ASSUME MissionInv, [Next]_vars, NEW t \in Task, task'[t] # task[t]
  PROVE  \/ ~Exists(t) /\ task'[t].status = "pending" /\ ~task'[t].held
         \/ t \in overwritten'
         \/ task[t].status \notin Over /\ task'[t] = [task[t] EXCEPT !.status = "cancelled"]
         \/ \E h \in Thread :
               /\ call[h].task = t
               /\ \/ StartTask(h) /\ task[t].status \notin {"complete", "failed"}
                  \/ \E x \in {"ok", "error", "held"} : Run(h, x)
                  \/ Hold(h)
<1>1. task \in [Task -> TaskRecord]
  BY DEF MissionInv, TypeOK
<1>2. ASSUME NEW h, NEW status, NEW held, SaveTask(h, status, held) PROVE call[h].task = t
  BY <1>1, <1>2 DEF SaveTask
<1>3. ASSUME NEW e \in Editor, TaskEdit(e)
      PROVE  t \in overwritten' \/ (task[t].status \notin Over /\ Exists(t) /\ task'[t] = [task[t] EXCEPT !.status = "cancelled"])
  <2>1. StoreTask(e) /\ edit[e].task = t /\ Loaded(edit[e])
    BY <1>1, <1>3 DEF TaskEdit, LoadTask, StoreTask, MissionInv, FilesInv
  <2>2. CASE task[t].status = edit[e].status /\ task[t].held = edit[e].held
    <3>1. task[t] \in TaskRecord
      BY <1>1
    <3>2. task'[t] = [task[t] EXCEPT !.status = IF edit[e].cancels THEN "cancelled" ELSE edit[e].status,
                                    !.held = edit[e].held]
      BY <1>1, <2>1 DEF StoreTask
    <3>3. CASE ~edit[e].cancels
      <4>1. \A r \in TaskRecord : [r EXCEPT !.status = r.status, !.held = r.held] = r
        BY DEF TaskRecord
      <4>2. task'[t] = [task[t] EXCEPT !.status = task[t].status, !.held = task[t].held]
        BY <2>2, <3>2, <3>3
      <4> QED
        BY <3>1, <4>1, <4>2
    <3>4. CASE edit[e].cancels
      <4>1. task'[t] = [task[t] EXCEPT !.status = "cancelled"]
        BY <2>2, <3>1, <3>2, <3>4 DEF TaskRecord
      <4> QED
        BY <2>1, <2>2, <3>4, <4>1 DEF Loaded, Exists
    <3> QED
      BY <3>3, <3>4
  <2>3. CASE ~(task[t].status = edit[e].status /\ task[t].held = edit[e].held)
    BY <2>1, <2>3 DEF StoreTask
  <2> QED
    BY <2>2, <2>3
<1>4. ASSUME NEW h \in Thread, Make(h)
      PROVE  ~Exists(t) /\ task'[t].status = "pending" /\ ~task'[t].held
  <2>1. PICK q, r : /\ q \in Task
                    /\ ~Exists(q) /\ r.status = "pending" /\ ~r.held
                    /\ task' = [task EXCEPT ![q] = r]
    BY <1>4 DEF Make
  <2> QED
    BY <1>1, <2>1
<1>6. ASSUME NEW h \in Thread, StartTask(h)
      PROVE  call[h].task = t /\ task[t].status \notin {"complete", "failed"}
  BY <1>2, <1>6 DEF StartTask
<1>7. ASSUME NEW h \in Thread, NEW x \in {"ok", "error", "held"}, Run(h, x)
      PROVE  call[h].task = t
  BY <1>2, <1>7 DEF Run
<1>8. ASSUME NEW h \in Thread, Hold(h) PROVE call[h].task = t
  BY <1>2, <1>8 DEF Hold
<1>9. ASSUME NEW h \in Thread,
             StoreStep(h) \/ EditStep(h) \/ CreateStep(h) \/ AdvanceStep(h) \/ ExecuteStep(h)
      PROVE  \/ Make(h) \/ StartTask(h) \/ Hold(h)
             \/ \E x \in {"ok", "error", "held"} : Run(h, x)
  BY <1>9 DEF StoreStep, EditStep, CreateStep, AdvanceStep, ExecuteStep, Save, SaveFails, Tick,
      Derive, Link, Sync, Receipt, Deadletter, Patch, Unlink, Replace, Find, Decide, Operate,
      Acquire, Release
<1>10. (\E e \in Editor : TaskEdit(e)) \/ \E h \in Thread :
          StoreStep(h) \/ EditStep(h) \/ CreateStep(h) \/ AdvanceStep(h) \/ ExecuteStep(h)
  BY DEF Next, vars, CreateMission, Reclaim, Advances, Ticks, Creates, Edits, Claim, Crash
<1> QED
  BY <1>3, <1>4, <1>6, <1>7, <1>8, <1>9, <1>10

\* What governance holds is not pending, and not complete.
HeldInv ==
    /\ \A t \in Task : task[t].held => task[t].status \notin {"pending", "complete"}
    /\ \A e \in Editor : edit[e].held => edit[e].status \notin {"pending", "complete"}

\* Every step keeps this.
LEMMA HeldStep ==
  ASSUME MissionInv, HeldInv, [Next]_vars
  PROVE  HeldInv'
<1>1. /\ task \in [Task -> TaskRecord] /\ edit \in [Editor -> Edit]
  BY DEF MissionInv, TypeOK
<1>2. ASSUME NEW h \in Thread, NEW status, NEW held, SaveTask(h, status, held),
             held => status \notin {"pending", "complete"}, NEW t \in Task
      PROVE  task'[t].held => task'[t].status \notin {"pending", "complete"}
  BY <1>1, <1>2 DEF SaveTask, HeldInv, TaskRecord
<1>3. ASSUME NEW h \in Thread, NEW t \in Task,
             StoreStep(h) \/ EditStep(h) \/ CreateStep(h) \/ AdvanceStep(h) \/ ExecuteStep(h)
      PROVE  task'[t].held => task'[t].status \notin {"pending", "complete"}
  <2>1. CASE task' = task
    BY <2>1 DEF HeldInv
  <2>2. CASE Make(h)
    <3>1. CASE task' = task
      BY <3>1 DEF HeldInv
    <3>2. ASSUME NEW q \in Task, NEW r, ~r.held, task' = [task EXCEPT ![q] = r]
          PROVE  task'[t].held => task'[t].status \notin {"pending", "complete"}
      BY <1>1, <3>2 DEF HeldInv
    <3>3. task' = task \/ \E q \in Task : \E r : ~r.held /\ task' = [task EXCEPT ![q] = r]
      BY <2>2 DEF Make
    <3> QED
      BY <3>1, <3>2, <3>3
  <2>3. CASE StartTask(h)
    <3>1. CASE task' = task
      BY <3>1 DEF HeldInv
    <3>2. ASSUME NEW s \in {"failed", "running"}, NEW held, SaveTask(h, s, held)
          PROVE  task'[t].held => task'[t].status \notin {"pending", "complete"}
      BY <1>2, <3>2
    <3> QED
      BY <2>3, <3>1, <3>2 DEF StartTask
  <2>4. CASE Hold(h)
    BY <1>2, <2>4 DEF Hold
  <2>5. ASSUME NEW x \in {"ok", "error", "held"}, Run(h, x)
        PROVE  task'[t].held => task'[t].status \notin {"pending", "complete"}
    <3>1. PICK s : SaveTask(h, s, x = "held") /\ (x = "held" => s = "failed")
      BY <2>5 DEF Run
    <3> QED
      BY <1>2, <3>1
  <2>6. \/ task' = task \/ Make(h) \/ StartTask(h) \/ Hold(h)
        \/ \E x \in {"ok", "error", "held"} : Run(h, x)
    BY <1>3 DEF StoreStep, EditStep, CreateStep, AdvanceStep, ExecuteStep, Save, SaveFails,
       Tick, Derive, Link, Sync, Receipt, Deadletter, Patch, Unlink, Replace, Find, Decide,
       Operate, Acquire, Release
  <2> QED
    BY <2>1, <2>2, <2>3, <2>4, <2>5, <2>6
<1>4. ASSUME NEW h \in Thread,
             StoreStep(h) \/ EditStep(h) \/ CreateStep(h) \/ AdvanceStep(h) \/ ExecuteStep(h)
      PROVE  edit' = edit
  BY <1>4 DEF StoreStep, EditStep, CreateStep, AdvanceStep, ExecuteStep, Save, SaveFails, Tick,
     Derive, Link, Sync, Receipt, Deadletter, Patch, Unlink, Replace, Find, Make, Decide, Operate,
     Acquire, StartTask, Release, Hold, Run
<1>5. ASSUME NEW e \in Editor, TaskEdit(e) PROVE HeldInv'
  <2>1. ASSUME NEW t \in Task, NEW cancels, LoadTask(e, t, cancels) PROVE HeldInv'
    BY <1>1, <2>1 DEF LoadTask, HeldInv
  <2>2. CASE StoreTask(e)
    <3>1. edit' = [edit EXCEPT ![e] = NoEdit] /\ edit[e].held \in BOOLEAN
      BY <1>1, <2>2 DEF StoreTask, Edit
    <3>2. ASSUME NEW t \in Task
          PROVE  task'[t].held => task'[t].status \notin {"pending", "complete"}
      <4> DEFINE s == IF edit[e].cancels THEN "cancelled" ELSE edit[e].status
      <4>1. edit[e].held => s \notin {"pending", "complete"}
        BY DEF HeldInv
      <4>2. task' = [task EXCEPT ![edit[e].task].status = s, ![edit[e].task].held = edit[e].held]
        BY <2>2 DEF StoreTask
      <4> HIDE DEF s
      <4> QED
        BY <1>1, <4>1, <4>2 DEF HeldInv, TaskRecord
    <3> QED
      BY <1>1, <3>1, <3>2 DEF HeldInv, NoEdit
  <2> QED
    BY <1>5, <2>1, <2>2 DEF TaskEdit
<1>6. CASE UNCHANGED <<task, edit>>
  BY <1>6 DEF HeldInv
<1> QED
  BY <1>3, <1>4, <1>5, <1>6
  DEF HeldInv, Next, vars, CreateMission, Reclaim, Advances, Ticks, Creates, Edits, Claim, Crash

\* A task that an edit overwrote stays one.
LEMMA OverwrittenGrows ==
  ASSUME [Next]_vars
  PROVE  overwritten \subseteq overwritten'
BY DEF Next, vars, ghosts, CreateMission, TaskEdit, LoadTask, StoreTask, Reclaim, StoreStep,
   EditStep, CreateStep, AdvanceStep, ExecuteStep, Save, SaveFails, Tick, Derive, Link, Sync,
   Receipt, Deadletter, Patch, Unlink, Replace, Find, Make, Decide, Operate, Acquire, StartTask,
   Release, Hold, Run, Advances, Ticks, Creates, Edits, Claim, Crash

\* What a pool executes, governance has not held, but where an edit overwrote the task.
ExecInv ==
    \A g \in Thread \ Advancer :
        Has(g, Working) /\ call[g].task \notin overwritten => ~task[call[g].task].held

\* What governance held stays ended until it is accepted again: nobody else is to
\* execute the task.  (Again but where an edit overwrote it.)
HoldInv ==
    \A h \in Thread : Has(h, {"hold"}) /\ call[h].task \notin overwritten =>
        /\ task[call[h].task].status \in {"failed", "cancelled"}
        /\ \A g \in Thread \ {h} : Has(g, Working) => call[g].task # call[h].task

\* Who is to execute a task was to do so before, or has just got the lock.
LEMMA WorkingComes ==
  ASSUME MissionInv, ListInv, NEW h \in Thread,
         StoreStep(h) \/ EditStep(h) \/ CreateStep(h) \/ AdvanceStep(h) \/ ExecuteStep(h),
         Has(h, Working)'
  PROVE  /\ call'[h].task = call[h].task
         /\ \/ Acquire(h)
            \/ Has(h, Working) /\ ~ \E x \in {"ok", "error", "held"} : Run(h, x)
<1>1. /\ call[h].todo \in Seq(Step) /\ call[h].todo # <<>> /\ Ordered(call[h].todo)
  BY Moves, CallTyped DEF ListInv
<1>2. ASSUME NEW step, At(h, step) PROVE call[h].todo[1] = step
  BY <1>2, HeadIs
<1>3. call'[h].task = call[h].task
  <2>1. Has(h, Holding)'
    BY DEF Has, Working, Holding
  <2> QED
    BY <2>1, HoldingStep
<1> DEFINE Brings(steps) == \E j \in 1..Len(steps) : steps[j] \in Working
<1>4. ASSUME NEW c, NEW steps, Took(h, c, steps)
      PROVE  Brings(steps) \/ (Has(h, Working) /\ call[h].todo[1] \in Told)
  <2>1. Working \subseteq Holding
    BY DEF Working, Holding
  <2> QED
    BY <1>1, <1>4, <2>1, HoldingComes
<1>5. /\ ~Brings(<<>>) /\ ~Brings(<<"save">>) /\ ~Brings(<<"derive">>) /\ ~Brings(<<"patch">>)
      /\ ~Brings(<<"make">>) /\ ~Brings(<<"link">>) /\ ~Brings(<<"acquire">>)
      /\ ~Brings(<<"sync">>) /\ ~Brings(<<"hold", "acquire">>) /\ ~Brings(<<"receipt">>)
      /\ ~Brings(<<"release">>) /\ ~Brings(<<"sync", "release">>) /\ ~Brings(<<"release", "hold">>)
      /\ ~Brings(<<"make", "tick", "receipt">>) /\ ~Brings(<<"operate", "tick", "receipt">>)
  BY DEF Working
<1> HIDE DEF Brings
<1>6. ~Ended(h)
  BY DEF Ended, Has, NoCall
<1>7. CASE StoreStep(h)
  <2>1. Has(h, Working)
    BY <1>4, <1>5, <1>7, SaveTakes, TickTakes, DeriveTakes, LinkTakes, SyncTakes, ReceiptTakes
    DEF StoreStep
  <2>2. ASSUME NEW x, Run(h, x) PROVE FALSE
    BY <1>7, <2>2 DEF StoreStep, Save, SaveFails, Tick, Derive, Link, Sync, Receipt, Run, At
  <2> QED
    BY <1>3, <2>1, <2>2
<1>8. ~EditStep(h) /\ ~CreateStep(h)
  <2>1. EditStep(h) \/ CreateStep(h) => call[h].todo[1] \notin Told
    BY <1>2 DEF EditStep, CreateStep, Deadletter, Patch, Unlink, Replace, Find, Make, Told
  <2>2. ~EditStep(h)
    BY <1>4, <1>5, <1>6, <2>1, EditTakes, ReplaceTakes DEF EditStep
  <2>3. ~CreateStep(h)
    BY <1>4, <1>5, <1>6, <2>1, FindTakes, MakeTakes DEF CreateStep
  <2> QED
    BY <2>2, <2>3
<1>9. ~Decide(h) /\ ~Operate(h) /\ ~Release(h) /\ ~Hold(h)
  <2>1. Decide(h) \/ Operate(h) \/ Release(h) \/ Hold(h) => call[h].todo[1] \notin Told
    BY <1>2 DEF Decide, Operate, Release, Hold, Told
  <2> QED
    BY <1>4, <1>5, <1>6, <2>1, DecideTakes, OperateTakes, ReleaseTakes, HoldTakes
<1>10. CASE StartTask(h)
  <2>1. Has(h, Working)
    BY <1>10, AtHas DEF StartTask, Working
  <2>2. ASSUME NEW x, Run(h, x) PROVE FALSE
    BY <1>10, <2>2 DEF StartTask, Run, At
  <2> QED
    BY <1>3, <2>1, <2>2
<1>11. ASSUME NEW x \in {"ok", "error", "held"}, Run(h, x) PROVE FALSE
  <2>1. call[h].todo[1] \notin Told
    BY <1>2, <1>11 DEF Run, Told
  <2> QED
    BY <1>4, <1>5, <1>11, <2>1, RunTakes
<1> QED
  BY <1>3, <1>7, <1>8, <1>9, <1>10, <1>11 DEF AdvanceStep, ExecuteStep

\* Who is to accept a task again has just found it held, run it, or released its lock.
LEMMA HoldComes ==
  ASSUME MissionInv, ListInv, NEW h \in Thread,
         StoreStep(h) \/ EditStep(h) \/ CreateStep(h) \/ AdvanceStep(h) \/ ExecuteStep(h),
         Has(h, {"hold"})'
  PROVE  /\ call'[h].task = call[h].task
         /\ \/ Run(h, "held")
            \/ Release(h) /\ Has(h, {"hold"})
            \/ /\ Operate(h) /\ task' = task
               /\ task[call[h].task].status \in Over /\ task[call[h].task].held
<1>1. /\ call[h].todo \in Seq(Step) /\ call[h].todo # <<>> /\ call[h] \in Call
      /\ Ordered(call[h].todo)
  BY Moves, CallTyped DEF ListInv
<1>2. ASSUME NEW step, At(h, step) PROVE call[h].todo[1] = step
  BY <1>2, HeadIs
<1> DEFINE Brings(steps) == \E j \in 1..Len(steps) : steps[j] \in {"hold"}
<1>3. ASSUME NEW c, NEW steps, Took(h, c, steps)
      PROVE  /\ call'[h] = [c EXCEPT !.todo = call'[h].todo]
             /\ Brings(steps) \/ Has(h, {"hold"})
             /\ Brings(steps) \/ call[h].todo[1] = "release"
  <2>1. {"hold"} \subseteq Executing /\ {"hold"} \in {Holding, Working, {"hold"}}
    BY DEF Holding, Executing
  <2> QED
    BY <1>1, <1>3, <2>1, TaskKept, HoldingComes
<1>4. /\ ~Brings(<<>>) /\ ~Brings(<<"save">>) /\ ~Brings(<<"derive">>) /\ ~Brings(<<"patch">>)
      /\ ~Brings(<<"make">>) /\ ~Brings(<<"link">>) /\ ~Brings(<<"acquire">>)
      /\ ~Brings(<<"start">>) /\ ~Brings(<<"release">>) /\ ~Brings(<<"sync">>)
      /\ ~Brings(<<"sync", "run">>)
      /\ ~Brings(<<"sync", "release">>) /\ ~Brings(<<"receipt">>)
      /\ ~Brings(<<"make", "tick", "receipt">>) /\ ~Brings(<<"operate", "tick", "receipt">>)
  OBVIOUS
<1> HIDE DEF Brings
<1>5. ~Ended(h)
  BY DEF Ended, Has, NoCall
<1>6. CASE Release(h)
  <2>1. Took(h, call[h], <<>>)
    BY <1>6, ReleaseTakes
  <2>2. call'[h] = [call[h] EXCEPT !.todo = call'[h].todo] /\ Has(h, {"hold"})
    BY <1>3, <1>4, <2>1
  <2> QED
    BY <1>1, <1>6, <2>2 DEF Call
<1>7. ASSUME NEW x \in {"ok", "error", "held"}, Run(h, x)
      PROVE  x = "held" /\ call'[h].task = call[h].task
  <2>1. call[h].todo[1] # "release"
    BY <1>2, <1>7 DEF Run
  <2>2. x = "held" /\ Took(h, call[h], <<"release", "hold">>)
    BY <1>3, <1>4, <1>7, <2>1, RunTakes
  <2>3. call'[h] = [call[h] EXCEPT !.todo = call'[h].todo]
    BY <1>3, <2>2
  <2> QED
    BY <1>1, <2>2, <2>3 DEF Call
<1>8. ~StoreStep(h)
  <2>1. /\ Save(h) \/ SaveFails(h) => call[h].todo[1] # "release"
        /\ Tick(h) \/ Derive(h) => call[h].todo[1] # "release"
        /\ Link(h) \/ Sync(h) \/ Receipt(h) => call[h].todo[1] # "release"
    BY <1>2 DEF Save, SaveFails, Tick, Derive, Link, Sync, Receipt
  <2>2. ASSUME NEW c, call[h].todo[1] # "release"
        PROVE  ~Took(h, c, <<>>) /\ ~Took(h, c, <<"save">>) /\ ~Took(h, c, <<"derive">>)
    BY <1>3, <1>4, <2>2
  <2>3. ~Save(h) /\ ~SaveFails(h)
    BY <2>1, <2>2, SaveTakes
  <2>4. ~Tick(h) /\ ~Derive(h)
    BY <2>1, <2>2, TickTakes, DeriveTakes
  <2>5. ~Link(h) /\ ~Sync(h) /\ ~Receipt(h)
    BY <2>1, <2>2, LinkTakes, SyncTakes, ReceiptTakes
  <2> QED
    BY <2>3, <2>4, <2>5 DEF StoreStep
<1>9. ~EditStep(h)
  <2>1. EditStep(h) => call[h].todo[1] # "release"
    BY <1>2 DEF EditStep, Deadletter, Patch, Unlink, Replace
  <2> QED
    BY <1>3, <1>4, <1>5, <2>1, EditTakes, ReplaceTakes DEF EditStep
<1>10. ~CreateStep(h)
  <2>1. CreateStep(h) => call[h].todo[1] # "release"
    BY <1>2 DEF CreateStep, Find, Make
  <2> QED
    BY <1>3, <1>4, <1>5, <2>1, FindTakes, MakeTakes DEF CreateStep
<1>11. CASE AdvanceStep(h)
  <2>1. AdvanceStep(h) => call[h].todo[1] # "release"
    BY <1>2 DEF AdvanceStep, Decide, Operate, Acquire
  <2>2. ~Decide(h)
    <3>1. Decide(h) => call[h].todo[1] # "release"
      BY <2>1 DEF AdvanceStep
    <3> QED
      BY <1>3, <1>4, <1>5, <3>1, DecideTakes
  <2>3. CASE Operate(h)
    <3>1. /\ task[call[h].task].status \in Over /\ task[call[h].task].held /\ task' = task
          /\ Took(h, call[h], <<"hold", "acquire">>)
      BY <1>3, <1>4, <1>11, <2>1, <2>3, OperateTakes
    <3>2. call'[h] = [call[h] EXCEPT !.todo = call'[h].todo]
      BY <1>3, <3>1
    <3> QED
      BY <1>1, <2>3, <3>1, <3>2 DEF Call
  <2>4. ~Acquire(h)
    BY <1>3, <1>4, <2>1, AcquireTakes DEF AdvanceStep
  <2> QED
    BY <1>11, <2>2, <2>3, <2>4 DEF AdvanceStep
<1>12. ~StartTask(h) /\ ~Hold(h)
  <2>1. StartTask(h) \/ Hold(h) => call[h].todo[1] # "release"
    BY <1>2 DEF StartTask, Hold
  <2> QED
    BY <1>3, <1>4, <2>1, StartTakes, HoldTakes
<1> QED
  BY <1>6, <1>7, <1>8, <1>9, <1>10, <1>11, <1>12 DEF ExecuteStep

\* With one advancer, every step keeps the second one ...
LEMMA HoldStep ==
  ASSUME \A g, h \in Advancer : g = h, MissionInv, ListInv, LockInv, HeldInv, ExecInv, HoldInv,
         [Next]_vars
  PROVE  HoldInv'
<1> SUFFICES ASSUME NEW g \in Thread, Has(g, {"hold"})', call'[g].task \notin overwritten'
             PROVE  /\ task'[call'[g].task].status \in {"failed", "cancelled"}
                    /\ \A h \in Thread \ {g} : Has(h, Working)' => call'[h].task # call'[g].task
  BY DEF HoldInv
<1> DEFINE Steps(h) == StoreStep(h) \/ EditStep(h) \/ CreateStep(h) \/ AdvanceStep(h)
                         \/ ExecuteStep(h)
<1>1. /\ task \in [Task -> TaskRecord] /\ {"hold"} \subseteq Tasked /\ Working \subseteq Holding
      /\ overwritten \subseteq overwritten'
  BY OverwrittenGrows DEF MissionInv, TypeOK, Working, Holding, Tasked, Executing
<1>2. CASE Steps(g)
  <2>1. \A h \in Thread \ {g} : call'[h] = call[h] /\ (Has(h, Working)' => Has(h, Working))
    BY <1>2, OthersStay DEF Has
  <2>2. call'[g].task = call[g].task /\ call[g].task \notin overwritten
    BY <1>1, <1>2, HoldComes
  <2>3. CASE Release(g) /\ Has(g, {"hold"})
    BY <2>1, <2>2, <2>3 DEF HoldInv, Release
  <2>4. CASE Run(g, "held")
    <3>1. At(g, "run") /\ SaveTask(g, "failed", TRUE)
      BY <2>4 DEF Run
    <3>2. call[g].task \in Task /\ Has(g, Holding)
      BY <3>1, HeadIs, CallTyped, AtHas DEF Tasked, Executing, Holding
    <3>3. task'[call[g].task].status = "failed"
      BY <1>1, <3>1, <3>2 DEF SaveTask, TaskRecord
    <3>4. \A h \in Thread \ {g} : Has(h, Working) => call[h].task # call[g].task
      BY <1>1, <3>2 DEF LockInv, Has
    <3> QED
      BY <2>1, <2>2, <3>3, <3>4
  <2>5. CASE /\ Operate(g) /\ task' = task
             /\ task[call[g].task].status \in Over /\ task[call[g].task].held
    <3>1. call[g].task \in Task /\ g \in Advancer
      BY <2>5, HeadIs, CallTyped, AdvancersOnly DEF Operate, Tasked, Executing
    <3>2. task[call[g].task].status \in {"failed", "cancelled"}
      BY <2>5, <3>1 DEF HeldInv, Over
    <3>3. \A h \in Thread \ {g} : Has(h, Working) => call[h].task # call[g].task
      BY <2>2, <2>5, <3>1 DEF ExecInv
    <3> QED
      BY <2>1, <2>2, <2>5, <3>2, <3>3
  <2> QED
    BY <1>2, <2>3, <2>4, <2>5, HoldComes
<1>3. CASE ~Steps(g)
  <2>1. call'[g] = call[g]
    <3>1. ASSUME call'[g] = NoCall \/ Began(g) PROVE FALSE
      <4>1. call'[g].todo \in {<<>>, <<"derive", "decide">>, <<"derive">>, <<"find">>,
                               <<"patch">>, <<"deadletter">>, <<"unlink">>, <<"replace">>,
                               <<"start">>}
        BY <3>1, BeganList DEF NoCall
      <4> QED
        BY <4>1 DEF Has
    <3>2. ASSUME NEW h \in Thread, Steps(h) PROVE call'[g] = call[g]
      BY <1>3, <3>2, OthersStay
    <3> QED
      BY <3>1, <3>2, BeginsAt
  <2>2. /\ Has(g, {"hold"}) /\ g \in Advancer /\ call[g].task \in Task
        /\ call[g].task \notin overwritten
        /\ task[call[g].task].status \in {"failed", "cancelled"}
    <3>1. Has(g, {"hold"}) /\ call[g].task \notin overwritten
      BY <1>1, <2>1 DEF Has
    <3> QED
      BY <1>1, <3>1, AdvancersOnly, HasTask DEF HoldInv
  <2>3. ASSUME NEW h \in Thread, Steps(h)
        PROVE  h \notin Advancer /\ h # g
    BY <1>3, <2>2, <2>3
  <2>4. task'[call[g].task].status \in {"failed", "cancelled"}
    <3>1. ASSUME NEW h \in Thread, call[h].task = call[g].task,
                 Hold(h) \/ StartTask(h) \/ \E x \in {"ok", "error", "held"} : Run(h, x)
          PROVE  FALSE
      <4>1. Steps(h)
        BY <3>1 DEF ExecuteStep
      <4>2. ~Hold(h)
        BY <2>3, <4>1, AdvancersOnly DEF Hold
      <4>3. Has(h, Working)
        <5>1. At(h, "start") \/ At(h, "run")
          BY <3>1, <4>2 DEF StartTask, Run
        <5> QED
          BY <5>1, AtHas DEF Working
      <4> QED
        BY <2>2, <2>3, <3>1, <4>1, <4>3 DEF HoldInv
    <3>2. call[g].task \notin overwritten'
      BY <2>1
    <3> QED
      BY <2>2, <3>1, <3>2, TaskChange DEF Exists, Over
  <2>5. ASSUME NEW h \in Thread \ {g}, Has(h, Working)'
        PROVE  call'[h].task # call[g].task
    <3>1. CASE Steps(h)
      <4>1. ~Acquire(h)
        BY <2>3, <3>1, AdvancersOnly DEF Acquire
      <4>2. Has(h, Working) /\ call'[h].task = call[h].task
        BY <2>5, <3>1, <4>1, WorkingComes
      <4> QED
        BY <2>2, <4>2 DEF HoldInv
    <3>2. CASE call'[h] = call[h]
      BY <2>2, <2>5, <3>2 DEF HoldInv, Has
    <3>3. CASE ~Steps(h) /\ call'[h] # call[h]
      <4>1. ~ \E q \in Thread : Steps(q)
        BY <3>3, OthersStay
      <4>2. PICK t \in Task : Claim(h, t) /\ call'[h].task = t
        BY <1>1, <2>5, <3>3, <4>1, ClaimBegins DEF Has
      <4>3. task[t].status = "pending"
        BY <4>2 DEF Claim
      <4> QED
        BY <2>2, <4>2, <4>3
    <3> QED
      BY <3>1, <3>2, <3>3
  <2> QED
    BY <2>1, <2>2, <2>4, <2>5
<1> QED
  BY <1>2, <1>3

\* ... and the first one.
LEMMA ExecStep ==
  ASSUME MissionInv, ListInv, LockInv, HeldInv, ExecInv, HoldInv, [Next]_vars
  PROVE  ExecInv'
<1> SUFFICES ASSUME NEW g \in Thread \ Advancer, Has(g, Working)', call'[g].task \notin overwritten'
             PROVE  ~task'[call'[g].task].held
  BY DEF ExecInv
<1> DEFINE Steps(h) == StoreStep(h) \/ EditStep(h) \/ CreateStep(h) \/ AdvanceStep(h)
                         \/ ExecuteStep(h)
<1>1. /\ task \in [Task -> TaskRecord] /\ Working \subseteq Tasked /\ Working \subseteq Holding
      /\ overwritten \subseteq overwritten'
  BY OverwrittenGrows DEF MissionInv, TypeOK, Working, Holding, Tasked, Executing
<1>2. CASE ~Steps(g) /\ call'[g] # call[g]
  <2>1. ~ \E q \in Thread : Steps(q)
    BY <1>2, OthersStay
  <2>2. PICK t \in Task : Claim(g, t) /\ call'[g].task = t
    BY <1>1, <1>2, <2>1, ClaimBegins DEF Has
  <2> QED
    BY <2>2 DEF Claim, HeldInv
<1>3. CASE Steps(g) \/ call'[g] = call[g]
  <2>1. /\ Has(g, Working) /\ call'[g].task = call[g].task
        /\ ~ \E x \in {"ok", "error", "held"} : Run(g, x)
    <3>1. CASE Steps(g)
      <4>1. ~Acquire(g)
        BY AdvancersOnly DEF Acquire
      <4> QED
        BY <3>1, <4>1, WorkingComes
    <3>2. CASE ~Steps(g)
      BY <1>3, <3>2 DEF Has, ExecuteStep
    <3> QED
      BY <3>1, <3>2
  <2> DEFINE t == call[g].task
  <2>2. t \in Task /\ t \notin overwritten' /\ t \notin overwritten /\ ~task[t].held
    BY <1>1, <2>1, HasTask DEF ExecInv
  <2>3. ASSUME NEW h \in Thread, StartTask(h), call[h].task = t PROVE ~task'[t].held
    <3>1. \/ task' = task \/ \E s : SaveTask(h, s, task[t].held)
      BY <2>3 DEF StartTask
    <3> QED
      BY <1>1, <2>2, <2>3, <3>1 DEF SaveTask, TaskRecord
  <2>4. ASSUME NEW h \in Thread, NEW x \in {"ok", "error", "held"}, Run(h, x), call[h].task = t
        PROVE  FALSE
    <3>1. Has(h, Holding) /\ Has(g, Holding)
      BY <1>1, <2>1, <2>4, AtHas DEF Run, Holding, Has
    <3>2. h = g
      BY <2>4, <3>1 DEF LockInv
    <3> QED
      BY <2>1, <2>4, <3>2
  <2>5. ASSUME NEW h \in Thread, Hold(h), call[h].task = t PROVE FALSE
    <3>1. Has(h, {"hold"}) /\ h \in Advancer
      BY <2>5, AtHas, AdvancersOnly DEF Hold
    <3> QED
      BY <2>1, <2>2, <2>5, <3>1 DEF HoldInv
  <2>6. ~task'[t].held
    <3>1. CASE task'[t] = [task[t] EXCEPT !.status = "cancelled"]
      BY <1>1, <2>2, <3>1 DEF TaskRecord
    <3> QED
      BY <2>2, <2>3, <2>4, <2>5, <3>1, TaskChange
  <2> QED
    BY <2>1, <2>6
<1> QED
  BY <1>2, <1>3

\* Only a call that derives or saves holds a copy of a record.
CopyInv == \A h \in Thread : call[h].copy # Blank => At(h, "derive") \/ At(h, "save")

\* A step of a thread keeps this.
LEMMA CopyStays ==
  ASSUME MissionInv, CopyInv, NEW h \in Thread,
         StoreStep(h) \/ EditStep(h) \/ CreateStep(h) \/ AdvanceStep(h) \/ ExecuteStep(h)
  PROVE  call'[h].copy # Blank => At(h, "derive")' \/ At(h, "save")'
<1> DEFINE Kept == call'[h].copy # Blank => At(h, "derive")' \/ At(h, "save")'
<1>1. /\ call[h].todo # <<>> /\ call[h] \in Call /\ call[h].mission \in Mission
      /\ NoCall \in Call /\ call[h].copy \in MissionRecord
      /\ call[h].todo[1] \in Tasked => call[h].task \in Task
  BY Moves, CallTyped, NoCallFits DEF Fits
<1>2. ASSUME NEW step, At(h, step) PROVE call[h].todo[1] = step
  BY <1>2, HeadIs
<1>3. Ended(h) => Kept
  BY DEF Ended, NoCall
<1>4. ASSUME NEW c \in Call, NEW steps, Took(h, c, steps),
             \/ c.copy = Blank
             \/ steps # <<>> /\ steps[1] \in {"derive", "save"}
      PROVE  Kept
  <2>1. CASE call'[h] = NoCall
    BY <2>1 DEF NoCall
  <2>2. CASE call'[h] # NoCall /\ c.copy = Blank
    <3>1. \/ call'[h] = [NoCall EXCEPT !.mission = c.mission, !.todo = call'[h].todo]
          \/ call'[h] = [c EXCEPT !.todo = call'[h].todo]
      BY <1>4, <2>2 DEF Took
    <3>2. call'[h].copy = Blank
      BY <2>2, <3>1 DEF NoCall, Call
    <3> QED
      BY <3>2
  <2>3. CASE call'[h] # NoCall /\ steps # <<>> /\ steps[1] \in {"derive", "save"}
    BY <1>4, <2>3 DEF Took, At
  <2> QED
    BY <1>4, <2>1, <2>2, <2>3
<1> SUFFICES Kept
  OBVIOUS
<1> HIDE DEF Kept
<1>5. ASSUME NEW r PROVE [call[h] EXCEPT !.copy = r].copy = r
  BY <1>1 DEF Call
<1>6. call[h].todo[1] \notin {"derive", "save"} => call[h].copy = Blank
  BY <1>2 DEF CopyInv
<1>7. /\ <<"save">> # <<>> /\ <<"save">>[1] = "save"
      /\ <<"derive">> # <<>> /\ <<"derive">>[1] = "derive"
  OBVIOUS
<1>8. ASSUME NEW c \in Call, Took(h, c, <<"save">>) \/ Took(h, c, <<"derive">>) PROVE Kept
  BY <1>4, <1>7, <1>8
<1>9. ASSUME NEW steps, Took(h, call[h], steps), call[h].todo[1] \notin {"derive", "save"}
      PROVE  Kept
  BY <1>1, <1>4, <1>6, <1>9
<1>10. ASSUME NEW steps, Took(h, [call[h] EXCEPT !.copy = Blank], steps) PROVE Kept
  BY <1>1, <1>4, <1>5, <1>10, BlankType, CallWith
<1>11. ASSUME NEW q \in Report, NEW steps, Took(h, [call[h] EXCEPT !.says = q], steps),
              call[h].todo[1] \notin {"derive", "save"}
       PROVE  Kept
  <2>1. [call[h] EXCEPT !.says = q] \in Call
    BY <1>1, CallWith
  <2>2. [call[h] EXCEPT !.says = q].copy = call[h].copy
    BY <1>1 DEF Call
  <2> QED
    BY <1>4, <1>6, <1>11, <2>1, <2>2
<1>12. ASSUME NEW r \in MissionRecord,
              Took(h, [NoCall EXCEPT !.mission = call[h].mission, !.copy = r], <<"save">>)
       PROVE  Kept
  BY <1>1, <1>8, <1>12, CallWith
<1>13. CASE Save(h) \/ SaveFails(h)
  BY <1>10, <1>13, SaveTakes
<1>14. CASE Tick(h)
  BY <1>1, <1>8, <1>14, TickTakes, CallTyped, CallWith
<1>15. CASE Derive(h)
  <2>1. Ticked(call[h].copy, call[h].copy.links) \in MissionRecord
    BY <1>1, TickedType DEF MissionRecord
  <2> QED
    BY <1>10, <1>12, <1>15, <2>1, DeriveTakes
<1>16. CASE Link(h)
  <2>1. call[h].todo[1] = "link"
    BY <1>2, <1>16 DEF Link
  <2>2. [Mine(h) EXCEPT !.links = @ \cup {call[h].task}] \in MissionRecord
    BY <1>1, <2>1, CallTyped DEF MissionRecord, Tasked
  <2> QED
    BY <1>9, <1>12, <1>16, <2>1, <2>2, LinkTakes
<1>17. CASE Sync(h)
  BY <1>1, <1>8, <1>17, SyncTakes, CallWith, BlankType
<1>18. CASE Receipt(h)
  BY <1>1, <1>12, <1>18, ReceiptTakes, CallTyped
<1>19. CASE EditStep(h)
  <2>1. call[h].todo[1] \notin {"derive", "save"}
    BY <1>2, <1>19 DEF EditStep, Deadletter, Patch, Unlink, Replace
  <2>2. /\ [Mine(h) EXCEPT !.status = call[h].want] \in MissionRecord
        /\ [Mine(h) EXCEPT !.links = @ \ {call[h].task}] \in MissionRecord
    BY <1>1, CallTyped DEF MissionRecord, Call
  <2>3. CASE Deadletter(h) \/ Patch(h) \/ Unlink(h)
    BY <1>3, <1>9, <1>12, <2>1, <2>2, <2>3, EditTakes
  <2>4. CASE Replace(h)
    BY <1>3, <1>9, <2>1, <2>4, ReplaceTakes
  <2> QED
    BY <1>19, <2>3, <2>4 DEF EditStep
<1>20. CASE CreateStep(h)
  <2>1. call[h].todo[1] \notin {"derive", "save"}
    BY <1>2, <1>20 DEF CreateStep, Find, Make
  <2>2. CASE Find(h)
    BY <1>3, <1>9, <2>1, <2>2, FindTakes
  <2>3. ASSUME NEW t \in Task, Took(h, [call[h] EXCEPT !.task = t, !.key = NoKey], <<"link">>)
        PROVE  Kept
    <3>1. [call[h] EXCEPT !.task = t, !.key = NoKey].copy = call[h].copy
      BY <1>1 DEF Call
    <3> QED
      BY <1>1, <1>4, <1>6, <2>1, <2>3, <3>1, CallWith
  <2>4. CASE Make(h)
    BY <1>9, <2>1, <2>3, <2>4, MakeTakes
  <2> QED
    BY <1>20, <2>2, <2>4 DEF CreateStep
<1>21. CASE Decide(h)
  <2>1. call[h].todo[1] \notin {"derive", "save"}
    BY <1>2, <1>21 DEF Decide
  <2>2. ASSUME NEW t \in Task, NEW steps, Took(h, [call[h] EXCEPT !.task = t], steps)
        PROVE  Kept
    <3>1. [call[h] EXCEPT !.task = t].copy = call[h].copy
      BY <1>1 DEF Call
    <3> QED
      BY <1>1, <1>4, <1>6, <2>1, <2>2, <3>1, CallWith
  <2> QED
    BY <1>3, <1>9, <1>21, <2>1, <2>2, DecideTakes
<1>22. CASE Operate(h) \/ Hold(h)
  <2>1. call[h].todo[1] \notin {"derive", "save"}
    BY <1>2, <1>22 DEF Operate, Hold
  <2>2. [status |-> "accepted", held |-> TRUE] \in Report
    BY DEF Report, TaskStatus
  <2> QED
    BY <1>9, <1>11, <1>22, <2>1, <2>2, OperateTakes, HoldTakes
<1>23. CASE Acquire(h) \/ Release(h)
  <2>1. call[h].todo[1] \notin {"derive", "save"}
    BY <1>2, <1>23 DEF Acquire, Release
  <2> QED
    BY <1>9, <1>23, <2>1, AcquireTakes, ReleaseTakes
<1>24. CASE StartTask(h)
  <2>1. call[h].todo[1] = "start"
    BY <1>2, <1>24 DEF StartTask
  <2>2. [status |-> "running", held |-> task[call[h].task].held] \in Report
    BY <1>1, <2>1 DEF MissionInv, TypeOK, TaskRecord, Report, TaskStatus, Tasked, Executing
  <2> QED
    BY <1>9, <1>11, <1>24, <2>1, <2>2, StartTakes
<1>25. ASSUME NEW x \in {"ok", "error", "held"}, Run(h, x) PROVE Kept
  <2>1. call[h].todo[1] \notin {"derive", "save"}
    BY <1>2, <1>25 DEF Run
  <2>2. \A s \in {"complete", "failed"} : [status |-> s, held |-> FALSE] \in Report
    BY DEF Report, TaskStatus
  <2> QED
    BY <1>9, <1>11, <1>25, <2>1, <2>2, RunTakes
<1> QED
  BY <1>13, <1>14, <1>15, <1>16, <1>17, <1>18, <1>19, <1>20, <1>21, <1>22, <1>23, <1>24, <1>25
  DEF StoreStep, AdvanceStep, ExecuteStep

\* Every step keeps this.
LEMMA CopyStep ==
  ASSUME MissionInv, CopyInv, [Next]_vars
  PROVE  CopyInv'
<1> SUFFICES ASSUME NEW g \in Thread
             PROVE  call'[g].copy # Blank => At(g, "derive")' \/ At(g, "save")'
  BY DEF CopyInv
<1> DEFINE Steps(h) == StoreStep(h) \/ EditStep(h) \/ CreateStep(h) \/ AdvanceStep(h)
                         \/ ExecuteStep(h)
<1>1. CASE Steps(g)
  BY <1>1, CopyStays
<1>2. CASE call'[g] = call[g]
  BY <1>2 DEF CopyInv, At
<1>3. CASE call'[g] = NoCall
  BY <1>3 DEF NoCall
<1>4. CASE Began(g)
  <2>1. CASE \/ \E n \in Mission :
                  call'[g] = [NoCall EXCEPT !.todo = <<"derive", "decide">>,
                                            !.copy = mission[n], !.mission = n]
             \/ \E n \in Mission :
                  call'[g] = [NoCall EXCEPT !.todo = <<"derive">>,
                                            !.copy = mission[n], !.mission = n]
    <3>1. call'[g].todo \in {<<"derive", "decide">>, <<"derive">>}
      BY <2>1 DEF NoCall
    <3> QED
      BY <3>1 DEF At
  <2>2. CASE call'[g].copy = Blank
    BY <2>2
  <2> QED
    BY <1>4, <2>1, <2>2 DEF Began, NoCall
<1> QED
  BY <1>1, <1>2, <1>3, <1>4, OthersStay, BeginsAt

\* A call comes to the report of a complete task by the run that completed it.
LEMMA SyncComes ==
  ASSUME MissionInv, NEW h \in Thread,
         StoreStep(h) \/ EditStep(h) \/ CreateStep(h) \/ AdvanceStep(h) \/ ExecuteStep(h),
         At(h, "sync")', call'[h].says.status = "complete"
  PROVE  Run(h, "ok") /\ call'[h].task = call[h].task
<1>1. /\ call[h] \in Call /\ ~Ended(h) /\ "sync" \notin Later
      /\ call[h].todo[1] \in Tasked => call[h].task \in Task
  BY Moves, CallTyped, EndedIsIdle DEF Later
<1>2. ASSUME NEW c, NEW steps, Took(h, c, steps)
      PROVE  /\ steps # <<>> /\ steps[1] = "sync"
             /\ call'[h] = [c EXCEPT !.todo = call'[h].todo]
  BY <1>1, <1>2, HeadComes
<1>3. ASSUME NEW c
      PROVE  /\ ~Took(h, c, <<>>) /\ ~Took(h, c, <<"save">>) /\ ~Took(h, c, <<"derive">>)
             /\ ~Took(h, c, <<"receipt">>) /\ ~Took(h, c, <<"patch">>)
             /\ ~Took(h, c, <<"link">>) /\ ~Took(h, c, <<"acquire">>)
             /\ ~Took(h, c, <<"start">>) /\ ~Took(h, c, <<"release">>)
             /\ ~Took(h, c, <<"make">>)
  <2>1. ~Took(h, c, <<>>)
    BY <1>2
  <2>2. ASSUME NEW s \in Step \ {"sync"} PROVE ~Took(h, c, <<s>>)
    <3>1. <<s>>[1] = s
      OBVIOUS
    <3> QED
      BY <1>2, <3>1
  <2> QED
    BY <2>1, <2>2 DEF Step
<1>4. ASSUME NEW c
      PROVE  /\ ~Took(h, c, <<"release", "hold">>) /\ ~Took(h, c, <<"hold", "acquire">>)
             /\ ~Took(h, c, <<"operate", "tick", "receipt">>)
             /\ ~Took(h, c, <<"make", "tick", "receipt">>)
  <2>1. /\ <<"release", "hold">>[1] = "release" /\ <<"hold", "acquire">>[1] = "hold"
        /\ <<"operate", "tick", "receipt">>[1] = "operate"
        /\ <<"make", "tick", "receipt">>[1] = "make"
    OBVIOUS
  <2>2. ~Took(h, c, <<"release", "hold">>)
    BY <1>2, <2>1
  <2>3. ~Took(h, c, <<"operate", "tick", "receipt">>)
    BY <1>2, <2>1
  <2>4. ~Took(h, c, <<"make", "tick", "receipt">>)
    BY <1>2, <2>1
  <2>5. ~Took(h, c, <<"hold", "acquire">>)
    BY <1>2, <2>1
  <2> QED
    BY <2>2, <2>3, <2>4, <2>5
<1>5. ASSUME NEW q, NEW steps, Took(h, [call[h] EXCEPT !.says = q], steps)
      PROVE  q.status = "complete" /\ call'[h].task = call[h].task
  <2>1. call'[h] = [[call[h] EXCEPT !.says = q] EXCEPT !.todo = call'[h].todo]
    BY <1>2, <1>5
  <2>2. call'[h].says = q /\ call'[h].task = call[h].task
    BY <1>1, <2>1 DEF Call
  <2> QED
    BY <2>2
<1> DEFINE Says(s, b) == [call[h] EXCEPT !.says = [status |-> s, held |-> b]]
<1>6. ASSUME NEW s, s # "complete", NEW b, NEW steps
      PROVE  ~Took(h, Says(s, b), steps)
  <2> DEFINE q == [status |-> s, held |-> b]
  <2>1. q.status # "complete"
    BY <1>6
  <2> HIDE DEF q
  <2>2. ~Took(h, [call[h] EXCEPT !.says = q], steps)
    BY <1>5, <2>1
  <2> QED
    BY <2>2 DEF q
<1>7. ~StoreStep(h)
  BY <1>3, SaveTakes, TickTakes, DeriveTakes, LinkTakes, SyncTakes, ReceiptTakes DEF StoreStep
<1>8. ~EditStep(h)
  BY <1>1, <1>3, EditTakes, ReplaceTakes DEF EditStep
<1>9. ~CreateStep(h)
  BY <1>1, <1>3, FindTakes, MakeTakes DEF CreateStep
<1>10. ~AdvanceStep(h)
  <2>1. ~Decide(h)
    BY <1>1, <1>3, <1>4, DecideTakes
  <2>2. ~Operate(h)
    BY <1>3, <1>4, OperateTakes
  <2>3. ~Acquire(h)
    BY <1>3, AcquireTakes
  <2> QED
    BY <2>1, <2>2, <2>3 DEF AdvanceStep
<1>11. ~StartTask(h)
  <2>1. ~Took(h, Says("running", task[call[h].task].held), <<"sync", "run">>)
    BY <1>6
  <2> QED
    BY <1>3, <2>1, StartTakes
<1>12. ~Release(h)
  BY <1>3, ReleaseTakes
<1>13. ~Hold(h)
  <2>1. ~Took(h, Says("accepted", TRUE), <<"sync">>)
    BY <1>6
  <2> QED
    BY <2>1, HoldTakes
<1>14. ASSUME NEW x \in {"ok", "error", "held"}, Run(h, x)
       PROVE  x = "ok" /\ call'[h].task = call[h].task
  <2> DEFINE q == [status |-> IF x = "ok" THEN "complete" ELSE "failed", held |-> FALSE]
  <2>1. Took(h, [call[h] EXCEPT !.says = q], <<"sync", "release">>)
    BY <1>3, <1>4, <1>14, RunTakes
  <2>2. q.status = "complete" /\ call'[h].task = call[h].task
    BY <1>5, <2>1
  <2> QED
    BY <2>2
<1> QED
  BY <1>7, <1>8, <1>9, <1>10, <1>11, <1>12, <1>13, <1>14 DEF ExecuteStep

\* Whoever is about to tell that a task is complete still holds its lock, and the
\* record still says so, but where an edit overwrote it.
EarnInv ==
    \A h \in Thread : At(h, "sync") /\ call[h].says.status = "complete" =>
        /\ lock[call[h].task] = h
        /\ \/ call[h].task \in overwritten
           \/ task[call[h].task].status = "complete" /\ ~task[call[h].task].held

\* Every step keeps this.
LEMMA EarnStep ==
  ASSUME MissionInv, LockInv, HoldInv, EarnInv, [Next]_vars
  PROVE  EarnInv'
<1> SUFFICES ASSUME NEW g \in Thread, At(g, "sync")', call'[g].says.status = "complete"
             PROVE  /\ lock'[call'[g].task] = g
                    /\ \/ call'[g].task \in overwritten'
                       \/ task'[call'[g].task].status = "complete" /\ ~task'[call'[g].task].held
  BY DEF EarnInv
<1> DEFINE Steps(h) == StoreStep(h) \/ EditStep(h) \/ CreateStep(h) \/ AdvanceStep(h)
                         \/ ExecuteStep(h)
<1>1. task \in [Task -> TaskRecord] /\ lock \in [Task -> Thread \cup {NoThread}]
  BY DEF MissionInv, TypeOK
<1>2. CASE Steps(g)
  <2>1. Run(g, "ok") /\ call'[g].task = call[g].task
    BY <1>2, SyncComes
  <2>2. /\ At(g, "run") /\ SaveTask(g, "complete", FALSE) /\ lock' = lock
        /\ call[g].task \in Task /\ Has(g, Holding)
    <3>1. At(g, "run") /\ SaveTask(g, "complete", FALSE) /\ lock' = lock
      BY <2>1 DEF Run
    <3>2. call[g].todo # <<>> /\ call[g].todo[1] = "run"
      BY <3>1, HeadIs
    <3>3. call[g].task \in Task
      BY <3>2, CallTyped DEF Tasked, Executing
    <3>4. Has(g, Holding)
      BY <3>1, AtHas DEF Holding
    <3> QED
      BY <3>1, <3>3, <3>4
  <2>3. task'[call[g].task].status = "complete" /\ ~task'[call[g].task].held
    BY <1>1, <2>2 DEF SaveTask, TaskRecord
  <2> QED
    BY <2>1, <2>2, <2>3 DEF LockInv
<1>3. CASE ~Steps(g)
  <2>1. call'[g] = call[g]
    <3>1. ASSUME call'[g] = NoCall \/ Began(g) PROVE FALSE
      <4>1. call'[g].todo \in {<<>>, <<"derive", "decide">>, <<"derive">>, <<"find">>,
                               <<"patch">>, <<"deadletter">>, <<"unlink">>, <<"replace">>,
                               <<"start">>}
        BY <3>1, BeganList DEF NoCall
      <4> QED
        BY <4>1 DEF At
    <3>2. ASSUME NEW h \in Thread, Steps(h) PROVE call'[g] = call[g]
      BY <1>3, <3>2, OthersStay
    <3> QED
      BY <3>1, <3>2, BeginsAt
  <2>2. At(g, "sync") /\ call[g].says.status = "complete"
    BY <2>1 DEF At
  <2>3. /\ call[g].task \in Task /\ call[g].todo[1] = "sync"
        /\ lock[call[g].task] = g
        /\ \/ call[g].task \in overwritten
           \/ task[call[g].task].status = "complete" /\ ~task[call[g].task].held
    BY <2>2, HeadIs, CallTyped DEF EarnInv, Tasked, Executing
  <2>4. ASSUME NEW h \in Thread, Has(h, Holding), call[h].task = call[g].task PROVE h = g
    BY <2>3, <2>4 DEF LockInv
  <2>5. lock'[call[g].task] = g
    <3>1. ASSUME NEW h \in Thread, Release(h), call[h].task = call[g].task PROVE FALSE
      <4>1. call[h].todo[1] = "release" /\ Has(h, Holding)
        BY <3>1, HeadIs, AtHas DEF Release, Holding
      <4> QED
        BY <2>3, <2>4, <3>1, <4>1
    <3>2. ~Reclaim(call[g].task)
      BY <2>3 DEF Reclaim
    <3>3. lock[call[g].task] # NoThread
      BY <2>3, MissionAssumption
    <3> QED
      BY <2>3, <3>1, <3>2, <3>3, LockChange
  <2>6. \/ call[g].task \in overwritten'
        \/ task'[call[g].task].status = "complete" /\ ~task'[call[g].task].held
    <3> SUFFICES ASSUME call[g].task \notin overwritten'
                 PROVE  task'[call[g].task] = task[call[g].task]
      BY <2>3, OverwrittenGrows
    <3>0. call[g].task \notin overwritten /\ task[call[g].task].status = "complete"
      BY <2>3, OverwrittenGrows
    <3>1. ASSUME NEW h \in Thread, call[h].task = call[g].task,
                 NEW x \in {"ok", "error", "held"}, Run(h, x)
          PROVE  FALSE
      <4>1. call[h].todo[1] = "run" /\ Has(h, Holding)
        BY <3>1, HeadIs, AtHas DEF Run, Holding
      <4> QED
        BY <2>3, <2>4, <3>1, <4>1
    <3>2. ASSUME NEW h \in Thread, call[h].task = call[g].task, Hold(h) PROVE FALSE
      <4>1. Has(h, {"hold"})
        BY <3>2, AtHas DEF Hold
      <4> QED
        BY <3>0, <3>2, <4>1 DEF HoldInv
    <3> QED
      BY <2>3, <3>0, <3>1, <3>2, TaskChange DEF Exists, Over
  <2> QED
    BY <2>1, <2>3, <2>5, <2>6
<1> QED
  BY <1>2, <1>3

\* What the steps of a call tell of a mission, given that the report is earned.
LEMMA FoundIsEarned ==
  ASSUME MissionInv, CopyInv, EarnInv, [Next]_vars, NEW h \in Thread,
         At(h, "derive") \/ At(h, "sync"),
         Found(h).status # "completed", call'[h].copy.status = "completed",
         NEW t \in call'[h].copy.links \ overwritten
  PROVE  task[t].status = "complete"
<1> DEFINE Steps(g) == StoreStep(g) \/ EditStep(g) \/ CreateStep(g) \/ AdvanceStep(g)
                         \/ ExecuteStep(g)
<1>1. /\ call[h].todo # <<>> /\ call[h] \in Call /\ call[h].mission \in Mission
      /\ call[h].copy \in MissionRecord /\ Mine(h) \in MissionRecord
      /\ call[h].todo[1] \in Tasked => call[h].task \in Task
  BY CallTyped DEF At
<1>2. call'[h] # NoCall /\ call'[h].copy # Blank
  BY DEF NoCall, Blank
<1>3. Steps(h)
  <2>1. ASSUME ~Steps(h) PROVE FALSE
    <3>1. call'[h] = call[h]
      <4>1. ASSUME NEW g \in Thread, Steps(g) PROVE call'[h] = call[h]
        BY <2>1, <4>1, OthersStay
      <4> QED
        BY <1>1, <1>2, <4>1, CallsStay
    <3>2. CASE At(h, "derive")
      BY <3>1, <3>2 DEF Found
    <3>3. CASE ~At(h, "derive")
      <4>1. call[h].copy = Blank
        BY <3>3 DEF CopyInv, At
      <4> QED
        BY <3>1, <4>1 DEF Blank
    <3> QED
      BY <3>2, <3>3
  <2> QED
    BY <2>1
<1>4. ASSUME NEW c, NEW steps, Took(h, c, steps), steps \in {<<"save">>, <<>>}
      PROVE  call'[h] = [c EXCEPT !.todo = call'[h].todo]
  BY <1>2, <1>4 DEF Took, NoCall
<1>5. CASE At(h, "derive")
  <2> DEFINE r == Ticked(call[h].copy, call[h].copy.links)
  <2>1. Derive(h)
    BY <1>3, <1>5
    DEF StoreStep, EditStep, CreateStep, AdvanceStep, ExecuteStep, Save, SaveFails, Tick, Link,
        Sync, Receipt, Deadletter, Patch, Unlink, Replace, Find, Make, Decide, Operate, Acquire,
        StartTask, Release, Hold, Run, At
  <2>2. call'[h].copy = r
    <3> HIDE DEF r
    <3>1. CASE Took(h, [NoCall EXCEPT !.mission = call[h].mission, !.copy = r], <<"save">>)
      <4>1. call'[h] = [[NoCall EXCEPT !.mission = call[h].mission, !.copy = r]
                           EXCEPT !.todo = call'[h].todo]
        BY <1>4, <3>1
      <4> QED
        BY <4>1 DEF NoCall
    <3>2. CASE Took(h, [call[h] EXCEPT !.copy = Blank], <<>>)
      <4>1. call'[h] = [[call[h] EXCEPT !.copy = Blank] EXCEPT !.todo = call'[h].todo]
        BY <1>4, <3>2
      <4>2. call'[h].copy = Blank
        BY <1>1, <4>1 DEF Call
      <4> QED
        BY <1>2, <4>2
    <3>3. \/ Took(h, [NoCall EXCEPT !.mission = call[h].mission, !.copy = r], <<"save">>)
          \/ Took(h, [call[h] EXCEPT !.copy = Blank], <<>>)
      BY <2>1, DeriveTakes DEF r
    <3> QED
      BY <3>1, <3>2, <3>3
  <2>3. r.links = call[h].copy.links /\ r.status = "completed"
        /\ call[h].copy.status # "completed"
    BY <1>1, <1>5, <2>2, TickedType DEF Found, MissionRecord
  <2>4. call[h].copy.status \notin Terminal
    BY <2>3 DEF Ticked
  <2>5. Derived(call[h].copy.links, call[h].copy.status) = "completed"
    BY <1>1, <2>3, <2>4 DEF Ticked, MissionRecord
  <2>6. call[h].copy.links = Among(call[h].copy.links, {"complete"})
    BY <2>3, <2>5 DEF Derived
  <2> QED
    BY <2>2, <2>3, <2>6 DEF Among
<1>6. CASE At(h, "sync")
  <2> DEFINE q == call[h].says
             r == Transition(Mine(h), call[h].task, q)
  <2>1. Sync(h)
    BY <1>3, <1>6
    DEF StoreStep, EditStep, CreateStep, AdvanceStep, ExecuteStep, Save, SaveFails, Tick, Link,
        Derive, Receipt, Deadletter, Patch, Unlink, Replace, Find, Make, Decide, Operate,
        Acquire, StartTask, Release, Hold, Run, At
  <2>2. call[h].todo[1] = "sync" /\ call[h].task \in Task
    BY <1>1, <1>6, HeadIs DEF Tasked, Executing
  <2>3. call'[h].copy = r
    <3>1. Took(h, [call[h] EXCEPT !.copy = r, !.says = Silent], <<"save">>)
      BY <2>1, SyncTakes
    <3> HIDE DEF r
    <3>2. call'[h] = [[call[h] EXCEPT !.copy = r, !.says = Silent] EXCEPT !.todo = call'[h].todo]
      BY <1>4, <3>1
    <3> QED
      BY <1>1, <3>2 DEF Call
  <2>4. Mine(h).status # "completed"
    BY <1>6, HeadIs DEF Found
  <2>5. /\ r.status = "completed" /\ r.links = Mine(h).links \cup {call[h].task}
        /\ Mine(h).status \notin Terminal
    BY <2>3, <2>4 DEF Transition
  <2>6. /\ q.status \in TaskStatus \ {"absent"} /\ q.held \in BOOLEAN
    BY <1>1, <1>6, CallTyped DEF Report, Fits, At
  <2>7. r.status = IF q.held \/ r.links = {call[h].task} \/ q.status \in {"running", "pending", "accepted"}
                   THEN IF q.held THEN "blocked" ELSE ByTask[q.status]
                   ELSE Mine(h).status
    BY <2>5 DEF Transition
  <2>8. r.links = {call[h].task} /\ q.status = "complete"
    BY <2>4, <2>5, <2>6, <2>7 DEF ByTask, TaskStatus
  <2> QED
    BY <1>6, <2>3, <2>8 DEF EarnInv
<1> QED
  BY <1>5, <1>6

\* While one thread advances missions, a mission is found completed only if the tasks
\* linked in the copy are complete, in the files as they are then (advance_mission,
\* tick_mission and record_linked_task_transition).  The report is true because the
\* lock of the task is held until it is made, and no other advance accepts again
\* what the run ended.
THEOREM CompletionIsTrue ==
  ASSUME \A g, h \in Advancer : g = h
  PROVE  Spec => CompletionIsEarned
<1> DEFINE Inv == ListInv /\ LockInv /\ HeldInv /\ ExecInv /\ HoldInv /\ EarnInv /\ CopyInv
<1>1. Init => Inv
  BY DEF Init, ListInv, LockInv, HeldInv, ExecInv, HoldInv, EarnInv, CopyInv, NoCall, NoRecord,
         NoEdit, Has, At, Ordered, Plain
<1>2. MissionInv /\ Inv /\ [Next]_vars => Inv'
  BY ListStep, LockStep, HeldStep, ExecStep, HoldStep, EarnStep, CopyStep
<1>3. MissionInv /\ Inv /\ [Next]_vars
        => [\A h \in Thread :
               /\ At(h, "derive") \/ At(h, "sync")
               /\ Found(h).status # "completed" /\ call'[h].copy.status = "completed"
               => \A t \in call'[h].copy.links \ overwritten : task[t].status = "complete"]_vars
  BY FoundIsEarned
<1> QED
  BY <1>1, <1>2, <1>3, MissionInvariant, PTL DEF Spec, CompletionIsEarned

=============================================================================
