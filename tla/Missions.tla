------------------------------- MODULE Missions -------------------------------
(***************************************************************************)
(* Missions and the operations created for them: the mission store         *)
(* (missions/store.py), create_operation (operations/runtime.py),          *)
(* advance_mission and the queue run (missions/runtime.py), and what       *)
(* execute_task tells the mission of its task (agent/executor.py).         *)
(*                                                                         *)
(* A mission record is a JSON file that every writer loads, changes and    *)
(* replaces as a whole, under no lock: the load and the save are different *)
(* actions.  So they are of a task record that a cancel or a patch writes, *)
(* and one that is held back; an execution changes its record in one       *)
(* action here, and its further races are those of TaskRunner.             *)
(*                                                                         *)
(* A call is a list of steps still to do.  The head is done next, and may  *)
(* put further steps in front of the others.                               *)
(***************************************************************************)
EXTENDS Naturals, Sequences, FiniteSets

CONSTANTS
    Mission,
    Task,         \* task ids, which are the ids of operations
    Key,          \* idempotency keys, with their requester and capability
    DependsOn,    \* DependsOn[m]: the missions among dependency_ids of m
    Advancer,     \* threads that advance missions: a queue run, a request
    Clerk,        \* threads of the other requests: tick, create, edit
    Worker,       \* threads that also serve as slots of worker pools
    Editor,       \* threads that cancel or patch a task
    Process,      \* the sets of threads that die together
    NoTask, NoKey, NoMission, NoThread,
    Wanted,       \* the statuses that operators patch missions to
    MaxTrouble    \* bound: edits, failed saves and crashes in a behaviour

Thread == Advancer \cup Clerk \cup Worker

ASSUME MissionAssumption ==
    /\ DependsOn \in [Mission -> SUBSET Mission]
    /\ Process \subseteq SUBSET Thread
    /\ NoTask \notin Task /\ NoKey \notin Key
    /\ NoMission \notin Mission /\ NoThread \notin Thread
    /\ Wanted \subseteq {"queued", "active", "blocked", "completed", "failed",
                   "deadlettered", "cancelled"}
    /\ MaxTrouble \in Nat

VARIABLES
    mission,   \* mission[m]: data/missions/<m>/record.json
    task,      \* task[t]: data/tasks/<t>/record.json
    lock,      \* lock[t]: the thread that executes t
    call,      \* call[h]: what thread h is doing
    firsts,    \* ghost: firsts[m], first operations created for m, at most Many
    finished,  \* ghost: missions that have been completed at some time
    overwritten, \* ghost: tasks that an edit was saved to after they had changed
    contested, \* ghost: keys of which two creations at once found no operation
    edit,      \* edit[e]: the cancel or patch of a task that e has yet to save
    trouble    \* edits by operators, failed saves and crashes

ghosts == <<firsts, finished, overwritten, contested>>
vars   == <<mission, task, lock, call, ghosts, edit, trouble>>

Many == 2

-----------------------------------------------------------------------------
MissionStatus == {"absent", "queued", "active", "blocked",
                  "completed", "failed", "deadlettered", "cancelled"}

Terminal == {"completed", "failed", "deadlettered", "cancelled"}

\* Which of its tasks the meta fields of a mission name last is left open.
MissionRecord == [status : MissionStatus, links : SUBSET Task]

Blank == [status |-> "absent", links |-> {}]

Over       == {"complete", "failed", "cancelled"}
TaskStatus == {"absent", "pending", "accepted", "running", "complete", "failed", "cancelled"}

\* held: the result of the last run is that governance stopped the capability
\* (needs_approval, pending, blocked or denied).
TaskRecord == [status : TaskStatus, held : BOOLEAN,
               mission : Mission \cup {NoMission}, key : Key \cup {NoKey}]

NoRecord == [status |-> "absent", held |-> FALSE, mission |-> NoMission, key |-> NoKey]

\* What a worker reports of its task: the status and result of the record it saved.
Report == [status : TaskStatus, held : BOOLEAN]
Silent == [status |-> "absent", held |-> FALSE]

Step == {"tick", "derive", "save", "decide", "find", "make", "link", "receipt",
         "replace", "deadletter", "patch", "unlink", "operate", "acquire", "start",
         "run", "hold", "sync", "release"}

Call == [todo : Seq(Step), mission : Mission \cup {NoMission}, task : Task \cup {NoTask},
         key : Key \cup {NoKey}, want : MissionStatus, copy : MissionRecord, says : Report]

\* What an editor loaded of a task, and whether it cancels it.
Edit   == [task : Task \cup {NoTask}, cancels : BOOLEAN, status : TaskStatus, held : BOOLEAN]
NoEdit == [task |-> NoTask, cancels |-> FALSE, status |-> "absent", held |-> FALSE]

NoCall == [todo |-> <<>>, mission |-> NoMission, task |-> NoTask, key |-> NoKey,
           want |-> "absent", copy |-> Blank, says |-> Silent]

TypeOK ==
    /\ mission \in [Mission -> MissionRecord]
    /\ task \in [Task -> TaskRecord]
    /\ lock \in [Task -> Thread \cup {NoThread}]
    /\ call \in [Thread -> Call]
    /\ firsts \in [Mission -> 0..Many]
    /\ finished \subseteq Mission
    /\ overwritten \subseteq Task
    /\ contested \subseteq Key \cup {NoKey}
    /\ edit \in [Editor -> Edit]
    /\ trouble \in 0..MaxTrouble

Init ==
    /\ mission = [m \in Mission |-> Blank]
    /\ task = [t \in Task |-> NoRecord]
    /\ lock = [t \in Task |-> NoThread]
    /\ call = [h \in Thread |-> NoCall]
    /\ firsts = [m \in Mission |-> 0]
    /\ finished = {}
    /\ overwritten = {}
    /\ contested = {}
    /\ edit = [e \in Editor |-> NoEdit]
    /\ trouble = 0

-----------------------------------------------------------------------------
Exists(t)     == task[t].status # "absent"
Idle(h)       == call[h].todo = <<>>
At(h, step)   == call[h].todo # <<>> /\ Head(call[h].todo) = step
Mine(h)       == mission[call[h].mission]

\* A call begins, and ends.
Begin(h, c) == Idle(h) /\ call' = [call EXCEPT ![h] = c]
Return(h)   == call' = [call EXCEPT ![h] = NoCall]

\* The head of h's list is done; steps come in its place.  From one part of an
\* advance to the next only the mission is kept.
Proceed(h, c, steps) ==
    LET rest == steps \o Tail(call[h].todo)
        kept == IF rest # <<>> /\ Head(rest) \in {"tick", "decide", "receipt"}
                THEN [NoCall EXCEPT !.mission = c.mission] ELSE c
    IN  call' = [call EXCEPT ![h] = IF rest = <<>> THEN NoCall ELSE [kept EXCEPT !.todo = rest]]

Skip(h) == Proceed(h, call[h], <<>>)

\* A changed copy of the mission is to be saved, and nothing else is kept.
ToSave(h, copy) ==
    Proceed(h, [NoCall EXCEPT !.mission = call[h].mission, !.copy = copy], <<"save">>)

-----------------------------------------------------------------------------
(* The mission store: every call loads the record, and saves its copy. *)

\* create_mission, which is given ids of missions that exist as dependencies.
CreateMission(m) ==
    /\ mission[m].status = "absent"
    /\ \A d \in DependsOn[m] : mission[d].status # "absent"
    /\ mission' = [mission EXCEPT ![m].status = "queued"]
    /\ UNCHANGED <<task, lock, call, ghosts, edit, trouble>>

\* The record is replaced by h's copy of it.
Write(h) ==
    LET m == call[h].mission IN
    /\ mission' = [mission EXCEPT ![m] = call[h].copy]
    /\ finished' = IF mission'[m].status = "completed" THEN finished \cup {m} ELSE finished

Save(h) ==
    /\ At(h, "save")
    /\ Write(h)
    /\ Proceed(h, [call[h] EXCEPT !.copy = Blank], <<>>)
    /\ UNCHANGED <<task, lock, firsts, overwritten, contested, edit, trouble>>

\* The write raises, or the history's after it.  An advance gives up if its first
\* tick or its receipt fails; every other caller goes on.
SaveFails(h) ==
    LET rest == Tail(call[h].todo) IN
    /\ At(h, "save")
    /\ trouble < MaxTrouble
    /\ trouble' = trouble + 1
    /\ Write(h) \/ UNCHANGED <<mission, finished>>
    /\ \/ rest # <<>> /\ Head(rest) \in {"decide", "receipt"} /\ Return(h)
       \/ /\ rest # <<>> => Head(rest) # "decide"
          /\ Proceed(h, [call[h] EXCEPT !.copy = Blank], <<>>)
    /\ UNCHANGED <<task, lock, firsts, overwritten, contested, edit>>

\* tick_mission
Tick(h) ==
    /\ At(h, "tick")
    /\ Proceed(h, [call[h] EXCEPT !.copy = Mine(h)], <<"derive">>)
    /\ UNCHANGED <<mission, task, lock, ghosts, edit, trouble>>

\* _derive_mission_status_from_tasks: the status that the linked tasks S amount to;
\* status, if they are at odds.
Among(S, X) == {t \in S : task[t].status \in X}

Derived(S, status) ==
    CASE \E t \in S : task[t].held                 -> "blocked"
      [] Among(S, {"running"}) # {}                -> "active"
      [] Among(S, {"pending", "accepted"}) # {}    -> "queued"
      [] Among(S, {"failed"}) # {}                 -> "failed"
      [] S = Among(S, {"cancelled"})               -> "cancelled"
      [] S = Among(S, {"complete"})                -> "completed"
      [] OTHER                                     -> status

Ticked(r, S) == IF r.status \in Terminal THEN r ELSE [r EXCEPT !.status = Derived(S, @)]

\* Mutant: a mission without linked tasks is written back too.
DeriveAnyway(h) ==
    /\ At(h, "derive")
    /\ ToSave(h, call[h].copy)
    /\ UNCHANGED <<mission, task, lock, ghosts, edit, trouble>>

\* The linked tasks are read.  A mission without any, and one for which they bring
\* no news in its meta fields either, is not written.
Derive(h) ==
    LET r == call[h].copy IN
    /\ At(h, "derive")
    /\ \/ /\ r.links # {}
          /\ ToSave(h, Ticked(r, r.links))
       \/ /\ r.links = {} \/ Ticked(r, r.links) = r
          /\ Proceed(h, [call[h] EXCEPT !.copy = Blank], <<>>)
    /\ UNCHANGED <<mission, task, lock, ghosts, edit, trouble>>

\* link_task: update_mission writes nothing if the task is linked.
Link(h) ==
    LET t == call[h].task IN
    /\ At(h, "link")
    /\ IF t \in Mine(h).links THEN Skip(h)
       ELSE ToSave(h, [Mine(h) EXCEPT !.links = @ \cup {t}])
    /\ UNCHANGED <<mission, task, lock, ghosts, edit, trouble>>

ByTask == [running |-> "active", pending |-> "queued", accepted |-> "queued",
           complete |-> "completed", failed |-> "failed", cancelled |-> "cancelled"]

\* record_linked_task_transition: an end of the task is one of the mission only if no
\* other task is linked.
Transition(r, t, says) ==
    LET links == r.links \cup {t}
        next  == IF says.held \/ links = {t} \/ says.status \in {"running", "pending", "accepted"}
                 THEN IF says.held THEN "blocked" ELSE ByTask[says.status]
                 ELSE r.status
    IN  [status |-> IF r.status \in Terminal THEN r.status ELSE next, links |-> links]

Sync(h) ==
    LET c == call[h] IN
    /\ At(h, "sync")
    /\ Proceed(h, [c EXCEPT !.copy = Transition(Mine(h), c.task, c.says), !.says = Silent],
               <<"save">>)
    /\ UNCHANGED <<mission, task, lock, ghosts, edit, trouble>>

\* record_advance_receipt and record_recovery_review_receipt: further meta fields.
Receipt(h) ==
    /\ At(h, "receipt")
    /\ ToSave(h, Mine(h))
    /\ UNCHANGED <<mission, task, lock, ghosts, edit, trouble>>

\* deadletter_mission looks at the record before update_mission loads it.
Deadletter(h) ==
    /\ At(h, "deadletter")
    /\ IF Mine(h).status \in {"completed", "cancelled", "deadlettered"}
       THEN Return(h) ELSE Proceed(h, call[h], <<"patch">>)
    /\ UNCHANGED <<mission, task, lock, ghosts, edit, trouble>>

\* Mutant: the status of a terminal mission is patched.
PatchAny(h) ==
    /\ At(h, "patch")
    /\ ToSave(h, [Mine(h) EXCEPT !.status = call[h].want])
    /\ UNCHANGED <<mission, task, lock, ghosts, edit, trouble>>

\* update_mission of the status: a terminal one is not changed into another one,
\* and the same one is written only if something else of the record changes.
Patch(h) ==
    LET same == Mine(h).status = call[h].want IN
    /\ At(h, "patch")
    /\ \/ (Mine(h).status \in Terminal \/ same) /\ Return(h)
       \/ /\ Mine(h).status \in Terminal => same
          /\ ToSave(h, [Mine(h) EXCEPT !.status = call[h].want])
    /\ UNCHANGED <<mission, task, lock, ghosts, edit, trouble>>

\* update_mission of remove_task_ids.
Unlink(h) ==
    LET t == call[h].task IN
    /\ At(h, "unlink")
    /\ IF t \in Mine(h).links
       THEN ToSave(h, [Mine(h) EXCEPT !.links = @ \ {t}]) ELSE Return(h)
    /\ UNCHANGED <<mission, task, lock, ghosts, edit, trouble>>

\* create_replacement_mission: a new mission, and a receipt in the failed one.
Replace(h) ==
    /\ At(h, "replace")
    /\ \/ /\ Mine(h).status \in {"failed", "deadlettered"}
          /\ \E m \in Mission :
                /\ mission[m].status = "absent"
                /\ mission' = [mission EXCEPT ![m].status = "queued"]
          /\ Proceed(h, call[h], <<"receipt">>)
       \/ /\ Mine(h).status \notin {"failed", "deadlettered"}
          /\ Return(h)
          /\ UNCHANGED mission
    /\ UNCHANGED <<task, lock, ghosts, edit, trouble>>

-----------------------------------------------------------------------------
(* create_operation *)

\* Mutant: the operations of the same key are not looked for.
FindNothing(h) ==
    /\ At(h, "find")
    /\ Proceed(h, call[h], <<"make">>)
    /\ UNCHANGED <<mission, task, lock, ghosts, edit, trouble>>

\* _find_idempotent_operation
Find(h) ==
    /\ At(h, "find")
    /\ IF \E t \in Task : task[t].key = call[h].key
       THEN Return(h) /\ UNCHANGED contested
       ELSE /\ Proceed(h, call[h], <<"make">>)
            /\ contested' = IF \E g \in Thread : At(g, "make") /\ call[g].key = call[h].key
                            THEN contested \cup {call[h].key} ELSE contested
    /\ UNCHANGED <<mission, task, lock, firsts, finished, overwritten, edit, trouble>>

\* create_delegation, which may refuse.
Make(h) ==
    LET c == call[h] IN
    /\ At(h, "make")
    /\ \/ /\ \E t \in Task :
                /\ ~Exists(t)
                /\ task' = [task EXCEPT ![t] = [status |-> "pending", held |-> FALSE,
                                                mission |-> c.mission, key |-> c.key]]
                /\ Proceed(h, [c EXCEPT !.task = t, !.key = NoKey], <<"link">>)
          /\ firsts' = IF h \in Advancer /\ c.key = NoKey
                       THEN [firsts EXCEPT ![c.mission] = IF @ < Many THEN @ + 1 ELSE @]
                       ELSE firsts
       \/ Skip(h) /\ UNCHANGED <<task, firsts>>
    /\ UNCHANGED <<mission, lock, finished, overwritten, contested, edit, trouble>>

-----------------------------------------------------------------------------
(* advance_mission: tick, decide, act, tick, receipt. *)

Ready(m) == \A d \in DependsOn[m] : mission[d].status = "completed"

\* What the queue may name to be run: a task of a queued mission with linked ones, or
\* one whose approval a blocked mission waited for.
Target(m, t) ==
    /\ task[t].mission = m
    /\ \/ mission[m].status = "queued" /\ mission[m].links # {}
       \/ mission[m].status = "blocked"

\* Mutant: dependencies are not looked at.
DecideUnready(h) ==
    /\ At(h, "decide")
    /\ \/ Mine(h).status = "queued" /\ Mine(h).links = {}
             /\ Proceed(h, call[h], <<"make", "tick", "receipt">>)
       \/ \E t \in Task : Target(call[h].mission, t)
             /\ Proceed(h, [call[h] EXCEPT !.task = t], <<"operate", "tick", "receipt">>)
       \/ Return(h)
    /\ UNCHANGED <<mission, task, lock, ghosts, edit, trouble>>

\* mission_queue_item: create the first operation, run a linked one, or leave it
\* to the operator.  A request for one mission leaves a receipt, the queue run none; the
\* second receipt of a recovery review writes like another request's.
Decide(h) ==
    LET m == call[h].mission
        r == mission[m]
    IN
    /\ At(h, "decide")
    /\ \/ /\ r.status = "queued" /\ Ready(m) /\ r.links = {}
          /\ Proceed(h, call[h], <<"make", "tick", "receipt">>)
       \/ /\ r.status = "queued" => Ready(m)
          /\ \E t \in Task :
                /\ Target(m, t)
                /\ Proceed(h, [call[h] EXCEPT !.task = t], <<"operate", "tick", "receipt">>)
       \/ /\ r.status = "queued" => ~Ready(m)
          /\ Return(h) \/ Proceed(h, call[h], <<"receipt">>)
    /\ UNCHANGED <<mission, task, lock, ghosts, edit, trouble>>

-----------------------------------------------------------------------------
(* The execution of a task, in a run of its operation or by a pool. *)

\* h saves its task.
SaveTask(h, status, held) ==
    task' = [task EXCEPT ![call[h].task].status = status, ![call[h].task].held = held]

\* The execution is all that h does: it serves a pool.
Pooled(h) == Tail(call[h].todo) = <<>>

\* It will tell the mission what it saved.
Tell(h, status, held, steps) ==
    Proceed(h, [call[h] EXCEPT !.says = [status |-> status, held |-> held]], steps)

\* run_operation looks at the task.  A terminal one is left alone, unless governance
\* held it: then it is accepted first.
Operate(h) ==
    LET r == task[call[h].task] IN
    /\ At(h, "operate")
    /\ \/ r.status \in Over /\ ~r.held /\ Skip(h)
       \/ r.status \in Over /\ r.held /\ Proceed(h, call[h], <<"hold", "acquire">>)
       \/ r.status \notin Over /\ Proceed(h, call[h], <<"acquire">>)
    /\ UNCHANGED <<mission, task, lock, ghosts, edit, trouble>>

\* The lock of the task: whoever does not get it answers "locked".
Acquire(h) ==
    LET t == call[h].task IN
    /\ At(h, "acquire")
    /\ IF lock[t] = NoThread
       THEN lock' = [lock EXCEPT ![t] = h] /\ Proceed(h, call[h], <<"start">>)
       ELSE Skip(h) /\ UNCHANGED lock
    /\ UNCHANGED <<mission, task, ghosts, edit, trouble>>

\* A slot of a pool claims a pending task.
Claim(w, t) ==
    /\ task[t].status = "pending"
    /\ lock[t] = NoThread
    /\ lock' = [lock EXCEPT ![t] = w]
    /\ Begin(w, [NoCall EXCEPT !.todo = <<"start">>, !.mission = task[t].mission, !.task = t])
    /\ UNCHANGED <<mission, task, ghosts, edit, trouble>>

\* execute_task up to the capability: a finished task is left alone; an expired one
\* fails, which the mission is not told; any other one runs, and the mission is told
\* together with the result of the last run.
StartTask(h) ==
    LET r == task[call[h].task] IN
    /\ At(h, "start")
    /\ \/ /\ r.status \in {"complete", "failed"}
          /\ Proceed(h, call[h], <<"release">>)
          /\ UNCHANGED task
       \/ /\ r.status \notin {"complete", "failed"}
          /\ SaveTask(h, "failed", r.held)
          /\ Proceed(h, call[h], <<"release">>)
       \/ /\ r.status \notin {"complete", "failed"}
          /\ SaveTask(h, "running", r.held)
          /\ Tell(h, "running", r.held, <<"sync", "run">>)
    /\ UNCHANGED <<mission, lock, ghosts, edit, trouble>>

\* Mutant: the mission is told of every failure as if the task were complete.
RunClaims(h, result) ==
    /\ At(h, "run")
    /\ SaveTask(h, IF result = "ok" THEN "complete" ELSE "failed", result = "held")
    /\ IF result # "held" THEN Tell(h, "complete", FALSE, <<"sync", "release">>)
       ELSE Proceed(h, call[h], IF Pooled(h) THEN <<"release">> ELSE <<"release", "hold">>)
    /\ UNCHANGED <<mission, lock, ghosts, edit, trouble>>

\* The capability ends and the task is saved.  The mission is told, but for what
\* governance held: run_operation accepts that again, a pool leaves it at that.
Run(h, result) ==
    LET status == IF result = "ok" THEN "complete" ELSE "failed" IN
    /\ At(h, "run")
    /\ SaveTask(h, status, result = "held")
    /\ IF result # "held" THEN Tell(h, status, FALSE, <<"sync", "release">>)
       ELSE Proceed(h, call[h], IF Pooled(h) THEN <<"release">> ELSE <<"release", "hold">>)
    /\ UNCHANGED <<mission, lock, ghosts, edit, trouble>>

Release(h) ==
    /\ At(h, "release")
    /\ lock' = [lock EXCEPT ![call[h].task] = NoThread]
    /\ Skip(h)
    /\ UNCHANGED <<mission, task, ghosts, edit, trouble>>

\* _hold_retryable_governance_task writes back the record that run_operation looked
\* at, or that its run ended with.
Hold(h) ==
    /\ At(h, "hold")
    /\ SaveTask(h, "accepted", TRUE)
    /\ Tell(h, "accepted", TRUE, <<"sync">>)
    /\ UNCHANGED <<mission, lock, ghosts, edit, trouble>>

-----------------------------------------------------------------------------
(* Cancels and patches of a task, which do not tell the mission. *)

\* cancel_delegation and patch_operation load the record.  An ended one is not
\* cancelled; tags, meta and a note of any may be patched.
LoadTask(e, t, cancels) ==
    /\ edit[e] = NoEdit
    /\ Exists(t)
    /\ cancels => task[t].status \notin Over
    /\ trouble < MaxTrouble
    /\ trouble' = trouble + 1
    /\ edit' = [edit EXCEPT ![e] = [task |-> t, cancels |-> cancels,
                                    status |-> task[t].status, held |-> task[t].held]]
    /\ UNCHANGED <<mission, task, lock, call, ghosts>>

\* They save what they loaded, changed, over whatever the record says by then.
StoreTask(e) ==
    LET d == edit[e]
        r == task[d.task]
    IN
    /\ d # NoEdit
    /\ task' = [task EXCEPT ![d.task].status = IF d.cancels THEN "cancelled" ELSE d.status,
                            ![d.task].held = d.held]
    /\ overwritten' = IF r.status = d.status /\ r.held = d.held
                      THEN overwritten ELSE overwritten \cup {d.task}
    /\ edit' = [edit EXCEPT ![e] = NoEdit]
    /\ UNCHANGED <<mission, lock, call, firsts, finished, contested, trouble>>

-----------------------------------------------------------------------------
(* Requests for a mission that exists. *)

Request(h, m, c) ==
    /\ mission[m].status # "absent"
    /\ Begin(h, [c EXCEPT !.mission = m])

Advances(h, m) ==
    /\ Request(h, m, [NoCall EXCEPT !.todo = <<"derive", "decide">>, !.copy = mission[m]])
    /\ UNCHANGED <<mission, task, lock, ghosts, edit, trouble>>

Ticks(h, m) ==
    /\ Request(h, m, [NoCall EXCEPT !.todo = <<"derive">>, !.copy = mission[m]])
    /\ UNCHANGED <<mission, task, lock, ghosts, edit, trouble>>

Creates(h, m, k) ==
    /\ Request(h, m, [NoCall EXCEPT !.todo = <<"find">>, !.key = k])
    /\ UNCHANGED <<mission, task, lock, ghosts, edit, trouble>>

\* An operator patches the status, deadletters, unlinks a task or replaces the mission.
Edits(h, m) ==
    /\ trouble < MaxTrouble
    /\ trouble' = trouble + 1
    /\ \/ \E s \in Wanted : Request(h, m, [NoCall EXCEPT !.todo = <<"patch">>, !.want = s])
       \/ Request(h, m, [NoCall EXCEPT !.todo = <<"deadletter">>, !.want = "deadlettered"])
       \/ \E t \in Task : Request(h, m, [NoCall EXCEPT !.todo = <<"unlink">>, !.task = t])
       \/ Request(h, m, [NoCall EXCEPT !.todo = <<"replace">>])
    /\ UNCHANGED <<mission, task, lock, ghosts, edit>>

\* A process dies, the API server or a pool, with the calls of its threads.
Crash(dead) ==
    /\ trouble < MaxTrouble
    /\ \E h \in dead : ~Idle(h)
    /\ trouble' = trouble + 1
    /\ call' = [h \in Thread |-> IF h \in dead THEN NoCall ELSE call[h]]
    /\ UNCHANGED <<mission, task, lock, ghosts, edit>>

\* The lock of a thread that died is reclaimed when it is stale.
Reclaim(t) ==
    /\ lock[t] # NoThread
    /\ call[lock[t]].task # t
    /\ lock' = [lock EXCEPT ![t] = NoThread]
    /\ UNCHANGED <<mission, task, call, ghosts, edit, trouble>>

StoreStep(h)   == Save(h) \/ SaveFails(h) \/ Tick(h) \/ Derive(h) \/ Link(h) \/ Sync(h) \/ Receipt(h)
EditStep(h)    == Deadletter(h) \/ Patch(h) \/ Unlink(h) \/ Replace(h)
CreateStep(h)  == Find(h) \/ Make(h)
AdvanceStep(h) == Decide(h) \/ Operate(h) \/ Acquire(h)
TaskEdit(e)    == StoreTask(e) \/ \E t \in Task, cancels \in BOOLEAN : LoadTask(e, t, cancels)
ExecuteStep(h) == StartTask(h) \/ Release(h) \/ Hold(h) \/ \E x \in {"ok", "error", "held"} : Run(h, x)

Next ==
    \/ \E m \in Mission : CreateMission(m)
    \/ \E t \in Task : Reclaim(t)
    \/ \E e \in Editor : TaskEdit(e)
    \/ \E h \in Thread : StoreStep(h) \/ EditStep(h) \/ CreateStep(h) \/ AdvanceStep(h) \/ ExecuteStep(h)
    \/ \E h \in Advancer, m \in Mission : Advances(h, m)
    \/ \E h \in Clerk, m \in Mission : Ticks(h, m) \/ Edits(h, m)
    \/ \E h \in Clerk, m \in Mission, k \in Key : Creates(h, m, k)
    \/ \E w \in Worker, t \in Task : Claim(w, t)
    \/ \E dead \in Process : Crash(dead)

Spec == Init /\ [][Next]_vars

-----------------------------------------------------------------------------
(* Properties *)

\* An advance creates the first operation of a mission once, whatever ticks, other
\* creations and the workers write over it meanwhile: no writer takes the links of
\* a mission back to none (_queue_action's "create_first_operation").  (One
\* advancer, until an operator edits something or a save or a process fails.)
FirstOperationOnce ==
    trouble = 0 => \A m \in Mission : firsts[m] <= 1

\* Of the requests with one idempotency key the first one creates an operation, and
\* the others find it, after failures and restarts too; unless one of them looks for
\* it between another's look and creation (create_operation holds no lock).
KeyUsedOnce ==
    \A s, t \in Task : /\ task[s].key = task[t].key
                       /\ task[s].key \notin {NoKey} \cup contested
                       => s = t

\* A mission that was not completed is found so, by a tick or a worker's report, only
\* when every task linked in that copy is complete: what a worker says of its task is
\* still true of the record when it is told, though others patch, cancel, rerun and
\* restart.  The one exception is a task that a cancel or patch was saved to which had
\* loaded it before it changed: that can take a complete task back to any status it
\* had, or to cancelled, just before its worker reports it.  (One advancer.)
Found(h) == IF At(h, "derive") THEN call[h].copy ELSE Mine(h)

CompletionIsEarned ==
    [][\A h \in Thread :
          /\ At(h, "derive") \/ At(h, "sync")
          /\ Found(h).status # "completed" /\ call'[h].copy.status = "completed"
          => \A t \in call'[h].copy.links \ overwritten : task[t].status = "complete"]_vars

\* A terminal mission of which nobody holds an older copy is final: ticks, late
\* reports, receipts, edits and failures leave its status as it is.
Settled(m) ==
    /\ mission[m].status \in Terminal
    /\ \A h \in Thread : (At(h, "derive") \/ At(h, "save")) /\ call[h].mission = m
                            => call[h].copy.status = mission[m].status

SettledMissionIsFinal ==
    [][\A m \in Mission :
          Settled(m) => Settled(m)' /\ mission'[m].status = mission[m].status]_vars

\* An advance creates operations only for missions whose dependencies have been
\* completed, at that time or before a late writer took them back.
DependenciesFirst ==
    [][\A m \in Mission : firsts'[m] # firsts[m] => DependsOn[m] \subseteq finished]_vars
=============================================================================
