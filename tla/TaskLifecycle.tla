---------------------------- MODULE TaskLifecycle ----------------------------
(***************************************************************************)
(* What a task record promises to those who only look at its status        *)
(* (_operation_status_for_task of operations/runtime.py): a submitted task *)
(* is started once, and its first attempt ends before anything else is     *)
(* shown.  Governance may hold it back any number of times; a held task    *)
(* shows what governance said, queued or blocked, until a later attempt    *)
(* ends, and not that this one runs.  Success and failure are final.       *)
(***************************************************************************)
CONSTANT Task

VARIABLES
    shown,    \* shown[t]: the status of an operation
    held      \* held[t]: governance held the last attempt back

Init ==
    /\ shown = [t \in Task |-> "absent"]
    /\ held = [t \in Task |-> FALSE]

Becomes(t, status, isHeld) ==
    /\ shown' = [shown EXCEPT ![t] = status]
    /\ held' = [held EXCEPT ![t] = isHeld]

Submit(t) == shown[t] = "absent" /\ Becomes(t, "queued", FALSE)
Start(t)  == shown[t] = "queued" /\ ~held[t] /\ Becomes(t, "running", FALSE)
Expire(t) == shown[t] = "queued" /\ ~held[t] /\ Becomes(t, "failed", FALSE)

Ends(t) ==
    \/ \E status \in {"succeeded", "failed"} : Becomes(t, status, FALSE)
    \/ \E status \in {"queued", "blocked"} : Becomes(t, status, TRUE)

Finish(t) == shown[t] = "running" /\ Ends(t)
Retry(t)  == held[t] /\ Ends(t)

Next == \E t \in Task : Submit(t) \/ Start(t) \/ Expire(t) \/ Finish(t) \/ Retry(t)

Spec == Init /\ [][Next]_<<shown, held>>
=============================================================================
