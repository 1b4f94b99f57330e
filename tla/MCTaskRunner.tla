----------------------------- MODULE MCTaskRunner -----------------------------
(* Instances of TaskRunner for TLC.  The slots of a pool are interchangeable, *)
(* and so are the runners, the editors and the tasks.                         *)
EXTENDS TaskRunner, TLC

Symmetry ==
    UNION {Permutations(g) : g \in Pool} \cup Permutations(Runner)
        \cup Permutations(Editor) \cup Permutations(Task)
=============================================================================
