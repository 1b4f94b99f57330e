\* A pool, a runner and an editor; saves may raise, a process may die and leave
\* its lock to grow stale.
SPECIFICATION Spec
CONSTANTS
    Task = {t1}
    Proc = {s1, r1}
    NoProc = NoProc
    NoTask = NoTask
    Aging = "abandoned"
    Pool = {{s1}}
    Editor = {e1}
    Edits = {"cancel", "patch"}
    Held = {"blocked"}
    SaveFaults = TRUE
    MaxFaults = 2
SYMMETRY Symmetry
INVARIANTS OneExecutor FirstReclaimIsSafe UnreclaimedIsExclusive
PROPERTIES SettledIsFinal
