\* A pool, a run request and an editor under fairness; processes may die and saves
\* may raise.
SPECIFICATION FairSpec
CONSTANTS
    Task = {t1}
    Proc = {s1, r1}
    NoProc = {s1, r1}
    NoTask = NoTask
    Aging = "abandoned"
    Pool = {{s1}}
    Editor = {e1}
    Edits = {"cancel", "patch"}
    Held = {}
    SaveFaults = TRUE
    MaxFaults = 2
PROPERTIES PendingIsPicked RunningEnds
