\* Two runners: two run requests for one operation overlap.
SPECIFICATION Spec
CONSTANTS
    Task = {t1}
    Proc = {s1, r1, r2}
    NoProc = NoProc
    NoTask = NoTask
    Aging = "never"
    Pool = {{s1}}
    Editor = {}
    Edits = {}
    Held = {"blocked"}
    SaveFaults = FALSE
    MaxFaults = 0
PROPERTIES NoRunAfterSuccess
