\* Two pools and one runner; twice a process dies.  No save
\* raises, and no lock grows stale.
SPECIFICATION Spec
CONSTANTS
    Task = {t1}
    Proc = {s1, s2, s3, r1}
    NoProc = NoProc
    NoTask = NoTask
    Aging = "never"
    Pool = {{s1, s2}, {s3}}
    Editor = {}
    Edits = {}
    Held = {"waits", "blocked"}
    SaveFaults = FALSE
    MaxFaults = 2
SYMMETRY Symmetry
PROPERTIES NoRunAfterSuccess ImplementsLifecycle
