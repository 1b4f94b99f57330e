\* Two calls at once; an event of every class; one call may be cut short.
SPECIFICATION Spec
CONSTANTS
    c1 = c1
    c2 = c2
    a1 = a1
    a2 = a2
    Caller      = {c1, c2}
    Approval    = {a1, a2}
    Attached    = {}
    NoApproval  = NoApproval
    Classes     = {"awaiting_dispatch", "awaiting_approval", "blocked_by_mode", "blocked_by_budget"}
    Engines     = {"action", "boundary", "none"}
    RetryLimits = {0, 1}
    Backoff     = TRUE
    MaxAttempts = 3
    MaxFaults   = 1
SYMMETRY Symmetry
CHECK_DEADLOCK FALSE
INVARIANTS FailureIsRouted NothingTwice
PROPERTIES UsesGate
