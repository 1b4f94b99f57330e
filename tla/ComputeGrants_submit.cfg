\* Two submissions, one through a service without a receipt store, a single-use and a
\* reusable grant, one fault.
SPECIFICATION Spec
CONSTANTS
    t1 = t1
    t2 = t2
    once = once
    often = often
    Submission    = {s1, s2}
    Task          = {t1, t2}
    Grant         = {once, often}
    NoTask        = NoTask
    NoGrant       = NoGrant
    Refused       = {}
    NeedsApproval = {t1}
    Scope         <- Scopes
    Reusable      = {often}
    Unstored      = {s2}
    Asked         <- Calls
    MaxFaults     = 1
INVARIANTS NotUsableAgain SingleUseRunsOnce OnlyStartsConsume SuccessIsReceipted
PROPERTIES ImplementsGrantUse
CHECK_DEADLOCK FALSE
