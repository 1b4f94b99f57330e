\* Two leases of a run: a revocation, two publications, an effect, a recorder.  A
\* publication and the recorder may wait for each other for ever.
SPECIFICATION Spec
CONSTANTS
    Lease       = {l1, l2}
    Bindings    = 2
    EvidenceAt  = 1
    EffectAt    = 2
    Manager     = {m1}
    Publisher   = {p1, p2}
    Effector    = {e1}
    Recorder    = {r1}
    NoThread    = NoThread
    NoId        = NoId
    IssuedEarly = FALSE
    MaxCrashes  = 0
SYMMETRY Symmetry
INVARIANTS OneActiveLease ReceiptHasCommit LockFileIsHeld OnlyInversionDeadlocks
PROPERTIES ImplementsAuthority RevocationIsHonoured
CHECK_DEADLOCK FALSE
