\* One lease under fairness: a revocation, two publications, an effect, a restart.
SPECIFICATION FairSpec
CONSTANTS
    Lease       = {l1}
    Bindings    = 3
    EvidenceAt  = 2
    EffectAt    = 3
    Manager     = {m1}
    Publisher   = {p1, p2}
    Effector    = {e1}
    Recorder    = {}
    NoThread    = NoThread
    NoId        = NoId
    IssuedEarly = TRUE
    MaxCrashes  = 1
INVARIANTS GrantedOnce CommittedIsPublished
PROPERTIES CallsReturn
