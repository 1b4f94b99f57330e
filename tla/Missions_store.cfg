SPECIFICATION Spec
CONSTANTS
    m1 = m1
    m2 = m2
    Mission    = {m1}
    Task       = {t1, t2}
    Key        = {k1}
    DependsOn  <- Waits
    Advancer   = {x}
    Clerk      = {x, y}
    Worker     = {y}
    Editor     = {}
    Process    = {{y}}
    NoTask     = NoTask
    NoKey      = NoKey
    NoMission  = NoMission
    NoThread   = NoThread
    Wanted     = {"cancelled"}
    MaxTrouble = 1
SYMMETRY Symmetry
INVARIANTS FirstOperationOnce KeyUsedOnce
PROPERTIES SettledMissionIsFinal
