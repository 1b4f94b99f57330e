SPECIFICATION Spec
CONSTANTS
    m1 = m1
    m2 = m2
    Mission    = {m1, m2}
    Task       = {t1, t2}
    Key        = {}
    DependsOn  <- Waits
    Advancer   = {x}
    Clerk      = {y}
    Worker     = {y}
    Editor     = {e}
    Process    = {{y}}
    NoTask     = NoTask
    NoKey      = NoKey
    NoMission  = NoMission
    NoThread   = NoThread
    Wanted     = {"cancelled"}
    MaxTrouble = 1
SYMMETRY Symmetry
PROPERTIES DependenciesFirst CompletionIsEarned
