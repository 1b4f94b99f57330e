\* Two calls at once; two recovery events; one call may be cut short.
SPECIFICATION Spec
CONSTANTS
    c1 = c1
    c2 = c2
    r1 = r1
    r2 = r2
    Caller    = {c1, c2}
    Recovery  = {r1, r2}
    NoEvent   = NoEvent
    MaxOverlaps = 1
    MaxFaults = 1
SYMMETRY Symmetry
INVARIANTS SettledByItsRun DeliveryIsAhead TrailAgrees OrphansAreCutShort
