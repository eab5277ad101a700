SPECIFICATION Spec
CONSTANTS
    u1 = u1
    u2 = u2
    a = a
    Pods = {u1, u2}
    Names = {a}
    NameOf <- SharedName
    None = None
    TicksPerSecond = 2
    MaxTime = 3
    MaxBoots = 1
INVARIANT TypeOK
INVARIANT RepeatedCoresAreCurrent
INVARIANT IntervalsAreDisjoint
INVARIANT NegativeNeedsNewCounter
