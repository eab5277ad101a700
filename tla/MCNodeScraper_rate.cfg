SPECIFICATION Spec
CONSTANTS
    u1 = u1
    u2 = u2
    a = a
    Pods = {u1}
    Names = {a}
    NameOf <- SharedName
    None = None
    TicksPerSecond = 2
    MaxTime = 3
    MaxBoots = 0
INVARIANT CoresAreRates
