SPECIFICATION FairSpec
CONSTANTS
    i1 = i1
    i2 = i2
    i3 = i3
    a = a
    b = b
    Instances = {i1, i2, i3}
    Names = {a, b}
    NameOf <- TwoAndOne
    NoInstance = NoInstance
    MaxID = 2
    MaxFailures = 3
CHECK_DEADLOCK FALSE
INVARIANT TypeOK
INVARIANT NobodyUsesHalfASchema
INVARIANT DirtyOnlyIfInterrupted
PROPERTY Registered
PROPERTY EventuallyServes
