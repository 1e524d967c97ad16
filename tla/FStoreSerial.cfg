\* One caller at a time, every operation, the module may be unloaded.
SPECIFICATION Spec
CONSTANTS
    a = a
    b = b
    c = c
    m1 = m1
    m2 = m2
    Tasks = {t1}
    Names <- MCNames
    Maps <- MCMaps
    Bucket <- MCBucket
    FSTORE_SIZE = 3
    Ops <- Everything
    LimitsKnown = TRUE
    MaxNodes = 3
    MaxRefs = 6
INVARIANTS
    
    OneNodePerBucket
    NeverUndefined
\* The module is unloaded and every descriptor closed.
CHECK_DEADLOCK FALSE
