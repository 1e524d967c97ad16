\* Two callers interleave; nobody maps an array.
SPECIFICATION Spec
CONSTANTS
    a = a
    b = b
    c = c
    m1 = m1
    m2 = m2
    Tasks = {t1, t2}
    Names <- TwoNames
    Maps = {m1}
    Bucket <- MCBucket2
    FSTORE_SIZE = 3
    Ops <- Unmapped
    LimitsKnown = TRUE
    MaxNodes = 3
    MaxRefs = 5
INVARIANTS
    
    CapacityRespected
    
\* Freed memory may be used; the model stops there.
CHECK_DEADLOCK FALSE
