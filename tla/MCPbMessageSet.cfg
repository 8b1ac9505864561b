CONSTANTS
    Obj = {o1, o2, o3}
    Thread = {t1}
    NoObj = NoObj
    MaxScalar = 1
    MessageSet = TRUE
SPECIFICATION Spec
INVARIANT CachedSizeRight
CHECK_DEADLOCK FALSE
