CONSTANTS
    Obj = {o1, o2, o3, o4}
    Thread = {t1, t2}
    NoObj = NoObj
    MaxScalar = 1
    MessageSet = FALSE
SYMMETRY Symmetry
SPECIFICATION Spec
INVARIANTS PbMessageTypeOK CachedSizeRight SetFieldsArePresent GettersAgree StaleNoticesHarmless

VIEW View
CONSTRAINT Light
CHECK_DEADLOCK FALSE
