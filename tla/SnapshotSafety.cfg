SPECIFICATION Spec
CONSTANTS
    Ids = {m1, m2}
    Connections = {c1, c2}
    None = None
    Kinds = {"get_rows", "get_data"}
    TTL = 1
    MaxEpoch = 3
    MaxClock = 1
SYMMETRY Symmetric
CHECK_DEADLOCK FALSE
INVARIANTS TypeOK CacheIsCurrent AnswerIsOwn CurrentBuildIsExclusive
PROPERTIES ImplementsService
