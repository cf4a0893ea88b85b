SPECIFICATION FairSpec
CONSTANTS
    Ids = {m1}
    Connections = {c1, c2, c3}
    None = None
    Kinds = {"get_snapshot", "get_rows"}
    TTL = 1
    MaxEpoch = 2
    MaxClock = 0
CHECK_DEADLOCK FALSE
INVARIANTS SafetyInvariant
PROPERTIES EveryRequestIsAnswered
