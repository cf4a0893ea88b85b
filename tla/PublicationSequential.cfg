SPECIFICATION FairSpec
CONSTANTS
    Threads = {t1}
    Ids = {m1, m2}
    None = None
    MaxHandles = 3
    MaxBeats = 3
    MaxFailures = 0
CHECK_DEADLOCK FALSE
INVARIANTS PathIsOwn OpenIsBeaten
PROPERTIES EveryCallReturns
