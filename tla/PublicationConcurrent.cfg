SPECIFICATION Spec
CONSTANTS
    Threads = {t1, t2}
    Ids = {m1, m2}
    None = None
    MaxHandles = 2
    MaxBeats = 2
    MaxFailures = 1
SYMMETRY Symmetric
CHECK_DEADLOCK FALSE
INVARIANTS TypeOK PublicationIsConsistent
PROPERTIES TakenDownByItsOwn
