SPECIFICATION Spec
CONSTANTS
    Producers = {p1, p2}
    Beating = {p1}
    Ids = {m1, m2}
    Sweepers = {s1}
    None = None
    Stale = 1
    Grace = 2
    Retention = 1
    Interval = 1
    Flaky = TRUE
    MaxRuns = 1
    MaxClock = 4
SYMMETRY Symmetric
CHECK_DEADLOCK FALSE
INVARIANTS TypeOK RunningIsListed SweepEndsWhatIsGone
PROPERTIES GraceIsRespected
