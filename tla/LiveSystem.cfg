SPECIFICATION LiveSpec
CONSTANTS
    Producers = {p1}
    Beating = {p1}
    Ids = {m1, m2, m3}
    Sweepers = {p1, c1}
    None = None
    Stale = 1
    Grace = 2
    Retention = 1
    Interval = 0
    Flaky = TRUE
    ProbeTime = 1
    MaxRuns = 1
    MaxClock = 3
SYMMETRY Symmetric
CHECK_DEADLOCK FALSE
INVARIANTS LiveTypeOK RunningIsListed
