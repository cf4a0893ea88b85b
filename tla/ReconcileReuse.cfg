SPECIFICATION Spec
CONSTANTS
    Producers = {p1}
    Beating = {p1}
    Ids = {m1}
    Sweepers = {s1}
    None = None
    Stale = 1
    Grace = 2
    Retention = 1
    Interval = 1
    Flaky = FALSE
    MaxRuns = 2
    MaxClock = 4
SYMMETRY Symmetric
CHECK_DEADLOCK FALSE
INVARIANT EndsOnlyWhatIsGone
