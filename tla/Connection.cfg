SPECIFICATION FairSpec
CONSTANTS
    MaxStarts = 2
    Ports = {1, 2}
    Requested = {0}
    Clients = {c1}
    ConnectTimeout = 1
    Timeout = 1
    CloseTimeout = 2
    Margin = 1
    MaxCalls = 1
CHECK_DEADLOCK FALSE
INVARIANTS TypeOK RunningIsServed AdvertisedIsListening StoppedMeansAsked WaitOutlastsCall
PROPERTIES StoppedServerEnds
