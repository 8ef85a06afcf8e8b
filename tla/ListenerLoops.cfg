\* Dead links, silent nodes, stops and starts at any time.
CHECK_DEADLOCK FALSE
CONSTANTS
    s1 = s1
    s2 = s2
    s3 = s3
    None = None
    Sockets = {s1, s2, s3}
    MAX_BACKOFF = 30
    MaxStops = 2
SPECIFICATION FairSpec
INVARIANTS TypeOK OneLiveChain ConnectedIsLive
PROPERTIES StoppedStaysQuiet DeadLinkNoticed
