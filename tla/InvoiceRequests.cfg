\* Three requests against a limit of two; the whitelist changes, a restart.
CONSTANTS
    r1 = r1
    r2 = r2
    r3 = r3
    v1 = v1
    v2 = v2
    c1 = c1
    c2 = c2
    a1 = a1
    a2 = a2
    p1 = p1
    None = None
    Requests = {r1, r2, r3}
    Pages = {p1}
    Peers = {a1, a2}
    Channels = {c1, c2}
    ChannelStates <- MCChannelStates
    MaxMoves = 1
    Bodies <- MCBodies
    Scripts = {v1, v2}
    WINDOW = 2
    MAX_PER_WINDOW = 2
    MIN_AMOUNT = 15
    MAX_AMOUNT = 20
    MAX_EXPIRES = 2
    MaxTime = 2
    MaxEdits = 1
    MaxRestarts = 1
SPECIFICATION SpecViews
CONSTRAINT Focus
SYMMETRY Symmetry
INVARIANTS TypeOKViews BooksAgree PagesTellNode
PROPERTIES LimiterExact LookupSharedByAll
CHECK_DEADLOCK FALSE
