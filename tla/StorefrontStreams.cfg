\* Three connections of the page, two requests by the gateway.
CONSTANTS
    s1 = s1
    s2 = s2
    s3 = s3
    None = None
    Streams = {s1, s2, s3}
    MaxPosts = 2
SPECIFICATION FairSpec
INVARIANTS TypeOK StreamsSound
PROPERTIES PageToldUnlessLate
CHECK_DEADLOCK FALSE
