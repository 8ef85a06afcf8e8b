\* The peer closes before it has answered.
CONSTANTS
    s1 = s1
    s2 = s2
    s3 = s3
    None = None
    Sockets = {s1, s2}
    MAX_BACKOFF = 30
    MaxStops = 0
SPECIFICATION Spec
INVARIANTS NeverWedged
