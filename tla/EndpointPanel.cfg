\* Two endpoints, one more to create, a second tab, one failure.
CONSTANTS
    e1 = e1
    e2 = e2
    e3 = e3
    None = None
    Existing = {e1, e2}
    Added = {e3}
    Watched = e1
    MAX_ATTEMPTS = 2
    MaxClicks = 4
    MaxUpsets = 1
SPECIFICATION Spec
INVARIANTS TypeOK SecretsSound
PROPERTIES PageIsTrue
CHECK_DEADLOCK FALSE
