\* Two scaffolds of one directory, two starts, two tabs.
CONSTANTS
    None = None
    t1 = t1
    t2 = t2
    Tabs = {t1, t2}
    Passwords = {"short", "new password"}
    Short = {"short"}
    Long = {}
    TTL = 4
    THRESHOLD = 2
    MaxTime = 5
    MaxRequests = 3
    WizardRequests = 1
    MaxFaults = 1
    Tools = {"create", "local"}
    Names <- MCNames
    OwnSecrets <- MCOwnSecrets
    Refused <- MCRefused
    Mangled <- MCMangled
    Splitting <- MCSplitting
    KeyFiles <- MCKeyFiles
    Initial = {"short"}
    MaxScaffolds = 2
    MaxStarts = 2
SPECIFICATION Spec
INVARIANTS TypeOK DirectorySound SessionsSound
PROPERTIES ActiveAdminStaysIn
CHECK_DEADLOCK FALSE
