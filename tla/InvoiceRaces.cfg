\* One invoice; overlapping runs, the listener, a failure and a crash.
CONSTANTS
    i1 = i1
    i2 = i2
    t1 = t1
    t2 = t2
    c1 = c1
    NoInvoice = NoInvoice
    Invoices = {i1}
    TimerRuns = {t1, t2}
    CronRuns = {c1}
    Lifetimes = {1}
    BatchSize = 1
    PollWindow = 2
    MaxTime = 3
    MaxFaults = 1
    MaxCrashes = 1
SYMMETRY Symmetry
SPECIFICATION Spec
INVARIANTS TypeOK AnnouncedOnce OutcomeMatchesNode OneTimerRun
PROPERTIES NoEarlyExpiry ImplementsLifecycle
