\* Two invoices, a batch of one, a failure.
CONSTANTS
    i1 = i1
    i2 = i2
    t1 = t1
    t2 = t2
    c1 = c1
    NoInvoice = NoInvoice
    Invoices = {i1, i2}
    TimerRuns = {t1}
    CronRuns = {}
    Lifetimes = {1}
    BatchSize = 1
    PollWindow = 2
    MaxTime = 3
    MaxFaults = 1
    MaxCrashes = 0
SYMMETRY Symmetry
SPECIFICATION Spec
PROPERTIES SettledPaymentBeatsClock
