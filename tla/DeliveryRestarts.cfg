\* Two rows; restarts and a failed statement.
CONSTANTS
    d1 = d1
    d2 = d2
    Deliveries = {d1, d2}
    RetryDelays <- ShippedDelays
    MaxFaults = 1
    MaxCrashes = 2
SPECIFICATION FairSpec
INVARIANTS TypeOK SingleToken LogAgrees PendingHasToken
PROPERTIES ImplementsContract NeverEarly DeliveryEnds
