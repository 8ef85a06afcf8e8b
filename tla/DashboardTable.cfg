\* Three rows, pages of one, exports of at most three; one writer's step, one failure.
CONSTANTS
    None = None
    Kinds = {"invoices", "deliveries"}
    Tables <- MCTables
    Values <- MCValues
    Ids = {2, 4}
    Times = {3, 4}
    Closed = {"paid", "failed", "success"}
    DAY = 4
    PAGE_SIZE = 1
    CSV_PAGE_SIZE = 1
    CSV_MAX_PAGES = 3
    MaxGestures = 3
    MaxChurn = 1
    MaxFaults = 1
SPECIFICATION SpecPanels
INVARIANTS TypeOK ExportFaithful RestsAsAsked ReceiptIsThisOne
PROPERTIES PageIsSlice
CHECK_DEADLOCK FALSE
