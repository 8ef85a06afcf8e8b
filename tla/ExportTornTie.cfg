\* Two rows of one transaction, exported a row at a time, no other writer.
CONSTANTS
    None = None
    Kinds = {"invoices", "deliveries"}
    Tables <- MCTables
    Values <- MCValues
    Ids = {2, 4}
    Times = {3, 4}
    Closed = {"paid", "failed", "success"}
    DAY = 4
    PAGE_SIZE = 1
    CSV_PAGE_SIZE = 1
    CSV_MAX_PAGES = 3
    MaxGestures = 1
    MaxChurn = 0
    MaxFaults = 0
SPECIFICATION SpecPanels
INVARIANTS TiesStayTogether
CHECK_DEADLOCK FALSE
