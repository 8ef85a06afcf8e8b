-------------------------- MODULE MCDashboardTable --------------------------
(* A small instance of DashboardPanels for TLC: three rows over two days of    *)
(* four ticks (two milliseconds) each, among them rows with equal times, of   *)
(* one millisecond, and in the last half millisecond of a day.                *)
EXTENDS DashboardPanels, TLC

MCRow(id, at, status, text) ==
    [id |-> id, at |-> at, status |-> status, of |-> IF id = 5 THEN "b" ELSE "a", text |-> text,
     amount |-> id]

Rows(t1, t2, t3, closed) ==
    {MCRow(1, t1, "pending", {"x"}), MCRow(3, t2, "pending", {}), MCRow(5, t3, closed, {"x"})}

MCTables ==
    "invoices" :> {Rows(1, 2, 3, "paid"), Rows(4, 0, 2, "paid")} @@
    "deliveries" :> {Rows(1, 1, 3, "failed"), Rows(1, 2, 3, "success")}

MCValues ==
    [status |-> {"all", "pending"}, of |-> {"all"}, q |-> {"", "x"}, from |-> {None},
     to |-> {None, 0}, min |-> {None}, max |-> {None, 2}]

\* Deliveries to two endpoints, twice each, and one whose endpoint is not known.
MCDeliveries ==
    [nth : {1, 2}, status : {"success", "failed"}, of : {"a", "b"}]
      \cup [nth : {1}, status : {"success", "failed", "pending"}, of : {None}]
ASSUME HealthChecked == \A R \in SUBSET MCDeliveries : HealthPointsAtWorst(R)
=============================================================================
