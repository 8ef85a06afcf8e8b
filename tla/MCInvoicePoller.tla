--------------------------- MODULE MCInvoicePoller ---------------------------
(* Small instances of InvoicePoller for TLC.                               *)
EXTENDS InvoicePoller, TLC

\* Invoices and the interval worker's invocations are interchangeable.
Symmetry == Permutations(Invoices) \cup Permutations(TimerRuns)
=============================================================================
