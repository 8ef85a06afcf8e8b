--------------------------- MODULE DashboardPanels ---------------------------
(* What the dashboard shows of the same two tables beside DashboardTable: the  *)
(* Receipt drawer of the Invoices page, whose server actions are answered one  *)
(* after the other, after the drawer has been closed or opened again if need   *)
(* be; and the delivery health of the Webhooks page, computed from the rows of *)
(* one query.  A drawer is opened from a page that is at rest.                 *)
EXTENDS DashboardTable

VARIABLE
    receipt         \* the Receipt drawer

NoReceipt == [open |-> None, click |-> 0, loading |-> FALSE, shown |-> None, queue |-> <<>>]
InitPanels == Init /\ receipt = NoReceipt

AtRest == view.page = 0 /\ timer = None /\ nav = None /\ csv = None

-----------------------------------------------------------------------------
(* The delivery health: R is the rows of the last HEALTH_WINDOW_HOURS, each of *)
(* an endpoint or, when it is older than that column, of None.               *)

\* Math.round(100 * n / d)
Percent(n, d) == (200 * n + d) \div (2 * d)

Of(R, status) == {r \in R : r.status = status}
\* A delivery that is still being retried has no outcome to count.
Resolved(R) == Of(R, "success") \cup Of(R, "failed")

ResolvedOf(R, e) == {r \in Resolved(R) : r.of = e}
FailedOf(R, e) == {r \in Of(R, "failed") : r.of = e}
FailurePct(R, e) == Percent(Cardinality(FailedOf(R, e)), Cardinality(ResolvedOf(R, e)))

\* Ties, also those that rounding makes, go to the endpoint whose row came first.
Failing(R) == {r.of : r \in Of(R, "failed")} \ {None}
Worst(R) == {e \in Failing(R) : \A f \in Failing(R) : FailurePct(R, f) <= FailurePct(R, e)}

Health(R, e) ==
    [successRatePct |-> IF Resolved(R) = {} THEN None
                        ELSE Percent(Cardinality(Of(R, "success")), Cardinality(Resolved(R))),
     resolvedCount |-> Cardinality(Resolved(R)), worstEndpoint |-> e]

GetWebhookDeliveryHealth(R) ==
    {Health(R, e) : e \in IF Failing(R) = {} THEN {None} ELSE Worst(R)}

-----------------------------------------------------------------------------
(* The Receipt drawer.  A click opens it for a row and asks the server; the  *)
(* effect's clean-up makes the answer of an earlier click void.              *)

OpenReceipt ==
    /\ kind = "invoices" /\ Gesture /\ AtRest /\ receipt.open = None
    /\ \E id \in Range(view.rows) :
          receipt' = [receipt EXCEPT !.open = id, !.click = @ + 1, !.loading = TRUE,
                        !.queue = Append(@, [id |-> id, click |-> receipt.click + 1, answer |-> None])]
    /\ UNCHANGED <<db, bar, csv, last, overtaken, discarded, faults>>

CloseReceipt ==
    /\ receipt.open # None
    /\ receipt' = [receipt EXCEPT !.open = None, !.shown = None]
    /\ UNCHANGED vars

\* getInvoiceReceipt(): the row as it is now.
GetInvoiceReceipt ==
    /\ receipt.queue # <<>> /\ Head(receipt.queue).answer = None
    /\ \E r \in rows :
          /\ r.id = Head(receipt.queue).id
          /\ receipt' = [receipt EXCEPT !.queue[1].answer = [id |-> r.id, status |-> r.status]]
    /\ UNCHANGED vars

Cancelled(q) == receipt.open = None \/ q.click # receipt.click

\* Faulty variant: no clean-up.
ReceiptArrivesLate ==
    /\ receipt.queue # <<>> /\ Head(receipt.queue).answer # None
    /\ receipt' = [receipt EXCEPT !.queue = Tail(@), !.loading = FALSE,
                                  !.shown = Head(receipt.queue).answer]
    /\ UNCHANGED vars

ReceiptArrives ==
    /\ receipt.queue # <<>> /\ Head(receipt.queue).answer # None
    /\ receipt' = IF Cancelled(Head(receipt.queue)) THEN [receipt EXCEPT !.queue = Tail(@)]
                  ELSE [receipt EXCEPT !.queue = Tail(@), !.loading = FALSE,
                                       !.shown = Head(receipt.queue).answer]
    /\ UNCHANGED vars

ReceiptFails ==
    /\ receipt.queue # <<>> /\ faults < MaxFaults /\ faults' = faults + 1
    /\ receipt' = [receipt EXCEPT !.queue = Tail(@),
                     !.loading = Cancelled(Head(receipt.queue)) /\ receipt.loading]
    /\ UNCHANGED <<db, bar, csv, user>>

-----------------------------------------------------------------------------

TableStep ==
    \/ \E v \in Values.q : Type(v)
    \/ ChooseFilter \/ ClearFilters \/ GoToPage \/ ClickExport
    \/ DebounceEnds \/ WalkToPage \/ WalkFails \/ ExportRowsToCsv \/ ExportFails

NextPanels ==
    \/ receipt = NoReceipt /\ TableStep /\ UNCHANGED receipt
    \/ (Insert \/ ChangeStatus) /\ UNCHANGED receipt
    \/ OpenReceipt \/ CloseReceipt \/ GetInvoiceReceipt \/ ReceiptArrives \/ ReceiptFails

SpecPanels == InitPanels /\ [][NextPanels]_<<vars, receipt>>

-----------------------------------------------------------------------------
(* Properties.                                                               *)

\* A receipt on view is of the invoice it was opened for and of this opening: an
\* answer to an earlier click, to the same invoice's too, is never shown as if it
\* were new; and one that came is never hidden behind a spinner.
ReceiptIsThisOne ==
    /\ receipt.shown # None =>
          /\ receipt.open # None /\ receipt.shown.id = receipt.open /\ ~receipt.loading
          /\ \A q \in Range(receipt.queue) : q.click # receipt.click
    /\ receipt.open # None /\ receipt.loading =>
          \E q \in Range(receipt.queue) : q.click = receipt.click

\* The health of the deliveries, of whatever rows the query finds: no rate only
\* when nothing is resolved, 100 % only when nothing failed that rounding could
\* show, an endpoint that needs attention exactly when some delivery to one
\* failed, and then none that fails more often by more than a percent.
HealthPointsAtWorst(R) ==
    \A h \in GetWebhookDeliveryHealth(R) :
        LET N(S) == Cardinality(S)
            w == h.worstEndpoint
        IN  /\ (h.successRatePct = None) = (\A r \in R : r.status = "pending")
            /\ h.successRatePct = 100 => 200 * N(Of(R, "failed")) <= h.resolvedCount
            /\ (w = None) = (\A r \in Of(R, "failed") : r.of = None)
            /\ w # None => \A e \in Failing(R) :
                  100 * N(FailedOf(R, e)) * N(ResolvedOf(R, w))
                    <= (100 * N(FailedOf(R, w)) + N(ResolvedOf(R, w))) * N(ResolvedOf(R, e))
=============================================================================
