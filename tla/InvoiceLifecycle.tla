-------------------------- MODULE InvoiceLifecycle --------------------------
(***************************************************************************)
(* What FiberGate promises a merchant about an invoice, without saying how *)
(* it is done: an invoice is created pending, moves once to one of the     *)
(* three terminal statuses, and its outcome is announced at most once, by  *)
(* the event that belongs to the status it really has.                     *)
(*                                                                         *)
(* InvoicePoller.tla, where several poll cycles and the WebSocket listener *)
(* race over the same rows, is shown to implement this specification.      *)
(***************************************************************************)
EXTENDS Naturals

CONSTANT Invoices

VARIABLES
    status,     \* status[i]: the invoices.status column, "absent" before INSERT
    queued      \* queued[i][e]: how often event e was queued for invoice i

lifecycleVars == <<status, queued>>

Terminal == {"paid", "expired", "failed"}
Statuses == {"absent", "pending"} \cup Terminal
Events == {"payment.paid", "invoice.expired", "invoice.failed"}

\* The event a terminal status is announced by.
EventOf == [paid    |-> "payment.paid",
            expired |-> "invoice.expired",
            failed  |-> "invoice.failed"]

LifecycleInit ==
    /\ status = [i \in Invoices |-> "absent"]
    /\ queued = [i \in Invoices |-> [e \in Events |-> 0]]

Create(i) ==
    /\ status[i] = "absent"
    /\ status' = [status EXCEPT ![i] = "pending"]
    /\ UNCHANGED queued

\* One UPDATE may settle several invoices: the bulk expiry does.
Settle(S, outcome) ==
    /\ \A i \in S : status[i] = "pending"
    /\ status' = [i \in Invoices |-> IF i \in S THEN outcome ELSE status[i]]
    /\ UNCHANGED queued

Announce(i) ==
    /\ status[i] \in Terminal
    /\ \A e \in Events : queued[i][e] = 0
    /\ queued' = [queued EXCEPT ![i][EventOf[status[i]]] = 1]
    /\ UNCHANGED status

LifecycleNext ==
    \/ \E i \in Invoices : Create(i) \/ Announce(i)
    \/ \E S \in SUBSET Invoices, outcome \in Terminal : Settle(S, outcome)

LifecycleSpec == LifecycleInit /\ [][LifecycleNext]_lifecycleVars
=============================================================================
