---------------------------- MODULE InvoicePoller ----------------------------
(***************************************************************************)
(* How an invoice gets its status: creation over the REST API, the poll    *)
(* cycles (the 30 s interval worker and the manual cron route, which may   *)
(* overlap), the WebSocket listener's events, and the call to              *)
(* triggerWebhook() each transition makes.  One action per stretch of code *)
(* between two awaits, so that every interleaving at an await is explored. *)
(*                                                                         *)
(* A run is one invocation of runPollCycle().  PostgreSQL (status,         *)
(* expiresAt, queued) survives a crash; everything else in the process     *)
(* does not.  The Fiber node is external: it moves an invoice along        *)
(* NodeNext at any time, and a final node status stays.                    *)
(***************************************************************************)
EXTENDS Integers, FiniteSets

CONSTANTS
    Invoices,       \* invoices that may be created
    TimerRuns,      \* invocations of runPollCycle() by the interval worker
    CronRuns,       \* invocations of runPollCycle() by the cron route
    NoInvoice,      \* "the run is not looking at an invoice"
    Lifetimes,      \* values of expires_in
    BatchSize,      \* POLL_BATCH_SIZE
    PollWindow,     \* POLL_WINDOW_MS
    MaxTime,        \* bound: the clock stops here
    MaxFaults,      \* bound: failed RPC calls and SQL statements
    MaxCrashes      \* bound: restarts of the process

Runs == TimerRuns \cup CronRuns

ASSUME RunsAssumption == TimerRuns \cap CronRuns = {}
ASSUME NoInvoiceAssumption == NoInvoice \notin Invoices
ASSUME LifetimesAssumption == Lifetimes \subseteq Nat \ {0}
ASSUME BoundsAssumption ==
    /\ BatchSize \in Nat \ {0} /\ PollWindow \in Nat
    /\ MaxTime \in Nat /\ MaxFaults \in Nat /\ MaxCrashes \in Nat

VARIABLES
    now,        \* the clock
    node,       \* node[i]: CkbInvoiceStatus on the Fiber node, "None" before new_invoice
    api,        \* api[i]: where createInvoice() is for invoice i
    status,     \* status[i]: column invoices.status, "absent" before the INSERT
    expiresAt,  \* expiresAt[i]: column invoices.expires_at
    queued,     \* queued[i][e]: how often triggerWebhook queued event e for i
    run,        \* run[c]: the local variables of run c
    isRunning,  \* worker.ts's re-entrancy flag
    events,     \* listener: invoice updates received, UPDATE not yet done
    triggers,   \* calls of triggerWebhook() in flight
    lost,       \* history: invoices whose triggerWebhook() failed or died
    faults,     \* failures so far
    crashes     \* restarts so far

dbVars == <<status, expiresAt, queued>>
budget == <<lost, faults, crashes>>
vars == <<now, node, api, run, isRunning, events, triggers, dbVars, budget>>

-----------------------------------------------------------------------------
(* Statuses and records                                                    *)

Terminal == {"paid", "expired", "failed"}
Statuses == {"absent", "pending"} \cup Terminal
WebhookEvents == {"payment.paid", "invoice.expired", "invoice.failed"}

FinalNode == {"Paid", "Cancelled", "Expired"}
NodeStatuses == {"None", "Open", "Received"} \cup FinalNode

\* The steps the node itself may take with an invoice it has created.
NodeNext ==
    [None     |-> {},
     Open     |-> {"Received", "Cancelled", "Expired"},
     Received |-> {"Paid", "Cancelled", "Expired"},
     Paid |-> {}, Cancelled |-> {}, Expired |-> {}]

\* Faulty variants: the node's word stored as the status, and an incoming
\* payment taken for a settled one.
TransitionsKeepNodeWord ==
    [Expired   |-> [status |-> "expired",   event |-> "invoice.expired"],
     Cancelled |-> [status |-> "cancelled", event |-> "invoice.failed"],
     Paid      |-> [status |-> "paid",      event |-> "payment.paid"]]

TransitionsReceivedIsPaid ==
    [Expired   |-> [status |-> "expired", event |-> "invoice.expired"],
     Cancelled |-> [status |-> "failed",  event |-> "invoice.failed"],
     Received  |-> [status |-> "paid",    event |-> "payment.paid"],
     Paid      |-> [status |-> "paid",    event |-> "payment.paid"]]

\* Node statuses that end a payment; any other leaves the row alone.
TERMINAL_TRANSITIONS ==
    [Expired   |-> [status |-> "expired", event |-> "invoice.expired"],
     Cancelled |-> [status |-> "failed",  event |-> "invoice.failed"],
     Paid      |-> [status |-> "paid",    event |-> "payment.paid"]]

Notification == [inv : Invoices, status : NodeStatuses]
Trigger == [inv : Invoices, event : WebhookEvents, by : Runs \cup {"listener"}]

\* A run: its program counter, the `now` captured when it started, the rows
\* of the batch still to be polled, and the row and node answer it holds
\* between getInvoiceStatus() and the UPDATE.  "settled" is history: the
\* invoices of its batch that were Paid on the node before it began and
\* whose check by this run has not failed.
Run == [pc : {"idle", "select", "poll", "apply", "drain"},
        now : 0..MaxTime,
        todo : SUBSET Invoices,
        cur : Invoices \cup {NoInvoice},
        seen : NodeStatuses,
        settled : SUBSET Invoices]

IdleRun == [pc |-> "idle", now |-> 0, todo |-> {}, cur |-> NoInvoice,
            seen |-> "None", settled |-> {}]

OwnTriggers(c) == {t \in triggers : t.by = c}

Init ==
    /\ now = 0
    /\ node = [i \in Invoices |-> "None"]
    /\ api = [i \in Invoices |-> "idle"]
    /\ status = [i \in Invoices |-> "absent"]
    /\ expiresAt = [i \in Invoices |-> 0]
    /\ queued = [i \in Invoices |-> [e \in WebhookEvents |-> 0]]
    /\ run = [c \in Runs |-> IdleRun]
    /\ isRunning = FALSE
    /\ events = {}
    /\ triggers = {}
    /\ lost = {}
    /\ faults = 0
    /\ crashes = 0

\* A failed RPC call or SQL statement, within the bound.
Fault ==
    /\ faults < MaxFaults
    /\ faults' = faults + 1
    /\ UNCHANGED crashes

-----------------------------------------------------------------------------
(* createInvoice(): new_invoice on the node, then the INSERT               *)

NewInvoice(i, life) ==
    /\ api[i] = "idle"
    /\ now + life < MaxTime
    /\ node' = [node EXCEPT ![i] = "Open"]
    /\ api' = [api EXCEPT ![i] = "inserting"]
    /\ expiresAt' = [expiresAt EXCEPT ![i] = now + life]
    /\ UNCHANGED <<now, status, queued, run, isRunning, events, triggers, budget>>

\* The node created the invoice but its answer timed out.
NewInvoiceReplyLost(i) ==
    /\ api[i] = "idle"
    /\ node' = [node EXCEPT ![i] = "Open"]
    /\ api' = [api EXCEPT ![i] = "orphaned"]
    /\ Fault
    /\ UNCHANGED <<now, dbVars, run, isRunning, events, triggers, lost>>

InsertInvoice(i) ==
    /\ api[i] = "inserting"
    /\ api' = [api EXCEPT ![i] = "done"]
    /\ status' = [status EXCEPT ![i] = "pending"]
    /\ UNCHANGED <<now, node, expiresAt, queued, run, isRunning, events,
                   triggers, budget>>

InsertInvoiceFails(i) ==
    /\ api[i] = "inserting"
    /\ api' = [api EXCEPT ![i] = "orphaned"]
    /\ Fault
    /\ UNCHANGED <<now, node, dbVars, run, isRunning, events, triggers, lost>>

-----------------------------------------------------------------------------
(* The Fiber node moves an invoice, and tells the listener or not: the     *)
(* subscription may be down, and nothing is replayed later.                *)

NodeMoves(i, s) ==
    /\ s \in NodeNext[node[i]]
    /\ node' = [node EXCEPT ![i] = s]
    /\ events' \in {events, events \cup {[inv |-> i, status |-> s]}}
    /\ UNCHANGED <<now, api, dbVars, run, isRunning, triggers, budget>>

-----------------------------------------------------------------------------
(* applyNodeStatus(): one UPDATE ... WHERE status = 'pending' RETURNING,   *)
(* and a call of triggerWebhook() when it returned the row.                *)

\* Faulty variant: the UPDATE does not re-check status = 'pending'.
ApplyAnyStatus(i, s, by) ==
    IF s \in DOMAIN TERMINAL_TRANSITIONS /\ status[i] # "absent"
    THEN /\ status' = [status EXCEPT ![i] = TERMINAL_TRANSITIONS[s].status]
         /\ triggers' = triggers \cup
                {[inv |-> i, event |-> TERMINAL_TRANSITIONS[s].event, by |-> by]}
    ELSE UNCHANGED <<status, triggers>>

ApplyNodeStatus(i, s, by) ==
    IF s \in DOMAIN TERMINAL_TRANSITIONS /\ status[i] = "pending"
    THEN /\ status' = [status EXCEPT ![i] = TERMINAL_TRANSITIONS[s].status]
         /\ triggers' = triggers \cup
                {[inv |-> i, event |-> TERMINAL_TRANSITIONS[s].event, by |-> by]}
    ELSE UNCHANGED <<status, triggers>>

\* applyInvoiceStatusUpdate(): handlers of different events are not
\* serialised with one another, nor with the poll cycles.
ListenerApplies(m) ==
    /\ ApplyNodeStatus(m.inv, m.status, "listener")
    /\ events' = events \ {m}
    /\ UNCHANGED <<now, node, api, expiresAt, queued, run, isRunning, budget>>

ListenerApplyFails(m) ==
    /\ events' = events \ {m}
    /\ Fault
    /\ UNCHANGED <<now, node, api, dbVars, run, isRunning, triggers, lost>>

\* triggerWebhook(): the rows of webhook_deliveries are written.
TriggerWebhook(t) ==
    /\ queued' = [queued EXCEPT ![t.inv][t.event] = @ + 1]
    /\ triggers' = triggers \ {t}
    /\ UNCHANGED <<now, node, api, status, expiresAt, run, isRunning, events, budget>>

\* Its SELECT or its INSERT throws; no caller tries again.
TriggerWebhookFails(t) ==
    /\ triggers' = triggers \ {t}
    /\ lost' = lost \cup {t.inv}
    /\ Fault
    /\ UNCHANGED <<now, node, api, dbVars, run, isRunning, events>>

-----------------------------------------------------------------------------
(* runPollCycle() and its two callers                                      *)

Begin(c) ==
    run' = [run EXCEPT ![c] =
               [IdleRun EXCEPT !.pc = "select", !.now = now,
                               !.settled = {i \in Invoices : node[i] = "Paid"}]]

\* Faulty variant: no finally, the flag stays up.
EndFlagUp(c) ==
    /\ run' = [run EXCEPT ![c] = IdleRun]
    /\ UNCHANGED isRunning

End(c) ==
    /\ run' = [run EXCEPT ![c] = IdleRun]
    /\ isRunning' = (isRunning /\ c \notin TimerRuns)

\* setInterval's callback: a tick that finds a cycle in flight is skipped.
\* Faulty variant: no re-entrancy guard.
TimerTickUnguarded(c) ==
    /\ run[c].pc = "idle"
    /\ isRunning' = TRUE
    /\ Begin(c)
    /\ UNCHANGED <<now, node, api, events, triggers, dbVars, budget>>

TimerTick(c) ==
    /\ run[c].pc = "idle"
    /\ ~isRunning
    /\ isRunning' = TRUE
    /\ Begin(c)
    /\ UNCHANGED <<now, node, api, events, triggers, dbVars, budget>>

\* POST /api/cron/poll-invoices looks at no flag.
CronRequest(c) ==
    /\ run[c].pc = "idle"
    /\ Begin(c)
    /\ UNCHANGED <<now, node, api, isRunning, events, triggers, dbVars, budget>>

\* The rows pollPendingBatch() may return: at most BatchSize of the pending
\* ones inside the window, in no order.
Eligible(c) == {i \in Invoices : /\ status[i] = "pending"
                                 /\ expiresAt[i] > run[c].now - PollWindow}

Batches(c) == {B \in SUBSET Eligible(c) :
                 \/ Cardinality(B) = BatchSize
                 \/ B = Eligible(c) /\ Cardinality(B) < BatchSize}

SelectBatch(c) ==
    /\ run[c].pc = "select"
    /\ \E B \in Batches(c) :
          run' = [run EXCEPT ![c].pc = "poll", ![c].todo = B,
                             ![c].settled = @ \cap B]
    /\ UNCHANGED <<now, node, api, isRunning, events, triggers, dbVars, budget>>

\* The SELECT or the bulk UPDATE throws: the caller's catch ends the run.
RunFails(c) ==
    /\ \/ run[c].pc = "select"
       \/ run[c].pc = "poll" /\ run[c].todo = {} /\ OwnTriggers(c) = {}
    /\ End(c)
    /\ Fault
    /\ UNCHANGED <<now, node, api, events, triggers, dbVars, lost>>

\* pollOneInvoice(), one row at a time: the previous row's triggerWebhook()
\* is awaited before the next getInvoiceStatus().
GetInvoiceStatus(c, i) ==
    /\ run[c].pc = "poll" /\ i \in run[c].todo /\ OwnTriggers(c) = {}
    /\ run' = [run EXCEPT ![c].pc = "apply", ![c].todo = @ \ {i},
                          ![c].cur = i, ![c].seen = node[i]]
    /\ UNCHANGED <<now, node, api, isRunning, events, triggers, dbVars, budget>>

\* Timeout or RPC error: skip this row.
GetInvoiceStatusFails(c, i) ==
    /\ run[c].pc = "poll" /\ i \in run[c].todo /\ OwnTriggers(c) = {}
    /\ run' = [run EXCEPT ![c].todo = @ \ {i}, ![c].settled = @ \ {i}]
    /\ Fault
    /\ UNCHANGED <<now, node, api, isRunning, events, triggers, dbVars, lost>>

RunApplies(c) ==
    /\ run[c].pc = "apply"
    /\ ApplyNodeStatus(run[c].cur, run[c].seen, c)
    /\ run' = [run EXCEPT ![c].pc = "poll", ![c].cur = NoInvoice, ![c].seen = "None"]
    /\ UNCHANGED <<now, node, api, isRunning, events, expiresAt, queued, budget>>

RunApplyFails(c) ==
    /\ run[c].pc = "apply"
    /\ run' = [run EXCEPT ![c].pc = "poll", ![c].cur = NoInvoice, ![c].seen = "None",
                          ![c].settled = @ \ {run[c].cur}]
    /\ Fault
    /\ UNCHANGED <<now, node, api, isRunning, events, triggers, dbVars, lost>>

\* expireOverdueInvoices(): one bulk UPDATE from the run's own `now`.
\* Faulty variant: lte() for lt().
OverdueInclusive(c) == {i \in Invoices : status[i] = "pending" /\ expiresAt[i] <= run[c].now}

Overdue(c) == {i \in Invoices : status[i] = "pending" /\ expiresAt[i] < run[c].now}

\* Faulty variants: pollPendingBatch() is not awaited, and the expired rows
\* are not announced.
ExpireOverdueAtOnce(c) ==
    /\ run[c].pc = "poll" /\ OwnTriggers(c) = {}
    /\ status' = [i \in Invoices |-> IF i \in Overdue(c) THEN "expired" ELSE status[i]]
    /\ triggers' = triggers \cup
          {[inv |-> i, event |-> "invoice.expired", by |-> c] : i \in Overdue(c)}
    /\ run' = [run EXCEPT ![c].pc = "drain"]
    /\ UNCHANGED <<now, node, api, isRunning, events, expiresAt, queued, budget>>

ExpireOverdueSilently(c) ==
    /\ run[c].pc = "poll" /\ run[c].todo = {} /\ OwnTriggers(c) = {}
    /\ status' = [i \in Invoices |-> IF i \in Overdue(c) THEN "expired" ELSE status[i]]
    /\ run' = [run EXCEPT ![c].pc = "drain"]
    /\ UNCHANGED <<now, node, api, isRunning, events, triggers, expiresAt, queued, budget>>

ExpireOverdue(c) ==
    /\ run[c].pc = "poll" /\ run[c].todo = {} /\ OwnTriggers(c) = {}
    /\ status' = [i \in Invoices |-> IF i \in Overdue(c) THEN "expired" ELSE status[i]]
    /\ triggers' = triggers \cup
          {[inv |-> i, event |-> "invoice.expired", by |-> c] : i \in Overdue(c)}
    /\ run' = [run EXCEPT ![c].pc = "drain"]
    /\ UNCHANGED <<now, node, api, isRunning, events, expiresAt, queued, budget>>

\* Promise.allSettled() over the triggers is awaited, then the run is over.
FinishRun(c) ==
    /\ run[c].pc = "drain" /\ OwnTriggers(c) = {}
    /\ End(c)
    /\ UNCHANGED <<now, node, api, events, triggers, dbVars, budget>>

-----------------------------------------------------------------------------
(* The clock, and a crash followed by a restart: only PostgreSQL and the   *)
(* node keep their state.                                                  *)

Tick ==
    /\ now < MaxTime
    /\ now' = now + 1
    /\ UNCHANGED <<node, api, run, isRunning, events, triggers, dbVars, budget>>

Crash ==
    /\ crashes < MaxCrashes
    /\ crashes' = crashes + 1
    /\ api' = [i \in Invoices |-> IF api[i] = "inserting" THEN "orphaned" ELSE api[i]]
    /\ run' = [c \in Runs |-> IdleRun]
    /\ isRunning' = FALSE
    /\ events' = {}
    /\ lost' = lost \cup {t.inv : t \in triggers}
    /\ triggers' = {}
    /\ UNCHANGED <<now, node, dbVars, faults>>

-----------------------------------------------------------------------------
CreateStep == \E i \in Invoices :
    \/ \E life \in Lifetimes : NewInvoice(i, life)
    \/ NewInvoiceReplyLost(i)
    \/ InsertInvoice(i)
    \/ InsertInvoiceFails(i)

ListenerStep == \E m \in events : ListenerApplies(m) \/ ListenerApplyFails(m)

TriggerStep == \E t \in triggers : TriggerWebhook(t) \/ TriggerWebhookFails(t)

RunStep(c) ==
    \/ SelectBatch(c)
    \/ RunFails(c)
    \/ \E i \in Invoices : GetInvoiceStatus(c, i) \/ GetInvoiceStatusFails(c, i)
    \/ RunApplies(c)
    \/ RunApplyFails(c)
    \/ ExpireOverdue(c)
    \/ FinishRun(c)

Next ==
    \/ CreateStep
    \/ \E i \in Invoices, s \in NodeStatuses : NodeMoves(i, s)
    \/ ListenerStep
    \/ TriggerStep
    \/ \E c \in TimerRuns : TimerTick(c)
    \/ \E c \in CronRuns : CronRequest(c)
    \/ \E c \in Runs : RunStep(c)
    \/ Tick
    \/ Crash

Spec == Init /\ [][Next]_vars

\* The event loop keeps running: time passes, the interval timer keeps
\* firing, and every await of a started call settles (RPC calls and requests
\* have timeouts).  Nothing is assumed of the API's callers, of the node, of
\* the cron route or of a listener event that never came.
Fairness ==
    /\ WF_vars(Tick)
    /\ WF_vars(ListenerStep)
    /\ WF_vars(TriggerStep)
    /\ WF_vars(\E c \in TimerRuns : TimerTick(c))
    /\ \A c \in Runs : WF_vars(RunStep(c))

FairSpec == Spec /\ Fairness

-----------------------------------------------------------------------------
(* Properties                                                              *)

\* Every variable has its type, and a run that is about to apply a node status
\* knows whose it is.
TypeOK ==
    /\ now \in 0..MaxTime
    /\ node \in [Invoices -> NodeStatuses]
    /\ api \in [Invoices -> {"idle", "inserting", "done", "orphaned"}]
    /\ status \in [Invoices -> Statuses]
    /\ expiresAt \in [Invoices -> 0..MaxTime]
    /\ queued \in [Invoices -> [WebhookEvents -> Nat]]
    /\ run \in [Runs -> Run]
    /\ \A c \in Runs : run[c].pc = "apply" => run[c].cur \in Invoices
    /\ isRunning \in BOOLEAN
    /\ events \subseteq Notification
    /\ triggers \subseteq Trigger
    /\ lost \subseteq Invoices
    /\ faults \in 0..MaxFaults
    /\ crashes \in 0..MaxCrashes

\* Event e belongs to the status the row has.
Announces(i, e) == \E s \in FinalNode : /\ TERMINAL_TRANSITIONS[s].status = status[i]
                                        /\ TERMINAL_TRANSITIONS[s].event = e

\* BR-STS-001, and what the comment of applyNodeStatus() claims of the race
\* between the poller, the cron route and the listener: each invoice's outcome
\* is queued for delivery at most once, and only as the event of the status
\* the row has and keeps.
OutcomeQueuedOnce ==
    \A i \in Invoices, e \in WebhookEvents :
        queued[i][e] > 0 =>
            queued[i][e] = 1 /\ Announces(i, e)

\* A row says paid (failed) only when the node says Paid (Cancelled): neither
\* an answer read before an await nor a late or out-of-order listener event
\* makes the gateway believe in a payment that did not settle.
OutcomeMatchesNode ==
    \A i \in Invoices :
        /\ status[i] = "paid" => node[i] = "Paid"
        /\ status[i] = "failed" => node[i] = "Cancelled"

\* An invoice with a terminal status has been announced, is being announced,
\* or a crash or a failed statement hit that very announcement: no
\* interleaving of the runs and the listener drops one by itself.
NoSilentLoss ==
    \A i \in Invoices :
        status[i] \in Terminal =>
            \/ \E e \in WebhookEvents : queued[i][e] > 0
            \/ \E t \in triggers : t.inv = i
            \/ i \in lost

\* The two halves of "once": never twice, and never silently not at all.
AnnouncedOnce == OutcomeQueuedOnce /\ NoSilentLoss

\* worker.ts: the interval worker never overlaps itself, however long the
\* Fiber node makes a cycle take.
OneTimerRun ==
    \A c, d \in TimerRuns : run[c].pc # "idle" /\ run[d].pc # "idle" => c = d

\* BR-STS-002: a run's bulk expiry never takes an invoice that was already
\* Paid on the node when the run began, that the run's batch contains, and
\* whose check by the run did not fail.
SettledPaymentBeatsClock ==
    [][\A c \in Runs :
          run[c].pc = "poll" /\ run'[c].pc = "drain" =>
              \A i \in run[c].settled : ~(status[i] = "pending" /\ status'[i] = "expired")]_vars

\* A pending row becomes expired only if the node says so or its deadline has
\* passed on the clock, although the run compares with the `now` it captured
\* before polling its whole batch.
NoEarlyExpiry ==
    [][\A i \in Invoices :
          status[i] = "pending" /\ status'[i] = "expired" =>
              node[i] = "Expired" \/ now > expiresAt[i]]_vars

\* The abstract lifecycle this module implements.
Lifecycle == INSTANCE InvoiceLifecycle WITH Invoices <- Invoices, status <- status, queued <- queued

ImplementsLifecycle == Lifecycle!LifecycleSpec

\* Every invoice that reaches the database ends up announced, unless a crash
\* or a failed statement hits its announcement: failing cycles do not stop
\* the worker, and rows the poll window no longer covers are still settled.
EveryInvoiceAnnounced ==
    \A i \in Invoices :
        status[i] = "pending" ~> \/ \E e \in WebhookEvents : queued[i][e] > 0
                                 \/ i \in lost
=============================================================================
