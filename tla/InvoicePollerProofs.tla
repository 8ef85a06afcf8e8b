------------------------- MODULE InvoicePollerProofs -------------------------
(* Theorems about InvoicePoller, for every number of invoices, runs,       *)
(* failures and crashes.                                                   *)
EXTENDS InvoicePoller, TLAPS

USE DEF Runs, BoundsAssumption, LifetimesAssumption

-----------------------------------------------------------------------------
(* Type correctness                                                        *)

\* A final node status has a final gateway status and an event.
LEMMA TransitionTypes ==
    ASSUME NEW s \in DOMAIN TERMINAL_TRANSITIONS
    PROVE  /\ s \in FinalNode
           /\ TERMINAL_TRANSITIONS[s].status \in Terminal
           /\ TERMINAL_TRANSITIONS[s].event \in WebhookEvents
BY DEF TERMINAL_TRANSITIONS, FinalNode, Terminal, WebhookEvents

\* An UPDATE by anybody keeps the types of the row and of the triggers.
LEMMA ApplyTypes ==
    ASSUME TypeOK, NEW i \in Invoices, NEW s, NEW by \in Runs \cup {"listener"},
           ApplyNodeStatus(i, s, by)
    PROVE  /\ status' \in [Invoices -> Statuses]
           /\ triggers' \subseteq Trigger
<1>1. CASE s \in DOMAIN TERMINAL_TRANSITIONS /\ status[i] = "pending"
  <2>1. /\ TERMINAL_TRANSITIONS[s].status \in Terminal
        /\ TERMINAL_TRANSITIONS[s].event \in WebhookEvents
    BY <1>1, TransitionTypes
  <2>2. [inv |-> i, event |-> TERMINAL_TRANSITIONS[s].event, by |-> by] \in Trigger
    BY <2>1 DEF Trigger
  <2>3. QED BY <1>1, <2>1, <2>2 DEF TypeOK, ApplyNodeStatus, Statuses
<1>2. CASE ~(s \in DOMAIN TERMINAL_TRANSITIONS /\ status[i] = "pending")
  BY <1>2 DEF TypeOK, ApplyNodeStatus
<1>3. QED BY <1>1, <1>2

\* The record of an invocation that has not begun is well typed.
LEMMA IdleRunType == IdleRun \in Run
BY BoundsAssumption DEF Run, IdleRun, NodeStatuses

\* The initial state is well typed.
LEMMA InitTypeOK == Init => TypeOK
<1> SUFFICES ASSUME Init PROVE TypeOK
  OBVIOUS
<1>1. run \in [Runs -> Run] /\ \A c \in Runs : run[c].pc # "apply"
  BY IdleRunType DEF Init, IdleRun
<1>2. queued \in [Invoices -> [WebhookEvents -> Nat]]
  BY DEF Init
<1>3. now \in 0..MaxTime /\ expiresAt \in [Invoices -> 0..MaxTime]
  BY BoundsAssumption DEF Init
<1>4. faults \in 0..MaxFaults /\ crashes \in 0..MaxCrashes
  BY BoundsAssumption DEF Init
<1>5. QED BY <1>1, <1>2, <1>3, <1>4 DEF Init, TypeOK, NodeStatuses, Statuses

\* Every step keeps the types.
LEMMA NextTypeOK == TypeOK /\ [Next]_vars => TypeOK'
<1> SUFFICES ASSUME TypeOK, [Next]_vars PROVE TypeOK'
  OBVIOUS
<1> USE BoundsAssumption
<1>1. ASSUME NEW i \in Invoices, NEW life \in Lifetimes, NewInvoice(i, life)
      PROVE  TypeOK'
  <2>1. now + life \in 0..MaxTime
    BY <1>1, LifetimesAssumption DEF NewInvoice, TypeOK
  <2>2. QED BY <1>1, <2>1 DEF NewInvoice, TypeOK, dbVars, budget, NodeStatuses
<1>2. ASSUME NEW i \in Invoices, NewInvoiceReplyLost(i) PROVE TypeOK'
  BY <1>2 DEF NewInvoiceReplyLost, Fault, TypeOK, dbVars, budget, NodeStatuses
<1>3. ASSUME NEW i \in Invoices, InsertInvoice(i) PROVE TypeOK'
  BY <1>3 DEF InsertInvoice, TypeOK, budget, Statuses
<1>4. ASSUME NEW i \in Invoices, InsertInvoiceFails(i) PROVE TypeOK'
  BY <1>4 DEF InsertInvoiceFails, Fault, TypeOK, dbVars
<1>5. ASSUME NEW i \in Invoices, NEW s \in NodeStatuses, NodeMoves(i, s)
      PROVE  TypeOK'
  BY <1>5 DEF NodeMoves, TypeOK, dbVars, budget, Notification
<1>6. ASSUME NEW m \in events, ListenerApplies(m) PROVE TypeOK'
  <2>1. m.inv \in Invoices
    BY <1>6 DEF TypeOK, Notification
  <2>2. status' \in [Invoices -> Statuses] /\ triggers' \subseteq Trigger
    BY <1>6, <2>1, ApplyTypes DEF ListenerApplies
  <2>3. events' \subseteq Notification
    BY <1>6 DEF ListenerApplies, TypeOK
  <2>4. QED BY <1>6, <2>2, <2>3 DEF ListenerApplies, TypeOK, budget
<1>7. ASSUME NEW m \in events, ListenerApplyFails(m) PROVE TypeOK'
  BY <1>7 DEF ListenerApplyFails, Fault, TypeOK, dbVars
<1>8. ASSUME NEW t \in triggers, TriggerWebhook(t) PROVE TypeOK'
  <2>1. t.inv \in Invoices /\ t.event \in WebhookEvents
    BY DEF TypeOK, Trigger
  <2> DEFINE new == [queued[t.inv] EXCEPT ![t.event] = @ + 1]
  <2>2. new \in [WebhookEvents -> Nat]
    BY <2>1 DEF TypeOK
  <2>3. queued' = [queued EXCEPT ![t.inv] = new]
    BY <1>8 DEF TriggerWebhook
  <2> HIDE DEF new
  <2>4. QED BY <1>8, <2>1, <2>2, <2>3 DEF TriggerWebhook, TypeOK, budget
<1>9. ASSUME NEW t \in triggers, TriggerWebhookFails(t) PROVE TypeOK'
  <2>1. t.inv \in Invoices
    BY DEF TypeOK, Trigger
  <2>2. lost' \subseteq Invoices /\ triggers' \subseteq Trigger
    BY <1>9, <2>1 DEF TriggerWebhookFails, TypeOK
  <2>3. QED BY <1>9, <2>2 DEF TriggerWebhookFails, Fault, TypeOK, dbVars
<1>10. ASSUME NEW c \in Runs, Begin(c)
       PROVE  /\ run' \in [Runs -> Run]
              /\ \A d \in Runs : run'[d].pc = "apply" => run'[d].cur \in Invoices
  <2> DEFINE new == [IdleRun EXCEPT !.pc = "select", !.now = now,
                                    !.settled = {i \in Invoices : node[i] = "Paid"}]
  <2>1. new \in Run /\ new.pc = "select"
    BY DEF TypeOK, Run, IdleRun, NodeStatuses
  <2>2. run' = [run EXCEPT ![c] = new]
    BY <1>10 DEF Begin
  <2> HIDE DEF new
  <2>3. QED BY <2>1, <2>2 DEF TypeOK
<1>11. ASSUME NEW c \in Runs, TimerTick(c) \/ CronRequest(c) PROVE TypeOK'
  BY <1>10, <1>11 DEF TimerTick, CronRequest, TypeOK, dbVars, budget
<1>12. ASSUME NEW c \in Runs, SelectBatch(c) PROVE TypeOK'
  <2>1. PICK B \in SUBSET Invoices :
           run' = [run EXCEPT ![c].pc = "poll", ![c].todo = B,
                              ![c].settled = @ \cap B]
    BY <1>12 DEF SelectBatch, Batches, Eligible
  <2> DEFINE new == [run[c] EXCEPT !.pc = "poll", !.todo = B, !.settled = @ \cap B]
  <2>2. run[c] \in Run
    BY DEF TypeOK
  <2>3. new \in Run /\ new.pc = "poll"
    BY <2>2 DEF Run
  <2>4. run' = [run EXCEPT ![c] = new]
    BY <2>1
  <2> HIDE DEF new
  <2>5. QED BY <1>12, <2>3, <2>4 DEF SelectBatch, TypeOK, dbVars, budget
<1>14. ASSUME NEW c \in Runs, NEW i \in Invoices, GetInvoiceStatus(c, i)
       PROVE  TypeOK'
  <2> DEFINE new == [run[c] EXCEPT !.pc = "apply", !.todo = @ \ {i},
                                   !.cur = i, !.seen = node[i]]
  <2>1. run[c] \in Run /\ node[i] \in NodeStatuses
    BY DEF TypeOK
  <2>2. new \in Run /\ new.cur \in Invoices
    BY <2>1 DEF Run
  <2>3. run' = [run EXCEPT ![c] = new]
    BY <1>14 DEF GetInvoiceStatus
  <2> HIDE DEF new
  <2>4. /\ run' \in [Runs -> Run]
        /\ \A d \in Runs : run'[d].pc = "apply" => run'[d].cur \in Invoices
    BY <2>2, <2>3 DEF TypeOK
  <2>5. QED BY <1>14, <2>4 DEF GetInvoiceStatus, TypeOK, dbVars, budget
<1>15. ASSUME NEW c \in Runs, NEW i \in Invoices, GetInvoiceStatusFails(c, i)
       PROVE  TypeOK'
  <2> DEFINE new == [run[c] EXCEPT !.todo = @ \ {i}, !.settled = @ \ {i}]
  <2>1. run[c] \in Run /\ run[c].pc = "poll"
    BY <1>15 DEF TypeOK, GetInvoiceStatusFails
  <2>2. new \in Run /\ new.pc = "poll"
    BY <2>1 DEF Run
  <2>3. run' = [run EXCEPT ![c] = new]
    BY <1>15 DEF GetInvoiceStatusFails
  <2> HIDE DEF new
  <2>4. /\ run' \in [Runs -> Run]
        /\ \A d \in Runs : run'[d].pc = "apply" => run'[d].cur \in Invoices
    BY <2>2, <2>3 DEF TypeOK
  <2>5. /\ faults' \in 0..MaxFaults
        /\ UNCHANGED <<now, node, api, status, expiresAt, queued, isRunning,
                       events, triggers, lost, crashes>>
    BY <1>15 DEF GetInvoiceStatusFails, Fault, TypeOK, dbVars
  <2>6. QED BY <2>4, <2>5 DEF TypeOK
<1>16. ASSUME NEW c \in Runs, RunApplies(c) PROVE TypeOK'
  <2> DEFINE new == [run[c] EXCEPT !.pc = "poll", !.cur = NoInvoice, !.seen = "None"]
  <2>1. status' \in [Invoices -> Statuses] /\ triggers' \subseteq Trigger
    BY <1>16, ApplyTypes DEF RunApplies, TypeOK
  <2>2. run[c] \in Run
    BY DEF TypeOK
  <2>3. new \in Run /\ new.pc = "poll"
    BY <2>2 DEF Run, NodeStatuses
  <2>4. run' = [run EXCEPT ![c] = new]
    BY <1>16 DEF RunApplies
  <2> HIDE DEF new
  <2>5. QED BY <1>16, <2>1, <2>3, <2>4 DEF RunApplies, TypeOK, budget
<1>17. ASSUME NEW c \in Runs, RunApplyFails(c) PROVE TypeOK'
  <2> DEFINE new == [run[c] EXCEPT !.pc = "poll", !.cur = NoInvoice, !.seen = "None",
                                   !.settled = @ \ {run[c].cur}]
  <2>1. run[c] \in Run
    BY DEF TypeOK
  <2>2. new \in Run /\ new.pc = "poll"
    BY <2>1 DEF Run, NodeStatuses
  <2>3. run' = [run EXCEPT ![c] = new]
    BY <1>17 DEF RunApplyFails
  <2> HIDE DEF new
  <2>4. /\ run' \in [Runs -> Run]
        /\ \A d \in Runs : run'[d].pc = "apply" => run'[d].cur \in Invoices
    BY <2>2, <2>3 DEF TypeOK
  <2>5. /\ faults' \in 0..MaxFaults
        /\ UNCHANGED <<now, node, api, status, expiresAt, queued, isRunning,
                       events, triggers, lost, crashes>>
    BY <1>17 DEF RunApplyFails, Fault, TypeOK, dbVars
  <2>6. QED BY <2>4, <2>5 DEF TypeOK
<1>18. ASSUME NEW c \in Runs, ExpireOverdue(c) PROVE TypeOK'
  <2> DEFINE new == [run[c] EXCEPT !.pc = "drain"]
  <2>1. run[c] \in Run
    BY DEF TypeOK
  <2>2. new \in Run /\ new.pc = "drain"
    BY <2>1 DEF Run
  <2>3. run' = [run EXCEPT ![c] = new]
    BY <1>18 DEF ExpireOverdue
  <2>4. status' \in [Invoices -> Statuses]
    BY <1>18 DEF ExpireOverdue, TypeOK, Statuses, Terminal
  <2>5. \A i \in Invoices :
          [inv |-> i, event |-> "invoice.expired", by |-> c] \in Trigger
    BY DEF Trigger, WebhookEvents
  <2>6. triggers' \subseteq Trigger
    BY <1>18, <2>5 DEF ExpireOverdue, Overdue, TypeOK
  <2> HIDE DEF new
  <2>7. QED BY <1>18, <2>2, <2>3, <2>4, <2>6 DEF ExpireOverdue, TypeOK, budget
<1>19. ASSUME NEW c \in Runs, End(c)
       PROVE  /\ run' \in [Runs -> Run] /\ isRunning' \in BOOLEAN
              /\ \A d \in Runs : run'[d].pc = "apply" => run'[d].cur \in Invoices
  <2>1. IdleRun.pc # "apply"
    BY DEF IdleRun
  <2>2. QED BY <1>19, <2>1, IdleRunType DEF End, TypeOK
<1>20. ASSUME NEW c \in Runs, RunFails(c) \/ FinishRun(c) PROVE TypeOK'
  <2>1. End(c)
    BY <1>20 DEF RunFails, FinishRun
  <2>2. QED BY <1>20, <1>19, <2>1
            DEF RunFails, FinishRun, Fault, TypeOK, dbVars, budget
<1>21. ASSUME Tick PROVE TypeOK'
  BY <1>21 DEF Tick, TypeOK, dbVars, budget
<1>22. ASSUME Crash PROVE TypeOK'
  <2>1. /\ run' \in [Runs -> Run]
        /\ \A d \in Runs : run'[d].pc = "apply" => run'[d].cur \in Invoices
    BY <1>22, IdleRunType DEF Crash, IdleRun
  <2>2. lost' \subseteq Invoices
    BY <1>22 DEF Crash, TypeOK, Trigger
  <2>3. api' \in [Invoices -> {"idle", "inserting", "done", "orphaned"}]
    BY <1>22 DEF Crash, TypeOK
  <2>4. crashes' \in 0..MaxCrashes
    BY <1>22 DEF Crash, TypeOK
  <2>5. events' \subseteq Notification /\ triggers' \subseteq Trigger /\ isRunning' \in BOOLEAN
    BY <1>22 DEF Crash
  <2>6. UNCHANGED <<now, node, status, expiresAt, queued, faults>>
    BY <1>22 DEF Crash, dbVars
  <2>7. QED BY <2>1, <2>2, <2>3, <2>4, <2>5, <2>6 DEF TypeOK
<1>23. ASSUME UNCHANGED vars PROVE TypeOK'
  BY <1>23 DEF vars, dbVars, budget, TypeOK
<1>24. QED
  BY <1>1, <1>2, <1>3, <1>4, <1>5, <1>6, <1>7, <1>8, <1>9, <1>11, <1>12, <1>14,
     <1>15, <1>16, <1>17, <1>18, <1>20, <1>21, <1>22, <1>23
     DEF Next, CreateStep, ListenerStep, TriggerStep, RunStep

\* Every reachable state is well typed.
THEOREM TypeCorrect == Spec => []TypeOK
<1>1. QED BY InitTypeOK, NextTypeOK, PTL DEF Spec

-----------------------------------------------------------------------------
(* What a step can do to the rows and to the announcements under way.      *)
(* Every action of InvoicePoller does one of six things.                   *)

RowsKept == UNCHANGED <<status, queued, triggers>> /\ lost \subseteq lost'

RowInserted == \E i \in Invoices :
    /\ api[i] = "inserting"
    /\ api' = [api EXCEPT ![i] = "done"]
    /\ status' = [status EXCEPT ![i] = "pending"]
    /\ UNCHANGED <<queued, triggers, lost>>

RowSettled == \E i \in Invoices, s \in FinalNode, by \in Runs \cup {"listener"} :
    /\ status[i] = "pending"
    /\ status' = [status EXCEPT ![i] = TERMINAL_TRANSITIONS[s].status]
    /\ triggers' = triggers \cup
           {[inv |-> i, event |-> TERMINAL_TRANSITIONS[s].event, by |-> by]}
    /\ UNCHANGED <<queued, lost>>

RowsExpired == \E S \in SUBSET Invoices, c \in Runs :
    /\ \A i \in S : status[i] = "pending"
    /\ status' = [i \in Invoices |-> IF i \in S THEN "expired" ELSE status[i]]
    /\ triggers' = triggers \cup
           {[inv |-> i, event |-> "invoice.expired", by |-> c] : i \in S}
    /\ UNCHANGED <<queued, lost>>

TriggerDone == \E t \in triggers :
    /\ queued' = [queued EXCEPT ![t.inv][t.event] = @ + 1]
    /\ triggers' = triggers \ {t}
    /\ UNCHANGED <<status, lost>>

TriggersDropped == \E L \in SUBSET triggers :
    /\ triggers' = triggers \ L
    /\ lost' = lost \cup {t.inv : t \in L}
    /\ UNCHANGED <<status, queued>>

RowStep == \/ RowsKept \/ RowInserted \/ RowSettled
           \/ RowsExpired \/ TriggerDone \/ TriggersDropped

\* applyNodeStatus() settles one pending row, or leaves the rows alone.
LEMMA ApplyEffect ==
    ASSUME NEW i \in Invoices, NEW s, NEW by \in Runs \cup {"listener"},
           ApplyNodeStatus(i, s, by), UNCHANGED <<queued, lost>>
    PROVE  RowsKept \/ RowSettled
<1>1. CASE s \in DOMAIN TERMINAL_TRANSITIONS /\ status[i] = "pending"
  <2>1. s \in FinalNode
    BY <1>1, TransitionTypes
  <2>2. QED BY <1>1, <2>1 DEF ApplyNodeStatus, RowSettled
<1>2. CASE ~(s \in DOMAIN TERMINAL_TRANSITIONS /\ status[i] = "pending")
  BY <1>2 DEF ApplyNodeStatus, RowsKept
<1>3. QED BY <1>1, <1>2

\* Every step is one of the six.
LEMMA StepEffect == TypeOK /\ [Next]_vars => RowStep
<1> SUFFICES ASSUME TypeOK, [Next]_vars PROVE RowStep
  OBVIOUS
<1> USE DEF RowStep
<1>1. ASSUME CreateStep PROVE RowStep
  <2>1. ASSUME NEW i \in Invoices, NEW life \in Lifetimes, NewInvoice(i, life)
        PROVE  RowsKept
    BY <2>1 DEF NewInvoice, RowsKept, budget
  <2>2. ASSUME NEW i \in Invoices, NewInvoiceReplyLost(i) \/ InsertInvoiceFails(i)
        PROVE  RowsKept
    BY <2>2 DEF NewInvoiceReplyLost, InsertInvoiceFails, RowsKept, dbVars
  <2>3. ASSUME NEW i \in Invoices, InsertInvoice(i) PROVE RowInserted
    BY <2>3 DEF InsertInvoice, RowInserted, budget
  <2>4. QED BY <1>1, <2>1, <2>2, <2>3 DEF CreateStep
<1>2. ASSUME NEW i \in Invoices, NEW s \in NodeStatuses, NodeMoves(i, s)
      PROVE  RowsKept
  BY <1>2 DEF NodeMoves, RowsKept, dbVars, budget
<1>3. ASSUME NEW m \in events, ListenerApplies(m) PROVE RowStep
  <2>1. m.inv \in Invoices /\ UNCHANGED <<queued, lost>>
    BY <1>3 DEF TypeOK, Notification, ListenerApplies, budget
  <2>2. QED BY <1>3, <2>1, ApplyEffect DEF ListenerApplies
<1>4. ASSUME NEW m \in events, ListenerApplyFails(m) PROVE RowsKept
  BY <1>4 DEF ListenerApplyFails, RowsKept, dbVars
<1>5. ASSUME NEW t \in triggers, TriggerWebhook(t) PROVE TriggerDone
  BY <1>5 DEF TriggerWebhook, TriggerDone, budget
<1>6. ASSUME NEW t \in triggers, TriggerWebhookFails(t) PROVE TriggersDropped
  <2>1. {t} \in SUBSET triggers /\ lost' = lost \cup {u.inv : u \in {t}}
    BY <1>6 DEF TriggerWebhookFails
  <2>2. QED BY <1>6, <2>1 DEF TriggerWebhookFails, TriggersDropped, dbVars
<1>7. ASSUME NEW c \in Runs, TimerTick(c) \/ CronRequest(c) PROVE RowsKept
  BY <1>7 DEF TimerTick, CronRequest, RowsKept, dbVars, budget
<1>8. ASSUME NEW c \in Runs, RunApplies(c) PROVE RowStep
  <2>1. run[c].cur \in Invoices /\ UNCHANGED <<queued, lost>>
    BY <1>8 DEF TypeOK, RunApplies, budget
  <2>2. QED BY <1>8, <2>1, ApplyEffect DEF RunApplies
<1>9. ASSUME NEW c \in Runs, ExpireOverdue(c) PROVE RowsExpired
  <2>1. Overdue(c) \in SUBSET Invoices /\ \A i \in Overdue(c) : status[i] = "pending"
    BY DEF Overdue
  <2>2. UNCHANGED <<queued, lost>>
    BY <1>9 DEF ExpireOverdue, budget
  <2>3. /\ status' = [i \in Invoices |-> IF i \in Overdue(c) THEN "expired" ELSE status[i]]
        /\ triggers' = triggers \cup
               {[inv |-> i, event |-> "invoice.expired", by |-> c] : i \in Overdue(c)}
    BY <1>9 DEF ExpireOverdue
  <2>4. QED BY <2>1, <2>2, <2>3 DEF RowsExpired
<1>10. ASSUME NEW c \in Runs, SelectBatch(c) \/ FinishRun(c) \/
              (\E i \in Invoices : GetInvoiceStatus(c, i))
       PROVE  RowsKept
  BY <1>10 DEF SelectBatch, FinishRun, GetInvoiceStatus, RowsKept, dbVars, budget
<1>11. ASSUME NEW c \in Runs, RunFails(c) \/ RunApplyFails(c) \/
              (\E i \in Invoices : GetInvoiceStatusFails(c, i))
       PROVE  RowsKept
  BY <1>11 DEF RunFails, RunApplyFails, GetInvoiceStatusFails, RowsKept, dbVars
<1>12. ASSUME Tick PROVE RowsKept
  BY <1>12 DEF Tick, RowsKept, dbVars, budget
<1>13. ASSUME Crash PROVE TriggersDropped
  <2>1. triggers \in SUBSET triggers /\ triggers' = triggers \ triggers
    BY <1>13 DEF Crash
  <2>2. QED BY <1>13, <2>1 DEF Crash, TriggersDropped, dbVars
<1>14. ASSUME UNCHANGED vars PROVE RowsKept
  BY <1>14 DEF vars, dbVars, budget, RowsKept
<1>15. QED
  BY <1>1, <1>2, <1>3, <1>4, <1>5, <1>6, <1>7, <1>8, <1>9, <1>10, <1>11, <1>12,
     <1>13, <1>14
     DEF Next, ListenerStep, TriggerStep, RunStep

-----------------------------------------------------------------------------
(* The announcements.  OutcomeQueuedOnce is not inductive: a call of       *)
(* triggerWebhook() under way must be known to announce what its row says, *)
(* to be the only one for its row, and to come before anything was queued; *)
(* and the row an INSERT creates must be new.                              *)

TriggersPending == \A t \in triggers :
    Announces(t.inv, t.event) /\ \A e \in WebhookEvents : queued[t.inv][e] = 0

TriggersUnique == \A t, u \in triggers : t.inv = u.inv => t = u

RowIsNew == \A i \in Invoices :
    api[i] \in {"idle", "inserting"} => status[i] = "absent"

AnnouncementInv ==
    OutcomeQueuedOnce /\ TriggersPending /\ TriggersUnique /\ RowIsNew

\* The three outcomes that have an event.
LEMMA AnnouncesCases ==
    ASSUME NEW i, NEW e
    PROVE  Announces(i, e) <=> \/ status[i] = "paid" /\ e = "payment.paid"
                               \/ status[i] = "failed" /\ e = "invoice.failed"
                               \/ status[i] = "expired" /\ e = "invoice.expired"
BY DEF Announces, TERMINAL_TRANSITIONS, FinalNode

\* The same after a step.
LEMMA AnnouncesCasesNext ==
    ASSUME NEW i, NEW e
    PROVE  Announces(i, e)' <=> \/ status'[i] = "paid" /\ e = "payment.paid"
                                \/ status'[i] = "failed" /\ e = "invoice.failed"
                                \/ status'[i] = "expired" /\ e = "invoice.expired"
BY DEF Announces, TERMINAL_TRANSITIONS, FinalNode

\* An outcome can be announced only for a row that has it already, and a
\* pending or absent row has none.
LEMMA PendingUnannounced ==
    ASSUME TypeOK, AnnouncementInv, NEW i \in Invoices,
           status[i] \in {"pending", "absent"}
    PROVE  /\ \A e \in WebhookEvents : queued[i][e] = 0
           /\ \A t \in triggers : t.inv # i
<1>1. \A e : ~Announces(i, e)
  BY AnnouncesCases
<1>2. ASSUME NEW e \in WebhookEvents PROVE queued[i][e] = 0
  <2>1. queued[i][e] \in Nat
    BY DEF TypeOK
  <2>2. QED BY <1>1, <2>1 DEF AnnouncementInv, OutcomeQueuedOnce
<1>3. QED BY <1>1, <1>2 DEF AnnouncementInv, TriggersPending

\* An UPDATE that settles the rows of S and calls triggerWebhook() once for
\* each keeps the invariant, whoever executes it.
LEMMA SettleKeeps ==
    ASSUME TypeOK, AnnouncementInv, NEW S \in SUBSET Invoices, NEW s \in FinalNode,
           NEW by \in Runs \cup {"listener"},
           \A i \in S : status[i] = "pending",
           status' = [i \in Invoices |->
                         IF i \in S THEN TERMINAL_TRANSITIONS[s].status ELSE status[i]],
           triggers' = triggers \cup
               {[inv |-> i, event |-> TERMINAL_TRANSITIONS[s].event, by |-> by] : i \in S},
           queued' = queued
    PROVE  (OutcomeQueuedOnce /\ TriggersPending /\ TriggersUnique)'
<1> DEFINE new(i) == [inv |-> i, event |-> TERMINAL_TRANSITIONS[s].event, by |-> by]
<1>1. \A i \in S : /\ \A e \in WebhookEvents : queued[i][e] = 0
                   /\ \A t \in triggers : t.inv # i
  BY PendingUnannounced
<1>2. \A i \in S : Announces(i, TERMINAL_TRANSITIONS[s].event)'
  BY DEF Announces, TERMINAL_TRANSITIONS, FinalNode
<1>3. \A i \in Invoices \ S : \A e : Announces(i, e)' <=> Announces(i, e)
  BY AnnouncesCases, AnnouncesCasesNext
<1>4. OutcomeQueuedOnce'
  BY <1>1, <1>3 DEF AnnouncementInv, OutcomeQueuedOnce
<1>5. \A t \in triggers : t.inv \in Invoices \ S
  BY <1>1 DEF TypeOK, Trigger
<1>6. TriggersPending'
  <2>1. ASSUME NEW t \in triggers
        PROVE  Announces(t.inv, t.event)' /\ \A e \in WebhookEvents : queued'[t.inv][e] = 0
    BY <1>3, <1>5 DEF AnnouncementInv, TriggersPending
  <2>2. ASSUME NEW i \in S
        PROVE  /\ Announces(new(i).inv, new(i).event)'
               /\ \A e \in WebhookEvents : queued'[new(i).inv][e] = 0
    BY <1>1, <1>2
  <2>3. QED BY <2>1, <2>2 DEF TriggersPending
<1>7. TriggersUnique'
  BY <1>5 DEF AnnouncementInv, TriggersUnique
<1>8. QED BY <1>4, <1>6, <1>7

\* Every step keeps the row of a creation that has not inserted it absent.
LEMMA RowIsNewKept == TypeOK /\ RowIsNew /\ [Next]_vars => RowIsNew'
<1> SUFFICES ASSUME TypeOK, RowIsNew, [Next]_vars PROVE RowIsNew'
  OBVIOUS
<1>1. CASE CreateStep
  BY <1>1 DEF CreateStep, NewInvoice, NewInvoiceReplyLost, InsertInvoice,
              InsertInvoiceFails, RowIsNew, TypeOK, dbVars
<1>2. CASE Crash
  BY <1>2 DEF Crash, RowIsNew, TypeOK, dbVars
<1>3. ASSUME ~CreateStep, ~Crash PROVE UNCHANGED api
  BY <1>3 DEF Next, NodeMoves, ListenerStep, ListenerApplies, ListenerApplyFails,
              TriggerStep, TriggerWebhook, TriggerWebhookFails, TimerTick, CronRequest,
              RunStep, SelectBatch, RunFails, GetInvoiceStatus, GetInvoiceStatusFails,
              RunApplies, RunApplyFails, ExpireOverdue, FinishRun, Tick, vars
<1>4. ASSUME ~CreateStep, ~Crash, NEW i \in Invoices, status[i] = "absent"
      PROVE  status'[i] = "absent"
  <2>1. ~RowInserted
    BY <1>4, <1>3 DEF RowInserted, TypeOK
  <2>2. CASE RowSettled
    BY <1>4, <2>2 DEF RowSettled, TypeOK
  <2>3. CASE RowsExpired
    BY <1>4, <2>3 DEF RowsExpired
  <2>4. CASE UNCHANGED status
    BY <1>4, <2>4
  <2>5. QED
    BY <2>1, <2>2, <2>3, <2>4, StepEffect DEF RowStep, RowsKept, TriggerDone, TriggersDropped
<1>5. QED BY <1>1, <1>2, <1>3, <1>4 DEF RowIsNew

\* At first nothing is settled, announced or queued.
LEMMA AnnouncementInit == Init => AnnouncementInv
BY DEF Init, AnnouncementInv, OutcomeQueuedOnce, TriggersPending, TriggersUnique,
       RowIsNew

\* Every step keeps the announcements in step with the rows.
LEMMA AnnouncementNext == TypeOK /\ AnnouncementInv /\ [Next]_vars => AnnouncementInv'
<1> SUFFICES ASSUME TypeOK, AnnouncementInv, [Next]_vars
             PROVE  (OutcomeQueuedOnce /\ TriggersPending /\ TriggersUnique)'
  BY RowIsNewKept DEF AnnouncementInv
<1>1. CASE RowsKept
  BY <1>1, AnnouncesCases, AnnouncesCasesNext
     DEF RowsKept, AnnouncementInv, OutcomeQueuedOnce, TriggersPending, TriggersUnique
<1>2. CASE RowInserted
  <2>1. PICK i \in Invoices : /\ api[i] = "inserting"
                              /\ status' = [status EXCEPT ![i] = "pending"]
                              /\ UNCHANGED <<queued, triggers>>
    BY <1>2 DEF RowInserted
  <2>2. status[i] = "absent"
    BY <2>1 DEF AnnouncementInv, RowIsNew
  <2>3. /\ \A e \in WebhookEvents : queued[i][e] = 0
        /\ \A t \in triggers : t.inv # i
    BY <2>2, PendingUnannounced
  <2>4. \A j \in Invoices \ {i} : \A e : Announces(j, e)' <=> Announces(j, e)
    BY <2>1, AnnouncesCases, AnnouncesCasesNext DEF TypeOK
  <2>5. \A t \in triggers : t.inv \in Invoices \ {i}
    BY <2>3 DEF TypeOK, Trigger
  <2>6. QED
    BY <2>1, <2>3, <2>4, <2>5
       DEF AnnouncementInv, OutcomeQueuedOnce, TriggersPending, TriggersUnique
<1>3. CASE RowSettled
  <2>1. PICK i \in Invoices, s \in FinalNode, by \in Runs \cup {"listener"} :
           /\ status[i] = "pending"
           /\ status' = [status EXCEPT ![i] = TERMINAL_TRANSITIONS[s].status]
           /\ triggers' = triggers \cup
                 {[inv |-> i, event |-> TERMINAL_TRANSITIONS[s].event, by |-> by]}
           /\ queued' = queued
    BY <1>3 DEF RowSettled
  <2>2. /\ {i} \in SUBSET Invoices
        /\ \A j \in {i} : status[j] = "pending"
        /\ status' = [j \in Invoices |->
                         IF j \in {i} THEN TERMINAL_TRANSITIONS[s].status ELSE status[j]]
        /\ triggers' = triggers \cup
              {[inv |-> j, event |-> TERMINAL_TRANSITIONS[s].event, by |-> by] : j \in {i}}
    BY <2>1 DEF TypeOK
  <2>3. QED BY <2>1, <2>2, SettleKeeps
<1>4. CASE RowsExpired
  <2>1. PICK S \in SUBSET Invoices, c \in Runs :
           /\ \A i \in S : status[i] = "pending"
           /\ status' = [i \in Invoices |-> IF i \in S THEN "expired" ELSE status[i]]
           /\ triggers' = triggers \cup
                 {[inv |-> i, event |-> "invoice.expired", by |-> c] : i \in S}
           /\ queued' = queued
    BY <1>4 DEF RowsExpired
  <2>2. /\ "Expired" \in FinalNode
        /\ TERMINAL_TRANSITIONS["Expired"].status = "expired"
        /\ TERMINAL_TRANSITIONS["Expired"].event = "invoice.expired"
    BY DEF FinalNode, TERMINAL_TRANSITIONS
  <2>3. QED BY <2>1, <2>2, SettleKeeps
<1>5. CASE TriggerDone
  <2>1. PICK t \in triggers : /\ queued' = [queued EXCEPT ![t.inv][t.event] = @ + 1]
                              /\ triggers' = triggers \ {t}
                              /\ status' = status
    BY <1>5 DEF TriggerDone
  <2>2. /\ t.inv \in Invoices /\ t.event \in WebhookEvents
        /\ Announces(t.inv, t.event)
        /\ \A e \in WebhookEvents : queued[t.inv][e] = 0
    BY DEF TypeOK, Trigger, AnnouncementInv, TriggersPending
  <2>3. \A j \in Invoices \ {t.inv} : queued'[j] = queued[j]
    BY <2>1 DEF TypeOK
  <2>4. \A e \in WebhookEvents : queued'[t.inv][e] = IF e = t.event THEN 1 ELSE 0
    BY <2>1, <2>2 DEF TypeOK
  <2>5. \A j, e : Announces(j, e)' <=> Announces(j, e)
    BY <2>1, AnnouncesCases, AnnouncesCasesNext
  <2>6. \A u \in triggers \ {t} : u.inv \in Invoices \ {t.inv}
    BY DEF AnnouncementInv, TriggersUnique, TypeOK, Trigger
  <2>7. OutcomeQueuedOnce'
    BY <2>2, <2>3, <2>4, <2>5 DEF AnnouncementInv, OutcomeQueuedOnce
  <2>8. TriggersPending'
    BY <2>1, <2>3, <2>5, <2>6 DEF AnnouncementInv, TriggersPending
  <2>9. QED BY <2>1, <2>7, <2>8 DEF AnnouncementInv, TriggersUnique
<1>6. CASE TriggersDropped
  BY <1>6, AnnouncesCases, AnnouncesCasesNext
     DEF TriggersDropped, AnnouncementInv, OutcomeQueuedOnce, TriggersPending, TriggersUnique
<1>7. QED BY <1>1, <1>2, <1>3, <1>4, <1>5, <1>6, StepEffect DEF RowStep

\* Each outcome is queued at most once and as the event of the status the row
\* keeps, however many runs and listener events race for the row.
THEOREM OutcomeQueuedOnceHolds == Spec => []OutcomeQueuedOnce
<1>1. AnnouncementInv => OutcomeQueuedOnce
  BY DEF AnnouncementInv
<1>2. QED BY <1>1, AnnouncementInit, AnnouncementNext, TypeCorrect, PTL DEF Spec

-----------------------------------------------------------------------------
(* Nothing is lost in silence                                              *)

\* Every step keeps a terminal row announced, on its way, or known to be lost.
LEMMA NoSilentLossNext ==
    TypeOK /\ TypeOK' /\ NoSilentLoss /\ [Next]_vars => NoSilentLoss'
<1> SUFFICES ASSUME TypeOK, TypeOK', NoSilentLoss, [Next]_vars,
                    NEW i \in Invoices, status'[i] \in Terminal
             PROVE  \/ \E e \in WebhookEvents : queued'[i][e] > 0
                    \/ \E t \in triggers' : t.inv = i
                    \/ i \in lost'
  BY DEF NoSilentLoss
<1> DEFINE Safe == \/ \E e \in WebhookEvents : queued[i][e] > 0
                   \/ \E t \in triggers : t.inv = i
                   \/ i \in lost
<1>1. status[i] \in Terminal => Safe
  BY DEF NoSilentLoss
<1>2. CASE RowsKept
  BY <1>1, <1>2 DEF RowsKept
<1>3. CASE RowInserted
  <2>1. status'[i] = status[i]
    BY <1>3 DEF RowInserted, TypeOK, Terminal
  <2>2. QED BY <1>1, <1>3, <2>1 DEF RowInserted
<1>4. CASE RowSettled
  <2>1. PICK j \in Invoices, s \in FinalNode, by \in Runs \cup {"listener"} :
           /\ status' = [status EXCEPT ![j] = TERMINAL_TRANSITIONS[s].status]
           /\ triggers' = triggers \cup
                 {[inv |-> j, event |-> TERMINAL_TRANSITIONS[s].event, by |-> by]}
           /\ UNCHANGED <<queued, lost>>
    BY <1>4 DEF RowSettled
  <2>2. CASE i = j
    <3> DEFINE t == [inv |-> j, event |-> TERMINAL_TRANSITIONS[s].event, by |-> by]
    <3>1. t \in triggers' /\ t.inv = i
      BY <2>1, <2>2
    <3>2. QED BY <3>1
  <2>3. CASE i # j
    BY <1>1, <2>1, <2>3 DEF TypeOK
  <2>4. QED BY <2>2, <2>3
<1>5. CASE RowsExpired
  <2>1. PICK S \in SUBSET Invoices, c \in Runs :
           /\ status' = [k \in Invoices |-> IF k \in S THEN "expired" ELSE status[k]]
           /\ triggers' = triggers \cup
                 {[inv |-> k, event |-> "invoice.expired", by |-> c] : k \in S}
           /\ UNCHANGED <<queued, lost>>
    BY <1>5 DEF RowsExpired
  <2>2. CASE i \in S
    <3> DEFINE t == [inv |-> i, event |-> "invoice.expired", by |-> c]
    <3>1. t \in triggers' /\ t.inv = i
      BY <2>1, <2>2
    <3>2. QED BY <3>1
  <2>3. CASE i \notin S
    BY <1>1, <2>1, <2>3
  <2>4. QED BY <2>2, <2>3
<1>6. CASE TriggerDone
  <2>1. PICK t \in triggers : /\ queued' = [queued EXCEPT ![t.inv][t.event] = @ + 1]
                              /\ triggers' = triggers \ {t}
                              /\ UNCHANGED <<status, lost>>
    BY <1>6 DEF TriggerDone
  <2>2. t.inv \in Invoices /\ t.event \in WebhookEvents
    BY DEF TypeOK, Trigger
  <2>3. queued'[t.inv][t.event] > 0
    BY <2>1, <2>2 DEF TypeOK
  <2>4. \A e \in WebhookEvents : queued[i][e] > 0 => queued'[i][e] > 0
    BY <2>1, <2>2 DEF TypeOK
  <2>5. QED BY <1>1, <2>1, <2>2, <2>3, <2>4
<1>7. CASE TriggersDropped
  BY <1>1, <1>7 DEF TriggersDropped
<1>8. QED BY <1>2, <1>3, <1>4, <1>5, <1>6, <1>7, StepEffect DEF RowStep

\* A terminal row has been announced, is being announced, or a crash or a
\* failed statement hit that announcement.
THEOREM NoSilentLossHolds == Spec => []NoSilentLoss
<1>1. Init => NoSilentLoss
  BY DEF Init, NoSilentLoss, Terminal
<1>2. QED BY <1>1, NoSilentLossNext, TypeCorrect, PTL DEF Spec

\* Each outcome is announced once: never twice, and never silently not at all.
THEOREM AnnouncedOnceHolds == Spec => []AnnouncedOnce
<1>1. OutcomeQueuedOnce /\ NoSilentLoss => AnnouncedOnce
  BY DEF AnnouncedOnce
<1>2. QED BY <1>1, OutcomeQueuedOnceHolds, NoSilentLossHolds, PTL

-----------------------------------------------------------------------------
(* The poller implements the abstract lifecycle.                           *)

\* Every step is a step of the abstract lifecycle, or stutters there.
LEMMA LifecycleStep ==
    TypeOK /\ AnnouncementInv /\ [Next]_vars
        => [Lifecycle!LifecycleNext]_(Lifecycle!lifecycleVars)
<1> SUFFICES ASSUME TypeOK, AnnouncementInv, [Next]_vars
             PROVE  Lifecycle!LifecycleNext \/ UNCHANGED <<status, queued>>
  BY DEF Lifecycle!lifecycleVars
<1>1. CASE RowInserted
  <2>1. PICK i \in Invoices : /\ api[i] = "inserting"
                              /\ status' = [status EXCEPT ![i] = "pending"]
                              /\ UNCHANGED queued
    BY <1>1 DEF RowInserted
  <2>2. status[i] = "absent"
    BY <2>1 DEF AnnouncementInv, RowIsNew
  <2>3. Lifecycle!Create(i)
    BY <2>1, <2>2 DEF Lifecycle!Create
  <2>4. QED BY <2>3 DEF Lifecycle!LifecycleNext
<1>2. CASE RowSettled
  <2>1. PICK i \in Invoices, s \in FinalNode :
           /\ status[i] = "pending"
           /\ status' = [status EXCEPT ![i] = TERMINAL_TRANSITIONS[s].status]
           /\ UNCHANGED queued
    BY <1>2 DEF RowSettled
  <2>2. Lifecycle!Settle({i}, TERMINAL_TRANSITIONS[s].status)
    BY <2>1 DEF Lifecycle!Settle, TypeOK
  <2>3. TERMINAL_TRANSITIONS[s].status \in Lifecycle!Terminal
    BY DEF TERMINAL_TRANSITIONS, FinalNode, Lifecycle!Terminal
  <2>4. {i} \in SUBSET Invoices
    OBVIOUS
  <2>5. QED BY <2>2, <2>3, <2>4 DEF Lifecycle!LifecycleNext
<1>3. CASE RowsExpired
  <2>1. PICK S \in SUBSET Invoices :
           /\ \A i \in S : status[i] = "pending"
           /\ status' = [i \in Invoices |-> IF i \in S THEN "expired" ELSE status[i]]
           /\ UNCHANGED queued
    BY <1>3 DEF RowsExpired
  <2>2. Lifecycle!Settle(S, "expired")
    BY <2>1 DEF Lifecycle!Settle
  <2>3. QED BY <2>2 DEF Lifecycle!LifecycleNext, Lifecycle!Terminal
<1>4. CASE TriggerDone
  <2>1. PICK t \in triggers : /\ queued' = [queued EXCEPT ![t.inv][t.event] = @ + 1]
                              /\ UNCHANGED status
    BY <1>4 DEF TriggerDone
  <2>2. /\ t.inv \in Invoices /\ t.event \in WebhookEvents
        /\ Announces(t.inv, t.event)
        /\ \A e \in WebhookEvents : queued[t.inv][e] = 0
    BY DEF TypeOK, Trigger, AnnouncementInv, TriggersPending
  <2>3. /\ status[t.inv] \in Lifecycle!Terminal
        /\ Lifecycle!EventOf[status[t.inv]] = t.event
    BY <2>2, AnnouncesCases DEF Lifecycle!Terminal, Lifecycle!EventOf
  <2>4. queued[t.inv][t.event] + 1 = 1
    BY <2>2
  <2>5. queued' = [queued EXCEPT ![t.inv][t.event] = 1]
    BY <2>1, <2>4, Zenon
  <2>6. Lifecycle!Announce(t.inv)
    BY <2>1, <2>2, <2>3, <2>5 DEF Lifecycle!Announce, Lifecycle!Events, WebhookEvents
  <2>7. QED BY <2>2, <2>6 DEF Lifecycle!LifecycleNext
<1>5. CASE RowsKept \/ TriggersDropped
  BY <1>5 DEF RowsKept, TriggersDropped
<1>6. QED BY <1>1, <1>2, <1>3, <1>4, <1>5, StepEffect DEF RowStep

\* Whatever the poller, the cron route and the listener do together, a client
\* sees an invoice settle once and its outcome announced at most once.
THEOREM LifecycleImplemented == Spec => ImplementsLifecycle
<1>1. Init => Lifecycle!LifecycleInit
  BY DEF Init, Lifecycle!LifecycleInit, Lifecycle!Events, WebhookEvents
<1>2. QED
  BY <1>1, LifecycleStep, AnnouncementInit, AnnouncementNext, TypeCorrect, PTL
     DEF Spec, ImplementsLifecycle, Lifecycle!LifecycleSpec

-----------------------------------------------------------------------------
(* What the rows say is what the node said.  OutcomeMatchesNode is not     *)
(* inductive: an answer held between an await and the UPDATE, and an event *)
(* still to be handled, must be known to be true as well; they stay true   *)
(* because a final node status stays, and because the node's invoice is    *)
(* new when new_invoice makes it.                                          *)

NodeIsNew == \A i \in Invoices : api[i] = "idle" => node[i] = "None"

AnswersAreTrue == \A c \in Runs :
    run[c].pc = "apply" /\ run[c].seen \in FinalNode => node[run[c].cur] = run[c].seen

EventsAreTrue == \A m \in events : m.status \in FinalNode => node[m.inv] = m.status

NodeInv == NodeIsNew /\ AnswersAreTrue /\ EventsAreTrue /\ OutcomeMatchesNode

\* Nobody but createInvoice() and the node itself changes a node status, and a
\* final one stays.
LEMMA FinalStays ==
    ASSUME TypeOK, NodeIsNew, [Next]_vars, NEW i \in Invoices, node[i] \in FinalNode
    PROVE  node'[i] = node[i]
<1>1. CASE CreateStep
  <2>1. \A j \in Invoices : api[j] = "idle" => node[j] \notin FinalNode
    BY DEF NodeIsNew, FinalNode
  <2>2. QED
    BY <1>1, <2>1 DEF CreateStep, NewInvoice, NewInvoiceReplyLost, InsertInvoice,
                      InsertInvoiceFails, TypeOK
<1>2. CASE \E j \in Invoices, s \in NodeStatuses : NodeMoves(j, s)
  BY <1>2 DEF NodeMoves, NodeNext, FinalNode, TypeOK
<1>3. CASE UNCHANGED node
  BY <1>3
<1>4. QED
  BY <1>1, <1>2, <1>3
     DEF Next, ListenerStep, ListenerApplies, ListenerApplyFails, TriggerStep,
         TriggerWebhook, TriggerWebhookFails, TimerTick, CronRequest, RunStep,
         SelectBatch, RunFails, GetInvoiceStatus, GetInvoiceStatusFails, RunApplies,
         RunApplyFails, ExpireOverdue, FinishRun, Tick, Crash, vars

\* Every step keeps the node's invoice new until new_invoice is called.
LEMMA NodeIsNewKept == TypeOK /\ NodeIsNew /\ [Next]_vars => NodeIsNew'
<1> SUFFICES ASSUME TypeOK, NodeIsNew, [Next]_vars PROVE NodeIsNew'
  OBVIOUS
<1>1. CASE CreateStep
  BY <1>1 DEF CreateStep, NewInvoice, NewInvoiceReplyLost, InsertInvoice,
              InsertInvoiceFails, NodeIsNew, TypeOK
<1>2. CASE \E j \in Invoices, s \in NodeStatuses : NodeMoves(j, s)
  <2>1. PICK j \in Invoices, s \in NodeStatuses : NodeMoves(j, s)
    BY <1>2
  <2>2. node[j] # "None"
    BY <2>1 DEF NodeMoves, NodeNext
  <2>3. QED
    BY <2>1, <2>2 DEF NodeMoves, NodeIsNew, TypeOK
<1>3. CASE Crash
  BY <1>3 DEF Crash, NodeIsNew, TypeOK
<1>4. CASE UNCHANGED <<node, api>>
  BY <1>4 DEF NodeIsNew
<1>5. QED
  BY <1>1, <1>2, <1>3, <1>4
     DEF Next, ListenerStep, ListenerApplies, ListenerApplyFails, TriggerStep,
         TriggerWebhook, TriggerWebhookFails, TimerTick, CronRequest, RunStep,
         SelectBatch, RunFails, GetInvoiceStatus, GetInvoiceStatusFails, RunApplies,
         RunApplyFails, ExpireOverdue, FinishRun, Tick, vars

\* What a run holds at its UPDATE comes from getInvoiceStatus(), or was held before.
LEMMA AnswersAreTrueKept ==
    TypeOK /\ NodeIsNew /\ AnswersAreTrue /\ [Next]_vars => AnswersAreTrue'
<1> SUFFICES ASSUME TypeOK, NodeIsNew, AnswersAreTrue, [Next]_vars, NEW c \in Runs,
                    run'[c].pc = "apply", run'[c].seen \in FinalNode
             PROVE  node'[run'[c].cur] = run'[c].seen
  BY DEF AnswersAreTrue
<1>1. CASE run'[c] = run[c]
  <2>1. run[c].cur \in Invoices /\ node[run[c].cur] = run[c].seen
    BY <1>1 DEF TypeOK, AnswersAreTrue
  <2>2. node'[run[c].cur] = node[run[c].cur]
    BY <1>1, <2>1, FinalStays
  <2>3. QED BY <1>1, <2>1, <2>2
<1>2. ASSUME NEW i \in Invoices, GetInvoiceStatus(c, i)
      PROVE  node'[run'[c].cur] = run'[c].seen
  BY <1>2 DEF GetInvoiceStatus, TypeOK, Run
<1>3. ASSUME run'[c] # run[c], ~\E i \in Invoices : GetInvoiceStatus(c, i)
      PROVE  FALSE
  <2>1. CASE \E d \in Runs : TimerTick(d) \/ CronRequest(d)
    BY <1>3, <2>1 DEF TimerTick, CronRequest, Begin, IdleRun, TypeOK
  <2>2. CASE \E d \in Runs : End(d)
    BY <1>3, <2>2 DEF End, IdleRun, TypeOK
  <2>3. ASSUME NEW d \in Runs, SelectBatch(d) PROVE FALSE
    <3>1. PICK B \in Batches(d) :
             run' = [run EXCEPT ![d].pc = "poll", ![d].todo = B, ![d].settled = @ \cap B]
      BY <2>3 DEF SelectBatch
    <3>2. QED BY <1>3, <3>1 DEF TypeOK, Run
  <2>3a. ASSUME NEW d \in Runs, RunApplies(d) \/ RunApplyFails(d) \/ ExpireOverdue(d)
        PROVE  FALSE
    BY <1>3, <2>3a DEF RunApplies, RunApplyFails, ExpireOverdue, TypeOK, Run
  <2>4. ASSUME NEW d \in Runs, NEW i \in Invoices, GetInvoiceStatusFails(d, i)
        PROVE  FALSE
    BY <1>3, <2>4 DEF GetInvoiceStatusFails, TypeOK, Run
  <2>5. ASSUME NEW d \in Runs, NEW i \in Invoices, GetInvoiceStatus(d, i)
        PROVE  FALSE
    BY <1>3, <2>5 DEF GetInvoiceStatus, TypeOK, Run
  <2>6. CASE Crash
    BY <1>3, <2>6 DEF Crash, IdleRun
  <2>7. CASE UNCHANGED run
    BY <1>3, <2>7
  <2>8. QED
    BY <2>1, <2>2, <2>3, <2>4, <2>5, <2>6, <2>7, <2>3a
       DEF Next, CreateStep, NewInvoice, NewInvoiceReplyLost, InsertInvoice,
           InsertInvoiceFails, NodeMoves, ListenerStep, ListenerApplies,
           ListenerApplyFails, TriggerStep, TriggerWebhook, TriggerWebhookFails,
           RunStep, RunFails, FinishRun, Tick, vars
<1>4. QED BY <1>1, <1>2, <1>3

\* An event tells what the node has just become, or was under way before.
LEMMA EventsAreTrueKept ==
    TypeOK /\ NodeIsNew /\ EventsAreTrue /\ [Next]_vars => EventsAreTrue'
<1> SUFFICES ASSUME TypeOK, NodeIsNew, EventsAreTrue, [Next]_vars, NEW m \in events',
                    m.status \in FinalNode
             PROVE  node'[m.inv] = m.status
  BY DEF EventsAreTrue
<1>1. CASE m \in events
  <2>1. m.inv \in Invoices /\ node[m.inv] = m.status
    BY <1>1 DEF TypeOK, Notification, EventsAreTrue
  <2>2. QED BY <2>1, FinalStays
<1>2. CASE m \notin events
  <2>1. PICK i \in Invoices, s \in NodeStatuses : NodeMoves(i, s)
    BY <1>2 DEF Next, CreateStep, NewInvoice, NewInvoiceReplyLost, InsertInvoice,
           InsertInvoiceFails, ListenerStep, ListenerApplies,
           ListenerApplyFails, TriggerStep, TriggerWebhook, TriggerWebhookFails,
           TimerTick, CronRequest, RunStep, SelectBatch, RunFails, GetInvoiceStatus,
           GetInvoiceStatusFails, RunApplies, RunApplyFails, ExpireOverdue, FinishRun,
           Tick, Crash, vars
  <2>2. m = [inv |-> i, status |-> s]
    BY <1>2, <2>1 DEF NodeMoves
  <2>3. QED BY <2>1, <2>2 DEF NodeMoves, TypeOK
<1>3. QED BY <1>1, <1>2

\* A row becomes terminal as the node's final status says, or by the bulk expiry.
LEMMA SettledHow ==
    ASSUME TypeOK, AnswersAreTrue, EventsAreTrue, [Next]_vars, NEW i \in Invoices,
           status'[i] # status[i], status'[i] \in Terminal
    PROVE  \/ node[i] \in FinalNode /\ status'[i] = TERMINAL_TRANSITIONS[node[i]].status
           \/ status'[i] = "expired" /\ \E c \in Runs : i \in Overdue(c)
<1> DEFINE Goal == \/ node[i] \in FinalNode /\ status'[i] = TERMINAL_TRANSITIONS[node[i]].status
                   \/ status'[i] = "expired" /\ \E c \in Runs : i \in Overdue(c)
<1>1. ASSUME NEW j \in Invoices, NEW s, NEW by, ApplyNodeStatus(j, s, by),
             s \in FinalNode => node[j] = s
      PROVE  Goal
  <2>1. i = j /\ s \in DOMAIN TERMINAL_TRANSITIONS
    BY <1>1 DEF ApplyNodeStatus, TypeOK
  <2>2. s \in FinalNode
    BY <2>1, TransitionTypes
  <2>3. status'[i] = TERMINAL_TRANSITIONS[s].status
    BY <1>1, <2>1 DEF ApplyNodeStatus, TypeOK
  <2>4. QED BY <1>1, <2>1, <2>2, <2>3
<1>2. ASSUME NEW c \in Runs, RunApplies(c) PROVE Goal
  <2>1. run[c].pc = "apply" /\ ApplyNodeStatus(run[c].cur, run[c].seen, c)
    BY <1>2 DEF RunApplies
  <2>2. run[c].cur \in Invoices
    BY <2>1 DEF TypeOK
  <2>3. run[c].seen \in FinalNode => node[run[c].cur] = run[c].seen
    BY <2>1 DEF AnswersAreTrue
  <2>4. QED BY <1>1, <2>1, <2>2, <2>3
<1>3. ASSUME NEW m \in events, ListenerApplies(m) PROVE Goal
  <2>1. m.inv \in Invoices /\ (m.status \in FinalNode => node[m.inv] = m.status)
    BY DEF TypeOK, Notification, EventsAreTrue
  <2>2. ApplyNodeStatus(m.inv, m.status, "listener")
    BY <1>3 DEF ListenerApplies
  <2>3. QED BY <1>1, <2>1, <2>2
<1>4. ASSUME NEW c \in Runs, ExpireOverdue(c) PROVE Goal
  BY <1>4 DEF ExpireOverdue
<1>5. ASSUME NEW j \in Invoices, InsertInvoice(j) PROVE FALSE
  BY <1>5 DEF InsertInvoice, TypeOK, Terminal
<1>6. QED
  BY <1>2, <1>3, <1>4, <1>5
     DEF Next, CreateStep, NewInvoice, NewInvoiceReplyLost, InsertInvoiceFails,
         NodeMoves, ListenerStep, ListenerApplyFails, TriggerStep, TriggerWebhook,
         TriggerWebhookFails, TimerTick, CronRequest, RunStep, SelectBatch, RunFails,
         GetInvoiceStatus, GetInvoiceStatusFails, RunApplyFails, FinishRun, Tick, Crash,
         vars, dbVars

\* Every step keeps what the rows, the runs and the events say of the node true.
LEMMA NodeInvNext == TypeOK /\ NodeInv /\ [Next]_vars => NodeInv'
<1> SUFFICES ASSUME TypeOK, NodeInv, [Next]_vars PROVE NodeInv'
  OBVIOUS
<1>1. NodeIsNew' /\ AnswersAreTrue' /\ EventsAreTrue'
  BY NodeIsNewKept, AnswersAreTrueKept, EventsAreTrueKept DEF NodeInv
<1>2. ASSUME NEW i \in Invoices
      PROVE  /\ status'[i] = "paid" => node'[i] = "Paid"
             /\ status'[i] = "failed" => node'[i] = "Cancelled"
  <2>1. CASE status'[i] = status[i]
    BY <2>1, FinalStays DEF NodeInv, OutcomeMatchesNode, FinalNode
  <2>2. CASE status'[i] # status[i] /\ status'[i] \in Terminal
    <3>1. CASE node[i] \in FinalNode /\ status'[i] = TERMINAL_TRANSITIONS[node[i]].status
      <4>1. node'[i] = node[i]
        BY <3>1, FinalStays DEF NodeInv
      <4>2. QED BY <3>1, <4>1 DEF FinalNode, TERMINAL_TRANSITIONS
    <3>2. CASE status'[i] = "expired"
      BY <3>2
    <3>3. QED BY <2>2, <3>1, <3>2, SettledHow DEF NodeInv
  <2>3. QED BY <2>1, <2>2 DEF Terminal
<1>3. QED BY <1>1, <1>2 DEF NodeInv, OutcomeMatchesNode

\* At first nothing is known of any invoice.
LEMMA NodeInvInit == Init => NodeInv
BY DEF Init, NodeInv, NodeIsNew, AnswersAreTrue, EventsAreTrue, OutcomeMatchesNode, IdleRun

\* What runs and events say of the node is true in every reachable state.
LEMMA NodeInvHolds == Spec => []NodeInv
<1>1. QED BY NodeInvInit, NodeInvNext, TypeCorrect, PTL DEF Spec

\* A row says paid (failed) only when the node says Paid (Cancelled), whatever
\* answers and events were held back, and in whatever order they are applied.
THEOREM OutcomeMatchesNodeHolds == Spec => []OutcomeMatchesNode
<1>1. NodeInv => OutcomeMatchesNode
  BY DEF NodeInv
<1>2. QED BY <1>1, NodeInvHolds, PTL

-----------------------------------------------------------------------------
(* The interval worker and its flag                                        *)

FlagIsUp == \A c \in TimerRuns : run[c].pc # "idle" => isRunning

\* Whether a run is under way changes only where it begins and where it ends.
LEMMA BeginsOrEnds ==
    ASSUME TypeOK, [Next]_vars
    PROVE  \/ \E c \in TimerRuns : TimerTick(c)
           \/ \E c \in CronRuns : CronRequest(c)
           \/ \E c \in Runs : run[c].pc # "idle" /\ End(c)
           \/ Crash
           \/ isRunning' = isRunning /\ \A c \in Runs : run'[c].pc = "idle" <=> run[c].pc = "idle"
<1> DEFINE Same == isRunning' = isRunning /\ \A c \in Runs : run'[c].pc = "idle" <=> run[c].pc = "idle"
<1>1. ASSUME NEW c \in Runs, SelectBatch(c) PROVE Same
  <2>1. PICK B \in Batches(c) :
           run' = [run EXCEPT ![c].pc = "poll", ![c].todo = B, ![c].settled = @ \cap B]
    BY <1>1 DEF SelectBatch
  <2>2. QED BY <1>1, <2>1 DEF SelectBatch, TypeOK, Run
<1>2. ASSUME NEW c \in Runs, RunFails(c) \/ FinishRun(c) PROVE run[c].pc # "idle" /\ End(c)
  BY <1>2 DEF RunFails, FinishRun
<1>3. ASSUME NEW c \in Runs, NEW i \in Invoices, GetInvoiceStatus(c, i) PROVE Same
  BY <1>3 DEF GetInvoiceStatus, TypeOK, Run
<1>4. ASSUME NEW c \in Runs, NEW i \in Invoices, GetInvoiceStatusFails(c, i) PROVE Same
  BY <1>4 DEF GetInvoiceStatusFails, TypeOK, Run
<1>5. ASSUME NEW c \in Runs, RunApplies(c) \/ RunApplyFails(c) \/ ExpireOverdue(c) PROVE Same
  <2>1. run[c].pc # "idle" /\ isRunning' = isRunning
    BY <1>5 DEF RunApplies, RunApplyFails, ExpireOverdue
  <2>2. CASE RunApplies(c) \/ RunApplyFails(c)
    BY <2>1, <2>2 DEF RunApplies, RunApplyFails, TypeOK, Run
  <2>3. CASE ExpireOverdue(c)
    BY <2>1, <2>3 DEF ExpireOverdue, TypeOK, Run
  <2>4. QED BY <1>5, <2>2, <2>3
<1>6. CASE UNCHANGED <<run, isRunning>>
  BY <1>6
<1>7. QED
  BY <1>1, <1>2, <1>3, <1>4, <1>5, <1>6
     DEF Next, CreateStep, NewInvoice, NewInvoiceReplyLost, InsertInvoice,
         InsertInvoiceFails, NodeMoves, ListenerStep, ListenerApplies,
         ListenerApplyFails, TriggerStep, TriggerWebhook, TriggerWebhookFails,
         RunStep, Tick, vars

\* The flag is up as long as a cycle of the worker is under way, and a tick that
\* finds it up is skipped.
LEMMA OneTimerRunNext ==
    TypeOK /\ FlagIsUp /\ OneTimerRun /\ [Next]_vars => (FlagIsUp /\ OneTimerRun)'
<1> SUFFICES ASSUME TypeOK, FlagIsUp, OneTimerRun, [Next]_vars
             PROVE  FlagIsUp' /\ OneTimerRun'
  OBVIOUS
<1> USE DEF FlagIsUp, OneTimerRun
<1>1. ASSUME NEW c \in TimerRuns, TimerTick(c) PROVE FlagIsUp' /\ OneTimerRun'
  <2>1. \A d \in TimerRuns : run[d].pc = "idle"
    BY <1>1 DEF TimerTick
  <2>2. isRunning' /\ \A d \in TimerRuns \ {c} : run'[d] = run[d]
    BY <1>1 DEF TimerTick, Begin, TypeOK
  <2>3. QED BY <2>1, <2>2
<1>2. ASSUME NEW c \in CronRuns, CronRequest(c) PROVE FlagIsUp' /\ OneTimerRun'
  <2>1. c \notin TimerRuns
    BY <1>2, RunsAssumption
  <2>2. isRunning' = isRunning /\ \A d \in TimerRuns : run'[d] = run[d]
    BY <1>2, <2>1 DEF CronRequest, Begin, TypeOK
  <2>3. QED BY <2>2
<1>3. ASSUME NEW c \in Runs, run[c].pc # "idle", End(c) PROVE FlagIsUp' /\ OneTimerRun'
  <2>1. \A d \in Runs : run'[d] = IF d = c THEN IdleRun ELSE run[d]
    BY <1>3 DEF End, TypeOK
  <2>2. IdleRun.pc = "idle"
    BY DEF IdleRun
  <2>3. \A d \in Runs : run'[d].pc # "idle" => d # c /\ run[d].pc # "idle"
    BY <2>1, <2>2
  <2>4. OneTimerRun'
    BY <2>3
  <2>5. ASSUME NEW d \in TimerRuns, run'[d].pc # "idle" PROVE isRunning'
    <3>1. d # c /\ run[d].pc # "idle" /\ isRunning
      BY <2>3, <2>5
    <3>2. c \notin TimerRuns
      BY <1>3, <3>1
    <3>3. QED BY <1>3, <3>1, <3>2 DEF End
  <2>6. QED BY <2>4, <2>5
<1>4. CASE Crash
  BY <1>4 DEF Crash, IdleRun
<1>5. CASE isRunning' = isRunning /\ \A c \in Runs : run'[c].pc = "idle" <=> run[c].pc = "idle"
  BY <1>5
<1>6. QED BY <1>1, <1>2, <1>3, <1>4, <1>5, BeginsOrEnds

\* worker.ts never overlaps itself, however many cycles are tried, fail or are
\* killed, and whatever the cron route does meanwhile.
THEOREM OneTimerRunHolds == Spec => []OneTimerRun
<1>1. Init => FlagIsUp /\ OneTimerRun
  BY DEF Init, FlagIsUp, OneTimerRun, IdleRun
<1>2. QED BY <1>1, OneTimerRunNext, TypeCorrect, PTL DEF Spec

-----------------------------------------------------------------------------
(* Deadlines.  A run compares with the `now` it captured when it began,    *)
(* which is never ahead of the clock.                                      *)

CapturedNow == \A c \in Runs : run[c].now <= now

\* The captured time is written once, and the clock does not go back.
LEMMA CapturedNowNext == TypeOK /\ CapturedNow /\ [Next]_vars => CapturedNow'
<1> SUFFICES ASSUME TypeOK, CapturedNow, [Next]_vars PROVE CapturedNow'
  OBVIOUS
<1>1. now \in Nat /\ now' \in {now, now + 1}
  <2>1. now \in Nat
    BY DEF TypeOK
  <2>2. now' = now \/ Tick
    BY DEF Next, CreateStep, NewInvoice, NewInvoiceReplyLost, InsertInvoice,
           InsertInvoiceFails, NodeMoves, ListenerStep, ListenerApplies,
           ListenerApplyFails, TriggerStep, TriggerWebhook, TriggerWebhookFails,
           TimerTick, CronRequest, RunStep, SelectBatch, RunFails, GetInvoiceStatus,
           GetInvoiceStatusFails, RunApplies, RunApplyFails, ExpireOverdue, FinishRun,
           Crash, vars
  <2>3. QED BY <2>1, <2>2 DEF Tick
<1>2. ASSUME NEW c \in Runs
      PROVE  run'[c].now \in {run[c].now, now, 0}
  <2>1. ASSUME NEW d \in Runs, Begin(d) PROVE run'[c].now \in {run[c].now, now, 0}
    BY <2>1 DEF Begin, IdleRun, TypeOK
  <2>2. ASSUME NEW d \in Runs, End(d) PROVE run'[c].now \in {run[c].now, now, 0}
    BY <2>2 DEF End, IdleRun, TypeOK
  <2>3. ASSUME NEW d \in Runs, SelectBatch(d) PROVE run'[c].now = run[c].now
    <3>1. PICK B \in Batches(d) :
             run' = [run EXCEPT ![d].pc = "poll", ![d].todo = B, ![d].settled = @ \cap B]
      BY <2>3 DEF SelectBatch
    <3>2. QED BY <3>1 DEF TypeOK, Run
  <2>4. ASSUME NEW d \in Runs, NEW i \in Invoices, GetInvoiceStatus(d, i)
        PROVE  run'[c].now = run[c].now
    BY <2>4 DEF GetInvoiceStatus, TypeOK, Run
  <2>5. ASSUME NEW d \in Runs, NEW i \in Invoices, GetInvoiceStatusFails(d, i)
        PROVE  run'[c].now = run[c].now
    BY <2>5 DEF GetInvoiceStatusFails, TypeOK, Run
  <2>6. ASSUME NEW d \in Runs, RunApplies(d) \/ RunApplyFails(d)
        PROVE  run'[c].now = run[c].now
    BY <2>6 DEF RunApplies, RunApplyFails, TypeOK, Run
  <2>7. ASSUME NEW d \in Runs, ExpireOverdue(d) PROVE run'[c].now = run[c].now
    BY <2>7 DEF ExpireOverdue, TypeOK, Run
  <2>8. CASE Crash
    BY <2>8 DEF Crash, IdleRun
  <2>9. CASE UNCHANGED run
    BY <2>9
  <2>10. QED
    BY <2>1, <2>2, <2>3, <2>4, <2>5, <2>6, <2>7, <2>8, <2>9
       DEF Next, CreateStep, NewInvoice, NewInvoiceReplyLost, InsertInvoice,
           InsertInvoiceFails, NodeMoves, ListenerStep, ListenerApplies,
           ListenerApplyFails, TriggerStep, TriggerWebhook, TriggerWebhookFails,
           TimerTick, CronRequest, RunStep, RunFails, FinishRun, Tick, vars
<1>3. ASSUME NEW c \in Runs PROVE run[c].now \in Nat /\ run[c].now <= now
  BY DEF CapturedNow, TypeOK, Run
<1>4. QED BY <1>1, <1>2, <1>3 DEF CapturedNow

\* A pending row expires only when the node says so or its deadline has passed on
\* the clock, by whichever run, event or bulk UPDATE.
THEOREM NoEarlyExpiryHolds == Spec => NoEarlyExpiry
<1> DEFINE Step == \A i \in Invoices :
                      status[i] = "pending" /\ status'[i] = "expired" =>
                          node[i] = "Expired" \/ now > expiresAt[i]
<1>1. Init => CapturedNow
  BY DEF Init, CapturedNow, IdleRun
<1>2. TypeOK /\ NodeInv /\ CapturedNow /\ [Next]_vars => [Step]_vars
  <2> SUFFICES ASSUME TypeOK, NodeInv, CapturedNow, [Next]_vars, NEW i \in Invoices,
                      status[i] = "pending", status'[i] = "expired"
               PROVE  node[i] = "Expired" \/ now > expiresAt[i]
    OBVIOUS
  <2>1. CASE node[i] \in FinalNode /\ status'[i] = TERMINAL_TRANSITIONS[node[i]].status
    BY <2>1 DEF FinalNode, TERMINAL_TRANSITIONS
  <2>2. ASSUME NEW c \in Runs, i \in Overdue(c) PROVE now > expiresAt[i]
    <3>1. expiresAt[i] < run[c].now /\ run[c].now <= now
      BY <2>2 DEF Overdue, CapturedNow
    <3>2. expiresAt[i] \in Int /\ run[c].now \in Int /\ now \in Int
      BY DEF TypeOK, Run
    <3>3. QED BY <3>1, <3>2
  <2>3. QED BY <2>1, <2>2, SettledHow DEF NodeInv, Terminal
<1>3. QED
  BY <1>1, <1>2, CapturedNowNext, NodeInvHolds, TypeCorrect, PTL DEF Spec, NoEarlyExpiry

-----------------------------------------------------------------------------
(* A settled payment beats the clock: every invoice that was Paid on the   *)
(* node when a run began, and that is in its batch, is either still to be  *)
(* looked at, or about to be recorded as paid, or not pending any more.    *)

BatchIsStored(c) ==
    /\ run[c].pc \in {"poll", "apply"} => \A i \in run[c].todo : status[i] # "absent"
    /\ run[c].pc = "apply" => status[run[c].cur] # "absent"

SettledIsPaid(c) ==
    run[c].pc \in {"select", "poll", "apply"} => \A i \in run[c].settled : node[i] = "Paid"

SettledIsLookedAt(c) ==
    run[c].pc \in {"poll", "apply"} => \A i \in run[c].settled :
        \/ i \in run[c].todo
        \/ status[i] \in Terminal
        \/ run[c].pc = "apply" /\ run[c].cur = i /\ run[c].seen = "Paid"

SettlingInv == \A c \in Runs : BatchIsStored(c) /\ SettledIsPaid(c) /\ SettledIsLookedAt(c)

\* A row that is stored stays stored, and a terminal one terminal.
LEMMA RowsProgress ==
    ASSUME TypeOK, RowIsNew, [Next]_vars, NEW i \in Invoices
    PROVE  /\ status[i] # "absent" => status'[i] # "absent"
           /\ status[i] \in Terminal => status'[i] \in Terminal
<1>1. CASE RowInserted
  BY <1>1 DEF RowInserted, RowIsNew, TypeOK, Terminal
<1>2. CASE RowSettled
  BY <1>2 DEF RowSettled, TERMINAL_TRANSITIONS, FinalNode, TypeOK, Terminal
<1>3. CASE RowsExpired
  BY <1>3 DEF RowsExpired, Terminal
<1>4. CASE UNCHANGED status
  BY <1>4
<1>5. QED BY <1>1, <1>2, <1>3, <1>4, StepEffect
             DEF RowStep, RowsKept, TriggerDone, TriggersDropped

\* What a run may do to its own variables: begin, end, select its batch, look at a
\* row, skip it, apply or fail to apply what it holds, and run the bulk expiry.
LEMMA RunEffect ==
    ASSUME TypeOK, [Next]_vars, NEW c \in Runs
    PROVE  \/ run'[c] = run[c]
           \/ Begin(c) /\ UNCHANGED node
           \/ run'[c].pc \in {"idle", "drain"}
           \/ SelectBatch(c)
           \/ \E i \in Invoices : GetInvoiceStatus(c, i) \/ GetInvoiceStatusFails(c, i)
           \/ RunApplies(c) \/ RunApplyFails(c)
<1>2. ASSUME NEW d \in Runs, TimerTick(d) \/ CronRequest(d)
      PROVE  d # c => run'[c] = run[c]
  BY <1>2 DEF TimerTick, CronRequest, Begin, TypeOK
<1>3. ASSUME NEW d \in Runs, End(d)
      PROVE  run'[c] = run[c] \/ run'[c].pc = "idle"
  BY <1>3 DEF End, IdleRun, TypeOK
<1>4. ASSUME NEW d \in Runs, SelectBatch(d) PROVE d # c => run'[c] = run[c]
  <2>1. PICK B \in Batches(d) :
           run' = [run EXCEPT ![d].pc = "poll", ![d].todo = B, ![d].settled = @ \cap B]
    BY <1>4 DEF SelectBatch
  <2>2. QED BY <2>1 DEF TypeOK
<1>5. ASSUME NEW d \in Runs, NEW i \in Invoices,
             GetInvoiceStatus(d, i) \/ GetInvoiceStatusFails(d, i)
      PROVE  d # c => run'[c] = run[c]
  BY <1>5 DEF GetInvoiceStatus, GetInvoiceStatusFails, TypeOK
<1>6. ASSUME NEW d \in Runs, RunApplies(d) \/ RunApplyFails(d)
      PROVE  d # c => run'[c] = run[c]
  BY <1>6 DEF RunApplies, RunApplyFails, TypeOK
<1>7. ASSUME NEW d \in Runs, ExpireOverdue(d)
      PROVE  run'[c] = run[c] \/ run'[c].pc = "drain"
  BY <1>7 DEF ExpireOverdue, TypeOK, Run
<1>8. CASE Crash
  BY <1>8 DEF Crash, IdleRun
<1>9. CASE UNCHANGED run
  BY <1>9
<1>10. QED
  BY <1>2, <1>3, <1>4, <1>5, <1>6, <1>7, <1>8, <1>9
     DEF Next, CreateStep, NewInvoice, NewInvoiceReplyLost, InsertInvoice,
         InsertInvoiceFails, NodeMoves, ListenerStep, ListenerApplies,
         ListenerApplyFails, TriggerStep, TriggerWebhook, TriggerWebhookFails,
         TimerTick, CronRequest, RunStep, RunFails, FinishRun, Tick, vars

\* A step that is not a run's own keeps what is known of the run.
LEMMA SettlingKeptFor ==
    ASSUME TypeOK, NodeIsNew, RowIsNew, SettlingInv, [Next]_vars, NEW c \in Runs,
           run'[c] = run[c]
    PROVE  (BatchIsStored(c) /\ SettledIsPaid(c) /\ SettledIsLookedAt(c))'
<1>1. run[c].todo \subseteq Invoices /\ run[c].settled \subseteq Invoices
  BY DEF TypeOK, Run
<1>2. run[c].pc = "apply" => run[c].cur \in Invoices
  BY DEF TypeOK
<1>3. \A i \in Invoices : node[i] = "Paid" => node'[i] = "Paid"
  BY FinalStays DEF FinalNode
<1>4. QED
  BY <1>1, <1>2, <1>3, RowsProgress
     DEF SettlingInv, BatchIsStored, SettledIsPaid, SettledIsLookedAt

\* Every step of a run keeps what is known of its batch.
LEMMA SettlingNext ==
    TypeOK /\ NodeInv /\ AnnouncementInv /\ SettlingInv /\ [Next]_vars => SettlingInv'
<1> SUFFICES ASSUME TypeOK, NodeInv, AnnouncementInv, SettlingInv, [Next]_vars, NEW c \in Runs
             PROVE  (BatchIsStored(c) /\ SettledIsPaid(c) /\ SettledIsLookedAt(c))'
  BY DEF SettlingInv
<1> DEFINE Kept == (BatchIsStored(c) /\ SettledIsPaid(c) /\ SettledIsLookedAt(c))'
<1> USE DEF BatchIsStored, SettledIsPaid, SettledIsLookedAt
<1>1. /\ run[c] \in Run /\ run[c].todo \subseteq Invoices /\ run[c].settled \subseteq Invoices
      /\ BatchIsStored(c) /\ SettledIsPaid(c) /\ SettledIsLookedAt(c)
  BY DEF TypeOK, Run, SettlingInv
<1>2. CASE run'[c] = run[c]
  BY <1>2, SettlingKeptFor DEF NodeInv, AnnouncementInv
<1>3. CASE Begin(c) /\ UNCHANGED node
  <2>1. run'[c].pc = "select" /\ run'[c].settled = {i \in Invoices : node[i] = "Paid"}
    BY <1>3 DEF Begin, IdleRun, TypeOK
  <2>2. QED BY <1>3, <2>1
<1>4. CASE run'[c].pc \in {"idle", "drain"}
  BY <1>4
<1>5. CASE SelectBatch(c)
  <2>1. PICK B \in Batches(c) :
           run' = [run EXCEPT ![c].pc = "poll", ![c].todo = B, ![c].settled = @ \cap B]
    BY <1>5 DEF SelectBatch
  <2>2. \A i \in B : i \in Invoices /\ status[i] = "pending"
    BY <2>1 DEF Batches, Eligible
  <2>3. /\ run'[c].pc = "poll" /\ run'[c].todo = B
        /\ run'[c].settled = run[c].settled \cap B /\ run[c].pc = "select"
    BY <1>5, <2>1 DEF SelectBatch, TypeOK, Run
  <2>4. UNCHANGED <<status, node>>
    BY <1>5 DEF SelectBatch, dbVars
  <2>5. QED BY <1>1, <2>2, <2>3, <2>4
<1>6. ASSUME NEW i \in Invoices, GetInvoiceStatus(c, i) PROVE Kept
  <2>1. /\ run[c].pc = "poll" /\ i \in run[c].todo /\ UNCHANGED <<status, node>>
        /\ run'[c].pc = "apply" /\ run'[c].todo = run[c].todo \ {i} /\ run'[c].cur = i
        /\ run'[c].seen = node[i] /\ run'[c].settled = run[c].settled
    BY <1>6 DEF GetInvoiceStatus, dbVars, TypeOK, Run
  <2>2. QED BY <1>1, <2>1
<1>7. ASSUME NEW i \in Invoices, GetInvoiceStatusFails(c, i) PROVE Kept
  <2>1. /\ run[c].pc = "poll" /\ run'[c].pc = "poll" /\ UNCHANGED <<status, node>>
        /\ run'[c].todo = run[c].todo \ {i} /\ run'[c].settled = run[c].settled \ {i}
    BY <1>7 DEF GetInvoiceStatusFails, dbVars, TypeOK, Run
  <2>2. QED BY <1>1, <2>1
<1>8. CASE RunApplies(c)
  <2>1. /\ run[c].pc = "apply" /\ run'[c].pc = "poll" /\ UNCHANGED node
        /\ run'[c].todo = run[c].todo /\ run'[c].settled = run[c].settled
        /\ ApplyNodeStatus(run[c].cur, run[c].seen, c)
    BY <1>8 DEF RunApplies, TypeOK, Run
  <2>2. \A i \in Invoices : /\ status[i] # "absent" => status'[i] # "absent"
                            /\ status[i] \in Terminal => status'[i] \in Terminal
    BY RowsProgress DEF AnnouncementInv
  <2>3. run[c].seen = "Paid" => status'[run[c].cur] \in Terminal
    <3>1. run[c].cur \in Invoices /\ status[run[c].cur] \in {"pending"} \cup Terminal
      BY <1>1, <2>1 DEF TypeOK, Statuses
    <3>2. QED
      BY <2>1, <2>2, <3>1 DEF ApplyNodeStatus, TERMINAL_TRANSITIONS, TypeOK, Terminal
  <2>4. QED BY <1>1, <2>1, <2>2, <2>3
<1>9. CASE RunApplyFails(c)
  <2>1. /\ run[c].pc = "apply" /\ run'[c].pc = "poll" /\ UNCHANGED <<status, node>>
        /\ run'[c].todo = run[c].todo /\ run'[c].settled = run[c].settled \ {run[c].cur}
    BY <1>9 DEF RunApplyFails, dbVars, TypeOK, Run
  <2>2. QED BY <1>1, <2>1
<1>10. QED BY <1>2, <1>3, <1>4, <1>5, <1>6, <1>7, <1>8, <1>9, RunEffect

\* Only the bulk expiry takes a run from polling to its end.
LEMMA DrainIsExpiry ==
    ASSUME TypeOK, [Next]_vars, NEW c \in Runs, run[c].pc = "poll", run'[c].pc = "drain"
    PROVE  run[c].todo = {}
<1>1. ASSUME NEW d \in Runs, ExpireOverdue(d) PROVE run[c].todo = {}
  BY <1>1 DEF ExpireOverdue, TypeOK
<1>2. ASSUME NEW d \in Runs, SelectBatch(d) PROVE FALSE
  <2>1. PICK B \in Batches(d) :
           run' = [run EXCEPT ![d].pc = "poll", ![d].todo = B, ![d].settled = @ \cap B]
    BY <1>2 DEF SelectBatch
  <2>2. QED BY <2>1 DEF TypeOK, Run
<1>3. ASSUME NEW d \in Runs, NEW i \in Invoices, GetInvoiceStatus(d, i) PROVE FALSE
  BY <1>3 DEF GetInvoiceStatus, TypeOK, Run
<1>4. ASSUME NEW d \in Runs, NEW i \in Invoices, GetInvoiceStatusFails(d, i) PROVE FALSE
  <2>1. run'[c].pc = run[c].pc
    BY <1>4 DEF GetInvoiceStatusFails, TypeOK, Run
  <2>2. QED BY <2>1
<1>5. ASSUME NEW d \in Runs, RunApplies(d) \/ RunApplyFails(d) PROVE FALSE
  BY <1>5 DEF RunApplies, RunApplyFails, TypeOK, Run
<1>6. ASSUME NEW d \in Runs, Begin(d) \/ End(d) PROVE FALSE
  <2>1. run'[c].pc \in {run[c].pc, "select", "idle"}
    <3>1. CASE Begin(d)
      BY <3>1 DEF Begin, IdleRun, TypeOK
    <3>2. CASE End(d)
      BY <3>2 DEF End, IdleRun, TypeOK
    <3>3. QED BY <1>6, <3>1, <3>2
  <2>2. QED BY <2>1
<1>7. CASE Crash
  BY <1>7 DEF Crash, IdleRun
<1>8. CASE UNCHANGED run
  BY <1>8
<1>9. QED
  BY <1>1, <1>2, <1>3, <1>4, <1>5, <1>6, <1>7, <1>8
     DEF Next, CreateStep, NewInvoice, NewInvoiceReplyLost, InsertInvoice,
         InsertInvoiceFails, NodeMoves, ListenerStep, ListenerApplies,
         ListenerApplyFails, TriggerStep, TriggerWebhook, TriggerWebhookFails,
         TimerTick, CronRequest, RunStep, RunFails, FinishRun, Tick, vars

\* BR-STS-002: a run never expires an invoice of its batch that the node had settled
\* before the run began, unless its check of that invoice failed.
THEOREM SettledPaymentBeatsClockHolds == Spec => SettledPaymentBeatsClock
<1> DEFINE Step == \A c \in Runs :
          run[c].pc = "poll" /\ run'[c].pc = "drain" =>
              \A i \in run[c].settled : ~(status[i] = "pending" /\ status'[i] = "expired")
<1>1. Init => SettlingInv
  BY DEF Init, SettlingInv, BatchIsStored, SettledIsPaid, SettledIsLookedAt, IdleRun
<1>2. TypeOK /\ SettlingInv /\ [Next]_vars => [Step]_vars
  <2> SUFFICES ASSUME TypeOK, SettlingInv, [Next]_vars, NEW c \in Runs,
                      run[c].pc = "poll", run'[c].pc = "drain", NEW i \in run[c].settled
               PROVE  status[i] # "pending"
    OBVIOUS
  <2>1. run[c].todo = {}
    BY DrainIsExpiry
  <2>2. status[i] \in Terminal
    BY <2>1 DEF SettlingInv, SettledIsLookedAt
  <2>3. QED BY <2>2 DEF Terminal
<1>3. QED
  BY <1>1, <1>2, SettlingNext, NodeInvHolds, TypeCorrect, AnnouncementInit,
     AnnouncementNext, PTL DEF Spec, SettledPaymentBeatsClock
=============================================================================
