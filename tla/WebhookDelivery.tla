--------------------------- MODULE WebhookDelivery ---------------------------
(***************************************************************************)
(* From a row of webhook_deliveries to its outcome: the attempts           *)
(* (deliver.ts), the in-memory timers (retry-scheduler.ts), the manual     *)
(* resend (services/webhooks.ts) and the recovery at boot                  *)
(* (instrumentation.ts), with failing statements and restarts.             *)
(*                                                                         *)
(* Time is relative: next_retry_at and a timer's due time are kept as the  *)
(* time left, which Tick counts down, so that behaviours may go on for     *)
(* ever in finitely many states.  A unit of time is longer than a          *)
(* statement, a request's timeout and a turn of the event loop.            *)
(***************************************************************************)
EXTENDS Integers, FiniteSets, Sequences

CONSTANTS
    Deliveries,     \* ids of rows that may be inserted
    RetryDelays,    \* RETRY_DELAYS_MS
    MaxFaults,      \* bound: failed statements
    MaxCrashes      \* bound: restarts of the process

MAX_ATTEMPTS == Len(RetryDelays) + 1

ASSUME DelaysAssumption == RetryDelays \in Seq(Nat \ {0})
ASSUME BoundsAssumption == MaxFaults \in Nat /\ MaxCrashes \in Nat

VARIABLES
    row,            \* row[d]: status, attempt_count, next_retry_at of row d
    timers,         \* scheduledTimers: armed timers
    attempts,       \* calls of attemptDelivery() in flight
    boot,           \* the process is down, or where recoverPendingDeliveries() is
    found,          \* the rows its SELECT returned
    sent,           \* history, sent[d]: POST requests made for d
    interrupted,    \* history, interrupted[d]: POSTs whose result was not stored
    accepted,       \* history: deliveries the merchant answered with ok
    refused,        \* history: deliveries ended by a non-retryable cause
    broken,         \* history: deliveries whose chain a failure or crash has cut
    faults,
    crashes

history == <<sent, interrupted, accepted, refused, broken>>
budget == <<faults, crashes>>
vars == <<row, timers, attempts, boot, found, history, budget>>

-----------------------------------------------------------------------------
Null == -1                                  \* next_retry_at IS NULL
Delays == {RetryDelays[k] : k \in DOMAIN RetryDelays}
TimeLeft == UNION {0..t : t \in Delays \cup {0}}
Outcomes == {"success", "retryable", "non-retryable"}

Row == [status : {"absent", "pending", "success", "failed"},
        count : 0..MAX_ATTEMPTS,
        next : TimeLeft \cup {Null}]
Timer == [id : Deliveries, due : TimeLeft]
Attempt == [id : Deliveries, pc : {"load", "send", "wait", "persist"},
            n : 0..MAX_ATTEMPTS, outcome : Outcomes \cup {"none"}]

FreshRow == [status |-> "pending", count |-> 0, next |-> Null]

Of(S, d) == {x \in S : x.id = d}

\* The work that exists for d in the process: armed timers, running attempts.
Tokens(d) == Cardinality(Of(timers, d)) + Cardinality(Of(attempts, d))
Idle(d) == Of(timers, d) = {} /\ Of(attempts, d) = {}

\* A request for d is out, and its result is not stored.
InFlight(d) == \E a \in attempts : a.id = d /\ a.pc \in {"wait", "persist"}

\* A retry chain that only this process' memory, or the recovery, keeps going.
Waiting(d) == row[d].status = "pending" /\ row[d].next # Null

Init ==
    /\ row = [d \in Deliveries |-> [status |-> "absent", count |-> 0, next |-> Null]]
    /\ timers = {} /\ attempts = {}
    /\ boot = "down" /\ found = {}
    /\ sent = [d \in Deliveries |-> 0]
    /\ interrupted = [d \in Deliveries |-> 0]
    /\ accepted = {} /\ refused = {} /\ broken = {}
    /\ faults = 0 /\ crashes = 0

Fault == /\ faults < MaxFaults
         /\ faults' = faults + 1
         /\ UNCHANGED crashes

\* scheduleAttempt(): the timer of d in T, if any, is replaced.
Schedule(T, d, delay) == (T \ Of(T, d)) \cup {[id |-> d, due |-> delay]}

-----------------------------------------------------------------------------
(* New rows                                                                *)

\* triggerWebhook(): one INSERT for every endpoint the event goes to, and an
\* immediate attempt for each row.
TriggerWebhook(S) ==
    /\ boot # "down"
    /\ S # {} /\ \A d \in S : row[d].status = "absent"
    /\ row' = [d \in Deliveries |-> IF d \in S THEN FreshRow ELSE row[d]]
    /\ timers' = timers \cup [id : S, due : {0}]
    /\ UNCHANGED <<attempts, boot, found, history, budget>>

\* resendDelivery(), offered for failed rows: a new row, the old one is kept.
Resend(d, new) ==
    /\ boot # "down"
    /\ row[d].status = "failed" /\ row[new].status = "absent"
    /\ row' = [row EXCEPT ![new] = FreshRow]
    /\ timers' = Schedule(timers \ Of(timers, d), new, 0)
    /\ UNCHANGED <<attempts, boot, found, history, budget>>

-----------------------------------------------------------------------------
(* One attempt                                                             *)

\* Faulty variant: the timer stays armed.
FireAgain(t) ==
    /\ t.due = 0
    /\ attempts' = attempts \cup {[id |-> t.id, pc |-> "load", n |-> 0, outcome |-> "none"]}
    /\ UNCHANGED <<row, timers, boot, found, history, budget>>

\* The timer's callback: it leaves scheduledTimers and starts the attempt.
Fire(t) ==
    /\ t.due = 0
    /\ timers' = timers \ {t}
    /\ attempts' = attempts \cup {[id |-> t.id, pc |-> "load", n |-> 0, outcome |-> "none"]}
    /\ UNCHANGED <<row, boot, found, history, budget>>

Becomes(a, b) == attempts' = (attempts \ {a}) \cup {b}

\* attemptDelivery() threw: the boundary in the timer's callback logs it, and
\* nothing arms the delivery again.
Dies(a) ==
    /\ attempts' = attempts \ {a}
    /\ broken' = broken \cup {a.id}
    /\ Fault

\* The SELECTs of attemptDelivery() and the signature.
Load(a) ==
    /\ a.pc = "load"
    /\ Becomes(a, [a EXCEPT !.pc = "send", !.n = row[a.id].count + 1])
    /\ UNCHANGED <<row, timers, boot, found, history, budget>>

LoadFails(a) ==
    /\ a.pc = "load"
    /\ Dies(a)
    /\ UNCHANGED <<row, timers, boot, found, sent, interrupted, accepted, refused>>

\* The endpoint's secret cannot be decrypted (or it has no endpoint): the row
\* is failed, its other columns stay.
MarkDeliveryFailed(a) ==
    /\ a.pc = "load"
    /\ attempts' = attempts \ {a}
    /\ row' = [row EXCEPT ![a.id].status = "failed"]
    /\ refused' = refused \cup {a.id}
    /\ UNCHANGED <<timers, boot, found, sent, interrupted, accepted, broken, budget>>

\* fetch(): the request leaves,
Post(a) ==
    /\ a.pc = "send"
    /\ Becomes(a, [a EXCEPT !.pc = "wait"])
    /\ sent' = [sent EXCEPT ![a.id] = @ + 1]
    /\ UNCHANGED <<row, timers, boot, found, interrupted, accepted, refused, broken, budget>>

\* and is answered, times out or fails: classifyResponse() and the catch.
Answer(a, o) ==
    /\ a.pc = "wait"
    /\ Becomes(a, [a EXCEPT !.pc = "persist", !.outcome = o])
    /\ accepted' = IF o = "success" THEN accepted \cup {a.id} ELSE accepted
    /\ refused' = IF o = "non-retryable" THEN refused \cup {a.id} ELSE refused
    /\ UNCHANGED <<row, timers, boot, found, sent, interrupted, broken, budget>>

\* Faulty variant: one attempt too few.
RetriesTooFew(a) == a.outcome = "retryable" /\ a.n < MAX_ATTEMPTS - 1

Retries(a) == a.outcome = "retryable" /\ a.n < MAX_ATTEMPTS

\* Faulty variant: the outcome is written for the status.
ResultIsOutcome(a) ==
    [status |-> a.outcome,
     count |-> a.n,
     next |-> IF Retries(a) THEN RetryDelays[a.n] ELSE Null]

\* The row an attempt leaves behind.
Result(a) ==
    [status |-> CASE a.outcome = "success" -> "success"
                  [] Retries(a) -> "pending"
                  [] OTHER -> "failed",
     count |-> a.n,
     next |-> IF Retries(a) THEN RetryDelays[a.n] ELSE Null]

\* Faulty variant: the next attempt is not scheduled.
PersistOnly(a) ==
    /\ a.pc = "persist"
    /\ attempts' = attempts \ {a}
    /\ row' = [row EXCEPT ![a.id] = Result(a)]
    /\ UNCHANGED <<timers, boot, found, history, budget>>

Persist(a) ==
    /\ a.pc = "persist"
    /\ attempts' = attempts \ {a}
    /\ row' = [row EXCEPT ![a.id] = Result(a)]
    /\ timers' = IF Retries(a) THEN Schedule(timers, a.id, RetryDelays[a.n]) ELSE timers
    /\ UNCHANGED <<boot, found, history, budget>>

PersistFails(a) ==
    /\ a.pc = "persist"
    /\ Dies(a)
    /\ interrupted' = [interrupted EXCEPT ![a.id] = @ + 1]
    /\ UNCHANGED <<row, timers, boot, found, sent, accepted, refused>>

-----------------------------------------------------------------------------
(* Boot: recoverPendingDeliveries(), not awaited by register(), next to    *)
(* which the poller already runs                                           *)

Start ==
    /\ boot = "down"
    /\ boot' = "select"
    /\ UNCHANGED <<row, timers, attempts, found, history, budget>>

\* Faulty variants: no status filter, and only rows that are due by now.
RecoverSelectAll ==
    /\ boot = "select"
    /\ found' = {d \in Deliveries : row[d].status # "absent" /\ row[d].next # Null}
    /\ boot' = "arm"
    /\ UNCHANGED <<row, timers, attempts, history, budget>>

RecoverSelectDue ==
    /\ boot = "select"
    /\ found' = {d \in Deliveries : Waiting(d) /\ row[d].next = 0}
    /\ boot' = "arm"
    /\ UNCHANGED <<row, timers, attempts, history, budget>>

RecoverSelect ==
    /\ boot = "select"
    /\ found' = {d \in Deliveries : Waiting(d)}
    /\ boot' = "arm"
    /\ UNCHANGED <<row, timers, attempts, history, budget>>

\* Faulty variant: every recovered delivery is sent at once.
RecoverArmNow ==
    /\ boot = "arm"
    /\ timers' = {t \in timers : t.id \notin found} \cup
                    {[id |-> d, due |-> 0] : d \in found}
    /\ boot' = "done" /\ found' = {}
    /\ UNCHANGED <<row, attempts, history, budget>>

\* scheduleAttempt() for every row of the result, in one go.
RecoverArm ==
    /\ boot = "arm"
    /\ timers' = {t \in timers : t.id \notin found} \cup
                    {[id |-> d, due |-> row[d].next] : d \in found}
    /\ boot' = "done" /\ found' = {}
    /\ UNCHANGED <<row, attempts, history, budget>>

\* The SELECT throws; register() logs it and does not try again.
RecoverFails ==
    /\ boot = "select"
    /\ boot' = "done"
    /\ broken' = broken \cup {d \in Deliveries : Waiting(d) /\ Idle(d)}
    /\ Fault
    /\ UNCHANGED <<row, timers, attempts, found, sent, interrupted, accepted, refused>>

-----------------------------------------------------------------------------
(* The clock and restarts                                                  *)

CountDown(t) == IF t > 0 THEN t - 1 ELSE t

\* A unit passes; not while the recovery is between its two statements.
Tick ==
    /\ boot \in {"down", "done"}
    /\ row' = [d \in Deliveries |-> [row[d] EXCEPT !.next = CountDown(row[d].next)]]
    /\ timers' = {[t EXCEPT !.due = CountDown(t.due)] : t \in timers}
    /\ UNCHANGED <<attempts, boot, found, history, budget>>

\* Timers and attempts are gone; the result of a request is lost with them.
\* A chain with a next_retry_at can be taken up again, also one that a failed
\* statement had broken before.
Crash ==
    /\ boot # "down" /\ crashes < MaxCrashes
    /\ crashes' = crashes + 1
    /\ boot' = "down"
    /\ timers' = {} /\ attempts' = {} /\ found' = {}
    /\ interrupted' = [d \in Deliveries |-> interrupted[d] + (IF InFlight(d) THEN 1 ELSE 0)]
    /\ broken' = {d \in Deliveries : row[d].status = "pending" /\ row[d].next = Null}
    /\ UNCHANGED <<row, sent, accepted, refused, faults>>

-----------------------------------------------------------------------------
AttemptStep(a) ==
    \/ Load(a)
    \/ LoadFails(a)
    \/ MarkDeliveryFailed(a)
    \/ Post(a)
    \/ \E o \in Outcomes : Answer(a, o)
    \/ Persist(a)
    \/ PersistFails(a)

Recovery == Start \/ RecoverSelect \/ RecoverArm \/ RecoverFails

Next ==
    \/ \E S \in SUBSET Deliveries : TriggerWebhook(S)
    \/ \E d, new \in Deliveries : Resend(d, new)
    \/ \E t \in timers : Fire(t)
    \/ \E a \in attempts : AttemptStep(a)
    \/ Recovery
    \/ Tick
    \/ Crash

Spec == Init /\ [][Next]_vars

\* The process comes back after a crash, its event loop turns, time passes,
\* and every statement and request ends: fetch() is aborted after 5 s.
\* Nobody has to trigger or resend anything.
Fairness ==
    /\ WF_vars(Tick)
    /\ WF_vars(Recovery)
    /\ \A d \in Deliveries :
          /\ WF_vars(\E t \in Of(timers, d) : Fire(t))
          /\ WF_vars(\E a \in Of(attempts, d) : AttemptStep(a))

FairSpec == Spec /\ Fairness

-----------------------------------------------------------------------------
(* Properties                                                              *)

\* Every variable has its type.
TypeOK ==
    /\ row \in [Deliveries -> Row]
    /\ timers \subseteq Timer
    /\ attempts \subseteq Attempt
    /\ boot \in {"down", "select", "arm", "done"}
    /\ found \subseteq Deliveries
    /\ sent \in [Deliveries -> Nat]
    /\ interrupted \in [Deliveries -> Nat]
    /\ accepted \subseteq Deliveries
    /\ refused \subseteq Deliveries
    /\ broken \subseteq Deliveries
    /\ faults \in 0..MaxFaults
    /\ crashes \in 0..MaxCrashes

\* retry-scheduler.ts, "a delivery is never double-scheduled": an armed timer
\* or a running attempt, never two of them, also while the recovery races the
\* attempts of rows that are inserted next to it.
SingleToken == \A d \in Deliveries : Tokens(d) <= 1

\* BR-WHK-003, three requests in all, weakened by what the code can promise: a
\* request whose result was not stored is not counted and may be made again.
SendsBounded ==
    \A d \in Deliveries : sent[d] <= MAX_ATTEMPTS + interrupted[d]

\* Every pending delivery is armed or in flight, or the running recovery will
\* find it, or a crash or a failed statement hit that very delivery.
PendingHasToken ==
    \A d \in Deliveries :
        row[d].status = "pending" =>
            \/ ~Idle(d)
            \/ d \in broken
            \/ row[d].next # Null /\ (boot \in {"down", "select"} \/ d \in found)

\* Success is the merchant's word, and a delivery is given up only after
\* MAX_ATTEMPTS requests or for a cause no retry helps, across restarts.
OutcomeTruthful ==
    \A d \in Deliveries :
        /\ row[d].status = "success" => d \in accepted
        /\ row[d].status = "failed" => sent[d] >= MAX_ATTEMPTS \/ d \in refused

\* What the log says of the requests that were made: no more than it may count,
\* and an outcome they justify.
LogAgrees == SendsBounded /\ OutcomeTruthful

\* BR-WHK-005, and the append-only log of resendDelivery(): a delivery with an
\* outcome is neither changed nor sent again.
OutcomeFinal ==
    [][\A d \in Deliveries :
          row[d].status \in {"success", "failed"} =>
              row'[d].status = row[d].status /\ sent'[d] = sent[d]]_vars

\* BR-WHK-003: a retry never leaves before next_retry_at, also when a restart
\* lies between.
NeverEarly ==
    [][\A d \in Deliveries :
          sent'[d] > sent[d] => row[d].next \in {Null, 0}]_vars

\* What the contract sees of a row, of the attempt in flight, and of the answers.
OutcomeOf(d) ==
    CASE row[d].status = "absent" -> "none"
      [] row[d].status = "pending" -> "open"
      [] OTHER -> row[d].status
PhaseOf(d) ==
    IF \E a \in attempts : a.id = d /\ a.pc = "wait" THEN "asked"
    ELSE IF InFlight(d) THEN "answered" ELSE "quiet"
AnswersOf(d) ==
    (IF d \in accepted THEN {"ok"} ELSE {}) \cup (IF d \in refused THEN {"no"} ELSE {})

outcomes == [d \in Deliveries |-> OutcomeOf(d)]
phases == [d \in Deliveries |-> PhaseOf(d)]
answersGiven == [d \in Deliveries |-> AnswersOf(d)]

Contract == INSTANCE DeliveryContract WITH outcome <- outcomes, phase <- phases, requests <- sent, lost <- interrupted, answers <- answersGiven

\* What a merchant may rely on (BR-WHK-003, BR-WHK-005, the append-only log of
\* resendDelivery()): one request at a time, one more for each that was lost and
\* never one after the outcome, which the answers justify and nothing changes;
\* with timers, retries, recovery, resend, failures and restarts in between.
ImplementsContract == Contract!ContractSpec

\* Every delivery ends with an outcome, unless a crash or a failed statement
\* broke its chain; a crash between two attempts does not.
DeliveryEnds ==
    \A d \in Deliveries :
        row[d].status = "pending" ~>
            row[d].status \in {"success", "failed"} \/ d \in broken

-----------------------------------------------------------------------------
(* The inductive invariant behind the safety properties                    *)

\* One chain for each delivery: at most one timer or attempt, and only for a
\* pending row.
ChainInv ==
    /\ \A t, u \in timers : t.id = u.id => t = u
    /\ \A a, b \in attempts : a.id = b.id => a = b
    /\ \A t \in timers, a \in attempts : t.id # a.id
    /\ \A t \in timers : row[t.id].status = "pending"
    /\ \A a \in attempts : row[a.id].status = "pending"

\* A timer is due when its row is; an attempt's row has been due.
DueInv ==
    /\ \A t \in timers : \/ row[t.id].next = Null /\ t.due = 0
                         \/ row[t.id].next = t.due
    /\ \A a \in attempts : row[a.id].next \in {Null, 0}

\* Until the recovery is done, only rows that were inserted since the start
\* have run: their retries are not due yet, and the rows found are untouched.
BootInv ==
    /\ boot = "down" => timers = {} /\ attempts = {}
    /\ boot \in {"select", "arm"} => /\ \A t \in timers : row[t.id].next # 0
                                     /\ \A a \in attempts : row[a.id].next = Null
    /\ boot # "arm" => found = {}
    /\ \A d \in found : Waiting(d)

\* attempt_count lags behind the requests by those not stored.
CountInv ==
    /\ \A d \in Deliveries : row[d].status = "absent" => row[d].count = 0 /\ sent[d] = 0
    /\ \A d \in Deliveries : row[d].status = "pending" => row[d].count < MAX_ATTEMPTS
    /\ \A a \in attempts : a.pc # "load" => a.n = row[a.id].count + 1
    /\ \A d \in Deliveries :
          sent[d] <= row[d].count + interrupted[d] + (IF InFlight(d) THEN 1 ELSE 0)
    /\ \A d \in Deliveries : sent[d] >= row[d].count
    /\ \A a \in attempts : a.pc \in {"wait", "persist"} => sent[a.id] >= a.n

\* What an attempt is about to store is what the merchant answered.
AnswerInv ==
    \A a \in attempts : a.pc = "persist" =>
        /\ a.outcome \in Outcomes
        /\ a.outcome = "success" => a.id \in accepted
        /\ a.outcome = "non-retryable" => a.id \in refused

DeliveryInv ==
    /\ TypeOK /\ ChainInv /\ DueInv /\ BootInv /\ CountInv /\ AnswerInv
    /\ PendingHasToken /\ OutcomeTruthful
=============================================================================
