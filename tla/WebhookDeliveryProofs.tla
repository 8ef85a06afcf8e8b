------------------------ MODULE WebhookDeliveryProofs ------------------------
(* Theorems about WebhookDelivery, for any number of deliveries, retry     *)
(* delays, failures and restarts.  All of them follow from DeliveryInv,    *)
(* whose parts are preserved one after the other.                          *)
EXTENDS WebhookDelivery, FiniteSetTheorems, TLAPS

-----------------------------------------------------------------------------
(* Data                                                                    *)

\* A delay is a positive natural number and a possible time left.
LEMMA DelayFacts ==
    ASSUME NEW k \in 1..Len(RetryDelays)
    PROVE  /\ RetryDelays[k] \in Nat \ {0}
           /\ RetryDelays[k] \in TimeLeft
<1>1. RetryDelays \in Seq(Nat \ {0})
  BY DelaysAssumption DEF DelaysAssumption
<1>2. RetryDelays[k] \in Nat \ {0} /\ k \in DOMAIN RetryDelays
  BY <1>1
<1>3. RetryDelays[k] \in Delays
  BY <1>2 DEF Delays
<1>4. RetryDelays[k] \in 0..RetryDelays[k]
  BY <1>2
<1>5. QED BY <1>2, <1>3, <1>4 DEF TimeLeft

\* Counting down stays within the possible times left.
LEMMA TimeFacts ==
    /\ TimeLeft \subseteq Nat
    /\ 0 \in TimeLeft
    /\ Null \notin TimeLeft
    /\ \A t \in TimeLeft : CountDown(t) \in TimeLeft
    /\ CountDown(Null) = Null
<1>1. Delays \subseteq Nat
  <2>1. RetryDelays \in Seq(Nat \ {0})
    BY DelaysAssumption DEF DelaysAssumption
  <2>2. QED BY <2>1 DEF Delays
<1>2. TimeLeft \subseteq Nat /\ 0 \in TimeLeft
  <2>1. ASSUME NEW t \in TimeLeft PROVE t \in Nat
    <3>1. PICK s \in {0..d : d \in Delays \cup {0}} : t \in s
      BY DEF TimeLeft
    <3>2. QED BY <3>1, <1>1
  <2>2. 0 \in 0..0 /\ 0..0 \in {0..d : d \in Delays \cup {0}}
    OBVIOUS
  <2>3. QED BY <2>1, <2>2 DEF TimeLeft
<1>3. ASSUME NEW t \in TimeLeft PROVE CountDown(t) \in TimeLeft
  <2>1. CASE t = 0
    BY <2>1, <1>2 DEF CountDown
  <2>2. CASE t # 0
    <3>1. PICK s \in {0..d : d \in Delays \cup {0}} : t \in s
      BY DEF TimeLeft
    <3>2. t - 1 \in s /\ t > 0
      BY <3>1, <2>2, <1>1
    <3>3. QED BY <3>1, <3>2 DEF TimeLeft, CountDown
  <2>3. QED BY <2>1, <2>2
<1>4. Null \notin TimeLeft /\ CountDown(Null) = Null
  BY <1>2 DEF Null, CountDown
<1>5. QED BY <1>2, <1>3, <1>4

\* There is at least one attempt: the delays are those between attempts.
LEMMA MaxAttemptsType == MAX_ATTEMPTS \in Nat \ {0} /\ MAX_ATTEMPTS = Len(RetryDelays) + 1
<1>1. RetryDelays \in Seq(Nat \ {0})
  BY DelaysAssumption DEF DelaysAssumption
<1>2. QED BY <1>1 DEF MAX_ATTEMPTS

\* What an attempt that is about to be stored leaves behind.
LEMMA ResultFacts ==
    ASSUME TypeOK, CountInv, AnswerInv, NEW a \in attempts, a.pc = "persist",
           row[a.id].status = "pending"
    PROVE  /\ Result(a) \in Row
           /\ Result(a).count = a.n /\ a.n = row[a.id].count + 1 /\ a.n \in 1..MAX_ATTEMPTS
           /\ Result(a).status \in {"pending", "success", "failed"}
           /\ Result(a).status = "pending" <=> Retries(a)
           /\ Result(a).status = "success" => a.outcome = "success"
           /\ Result(a).status = "failed" => a.outcome = "non-retryable" \/ a.n >= MAX_ATTEMPTS
           /\ Retries(a) => /\ a.n < MAX_ATTEMPTS
                            /\ Result(a).next = RetryDelays[a.n]
                            /\ RetryDelays[a.n] \in TimeLeft \ {0}
<1>1. a \in Attempt /\ a.id \in Deliveries /\ row[a.id] \in Row
  BY DEF TypeOK, Attempt
<1>2. a.n = row[a.id].count + 1 /\ row[a.id].count < MAX_ATTEMPTS /\ row[a.id].count \in 0..MAX_ATTEMPTS
  BY <1>1 DEF CountInv, Row
<1>3. a.n \in 1..MAX_ATTEMPTS
  BY <1>2, MaxAttemptsType
<1>4. a.outcome \in Outcomes
  BY DEF AnswerInv
<1>5. Retries(a) => a.n < MAX_ATTEMPTS /\ a.n \in 1..Len(RetryDelays)
  BY <1>3, MaxAttemptsType DEF Retries
<1>6. Retries(a) => RetryDelays[a.n] \in TimeLeft \ {0}
  BY <1>5, DelayFacts
<1>7. /\ Result(a).count = a.n
      /\ Result(a).next = IF Retries(a) THEN RetryDelays[a.n] ELSE Null
  BY DEF Result
<1>8. /\ Result(a).status = "pending" <=> Retries(a)
      /\ Result(a).status \in {"pending", "success", "failed"}
      /\ Result(a).status = "success" => a.outcome = "success"
      /\ Result(a).status = "failed" => ~Retries(a) /\ a.outcome # "success"
  BY DEF Result, Retries
<1>9. Result(a).status = "failed" => a.outcome = "non-retryable" \/ a.n >= MAX_ATTEMPTS
  BY <1>8, <1>4, <1>3, MaxAttemptsType DEF Retries, Outcomes
<1>10. Result(a) \in Row
  BY <1>3, <1>6, <1>7, <1>8 DEF Row, Result
<1>11. QED BY <1>2, <1>3, <1>5, <1>6, <1>7, <1>8, <1>9, <1>10

\* The row every INSERT writes.
LEMMA FreshRowFacts ==
    FreshRow \in Row /\ FreshRow.status = "pending" /\ FreshRow.count = 0 /\ FreshRow.next = Null
BY MaxAttemptsType DEF FreshRow, Row

-----------------------------------------------------------------------------
(* Types                                                                   *)

\* The initial state is well typed.
LEMMA InitType == Init => TypeOK
<1> SUFFICES ASSUME Init PROVE TypeOK
  OBVIOUS
<1>1. [status |-> "absent", count |-> 0, next |-> Null] \in Row
  BY MaxAttemptsType DEF Row
<1>2. row \in [Deliveries -> Row]
  BY <1>1 DEF Init
<1>3. faults \in 0..MaxFaults /\ crashes \in 0..MaxCrashes
  BY BoundsAssumption DEF Init, BoundsAssumption
<1>4. QED BY <1>2, <1>3 DEF Init, TypeOK

\* A failed statement stays within the bound of the model.
LEMMA FaultType == ASSUME TypeOK, Fault
                   PROVE  faults' \in 0..MaxFaults /\ crashes' \in 0..MaxCrashes
BY BoundsAssumption DEF TypeOK, Fault, BoundsAssumption

\* Every step keeps the types.
LEMMA NextType == DeliveryInv /\ [Next]_vars => TypeOK'
<1> SUFFICES ASSUME DeliveryInv, [Next]_vars PROVE TypeOK'
  OBVIOUS
<1> USE DEF DeliveryInv
<1>1. ASSUME NEW S \in SUBSET Deliveries, TriggerWebhook(S) PROVE TypeOK'
  <2>1. row' \in [Deliveries -> Row]
    BY <1>1, FreshRowFacts DEF TriggerWebhook, TypeOK
  <2>2. timers' \subseteq Timer
    BY <1>1, TimeFacts DEF TriggerWebhook, TypeOK, Timer
  <2>3. QED BY <1>1, <2>1, <2>2 DEF TriggerWebhook, TypeOK, history, budget
<1>2. ASSUME NEW d \in Deliveries, NEW new \in Deliveries, Resend(d, new) PROVE TypeOK'
  <2>1. row' \in [Deliveries -> Row]
    BY <1>2, FreshRowFacts DEF Resend, TypeOK
  <2>2. timers' \subseteq Timer
    BY <1>2, TimeFacts DEF Resend, TypeOK, Timer, Schedule
  <2>3. QED BY <1>2, <2>1, <2>2 DEF Resend, TypeOK, history, budget
<1>3. ASSUME NEW t \in timers, Fire(t) PROVE TypeOK'
  <2>1. [id |-> t.id, pc |-> "load", n |-> 0, outcome |-> "none"] \in Attempt
    BY MaxAttemptsType DEF TypeOK, Timer, Attempt
  <2>2. QED BY <1>3, <2>1 DEF Fire, TypeOK, history, budget
<1>4. ASSUME NEW a \in attempts, Load(a) PROVE TypeOK'
  <2>1. row[a.id].count \in 0..MAX_ATTEMPTS /\ row[a.id].count < MAX_ATTEMPTS
    BY DEF TypeOK, Attempt, Row, ChainInv, CountInv
  <2>2. row[a.id].count + 1 \in 0..MAX_ATTEMPTS
    BY <2>1, MaxAttemptsType
  <2>3. [a EXCEPT !.pc = "send", !.n = row[a.id].count + 1] \in Attempt
    BY <2>2 DEF TypeOK, Attempt
  <2>4. QED BY <1>4, <2>3 DEF Load, Becomes, TypeOK, history, budget
<1>5. ASSUME NEW a \in attempts, LoadFails(a) PROVE TypeOK'
  BY <1>5, FaultType DEF LoadFails, Dies, TypeOK, Attempt
<1>6. ASSUME NEW a \in attempts, MarkDeliveryFailed(a) PROVE TypeOK'
  <2>1. [row[a.id] EXCEPT !.status = "failed"] \in Row /\ a.id \in Deliveries
    BY DEF TypeOK, Attempt, Row
  <2>2. row' \in [Deliveries -> Row]
    BY <1>6, <2>1 DEF MarkDeliveryFailed, TypeOK
  <2>3. QED BY <1>6, <2>1, <2>2 DEF MarkDeliveryFailed, TypeOK, budget
<1>7. ASSUME NEW a \in attempts, Post(a) PROVE TypeOK'
  <2>1. [a EXCEPT !.pc = "wait"] \in Attempt
    BY DEF TypeOK, Attempt
  <2>2. a.id \in Deliveries /\ sent[a.id] \in Nat
    BY DEF TypeOK, Attempt
  <2>3. sent' \in [Deliveries -> Nat]
    BY <1>7, <2>2 DEF Post, TypeOK
  <2>4. QED BY <1>7, <2>1, <2>3 DEF Post, Becomes, TypeOK, budget
<1>8. ASSUME NEW a \in attempts, NEW o \in Outcomes, Answer(a, o) PROVE TypeOK'
  <2>1. [a EXCEPT !.pc = "persist", !.outcome = o] \in Attempt /\ a.id \in Deliveries
    BY DEF TypeOK, Attempt
  <2>2. accepted' \subseteq Deliveries /\ refused' \subseteq Deliveries
    BY <1>8, <2>1 DEF Answer, TypeOK
  <2>3. QED BY <1>8, <2>1, <2>2 DEF Answer, Becomes, TypeOK, budget
<1>9. ASSUME NEW a \in attempts, Persist(a) PROVE TypeOK'
  <2>1. /\ Result(a) \in Row /\ a.id \in Deliveries
        /\ Retries(a) => RetryDelays[a.n] \in TimeLeft
    BY <1>9, ResultFacts DEF Persist, ChainInv, TypeOK, Attempt
  <2>2. row' \in [Deliveries -> Row]
    BY <1>9, <2>1 DEF Persist, TypeOK
  <2>3. timers' \subseteq Timer
    BY <1>9, <2>1 DEF Persist, TypeOK, Schedule, Timer
  <2>4. QED BY <1>9, <2>2, <2>3 DEF Persist, TypeOK, history, budget
<1>10. ASSUME NEW a \in attempts, PersistFails(a) PROVE TypeOK'
  <2>1. a.id \in Deliveries /\ interrupted[a.id] \in Nat
    BY DEF TypeOK, Attempt
  <2>2. interrupted' \in [Deliveries -> Nat]
    BY <1>10, <2>1 DEF PersistFails, TypeOK
  <2>3. QED BY <1>10, <2>2, FaultType DEF PersistFails, Dies, TypeOK, Attempt
<1>11. CASE Start
  BY <1>11 DEF Start, TypeOK, history, budget
<1>12. CASE RecoverSelect
  BY <1>12 DEF RecoverSelect, TypeOK, history, budget
<1>13. CASE RecoverArm
  <2>1. \A d \in found : d \in Deliveries /\ row[d].next \in TimeLeft
    BY DEF TypeOK, BootInv, Waiting, Row
  <2>2. timers' \subseteq Timer
    BY <1>13, <2>1 DEF RecoverArm, TypeOK, Timer
  <2>3. QED BY <1>13, <2>2 DEF RecoverArm, TypeOK, history, budget
<1>14. CASE RecoverFails
  BY <1>14, FaultType DEF RecoverFails, TypeOK
<1>15. CASE Tick
  <2>1. \A d \in Deliveries : [row[d] EXCEPT !.next = CountDown(row[d].next)] \in Row
    BY TimeFacts DEF TypeOK, Row
  <2>2. \A t \in timers : [t EXCEPT !.due = CountDown(t.due)] \in Timer
    BY TimeFacts DEF TypeOK, Timer
  <2>3. row' \in [Deliveries -> Row] /\ timers' \subseteq Timer
    BY <1>15, <2>1, <2>2 DEF Tick
  <2>4. QED BY <1>15, <2>3 DEF Tick, TypeOK, history, budget
<1>16. CASE Crash
  <2>1. crashes' \in 0..MaxCrashes
    BY <1>16, BoundsAssumption DEF Crash, TypeOK, BoundsAssumption
  <2>2. interrupted' \in [Deliveries -> Nat]
    BY <1>16 DEF Crash, TypeOK
  <2>3. QED BY <1>16, <2>1, <2>2 DEF Crash, TypeOK
<1>17. CASE UNCHANGED vars
  BY <1>17 DEF vars, history, budget, TypeOK
<1>18. QED
  BY <1>1, <1>2, <1>3, <1>4, <1>5, <1>6, <1>7, <1>8, <1>9, <1>10, <1>11, <1>12, <1>13,
     <1>14, <1>15, <1>16, <1>17 DEF Next, AttemptStep, Recovery

-----------------------------------------------------------------------------
(* One chain                                                               *)

\* What a unit of time does to rows and timers.
LEMMA TickEffect ==
    ASSUME TypeOK, Tick
    PROVE  /\ attempts' = attempts
           /\ \A d \in Deliveries : /\ row'[d].status = row[d].status
                                    /\ row'[d].count = row[d].count
                                    /\ row'[d].next = CountDown(row[d].next)
           /\ \A u \in timers' : \E t \in timers :
                 /\ u = [t EXCEPT !.due = CountDown(t.due)]
                 /\ u.id = t.id /\ u.due = CountDown(t.due)
           /\ \A t \in timers : \E u \in timers' : u.id = t.id
<1>1. \A d \in Deliveries : row[d] \in Row
  BY DEF TypeOK
<1>2. \A t \in timers : t \in Timer
  BY DEF TypeOK
<1>3. timers' = {[t EXCEPT !.due = CountDown(t.due)] : t \in timers}
  BY DEF Tick
<1>4. \A t \in Timer : /\ [t EXCEPT !.due = CountDown(t.due)].id = t.id
                       /\ [t EXCEPT !.due = CountDown(t.due)].due = CountDown(t.due)
  BY DEF Timer
<1>5. \A d \in Deliveries : /\ row'[d].status = row[d].status
                            /\ row'[d].count = row[d].count
                            /\ row'[d].next = CountDown(row[d].next)
  BY <1>1 DEF Tick, Row
<1>6. QED BY <1>2, <1>3, <1>4, <1>5 DEF Tick

\* Ids of tokens are deliveries.
LEMMA TokenIds ==
    ASSUME TypeOK
    PROVE  /\ \A t \in timers : t.id \in Deliveries /\ t.due \in TimeLeft
           /\ \A a \in attempts : a.id \in Deliveries
           /\ \A d \in Deliveries : row[d].next \in TimeLeft \cup {Null}
BY DEF TypeOK, Timer, Attempt, Row

\* What new rows do: nothing to the rows and tokens that exist.
LEMMA TriggerEffect ==
    ASSUME TypeOK, ChainInv, NEW S \in SUBSET Deliveries, TriggerWebhook(S)
    PROVE  /\ \A d \in S : row[d].status = "absent" /\ row'[d] = FreshRow
           /\ \A d \in Deliveries \ S : row'[d] = row[d]
           /\ \A t \in timers : t.id \notin S /\ row'[t.id] = row[t.id]
           /\ \A a \in attempts : a.id \notin S /\ row'[a.id] = row[a.id]
           /\ \A t \in timers' : t \in timers \/ (t.id \in S /\ t = [id |-> t.id, due |-> 0])
           /\ timers \subseteq timers'
           /\ \A d \in S : \E t \in timers' : t.id = d
           /\ attempts' = attempts
<1>1. \A d \in S : row[d].status = "absent" /\ row'[d] = FreshRow
  BY DEF TriggerWebhook
<1>2. \A d \in Deliveries \ S : row'[d] = row[d]
  BY DEF TriggerWebhook
<1>3. \A t \in timers : t.id \in Deliveries /\ t.id \notin S
  BY <1>1, TokenIds DEF ChainInv
<1>4. \A a \in attempts : a.id \in Deliveries /\ a.id \notin S
  BY <1>1, TokenIds DEF ChainInv
<1>5. timers' = timers \cup [id : S, due : {0}] /\ attempts' = attempts
  BY DEF TriggerWebhook
<1>6. \A t \in [id : S, due : {0}] : t.id \in S /\ t = [id |-> t.id, due |-> 0]
  OBVIOUS
<1>7. \A d \in S : [id |-> d, due |-> 0] \in [id : S, due : {0}]
  OBVIOUS
<1>8. /\ \A t \in timers' : t \in timers \/ (t.id \in S /\ t = [id |-> t.id, due |-> 0])
      /\ timers \subseteq timers'
  BY <1>5, <1>6
<1>9. ASSUME NEW d \in S PROVE \E t \in timers' : t.id = d
  <2>1. [id |-> d, due |-> 0] \in timers' /\ [id |-> d, due |-> 0].id = d
    BY <1>5, <1>7
  <2>2. QED BY <2>1
<1>10. \A t \in timers : row'[t.id] = row[t.id]
  BY <1>2, <1>3
<1>11. \A a \in attempts : row'[a.id] = row[a.id]
  BY <1>2, <1>4
<1>12. QED BY <1>1, <1>2, <1>3, <1>4, <1>5, <1>8, <1>9, <1>10, <1>11

\* An attempt that goes on, as the same delivery's, keeps the chain.
LEMMA BecomesKeepsChain ==
    ASSUME ChainInv, NEW a \in attempts, NEW b, b.id = a.id, Becomes(a, b),
           timers' = timers, row' = row
    PROVE  ChainInv'
BY DEF ChainInv, Becomes

\* An attempt that ends without a new timer keeps the chains of the others.
LEMMA EndKeepsChain ==
    ASSUME TypeOK, ChainInv, NEW a \in attempts, attempts' = attempts \ {a}, timers' = timers,
           \A d \in Deliveries : d # a.id => row'[d] = row[d]
    PROVE  ChainInv'
<1>1. \A b \in attempts' : b.id # a.id /\ b.id \in Deliveries /\ b \in attempts
  BY TokenIds DEF ChainInv
<1>2. \A t \in timers' : t.id # a.id /\ t.id \in Deliveries /\ t \in timers
  BY TokenIds DEF ChainInv
<1>3. QED BY <1>1, <1>2 DEF ChainInv

\* Every step keeps at most one timer or attempt for a delivery.
LEMMA NextChain == DeliveryInv /\ [Next]_vars => ChainInv'
<1> SUFFICES ASSUME DeliveryInv, [Next]_vars PROVE ChainInv'
  OBVIOUS
<1> USE TokenIds DEF DeliveryInv
<1>1. ASSUME NEW S \in SUBSET Deliveries, TriggerWebhook(S) PROVE ChainInv'
  <2>1. \A d \in S : row'[d].status = "pending"
    BY <1>1, TriggerEffect, FreshRowFacts
  <2>2. QED BY <1>1, <2>1, TriggerEffect DEF ChainInv
<1>2. ASSUME NEW d \in Deliveries, NEW new \in Deliveries, Resend(d, new) PROVE ChainInv'
  <2>1. /\ \A t \in timers : t.id # new /\ row'[t.id] = row[t.id]
        /\ \A a \in attempts : a.id # new /\ row'[a.id] = row[a.id]
        /\ row'[new].status = "pending"
    BY <1>2 DEF Resend, ChainInv, FreshRow, TypeOK
  <2>2. \A t \in timers' : t \in timers \/ t = [id |-> new, due |-> 0]
    BY <1>2 DEF Resend, Schedule, Of
  <2>3. attempts' = attempts
    BY <1>2 DEF Resend
  <2>4. QED BY <2>1, <2>2, <2>3 DEF ChainInv
<1>3. ASSUME NEW t \in timers, Fire(t) PROVE ChainInv'
  <2> DEFINE a == [id |-> t.id, pc |-> "load", n |-> 0, outcome |-> "none"]
  <2>1. a.id = t.id /\ timers' = timers \ {t} /\ attempts' = attempts \cup {a} /\ row' = row
    BY <1>3 DEF Fire
  <2> HIDE DEF a
  <2>2. QED BY <2>1 DEF ChainInv
<1>4. ASSUME NEW a \in attempts, Load(a) PROVE ChainInv'
  BY <1>4, BecomesKeepsChain DEF Load, TypeOK, Attempt
<1>5. ASSUME NEW a \in attempts, LoadFails(a) PROVE ChainInv'
  BY <1>5, EndKeepsChain DEF LoadFails, Dies
<1>6. ASSUME NEW a \in attempts, MarkDeliveryFailed(a) PROVE ChainInv'
  BY <1>6, EndKeepsChain DEF MarkDeliveryFailed, TypeOK
<1>7. ASSUME NEW a \in attempts, Post(a) PROVE ChainInv'
  BY <1>7, BecomesKeepsChain DEF Post, TypeOK, Attempt
<1>8. ASSUME NEW a \in attempts, NEW o \in Outcomes, Answer(a, o) PROVE ChainInv'
  BY <1>8, BecomesKeepsChain DEF Answer, TypeOK, Attempt
<1>9. ASSUME NEW a \in attempts, Persist(a) PROVE ChainInv'
  <2>1. /\ attempts' = attempts \ {a}
        /\ \A d \in Deliveries : d # a.id => row'[d] = row[d]
    BY <1>9 DEF Persist, TypeOK
  <2>2. CASE ~Retries(a)
    BY <1>9, <2>1, <2>2, EndKeepsChain DEF Persist
  <2>3. CASE Retries(a)
    <3>1. row'[a.id].status = "pending"
      BY <1>9, <2>3, ResultFacts DEF Persist, ChainInv, TypeOK
    <3>2. /\ \A t \in timers' : t \in timers \/ t = [id |-> a.id, due |-> RetryDelays[a.n]]
      BY <1>9, <2>3 DEF Persist, Schedule, Of
    <3>3. \A t \in timers : t.id # a.id /\ row'[t.id] = row[t.id]
      BY <2>1 DEF ChainInv
    <3>4. \A b \in attempts' : b.id # a.id /\ b \in attempts /\ row'[b.id] = row[b.id]
      BY <2>1 DEF ChainInv
    <3>5. QED BY <3>1, <3>2, <3>3, <3>4 DEF ChainInv
  <2>4. QED BY <2>2, <2>3
<1>10. ASSUME NEW a \in attempts, PersistFails(a) PROVE ChainInv'
  BY <1>10, EndKeepsChain DEF PersistFails, Dies
<1>11. CASE Start
  BY <1>11 DEF Start, ChainInv
<1>12. CASE RecoverSelect
  BY <1>12 DEF RecoverSelect, ChainInv
<1>13. CASE RecoverArm
  <2>1. \A d \in found : row[d].status = "pending" /\ row[d].next # Null /\ d \in Deliveries
    BY DEF BootInv, Waiting, TypeOK
  <2>2. \A a \in attempts : a.id \notin found
    BY <1>13, <2>1 DEF RecoverArm, BootInv
  <2>3. \A t \in timers' : \/ t \in timers /\ t.id \notin found
                           \/ t.id \in found /\ t = [id |-> t.id, due |-> row[t.id].next]
    BY <1>13 DEF RecoverArm
  <2>4. attempts' = attempts /\ row' = row
    BY <1>13 DEF RecoverArm
  <2>5. QED BY <2>1, <2>2, <2>3, <2>4 DEF ChainInv
<1>14. CASE RecoverFails
  BY <1>14 DEF RecoverFails, ChainInv
<1>15. CASE Tick
  <2>1. ASSUME NEW u \in timers', NEW v \in timers', u.id = v.id PROVE u = v
    <3>1. PICK t \in timers : u = [t EXCEPT !.due = CountDown(t.due)] /\ u.id = t.id
      BY <1>15, TickEffect
    <3>2. PICK w \in timers : v = [w EXCEPT !.due = CountDown(w.due)] /\ v.id = w.id
      BY <1>15, TickEffect
    <3>3. t = w
      BY <2>1, <3>1, <3>2 DEF ChainInv
    <3>4. QED BY <3>1, <3>2, <3>3
  <2>2. \A u \in timers' : \E t \in timers : u.id = t.id
    BY <1>15, TickEffect
  <2>3. attempts' = attempts /\ \A d \in Deliveries : row'[d].status = row[d].status
    BY <1>15, TickEffect
  <2>4. QED BY <2>1, <2>2, <2>3 DEF ChainInv
<1>16. CASE Crash
  BY <1>16 DEF Crash, ChainInv
<1>17. CASE UNCHANGED vars
  BY <1>17 DEF vars, ChainInv
<1>18. QED
  BY <1>1, <1>2, <1>3, <1>4, <1>5, <1>6, <1>7, <1>8, <1>9, <1>10, <1>11, <1>12, <1>13,
     <1>14, <1>15, <1>16, <1>17 DEF Next, AttemptStep, Recovery

-----------------------------------------------------------------------------
(* Due times and the recovery                                              *)

\* Every step keeps timers and rows in step.
LEMMA NextDue == DeliveryInv /\ [Next]_vars => DueInv'
<1> SUFFICES ASSUME DeliveryInv, [Next]_vars PROVE DueInv'
  OBVIOUS
<1> USE TokenIds DEF DeliveryInv
<1>1. ASSUME NEW S \in SUBSET Deliveries, TriggerWebhook(S) PROVE DueInv'
  <2>1. \A d \in S : row'[d].next = Null
    BY <1>1, TriggerEffect, FreshRowFacts
  <2>2. \A t \in timers' : t \in timers \/ (t.id \in S /\ t.due = 0)
    <3>1. ASSUME NEW t \in timers' PROVE t \in timers \/ (t.id \in S /\ t.due = 0)
      BY <1>1, TriggerEffect
    <3>2. QED BY <3>1
  <2>3. QED BY <1>1, <2>1, <2>2, TriggerEffect DEF DueInv
<1>2. ASSUME NEW d \in Deliveries, NEW new \in Deliveries, Resend(d, new) PROVE DueInv'
  <2>1. /\ \A t \in timers : row'[t.id] = row[t.id]
        /\ \A a \in attempts : row'[a.id] = row[a.id]
        /\ row'[new].next = Null
    BY <1>2 DEF Resend, ChainInv, FreshRow, TypeOK
  <2>2. \A t \in timers' : t \in timers \/ t = [id |-> new, due |-> 0]
    BY <1>2 DEF Resend, Schedule, Of
  <2>3. attempts' = attempts
    BY <1>2 DEF Resend
  <2>4. QED BY <2>1, <2>2, <2>3 DEF DueInv
<1>3. ASSUME NEW t \in timers, Fire(t) PROVE DueInv'
  <2> DEFINE a == [id |-> t.id, pc |-> "load", n |-> 0, outcome |-> "none"]
  <2>1. a.id = t.id /\ timers' = timers \ {t} /\ attempts' = attempts \cup {a} /\ row' = row
    BY <1>3 DEF Fire
  <2>2. row[t.id].next \in {Null, 0}
    BY <1>3 DEF Fire, DueInv
  <2> HIDE DEF a
  <2>3. QED BY <2>1, <2>2 DEF DueInv
<1>4. ASSUME NEW a \in attempts, Load(a) PROVE DueInv'
  BY <1>4 DEF Load, Becomes, DueInv, TypeOK, Attempt
<1>5. ASSUME NEW a \in attempts, LoadFails(a) PROVE DueInv'
  BY <1>5 DEF LoadFails, Dies, DueInv
<1>6. ASSUME NEW a \in attempts, MarkDeliveryFailed(a) PROVE DueInv'
  <2>1. \A d \in Deliveries : row'[d].next = row[d].next
    BY <1>6 DEF MarkDeliveryFailed, TypeOK, Row
  <2>2. QED BY <1>6, <2>1 DEF MarkDeliveryFailed, DueInv
<1>7. ASSUME NEW a \in attempts, Post(a) PROVE DueInv'
  BY <1>7 DEF Post, Becomes, DueInv, TypeOK, Attempt
<1>8. ASSUME NEW a \in attempts, NEW o \in Outcomes, Answer(a, o) PROVE DueInv'
  BY <1>8 DEF Answer, Becomes, DueInv, TypeOK, Attempt
<1>9. ASSUME NEW a \in attempts, Persist(a) PROVE DueInv'
  <2>1. /\ attempts' = attempts \ {a}
        /\ \A d \in Deliveries : d # a.id => row'[d] = row[d]
    BY <1>9 DEF Persist, TypeOK
  <2>2. \A b \in attempts' : b \in attempts /\ row'[b.id] = row[b.id]
    BY <2>1 DEF ChainInv
  <2>3. \A t \in timers : row'[t.id] = row[t.id]
    BY <2>1 DEF ChainInv
  <2>4. CASE ~Retries(a)
    BY <1>9, <2>2, <2>3, <2>4 DEF Persist, DueInv
  <2>5. CASE Retries(a)
    <3>1. row'[a.id].next = RetryDelays[a.n]
      BY <1>9, <2>5, ResultFacts DEF Persist, ChainInv, TypeOK
    <3>2. \A t \in timers' : t \in timers \/ t = [id |-> a.id, due |-> RetryDelays[a.n]]
      BY <1>9, <2>5 DEF Persist, Schedule, Of
    <3>3. QED BY <2>2, <2>3, <3>1, <3>2 DEF DueInv
  <2>6. QED BY <2>4, <2>5
<1>10. ASSUME NEW a \in attempts, PersistFails(a) PROVE DueInv'
  BY <1>10 DEF PersistFails, Dies, DueInv
<1>11. CASE Start
  BY <1>11 DEF Start, DueInv
<1>12. CASE RecoverSelect
  BY <1>12 DEF RecoverSelect, DueInv
<1>13. CASE RecoverArm
  <2>1. \A t \in timers' : \/ t \in timers
                           \/ t.id \in found /\ t.due = row[t.id].next
    BY <1>13 DEF RecoverArm
  <2>2. QED BY <1>13, <2>1 DEF RecoverArm, DueInv
<1>14. CASE RecoverFails
  BY <1>14 DEF RecoverFails, DueInv
<1>15. CASE Tick
  <2>1. CountDown(0) = 0 /\ CountDown(Null) = Null
    BY DEF CountDown, Null
  <2>2. ASSUME NEW u \in timers'
        PROVE  (row'[u.id].next = Null /\ u.due = 0) \/ row'[u.id].next = u.due
    <3>1. PICK t \in timers : u.id = t.id /\ u.due = CountDown(t.due)
      BY <1>15, TickEffect
    <3>2. row'[t.id].next = CountDown(row[t.id].next)
      BY <1>15, TickEffect
    <3>3. QED BY <2>1, <3>1, <3>2 DEF DueInv
  <2>3. \A a \in attempts' : row'[a.id].next \in {Null, 0}
    BY <1>15, <2>1, TickEffect DEF DueInv
  <2>4. QED BY <2>2, <2>3 DEF DueInv
<1>16. CASE Crash
  BY <1>16 DEF Crash, DueInv
<1>17. CASE UNCHANGED vars
  BY <1>17 DEF vars, DueInv
<1>18. QED
  BY <1>1, <1>2, <1>3, <1>4, <1>5, <1>6, <1>7, <1>8, <1>9, <1>10, <1>11, <1>12, <1>13,
     <1>14, <1>15, <1>16, <1>17 DEF Next, AttemptStep, Recovery

\* What storing an outcome does to the tokens: the attempt is gone, a retry
\* has a timer, the other deliveries keep what they have.
LEMMA PersistEffect ==
    ASSUME DeliveryInv, NEW a \in attempts, Persist(a)
    PROVE  /\ a.id \in Deliveries /\ row[a.id].status = "pending"
           /\ row'[a.id] = Result(a)
           /\ \A d \in Deliveries : d # a.id => row'[d] = row[d]
           /\ \A b \in attempts' : b \in attempts /\ b.id # a.id /\ row'[b.id] = row[b.id]
           /\ \A b \in attempts : b.id # a.id => b \in attempts'
           /\ \A t \in timers : t.id # a.id /\ t \in timers' /\ row'[t.id] = row[t.id]
           /\ \A t \in timers' : t \in timers \/ (Retries(a) /\ t.id = a.id)
           /\ Retries(a) => \E t \in timers' : t.id = a.id
           /\ boot' = boot /\ found' = found /\ UNCHANGED history
<1> USE DEF DeliveryInv
<1>1. a.id \in Deliveries /\ row[a.id].status = "pending"
  BY TokenIds DEF ChainInv
<1>2. row'[a.id] = Result(a) /\ \A d \in Deliveries : d # a.id => row'[d] = row[d]
  BY <1>1 DEF Persist, TypeOK
<1>3. attempts' = attempts \ {a}
  BY DEF Persist
<1>4. \A b \in attempts' : b \in attempts /\ b.id # a.id /\ row'[b.id] = row[b.id]
  BY <1>2, <1>3, TokenIds DEF ChainInv
<1>5. \A b \in attempts : b.id # a.id => b \in attempts'
  BY <1>3
<1>6. \A t \in timers : t.id # a.id /\ row'[t.id] = row[t.id]
  BY <1>2, TokenIds DEF ChainInv
<1>7. \A t \in timers : t \in timers'
  BY <1>6 DEF Persist, Schedule, Of
<1>8. ASSUME NEW t \in timers' PROVE t \in timers \/ (Retries(a) /\ t.id = a.id)
  BY DEF Persist, Schedule, Of
<1>9. ASSUME Retries(a) PROVE \E t \in timers' : t.id = a.id
  <2>1. [id |-> a.id, due |-> RetryDelays[a.n]] \in timers'
    BY <1>9 DEF Persist, Schedule
  <2>2. QED BY <2>1
<1>10. boot' = boot /\ found' = found /\ UNCHANGED history
  BY DEF Persist
<1>11. QED BY <1>1, <1>2, <1>4, <1>5, <1>6, <1>7, <1>8, <1>9, <1>10

\* What a resend does: nothing to the rows and tokens of pending deliveries.
LEMMA ResendEffect ==
    ASSUME DeliveryInv, NEW d \in Deliveries, NEW new \in Deliveries, Resend(d, new)
    PROVE  /\ row[new].status = "absent" /\ row'[new] = FreshRow
           /\ \A e \in Deliveries : e # new => row'[e] = row[e]
           /\ \A t \in timers : t.id # new /\ t \in timers' /\ row'[t.id] = row[t.id]
           /\ \A a \in attempts : a.id # new /\ row'[a.id] = row[a.id]
           /\ \A t \in timers' : t \in timers \/ t.id = new
           /\ \E t \in timers' : t.id = new
           /\ attempts' = attempts /\ boot' = boot /\ found' = found /\ UNCHANGED history
<1> USE DEF DeliveryInv
<1>1. row[new].status = "absent" /\ row'[new] = FreshRow
  BY DEF Resend, TypeOK
<1>2. \A e \in Deliveries : e # new => row'[e] = row[e]
  BY DEF Resend, TypeOK
<1>3. \A t \in timers : t.id # new /\ t.id # d /\ row'[t.id] = row[t.id]
  BY <1>1, <1>2, TokenIds DEF ChainInv, Resend
<1>4. \A a \in attempts : a.id # new /\ row'[a.id] = row[a.id]
  BY <1>1, <1>2, TokenIds DEF ChainInv
<1>5. \A t \in timers : t \in timers'
  BY <1>3 DEF Resend, Schedule, Of
<1>6. ASSUME NEW t \in timers' PROVE t \in timers \/ t.id = new
  BY DEF Resend, Schedule, Of
<1>7. \E t \in timers' : t.id = new
  <2>1. [id |-> new, due |-> 0] \in timers'
    BY DEF Resend, Schedule
  <2>2. QED BY <2>1
<1>8. QED BY <1>1, <1>2, <1>3, <1>4, <1>5, <1>6, <1>7 DEF Resend

\* What the recovery arms: a timer for every row found, the others stay.
LEMMA RecoverArmEffect ==
    ASSUME RecoverArm
    PROVE  /\ \A t \in timers : \E u \in timers' : u.id = t.id
           /\ \A d \in found : \E u \in timers' : u.id = d
<1>1. ASSUME NEW d \in found PROVE \E u \in timers' : u.id = d
  <2>1. [id |-> d, due |-> row[d].next] \in timers'
    BY DEF RecoverArm
  <2>2. QED BY <2>1
<1>2. \A t \in timers : t.id \notin found => t \in timers'
  BY DEF RecoverArm
<1>3. QED BY <1>1, <1>2

\* Every step keeps what the recovery relies on.
LEMMA NextBoot == DeliveryInv /\ [Next]_vars => BootInv'
<1> SUFFICES ASSUME DeliveryInv, [Next]_vars PROVE BootInv'
  OBVIOUS
<1> USE TokenIds DEF DeliveryInv
<1>1. ASSUME NEW S \in SUBSET Deliveries, TriggerWebhook(S) PROVE BootInv'
  <2>1. Null # 0 /\ \A d \in S : row'[d].next = Null
    BY <1>1, TriggerEffect, FreshRowFacts DEF Null
  <2>2. \A d \in found : d \in Deliveries \ S
    BY <1>1, TriggerEffect DEF BootInv, Waiting, TypeOK
  <2>3. \A d \in found : row'[d] = row[d]
    BY <1>1, <2>2, TriggerEffect
  <2>4. boot # "down" /\ boot' = boot /\ found' = found
    BY <1>1 DEF TriggerWebhook
  <2>5. \A t \in timers' : t \in timers \/ t.id \in S
    BY <1>1, TriggerEffect
  <2>6. QED BY <1>1, <2>1, <2>3, <2>4, <2>5, TriggerEffect DEF BootInv, Waiting
<1>2. ASSUME NEW d \in Deliveries, NEW new \in Deliveries, Resend(d, new) PROVE BootInv'
  <2>1. Null # 0 /\ row'[new].next = Null
    BY <1>2, ResendEffect, FreshRowFacts DEF Null
  <2>2. \A e \in found : e # new /\ row'[e] = row[e]
    BY <1>2, ResendEffect DEF BootInv, Waiting, TypeOK
  <2>3. boot # "down"
    BY <1>2 DEF Resend
  <2>4. QED BY <1>2, <2>1, <2>2, <2>3, ResendEffect DEF BootInv, Waiting
<1>3. ASSUME NEW t \in timers, Fire(t) PROVE BootInv'
  <2> DEFINE a == [id |-> t.id, pc |-> "load", n |-> 0, outcome |-> "none"]
  <2>1. /\ a.id = t.id /\ timers' = timers \ {t} /\ attempts' = attempts \cup {a}
        /\ row' = row /\ boot' = boot /\ found' = found /\ t.due = 0
    BY <1>3 DEF Fire
  <2>2. boot \in {"select", "arm"} => row[t.id].next = Null
    BY <2>1 DEF DueInv, BootInv
  <2>3. boot # "down"
    BY DEF BootInv
  <2> HIDE DEF a
  <2>4. QED BY <2>1, <2>2, <2>3 DEF BootInv, Waiting
<1>4. ASSUME NEW a \in attempts, NEW b, b.id = a.id, Becomes(a, b),
             UNCHANGED <<row, timers, boot, found>>
      PROVE  BootInv'
  BY <1>4 DEF Becomes, BootInv, Waiting
<1>5. ASSUME NEW a \in attempts, Load(a) PROVE BootInv'
  BY <1>4, <1>5 DEF Load, TypeOK, Attempt
<1>6. ASSUME NEW a \in attempts, LoadFails(a) PROVE BootInv'
  BY <1>6 DEF LoadFails, Dies, BootInv, Waiting
<1>7. ASSUME NEW a \in attempts PROVE a.id \notin found /\ boot # "down"
  BY DEF BootInv, Waiting
<1>8. ASSUME NEW a \in attempts, MarkDeliveryFailed(a) PROVE BootInv'
  <2>1. \A d \in Deliveries : row'[d].next = row[d].next /\ (d # a.id => row'[d] = row[d])
    BY <1>8 DEF MarkDeliveryFailed, TypeOK, Row
  <2>2. \A d \in found : row'[d] = row[d]
    BY <1>7, <2>1 DEF TypeOK
  <2>3. QED BY <1>8, <2>1, <2>2 DEF MarkDeliveryFailed, BootInv, Waiting
<1>9. ASSUME NEW a \in attempts, Post(a) PROVE BootInv'
  BY <1>4, <1>9 DEF Post, TypeOK, Attempt
<1>10. ASSUME NEW a \in attempts, NEW o \in Outcomes, Answer(a, o) PROVE BootInv'
  BY <1>4, <1>10 DEF Answer, TypeOK, Attempt
<1>11. ASSUME NEW a \in attempts, Persist(a) PROVE BootInv'
  <2>1. \A d \in found : row'[d] = row[d]
    BY <1>7, <1>11, PersistEffect DEF TypeOK
  <2>2. Retries(a) => row'[a.id].next # 0
    <3>1. a.pc = "persist" /\ row[a.id].status = "pending" /\ row'[a.id] = Result(a)
      BY <1>11, PersistEffect DEF Persist
    <3>2. QED BY <3>1, ResultFacts
  <2>3. \A t \in timers' : \/ t \in timers /\ row'[t.id] = row[t.id]
                           \/ row'[t.id].next # 0
    BY <1>11, <2>2, PersistEffect
  <2>4. \A b \in attempts' : b \in attempts /\ row'[b.id] = row[b.id]
    BY <1>11, PersistEffect
  <2>5. boot' = boot /\ found' = found
    BY <1>11, PersistEffect
  <2>6. QED BY <1>7, <2>1, <2>3, <2>4, <2>5 DEF BootInv, Waiting
<1>12. ASSUME NEW a \in attempts, PersistFails(a) PROVE BootInv'
  BY <1>12 DEF PersistFails, Dies, BootInv, Waiting
<1>13. CASE Start
  BY <1>13 DEF Start, BootInv
<1>14. CASE RecoverSelect
  BY <1>14 DEF RecoverSelect, BootInv, Waiting
<1>15. CASE RecoverArm
  BY <1>15 DEF RecoverArm, BootInv
<1>16. CASE RecoverFails
  BY <1>16 DEF RecoverFails, BootInv
<1>17. CASE Tick
  <2>1. found = {} /\ found' = found /\ boot' = boot /\ boot \in {"down", "done"}
    BY <1>17 DEF Tick, BootInv
  <2>2. attempts' = attempts /\ \A u \in timers' : \E t \in timers : u.id = t.id
    BY <1>17, TickEffect
  <2>3. QED BY <2>1, <2>2 DEF BootInv
<1>18. CASE Crash
  BY <1>18 DEF Crash, BootInv
<1>19. CASE UNCHANGED vars
  BY <1>19 DEF vars, BootInv, Waiting
<1>20. QED
  BY <1>1, <1>2, <1>3, <1>5, <1>6, <1>8, <1>9, <1>10, <1>11, <1>12, <1>13,
     <1>14, <1>15, <1>16, <1>17, <1>18, <1>19 DEF Next, AttemptStep, Recovery

-----------------------------------------------------------------------------
(* Counting requests                                                       *)

\* An attempt that goes on: only its own request can be in flight or not.
LEMMA FlightBecomes ==
    ASSUME ChainInv, NEW a \in attempts, NEW b, b.id = a.id, Becomes(a, b), NEW d
    PROVE  /\ InFlight(d)' <=> IF d = a.id THEN b.pc \in {"wait", "persist"} ELSE InFlight(d)
           /\ InFlight(a.id) <=> a.pc \in {"wait", "persist"}
<1>1. \A x \in attempts' : x = b \/ (x \in attempts /\ x.id # a.id)
  BY DEF Becomes, ChainInv
<1>2. b \in attempts' /\ \A x \in attempts : x.id # a.id => x \in attempts'
  BY DEF Becomes
<1>3. InFlight(d)' <=> \E x \in attempts' : x.id = d /\ x.pc \in {"wait", "persist"}
  BY DEF InFlight
<1>4. InFlight(a.id) <=> a.pc \in {"wait", "persist"}
  BY DEF InFlight, ChainInv
<1>5. CASE d = a.id
  BY <1>1, <1>2, <1>3, <1>4, <1>5
<1>6. CASE d # a.id
  BY <1>1, <1>2, <1>3, <1>4, <1>6 DEF InFlight
<1>7. QED BY <1>5, <1>6

\* An attempt that ends: nothing of its delivery is in flight any more.
LEMMA FlightEnds ==
    ASSUME ChainInv, NEW a \in attempts, attempts' = attempts \ {a}, NEW d
    PROVE  /\ InFlight(d)' <=> (d # a.id /\ InFlight(d))
           /\ InFlight(a.id) <=> a.pc \in {"wait", "persist"}
<1>1. \A x \in attempts' : x \in attempts /\ x.id # a.id
  BY DEF ChainInv
<1>2. \A x \in attempts : x.id # a.id => x \in attempts'
  OBVIOUS
<1>3. InFlight(d)' <=> \E x \in attempts' : x.id = d /\ x.pc \in {"wait", "persist"}
  BY DEF InFlight
<1>4. InFlight(a.id) <=> a.pc \in {"wait", "persist"}
  BY DEF InFlight, ChainInv
<1>5. QED BY <1>1, <1>2, <1>3, <1>4 DEF InFlight

\* Steps that leave every count alone.
LEMMA CountsKept ==
    ASSUME TypeOK, CountInv, sent' = sent, interrupted' = interrupted,
           \A d \in Deliveries : row'[d].count = row[d].count,
           \A d \in Deliveries : /\ row'[d].status = "absent" => row[d].status = "absent"
                                 /\ row'[d].status = "pending" => row[d].status = "pending",
           \A a \in attempts' : a \in attempts \/ (a.pc = "load" /\ a.id \in Deliveries),
           \A d \in Deliveries : InFlight(d) => InFlight(d)'
    PROVE  CountInv'
<1>1. \A d \in Deliveries : /\ sent[d] \in Nat /\ interrupted[d] \in Nat
                            /\ row[d].count \in 0..MAX_ATTEMPTS
  BY DEF TypeOK, Row
<1>2. \A a \in attempts : a.id \in Deliveries
  BY TokenIds
<1>3. \A d \in Deliveries :
         sent'[d] <= row'[d].count + interrupted'[d] + (IF InFlight(d)' THEN 1 ELSE 0)
  <2>1. TAKE d \in Deliveries
  <2>2. sent[d] <= row[d].count + interrupted[d] + (IF InFlight(d) THEN 1 ELSE 0)
    BY DEF CountInv
  <2>3. InFlight(d) => InFlight(d)'
    OBVIOUS
  <2>4. QED BY <1>1, <2>2, <2>3, MaxAttemptsType
<1>4. \A a \in attempts' : /\ a.pc # "load" => a.n = row'[a.id].count + 1
                           /\ a.pc \in {"wait", "persist"} => sent'[a.id] >= a.n
  BY <1>2 DEF CountInv
<1>5. \A d \in Deliveries :
         /\ row'[d].status = "absent" => row'[d].count = 0 /\ sent'[d] = 0
         /\ row'[d].status = "pending" => row'[d].count < MAX_ATTEMPTS
         /\ sent'[d] >= row'[d].count
  BY DEF CountInv
<1>6. QED BY <1>3, <1>4, <1>5 DEF CountInv

\* A new row starts at zero.
LEMMA FreshCounts ==
    ASSUME TypeOK, CountInv, sent' = sent, interrupted' = interrupted, attempts' = attempts,
           NEW S \in SUBSET Deliveries, \A d \in S : row[d].status = "absent",
           \A d \in S : row'[d] = FreshRow,
           \A d \in Deliveries \ S : row'[d] = row[d],
           \A a \in attempts : a.id \notin S
    PROVE  CountInv'
<1>1. \A d \in Deliveries : row'[d].count = row[d].count
  BY FreshRowFacts DEF CountInv
<1>2. \A d \in S : row'[d].status = "pending" /\ row'[d].count = 0
  BY FreshRowFacts
<1>3. \A d \in Deliveries :
         /\ row'[d].status = "absent" => row'[d].count = 0 /\ sent'[d] = 0
         /\ row'[d].status = "pending" => row'[d].count < MAX_ATTEMPTS
         /\ sent'[d] >= row'[d].count
  BY <1>1, <1>2, MaxAttemptsType DEF CountInv
<1>4. \A d \in Deliveries : InFlight(d)' <=> InFlight(d)
  BY DEF InFlight
<1>5. \A d \in Deliveries :
         sent'[d] <= row'[d].count + interrupted'[d] + (IF InFlight(d)' THEN 1 ELSE 0)
  BY <1>1, <1>4 DEF CountInv
<1>6. \A a \in attempts' : /\ a.pc # "load" => a.n = row'[a.id].count + 1
                           /\ a.pc \in {"wait", "persist"} => sent'[a.id] >= a.n
  BY <1>1, TokenIds DEF CountInv
<1>7. QED BY <1>3, <1>5, <1>6 DEF CountInv

\* Every step keeps attempt_count in step with the requests.
LEMMA NextCount == DeliveryInv /\ [Next]_vars => CountInv'
<1> SUFFICES ASSUME DeliveryInv, [Next]_vars PROVE CountInv'
  OBVIOUS
<1> USE TokenIds DEF DeliveryInv
<1>a. \A d \in Deliveries : /\ sent[d] \in Nat /\ interrupted[d] \in Nat
                            /\ row[d].count \in Nat
  BY MaxAttemptsType DEF TypeOK, Row
<1>1. ASSUME NEW S \in SUBSET Deliveries, TriggerWebhook(S) PROVE CountInv'
  <2>1. sent' = sent /\ interrupted' = interrupted
    BY <1>1 DEF TriggerWebhook, history
  <2>2. QED BY <1>1, <2>1, TriggerEffect, FreshCounts
<1>2. ASSUME NEW d \in Deliveries, NEW new \in Deliveries, Resend(d, new) PROVE CountInv'
  <2>1. sent' = sent /\ interrupted' = interrupted
    BY <1>2 DEF Resend, history
  <2>2. /\ {new} \in SUBSET Deliveries
        /\ \A e \in {new} : row[e].status = "absent" /\ row'[e] = FreshRow
        /\ \A e \in Deliveries \ {new} : row'[e] = row[e]
        /\ \A a \in attempts : a.id \notin {new}
        /\ attempts' = attempts
    BY <1>2, ResendEffect
  <2>3. QED BY <2>1, <2>2, FreshCounts
<1>3. ASSUME NEW t \in timers, Fire(t) PROVE CountInv'
  <2> DEFINE a == [id |-> t.id, pc |-> "load", n |-> 0, outcome |-> "none"]
  <2>1. /\ a.id \in Deliveries /\ a.pc = "load" /\ attempts' = attempts \cup {a}
        /\ row' = row /\ sent' = sent /\ interrupted' = interrupted
    BY <1>3 DEF Fire, history
  <2> HIDE DEF a
  <2>2. \A e \in Deliveries : InFlight(e) => InFlight(e)'
    BY <2>1 DEF InFlight
  <2>3. QED BY <2>1, <2>2, CountsKept
<1>4. ASSUME NEW a \in attempts, Load(a) PROVE CountInv'
  <2> DEFINE b == [a EXCEPT !.pc = "send", !.n = row[a.id].count + 1]
  <2>1. b.id = a.id /\ b.pc = "send" /\ b.n = row[a.id].count + 1
    BY DEF TypeOK, Attempt
  <2>2. /\ Becomes(a, b) /\ a.pc = "load" /\ row' = row /\ sent' = sent
        /\ interrupted' = interrupted
    BY <1>4 DEF Load, history
  <2> HIDE DEF b
  <2>3. \A e \in Deliveries : InFlight(e)' <=> InFlight(e)
    BY <2>1, <2>2, FlightBecomes
  <2>4. \A e \in Deliveries :
           sent'[e] <= row'[e].count + interrupted'[e] + (IF InFlight(e)' THEN 1 ELSE 0)
    BY <2>2, <2>3 DEF CountInv
  <2>5. \A x \in attempts' : x \in attempts \/ x = b
    BY <2>2 DEF Becomes
  <2>6. \A x \in attempts' : /\ x.pc # "load" => x.n = row'[x.id].count + 1
                             /\ x.pc \in {"wait", "persist"} => sent'[x.id] >= x.n
    BY <2>1, <2>2, <2>5 DEF CountInv
  <2>7. QED BY <2>2, <2>4, <2>6 DEF CountInv
<1>5. ASSUME NEW a \in attempts, attempts' = attempts \ {a}, a.pc = "load",
             sent' = sent, interrupted' = interrupted,
             \A d \in Deliveries :
                 /\ row'[d].count = row[d].count
                 /\ row'[d].status = "absent" => row[d].status = "absent"
                 /\ row'[d].status = "pending" => row[d].status = "pending"
      PROVE  CountInv'
  <2>1. \A e \in Deliveries : InFlight(e) => InFlight(e)'
    BY <1>5, FlightEnds
  <2>2. QED BY <1>5, <2>1, CountsKept
<1>6. ASSUME NEW a \in attempts, LoadFails(a) PROVE CountInv'
  BY <1>5, <1>6 DEF LoadFails, Dies
<1>7. ASSUME NEW a \in attempts, MarkDeliveryFailed(a) PROVE CountInv'
  <2>1. \A d \in Deliveries :
           /\ row'[d].count = row[d].count
           /\ row'[d].status = row[d].status \/ row'[d].status = "failed"
    BY <1>7 DEF MarkDeliveryFailed, TypeOK, Row
  <2>2. QED BY <1>5, <1>7, <2>1 DEF MarkDeliveryFailed
<1>8. ASSUME NEW a \in attempts, Post(a) PROVE CountInv'
  <2> DEFINE b == [a EXCEPT !.pc = "wait"]
  <2>1. b.id = a.id /\ b.pc = "wait" /\ b.n = a.n
    BY DEF TypeOK, Attempt
  <2>2. /\ Becomes(a, b) /\ a.pc = "send" /\ row' = row
        /\ interrupted' = interrupted
    BY <1>8 DEF Post
  <2>3. sent'[a.id] = sent[a.id] + 1 /\ \A e \in Deliveries : e # a.id => sent'[e] = sent[e]
    BY <1>8 DEF Post, TypeOK
  <2> HIDE DEF b
  <2>4. a.n = row[a.id].count + 1 /\ sent[a.id] >= row[a.id].count
    BY <2>2 DEF CountInv
  <2>5. row[a.id].status = "pending"
    BY DEF ChainInv
  <2>6. \A e \in Deliveries : InFlight(e)' <=> (e = a.id \/ InFlight(e))
    BY <2>1, <2>2, FlightBecomes
  <2>7. ~InFlight(a.id)
    BY <2>1, <2>2, FlightBecomes
  <2>8. ASSUME NEW e \in Deliveries
        PROVE  sent'[e] <= row'[e].count + interrupted'[e] + (IF InFlight(e)' THEN 1 ELSE 0)
    <3>1. sent[e] <= row[e].count + interrupted[e] + (IF InFlight(e) THEN 1 ELSE 0)
      BY DEF CountInv
    <3>2. CASE e = a.id
      BY <1>a, <2>2, <2>3, <2>6, <2>7, <3>1, <3>2
    <3>3. CASE e # a.id
      BY <1>a, <2>2, <2>3, <2>6, <3>1, <3>3
    <3>4. QED BY <3>2, <3>3
  <2>9. ASSUME NEW x \in attempts'
        PROVE  /\ x.pc # "load" => x.n = row'[x.id].count + 1
               /\ x.pc \in {"wait", "persist"} => sent'[x.id] >= x.n
    <3>1. x = b \/ (x \in attempts /\ x.id # a.id)
      BY <2>2 DEF Becomes, ChainInv
    <3>2. sent'[a.id] >= a.n
      BY <1>a, <2>3, <2>4
    <3>3. QED BY <2>1, <2>2, <2>3, <2>4, <3>1, <3>2 DEF CountInv
  <2>10. ASSUME NEW e \in Deliveries
         PROVE  /\ row'[e].status = "absent" => row'[e].count = 0 /\ sent'[e] = 0
                /\ row'[e].status = "pending" => row'[e].count < MAX_ATTEMPTS
                /\ sent'[e] >= row'[e].count
    BY <1>a, <2>2, <2>3, <2>5 DEF CountInv
  <2>11. QED BY <2>8, <2>9, <2>10 DEF CountInv
<1>9. ASSUME NEW a \in attempts, NEW o \in Outcomes, Answer(a, o) PROVE CountInv'
  <2> DEFINE b == [a EXCEPT !.pc = "persist", !.outcome = o]
  <2>1. b.id = a.id /\ b.pc = "persist" /\ b.n = a.n
    BY DEF TypeOK, Attempt
  <2>2. /\ Becomes(a, b) /\ a.pc = "wait" /\ row' = row /\ sent' = sent
        /\ interrupted' = interrupted
    BY <1>9 DEF Answer
  <2> HIDE DEF b
  <2>3. \A e \in Deliveries : InFlight(e)' <=> InFlight(e)
    BY <2>1, <2>2, FlightBecomes
  <2>4. \A e \in Deliveries :
           sent'[e] <= row'[e].count + interrupted'[e] + (IF InFlight(e)' THEN 1 ELSE 0)
    BY <2>2, <2>3 DEF CountInv
  <2>5. \A x \in attempts' : x \in attempts \/ x = b
    BY <2>2 DEF Becomes
  <2>6. \A x \in attempts' : /\ x.pc # "load" => x.n = row'[x.id].count + 1
                             /\ x.pc \in {"wait", "persist"} => sent'[x.id] >= x.n
    BY <2>1, <2>2, <2>5 DEF CountInv
  <2>7. QED BY <2>2, <2>4, <2>6 DEF CountInv
<1>10. ASSUME NEW a \in attempts, Persist(a) PROVE CountInv'
  <2>1. /\ a.id \in Deliveries /\ row[a.id].status = "pending" /\ a.pc = "persist"
        /\ row'[a.id] = Result(a) /\ attempts' = attempts \ {a}
        /\ sent' = sent /\ interrupted' = interrupted
    BY <1>10, PersistEffect DEF Persist, history
  <2>2. \A e \in Deliveries : e # a.id => row'[e] = row[e]
    BY <1>10, PersistEffect
  <2>3. /\ row'[a.id].count = a.n /\ a.n = row[a.id].count + 1
        /\ row'[a.id].status # "absent"
        /\ row'[a.id].status = "pending" => a.n < MAX_ATTEMPTS
    BY <2>1, ResultFacts
  <2>4. sent[a.id] >= a.n
    BY <2>1 DEF CountInv
  <2>5. InFlight(a.id) /\ \A e \in Deliveries : InFlight(e)' <=> (e # a.id /\ InFlight(e))
    BY <2>1, FlightEnds
  <2>6. ASSUME NEW e \in Deliveries
        PROVE  sent'[e] <= row'[e].count + interrupted'[e] + (IF InFlight(e)' THEN 1 ELSE 0)
    <3>1. sent[e] <= row[e].count + interrupted[e] + (IF InFlight(e) THEN 1 ELSE 0)
      BY DEF CountInv
    <3>2. CASE e = a.id
      BY <1>a, <2>1, <2>3, <2>5, <3>1, <3>2
    <3>3. CASE e # a.id
      BY <1>a, <2>1, <2>2, <2>5, <3>1, <3>3
    <3>4. QED BY <3>2, <3>3
  <2>7. \A x \in attempts' : /\ x.pc # "load" => x.n = row'[x.id].count + 1
                             /\ x.pc \in {"wait", "persist"} => sent'[x.id] >= x.n
    BY <1>10, <2>1, PersistEffect DEF CountInv
  <2>8. ASSUME NEW e \in Deliveries
        PROVE  /\ row'[e].status = "absent" => row'[e].count = 0 /\ sent'[e] = 0
               /\ row'[e].status = "pending" => row'[e].count < MAX_ATTEMPTS
               /\ sent'[e] >= row'[e].count
    BY <2>1, <2>2, <2>3, <2>4 DEF CountInv
  <2>9. QED BY <2>6, <2>7, <2>8 DEF CountInv
<1>11. ASSUME NEW a \in attempts, PersistFails(a) PROVE CountInv'
  <2>1. /\ a.pc = "persist" /\ row' = row /\ attempts' = attempts \ {a} /\ sent' = sent
        /\ interrupted'[a.id] = interrupted[a.id] + 1
        /\ \A e \in Deliveries : e # a.id => interrupted'[e] = interrupted[e]
    BY <1>11 DEF PersistFails, Dies, TypeOK
  <2>2. InFlight(a.id) /\ \A e \in Deliveries : InFlight(e)' <=> (e # a.id /\ InFlight(e))
    BY <2>1, FlightEnds
  <2>3. ASSUME NEW e \in Deliveries
        PROVE  sent'[e] <= row'[e].count + interrupted'[e] + (IF InFlight(e)' THEN 1 ELSE 0)
    <3>1. sent[e] <= row[e].count + interrupted[e] + (IF InFlight(e) THEN 1 ELSE 0)
      BY DEF CountInv
    <3>2. CASE e = a.id
      BY <1>a, <2>1, <2>2, <3>1, <3>2
    <3>3. CASE e # a.id
      BY <1>a, <2>1, <2>2, <3>1, <3>3
    <3>4. QED BY <3>2, <3>3
  <2>4. QED BY <2>1, <2>3 DEF CountInv
<1>12. ASSUME UNCHANGED <<row, attempts, sent, interrupted>> PROVE CountInv'
  BY <1>12 DEF CountInv, InFlight
<1>13. CASE Start
  BY <1>12, <1>13 DEF Start, history
<1>14. CASE RecoverSelect
  BY <1>12, <1>14 DEF RecoverSelect, history
<1>15. CASE RecoverArm
  BY <1>12, <1>15 DEF RecoverArm, history
<1>16. CASE RecoverFails
  BY <1>12, <1>16 DEF RecoverFails
<1>17. CASE Tick
  <2>1. sent' = sent /\ interrupted' = interrupted /\ attempts' = attempts
    BY <1>17 DEF Tick, history
  <2>2. \A e \in Deliveries : InFlight(e) => InFlight(e)'
    BY <2>1 DEF InFlight
  <2>3. QED BY <1>17, <2>1, <2>2, TickEffect, CountsKept
<1>18. CASE Crash
  <2>1. /\ row' = row /\ sent' = sent /\ attempts' = {}
        /\ \A e \in Deliveries :
              interrupted'[e] = interrupted[e] + (IF InFlight(e) THEN 1 ELSE 0)
    BY <1>18 DEF Crash
  <2>2. \A e \in Deliveries : ~InFlight(e)'
    BY <2>1 DEF InFlight
  <2>3. ASSUME NEW e \in Deliveries
        PROVE  sent'[e] <= row'[e].count + interrupted'[e] + (IF InFlight(e)' THEN 1 ELSE 0)
    <3>1. sent[e] <= row[e].count + interrupted[e] + (IF InFlight(e) THEN 1 ELSE 0)
      BY DEF CountInv
    <3>2. QED BY <1>a, <2>1, <2>2, <3>1
  <2>4. QED BY <2>1, <2>3 DEF CountInv
<1>19. CASE UNCHANGED vars
  BY <1>12, <1>19 DEF vars, history
<1>20. QED
  BY <1>1, <1>2, <1>3, <1>4, <1>6, <1>7, <1>8, <1>9, <1>10, <1>11, <1>13,
     <1>14, <1>15, <1>16, <1>17, <1>18, <1>19 DEF Next, AttemptStep, Recovery

-----------------------------------------------------------------------------
(* Answers, and what becomes of pending deliveries                         *)

\* Every step keeps the outcomes that are about to be stored truthful.
LEMMA NextAnswer == DeliveryInv /\ [Next]_vars => AnswerInv'
<1> SUFFICES ASSUME DeliveryInv, [Next]_vars PROVE AnswerInv'
  OBVIOUS
<1> USE DEF DeliveryInv
<1>1. ASSUME NEW S \in SUBSET Deliveries, TriggerWebhook(S) PROVE AnswerInv'
  BY <1>1 DEF TriggerWebhook, AnswerInv, history
<1>2. ASSUME NEW d \in Deliveries, NEW new \in Deliveries, Resend(d, new) PROVE AnswerInv'
  BY <1>2 DEF Resend, AnswerInv, history
<1>3. ASSUME NEW t \in timers, Fire(t) PROVE AnswerInv'
  BY <1>3 DEF Fire, AnswerInv, history
<1>4. ASSUME NEW a \in attempts, Load(a) PROVE AnswerInv'
  BY <1>4 DEF Load, Becomes, AnswerInv, history, TypeOK, Attempt
<1>5. ASSUME NEW a \in attempts, LoadFails(a) PROVE AnswerInv'
  BY <1>5 DEF LoadFails, Dies, AnswerInv
<1>6. ASSUME NEW a \in attempts, MarkDeliveryFailed(a) PROVE AnswerInv'
  BY <1>6 DEF MarkDeliveryFailed, AnswerInv
<1>7. ASSUME NEW a \in attempts, Post(a) PROVE AnswerInv'
  BY <1>7 DEF Post, Becomes, AnswerInv, TypeOK, Attempt
<1>8. ASSUME NEW a \in attempts, NEW o \in Outcomes, Answer(a, o) PROVE AnswerInv'
  <2> DEFINE b == [a EXCEPT !.pc = "persist", !.outcome = o]
  <2>1. b.id = a.id /\ b.outcome = o
    BY DEF TypeOK, Attempt
  <2>2. Becomes(a, b)
    BY <1>8 DEF Answer
  <2> HIDE DEF b
  <2>3. \A x \in attempts' : x \in attempts \/ x = b
    BY <2>2 DEF Becomes
  <2>4. /\ o = "success" => a.id \in accepted'
        /\ o = "non-retryable" => a.id \in refused'
        /\ accepted \subseteq accepted' /\ refused \subseteq refused'
    BY <1>8 DEF Answer
  <2>5. QED BY <2>1, <2>3, <2>4 DEF AnswerInv
<1>9. ASSUME NEW a \in attempts, Persist(a) PROVE AnswerInv'
  BY <1>9 DEF Persist, AnswerInv, history
<1>10. ASSUME NEW a \in attempts, PersistFails(a) PROVE AnswerInv'
  BY <1>10 DEF PersistFails, Dies, AnswerInv
<1>11. CASE Start
  BY <1>11 DEF Start, AnswerInv, history
<1>12. CASE RecoverSelect
  BY <1>12 DEF RecoverSelect, AnswerInv, history
<1>13. CASE RecoverArm
  BY <1>13 DEF RecoverArm, AnswerInv, history
<1>14. CASE RecoverFails
  BY <1>14 DEF RecoverFails, AnswerInv
<1>15. CASE Tick
  BY <1>15 DEF Tick, AnswerInv, history
<1>16. CASE Crash
  BY <1>16 DEF Crash, AnswerInv
<1>17. CASE UNCHANGED vars
  BY <1>17 DEF vars, AnswerInv, history
<1>18. QED
  BY <1>1, <1>2, <1>3, <1>4, <1>5, <1>6, <1>7, <1>8, <1>9, <1>10, <1>11, <1>12, <1>13,
     <1>14, <1>15, <1>16, <1>17 DEF Next, AttemptStep, Recovery

\* What each step may do to a status, and to the histories an outcome rests on.
LEMMA NextOutcome ==
    ASSUME DeliveryInv, [Next]_vars, NEW d \in Deliveries
    PROVE  /\ accepted \subseteq accepted' /\ refused \subseteq refused'
           /\ sent'[d] >= sent[d]
           /\ row'[d].status = "success" => row[d].status = "success" \/ d \in accepted'
           /\ row'[d].status = "failed" =>
                 \/ row[d].status = "failed"
                 \/ sent'[d] >= MAX_ATTEMPTS \/ d \in refused'
           /\ row[d].status \in {"success", "failed"} =>
                 row'[d].status = row[d].status /\ sent'[d] = sent[d]
           /\ sent'[d] > sent[d] => row[d].next \in {Null, 0}
<1> USE TokenIds DEF DeliveryInv
<1> DEFINE G == /\ accepted \subseteq accepted' /\ refused \subseteq refused'
                /\ sent'[d] >= sent[d]
                /\ row'[d].status = "success" => row[d].status = "success" \/ d \in accepted'
                /\ row'[d].status = "failed" =>
                      \/ row[d].status = "failed"
                      \/ sent'[d] >= MAX_ATTEMPTS \/ d \in refused'
                /\ row[d].status \in {"success", "failed"} =>
                      row'[d].status = row[d].status /\ sent'[d] = sent[d]
                /\ sent'[d] > sent[d] => row[d].next \in {Null, 0}
<1>a. sent[d] \in Nat
  BY DEF TypeOK
<1>1. ASSUME sent' = sent, accepted' = accepted, refused' = refused,
             row'[d].status = row[d].status
      PROVE  G
  BY <1>a, <1>1
<1>2. ASSUME sent' = sent, accepted' = accepted, refused' = refused,
             row[d].status = "absent", row'[d] = FreshRow
      PROVE  G
  BY <1>a, <1>2, FreshRowFacts
<1>3. ASSUME NEW S \in SUBSET Deliveries, TriggerWebhook(S) PROVE G
  <2>1. sent' = sent /\ accepted' = accepted /\ refused' = refused
    BY <1>3 DEF TriggerWebhook, history
  <2>2. CASE d \in S
    BY <1>2, <1>3, <2>1, <2>2, TriggerEffect
  <2>3. CASE d \notin S
    BY <1>1, <1>3, <2>1, <2>3, TriggerEffect
  <2>4. QED BY <2>2, <2>3
<1>4. ASSUME NEW e \in Deliveries, NEW new \in Deliveries, Resend(e, new) PROVE G
  <2>1. sent' = sent /\ accepted' = accepted /\ refused' = refused
    BY <1>4 DEF Resend, history
  <2>2. CASE d = new
    BY <1>2, <1>4, <2>1, <2>2, ResendEffect
  <2>3. CASE d # new
    BY <1>1, <1>4, <2>1, <2>3, ResendEffect
  <2>4. QED BY <2>2, <2>3
<1>5. ASSUME NEW t \in timers, Fire(t) PROVE G
  BY <1>1, <1>5 DEF Fire, history
<1>6. ASSUME NEW a \in attempts, Load(a) PROVE G
  BY <1>1, <1>6 DEF Load, history
<1>7. ASSUME NEW a \in attempts, LoadFails(a) PROVE G
  BY <1>1, <1>7 DEF LoadFails
<1>8. ASSUME NEW a \in attempts, MarkDeliveryFailed(a) PROVE G
  <2>1. /\ sent' = sent /\ accepted' = accepted /\ refused' = refused \cup {a.id}
        /\ row[a.id].status = "pending"
        /\ row'[a.id].status = "failed"
        /\ \A e \in Deliveries : e # a.id => row'[e] = row[e]
    BY <1>8 DEF MarkDeliveryFailed, TypeOK, Row, ChainInv
  <2>2. CASE d = a.id
    BY <1>a, <2>1, <2>2
  <2>3. CASE d # a.id
    BY <1>a, <2>1, <2>3
  <2>4. QED BY <2>2, <2>3
<1>9. ASSUME NEW a \in attempts, Post(a) PROVE G
  <2>1. /\ row' = row /\ accepted' = accepted /\ refused' = refused
        /\ sent'[a.id] = sent[a.id] + 1
        /\ \A e \in Deliveries : e # a.id => sent'[e] = sent[e]
    BY <1>9 DEF Post, TypeOK
  <2>2. row[a.id].status = "pending" /\ row[a.id].next \in {Null, 0}
    BY DEF ChainInv, DueInv
  <2>3. CASE d = a.id
    BY <1>a, <2>1, <2>2, <2>3
  <2>4. CASE d # a.id
    BY <1>a, <2>1, <2>4
  <2>5. QED BY <2>3, <2>4
<1>10. ASSUME NEW a \in attempts, NEW o \in Outcomes, Answer(a, o) PROVE G
  <2>1. /\ accepted \subseteq accepted' /\ refused \subseteq refused'
        /\ row' = row /\ sent' = sent
    BY <1>10 DEF Answer
  <2>2. QED BY <1>a, <2>1
<1>11. ASSUME NEW a \in attempts, Persist(a) PROVE G
  <2>1. /\ a.id \in Deliveries /\ row[a.id].status = "pending" /\ a.pc = "persist"
        /\ row'[a.id] = Result(a)
        /\ sent' = sent /\ accepted' = accepted /\ refused' = refused
    BY <1>11, PersistEffect DEF Persist, history
  <2>2. \A e \in Deliveries : e # a.id => row'[e] = row[e]
    BY <1>11, PersistEffect
  <2>3. /\ row'[a.id].status = "success" => a.outcome = "success"
        /\ row'[a.id].status = "failed" => a.outcome = "non-retryable" \/ a.n >= MAX_ATTEMPTS
    BY <2>1, ResultFacts
  <2>4. /\ a.outcome = "success" => a.id \in accepted
        /\ a.outcome = "non-retryable" => a.id \in refused
    BY <2>1 DEF AnswerInv
  <2>5. a.n \in Nat /\ sent[a.id] >= a.n /\ sent[a.id] \in Nat
    BY <2>1, MaxAttemptsType DEF CountInv, TypeOK, Attempt
  <2>6. CASE d = a.id
    BY <1>a, <2>1, <2>3, <2>4, <2>5, <2>6, MaxAttemptsType
  <2>7. CASE d # a.id
    BY <1>1, <2>1, <2>2, <2>7
  <2>8. QED BY <2>6, <2>7
<1>12. ASSUME NEW a \in attempts, PersistFails(a) PROVE G
  BY <1>1, <1>12 DEF PersistFails
<1>13. CASE Start
  BY <1>1, <1>13 DEF Start, history
<1>14. CASE RecoverSelect
  BY <1>1, <1>14 DEF RecoverSelect, history
<1>15. CASE RecoverArm
  BY <1>1, <1>15 DEF RecoverArm, history
<1>16. CASE RecoverFails
  BY <1>1, <1>16 DEF RecoverFails
<1>17. CASE Tick
  <2>1. sent' = sent /\ accepted' = accepted /\ refused' = refused
    BY <1>17 DEF Tick, history
  <2>2. row'[d].status = row[d].status
    BY <1>17, TickEffect
  <2>3. QED BY <1>1, <2>1, <2>2
<1>18. CASE Crash
  BY <1>1, <1>18 DEF Crash
<1>19. CASE UNCHANGED vars
  BY <1>1, <1>19 DEF vars, history
<1>20. G
  BY <1>3, <1>4, <1>5, <1>6, <1>7, <1>8, <1>9, <1>10, <1>11, <1>12, <1>13,
     <1>14, <1>15, <1>16, <1>17, <1>18, <1>19 DEF Next, AttemptStep, Recovery
<1>21. QED BY <1>20

\* Every step keeps outcomes truthful.
LEMMA NextTruthful == DeliveryInv /\ [Next]_vars => OutcomeTruthful'
<1> SUFFICES ASSUME DeliveryInv, [Next]_vars, NEW d \in Deliveries
             PROVE  /\ row'[d].status = "success" => d \in accepted'
                    /\ row'[d].status = "failed" => sent'[d] >= MAX_ATTEMPTS \/ d \in refused'
  BY DEF OutcomeTruthful
<1>1. /\ row[d].status = "success" => d \in accepted
      /\ row[d].status = "failed" => sent[d] >= MAX_ATTEMPTS \/ d \in refused
  BY DEF DeliveryInv, OutcomeTruthful
<1>2. row[d].status = "success" => d \in accepted'
  BY <1>1, NextOutcome
<1>3. row[d].status = "failed" => sent'[d] >= MAX_ATTEMPTS \/ d \in refused'
  BY <1>1, NextOutcome
<1>4. QED BY <1>2, <1>3, NextOutcome

\* A delivery is idle when no timer and no attempt carries its id.
LEMMA IdleFacts ==
    ASSUME NEW d
    PROVE  /\ Idle(d) <=> /\ \A t \in timers : t.id # d
                          /\ \A a \in attempts : a.id # d
           /\ Idle(d)' <=> /\ \A t \in timers' : t.id # d
                           /\ \A a \in attempts' : a.id # d
<1>1. Idle(d) <=> (\A t \in timers : t.id # d) /\ (\A a \in attempts : a.id # d)
  BY DEF Idle, Of
<1>2. Idle(d)' <=> (\A t \in timers' : t.id # d) /\ (\A a \in attempts' : a.id # d)
  BY DEF Idle, Of
<1>3. QED BY <1>1, <1>2

\* Every step leaves a pending delivery with someone to take it further, or
\* is the failure that broke its chain.
LEMMA NextPending == DeliveryInv /\ [Next]_vars => PendingHasToken'
<1> SUFFICES ASSUME DeliveryInv, [Next]_vars, NEW d \in Deliveries, row'[d].status = "pending"
             PROVE  \/ ~Idle(d)'
                    \/ d \in broken'
                    \/ row'[d].next # Null /\ (boot' \in {"down", "select"} \/ d \in found')
  BY DEF PendingHasToken
<1> USE TokenIds DEF DeliveryInv
<1> DEFINE H == \/ ~Idle(d)
                \/ d \in broken
                \/ row[d].next # Null /\ (boot \in {"down", "select"} \/ d \in found)
           G == \/ ~Idle(d)'
                \/ d \in broken'
                \/ row'[d].next # Null /\ (boot' \in {"down", "select"} \/ d \in found')
<1>a. row[d].status = "pending" => H
  BY DEF PendingHasToken
<1>1. ASSUME row'[d] = row[d], ~Idle(d) => ~Idle(d)', broken' = broken,
             boot' = boot, found' = found
      PROVE  G
  BY <1>a, <1>1
<1>2. ASSUME NEW S \in SUBSET Deliveries, TriggerWebhook(S) PROVE G
  <2>1. boot' = boot /\ found' = found /\ broken' = broken
    BY <1>2 DEF TriggerWebhook, history
  <2>2. CASE d \in S
    BY <1>2, <2>2, TriggerEffect, IdleFacts
  <2>3. CASE d \notin S
    <3>1. ~Idle(d) => ~Idle(d)'
      BY <1>2, TriggerEffect, IdleFacts
    <3>2. row'[d] = row[d]
      BY <1>2, <2>3, TriggerEffect
    <3>3. QED BY <1>1, <2>1, <3>1, <3>2
  <2>4. QED BY <2>2, <2>3
<1>3. ASSUME NEW e \in Deliveries, NEW new \in Deliveries, Resend(e, new) PROVE G
  <2>1. boot' = boot /\ found' = found /\ broken' = broken
    BY <1>3 DEF Resend, history
  <2>2. CASE d = new
    BY <1>3, <2>2, ResendEffect, IdleFacts
  <2>3. CASE d # new
    <3>1. ~Idle(d) => ~Idle(d)'
      BY <1>3, ResendEffect, IdleFacts
    <3>2. row'[d] = row[d]
      BY <1>3, <2>3, ResendEffect
    <3>3. QED BY <1>1, <2>1, <3>1, <3>2
  <2>4. QED BY <2>2, <2>3
<1>4. ASSUME NEW t \in timers, Fire(t) PROVE G
  <2> DEFINE a == [id |-> t.id, pc |-> "load", n |-> 0, outcome |-> "none"]
  <2>1. /\ a.id = t.id /\ timers' = timers \ {t} /\ attempts' = attempts \cup {a}
        /\ row' = row /\ boot' = boot /\ found' = found /\ broken' = broken
    BY <1>4 DEF Fire, history
  <2> HIDE DEF a
  <2>2. ~Idle(d) => ~Idle(d)'
    BY <2>1, IdleFacts
  <2>3. QED BY <1>1, <2>1, <2>2
<1>5. ASSUME NEW a \in attempts, NEW b, b.id = a.id, Becomes(a, b),
             UNCHANGED <<row, timers, boot, found, broken>>
      PROVE  G
  <2>1. ~Idle(d) => ~Idle(d)'
    BY <1>5, IdleFacts DEF Becomes
  <2>2. QED BY <1>1, <1>5, <2>1
<1>6. ASSUME NEW a \in attempts, Load(a) PROVE G
  BY <1>5, <1>6 DEF Load, TypeOK, Attempt, history
<1>7. ASSUME NEW a \in attempts, attempts' = attempts \ {a}, timers' = timers,
             row' = row, boot' = boot, found' = found, broken' = broken \cup {a.id}
      PROVE  G
  <2>1. CASE d = a.id
    BY <1>7, <2>1
  <2>2. CASE d # a.id
    <3>1. ~Idle(d) => ~Idle(d)'
      BY <1>7, <2>2, IdleFacts
    <3>2. QED BY <1>a, <1>7, <3>1
  <2>3. QED BY <2>1, <2>2
<1>8. ASSUME NEW a \in attempts, LoadFails(a) PROVE G
  BY <1>7, <1>8 DEF LoadFails, Dies
<1>9. ASSUME NEW a \in attempts, MarkDeliveryFailed(a) PROVE G
  <2>1. /\ attempts' = attempts \ {a} /\ timers' = timers /\ boot' = boot
        /\ found' = found /\ broken' = broken
        /\ row'[a.id].status = "failed"
        /\ \A e \in Deliveries : e # a.id => row'[e] = row[e]
    BY <1>9 DEF MarkDeliveryFailed, TypeOK, Row
  <2>2. d # a.id
    BY <2>1
  <2>3. ~Idle(d) => ~Idle(d)'
    BY <2>1, <2>2, IdleFacts
  <2>4. QED BY <1>1, <2>1, <2>2, <2>3
<1>10. ASSUME NEW a \in attempts, Post(a) PROVE G
  BY <1>5, <1>10 DEF Post, TypeOK, Attempt
<1>11. ASSUME NEW a \in attempts, NEW o \in Outcomes, Answer(a, o) PROVE G
  BY <1>5, <1>11 DEF Answer, TypeOK, Attempt
<1>12. ASSUME NEW a \in attempts, Persist(a) PROVE G
  <2>1. boot' = boot /\ found' = found /\ broken' = broken
    BY <1>12 DEF Persist, history
  <2>2. CASE d = a.id
    <3>1. a.pc = "persist" /\ row[a.id].status = "pending" /\ row'[a.id] = Result(a)
      BY <1>12, PersistEffect DEF Persist
    <3>2. Retries(a)
      BY <2>2, <3>1, ResultFacts
    <3>3. QED BY <1>12, <2>2, <3>2, PersistEffect, IdleFacts
  <2>3. CASE d # a.id
    <3>1. ~Idle(d) => ~Idle(d)'
      BY <1>12, <2>3, PersistEffect, IdleFacts
    <3>2. row'[d] = row[d]
      BY <1>12, <2>3, PersistEffect
    <3>3. QED BY <1>1, <2>1, <3>1, <3>2
  <2>4. QED BY <2>2, <2>3
<1>13. ASSUME NEW a \in attempts, PersistFails(a) PROVE G
  BY <1>7, <1>13 DEF PersistFails, Dies
<1>14. CASE Start
  <2>1. /\ UNCHANGED <<row, timers, attempts, found, broken>>
        /\ boot = "down" /\ boot' = "select"
    BY <1>14 DEF Start, history
  <2>2. ~Idle(d) => ~Idle(d)'
    BY <2>1, IdleFacts
  <2>3. QED BY <1>a, <2>1, <2>2
<1>15. CASE RecoverSelect
  <2>1. /\ UNCHANGED <<row, timers, attempts, broken>>
        /\ boot = "select" /\ found' = {e \in Deliveries : Waiting(e)}
    BY <1>15 DEF RecoverSelect, history
  <2>2. ~Idle(d) => ~Idle(d)'
    BY <2>1, IdleFacts
  <2>3. CASE row[d].next # Null
    BY <2>1, <2>3 DEF Waiting
  <2>4. CASE row[d].next = Null
    BY <1>a, <2>1, <2>2, <2>4
  <2>5. QED BY <2>3, <2>4
<1>16. CASE RecoverArm
  <2>1. /\ UNCHANGED <<row, attempts, broken>> /\ boot = "arm"
    BY <1>16 DEF RecoverArm, history
  <2>2. ~Idle(d) \/ d \in found => ~Idle(d)'
    BY <1>16, <2>1, RecoverArmEffect, IdleFacts
  <2>3. QED BY <1>a, <2>1, <2>2
<1>17. CASE RecoverFails
  <2>1. /\ UNCHANGED <<row, timers, attempts, found>> /\ boot = "select"
        /\ broken' = broken \cup {e \in Deliveries : Waiting(e) /\ Idle(e)}
    BY <1>17 DEF RecoverFails
  <2>2. ~Idle(d) => ~Idle(d)'
    BY <2>1, IdleFacts
  <2>3. row[d].status = "pending"
    BY <2>1
  <2>4. QED BY <1>a, <2>1, <2>2, <2>3 DEF Waiting
<1>18. CASE Tick
  <2>1. boot' = boot /\ found' = found /\ broken' = broken
    BY <1>18 DEF Tick, history
  <2>2. row[d].status = "pending" /\ row'[d].next = CountDown(row[d].next)
    BY <1>18, TickEffect
  <2>3. row[d].next # Null => row'[d].next # Null
    BY <2>2, TimeFacts
  <2>4. ~Idle(d) => ~Idle(d)'
    BY <1>18, TickEffect, IdleFacts
  <2>5. QED BY <1>a, <2>1, <2>2, <2>3, <2>4
<1>19. CASE Crash
  BY <1>19 DEF Crash
<1>20. CASE UNCHANGED vars
  <2>1. UNCHANGED <<row, timers, attempts, boot, found, broken>>
    BY <1>20 DEF vars, history
  <2>2. ~Idle(d) => ~Idle(d)'
    BY <2>1, IdleFacts
  <2>3. QED BY <1>1, <2>1, <2>2
<1>21. G
  BY <1>2, <1>3, <1>4, <1>6, <1>8, <1>9, <1>10, <1>11, <1>12, <1>13,
     <1>14, <1>15, <1>16, <1>17, <1>18, <1>19, <1>20 DEF Next, AttemptStep, Recovery
<1>22. QED BY <1>21

-----------------------------------------------------------------------------
(* The theorems                                                            *)

\* No delivery has a row, a timer or an attempt at first.
LEMMA InitInv == Init => DeliveryInv
<1> SUFFICES ASSUME Init PROVE DeliveryInv
  OBVIOUS
<1>1. TypeOK
  BY InitType
<1>2. /\ timers = {} /\ attempts = {} /\ boot = "down" /\ found = {}
      /\ \A d \in Deliveries : /\ row[d].status = "absent" /\ row[d].count = 0
                               /\ sent[d] = 0 /\ interrupted[d] = 0
  BY DEF Init
<1>3. ChainInv /\ DueInv /\ BootInv /\ AnswerInv
  BY <1>2 DEF ChainInv, DueInv, BootInv, AnswerInv
<1>4. CountInv
  BY <1>2 DEF CountInv, InFlight
<1>5. PendingHasToken /\ OutcomeTruthful
  BY <1>2 DEF PendingHasToken, OutcomeTruthful
<1>6. QED BY <1>1, <1>3, <1>4, <1>5 DEF DeliveryInv

\* The inductive invariant holds in every reachable state.
LEMMA Invariance == Spec => []DeliveryInv
<1>1. DeliveryInv /\ [Next]_vars => DeliveryInv'
  BY NextType, NextChain, NextDue, NextBoot, NextCount, NextAnswer, NextPending, NextTruthful
     DEF DeliveryInv
<1>2. QED BY InitInv, <1>1, PTL DEF Spec

\* Every variable has its type in every reachable state.
THEOREM TypeCorrect == Spec => []TypeOK
<1>1. DeliveryInv => TypeOK
  BY DEF DeliveryInv
<1>2. QED BY Invariance, <1>1, PTL

\* Two members at most: a set whose members are all equal has at most one.
LEMMA AtMostOne ==
    ASSUME NEW S, \A x, y \in S : x = y
    PROVE  Cardinality(S) = IF S = {} THEN 0 ELSE 1
<1>1. CASE S = {}
  BY <1>1, FS_EmptySet
<1>2. CASE S # {}
  <2>1. PICK x \in S : TRUE
    BY <1>2
  <2>2. S = {x}
    BY <2>1
  <2>3. QED BY <1>2, <2>2, FS_Singleton
<1>3. QED BY <1>1, <1>2

\* A delivery is never scheduled twice, nor scheduled while it is attempted:
\* scheduleAttempt(), the recovery and attemptDelivery() between them keep at
\* most one timer or attempt for each row.
THEOREM SingleTokenHolds == Spec => []SingleToken
<1>1. ASSUME ChainInv, NEW d \in Deliveries PROVE Tokens(d) <= 1
  <2>1. \A x, y \in Of(timers, d) : x = y
    BY <1>1 DEF ChainInv, Of
  <2>2. \A x, y \in Of(attempts, d) : x = y
    BY <1>1 DEF ChainInv, Of
  <2>3. Of(timers, d) = {} \/ Of(attempts, d) = {}
    BY <1>1 DEF ChainInv, Of
  <2>4. /\ Cardinality(Of(timers, d)) = IF Of(timers, d) = {} THEN 0 ELSE 1
        /\ Cardinality(Of(attempts, d)) = IF Of(attempts, d) = {} THEN 0 ELSE 1
    BY <2>1, <2>2, AtMostOne
  <2>5. QED BY <2>3, <2>4 DEF Tokens
<1>2. DeliveryInv => SingleToken
  BY <1>1 DEF DeliveryInv, SingleToken
<1>3. QED BY Invariance, <1>2, PTL

\* BR-WHK-003: however often the process restarts and statements fail, there
\* are at most MAX_ATTEMPTS requests besides those whose result was lost.
THEOREM SendsBoundedHolds == Spec => []SendsBounded
<1>1. ASSUME DeliveryInv, NEW d \in Deliveries
      PROVE  sent[d] <= MAX_ATTEMPTS + interrupted[d]
  <2> USE <1>1 DEF DeliveryInv
  <2>1. /\ sent[d] <= row[d].count + interrupted[d] + (IF InFlight(d) THEN 1 ELSE 0)
        /\ row[d].status = "pending" => row[d].count < MAX_ATTEMPTS
    BY DEF CountInv
  <2>2. sent[d] \in Nat /\ interrupted[d] \in Nat /\ row[d].count \in 0..MAX_ATTEMPTS
    BY DEF TypeOK, Row
  <2>3. InFlight(d) => row[d].status = "pending"
    BY DEF InFlight, ChainInv
  <2>4. QED BY <2>1, <2>2, <2>3, MaxAttemptsType
<1>2. DeliveryInv => SendsBounded
  BY <1>1 DEF SendsBounded
<1>3. QED BY Invariance, <1>2, PTL

\* No pending delivery is forgotten, unless a crash or a failed statement hit
\* that very delivery.
THEOREM PendingHasTokenHolds == Spec => []PendingHasToken
<1>1. DeliveryInv => PendingHasToken
  BY DEF DeliveryInv
<1>2. QED BY Invariance, <1>1, PTL

\* Success is the merchant's word, and failed means MAX_ATTEMPTS requests or a
\* cause no retry helps.
THEOREM OutcomeTruthfulHolds == Spec => []OutcomeTruthful
<1>1. DeliveryInv => OutcomeTruthful
  BY DEF DeliveryInv
<1>2. QED BY Invariance, <1>1, PTL

\* The log agrees with the requests that were made.
THEOREM LogAgreesHolds == Spec => []LogAgrees
<1>1. SendsBounded /\ OutcomeTruthful => LogAgrees
  BY DEF LogAgrees
<1>2. QED BY <1>1, SendsBoundedHolds, OutcomeTruthfulHolds, PTL

\* BR-WHK-005: a delivery with an outcome is neither changed nor sent again.
THEOREM OutcomeFinalHolds == Spec => OutcomeFinal
<1>1. DeliveryInv /\ [Next]_vars =>
         [\A d \in Deliveries :
             row[d].status \in {"success", "failed"} =>
                 row'[d].status = row[d].status /\ sent'[d] = sent[d]]_vars
  BY NextOutcome
<1>2. QED BY Invariance, <1>1, PTL DEF Spec, OutcomeFinal

\* BR-WHK-003: no retry leaves before next_retry_at.
THEOREM NeverEarlyHolds == Spec => NeverEarly
<1>1. DeliveryInv /\ [Next]_vars =>
         [\A d \in Deliveries :
             sent'[d] > sent[d] => row[d].next \in {Null, 0}]_vars
  BY NextOutcome
<1>2. QED BY Invariance, <1>1, PTL DEF Spec, NeverEarly

-----------------------------------------------------------------------------
(* The contract                                                            *)

\* What the contract sees of an attempt.
PhaseAt(pc) == IF pc = "wait" THEN "asked" ELSE IF pc = "persist" THEN "answered" ELSE "quiet"

\* The phase of a delivery is that of its attempt, or "quiet" when it has none.
LEMMA PhaseFacts ==
    ASSUME ChainInv
    PROVE  /\ \A a \in attempts : PhaseOf(a.id) = PhaseAt(a.pc)
           /\ \A d : (\A a \in attempts : a.id # d) => PhaseOf(d) = "quiet"
           /\ \A d : PhaseOf(d) # "quiet" <=> InFlight(d)
BY DEF PhaseOf, PhaseAt, InFlight, ChainInv

\* An attempt that goes on changes the phase of its own delivery only.
LEMMA PhaseBecomes ==
    ASSUME ChainInv, NEW a \in attempts, NEW b, b.id = a.id, Becomes(a, b), NEW d
    PROVE  PhaseOf(d)' = IF d = a.id THEN PhaseAt(b.pc) ELSE PhaseOf(d)
<1>1. \A x \in attempts' : x = b \/ (x \in attempts /\ x.id # a.id)
  BY DEF Becomes, ChainInv
<1>2. b \in attempts' /\ \A x \in attempts : x.id # a.id => x \in attempts'
  BY DEF Becomes
<1>3. CASE d = a.id
  BY <1>1, <1>2, <1>3 DEF PhaseOf, PhaseAt, InFlight
<1>4. CASE d # a.id
  BY <1>1, <1>2, <1>4 DEF PhaseOf, InFlight
<1>5. QED BY <1>3, <1>4

\* An attempt that ends leaves its delivery quiet, and the others as they are.
LEMMA PhaseEnds ==
    ASSUME ChainInv, NEW a \in attempts, attempts' = attempts \ {a}, NEW d
    PROVE  PhaseOf(d)' = IF d = a.id THEN "quiet" ELSE PhaseOf(d)
<1>1. \A x \in attempts' : x \in attempts /\ x.id # a.id
  BY DEF ChainInv
<1>2. \A x \in attempts : x.id # a.id => x \in attempts'
  OBVIOUS
<1>3. QED BY <1>1, <1>2 DEF PhaseOf, InFlight

\* A step that changes none of what the contract sees is none of its steps.
LEMMA ViewKept ==
    ASSUME \A d \in Deliveries : row'[d].status = row[d].status,
           \A d \in Deliveries : PhaseOf(d)' = PhaseOf(d),
           sent' = sent, interrupted' = interrupted, accepted' = accepted, refused' = refused
    PROVE  UNCHANGED Contract!contractVars
<1>1. outcomes' = outcomes
  BY DEF outcomes, OutcomeOf
<1>2. phases' = phases
  BY DEF phases
<1>3. answersGiven' = answersGiven
  BY DEF answersGiven, AnswersOf
<1>4. QED BY <1>1, <1>2, <1>3 DEF Contract!contractVars

\* A step that changes neither attempts, statuses nor answers.
LEMMA AttemptsKept ==
    ASSUME \A d \in Deliveries : row'[d].status = row[d].status,
           attempts' = attempts, UNCHANGED history
    PROVE  UNCHANGED Contract!contractVars
<1>1. \A d \in Deliveries : PhaseOf(d)' = PhaseOf(d)
  BY DEF PhaseOf, InFlight
<1>2. QED BY <1>1, ViewKept DEF history

\* New rows, of a trigger or a resend, are the contract's Queue.
LEMMA QueueStep ==
    ASSUME NEW S \in SUBSET Deliveries, \A d \in S : row[d].status = "absent" /\ row'[d] = FreshRow,
           \A d \in Deliveries \ S : row'[d] = row[d], attempts' = attempts, UNCHANGED history
    PROVE  Contract!ContractNext
<1>1. \A d \in S : outcomes[d] = "none"
  BY DEF outcomes, OutcomeOf
<1>2. outcomes' = [d \in Deliveries |-> IF d \in S THEN "open" ELSE outcomes[d]]
  BY FreshRowFacts DEF outcomes, OutcomeOf
<1>3. phases' = phases
  BY DEF phases, PhaseOf, InFlight
<1>4. answersGiven' = answersGiven /\ sent' = sent /\ interrupted' = interrupted
  BY DEF answersGiven, AnswersOf, history
<1>5. Contract!Queue(S)
  BY <1>1, <1>2, <1>3, <1>4 DEF Contract!Queue
<1>6. QED BY <1>5 DEF Contract!ContractNext

\* fetch() is the contract's Request: nothing else of the delivery is out, and
\* attempt_count, which lags behind by what was lost, has not reached the cap.
LEMMA RequestStep ==
    ASSUME DeliveryInv, NEW a \in attempts, Post(a)
    PROVE  Contract!ContractNext
<1> USE DEF DeliveryInv
<1> DEFINE d == a.id
<1>1. d \in Deliveries /\ row[d].status = "pending" /\ a.pc = "send"
  BY TokenIds DEF ChainInv, Post
<1>2. outcomes[d] = "open" /\ phases[d] = "quiet"
  BY <1>1, PhaseFacts DEF outcomes, OutcomeOf, phases, PhaseAt
<1>3. sent[d] < MAX_ATTEMPTS + interrupted[d]
  <2>1. ~InFlight(d)
    BY <1>1 DEF InFlight, ChainInv
  <2>2. sent[d] <= row[d].count + interrupted[d] /\ row[d].count < MAX_ATTEMPTS
    BY <1>1, <2>1, MaxAttemptsType DEF CountInv, TypeOK, Row
  <2>3. sent[d] \in Nat /\ interrupted[d] \in Nat /\ row[d].count \in Nat
    BY <1>1, MaxAttemptsType DEF TypeOK, Row
  <2>4. QED BY <2>2, <2>3, MaxAttemptsType
<1>4. phases' = [phases EXCEPT ![d] = "asked"]
  <2> DEFINE b == [a EXCEPT !.pc = "wait"]
  <2>1. b.id = a.id /\ b.pc = "wait"
    BY DEF TypeOK, Attempt
  <2>2. Becomes(a, b)
    BY DEF Post
  <2> HIDE DEF b
  <2>3. \A e \in Deliveries : PhaseOf(e)' = IF e = d THEN "asked" ELSE PhaseOf(e)
    BY <2>1, <2>2, PhaseBecomes DEF PhaseAt
  <2>4. QED BY <2>3 DEF phases
<1>5. /\ outcomes' = outcomes /\ answersGiven' = answersGiven
      /\ interrupted' = interrupted /\ sent' = [sent EXCEPT ![d] = @ + 1]
  BY DEF Post, outcomes, OutcomeOf, answersGiven, AnswersOf
<1>6. Contract!Request(d)
  BY <1>2, <1>3, <1>4, <1>5 DEF Contract!Request
<1>7. QED BY <1>1, <1>6 DEF Contract!ContractNext

\* The answer of the endpoint, or the timeout, is the contract's Hear.
LEMMA HearStep ==
    ASSUME DeliveryInv, NEW a \in attempts, NEW o \in Outcomes, Answer(a, o)
    PROVE  Contract!ContractNext
<1> USE DEF DeliveryInv
<1> DEFINE d == a.id
           said == IF o = "success" THEN {"ok"} ELSE IF o = "non-retryable" THEN {"no"} ELSE {}
<1>1. d \in Deliveries /\ a.pc = "wait"
  BY TokenIds DEF Answer
<1>2. phases[d] = "asked"
  BY <1>1, PhaseFacts DEF phases, PhaseAt
<1>3. phases' = [phases EXCEPT ![d] = "answered"]
  <2> DEFINE b == [a EXCEPT !.pc = "persist", !.outcome = o]
  <2>1. b.id = a.id /\ b.pc = "persist"
    BY DEF TypeOK, Attempt
  <2>2. Becomes(a, b)
    BY DEF Answer
  <2> HIDE DEF b
  <2>3. \A e \in Deliveries : PhaseOf(e)' = IF e = d THEN "answered" ELSE PhaseOf(e)
    BY <2>1, <2>2, PhaseBecomes DEF PhaseAt
  <2>4. QED BY <2>3 DEF phases
<1>4. answersGiven' = [answersGiven EXCEPT ![d] = @ \cup said]
  <2>1. \A e \in Deliveries : AnswersOf(e)' = IF e = d THEN AnswersOf(e) \cup said ELSE AnswersOf(e)
    BY DEF Answer, AnswersOf, Outcomes
  <2>2. QED BY <1>1, <2>1 DEF answersGiven
<1>5. outcomes' = outcomes /\ sent' = sent /\ interrupted' = interrupted
  BY DEF Answer, outcomes, OutcomeOf
<1>6. Contract!Hear(d, said)
  BY <1>2, <1>3, <1>4, <1>5 DEF Contract!Hear
<1>7. said \in {{}, {"ok"}, {"no"}}
  OBVIOUS
<1>8. QED BY <1>1, <1>6, <1>7 DEF Contract!ContractNext

\* The UPDATE of an attempt is the contract's Store, with an outcome that the
\* answers or the number of requests justify.
LEMMA StoreStep ==
    ASSUME DeliveryInv, NEW a \in attempts, Persist(a)
    PROVE  Contract!ContractNext
<1> USE DEF DeliveryInv
<1> DEFINE d == a.id
           status == Result(a).status
           result == IF status = "pending" THEN "open" ELSE status
<1>1. /\ d \in Deliveries /\ row[d].status = "pending" /\ a.pc = "persist"
      /\ row'[d] = Result(a) /\ \A e \in Deliveries : e # d => row'[e] = row[e]
      /\ attempts' = attempts \ {a}
      /\ sent' = sent /\ interrupted' = interrupted /\ accepted' = accepted /\ refused' = refused
  BY PersistEffect DEF Persist, history
<1>2. /\ status \in {"pending", "success", "failed"}
      /\ status = "success" => a.outcome = "success"
      /\ status = "failed" => a.outcome = "non-retryable" \/ a.n >= MAX_ATTEMPTS
  BY <1>1, ResultFacts DEF Result
<1>3. outcomes[d] = "open" /\ phases[d] = "answered"
  BY <1>1, PhaseFacts DEF outcomes, OutcomeOf, phases, PhaseAt
<1>4. /\ a.outcome = "success" => a.id \in accepted
      /\ a.outcome = "non-retryable" => a.id \in refused
  BY <1>1 DEF AnswerInv
<1>5. a.n \in Nat /\ sent[d] >= a.n /\ sent[d] \in Nat
  BY <1>1, MaxAttemptsType DEF CountInv, TypeOK, Attempt
<1>6. Contract!Justified(d, result)
  <2>1. CASE status = "pending"
    BY <2>1 DEF Contract!Justified
  <2>2. CASE status = "success"
    BY <1>1, <1>2, <1>4, <2>2 DEF Contract!Justified, answersGiven, AnswersOf
  <2>3. CASE status = "failed"
    <3>1. d \in refused \/ sent[d] >= MAX_ATTEMPTS
      BY <1>2, <1>4, <1>5, <2>3, MaxAttemptsType
    <3>2. QED BY <1>1, <2>3, <3>1 DEF Contract!Justified, answersGiven, AnswersOf
  <2>4. QED BY <1>2, <2>1, <2>2, <2>3
<1>7. outcomes' = [outcomes EXCEPT ![d] = result]
  BY <1>1, <1>2 DEF outcomes, OutcomeOf
<1>8. phases' = [phases EXCEPT ![d] = "quiet"]
  <2>1. \A e \in Deliveries : PhaseOf(e)' = IF e = d THEN "quiet" ELSE PhaseOf(e)
    BY <1>1, PhaseEnds
  <2>2. QED BY <2>1 DEF phases
<1>9. answersGiven' = answersGiven
  BY <1>1 DEF answersGiven, AnswersOf
<1>10. Contract!Store(d, result)
  BY <1>1, <1>3, <1>6, <1>7, <1>8, <1>9 DEF Contract!Store
<1>11. result \in {"open", "success", "failed"}
  BY <1>2
<1>12. QED BY <1>1, <1>10, <1>11 DEF Contract!ContractNext

\* markDeliveryFailed() is the contract's Undeliverable.
LEMMA UndeliverableStep ==
    ASSUME DeliveryInv, NEW a \in attempts, MarkDeliveryFailed(a)
    PROVE  Contract!ContractNext
<1> USE DEF DeliveryInv
<1> DEFINE d == a.id
<1>1. /\ d \in Deliveries /\ row[d].status = "pending" /\ a.pc = "load"
      /\ row'[d].status = "failed" /\ \A e \in Deliveries : e # d => row'[e] = row[e]
      /\ attempts' = attempts \ {a}
      /\ sent' = sent /\ interrupted' = interrupted /\ accepted' = accepted
      /\ refused' = refused \cup {d}
  BY TokenIds DEF MarkDeliveryFailed, ChainInv, TypeOK, Row
<1>2. outcomes[d] = "open" /\ phases[d] = "quiet"
  BY <1>1, PhaseFacts DEF outcomes, OutcomeOf, phases, PhaseAt
<1>3. outcomes' = [outcomes EXCEPT ![d] = "failed"]
  BY <1>1 DEF outcomes, OutcomeOf
<1>4. phases' = phases
  <2>1. \A e \in Deliveries : PhaseOf(e)' = PhaseOf(e)
    BY <1>1, <1>2, PhaseEnds DEF phases
  <2>2. QED BY <2>1 DEF phases
<1>5. answersGiven' = [answersGiven EXCEPT ![d] = @ \cup {"no"}]
  <2>1. \A e \in Deliveries : AnswersOf(e)' = IF e = d THEN AnswersOf(e) \cup {"no"} ELSE AnswersOf(e)
    BY <1>1 DEF AnswersOf
  <2>2. QED BY <1>1, <2>1 DEF answersGiven
<1>6. Contract!Undeliverable(d)
  BY <1>1, <1>2, <1>3, <1>4, <1>5 DEF Contract!Undeliverable
<1>7. QED BY <1>1, <1>6 DEF Contract!ContractNext

\* A result that is not stored, by a failed UPDATE or a crash, is the
\* contract's Lose.
LEMMA LoseStep ==
    ASSUME NEW S \in SUBSET Deliveries, \A d \in S : PhaseOf(d) # "quiet",
           \A d \in Deliveries : PhaseOf(d)' = IF d \in S THEN "quiet" ELSE PhaseOf(d),
           \A d \in Deliveries : row'[d].status = row[d].status,
           interrupted' = [d \in Deliveries |-> IF d \in S THEN interrupted[d] + 1 ELSE interrupted[d]],
           sent' = sent, accepted' = accepted, refused' = refused
    PROVE  Contract!ContractNext
<1>1. \A d \in S : phases[d] # "quiet"
  BY DEF phases
<1>2. phases' = [d \in Deliveries |-> IF d \in S THEN "quiet" ELSE phases[d]]
  BY DEF phases
<1>3. outcomes' = outcomes /\ answersGiven' = answersGiven
  BY DEF outcomes, OutcomeOf, answersGiven, AnswersOf
<1>4. Contract!Lose(S)
  BY <1>1, <1>2, <1>3 DEF Contract!Lose
<1>5. QED BY <1>4 DEF Contract!ContractNext

\* Every step is a step of the contract, or nothing it sees.
LEMMA ContractStep ==
    DeliveryInv /\ [Next]_vars => [Contract!ContractNext]_(Contract!contractVars)
<1> SUFFICES ASSUME DeliveryInv, [Next]_vars
             PROVE  Contract!ContractNext \/ UNCHANGED Contract!contractVars
  OBVIOUS
<1> USE TokenIds DEF DeliveryInv
<1> DEFINE G == Contract!ContractNext \/ UNCHANGED Contract!contractVars
<1>1. ASSUME NEW S \in SUBSET Deliveries, TriggerWebhook(S) PROVE G
  <2>1. UNCHANGED history
    BY <1>1 DEF TriggerWebhook
  <2>2. QED BY <1>1, <2>1, TriggerEffect, QueueStep
<1>2. ASSUME NEW d \in Deliveries, NEW new \in Deliveries, Resend(d, new) PROVE G
  <2>1. /\ {new} \in SUBSET Deliveries /\ attempts' = attempts /\ UNCHANGED history
        /\ \A e \in {new} : row[e].status = "absent" /\ row'[e] = FreshRow
        /\ \A e \in Deliveries \ {new} : row'[e] = row[e]
    BY <1>2, ResendEffect
  <2>2. QED BY <2>1, QueueStep
<1>3. ASSUME NEW t \in timers, Fire(t) PROVE G
  <2> DEFINE b == [id |-> t.id, pc |-> "load", n |-> 0, outcome |-> "none"]
  <2>1. attempts' = attempts \cup {b} /\ b.pc = "load" /\ b.id = t.id
    BY <1>3 DEF Fire
  <2> HIDE DEF b
  <2>2. \A d \in Deliveries : PhaseOf(d)' = PhaseOf(d)
    BY <2>1 DEF PhaseOf, InFlight
  <2>3. row' = row /\ UNCHANGED history
    BY <1>3 DEF Fire
  <2>4. QED BY <2>2, <2>3, ViewKept DEF history
<1>4. ASSUME NEW a \in attempts, Load(a) PROVE G
  <2> DEFINE b == [a EXCEPT !.pc = "send", !.n = row[a.id].count + 1]
  <2>1. Becomes(a, b) /\ a.pc = "load" /\ row' = row /\ UNCHANGED history
    BY <1>4 DEF Load
  <2>2. b.id = a.id /\ b.pc = "send"
    BY DEF TypeOK, Attempt
  <2> HIDE DEF b
  <2>3. \A d \in Deliveries : PhaseOf(d)' = PhaseOf(d)
    BY <2>1, <2>2, PhaseBecomes, PhaseFacts DEF PhaseAt
  <2>4. QED BY <2>1, <2>3, ViewKept DEF history
<1>5. ASSUME NEW a \in attempts, LoadFails(a) PROVE G
  <2>1. /\ attempts' = attempts \ {a} /\ a.pc = "load" /\ row' = row
        /\ sent' = sent /\ interrupted' = interrupted /\ accepted' = accepted /\ refused' = refused
    BY <1>5 DEF LoadFails, Dies
  <2>2. \A d \in Deliveries : PhaseOf(d)' = PhaseOf(d)
    BY <2>1, PhaseEnds, PhaseFacts DEF PhaseAt
  <2>3. QED BY <2>1, <2>2, ViewKept
<1>6. ASSUME NEW a \in attempts, PersistFails(a) PROVE G
  <2> DEFINE S == {a.id}
  <2>1. /\ attempts' = attempts \ {a} /\ a.pc = "persist" /\ row' = row
        /\ interrupted' = [interrupted EXCEPT ![a.id] = @ + 1]
        /\ sent' = sent /\ accepted' = accepted /\ refused' = refused
    BY <1>6 DEF PersistFails, Dies
  <2>2. \A d \in S : PhaseOf(d) # "quiet"
    BY <2>1, PhaseFacts DEF PhaseAt
  <2>3. \A d \in Deliveries : PhaseOf(d)' = IF d \in S THEN "quiet" ELSE PhaseOf(d)
    BY <2>1, PhaseEnds
  <2>4. interrupted' = [d \in Deliveries |-> IF d \in S THEN interrupted[d] + 1 ELSE interrupted[d]]
    BY <2>1 DEF TypeOK
  <2>5. S \in SUBSET Deliveries
    OBVIOUS
  <2>6. QED BY <2>1, <2>2, <2>3, <2>4, <2>5, LoseStep
<1>7. CASE Crash
  <2> DEFINE S == {d \in Deliveries : InFlight(d)}
  <2>1. /\ attempts' = {} /\ row' = row
        /\ interrupted' = [d \in Deliveries |-> interrupted[d] + (IF InFlight(d) THEN 1 ELSE 0)]
        /\ sent' = sent /\ accepted' = accepted /\ refused' = refused
    BY <1>7 DEF Crash
  <2>2. \A d \in S : PhaseOf(d) # "quiet"
    BY PhaseFacts
  <2>3. \A d \in Deliveries : PhaseOf(d)' = IF d \in S THEN "quiet" ELSE PhaseOf(d)
    <3>1. \A d \in Deliveries : PhaseOf(d)' = "quiet"
      BY <2>1 DEF PhaseOf, InFlight
    <3>2. \A d \in Deliveries : d \notin S => PhaseOf(d) = "quiet"
      BY PhaseFacts
    <3>3. QED BY <3>1, <3>2
  <2>4. interrupted' = [d \in Deliveries |-> IF d \in S THEN interrupted[d] + 1 ELSE interrupted[d]]
    <3>1. \A d \in Deliveries : interrupted[d] \in Nat
      BY DEF TypeOK
    <3>2. QED BY <2>1, <3>1
  <2>5. S \in SUBSET Deliveries
    OBVIOUS
  <2>6. QED BY <2>1, <2>2, <2>3, <2>4, <2>5, LoseStep
<1>8. CASE Tick
  <2>1. UNCHANGED history
    BY <1>8 DEF Tick
  <2>2. QED BY <1>8, <2>1, TickEffect, AttemptsKept
<1>9. CASE Start
  BY <1>9, AttemptsKept DEF Start
<1>10. CASE RecoverSelect
  BY <1>10, AttemptsKept DEF RecoverSelect
<1>11. CASE RecoverArm
  BY <1>11, AttemptsKept DEF RecoverArm
<1>12. CASE RecoverFails
  <2>1. \A d \in Deliveries : PhaseOf(d)' = PhaseOf(d)
    BY <1>12 DEF RecoverFails, PhaseOf, InFlight
  <2>2. QED BY <1>12, <2>1, ViewKept DEF RecoverFails
<1>13. CASE UNCHANGED vars
  BY <1>13, AttemptsKept DEF vars, history
<1>14. QED
  BY <1>1, <1>2, <1>3, <1>4, <1>5, <1>6, <1>7, <1>8, <1>9, <1>10, <1>11, <1>12, <1>13,
     RequestStep, HearStep, StoreStep, UndeliverableStep DEF Next, AttemptStep, Recovery

\* The delivery machinery implements what the merchant may rely on: one request
\* at a time, one more only for each whose result was lost, none after the
\* outcome, and an outcome that the answers justify.
THEOREM ContractImplemented == Spec => ImplementsContract
<1>1. Init => Contract!ContractInit
  <2> SUFFICES ASSUME Init PROVE Contract!ContractInit
    OBVIOUS
  <2>1. outcomes = [d \in Deliveries |-> "none"]
    BY DEF Init, outcomes, OutcomeOf
  <2>2. phases = [d \in Deliveries |-> "quiet"]
    BY DEF Init, phases, PhaseOf, InFlight
  <2>3. answersGiven = [d \in Deliveries |-> {}]
    BY DEF Init, answersGiven, AnswersOf
  <2>4. QED BY <2>1, <2>2, <2>3 DEF Init, Contract!ContractInit
<1>2. QED
  BY <1>1, ContractStep, Invariance, PTL DEF Spec, ImplementsContract, Contract!ContractSpec
=============================================================================
