--------------------------- MODULE DeliveryContract ---------------------------
(***************************************************************************)
(* What FiberGate promises about one webhook delivery, without saying how: *)
(* no timers, no attempt counts, no clock, no recovery.  The gateway makes *)
(* one request at a time, learns the answer, and stores it; what it has    *)
(* not stored yet may be lost, and only that entitles it to one request    *)
(* more.  An outcome is what the answers justify, and the last word.       *)
(*                                                                         *)
(* WebhookDelivery.tla is shown to implement this specification.           *)
(***************************************************************************)
EXTENDS Naturals

CONSTANTS
    Deliveries,
    MAX_ATTEMPTS    \* requests the merchant may expect of an undisturbed delivery

VARIABLES
    outcome,    \* outcome[d]: "none" before INSERT, "open", "success" or "failed"
    phase,      \* phase[d]: a request is out, its answer is in hand, or neither
    requests,   \* requests[d]: how many were made
    lost,       \* lost[d]: how many of them left nothing in the log
    answers     \* answers[d]: what the merchant, or the gateway, has said

contractVars == <<outcome, phase, requests, lost, answers>>

ContractInit ==
    /\ outcome = [d \in Deliveries |-> "none"]
    /\ phase = [d \in Deliveries |-> "quiet"]
    /\ requests = [d \in Deliveries |-> 0]
    /\ lost = [d \in Deliveries |-> 0]
    /\ answers = [d \in Deliveries |-> {}]

\* One event is queued for several endpoints at once.
Queue(S) ==
    /\ \A d \in S : outcome[d] = "none"
    /\ outcome' = [d \in Deliveries |-> IF d \in S THEN "open" ELSE outcome[d]]
    /\ UNCHANGED <<phase, requests, lost, answers>>

Request(d) ==
    /\ outcome[d] = "open" /\ phase[d] = "quiet"
    /\ requests[d] < MAX_ATTEMPTS + lost[d]
    /\ requests' = [requests EXCEPT ![d] = @ + 1]
    /\ phase' = [phase EXCEPT ![d] = "asked"]
    /\ UNCHANGED <<outcome, lost, answers>>

\* "ok", "no" (a retry is pointless), or nothing that counts as either.
Hear(d, said) ==
    /\ phase[d] = "asked"
    /\ phase' = [phase EXCEPT ![d] = "answered"]
    /\ answers' = [answers EXCEPT ![d] = @ \cup said]
    /\ UNCHANGED <<outcome, requests, lost>>

Justified(d, result) ==
    \/ result = "open"
    \/ result = "success" /\ "ok" \in answers[d]
    \/ result = "failed" /\ ("no" \in answers[d] \/ requests[d] >= MAX_ATTEMPTS)

Store(d, result) ==
    /\ phase[d] = "answered" /\ outcome[d] = "open" /\ Justified(d, result)
    /\ outcome' = [outcome EXCEPT ![d] = result]
    /\ phase' = [phase EXCEPT ![d] = "quiet"]
    /\ UNCHANGED <<requests, lost, answers>>

\* The gateway cannot make the request, now or ever.
Undeliverable(d) ==
    /\ outcome[d] = "open" /\ phase[d] = "quiet"
    /\ outcome' = [outcome EXCEPT ![d] = "failed"]
    /\ answers' = [answers EXCEPT ![d] = @ \cup {"no"}]
    /\ UNCHANGED <<phase, requests, lost>>

\* A failed statement loses one result, a crash all that are not stored.
Lose(S) ==
    /\ \A d \in S : phase[d] # "quiet"
    /\ phase' = [d \in Deliveries |-> IF d \in S THEN "quiet" ELSE phase[d]]
    /\ lost' = [d \in Deliveries |-> IF d \in S THEN lost[d] + 1 ELSE lost[d]]
    /\ UNCHANGED <<outcome, requests, answers>>

ContractNext ==
    \/ \E S \in SUBSET Deliveries : Queue(S) \/ Lose(S)
    \/ \E d \in Deliveries :
          \/ Request(d) \/ Undeliverable(d)
          \/ \E said \in {{}, {"ok"}, {"no"}} : Hear(d, said)
          \/ \E result \in {"open", "success", "failed"} : Store(d, result)

ContractSpec == ContractInit /\ [][ContractNext]_contractVars
=============================================================================
