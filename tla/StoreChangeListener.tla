------------------------- MODULE StoreChangeListener -------------------------
(***************************************************************************)
(* The real-time listener's connection: subscribeToStoreChanges(), one     *)
(* WebSocket per call, and the reconnect loop around it, with links that   *)
(* die silently, nodes that do not answer, and stop and start.             *)
(*                                                                         *)
(* Untimed: a timer that is armed may fire.  The promise of a connection   *)
(* attempt settles in the same macrotask as the socket event that settles  *)
(* it, so the two are one step.                                            *)
(***************************************************************************)
EXTENDS Integers, FiniteSets

CONSTANTS
    Sockets,        \* bound: WebSockets that exist at the same time
    None,           \* no subscription
    MAX_BACKOFF,    \* MAX_BACKOFF_MS in units of INITIAL_BACKOFF_MS
    MaxStops        \* bound: calls of stopInvoiceListener()

INITIAL_BACKOFF == 1

ASSUME SocketsAssumption == IsFiniteSet(Sockets) /\ None \notin Sockets
ASSUME BackoffAssumption == MAX_BACKOFF \in Nat \ {0} /\ MaxStops \in Nat

VARIABLES
    status,         \* "stopped", "connecting", "connected"
    subscription,   \* the adopted subscription, as its socket
    armed,          \* reconnect timers that are armed
    tracked,        \* reconnectTimer # null: it is one of them
    backoff,        \* backoffMs
    sock,           \* sock[s]: one call of subscribeToStoreChanges()
    unsettled,      \* history: an attempt's promise will never settle
    stops

listener == <<status, subscription, armed, tracked, backoff>>
vars == <<listener, sock, unsettled, stops>>

-----------------------------------------------------------------------------
\* pc: "opening" up to the open event, "asked" until the subscribe request is
\* answered, then "subscribed"; "closing" is a subscribed socket whose close
\* event is still to come.  dead: the link is black-holed.
Socket == [pc : {"free", "opening", "asked", "subscribed", "closing"},
           dead : BOOLEAN, awaitingPong : BOOLEAN]

FreeSocket == [pc |-> "free", dead |-> FALSE, awaitingPong |-> FALSE]

At(pcs) == {s \in Sockets : sock[s].pc \in pcs}

Live == {"opening", "asked", "subscribed", "closing"}

\* What moves the listener on: attempts, connections and timers.
Chains == Cardinality(At(Live)) + armed

Init ==
    /\ status = "stopped" /\ subscription = None
    /\ armed = 0 /\ tracked = FALSE
    /\ backoff = INITIAL_BACKOFF
    /\ sock = [s \in Sockets |-> FreeSocket]
    /\ unsettled = FALSE
    /\ stops = 0

Doubled == IF 2 * backoff < MAX_BACKOFF THEN 2 * backoff ELSE MAX_BACKOFF

\* logAndReconnect() and scheduleReconnect(): the new timer takes the place of
\* the old one in reconnectTimer, which nobody clears.
LogAndReconnect ==
    IF status = "stopped"
    THEN UNCHANGED <<status, armed, tracked, backoff>>
    ELSE /\ status' = "connecting"
         /\ armed' = armed + 1 /\ tracked' = TRUE
         /\ backoff' = Doubled

\* connect(): a socket is created.
Connect(s) ==
    /\ sock[s].pc = "free"
    /\ sock' = [sock EXCEPT ![s].pc = "opening"]

Frees(s) == sock' = [sock EXCEPT ![s] = FreeSocket]

-----------------------------------------------------------------------------
(* Start, stop and the reconnect timer                                     *)

Start(s) ==
    /\ status = "stopped"
    /\ status' = "connecting"
    /\ backoff' = INITIAL_BACKOFF
    /\ Connect(s)
    /\ unsettled' = FALSE
    /\ UNCHANGED <<subscription, armed, tracked, stops>>

\* Faulty variant: reconnectTimer is cleared, but not set to null.
StopKeepsTimer ==
    /\ stops < MaxStops
    /\ stops' = stops + 1
    /\ status' = "stopped"
    /\ armed' = IF tracked THEN armed - 1 ELSE armed
    /\ subscription' = None
    /\ sock' = [s \in Sockets |->
                   IF s = subscription THEN [sock[s] EXCEPT !.pc = "closing"] ELSE sock[s]]
    /\ UNCHANGED <<tracked, backoff, unsettled>>

Stop ==
    /\ stops < MaxStops
    /\ stops' = stops + 1
    /\ status' = "stopped"
    /\ armed' = IF tracked THEN armed - 1 ELSE armed
    /\ tracked' = FALSE
    /\ subscription' = None
    /\ sock' = [s \in Sockets |->
                   IF s = subscription THEN [sock[s] EXCEPT !.pc = "closing"] ELSE sock[s]]
    /\ UNCHANGED <<backoff, unsettled>>

\* The callback of any armed timer sets reconnectTimer to null.
\* Faulty variant: it does not look at the status.
ReconnectFiresAlways(s) ==
    /\ armed > 0
    /\ armed' = armed - 1 /\ tracked' = FALSE
    /\ Connect(s)
    /\ UNCHANGED <<status, subscription, backoff, unsettled, stops>>

ReconnectFires(s) ==
    /\ armed > 0
    /\ armed' = armed - 1 /\ tracked' = FALSE
    /\ IF status = "stopped" THEN UNCHANGED sock ELSE Connect(s)
    /\ UNCHANGED <<status, subscription, backoff, unsettled, stops>>

-----------------------------------------------------------------------------
(* One connection                                                          *)

\* The open event: subscribe_store_changes is sent, its timer armed.
Opens(s) ==
    /\ sock[s].pc = "opening" /\ ~sock[s].dead
    /\ sock' = [sock EXCEPT ![s].pc = "asked"]
    /\ UNCHANGED <<listener, unsettled, stops>>

\* handshakeTimeout, or any other error event before the subscription; after
\* the open event also the answer's timeout and a JSON-RPC error.  The promise
\* rejects; the socket's close event will not call onClose.
\* Faulty variant: it does.
AttemptFailsTwice(s) ==
    /\ sock[s].pc \in {"opening", "asked"}
    /\ Frees(s)
    /\ IF status = "stopped"
       THEN UNCHANGED <<status, armed, tracked, backoff>>
       ELSE /\ status' = "connecting"
            /\ armed' = armed + 2 /\ tracked' = TRUE
            /\ backoff' = Doubled
    /\ UNCHANGED <<subscription, unsettled, stops>>

AttemptFails(s) ==
    /\ sock[s].pc \in {"opening", "asked"}
    /\ Frees(s)
    /\ LogAndReconnect
    /\ UNCHANGED <<subscription, unsettled, stops>>

\* The peer closes cleanly before it has answered: the close event clears the
\* answer's timer, and the promise is left as it is.
ClosedBeforeReply(s) ==
    /\ sock[s].pc = "asked" /\ ~sock[s].dead
    /\ Frees(s)
    /\ unsettled' = TRUE
    /\ UNCHANGED <<listener, stops>>

\* confirmSubscription(), and connect()'s continuation: adopt or close.
Subscribed(s) ==
    /\ sock[s].pc = "asked" /\ ~sock[s].dead
    /\ IF status = "connecting"
       THEN /\ status' = "connected" /\ subscription' = s
            /\ backoff' = INITIAL_BACKOFF
            /\ sock' = [sock EXCEPT ![s].pc = "subscribed"]
       ELSE /\ sock' = [sock EXCEPT ![s].pc = "closing"]
            /\ UNCHANGED <<status, subscription, backoff>>
    /\ UNCHANGED <<armed, tracked, unsettled, stops>>

\* The heartbeat's interval: no pong since the last ping, terminate; else ping.
\* Faulty variant: the missing pong is not looked at.
HeartbeatPingsOn(s) ==
    /\ sock[s].pc = "subscribed"
    /\ sock' = [sock EXCEPT ![s].awaitingPong = TRUE]
    /\ UNCHANGED <<listener, unsettled, stops>>

Heartbeat(s) ==
    /\ sock[s].pc = "subscribed"
    /\ sock' = IF sock[s].awaitingPong
               THEN [sock EXCEPT ![s].pc = "closing"]
               ELSE [sock EXCEPT ![s].awaitingPong = TRUE]
    /\ UNCHANGED <<listener, unsettled, stops>>

Pong(s) ==
    /\ sock[s].pc = "subscribed" /\ ~sock[s].dead /\ sock[s].awaitingPong
    /\ sock' = [sock EXCEPT ![s].awaitingPong = FALSE]
    /\ UNCHANGED <<listener, unsettled, stops>>

\* The close event of a subscribed socket: handleClose(), whichever
\* subscription is the current one.
\* Faulty variant: a close without an error does not reconnect.
ClosesQuietly(s) ==
    /\ \/ sock[s].pc = "closing"
       \/ sock[s].pc = "subscribed" /\ ~sock[s].dead
    /\ Frees(s)
    /\ subscription' = None
    /\ LogAndReconnect \/ UNCHANGED <<status, armed, tracked, backoff>>
    /\ UNCHANGED <<unsettled, stops>>

Closes(s) ==
    /\ \/ sock[s].pc = "closing"
       \/ sock[s].pc = "subscribed" /\ ~sock[s].dead
    /\ Frees(s)
    /\ subscription' = None
    /\ LogAndReconnect
    /\ UNCHANGED <<unsettled, stops>>

\* The link is black-holed: neither FIN nor RST will arrive.
LinkDies(s) ==
    /\ sock[s].pc # "free" /\ ~sock[s].dead
    /\ sock' = [sock EXCEPT ![s].dead = TRUE]
    /\ UNCHANGED <<listener, unsettled, stops>>

-----------------------------------------------------------------------------
SocketStep(s) ==
    \/ Opens(s)
    \/ AttemptFails(s)
    \/ ClosedBeforeReply(s)
    \/ Subscribed(s)
    \/ Heartbeat(s)
    \/ Pong(s)
    \/ Closes(s)
    \/ LinkDies(s)

Next ==
    \/ Stop
    \/ \E s \in Sockets : Start(s) \/ ReconnectFires(s) \/ SocketStep(s)

Spec == Init /\ [][Next]_vars

\* The process' own timers fire: the handshake's and the answer's timeouts end
\* an attempt, the heartbeat ticks, a socket that was closed or terminated
\* emits close.  Nothing is assumed of the node.
Fairness ==
    /\ WF_vars(\E s \in Sockets : ReconnectFires(s))
    /\ \A s \in Sockets :
          /\ WF_vars(AttemptFails(s))
          /\ WF_vars(Heartbeat(s))
          /\ WF_vars(sock[s].pc = "closing" /\ Closes(s))

FairSpec == Spec /\ Fairness

-----------------------------------------------------------------------------
(* Properties                                                              *)

\* Every variable has its type; reconnectTimer is one of the armed timers.
TypeOK ==
    /\ status \in {"stopped", "connecting", "connected"}
    /\ subscription \in Sockets \cup {None}
    /\ armed \in Nat
    /\ tracked \in BOOLEAN
    /\ tracked => armed > 0
    /\ backoff \in 1..MAX_BACKOFF
    /\ sock \in [Sockets -> Socket]
    /\ unsettled \in BOOLEAN
    /\ stops \in 0..MaxStops

\* There is one reconnect loop, an attempt, a connection or a timer, so that no
\* notification is handled twice; a stop and a start may leave one loop behind,
\* and no more than one.
OneChain == Chains <= 1 + stops

\* The invariant behind it: a step hands the loop on, Start begins one, and
\* Stop may leave one behind.
Allowed == IF status = "stopped" THEN stops ELSE 1 + stops
ChainsConserved == Chains <= Allowed

\* A listener that is not stopped has something that moves it on, unless the
\* peer closed a socket before it had answered the subscribe request.
StaysAlive ==
    status # "stopped" => Chains > 0 \/ unsettled

\* No loop too many, and none too few.
OneLiveChain == OneChain /\ StaysAlive

\* "connected" means a subscription on a socket that still notifies, or whose
\* close event is about to say otherwise, in every interleaving with the close
\* events of earlier sockets.
ConnectedIsLive ==
    status = "connected" =>
        subscription # None /\ sock[subscription].pc \in {"subscribed", "closing"}

\* A stopped listener opens no connection and adopts none, whatever timers and
\* attempts were under way.
StoppedStaysQuiet ==
    [][status = "stopped" /\ status' = "stopped" =>
          /\ At({"opening"})' \subseteq At({"opening"})
          /\ At({"subscribed"})' \subseteq At({"subscribed"})]_vars

\* The black-hole comment of subscribe-client.ts: a silent link is noticed in
\* every phase of a connection, by a timeout or by the heartbeat.
DeadLinkNoticed ==
    \A s \in Sockets : sock[s].dead ~> sock[s].pc = "free"

\* subscribe-client.ts:121-122 as written, the promise rejects if the
\* handshake fails before ever subscribing, so that the listener goes on.  It
\* does not reject when the socket closes without an error before the answer.
NeverWedged ==
    status # "stopped" => Chains > 0
=============================================================================
