---------------------- MODULE StoreChangeListenerProofs ----------------------
(* Theorems about StoreChangeListener, for any number of sockets and stops *)
(* and any backoff.  An attempt, a connection and a reconnect timer are    *)
(* one thing in three places: ChainsConserved counts it, and every step    *)
(* but Start, Stop and the loss of it conserves the number.                *)
EXTENDS StoreChangeListener, FiniteSetTheorems, TLAPS

-----------------------------------------------------------------------------
(* Types                                                                   *)

\* The backoff stays within its bounds.
LEMMA BackoffType ==
    /\ INITIAL_BACKOFF \in 1..MAX_BACKOFF
    /\ backoff \in 1..MAX_BACKOFF => Doubled \in 1..MAX_BACKOFF
BY BackoffAssumption DEF BackoffAssumption, INITIAL_BACKOFF, Doubled

\* A socket that does not exist is well typed.
LEMMA FreeSocketType == FreeSocket \in Socket /\ FreeSocket.pc = "free"
BY DEF FreeSocket, Socket

\* Moving one socket to another phase keeps the type.
LEMMA MoveType ==
    ASSUME TypeOK, NEW s \in Sockets,
           NEW p \in {"free", "opening", "asked", "subscribed", "closing"},
           sock' = [sock EXCEPT ![s].pc = p]
    PROVE  sock' \in [Sockets -> Socket]
<1>1. [sock[s] EXCEPT !.pc = p] \in Socket
  BY DEF TypeOK, Socket
<1>2. QED BY <1>1 DEF TypeOK

\* Whatever logAndReconnect() does is well typed.
LEMMA ReconnectType ==
    ASSUME TypeOK, LogAndReconnect
    PROVE  /\ status' \in {"stopped", "connecting", "connected"}
           /\ armed' \in Nat /\ tracked' \in BOOLEAN /\ (tracked' => armed' > 0)
           /\ backoff' \in 1..MAX_BACKOFF
<1>1. CASE status = "stopped"
  BY <1>1, Zenon DEF TypeOK, LogAndReconnect
<1>2. CASE status # "stopped"
  <2>1. status' = "connecting" /\ armed' = armed + 1 /\ backoff' = Doubled
    BY <1>2 DEF LogAndReconnect
  <2>2. tracked' = TRUE
    BY <1>2, Zenon DEF LogAndReconnect
  <2>3. armed' \in Nat /\ armed' > 0 /\ backoff' \in 1..MAX_BACKOFF
    BY <2>1, BackoffType DEF TypeOK
  <2>4. QED BY <2>1, <2>2, <2>3, Zenon
<1>3. QED BY <1>1, <1>2, Zenon

\* The initial state is well typed.
LEMMA InitType == Init => TypeOK
<1> SUFFICES ASSUME Init PROVE TypeOK
  OBVIOUS
<1>1. sock \in [Sockets -> Socket]
  BY FreeSocketType DEF Init
<1>2. tracked \in BOOLEAN /\ unsettled \in BOOLEAN /\ ~tracked
  BY Zenon DEF Init
<1>3. armed \in Nat /\ stops \in 0..MaxStops /\ backoff \in 1..MAX_BACKOFF
  BY BackoffType, BackoffAssumption DEF Init, BackoffAssumption
<1>4. status \in {"stopped", "connecting", "connected"} /\ subscription \in Sockets \cup {None}
  BY DEF Init
<1>5. QED BY <1>1, <1>2, <1>3, <1>4 DEF TypeOK

\* Every step keeps the types.
LEMMA NextType == TypeOK /\ [Next]_vars => TypeOK'
<1> SUFFICES ASSUME TypeOK, [Next]_vars PROVE TypeOK'
  OBVIOUS
<1>1. ASSUME NEW s \in Sockets, Start(s) PROVE TypeOK'
  <2>1. sock' \in [Sockets -> Socket]
    BY <1>1, MoveType DEF Start, Connect
  <2>2. QED BY <1>1, <2>1, BackoffType DEF Start, TypeOK
<1>2. CASE Stop
  <2>1. \A s \in Sockets : [sock[s] EXCEPT !.pc = "closing"] \in Socket
    BY DEF TypeOK, Socket
  <2>2. sock' \in [Sockets -> Socket]
    BY <1>2, <2>1 DEF Stop, TypeOK
  <2>3. armed' \in Nat /\ stops' \in 0..MaxStops
    BY <1>2, BackoffAssumption DEF Stop, TypeOK, BackoffAssumption
  <2>4. QED BY <1>2, <2>2, <2>3 DEF Stop, TypeOK
<1>3. ASSUME NEW s \in Sockets, ReconnectFires(s) PROVE TypeOK'
  <2>1. sock' \in [Sockets -> Socket]
    BY <1>3, MoveType DEF ReconnectFires, Connect, TypeOK
  <2>2. armed' \in Nat
    BY <1>3 DEF ReconnectFires, TypeOK
  <2>3. tracked' \in BOOLEAN /\ ~tracked' /\ unsettled' \in BOOLEAN
    BY <1>3, Zenon DEF ReconnectFires, TypeOK
  <2>4. QED BY <1>3, <2>1, <2>2, <2>3 DEF ReconnectFires, TypeOK
<1>4. ASSUME NEW s \in Sockets, Opens(s) PROVE TypeOK'
  <2>1. sock' \in [Sockets -> Socket]
    BY <1>4, MoveType DEF Opens
  <2>2. QED BY <1>4, <2>1 DEF Opens, TypeOK, listener
<1>5. ASSUME NEW s \in Sockets, Frees(s) PROVE sock' \in [Sockets -> Socket]
  BY <1>5, FreeSocketType DEF Frees, TypeOK
<1>6. ASSUME NEW s \in Sockets, AttemptFails(s) PROVE TypeOK'
  <2>1. LogAndReconnect /\ sock' \in [Sockets -> Socket]
    BY <1>5, <1>6 DEF AttemptFails
  <2>2. /\ status' \in {"stopped", "connecting", "connected"}
        /\ armed' \in Nat /\ tracked' \in BOOLEAN /\ (tracked' => armed' > 0)
        /\ backoff' \in 1..MAX_BACKOFF
    BY <2>1, ReconnectType
  <2>3. subscription' \in Sockets \cup {None} /\ stops' \in 0..MaxStops
    BY <1>6 DEF AttemptFails, TypeOK
  <2>4. unsettled' \in BOOLEAN
    BY <1>6, Zenon DEF AttemptFails, TypeOK
  <2>5. QED BY <2>1, <2>2, <2>3, <2>4, Zenon DEF TypeOK
<1>7. ASSUME NEW s \in Sockets, ClosedBeforeReply(s) PROVE TypeOK'
  BY <1>5, <1>7 DEF ClosedBeforeReply, TypeOK, listener
<1>8. ASSUME NEW s \in Sockets, Subscribed(s) PROVE TypeOK'
  <2>1. sock' \in [Sockets -> Socket]
    BY <1>8, MoveType DEF Subscribed
  <2>2. QED BY <1>8, <2>1, BackoffType DEF Subscribed, TypeOK
<1>9. ASSUME NEW s \in Sockets, Heartbeat(s) PROVE TypeOK'
  <2>1. /\ [sock[s] EXCEPT !.pc = "closing"] \in Socket
        /\ [sock[s] EXCEPT !.awaitingPong = TRUE] \in Socket
    BY DEF TypeOK, Socket
  <2>2. sock' \in [Sockets -> Socket]
    BY <1>9, <2>1 DEF Heartbeat, TypeOK
  <2>3. QED BY <1>9, <2>2 DEF Heartbeat, TypeOK, listener
<1>10. ASSUME NEW s \in Sockets, Pong(s) PROVE TypeOK'
  <2>1. [sock[s] EXCEPT !.awaitingPong = FALSE] \in Socket
    BY DEF TypeOK, Socket
  <2>2. sock' \in [Sockets -> Socket]
    BY <1>10, <2>1 DEF Pong, TypeOK
  <2>3. QED BY <1>10, <2>2 DEF Pong, TypeOK, listener
<1>11. ASSUME NEW s \in Sockets, Closes(s) PROVE TypeOK'
  <2>1. LogAndReconnect /\ sock' \in [Sockets -> Socket]
    BY <1>5, <1>11 DEF Closes
  <2>2. /\ status' \in {"stopped", "connecting", "connected"}
        /\ armed' \in Nat /\ tracked' \in BOOLEAN /\ (tracked' => armed' > 0)
        /\ backoff' \in 1..MAX_BACKOFF
    BY <2>1, ReconnectType
  <2>3. subscription' \in Sockets \cup {None} /\ stops' \in 0..MaxStops
    BY <1>11 DEF Closes, TypeOK
  <2>4. unsettled' \in BOOLEAN
    BY <1>11, Zenon DEF Closes, TypeOK
  <2>5. QED BY <2>1, <2>2, <2>3, <2>4, Zenon DEF TypeOK
<1>12. ASSUME NEW s \in Sockets, LinkDies(s) PROVE TypeOK'
  <2>1. [sock[s] EXCEPT !.dead = TRUE] \in Socket
    BY DEF TypeOK, Socket
  <2>2. sock' \in [Sockets -> Socket]
    BY <1>12, <2>1 DEF LinkDies, TypeOK
  <2>3. QED BY <1>12, <2>2 DEF LinkDies, TypeOK, listener
<1>13. CASE UNCHANGED vars
  BY <1>13 DEF vars, listener, TypeOK
<1>14. QED
  BY <1>1, <1>2, <1>3, <1>4, <1>6, <1>7, <1>8, <1>9, <1>10, <1>11, <1>12, <1>13
     DEF Next, SocketStep

\* Every variable has its type in every reachable state.
THEOREM TypeCorrect == Spec => []TypeOK
<1>1. QED BY InitType, NextType, PTL DEF Spec

-----------------------------------------------------------------------------
(* What a step does to sockets, to the timers and to the status            *)

\* What connect() does to the live sockets.
LEMMA ConnectLive ==
    ASSUME TypeOK, NEW s \in Sockets, Connect(s)
    PROVE  /\ s \notin At(Live) /\ At(Live)' = At(Live) \cup {s}
           /\ \A u \in Sockets : u # s => sock'[u] = sock[u]
           /\ sock'[s].pc = "opening"
<1>1. \A u \in Sockets : u # s => sock'[u] = sock[u]
  BY DEF Connect, TypeOK
<1>2. sock[s].pc = "free" /\ sock'[s].pc = "opening"
  BY DEF Connect, TypeOK, Socket
<1>3. QED BY <1>1, <1>2 DEF At, Live

\* What becomes of the live sockets when one is done with.
LEMMA FreesLive ==
    ASSUME TypeOK, NEW s \in Sockets, Frees(s)
    PROVE  /\ At(Live)' = At(Live) \ {s}
           /\ \A u \in Sockets : u # s => sock'[u] = sock[u]
           /\ sock'[s].pc = "free"
<1>1. \A u \in Sockets : u # s => sock'[u] = sock[u]
  BY DEF Frees, TypeOK
<1>2. sock'[s].pc = "free"
  BY FreeSocketType DEF Frees, TypeOK
<1>3. QED BY <1>1, <1>2 DEF At, Live

\* A socket that moves on stays live.
LEMMA MoveLive ==
    ASSUME TypeOK, NEW s \in Sockets, sock[s].pc \in Live, NEW p \in Live,
           sock' = [sock EXCEPT ![s].pc = p]
    PROVE  /\ At(Live)' = At(Live) /\ sock'[s].pc = p
           /\ \A u \in Sockets : u # s => sock'[u] = sock[u]
<1>1. \A u \in Sockets : u # s => sock'[u] = sock[u]
  BY DEF TypeOK
<1>2. sock'[s].pc = p
  BY DEF TypeOK, Socket
<1>3. QED BY <1>1, <1>2 DEF At

-----------------------------------------------------------------------------
(* The connection that is adopted                                          *)

\* The adopted subscription's socket still notifies, or will emit close.
Adopted ==
    /\ subscription # None => sock[subscription].pc \in {"subscribed", "closing"}
    /\ status = "connected" => subscription # None

\* Every step keeps the adopted socket alive, or gives it up.
LEMMA NextAdopted == TypeOK /\ Adopted /\ [Next]_vars => Adopted'
<1> SUFFICES ASSUME TypeOK, Adopted, [Next]_vars PROVE Adopted'
  OBVIOUS
<1> USE SocketsAssumption DEF SocketsAssumption
<1>1. ASSUME NEW s \in Sockets, Start(s) PROVE Adopted'
  BY <1>1, ConnectLive DEF Start, Adopted, Connect, TypeOK
<1>2. CASE Stop
  BY <1>2 DEF Stop, Adopted
<1>3. ASSUME NEW s \in Sockets, ReconnectFires(s) PROVE Adopted'
  <2>1. CASE status = "stopped"
    BY <1>3, <2>1 DEF ReconnectFires, Adopted
  <2>2. CASE status # "stopped"
    BY <1>3, <2>2, ConnectLive DEF ReconnectFires, Connect, Adopted, TypeOK
  <2>3. QED BY <2>1, <2>2
<1>4. ASSUME NEW s \in Sockets, Opens(s) PROVE Adopted'
  <2>1. sock[s].pc = "opening" /\ \A u \in Sockets : u # s => sock'[u] = sock[u]
    BY <1>4 DEF Opens, TypeOK
  <2>2. QED BY <1>4, <2>1 DEF Opens, Adopted, TypeOK, listener
<1>5. ASSUME NEW s \in Sockets, AttemptFails(s) PROVE Adopted'
  <2>1. /\ sock[s].pc \in {"opening", "asked"} /\ subscription' = subscription
        /\ \A u \in Sockets : u # s => sock'[u] = sock[u]
    BY <1>5, FreesLive DEF AttemptFails
  <2>2. status' # "connected"
    BY <1>5 DEF AttemptFails, LogAndReconnect
  <2>3. QED BY <2>1, <2>2 DEF Adopted, TypeOK
<1>6. ASSUME NEW s \in Sockets, ClosedBeforeReply(s) PROVE Adopted'
  <2>1. sock[s].pc = "asked" /\ \A u \in Sockets : u # s => sock'[u] = sock[u]
    BY <1>6, FreesLive DEF ClosedBeforeReply
  <2>2. QED BY <1>6, <2>1 DEF ClosedBeforeReply, Adopted, TypeOK, listener
<1>7. ASSUME NEW s \in Sockets, Subscribed(s) PROVE Adopted'
  <2>1. CASE status = "connecting"
    <3>1. sock'[s].pc = "subscribed"
      BY <1>7, <2>1, MoveLive DEF Subscribed, Live
    <3>2. status' = "connected" /\ subscription' = s
      BY <1>7, <2>1 DEF Subscribed
    <3>3. QED BY <3>1, <3>2 DEF Adopted
  <2>2. CASE status # "connecting"
    <3>1. /\ sock[s].pc = "asked" /\ status' = status /\ subscription' = subscription
          /\ \A u \in Sockets : u # s => sock'[u] = sock[u]
      BY <1>7, <2>2, MoveLive DEF Subscribed, Live
    <3>2. QED BY <3>1 DEF Adopted, TypeOK
  <2>3. QED BY <2>1, <2>2
<1>8. ASSUME NEW s \in Sockets, Heartbeat(s) PROVE Adopted'
  <2>1. /\ sock[s].pc = "subscribed" /\ sock'[s].pc \in {"subscribed", "closing"}
        /\ \A u \in Sockets : u # s => sock'[u] = sock[u]
    BY <1>8 DEF Heartbeat, TypeOK, Socket
  <2>2. QED BY <1>8, <2>1 DEF Heartbeat, Adopted, TypeOK, listener
<1>9. ASSUME NEW s \in Sockets, Pong(s) \/ LinkDies(s) PROVE Adopted'
  <2>1. \A u \in Sockets : sock'[u].pc = sock[u].pc
    BY <1>9 DEF Pong, LinkDies, TypeOK, Socket
  <2>2. status' = status /\ subscription' = subscription
    BY <1>9 DEF Pong, LinkDies, listener
  <2>3. QED BY <2>1, <2>2 DEF Adopted, TypeOK
<1>10. ASSUME NEW s \in Sockets, Closes(s) PROVE Adopted'
  <2>1. subscription' = None /\ status' # "connected"
    BY <1>10 DEF Closes, LogAndReconnect
  <2>2. QED BY <2>1 DEF Adopted
<1>11. CASE UNCHANGED vars
  BY <1>11 DEF vars, listener, Adopted
<1>12. QED
  BY <1>1, <1>2, <1>3, <1>4, <1>5, <1>6, <1>7, <1>8, <1>9, <1>10, <1>11 DEF Next, SocketStep

\* The adopted socket is alive in every reachable state.
LEMMA AdoptedHolds == Spec => []Adopted
<1>1. Init => Adopted
  BY DEF Init, Adopted
<1>2. QED BY <1>1, TypeCorrect, NextAdopted, PTL DEF Spec

\* A connected listener has a subscription whose socket still notifies it.
THEOREM ConnectedIsLiveHolds == Spec => []ConnectedIsLive
<1>1. Adopted => ConnectedIsLive
  BY DEF Adopted, ConnectedIsLive
<1>2. QED BY <1>1, AdoptedHolds, PTL

-----------------------------------------------------------------------------
(* One reconnect loop                                                      *)

\* Adding and removing a live socket counts.
LEMMA LiveCount ==
    ASSUME TypeOK
    PROVE  /\ IsFiniteSet(At(Live)) /\ Cardinality(At(Live)) \in Nat
           /\ \A s : s \notin At(Live) =>
                 Cardinality(At(Live) \cup {s}) = Cardinality(At(Live)) + 1
           /\ \A s : s \in At(Live) =>
                 Cardinality(At(Live) \ {s}) = Cardinality(At(Live)) - 1
           /\ Cardinality(At(Live)) > 0 <=> At(Live) # {}
<1>1. IsFiniteSet(At(Live))
  BY FS_Subset, SocketsAssumption DEF SocketsAssumption, At
<1>2. Cardinality(At(Live)) \in Nat
  BY <1>1, FS_CardinalityType
<1>3. Cardinality(At(Live)) = 0 <=> At(Live) = {}
  BY <1>1, FS_EmptySet
<1>4. \A s : s \notin At(Live) => Cardinality(At(Live) \cup {s}) = Cardinality(At(Live)) + 1
  BY <1>1, FS_AddElement
<1>5. \A s : s \in At(Live) => Cardinality(At(Live) \ {s}) = Cardinality(At(Live)) - 1
  BY <1>1, FS_RemoveElement
<1>6. QED BY <1>1, <1>2, <1>3, <1>4, <1>5

\* The four things a step does to the loops: it starts one, leaves what there
\* was behind, hands one on or ends it, or does not touch them.
LoopStarted == /\ status = "stopped" /\ status' # "stopped" /\ stops' = stops
               /\ \E s \in Sockets : s \notin At(Live) /\ At(Live)' = At(Live) \cup {s}
               /\ armed' = armed

LoopStopped == /\ status' = "stopped" /\ stops' = stops + 1
               /\ At(Live)' = At(Live)
               /\ armed' \in {armed, armed - 1}

LoopHanded == /\ (status' = "stopped") <=> (status = "stopped")
              /\ stops' = stops
              /\ \/ \E s \in At(Live) : /\ At(Live)' = At(Live) \ {s}
                                        /\ armed' = armed + 1
                 \/ \E s \in Sockets : /\ s \notin At(Live) /\ At(Live)' = At(Live) \cup {s}
                                       /\ armed' = armed - 1

LoopEnded == /\ status' = status /\ stops' = stops
             /\ status # "stopped" => unsettled'
             /\ \/ \E s \in At(Live) : At(Live)' = At(Live) \ {s} /\ armed' = armed
                \/ At(Live)' = At(Live) /\ armed' = armed - 1

LoopKept == /\ (status' = "stopped") <=> (status = "stopped")
            /\ stops' = stops /\ At(Live)' = At(Live) /\ armed' = armed
            /\ unsettled' = unsettled

LoopStep == LoopStarted \/ LoopStopped \/ LoopHanded \/ LoopEnded \/ LoopKept

\* A socket that is done with: its loop goes to a timer, unless stopped.
LEMMA FreedLoop ==
    ASSUME TypeOK, NEW s \in At(Live), Frees(s), LogAndReconnect, stops' = stops
    PROVE  LoopHanded \/ LoopEnded
<1>1. At(Live)' = At(Live) \ {s}
  BY FreesLive DEF At
<1>2. CASE status = "stopped"
  BY <1>1, <1>2 DEF LogAndReconnect, LoopEnded
<1>3. CASE status # "stopped"
  BY <1>1, <1>3 DEF LogAndReconnect, LoopHanded
<1>4. QED BY <1>2, <1>3

\* Every step is one of them.
LEMMA NextLoop == TypeOK /\ Adopted /\ [Next]_vars => LoopStep
<1> SUFFICES ASSUME TypeOK, Adopted, [Next]_vars PROVE LoopStep
  OBVIOUS
<1> USE DEF LoopStep
<1>1. ASSUME NEW s \in Sockets, Start(s) PROVE LoopStep
  BY <1>1, ConnectLive DEF Start, LoopStarted
<1>2. CASE Stop
  <2>1. At(Live)' = At(Live)
    <3>1. ASSUME NEW u \in Sockets PROVE sock'[u].pc \in Live <=> sock[u].pc \in Live
      <4>1. CASE u = subscription
        <5>1. sock[u].pc \in Live
          BY <4>1, SocketsAssumption DEF SocketsAssumption, Adopted, Live
        <5>2. sock'[u].pc = "closing"
          BY <1>2, <4>1 DEF Stop, TypeOK, Socket
        <5>3. QED BY <5>1, <5>2 DEF Live
      <4>2. CASE u # subscription
        BY <1>2, <4>2 DEF Stop
      <4>3. QED BY <4>1, <4>2
    <3>2. QED BY <3>1 DEF At
  <2>2. status' = "stopped" /\ stops' = stops + 1 /\ armed' \in {armed, armed - 1}
    BY <1>2 DEF Stop
  <2>3. QED BY <2>1, <2>2 DEF LoopStopped
<1>3. ASSUME NEW s \in Sockets, ReconnectFires(s) PROVE LoopStep
  <2>1. status' = status /\ stops' = stops /\ armed' = armed - 1
    BY <1>3 DEF ReconnectFires
  <2>2. CASE status = "stopped"
    <3>1. At(Live)' = At(Live)
      BY <1>3, <2>2 DEF ReconnectFires, At
    <3>2. QED BY <2>1, <2>2, <3>1 DEF LoopEnded
  <2>3. CASE status # "stopped"
    <3>1. Connect(s)
      BY <1>3, <2>3 DEF ReconnectFires
    <3>2. QED BY <2>1, <3>1, ConnectLive DEF LoopHanded
  <2>4. QED BY <2>2, <2>3
<1>4. ASSUME status' = status \/ (status = "connecting" /\ status' = "connected"),
             stops' = stops, armed' = armed, unsettled' = unsettled,
             \A u \in Sockets : sock'[u].pc \in Live <=> sock[u].pc \in Live
      PROVE  LoopStep
  <2>1. At(Live)' = At(Live)
    BY <1>4 DEF At
  <2>2. QED BY <1>4, <2>1 DEF LoopKept
<1>5. ASSUME NEW s \in Sockets, Opens(s) PROVE LoopStep
  <2>1. At(Live)' = At(Live)
    BY <1>5, MoveLive DEF Opens, Live
  <2>2. QED BY <1>5, <2>1 DEF Opens, LoopKept, listener
<1>6. ASSUME NEW s \in Sockets, AttemptFails(s) PROVE LoopStep
  <2>1. s \in At(Live)
    BY <1>6 DEF AttemptFails, At, Live
  <2>2. QED BY <1>6, <2>1, FreedLoop DEF AttemptFails
<1>7. ASSUME NEW s \in Sockets, ClosedBeforeReply(s) PROVE LoopStep
  <2>1. s \in At(Live) /\ At(Live)' = At(Live) \ {s}
    BY <1>7, FreesLive DEF ClosedBeforeReply, At, Live
  <2>2. unsettled'
    BY <1>7, Zenon DEF ClosedBeforeReply
  <2>3. status' = status /\ stops' = stops /\ armed' = armed
    BY <1>7 DEF ClosedBeforeReply, listener
  <2>4. QED BY <2>1, <2>2, <2>3 DEF LoopEnded
<1>8. ASSUME NEW s \in Sockets, Subscribed(s) PROVE LoopStep
  <2>1. At(Live)' = At(Live)
    BY <1>8, MoveLive DEF Subscribed, Live
  <2>2. /\ (status' = "stopped") <=> (status = "stopped")
        /\ stops' = stops /\ armed' = armed /\ unsettled' = unsettled
    BY <1>8 DEF Subscribed
  <2>3. QED BY <2>1, <2>2 DEF LoopKept
<1>9. ASSUME NEW s \in Sockets, Heartbeat(s) PROVE LoopStep
  <2>1. \A u \in Sockets : sock'[u].pc \in Live <=> sock[u].pc \in Live
    BY <1>9 DEF Heartbeat, TypeOK, Socket, Live
  <2>2. QED BY <1>4, <1>9, <2>1 DEF Heartbeat, listener
<1>10. ASSUME NEW s \in Sockets, Pong(s) \/ LinkDies(s) PROVE LoopStep
  <2>1. \A u \in Sockets : sock'[u].pc = sock[u].pc
    BY <1>10 DEF Pong, LinkDies, TypeOK, Socket
  <2>2. status' = status /\ stops' = stops /\ armed' = armed /\ unsettled' = unsettled
    BY <1>10 DEF Pong, LinkDies, listener
  <2>3. QED BY <1>4, <2>1, <2>2
<1>11. ASSUME NEW s \in Sockets, Closes(s) PROVE LoopStep
  <2>1. s \in At(Live)
    BY <1>11 DEF Closes, At, Live
  <2>2. QED BY <1>11, <2>1, FreedLoop DEF Closes
<1>12. CASE UNCHANGED vars
  BY <1>4, <1>12 DEF vars, listener
<1>13. QED
  BY <1>1, <1>2, <1>3, <1>5, <1>6, <1>7, <1>8, <1>9, <1>10, <1>11, <1>12 DEF Next, SocketStep

\* Every step conserves the number of loops, or is a Start or a Stop.
LEMMA NextChains == TypeOK /\ TypeOK' /\ Adopted /\ ChainsConserved /\ [Next]_vars => ChainsConserved'
<1> SUFFICES ASSUME TypeOK, TypeOK', Adopted, ChainsConserved, [Next]_vars
             PROVE  ChainsConserved'
  OBVIOUS
<1> DEFINE n == Cardinality(At(Live))
<1>1. n \in Nat /\ armed \in Nat /\ stops \in Nat /\ stops' \in Nat /\ armed' \in Nat
  BY LiveCount, BackoffAssumption DEF TypeOK, BackoffAssumption
<1>2. n + armed <= IF status = "stopped" THEN stops ELSE 1 + stops
  BY DEF ChainsConserved, Chains, Allowed
<1>3. n' + armed' <= IF status' = "stopped" THEN stops' ELSE 1 + stops'
  <2>1. CASE LoopStarted
    <3>1. n' = n + 1
      BY <2>1, LiveCount DEF LoopStarted
    <3>2. QED BY <1>1, <1>2, <2>1, <3>1 DEF LoopStarted
  <2>2. CASE LoopStopped
    BY <1>1, <1>2, <2>2 DEF LoopStopped
  <2>3. CASE LoopHanded
    <3>1. (n' = n - 1 /\ armed' = armed + 1) \/ (n' = n + 1 /\ armed' = armed - 1)
      BY <2>3, LiveCount DEF LoopHanded
    <3>2. QED BY <1>1, <1>2, <2>3, <3>1 DEF LoopHanded
  <2>4. CASE LoopEnded
    <3>1. (n' = n - 1 /\ armed' = armed) \/ (n' = n /\ armed' = armed - 1)
      BY <2>4, LiveCount DEF LoopEnded
    <3>2. QED BY <1>1, <1>2, <2>4, <3>1 DEF LoopEnded
  <2>5. CASE LoopKept
    BY <1>1, <1>2, <2>5 DEF LoopKept
  <2>6. QED BY <2>1, <2>2, <2>3, <2>4, <2>5, NextLoop DEF LoopStep
<1>4. QED BY <1>3 DEF ChainsConserved, Chains, Allowed

\* At first there is no loop, and none is allowed.
LEMMA InitChains == Init => ChainsConserved
<1> SUFFICES ASSUME Init PROVE ChainsConserved
  OBVIOUS
<1>1. At(Live) = {}
  BY FreeSocketType DEF Init, At, Live
<1>2. QED BY <1>1, FS_EmptySet DEF Init, ChainsConserved, Chains, Allowed

\* There is one reconnect loop, and one more at most for every stop.
THEOREM OneChainHolds == Spec => []OneChain
<1>1. TypeOK /\ ChainsConserved => OneChain
  <2> SUFFICES ASSUME TypeOK, ChainsConserved PROVE OneChain
    OBVIOUS
  <2>1. stops \in Nat /\ armed \in Nat /\ Cardinality(At(Live)) \in Nat
    BY LiveCount, BackoffAssumption DEF TypeOK, BackoffAssumption
  <2>2. QED BY <2>1 DEF ChainsConserved, Chains, Allowed, OneChain
<1>2. QED BY <1>1, TypeCorrect, AdoptedHolds, InitChains, NextChains, PTL DEF Spec


-----------------------------------------------------------------------------
(* Something that moves the listener on                                    *)

\* There is a loop exactly when a socket is live or a timer armed.
LEMMA ChainsPositive ==
    ASSUME TypeOK, TypeOK'
    PROVE  /\ Chains > 0 <=> (At(Live) # {} \/ armed > 0)
           /\ (Chains > 0)' <=> (At(Live)' # {} \/ armed' > 0)
<1>1. ASSUME NEW L \in SUBSET Sockets, NEW n \in Nat
      PROVE  Cardinality(L) + n > 0 <=> (L # {} \/ n > 0)
  <2>1. IsFiniteSet(L)
    BY FS_Subset, SocketsAssumption DEF SocketsAssumption
  <2>2. Cardinality(L) \in Nat /\ (Cardinality(L) = 0 <=> L = {})
    BY <2>1, FS_CardinalityType, FS_EmptySet
  <2>3. QED BY <2>2
<1>2. At(Live) \in SUBSET Sockets /\ armed \in Nat
  BY DEF At, TypeOK
<1>3. At(Live)' \in SUBSET Sockets /\ armed' \in Nat
  BY DEF At, TypeOK
<1>4. Chains > 0 <=> (At(Live) # {} \/ armed > 0)
  BY <1>1, <1>2 DEF Chains
<1>5. (Chains > 0)' <=> (At(Live)' # {} \/ armed' > 0)
  BY <1>1, <1>3 DEF Chains
<1>6. QED BY <1>4, <1>5

\* Every step hands on what moves the listener on, or loses it in the one way
\* the property names.
LEMMA NextAlive == TypeOK /\ TypeOK' /\ Adopted /\ StaysAlive /\ [Next]_vars => StaysAlive'
<1> SUFFICES ASSUME TypeOK, TypeOK', Adopted, StaysAlive, [Next]_vars, status' # "stopped"
             PROVE  (Chains > 0)' \/ unsettled'
  BY DEF StaysAlive
<1>1. armed \in Nat /\ armed' \in Nat
  BY DEF TypeOK
<1>2. CASE LoopStarted
  BY <1>2, ChainsPositive DEF LoopStarted
<1>3. CASE LoopStopped
  BY <1>3 DEF LoopStopped
<1>4. CASE LoopHanded
  BY <1>1, <1>4, ChainsPositive DEF LoopHanded
<1>5. CASE LoopEnded
  BY <1>5 DEF LoopEnded
<1>6. CASE LoopKept
  <2>1. Chains > 0 \/ unsettled
    BY <1>6 DEF StaysAlive, LoopKept
  <2>2. CASE unsettled
    BY <1>6, <2>2 DEF LoopKept
  <2>3. CASE Chains > 0
    BY <1>6, <2>3, ChainsPositive DEF LoopKept
  <2>4. QED BY <2>1, <2>2, <2>3
<1>7. QED BY <1>2, <1>3, <1>4, <1>5, <1>6, NextLoop DEF LoopStep

\* A listener that is not stopped has an attempt, a connection or a timer,
\* unless a socket was closed before its subscribe request was answered.
THEOREM StaysAliveHolds == Spec => []StaysAlive
<1>1. Init => StaysAlive
  BY DEF Init, StaysAlive
<1>2. QED BY <1>1, TypeCorrect, AdoptedHolds, NextAlive, PTL DEF Spec

\* No reconnect loop too many, and none too few.
THEOREM OneLiveChainHolds == Spec => []OneLiveChain
<1>1. OneChain /\ StaysAlive => OneLiveChain
  BY DEF OneLiveChain
<1>2. QED BY <1>1, OneChainHolds, StaysAliveHolds, PTL

\* Nothing that was under way when the listener was stopped opens a socket or
\* is adopted afterwards.
THEOREM StoppedStaysQuietHolds == Spec => StoppedStaysQuiet
<1> DEFINE Quiet == /\ At({"opening"})' \subseteq At({"opening"})
                    /\ At({"subscribed"})' \subseteq At({"subscribed"})
<1>1. ASSUME TypeOK, [Next]_vars, status = "stopped", status' = "stopped" PROVE Quiet
  <2> USE <1>1
  <2>1. ASSUME \A u \in Sockets : \/ sock'[u].pc = sock[u].pc
                                  \/ sock'[u].pc \in {"free", "asked", "closing"}
        PROVE  Quiet
    BY <2>1 DEF At
  <2>2. ASSUME NEW s \in Sockets, Frees(s) PROVE Quiet
    BY <2>1, <2>2, FreesLive
  <2>3. ASSUME NEW s \in Sockets, Start(s) PROVE Quiet
    BY <2>3 DEF Start
  <2>4. CASE Stop
    <3>1. \A u \in Sockets : sock'[u] = sock[u] \/ sock'[u].pc = "closing"
      BY <2>4 DEF Stop, TypeOK, Socket
    <3>2. QED BY <2>1, <3>1
  <2>5. ASSUME NEW s \in Sockets, ReconnectFires(s) PROVE Quiet
    BY <2>1, <2>5 DEF ReconnectFires
  <2>6. ASSUME NEW s \in Sockets, Opens(s) PROVE Quiet
    <3>1. \A u \in Sockets : sock'[u] = sock[u] \/ sock'[u].pc = "asked"
      BY <2>6, MoveLive DEF Opens, Live
    <3>2. QED BY <2>1, <3>1
  <2>7. ASSUME NEW s \in Sockets, AttemptFails(s) PROVE Quiet
    BY <2>2, <2>7 DEF AttemptFails
  <2>8. ASSUME NEW s \in Sockets, ClosedBeforeReply(s) PROVE Quiet
    BY <2>2, <2>8 DEF ClosedBeforeReply
  <2>9. ASSUME NEW s \in Sockets, Subscribed(s) PROVE Quiet
    <3>1. \A u \in Sockets : sock'[u] = sock[u] \/ sock'[u].pc = "closing"
      BY <2>9, MoveLive DEF Subscribed, Live
    <3>2. QED BY <2>1, <3>1
  <2>10. ASSUME NEW s \in Sockets, Heartbeat(s) PROVE Quiet
    <3>1. \A u \in Sockets : sock'[u].pc = sock[u].pc \/ sock'[u].pc = "closing"
      BY <2>10 DEF Heartbeat, TypeOK, Socket
    <3>2. QED BY <2>1, <3>1
  <2>11. ASSUME NEW s \in Sockets, Pong(s) \/ LinkDies(s) PROVE Quiet
    <3>1. \A u \in Sockets : sock'[u].pc = sock[u].pc
      BY <2>11 DEF Pong, LinkDies, TypeOK, Socket
    <3>2. QED BY <2>1, <3>1
  <2>12. ASSUME NEW s \in Sockets, Closes(s) PROVE Quiet
    BY <2>2, <2>12 DEF Closes
  <2>13. CASE UNCHANGED vars
    BY <2>1, <2>13 DEF vars
  <2>14. QED
    BY <2>3, <2>4, <2>5, <2>6, <2>7, <2>8, <2>9, <2>10, <2>11, <2>12, <2>13 DEF Next, SocketStep
<1>2. TypeOK /\ [Next]_vars => [status = "stopped" /\ status' = "stopped" => Quiet]_vars
  BY <1>1
<1>3. QED BY <1>2, TypeCorrect, PTL DEF Spec, StoppedStaysQuiet
=============================================================================
