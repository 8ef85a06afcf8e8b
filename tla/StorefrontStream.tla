-------------------------- MODULE StorefrontStream --------------------------
(***************************************************************************)
(* How the demo shop's buyer learns the outcome of an invoice: the         *)
(* gateway's webhook (app/api/webhook/route.ts), the bus in memory         *)
(* (lib/webhook-bus.ts), the SSE streams the browser opens                 *)
(* (app/api/webhook-events/[invoiceId]/route.ts) and the page that opens   *)
(* them (app/PurchaseFlow.tsx).  The bus is keyed by invoice, and invoices *)
(* do not touch each other: the module has one invoice and one page.       *)
(*                                                                         *)
(* The server is one thread: an action is what runs between two awaits, so *)
(* that publish() is one step, listeners included.                         *)
(***************************************************************************)
EXTENDS Naturals, Sequences
LOCAL INSTANCE SequencesExt

CONSTANTS
    Streams,        \* GET requests for the invoice's stream
    None,
    MaxPosts        \* bound: POST requests the gateway makes for the event

ASSUME StreamsAssumption == None \notin Streams
ASSUME PostsAssumption == MaxPosts \in Nat \ {0}

VARIABLES
    settled,        \* the invoice's row at the gateway has a terminal status
    hook,           \* what becomes of the gateway's delivery of the event
    posts,          \* POST requests it has made
    bus,            \* the Set in the Map, named by the stream that created it
    listeners,      \* listeners[s]: the Set s created, in insertion order
    stream,         \* stream[s]: one GET request
    page,           \* the stream the page's EventSource is connected to
    told,           \* the page has received the event
    early,          \* history: streams whose client left during the lookup
    published,      \* history: publish() has run
    late,           \* history: streams subscribed after that
    twice           \* history: streams whose unsubscribe ran again

gateway == <<settled, hook, posts>>
client == <<page, told>>
history == <<early, published, late, twice>>
vars == <<gateway, bus, listeners, stream, client, history>>

-----------------------------------------------------------------------------
Stream == [pc : {"none", "lookup", "subscribed", "returned"},
           answer : {"none", "pending", "terminal", "error"},  \* of the lookup
           set : Streams \cup {None},   \* the Set its unsubscribe closes over
           closed : BOOLEAN,            \* of the stream's controller
           beat : BOOLEAN,              \* the heartbeat's interval runs
           sent : Nat,                  \* events enqueued
           conn : {"up", "aborted", "finished"}]

Unopened == [pc |-> "none", answer |-> "none", set |-> None, closed |-> FALSE,
             beat |-> FALSE, sent |-> 0, conn |-> "up"]

Elements(q) == {q[k] : k \in DOMAIN q}

\* Set.delete(): an element of a Set is there once.
Without(q, s) ==
    IF s \in Elements(q) THEN RemoveAt(q, CHOOSE k \in DOMAIN q : q[k] = s) ELSE q

\* The GET handler has passed its lookup and waits for the webhook.
Waiting(s) == stream[s].pc = "subscribed" /\ ~stream[s].closed
Registered(s) == bus # None /\ s \in Elements(listeners[bus])

Init ==
    /\ settled = FALSE /\ hook = "none" /\ posts = 0
    /\ bus = None
    /\ listeners = [s \in Streams |-> <<>>]
    /\ stream = [s \in Streams |-> Unopened]
    /\ page = None /\ told = FALSE
    /\ published = FALSE
    /\ early = {} /\ late = {} /\ twice = {}

-----------------------------------------------------------------------------
(* The page                                                                *)

\* The EventSource connects, the first time or again; which unused name the
\* request gets does not matter.
Open(s) ==
    /\ page = None /\ ~told
    /\ stream[s].pc = "none"
    /\ s = CHOOSE x \in Streams : stream[x].pc = "none"
    /\ page' = s
    /\ stream' = [stream EXCEPT ![s].pc = "lookup"]
    /\ UNCHANGED <<gateway, bus, listeners, told, history>>

\* The connection is lost, and the server has not heard of it.  Bound: there
\* is a stream left for the next one.
Drop ==
    /\ page # None
    /\ \E s \in Streams : stream[s].pc = "none"
    /\ page' = None
    /\ UNCHANGED <<gateway, bus, listeners, stream, told, history>>

\* onmessage: the page shows the outcome and closes the EventSource.
Receive(s) ==
    /\ page = s /\ stream[s].sent > 0
    /\ told' = TRUE /\ page' = None
    /\ UNCHANGED <<gateway, bus, listeners, stream, history>>

-----------------------------------------------------------------------------
(* The GET handler                                                         *)

\* The gateway reads the row for invoices.get(); its answer is on the way.
GatewayAnswers(s) ==
    /\ stream[s].pc = "lookup" /\ stream[s].answer = "none"
    /\ stream' = [stream EXCEPT ![s].answer = IF settled THEN "terminal" ELSE "pending"]
    /\ UNCHANGED <<gateway, bus, listeners, client, history>>

LookupFails(s) ==
    /\ stream[s].pc = "lookup" /\ stream[s].answer = "none"
    /\ stream' = [stream EXCEPT ![s].answer = "error"]
    /\ UNCHANGED <<gateway, bus, listeners, client, history>>

\* Faulty variant: the stream is closed before the status is enqueued.
ClosesUnsent(s) ==
    /\ stream[s].pc = "lookup"
    /\ stream[s].answer = "terminal" /\ ~stream[s].closed
    /\ stream' = [stream EXCEPT ![s].pc = "returned", ![s].closed = TRUE]
    /\ UNCHANGED <<gateway, bus, listeners, client, history>>

\* A terminal answer is sent and ends the stream, if its controller is open.
SendsStatus(s) ==
    /\ stream[s].pc = "lookup"
    /\ stream[s].answer = "terminal" /\ ~stream[s].closed
    /\ stream' = [stream EXCEPT ![s].pc = "returned", ![s].answer = "none",
                                ![s].sent = @ + 1, ![s].closed = TRUE]
    /\ UNCHANGED <<gateway, bus, listeners, client, history>>

\* Otherwise it subscribes: for a pending answer, for a failed lookup, and also
\* when enqueue() threw, inside the try, because the client had left.
Subscribes(s) ==
    LET set == IF bus = None THEN s ELSE bus
    IN /\ stream[s].pc = "lookup" /\ stream[s].answer # "none"
       /\ ~(stream[s].answer = "terminal" /\ ~stream[s].closed)
       /\ bus' = set
       /\ listeners' = [listeners EXCEPT ![set] = Append(@, s)]
       /\ stream' = [stream EXCEPT ![s].pc = "subscribed", ![s].answer = "none",
                                   ![s].set = set, ![s].beat = TRUE]
       /\ late' = IF published THEN late \cup {s} ELSE late
       /\ UNCHANGED <<gateway, client, early, published, twice>>

\* closeStream() once it has unsubscribed: the heartbeat and the controller.
Closes(s, conn) ==
    /\ stream' = [stream EXCEPT ![s].beat = FALSE, ![s].closed = TRUE, ![s].conn = conn]
    /\ early' = IF stream[s].pc = "lookup" THEN early \cup {s} ELSE early

\* Faulty variant: an emptied Set stays in the Map.
CloseKeepsEntry(s, conn) ==
    /\ Closes(s, conn)
    /\ listeners' = [q \in Streams |-> Without(listeners[q], s)]
    /\ UNCHANGED <<bus, twice>>

\* closeStream(): the unsubscribe function, if there is one yet, and the rest.
\* That of an emptied Set deletes the Map's entry, whichever Set the entry is.
CloseStream(s, conn) ==
    LET set == stream[s].set
    IN /\ Closes(s, conn)
       /\ \/ /\ set = None
             /\ UNCHANGED <<bus, listeners, twice>>
          \/ /\ set # None
             /\ listeners' = [listeners EXCEPT ![set] = Without(@, s)]
             /\ bus' = IF Without(listeners[set], s) = <<>> THEN None ELSE bus
             /\ twice' = IF s \in Elements(listeners[set]) THEN twice ELSE twice \cup {s}

\* The request's signal: the client is gone before the response is complete.
Abort(s) ==
    /\ page # s /\ stream[s].pc # "none" /\ stream[s].conn = "up"
    /\ CloseStream(s, "aborted")
    /\ UNCHANGED <<gateway, client, late, published>>

\* cancel() of the stream, which a closed one does not call.
Cancel(s) ==
    /\ page # s /\ stream[s].pc # "none" /\ stream[s].conn = "up"
    /\ ~stream[s].closed
    /\ CloseStream(s, "up")
    /\ UNCHANGED <<gateway, client, late, published>>

\* The response of a closed stream is written: no signal any more.
Finish(s) ==
    /\ stream[s].closed /\ stream[s].conn = "up"
    /\ stream' = [stream EXCEPT ![s].conn = "finished"]
    /\ UNCHANGED <<gateway, bus, listeners, client, history>>

-----------------------------------------------------------------------------
(* The webhook                                                             *)

\* The gateway's UPDATE, after which it sends the event.
Settle ==
    /\ ~settled
    /\ settled' = TRUE /\ hook' = "pending"
    /\ UNCHANGED <<posts, bus, listeners, stream, client, history>>

Callees == IF bus = None THEN <<>> ELSE listeners[bus]

\* The loop calls the listeners in turn, and the first n hear the event:
\* enqueue() on a closed controller throws, and publish() with it.
Reaches(n) ==
    /\ \A k \in 1..n : ~stream[Callees[k]].closed
    /\ n < Len(Callees) => stream[Callees[n + 1]].closed

Told(x) == [x EXCEPT !.sent = @ + 1, !.closed = TRUE, !.beat = FALSE]

\* What is left of the Set when its first n listeners have unsubscribed.
AfterFirst(n) == SubSeq(Callees, n + 1, Len(Callees))

\* Faulty variant: only the first listener is called.
PublishToFirst(n) ==
    LET first == {Callees[k] : k \in 1..n \cap {1}}
        left == AfterFirst(IF n = 0 THEN 0 ELSE 1)
    IN /\ stream' = [s \in Streams |-> IF s \in first THEN Told(stream[s]) ELSE stream[s]]
       /\ bus' = IF left = <<>> THEN None ELSE bus
       /\ listeners' = [s \in Streams |-> IF s = bus THEN left ELSE listeners[s]]
       /\ published' = TRUE

\* publish(): each of them enqueues the event and closes its stream.
Publish(n) ==
    LET heard == {Callees[k] : k \in 1..n}
    IN /\ stream' = [s \in Streams |-> IF s \in heard THEN Told(stream[s]) ELSE stream[s]]
       /\ bus' = IF AfterFirst(n) = <<>> THEN None ELSE bus
       /\ listeners' = [s \in Streams |-> IF s = bus THEN AfterFirst(n) ELSE listeners[s]]
       /\ published' = TRUE

Attempted(result) ==
    /\ hook = "pending"
    /\ posts' = posts + 1
    /\ hook' = IF result = "retryable" /\ posts + 1 = MaxPosts THEN "failed"
               ELSE IF result = "success" THEN "success" ELSE hook
    /\ UNCHANGED <<settled, client, early, late, twice>>

\* The handler's 200 reaches the gateway.
PostAccepted ==
    /\ Reaches(Len(Callees)) /\ Publish(Len(Callees))
    /\ Attempted("success")

\* The handler throws, which is a 500; or its answer comes too late or not at all.
PostUnconfirmed ==
    /\ \E n \in 0..Len(Callees) : Reaches(n) /\ Publish(n)
    /\ Attempted("retryable")

\* The request does not reach the handler.
PostLost ==
    /\ Attempted("retryable")
    /\ UNCHANGED <<bus, listeners, stream, published>>

Post == PostAccepted \/ PostUnconfirmed \/ PostLost

\* The gateway's chain of requests ends before its cap, and its row, if it has
\* one, stays pending: the process ends or fails between the UPDATE and the
\* trigger, or the UPDATE that notes an attempt fails and arms no timer.  (A row
\* that a restart of the gateway finds and takes up again is one whose next
\* request was late.)
ChainBreaks ==
    /\ hook = "pending"
    /\ hook' = "broken"
    /\ UNCHANGED <<settled, posts, bus, listeners, stream, client, history>>

-----------------------------------------------------------------------------
Handle(s) == SendsStatus(s) \/ Subscribes(s)

Next ==
    \/ Drop \/ Settle \/ ChainBreaks
    \/ PostAccepted \/ PostUnconfirmed \/ PostLost
    \/ \E s \in Streams :
          \/ Open(s) \/ Receive(s)
          \/ GatewayAnswers(s) \/ LookupFails(s)
          \/ SendsStatus(s) \/ Subscribes(s)
          \/ Abort(s) \/ Cancel(s) \/ Finish(s)

Spec == Init /\ [][Next]_vars

\* The gateway answers lookups (or the call fails) and makes its requests as long
\* as the chain of them is not broken, which it may be at any time; the server
\* runs its handlers, the page reconnects and reads what it is sent.  Nothing is
\* assumed of the network's failures.
FairSpec ==
    /\ Spec
    /\ WF_vars(Post)
    /\ \A s \in Streams :
          /\ WF_vars(Open(s)) /\ WF_vars(Receive(s))
          /\ WF_vars(GatewayAnswers(s) \/ LookupFails(s))
          /\ WF_vars(Handle(s))

-----------------------------------------------------------------------------
(* Properties                                                              *)

\* The shape of the state; a Set that the Map holds is never empty.
TypeOK ==
    /\ settled \in BOOLEAN /\ told \in BOOLEAN /\ published \in BOOLEAN
    /\ hook \in {"none", "pending", "success", "failed", "broken"} /\ posts \in 0..MaxPosts
    /\ bus \in Streams \cup {None} /\ page \in Streams \cup {None}
    /\ stream \in [Streams -> Stream]
    /\ listeners \in [Streams -> Seq(Streams)]
    /\ bus # None => listeners[bus] # <<>>
    /\ early \subseteq Streams /\ late \subseteq Streams /\ twice \subseteq Streams

\* A stream carries at most one event, however often the gateway sends it and
\* although the lookup is a second source (route.ts: "Pushes exactly one
\* terminal event").
OneEventPerStream == \A s \in Streams : stream[s].sent <= 1

\* Nothing is left behind for a client that has gone, neither a listener nor a
\* heartbeat, unless it left while its lookup was under way: then both are
\* started after closeStream() has run.
NothingLeftBehind ==
    \A s \in Streams \ early :
        stream[s].closed => ~stream[s].beat /\ s \notin Elements(Callees)

\* A waiting stream can be reached by publish(), as long as no unsubscribe has
\* run a second time: that one may delete an entry of the Map it knows nothing of.
WaitingIsRegistered ==
    twice = {} => \A s \in Streams : Waiting(s) => Registered(s)

\* When the gateway's request was accepted, a stream still waits for the event
\* only if it subscribed after an earlier publication, or cannot be reached.
MissedOnlyLate ==
    hook = "success" => \A s \in Streams : Waiting(s) => s \in late \/ ~Registered(s)

\* How a stream ends, and what one that still waits may hope for, in every order
\* of its steps, its client's and the gateway's.
StreamsSound == OneEventPerStream /\ NothingLeftBehind /\ WaitingIsRegistered /\ MissedOnlyLate

\* The page learns the outcome, by whichever stream, unless the gateway gives up
\* or its chain of requests breaks, or the stream the page is connected to
\* subscribed too late or was cut off.
PageToldUnlessLate ==
    settled ~> \/ told \/ hook \in {"failed", "broken"}
               \/ page # None /\ Waiting(page) /\ (page \in late \/ ~Registered(page))
=============================================================================
