----------------------- MODULE StorefrontStreamProofs -----------------------
(***************************************************************************)
(* What StorefrontStream's streams promise the buyer's page, for every     *)
(* number of connections and of requests the gateway may make.             *)
(***************************************************************************)
EXTENDS StorefrontStream, SequenceTheorems, TLAPS
LOCAL INSTANCE SequencesExt

-----------------------------------------------------------------------------
(* The inductive invariant                                                 *)

Unique(q) == \A j, k \in DOMAIN q : q[j] = q[k] => j = k

\* The gateway has an attempt left as long as it means to make one.
AttemptLeft ==
    /\ hook = "pending" => settled /\ posts < MaxPosts
    /\ ~settled => posts = 0

\* A stream closes over a Set as soon as it subscribes, over the Set that has
\* its listener, and a Set is named by a stream that closes over it.
SetsAreOwned ==
    /\ \A s \in Streams : stream[s].pc # "subscribed" => stream[s].set = None /\ ~stream[s].beat
    /\ \A s \in Streams : stream[s].set # None => stream[stream[s].set].set = stream[s].set
    /\ bus # None => stream[bus].set = bus
    /\ \A q \in Streams :
          /\ Unique(listeners[q])
          /\ \A s \in Elements(listeners[q]) : stream[s].set = q

\* An open stream has sent nothing, and only a client that left early closes one
\* whose lookup is under way.
OpenIsUnsent ==
    \A s \in Streams :
        /\ stream[s].sent <= 1
        /\ ~stream[s].closed => stream[s].sent = 0
        /\ stream[s].pc \in {"none", "lookup"} /\ s \notin early => ~stream[s].closed

\* No listener is in a Set the Map has forgotten, until an unsubscribe runs
\* twice.
NoneForgotten ==
    twice = {} =>
        /\ \A q \in Streams : q # bus => listeners[q] = <<>>
        /\ \A s \in Streams : Waiting(s) => Registered(s)

\* Who can still be reached after the accepted request came after it.
ReachedAreLate ==
    hook = "success" => published /\ \A s \in Streams : Registered(s) => s \in late

StreamInv ==
    /\ TypeOK /\ AttemptLeft /\ SetsAreOwned /\ OpenIsUnsent
    /\ NothingLeftBehind /\ NoneForgotten /\ ReachedAreLate

-----------------------------------------------------------------------------
(* Sequences without repetitions                                           *)

\* Taking out one element moves the later ones down by one.
LEMMA RemoveAtIs ==
    ASSUME NEW T, NEW q \in Seq(T), NEW k \in 1..Len(q)
    PROVE  /\ RemoveAt(q, k) \in Seq(T)
           /\ Len(RemoveAt(q, k)) = Len(q) - 1
           /\ \A j \in 1..Len(q) - 1 :
                 RemoveAt(q, k)[j] = IF j < k THEN q[j] ELSE q[j + 1]
<1> DEFINE a == SubSeq(q, 1, k - 1)
           b == SubSeq(q, k + 1, Len(q))
<1>1. k \in Nat /\ Len(q) \in Nat /\ 1 <= k /\ k <= Len(q)
  OBVIOUS
<1>2. a \in Seq(T) /\ Len(a) = k - 1 /\ \A j \in 1..(k - 1) : a[j] = q[j]
  OBVIOUS
<1>3. b \in Seq(T) /\ Len(b) = Len(q) - k /\ \A j \in 1..(Len(q) - k) : b[j] = q[k + j]
  OBVIOUS
<1> HIDE DEF a, b
<1>4. a \o b \in Seq(T)
  BY <1>2, <1>3
<1>5. Len(a \o b) = Len(a) + Len(b)
  BY <1>2, <1>3, ConcatProperties
<1>6. Len(a \o b) = Len(q) - 1
  BY <1>1, <1>2, <1>3, <1>5
<1>7. ASSUME NEW j \in 1..Len(q) - 1
      PROVE  (a \o b)[j] = IF j < k THEN q[j] ELSE q[j + 1]
  <2>1. CASE j < k
    BY <2>1, <1>2, <1>3
  <2>2. CASE ~(j < k)
    <3>1. (a \o b)[j] = b[j - (k - 1)]
      BY <2>2, <1>2, <1>3
    <3>2. j - (k - 1) \in 1..(Len(q) - k) /\ k + (j - (k - 1)) = j + 1
      BY <2>2
    <3> QED
      BY <3>1, <3>2, <1>3, <2>2
  <2> QED
    BY <2>1, <2>2
<1> QED
  BY <1>4, <1>6, <1>7 DEF RemoveAt, a, b

\* Set.delete() takes out the element and nothing else.
LEMMA WithoutIs ==
    ASSUME NEW T, NEW q \in Seq(T), Unique(q), NEW s
    PROVE  /\ Without(q, s) \in Seq(T)
           /\ Unique(Without(q, s))
           /\ Elements(Without(q, s)) = Elements(q) \ {s}
<1>1. CASE s \notin Elements(q)
  BY <1>1 DEF Without
<1>2. CASE s \in Elements(q)
  <2> DEFINE w == Without(q, s)
  <2>1. PICK k \in 1..Len(q) : q[k] = s /\ w = RemoveAt(q, k)
    <3>1. \E k \in DOMAIN q : q[k] = s
      BY <1>2 DEF Elements
    <3>2. DOMAIN q = 1..Len(q)
      OBVIOUS
    <3> DEFINE c == CHOOSE k \in DOMAIN q : q[k] = s
    <3>3. c \in DOMAIN q /\ q[c] = s
      BY <3>1
    <3>4. w = RemoveAt(q, c)
      BY <1>2 DEF Without
    <3> QED
      BY <3>2, <3>3, <3>4
  <2>2. /\ w \in Seq(T) /\ Len(w) = Len(q) - 1
        /\ \A j \in 1..Len(q) - 1 : w[j] = IF j < k THEN q[j] ELSE q[j + 1]
    BY <2>1, RemoveAtIs
  <2> HIDE DEF w
  <2>3. DOMAIN q = 1..Len(q) /\ DOMAIN w = 1..Len(q) - 1
    BY <2>2
  <2>4. Elements(w) \subseteq Elements(q) \ {s}
    BY <2>1, <2>2, <2>3 DEF Elements, Unique
  <2>5. ASSUME NEW e \in Elements(q) \ {s}
        PROVE  e \in Elements(w)
    <3>1. PICK i \in 1..Len(q) : q[i] = e
      BY <2>3 DEF Elements
    <3>2. i # k
      BY <3>1, <2>1
    <3>3. CASE i < k
      <4>1. i \in DOMAIN w /\ w[i] = e
        BY <2>2, <2>3, <3>1, <3>3
      <4> QED
        BY <4>1 DEF Elements
    <3>4. CASE i > k
      <4>1. i - 1 \in DOMAIN w /\ w[i - 1] = e
        BY <2>2, <2>3, <3>1, <3>4
      <4> QED
        BY <4>1 DEF Elements
    <3> QED
      BY <3>2, <3>3, <3>4
  <2>6. Unique(w)
    BY <2>2, <2>3 DEF Unique
  <2> QED
    BY <2>2, <2>4, <2>5, <2>6 DEF w
<1> QED
  BY <1>1, <1>2

\* The listeners behind the first n.
LEMMA SuffixIs ==
    ASSUME NEW T, NEW q \in Seq(T), Unique(q), NEW n \in 0..Len(q)
    PROVE  /\ SubSeq(q, n + 1, Len(q)) \in Seq(T)
           /\ Unique(SubSeq(q, n + 1, Len(q)))
           /\ Elements(SubSeq(q, n + 1, Len(q))) = Elements(q) \ {q[k] : k \in 1..n}
<1> DEFINE w == SubSeq(q, n + 1, Len(q))
<1>1. /\ w \in Seq(T) /\ Len(w) = Len(q) - n
      /\ \A j \in 1..(Len(q) - n) : w[j] = q[n + j]
  OBVIOUS
<1> HIDE DEF w
<1>2. DOMAIN q = 1..Len(q) /\ DOMAIN w = 1..(Len(q) - n)
  BY <1>1
<1>3. \A j \in DOMAIN w : n + j \in DOMAIN q /\ n + j > n /\ w[j] = q[n + j]
  BY <1>1, <1>2
<1>4. Unique(w)
  <2> SUFFICES ASSUME NEW i \in DOMAIN w, NEW j \in DOMAIN w, w[i] = w[j]
               PROVE  i = j
    BY DEF Unique
  <2>1. n + i = n + j
    BY <1>3 DEF Unique
  <2> QED
    BY <2>1, <1>2
<1>5. Elements(w) \subseteq Elements(q) \ {q[k] : k \in 1..n}
  <2> SUFFICES ASSUME NEW j \in DOMAIN w
               PROVE  w[j] \in Elements(q) /\ \A k \in 1..n : w[j] # q[k]
    BY DEF Elements
  <2>1. \A k \in 1..n : k \in DOMAIN q /\ k # n + j
    BY <1>2, <1>3
  <2> QED
    BY <2>1, <1>3 DEF Elements, Unique
<1>6. ASSUME NEW e \in Elements(q) \ {q[k] : k \in 1..n}
      PROVE  e \in Elements(w)
  <2>1. PICK i \in 1..Len(q) : q[i] = e
    BY <1>2 DEF Elements
  <2>2. i > n
    BY <2>1
  <2>3. i - n \in DOMAIN w /\ w[i - n] = e
    BY <1>1, <1>2, <2>1, <2>2
  <2> QED
    BY <2>3 DEF Elements
<1> QED
  BY <1>1, <1>4, <1>5, <1>6 DEF w

\* Set.add() of what is not there.
LEMMA AppendIs ==
    ASSUME NEW T, NEW q \in Seq(T), Unique(q), NEW s \in T, s \notin Elements(q)
    PROVE  /\ Append(q, s) \in Seq(T)
           /\ Append(q, s) # <<>>
           /\ Unique(Append(q, s))
           /\ Elements(Append(q, s)) = Elements(q) \cup {s}
<1> DEFINE w == Append(q, s)
<1>1. /\ w \in Seq(T) /\ Len(w) = Len(q) + 1 /\ w[Len(q) + 1] = s
      /\ \A j \in 1..Len(q) : w[j] = q[j]
  OBVIOUS
<1> HIDE DEF w
<1>2. DOMAIN q = 1..Len(q) /\ DOMAIN w = 1..(Len(q) + 1) /\ Len(q) \in Nat
  BY <1>1
<1>3. Unique(w)
  BY <1>1, <1>2 DEF Unique, Elements
<1>4. Elements(w) = Elements(q) \cup {s}
  <2>1. ASSUME NEW e \in Elements(q) PROVE e \in Elements(w)
    BY <1>1, <1>2 DEF Elements
  <2>2. s \in Elements(w)
    BY <1>1, <1>2 DEF Elements
  <2>3. Elements(w) \subseteq Elements(q) \cup {s}
    BY <1>1, <1>2 DEF Elements
  <2> QED
    BY <2>1, <2>2, <2>3
<1>5. w # <<>>
  BY <1>1, <1>2
<1> QED
  BY <1>1, <1>3, <1>4, <1>5 DEF w

\* The empty Set and no other has no elements.
LEMMA EmptyIs ==
    ASSUME NEW T, NEW q \in Seq(T)
    PROVE  q = <<>> <=> Elements(q) = {}
BY DEF Elements

-----------------------------------------------------------------------------
(* Every step keeps the invariant                                          *)

LEMMA StreamInvInit == Init => StreamInv
<1> SUFFICES ASSUME Init PROVE StreamInv
  OBVIOUS
<1> USE StreamsAssumption, PostsAssumption
<1>1. Unopened \in Stream
  BY DEF Unopened, Stream
<1>2. TypeOK
  <2>1. stream \in [Streams -> Stream]
    BY <1>1 DEF Init
  <2>2. listeners \in [Streams -> Seq(Streams)]
    BY DEF Init
  <2>3. posts \in 0..MaxPosts
    BY DEF Init
  <2>4. settled \in BOOLEAN /\ told \in BOOLEAN /\ published \in BOOLEAN
    BY DEF Init
  <2> QED
    BY <2>1, <2>2, <2>3, <2>4, Zenon DEF Init, TypeOK
<1>3. Elements(<<>>) = {} /\ Unique(<<>>)
  BY DEF Elements, Unique
<1>4. SetsAreOwned /\ AttemptLeft
  BY <1>3 DEF Init, SetsAreOwned, AttemptLeft, Unopened
<1>5. OpenIsUnsent /\ NothingLeftBehind
  BY DEF Init, OpenIsUnsent, NothingLeftBehind, Unopened
<1>6. NoneForgotten /\ ReachedAreLate
  BY DEF Init, NoneForgotten, ReachedAreLate, Waiting, Registered, Unopened
<1> QED
  BY <1>2, <1>4, <1>5, <1>6 DEF StreamInv

\* The invariant is about the server's bookkeeping: what the page and the
\* gateway do does not disturb it.
LEMMA OthersKeep ==
    ASSUME StreamInv, Drop \/ Settle \/ ChainBreaks \/ \E s \in Streams : Receive(s)
    PROVE  StreamInv'
<1> USE StreamsAssumption, PostsAssumption
<1>1. UNCHANGED <<bus, listeners, stream, posts, history>>
  BY DEF Drop, Settle, ChainBreaks, Receive, history, gateway, vars
<1>2. TypeOK' /\ AttemptLeft'
  <2>1. CASE Settle
    BY <2>1, <1>1 DEF StreamInv, TypeOK, AttemptLeft, Settle, client, history
  <2>2. CASE Drop
    BY <2>2, <1>1 DEF StreamInv, TypeOK, AttemptLeft, Drop, gateway, history
  <2>3. CASE \E s \in Streams : Receive(s)
    BY <2>3, <1>1 DEF StreamInv, TypeOK, AttemptLeft, Receive, gateway, history
  <2>4. CASE ChainBreaks
    BY <2>4, <1>1 DEF StreamInv, TypeOK, AttemptLeft, ChainBreaks, client, history
  <2> QED
    BY <2>1, <2>2, <2>3, <2>4
<1>3. hook' = "success" => hook = "success"
  <2>1. CASE Settle
    BY <2>1 DEF Settle
  <2>2. CASE Drop
    BY <2>2 DEF Drop, gateway
  <2>3. CASE \E s \in Streams : Receive(s)
    BY <2>3 DEF Receive, gateway
  <2>4. CASE ChainBreaks
    BY <2>4 DEF ChainBreaks
  <2> QED
    BY <2>1, <2>2, <2>3, <2>4
<1>4. SetsAreOwned' /\ OpenIsUnsent' /\ NothingLeftBehind'
  BY <1>1 DEF StreamInv, SetsAreOwned, OpenIsUnsent, NothingLeftBehind, Callees, history
<1>5. NoneForgotten' /\ ReachedAreLate'
  BY <1>1, <1>3 DEF StreamInv, NoneForgotten, ReachedAreLate, Waiting, Registered, history
<1> QED
  BY <1>2, <1>4, <1>5 DEF StreamInv

\* Before it subscribes, and when its response is written, a stream touches
\* nobody else's state.
LEMMA OneStreamKeeps ==
    ASSUME StreamInv,
           NEW s \in Streams,
           Open(s) \/ GatewayAnswers(s) \/ LookupFails(s) \/ SendsStatus(s) \/ Finish(s)
    PROVE  StreamInv'
<1> USE StreamsAssumption, PostsAssumption
<1>1. UNCHANGED <<gateway, bus, listeners, history>>
  BY DEF Open, GatewayAnswers, LookupFails, SendsStatus, Finish
<1>2. stream \in [Streams -> Stream] /\ stream[s] \in Stream
  BY DEF StreamInv, TypeOK
<1>3. stream' \in [Streams -> Stream] /\ \A x \in Streams \ {s} : stream'[x] = stream[x]
  BY <1>2 DEF Open, GatewayAnswers, LookupFails, SendsStatus, Finish, Stream
<1>4. /\ stream'[s].set = stream[s].set
      /\ stream'[s].beat = stream[s].beat
      /\ stream'[s].pc = "subscribed" <=> stream[s].pc = "subscribed"
  BY <1>2 DEF Open, GatewayAnswers, LookupFails, SendsStatus, Finish, Stream
<1>5. \/ /\ stream'[s].sent = stream[s].sent
         /\ stream'[s].closed = stream[s].closed
         /\ stream'[s].pc \in {"none", "lookup"} => stream[s].pc \in {"none", "lookup"}
      \/ /\ stream'[s].sent = stream[s].sent + 1
         /\ ~stream[s].closed /\ stream'[s].closed
         /\ stream'[s].pc = "returned" /\ stream[s].pc = "lookup"
  BY <1>2 DEF Open, GatewayAnswers, LookupFails, SendsStatus, Finish, Stream
<1>6. TypeOK'
  BY <1>1, <1>3 DEF StreamInv, TypeOK, gateway, history, Open, GatewayAnswers, LookupFails,
                    SendsStatus, Finish, client
<1>7. AttemptLeft'
  BY <1>1 DEF StreamInv, AttemptLeft, gateway
<1>8. SetsAreOwned'
  <2>1. \A x \in Streams : /\ stream'[x].set = stream[x].set
                           /\ stream'[x].beat = stream[x].beat
                           /\ stream'[x].pc = "subscribed" <=> stream[x].pc = "subscribed"
    BY <1>3, <1>4
  <2>2. \A x \in Streams : stream[x].set # None => stream[x].set \in Streams
    BY DEF StreamInv, TypeOK, Stream
  <2>3. \A q \in Streams : Elements(listeners[q]) \subseteq Streams
    BY DEF StreamInv, TypeOK, Elements
  <2>4. bus # None => bus \in Streams
    BY DEF StreamInv, TypeOK
  <2> QED
    BY <1>1, <2>1, <2>2, <2>3, <2>4 DEF StreamInv, SetsAreOwned
<1>9. OpenIsUnsent'
  BY <1>1, <1>2, <1>3, <1>5 DEF StreamInv, OpenIsUnsent, history, Stream
<1>10. NothingLeftBehind'
  <2>1. UNCHANGED Callees
    BY <1>1 DEF Callees
  <2>2. stream[s].pc # "subscribed" => ~stream[s].beat /\ s \notin Elements(Callees)
    <3>1. Elements(<<>>) = {}
      BY DEF Elements
    <3>2. bus # None => bus \in Streams
      BY DEF StreamInv, TypeOK
    <3> QED
      BY <3>1, <3>2 DEF StreamInv, SetsAreOwned, Callees
  <2>3. stream'[s].closed => stream[s].closed \/ stream[s].pc # "subscribed"
    BY <1>5
  <2> QED
    BY <1>1, <1>3, <1>4, <2>1, <2>2, <2>3 DEF StreamInv, NothingLeftBehind, history
<1>11. \A x \in Streams : Waiting(x)' => Waiting(x)
  BY <1>3, <1>4, <1>5 DEF Waiting
<1>12. NoneForgotten' /\ ReachedAreLate'
  BY <1>1, <1>11 DEF StreamInv, NoneForgotten, ReachedAreLate, Registered, history, gateway
<1> QED
  BY <1>6, <1>7, <1>8, <1>9, <1>10, <1>12 DEF StreamInv

\* What the invariant says of the Sets and of the streams, for the steps that
\* change both.
LEMMA SetFacts ==
    ASSUME StreamInv
    PROVE  /\ stream \in [Streams -> Stream] /\ listeners \in [Streams -> Seq(Streams)]
           /\ bus \in Streams \cup {None}
           /\ \A x \in Streams : stream[x] \in Stream /\ stream[x].set \in Streams \cup {None}
           /\ \A q \in Streams :
                 /\ listeners[q] \in Seq(Streams) /\ Unique(listeners[q])
                 /\ Elements(listeners[q]) \subseteq {x \in Streams : stream[x].set = q}
           /\ Elements(<<>>) = {} /\ Unique(<<>>)
<1>1. Elements(<<>>) = {} /\ Unique(<<>>)
  BY DEF Elements, Unique
<1>2. \A q \in Streams : Elements(listeners[q]) \subseteq Streams
  BY DEF StreamInv, TypeOK, Elements
<1> QED
  BY <1>1, <1>2 DEF StreamInv, TypeOK, SetsAreOwned, Stream

LEMMA SubscribesKeeps ==
    ASSUME StreamInv, NEW s \in Streams, Subscribes(s)
    PROVE  StreamInv'
<1> USE StreamsAssumption, PostsAssumption
<1> DEFINE set == IF bus = None THEN s ELSE bus
<1>1. /\ stream[s].pc = "lookup" /\ bus' = set
      /\ ~(stream[s].answer = "terminal" /\ ~stream[s].closed)
      /\ listeners' = [listeners EXCEPT ![set] = Append(@, s)]
      /\ stream' = [stream EXCEPT ![s].pc = "subscribed", ![s].answer = "none",
                                  ![s].set = set, ![s].beat = TRUE]
      /\ late' = IF published THEN late \cup {s} ELSE late
      /\ UNCHANGED <<gateway, client, early, published, twice>>
  BY DEF Subscribes
<1>2. set \in Streams /\ set # None
  BY SetFacts
<1>3. stream[s].set = None
  BY <1>1 DEF StreamInv, SetsAreOwned
<1>4. \A q \in Streams : s \notin Elements(listeners[q])
  BY <1>3, SetFacts
<1>5. bus = None => Elements(listeners[set]) = {}
  <2> SUFFICES ASSUME bus = None, NEW x \in Elements(listeners[s]) PROVE FALSE
    OBVIOUS
  <2>1. x \in Streams /\ stream[x].set = s
    BY SetFacts
  <2>2. stream[s].set = s
    BY <2>1 DEF StreamInv, SetsAreOwned
  <2> QED
    BY <2>2, <1>3
<1> HIDE DEF set
<1>6. /\ listeners'[set] = Append(listeners[set], s)
      /\ \A q \in Streams \ {set} : listeners'[q] = listeners[q]
      /\ listeners' \in [Streams -> Seq(Streams)]
  BY <1>1, <1>2, SetFacts
<1>7. /\ listeners'[set] # <<>> /\ Unique(listeners'[set])
      /\ Elements(listeners'[set]) = Elements(listeners[set]) \cup {s}
  <2>1. listeners[set] \in Seq(Streams) /\ Unique(listeners[set]) /\ s \notin Elements(listeners[set])
    BY <1>2, <1>4, SetFacts
  <2> DEFINE q == listeners[set]
             w == Append(q, s)
  <2>2. w # <<>> /\ Unique(w) /\ Elements(w) = Elements(q) \cup {s}
    <3> HIDE DEF q
    <3>1. q \in Seq(Streams) /\ Unique(q) /\ s \notin Elements(q)
      BY <2>1 DEF q
    <3> QED
      BY <3>1, AppendIs
  <2> QED
    BY <2>2, <1>6
<1>8. /\ stream' \in [Streams -> Stream]
      /\ \A x \in Streams \ {s} : stream'[x] = stream[x]
      /\ stream'[s].pc = "subscribed" /\ stream'[s].set = set
      /\ stream'[s].sent = stream[s].sent /\ stream'[s].closed = stream[s].closed
  <2>1. stream \in [Streams -> Stream] /\ stream[s] \in Stream
    BY SetFacts
  <2>2. \A x \in Streams \ {s} : stream'[x] = stream[x]
    BY <1>1, <2>1
  <2>3. stream'[s] = [stream[s] EXCEPT !.pc = "subscribed", !.answer = "none",
                                       !.set = set, !.beat = TRUE]
    BY <1>1, <2>1
  <2>4. /\ stream'[s] \in Stream
        /\ stream'[s].pc = "subscribed" /\ stream'[s].set = set
        /\ stream'[s].sent = stream[s].sent /\ stream'[s].closed = stream[s].closed
    BY <1>2, <2>1, <2>3 DEF Stream
  <2>5. DOMAIN stream' = Streams /\ stream' = [x \in Streams |-> stream'[x]]
    BY <1>1, <2>1
  <2> QED
    BY <2>1, <2>2, <2>4, <2>5
<1>9. TypeOK'
  BY <1>1, <1>2, <1>6, <1>7, <1>8 DEF StreamInv, TypeOK, gateway, client
<1>10. AttemptLeft'
  BY <1>1 DEF StreamInv, AttemptLeft, gateway
<1>11. SetsAreOwned'
  <2>1. ASSUME NEW x \in Streams
        PROVE  /\ stream'[x].pc # "subscribed" => stream'[x].set = None /\ ~stream'[x].beat
               /\ stream'[x].set # None => stream'[stream'[x].set].set = stream'[x].set
    <3>1. bus = None => set = s
      BY DEF set
    <3>2. bus # None => set = bus /\ stream[set].set = set
      BY DEF set, StreamInv, SetsAreOwned
    <3>3. stream[x].set # None => stream[stream[x].set].set = stream[x].set
      BY DEF StreamInv, SetsAreOwned
    <3>4. stream[x].set # None => stream[x].set # s /\ stream[x].set \in Streams
      BY <3>3, <1>3, SetFacts
    <3>5. stream'[set].set = set
      BY <3>1, <3>2, <1>2, <1>3, <1>8
    <3>6. stream[x].pc # "subscribed" => stream[x].set = None /\ ~stream[x].beat
      BY DEF StreamInv, SetsAreOwned
    <3> QED
      BY <3>3, <3>4, <3>5, <3>6, <1>8
  <2>2. stream'[set].set = set
    BY <1>2, <1>3, <1>8 DEF set, StreamInv, SetsAreOwned
  <2>3. ASSUME NEW q \in Streams
        PROVE  Unique(listeners'[q]) /\ \A x \in Elements(listeners'[q]) : stream'[x].set = q
    <3>1. CASE q = set
      BY <3>1, <1>2, <1>7, <1>8, SetFacts
    <3>2. CASE q # set
      <4>1. listeners'[q] = listeners[q] /\ Unique(listeners[q])
        BY <3>2, <1>6, SetFacts
      <4>2. \A x \in Elements(listeners[q]) : x \in Streams \ {s} /\ stream[x].set = q
        BY <1>4, SetFacts
      <4> QED
        BY <4>1, <4>2, <1>8
    <3> QED
      BY <3>1, <3>2
  <2> QED
    BY <2>1, <2>2, <2>3, <1>1 DEF SetsAreOwned
<1>12. OpenIsUnsent'
  BY <1>1, <1>8 DEF StreamInv, OpenIsUnsent
<1>13. NothingLeftBehind'
  <2>1. Callees' = listeners'[set]
    BY <1>1, <1>2 DEF Callees
  <2>2. s \in early \/ ~stream'[s].closed
    BY <1>1, <1>8 DEF StreamInv, OpenIsUnsent
  <2>3. Elements(listeners[set]) \subseteq Elements(Callees)
    BY <1>5, <1>2 DEF Callees, set
  <2> QED
    BY <2>1, <2>2, <2>3, <1>1, <1>7, <1>8 DEF StreamInv, NothingLeftBehind
<1>14. NoneForgotten'
  <2>1. \A x \in Streams : Registered(x) => Registered(x)'
    BY <1>1, <1>2, <1>7 DEF Registered, set
  <2>2. Registered(s)'
    BY <1>1, <1>2, <1>7 DEF Registered
  <2>3. \A x \in Streams \ {s} : Waiting(x)' => Waiting(x)
    BY <1>8 DEF Waiting
  <2>4. twice = {} => \A q \in Streams \ {set} : listeners'[q] = <<>>
    BY <1>6 DEF set, StreamInv, NoneForgotten
  <2> QED
    BY <2>1, <2>2, <2>3, <2>4, <1>1 DEF StreamInv, NoneForgotten
<1>15. ReachedAreLate'
  <2>1. \A x \in Streams : Registered(x)' => x = s \/ Registered(x)
    BY <1>1, <1>2, <1>5, <1>7 DEF Registered, set
  <2> QED
    BY <2>1, <1>1 DEF StreamInv, ReachedAreLate, gateway
<1> QED
  BY <1>9, <1>10, <1>11, <1>12, <1>13, <1>14, <1>15 DEF StreamInv

\* closeStream(), whichever of the three ways it is called.
LEMMA CloseStreamKeeps ==
    ASSUME StreamInv,
           NEW s \in Streams, NEW conn \in {"up", "aborted"},
           stream[s].pc # "none",
           CloseStream(s, conn),
           UNCHANGED <<gateway, client, late, published>>
    PROVE  StreamInv'
<1> USE StreamsAssumption, PostsAssumption
<1> DEFINE set == stream[s].set
<1>1. /\ stream' = [stream EXCEPT ![s].beat = FALSE, ![s].closed = TRUE, ![s].conn = conn]
      /\ early' = IF stream[s].pc = "lookup" THEN early \cup {s} ELSE early
  BY DEF CloseStream, Closes
<1>2. \/ set = None /\ UNCHANGED <<bus, listeners, twice>>
      \/ /\ set # None
         /\ listeners' = [listeners EXCEPT ![set] = Without(@, s)]
         /\ bus' = IF Without(listeners[set], s) = <<>> THEN None ELSE bus
         /\ twice' = IF s \in Elements(listeners[set]) THEN twice ELSE twice \cup {s}
  BY DEF CloseStream
<1>3. set \in Streams \cup {None}
  BY SetFacts
<1>4. /\ stream' \in [Streams -> Stream]
      /\ \A x \in Streams \ {s} : stream'[x] = stream[x]
      /\ stream'[s].closed /\ ~stream'[s].beat
      /\ \A x \in Streams : /\ stream'[x].set = stream[x].set
                            /\ stream'[x].pc = stream[x].pc
                            /\ stream'[x].sent = stream[x].sent
  <2>1. stream \in [Streams -> Stream] /\ stream[s] \in Stream
    BY SetFacts
  <2> QED
    BY <1>1, <2>1 DEF Stream
<1> HIDE DEF set
\* The Sets afterwards: s is in none, and every other listener stays.
<1>5. /\ listeners' \in [Streams -> Seq(Streams)]
      /\ \A q \in Streams : /\ Unique(listeners'[q])
                            /\ Elements(listeners'[q]) = Elements(listeners[q]) \ {s}
      /\ \A q \in Streams \ {set} : listeners'[q] = listeners[q]
  <2>1. \A q \in Streams : s \in Elements(listeners[q]) => q = set
    BY SetFacts DEF set
  <2>2. CASE set = None
    <3>1. listeners' = listeners
      BY <2>2, <1>2
    <3> QED
      BY <2>1, <2>2, <3>1, SetFacts
  <2>3. CASE set # None
    <3>1. set \in Streams
      BY <2>3, <1>3
    <3> DEFINE q == listeners[set]
               w == Without(q, s)
    <3>2. w \in Seq(Streams) /\ Unique(w) /\ Elements(w) = Elements(q) \ {s}
      <4>1. q \in Seq(Streams) /\ Unique(q)
        BY <3>1, SetFacts
      <4> HIDE DEF q
      <4> QED
        BY <4>1, WithoutIs
    <3>3. listeners' = [listeners EXCEPT ![set] = w]
      BY <2>3, <1>2
    <3> HIDE DEF w
    <3>4. listeners'[set] = w /\ \A x \in Streams \ {set} : listeners'[x] = listeners[x]
      BY <3>1, <3>3, SetFacts
    <3>5. listeners' \in [Streams -> Seq(Streams)]
      BY <3>1, <3>2, <3>3, SetFacts
    <3>6. \A x \in Streams : Unique(listeners'[x])
      BY <3>2, <3>4, SetFacts
    <3> QED
      BY <2>1, <3>2, <3>4, <3>5, <3>6
  <2> QED
    BY <2>2, <2>3
<1>6. bus' \in {bus, None}
  BY <1>2
<1>7. bus' # None => listeners'[bus'] # <<>>
  <2> SUFFICES ASSUME bus' # None PROVE listeners'[bus] # <<>>
    BY <1>6
  <2>1. bus \in Streams /\ listeners[bus] # <<>>
    BY <1>6 DEF StreamInv, TypeOK
  <2>2. CASE bus = set
    <3>1. listeners'[set] = Without(listeners[set], s) /\ Without(listeners[set], s) # <<>>
      BY <2>1, <2>2, <1>2, SetFacts
    <3> QED
      BY <3>1, <2>2
  <2>3. CASE bus # set
    BY <2>1, <2>3, <1>5
  <2> QED
    BY <2>2, <2>3
<1>8. early \subseteq early' /\ twice \subseteq twice' /\ early' \subseteq Streams /\ twice' \subseteq Streams
  BY <1>1, <1>2 DEF StreamInv, TypeOK
<1>9. TypeOK'
  BY <1>4, <1>5, <1>6, <1>7, <1>8 DEF StreamInv, TypeOK, gateway, client
<1>10. AttemptLeft'
  BY DEF StreamInv, AttemptLeft, gateway
<1>11. SetsAreOwned'
  <2>1. \A x \in Streams : stream'[x].beat => stream[x].beat
    BY <1>4
  <2>2. \A x \in Streams : stream[x].set \in Streams \cup {None}
    BY SetFacts
  <2>3. bus' # None => bus \in Streams /\ bus' = bus
    BY <1>6, SetFacts
  <2>4. \A x \in Streams : stream'[x].pc # "subscribed" => stream'[x].set = None /\ ~stream'[x].beat
    BY <2>1, <1>4 DEF StreamInv, SetsAreOwned
  <2>5. \A x \in Streams : stream'[x].set # None => stream'[stream'[x].set].set = stream'[x].set
    BY <2>2, <1>4 DEF StreamInv, SetsAreOwned
  <2>6. bus' # None => stream'[bus'].set = bus'
    BY <2>3, <1>4 DEF StreamInv, SetsAreOwned
  <2>7. \A q \in Streams : \A x \in Elements(listeners'[q]) : stream'[x].set = q
    BY <1>4, <1>5, SetFacts
  <2> QED
    BY <2>4, <2>5, <2>6, <2>7, <1>5 DEF SetsAreOwned
<1>12. OpenIsUnsent'
  BY <1>1, <1>4 DEF StreamInv, OpenIsUnsent
<1>13. Elements(Callees') \subseteq Elements(Callees) \ {s}
  BY <1>5, <1>6, SetFacts DEF Callees
<1>14. NothingLeftBehind'
  BY <1>4, <1>8, <1>13 DEF StreamInv, NothingLeftBehind
<1>15. NoneForgotten'
  <2> SUFFICES ASSUME twice' = {}
               PROVE  /\ \A q \in Streams : q # bus' => listeners'[q] = <<>>
                      /\ \A x \in Streams : Waiting(x)' => Registered(x)'
    BY DEF NoneForgotten
  <2>1. /\ \A q \in Streams : q # bus => listeners[q] = <<>>
        /\ \A x \in Streams : Waiting(x) => Registered(x)
    BY <1>8 DEF StreamInv, NoneForgotten
  <2>2. \A x \in Streams : Waiting(x)' => x # s /\ Waiting(x)
    BY <1>4 DEF Waiting
  <2>3. CASE set = None
    <3>1. bus' = bus /\ listeners' = listeners
      BY <2>3, <1>2
    <3> QED
      BY <2>1, <2>2, <3>1 DEF Registered
  <2>4. CASE set # None
    <3>1. set \in Streams /\ s \in Elements(listeners[set])
      BY <2>4, <1>2, <1>3
    <3>2. set = bus
      BY <2>1, <3>1, SetFacts
    <3>3. Elements(listeners'[bus]) = Elements(listeners[bus]) \ {s}
      BY <3>1, <3>2, <1>5
    <3>4. listeners'[bus] = Without(listeners[set], s)
      BY <3>1, <3>2, <2>4, <1>2, SetFacts
    <3>5. bus' = None => listeners'[bus] = <<>>
      BY <3>1, <3>2, <3>4, <2>4, <1>2
    <3>6. \A q \in Streams : q # bus' => listeners'[q] = <<>>
      BY <2>1, <3>2, <3>5, <1>5, <1>6
    <3>7. ASSUME NEW x \in Streams, Waiting(x)' PROVE Registered(x)'
      <4>1. x # s /\ x \in Elements(listeners[bus])
        BY <3>7, <2>1, <2>2 DEF Registered
      <4>2. x \in Elements(listeners'[bus])
        BY <4>1, <3>3
      <4>3. bus' = bus /\ bus # None
        BY <4>2, <3>5, <3>1, <3>2, <1>6, SetFacts
      <4> QED
        BY <4>2, <4>3 DEF Registered
    <3> QED
      BY <3>6, <3>7
  <2> QED
    BY <2>3, <2>4
<1>16. ReachedAreLate'
  <2>1. \A x \in Streams : Registered(x)' => Registered(x)
    BY <1>5, <1>6, SetFacts DEF Registered
  <2> QED
    BY <2>1 DEF StreamInv, ReachedAreLate, gateway
<1> QED
  BY <1>9, <1>10, <1>11, <1>12, <1>14, <1>15, <1>16 DEF StreamInv

\* publish() as far as it gets: the parts of the invariant about the Sets and
\* the streams, and who is registered afterwards.
LEMMA PublishEffect ==
    ASSUME StreamInv,
           NEW n \in 0..Len(Callees), Reaches(n), Publish(n),
           UNCHANGED <<early, twice>>
    PROVE  /\ stream' \in [Streams -> Stream] /\ listeners' \in [Streams -> Seq(Streams)]
           /\ bus' \in Streams \cup {None} /\ published' = TRUE
           /\ bus' # None => listeners'[bus'] # <<>>
           /\ SetsAreOwned' /\ OpenIsUnsent' /\ NothingLeftBehind' /\ NoneForgotten'
           /\ n = Len(Callees) => bus' = None
<1> USE StreamsAssumption, PostsAssumption
<1> DEFINE heard == {Callees[k] : k \in 1..n}
           left == AfterFirst(n)
<1>1. /\ stream' = [s \in Streams |-> IF s \in heard THEN Told(stream[s]) ELSE stream[s]]
      /\ bus' = IF left = <<>> THEN None ELSE bus
      /\ listeners' = [s \in Streams |-> IF s = bus THEN left ELSE listeners[s]]
      /\ published' = TRUE
  BY DEF Publish
<1>2. Callees \in Seq(Streams) /\ Unique(Callees)
  BY SetFacts DEF Callees
<1>3. /\ left \in Seq(Streams) /\ Unique(left)
      /\ Elements(left) = Elements(Callees) \ heard
  <2>1. ASSUME NEW q \in Seq(Streams), Unique(q), n \in 0..Len(q)
        PROVE  /\ SubSeq(q, n + 1, Len(q)) \in Seq(Streams) /\ Unique(SubSeq(q, n + 1, Len(q)))
               /\ Elements(SubSeq(q, n + 1, Len(q))) = Elements(q) \ {q[k] : k \in 1..n}
    BY <2>1, SuffixIs
  <2> QED
    BY <2>1, <1>2 DEF AfterFirst
<1>4. heard \subseteq Elements(Callees)
  BY <1>2 DEF Elements
<1>5. \A s \in heard : ~stream[s].closed
  BY DEF Reaches
<1>6. n = Len(Callees) => left = <<>>
  <2> SUFFICES ASSUME n = Len(Callees) PROVE left = <<>>
    OBVIOUS
  <2> QED
    BY <1>2 DEF AfterFirst
<1> HIDE DEF heard, left
<1>7. bus = None => Elements(Callees) = {}
  BY SetFacts DEF Callees
<1>8. bus # None => bus \in Streams /\ Callees = listeners[bus]
  BY SetFacts DEF Callees
<1>9. \A s \in heard : s \in Streams /\ bus # None /\ stream[s].set = bus
  BY <1>4, <1>7, <1>8, SetFacts
<1>10. left = <<>> <=> Elements(left) = {}
  BY <1>3, EmptyIs
<1>11. /\ listeners' \in [Streams -> Seq(Streams)]
       /\ bus # None => listeners'[bus] = left
       /\ \A q \in Streams : q # bus => listeners'[q] = listeners[q]
  BY <1>1, <1>3, <1>8, SetFacts
<1>12. bus' \in {bus, None} /\ (bus' # None => left # <<>> /\ bus # None)
  BY <1>1
<1>13. ASSUME NEW s \in Streams
       PROVE  /\ stream'[s] \in Stream
              /\ stream'[s].pc = stream[s].pc /\ stream'[s].set = stream[s].set
              /\ s \notin heard => stream'[s] = stream[s]
              /\ s \in heard => /\ stream'[s].sent = stream[s].sent + 1
                               /\ stream'[s].closed /\ ~stream'[s].beat
  <2>1. stream[s] \in Stream
    BY SetFacts
  <2>2. CASE s \in heard
    <3>1. stream'[s] = Told(stream[s])
      BY <1>1, <2>2
    <3>2. stream[s].sent + 1 \in Nat
      BY <2>1 DEF Stream
    <3>3. ASSUME NEW x \in Stream, x.sent + 1 \in Nat
          PROVE  /\ Told(x) \in Stream /\ Told(x).pc = x.pc /\ Told(x).set = x.set
                 /\ Told(x).sent = x.sent + 1 /\ Told(x).closed /\ ~Told(x).beat
      BY <3>3 DEF Told, Stream
    <3> QED
      BY <2>1, <2>2, <3>1, <3>2, <3>3
  <2>3. CASE s \notin heard
    BY <1>1, <2>1, <2>3
  <2> QED
    BY <2>2, <2>3
<1>14. stream' \in [Streams -> Stream]
  <2>1. stream' = [s \in Streams |-> stream'[s]]
    BY <1>1
  <2> QED
    BY <2>1, <1>13
<1>15. SetsAreOwned'
  <2>1. ASSUME NEW s \in Streams
        PROVE  stream'[s].pc # "subscribed" => stream'[s].set = None /\ ~stream'[s].beat
    BY <1>13 DEF StreamInv, SetsAreOwned
  <2>2. ASSUME NEW s \in Streams
        PROVE  stream'[s].set # None => stream'[stream'[s].set].set = stream'[s].set
    <3>1. stream[s].set \in Streams \cup {None}
      BY SetFacts
    <3> QED
      BY <3>1, <1>13 DEF StreamInv, SetsAreOwned
  <2>3. bus' # None => stream'[bus'].set = bus'
    BY <1>8, <1>12, <1>13 DEF StreamInv, SetsAreOwned
  <2>4. ASSUME NEW q \in Streams
        PROVE  /\ Unique(listeners'[q])
               /\ Elements(listeners'[q]) \subseteq Elements(listeners[q])
    <3>1. CASE q = bus
      <4>1. bus # None
        BY <3>1
      <4> QED
        BY <3>1, <4>1, <1>3, <1>8, <1>11
    <3>2. CASE q # bus
      BY <3>2, <1>11, SetFacts
    <3> QED
      BY <3>1, <3>2
  <2>5. ASSUME NEW q \in Streams, NEW s \in Elements(listeners'[q])
        PROVE  stream'[s].set = q
    BY <2>4, <1>13, SetFacts
  <2> QED
    BY <2>1, <2>2, <2>3, <2>4, <2>5 DEF SetsAreOwned
<1>16. OpenIsUnsent'
  <2> SUFFICES ASSUME NEW s \in Streams
               PROVE  /\ stream'[s].sent <= 1
                      /\ ~stream'[s].closed => stream'[s].sent = 0
                      /\ stream'[s].pc \in {"none", "lookup"} /\ s \notin early => ~stream'[s].closed
    BY DEF OpenIsUnsent
  <2>1. s \in heard => stream[s].sent = 0 /\ stream[s].set # None
    BY <1>5, <1>9 DEF StreamInv, OpenIsUnsent
  <2>2. s \in heard => stream[s].pc = "subscribed"
    BY <2>1 DEF StreamInv, SetsAreOwned
  <2> QED
    BY <2>1, <2>2, <1>13 DEF StreamInv, OpenIsUnsent
<1>17. Elements(Callees') \subseteq Elements(Callees) \ heard
  <2>1. CASE bus' = None
    <3>1. Callees' = <<>>
      BY <2>1 DEF Callees
    <3> QED
      BY <3>1, SetFacts
  <2>2. CASE bus' # None
    <3>1. Callees' = left
      BY <2>2, <1>11, <1>12 DEF Callees
    <3> QED
      BY <3>1, <1>3
  <2> QED
    BY <2>1, <2>2
<1>18. NothingLeftBehind'
  BY <1>13, <1>17 DEF StreamInv, NothingLeftBehind
<1>19. NoneForgotten'
  <2> SUFFICES ASSUME twice = {}
               PROVE  /\ \A q \in Streams : q # bus' => listeners'[q] = <<>>
                      /\ \A s \in Streams : Waiting(s)' => Registered(s)'
    BY DEF NoneForgotten
  <2>1. /\ \A q \in Streams : q # bus => listeners[q] = <<>>
        /\ \A s \in Streams : Waiting(s) => Registered(s)
    BY DEF StreamInv, NoneForgotten
  <2>2. ASSUME NEW q \in Streams, q # bus'
        PROVE  listeners'[q] = <<>>
    BY <2>1, <2>2, <1>1, <1>11, StreamsAssumption
  <2>3. ASSUME NEW s \in Streams, Waiting(s)'
        PROVE  Registered(s)'
    <3>1. s \notin heard /\ Registered(s)
      BY <2>1, <2>3, <1>13 DEF Waiting
    <3>2. s \in Elements(left) /\ bus # None
      BY <3>1, <1>3, <1>8 DEF Registered
    <3>3. bus' = bus
      BY <3>2, <1>1, <1>10
    <3> QED
      BY <3>2, <3>3, <1>11 DEF Registered
  <2> QED
    BY <2>2, <2>3
<1>20. bus' # None => listeners'[bus'] # <<>>
  BY <1>11, <1>12
<1>21. bus' \in Streams \cup {None}
  BY <1>12, SetFacts
<1> QED
  BY <1>1, <1>6, <1>11, <1>14, <1>15, <1>16, <1>18, <1>19, <1>20, <1>21

\* What the gateway records of an attempt.
LEMMA AttemptedEffect ==
    ASSUME StreamInv, NEW result \in {"success", "retryable"}, Attempted(result)
    PROVE  /\ settled' \in BOOLEAN /\ told' \in BOOLEAN /\ page' \in Streams \cup {None}
           /\ hook' \in {"none", "pending", "success", "failed"} /\ posts' \in 0..MaxPosts
           /\ early' \subseteq Streams /\ late' \subseteq Streams /\ twice' \subseteq Streams
           /\ AttemptLeft'
           /\ hook' = "success" => result = "success"
           /\ UNCHANGED <<early, late, twice>>
<1>1. settled /\ posts < MaxPosts /\ hook = "pending"
  BY DEF StreamInv, AttemptLeft, Attempted
<1>2. posts' \in 0..MaxPosts
  BY <1>1, PostsAssumption DEF StreamInv, TypeOK, Attempted
<1>3. hook' = "pending" => posts' < MaxPosts
  <2>1. posts \in Nat /\ posts' = posts + 1 /\ MaxPosts \in Nat
    BY PostsAssumption DEF StreamInv, TypeOK, Attempted
  <2>2. hook' = "pending" => posts + 1 # MaxPosts
    BY DEF Attempted
  <2> QED
    BY <1>1, <2>1, <2>2
<1>4. hook' \in {"pending", "success", "failed"} /\ (hook' = "success" => result = "success")
  BY <1>1 DEF Attempted
<1> QED
  BY <1>1, <1>2, <1>3, <1>4 DEF StreamInv, TypeOK, AttemptLeft, Attempted, client

LEMMA PostKeeps ==
    ASSUME StreamInv, PostAccepted \/ PostUnconfirmed \/ PostLost
    PROVE  StreamInv'
<1>1. CASE PostAccepted
  <2>1. Reaches(Len(Callees)) /\ Publish(Len(Callees)) /\ Attempted("success")
    BY <1>1 DEF PostAccepted
  <2>2. Len(Callees) \in 0..Len(Callees)
    BY SetFacts DEF Callees
  <2>3. UNCHANGED <<early, twice>>
    BY <2>1, AttemptedEffect
  <2>4. bus' = None /\ published' = TRUE
    BY <2>1, <2>2, <2>3, PublishEffect
  <2>5. TypeOK' /\ AttemptLeft'
    BY <2>1, <2>2, <2>3, PublishEffect, AttemptedEffect DEF TypeOK
  <2>6. SetsAreOwned' /\ OpenIsUnsent' /\ NothingLeftBehind' /\ NoneForgotten'
    BY <2>1, <2>2, <2>3, PublishEffect
  <2>7. ReachedAreLate'
    BY <2>4 DEF ReachedAreLate, Registered
  <2> QED
    BY <2>5, <2>6, <2>7 DEF StreamInv
<1>2. CASE PostUnconfirmed
  <2>1. PICK n \in 0..Len(Callees) : Reaches(n) /\ Publish(n)
    BY <1>2 DEF PostUnconfirmed
  <2>2. Attempted("retryable")
    BY <1>2 DEF PostUnconfirmed
  <2>3. UNCHANGED <<early, twice>> /\ hook' # "success"
    BY <2>2, AttemptedEffect
  <2>4. TypeOK' /\ AttemptLeft'
    BY <2>1, <2>2, <2>3, PublishEffect, AttemptedEffect DEF TypeOK
  <2>5. SetsAreOwned' /\ OpenIsUnsent' /\ NothingLeftBehind' /\ NoneForgotten'
    BY <2>1, <2>3, PublishEffect
  <2> QED
    BY <2>3, <2>4, <2>5 DEF StreamInv, ReachedAreLate
<1>3. CASE PostLost
  <2>1. Attempted("retryable") /\ UNCHANGED <<bus, listeners, stream, published>>
    BY <1>3 DEF PostLost
  <2>2. UNCHANGED <<early, twice>> /\ hook' # "success"
    BY <2>1, AttemptedEffect
  <2>3. TypeOK' /\ AttemptLeft'
    <3>1. AttemptLeft' /\ hook' \in {"none", "pending", "success", "failed"} /\ posts' \in 0..MaxPosts
      BY <2>1, AttemptedEffect
    <3> QED
      BY <2>1, <3>1, AttemptedEffect DEF StreamInv, TypeOK
  <2>4. SetsAreOwned' /\ OpenIsUnsent' /\ NothingLeftBehind' /\ NoneForgotten'
    BY <2>1, <2>2 DEF StreamInv, SetsAreOwned, OpenIsUnsent, NothingLeftBehind, NoneForgotten,
                      Callees, Waiting, Registered
  <2> QED
    BY <2>2, <2>3, <2>4 DEF StreamInv, ReachedAreLate
<1> QED
  BY <1>1, <1>2, <1>3

LEMMA StreamInvNext == StreamInv /\ [Next]_vars => StreamInv'
<1> SUFFICES ASSUME StreamInv, [Next]_vars PROVE StreamInv'
  OBVIOUS
<1>1. CASE Drop \/ Settle \/ ChainBreaks \/ \E s \in Streams : Receive(s)
  BY <1>1, OthersKeep
<1>2. CASE PostAccepted \/ PostUnconfirmed \/ PostLost
  BY <1>2, PostKeeps
<1>3. ASSUME NEW s \in Streams,
             Open(s) \/ GatewayAnswers(s) \/ LookupFails(s) \/ SendsStatus(s) \/ Finish(s)
      PROVE  StreamInv'
  BY <1>3, OneStreamKeeps
<1>4. ASSUME NEW s \in Streams, Subscribes(s)
      PROVE  StreamInv'
  BY <1>4, SubscribesKeeps
<1>5. ASSUME NEW s \in Streams, Abort(s)
      PROVE  StreamInv'
  BY <1>5, CloseStreamKeeps DEF Abort
<1>6. ASSUME NEW s \in Streams, Cancel(s)
      PROVE  StreamInv'
  BY <1>6, CloseStreamKeeps DEF Cancel
<1>7. CASE UNCHANGED vars
  BY <1>7 DEF vars, gateway, client, history, StreamInv, TypeOK, AttemptLeft, SetsAreOwned,
              OpenIsUnsent, NothingLeftBehind, NoneForgotten, ReachedAreLate, Callees,
              Waiting, Registered
<1> QED
  BY <1>1, <1>2, <1>3, <1>4, <1>5, <1>6, <1>7 DEF Next

LEMMA StreamInvHolds == Spec => []StreamInv
BY StreamInvInit, StreamInvNext, PTL DEF Spec

-----------------------------------------------------------------------------
(* The theorems                                                            *)

\* Every reachable state is well typed, and the Map holds no empty Set,
\* however many connections the page makes and requests the gateway.
THEOREM TypeCorrect == Spec => []TypeOK
<1>1. StreamInv => TypeOK
  BY DEF StreamInv
<1> QED
  BY <1>1, StreamInvHolds, PTL

\* A stream carries at most one event; nothing is left behind for a client
\* that has gone, unless it left during the lookup; a waiting stream can be
\* reached unless an unsubscribe ran twice; and after the accepted request only
\* streams that came too late, or that cannot be reached, still wait.
THEOREM StreamsSoundHolds == Spec => []StreamsSound
<1>1. StreamInv => StreamsSound
  <2> SUFFICES ASSUME StreamInv PROVE StreamsSound
    OBVIOUS
  <2>1. OneEventPerStream
    BY DEF StreamInv, OpenIsUnsent, OneEventPerStream
  <2>2. WaitingIsRegistered
    BY DEF StreamInv, NoneForgotten, WaitingIsRegistered
  <2>3. MissedOnlyLate
    BY DEF StreamInv, ReachedAreLate, MissedOnlyLate
  <2> QED
    BY <2>1, <2>2, <2>3 DEF StreamInv, StreamsSound
<1> QED
  BY <1>1, StreamInvHolds, PTL

=============================================================================
