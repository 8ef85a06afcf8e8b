--------------------------- MODULE NodeViewsProofs ---------------------------
(***************************************************************************)
(* What NodeViews and InvoiceApi promise of the invoice requests, the rate *)
(* limiter, the shared whitelist lookup and the pages' rows, for any       *)
(* number of requests, page loads, channels, peers and restarts.           *)
(***************************************************************************)
EXTENDS NodeViews, FiniteSetTheorems, SequenceTheorems, WellFoundedInduction, TLAPS

-----------------------------------------------------------------------------
(* The inductive invariant                                                 *)

\* The shape of the state; what a load has seen are states of the node.
Moments == [channels : [Channels -> ChannelStates \cup {None}], peers : SUBSET Peers]

ViewsTyped == TypeOKViews /\ since \in [Pages -> SUBSET Moments]

\* A body that passed validation, and the script its asset has.
Accepted(r) == req[r].body \in Bodies[r] /\ Invalid(req[r].body) = None

\* What is known of a request, its invoice on the node and its row.
RequestSound(r) ==
    /\ req[r].pc = "unsent" => req[r].admitted = None
    /\ req[r].pc \in {"body", "lookup"} => req[r].body \in Bodies[r]
    /\ req[r].pc = "lookup" => Accepted(r) /\ req[r].body.asset = "RUSD"
    /\ req[r].pc \in {"unsent", "body", "lookup"} => ~req[r].sent
    /\ req[r].pc \in {"rpc", "insert"} => req[r].sent
    /\ req[r].pc = "insert" => created[r] # None
    /\ req[r].pc \notin {"done", "dropped"} => rows[r] = None
    /\ req[r].sent => Accepted(r) /\ (req[r].script = None <=> req[r].body.asset = "CKB")
    /\ req[r].reply # None => req[r].pc = "done"
    /\ req[r].reply \in Refusals => ~req[r].sent
    /\ req[r].reply = "NODE_UNAVAILABLE" => rows[r] = None
    /\ req[r].reply = "CREATED" => rows[r] # None
    /\ created[r] # None => req[r].sent /\ created[r] = Invoice(r)
    /\ rows[r] # None => created[r] # None /\ rows[r] = Row(r)

BooksSound == \A r \in Requests : RequestSound(r)

\* The lookup in the cache is the only one that is in flight or has found RUSD.
LookupSound ==
    /\ \A l \in Loaders : InFlight(l) => cached = l
    /\ \A l \in Loaders : lookup[l].state = "kept" /\ lookup[l].script # None => cached = l
    /\ NoFailureCached /\ NobodyLeftWaiting /\ NoPageLeftWaiting
    /\ \A r \in Requests : req[r].pc = "lookup" => req[r].on \in Loaders
    /\ \A p \in Pages : page[p].pc = "lookup" => page[p].on \in Loaders

\* Each timestamp is that of one request this process let through, and every
\* one of the window has its timestamp.
Owners ==
    {owner \in [1 .. Len(timestamps) -> Requests] :
        /\ \A i, j \in 1 .. Len(timestamps) : owner[i] = owner[j] => i = j
        /\ \A i \in 1 .. Len(timestamps) : req[owner[i]].admitted = timestamps[i]
        /\ \A r \in Requests : req[r].admitted # None /\ req[r].admitted > now - WINDOW =>
              \E i \in 1 .. Len(timestamps) : owner[i] = r}

LimiterSound ==
    /\ \A i, j \in 1 .. Len(timestamps) : i < j => timestamps[i] <= timestamps[j]
    /\ \A r \in Requests : req[r].admitted # None => req[r].admitted <= now
    /\ \E owner \in Owners : TRUE
    /\ WindowNeverOverfull

\* What a page shows of the channels, and what it counts, is what they were at
\* one moment of the load.
Counts(n) == [channelCount |-> Cardinality(Open(n.channels)), peersCount |-> Cardinality(n.peers)]
PageSound(p) ==
    /\ page[p].pc \in {"lookup", "ready"} => \E n \in since[p] : page[p].list = n.channels
    /\ page[p].kind = "info" /\ page[p].other # None => \E n \in since[p] : page[p].other = Counts(n)
    /\ page[p].kind = "peers" /\ page[p].other # None =>
         \E n \in since[p] : page[p].other = [peers |-> n.peers]

PagesSound == \A p \in Pages : PageSound(p)

ViewsInv == ViewsTyped /\ BooksSound /\ LookupSound /\ LimiterSound /\ PagesSound

-----------------------------------------------------------------------------
(* Sums over finite sets                                                   *)

LEMMA LeastOf ==
    ASSUME NEW T, T \subseteq Nat, T # {}
    PROVE  \E x \in T : \A y \in T : x <= y
<1> DEFINE R == {s \in Nat \X Nat : s[1] < s[2]}
<1>1. IsWellFoundedOn(R, Nat)
  BY NatLessThanWellFounded DEF OpToRel
<1>2. \E x \in T : \A y \in T : ~(<<y, x>> \in R)
  <2> HIDE DEF R
  <2> QED
    BY <1>1, WFMin
<1>3. ASSUME NEW x \in Nat, NEW y \in Nat, <<y, x>> \notin R
      PROVE  x <= y
  <2>1. <<y, x>> \in Nat \X Nat /\ <<y, x>>[1] = y /\ <<y, x>>[2] = x
    OBVIOUS
  <2>2. ~(y < x)
    BY <1>3, <2>1
  <2> QED
    BY <2>2
<1> HIDE DEF R
<1> QED
  BY <1>2, <1>3

LEMMA EveryNumber ==
    ASSUME NEW T, 0 \in T, \A n \in Nat : n \in T => n + 1 \in T
    PROVE  \A n \in Nat : n \in T
<1> SUFFICES ASSUME \E n \in Nat : n \notin T PROVE FALSE
  OBVIOUS
<1> DEFINE U == {n \in Nat : n \notin T}
<1>1. U \subseteq Nat /\ U # {}
  OBVIOUS
<1>2. PICK n \in U : \A m \in U : n <= m
  <2> HIDE DEF U
  <2> QED
    BY <1>1, LeastOf
<1>3. n # 0 /\ n - 1 \in Nat /\ (n - 1) + 1 = n
  OBVIOUS
<1>4. n - 1 \in T
  BY <1>2, <1>3
<1> QED
  BY <1>3, <1>4

Any(s) == CHOOSE x \in s : TRUE
\* The recursion the sum over S of f is defined by.
Summand(g, f, s) == IF s = {} THEN 0 ELSE f[Any(s)] + g[s \ {Any(s)}]
Sums(g, f, S) == g = [s \in SUBSET S |-> Summand(g, f, s)]
Sum(f, S) == SumFunctionOnSet(f, S)

LEMMA SumIsChosen ==
    ASSUME NEW f, NEW S
    PROVE  Sum(f, S) = (CHOOSE g : Sums(g, f, S))[S]
BY DEF Sum, Sums, Summand, Any, SumFunctionOnSet, FoldFunctionOnSet, MapThenFoldSet

LEMMA LessOne ==
    ASSUME NEW s, IsFiniteSet(s), s # {}, NEW x \in s
    PROVE  /\ Cardinality(s) \in Nat \ {0} /\ IsFiniteSet(s \ {x})
           /\ Cardinality(s \ {x}) = Cardinality(s) - 1
BY FS_CardinalityType, FS_EmptySet, FS_RemoveElement

\* The recursion has a solution: it is one on the sets of up to n elements, for
\* every n.
LEMMA SumsExist ==
    ASSUME NEW f, NEW S, IsFiniteSet(S)
    PROVE  \E g : Sums(g, f, S)
<1> DEFINE Upto(g, n) ==
             /\ g = [s \in SUBSET S |-> g[s]]
             /\ \A s \in SUBSET S : Cardinality(s) <= n => g[s] = Summand(g, f, s)
           T == {n \in Nat : \E g : Upto(g, n)}
<1>1. \A s \in SUBSET S : IsFiniteSet(s) /\ Cardinality(s) \in Nat /\ Cardinality(s) <= Cardinality(S)
  BY FS_Subset, FS_CardinalityType
<1>2. 0 \in T
  <2> DEFINE g == [s \in SUBSET S |-> 0]
  <2>1. \A s \in SUBSET S : Cardinality(s) <= 0 => s = {}
    BY <1>1, FS_EmptySet
  <2>2. Upto(g, 0)
    BY <2>1 DEF Summand
  <2> QED
    BY <2>2
<1>3. ASSUME NEW n \in Nat, n \in T
      PROVE  n + 1 \in T
  <2>1. PICK g : Upto(g, n)
    BY <1>3
  <2> DEFINE h == [s \in SUBSET S |-> Summand(g, f, s)]
  <2>2. \A s \in SUBSET S : Cardinality(s) <= n => h[s] = g[s]
    BY <2>1
  <2>3. ASSUME NEW s \in SUBSET S, Cardinality(s) <= n + 1
        PROVE  h[s] = Summand(h, f, s)
    <3>1. CASE s = {}
      BY <3>1 DEF Summand
    <3>2. CASE s # {}
      <4>1. Any(s) \in s
        BY <3>2 DEF Any
      <4>2. PICK t \in SUBSET S : t = s \ {Any(s)}
        OBVIOUS
      <4>3. Cardinality(t) <= n
        BY <1>1, <2>3, <3>2, <4>1, <4>2, LessOne
      <4>4. h[t] = g[t]
        BY <2>2, <4>3
      <4> QED
        BY <3>2, <4>2, <4>4 DEF Summand
    <3> QED
      BY <3>1, <3>2
  <2>4. h = [s \in SUBSET S |-> h[s]]
    OBVIOUS
  <2> HIDE DEF h
  <2>5. Upto(h, n + 1)
    BY <2>3, <2>4
  <2> HIDE DEF Upto
  <2>6. \E k : Upto(k, n + 1)
    BY <2>5
  <2> QED
    BY <2>6
<1>4. Cardinality(S) \in T
  <2>1. Cardinality(S) \in Nat
    BY <1>1
  <2> HIDE DEF T
  <2> QED
    BY <1>2, <1>3, <2>1, EveryNumber
<1>5. PICK g : Upto(g, Cardinality(S))
  BY <1>4
<1>6. \A s \in SUBSET S : g[s] = Summand(g, f, s)
  BY <1>1, <1>5
<1>7. Sums(g, f, S)
  BY <1>5, <1>6 DEF Sums
<1> QED
  BY <1>7

\* Every solution has the sums of the smaller sets too.
LEMMA SumsAgree ==
    ASSUME NEW f
    PROVE  \A n \in Nat : \A S, g, t : IsFiniteSet(S) /\ Sums(g, f, S) /\ t \in SUBSET S /\ Cardinality(t) = n
                             => g[t] = Sum(f, t)
<1> DEFINE Agree(n) ==
             \A S, g, t : IsFiniteSet(S) /\ Sums(g, f, S) /\ t \in SUBSET S /\ Cardinality(t) = n
                            => g[t] = Sum(f, t)
           T == {n \in Nat : Agree(n)}
<1>1. ASSUME NEW t, IsFiniteSet(t)
      PROVE  \E h : Sums(h, f, t) /\ Sum(f, t) = h[t]
  BY <1>1, SumsExist, SumIsChosen
<1>2. Agree(0)
  <2> SUFFICES ASSUME NEW S, NEW g, NEW t, IsFiniteSet(S), Sums(g, f, S), t \in SUBSET S, Cardinality(t) = 0
               PROVE  g[t] = Sum(f, t)
    OBVIOUS
  <2>1. IsFiniteSet(t) /\ t = {}
    BY FS_Subset, FS_EmptySet
  <2>2. PICK h : Sums(h, f, t) /\ Sum(f, t) = h[t]
    BY <1>1, <2>1
  <2>3. g[t] = 0
    BY <2>1 DEF Sums, Summand
  <2>4. h[t] = 0
    BY <2>1, <2>2 DEF Sums, Summand
  <2> QED
    BY <2>2, <2>3, <2>4
<1>3. ASSUME NEW n \in Nat, Agree(n)
      PROVE  Agree(n + 1)
  <2> SUFFICES ASSUME NEW S, NEW g, NEW t, IsFiniteSet(S), Sums(g, f, S), t \in SUBSET S, Cardinality(t) = n + 1
               PROVE  g[t] = Sum(f, t)
    OBVIOUS
  <2>1. IsFiniteSet(t) /\ t # {}
    BY FS_Subset, FS_EmptySet
  <2>2. PICK h : Sums(h, f, t) /\ Sum(f, t) = h[t]
    BY <1>1, <2>1
  <2>3. Any(t) \in t
    BY <2>1 DEF Any
  <2>4. PICK u : u = t \ {Any(t)}
    OBVIOUS
  <2>5. u \in SUBSET S /\ u \in SUBSET t /\ t \in SUBSET t /\ Cardinality(u) = n
    BY <2>1, <2>3, <2>4, LessOne
  <2>6. g[u] = Sum(f, u)
    BY <1>3, <2>5
  <2>7. h[u] = Sum(f, u)
    BY <1>3, <2>1, <2>2, <2>5
  <2>8. g[t] = f[Any(t)] + g[u]
    BY <2>1, <2>4 DEF Sums, Summand
  <2>9. h[t] = f[Any(t)] + h[u]
    BY <2>1, <2>2, <2>4, <2>5 DEF Sums, Summand
  <2> QED
    BY <2>2, <2>6, <2>7, <2>8, <2>9
<1> HIDE DEF Agree
<1>4. \A n \in Nat : n \in T
  <2>1. 0 \in T
    BY <1>2
  <2>2. \A n \in Nat : n \in T => n + 1 \in T
    BY <1>3
  <2> HIDE DEF T
  <2> QED
    BY <2>1, <2>2, EveryNumber
<1>5. \A n \in Nat : Agree(n)
  BY <1>4
<1> QED
  BY <1>5 DEF Agree

LEMMA SolutionIsSum ==
    ASSUME NEW f, NEW S, IsFiniteSet(S), NEW g, Sums(g, f, S), NEW t \in SUBSET S
    PROVE  g[t] = Sum(f, t)
<1>1. PICK n \in Nat : n = Cardinality(t)
  BY FS_Subset, FS_CardinalityType
<1>2. \A R, h, s : IsFiniteSet(R) /\ Sums(h, f, R) /\ s \in SUBSET R /\ Cardinality(s) = n
                     => h[s] = Sum(f, s)
  BY ONLY SumsAgree, n \in Nat
<1> HIDE DEF Sums, Sum
<1> QED
  BY ONLY <1>1, <1>2, IsFiniteSet(S), Sums(g, f, S), t \in SUBSET S

LEMMA SumStep ==
    ASSUME NEW f, NEW S, IsFiniteSet(S)
    PROVE  /\ S = {} => Sum(f, S) = 0
           /\ S # {} => Any(S) \in S /\ Sum(f, S) = f[Any(S)] + Sum(f, S \ {Any(S)})
<1>1. PICK g : Sums(g, f, S) /\ Sum(f, S) = g[S]
  BY SumsExist, SumIsChosen
<1>2. g[S] = Summand(g, f, S)
  BY <1>1 DEF Sums
<1>3. S # {} => Any(S) \in S
  BY DEF Any
<1>4. PICK u \in SUBSET S : u = S \ {Any(S)}
  OBVIOUS
<1>5. g[u] = Sum(f, u)
  BY <1>1, SolutionIsSum
<1> QED
  BY <1>1, <1>2, <1>3, <1>4, <1>5 DEF Summand

\* Induction over the subsets of a finite set.
LEMMA EverySubset ==
    ASSUME NEW S, IsFiniteSet(S), NEW G, {} \in G,
           \A s \in SUBSET S : s # {} /\ (\A x \in s : s \ {x} \in G) => s \in G
    PROVE  \A s \in SUBSET S : s \in G
<1> DEFINE All(n) == \A s \in SUBSET S : Cardinality(s) = n => s \in G
           T == {n \in Nat : All(n)}
<1>1. \A s \in SUBSET S : IsFiniteSet(s) /\ Cardinality(s) \in Nat
  BY FS_Subset, FS_CardinalityType
<1>2. 0 \in T
  BY <1>1, FS_EmptySet
<1>3. ASSUME NEW n \in Nat, n \in T
      PROVE  n + 1 \in T
  <2>1. ASSUME NEW s \in SUBSET S, Cardinality(s) = n + 1
        PROVE  s \in G
    <3>1. s # {}
      BY <2>1, FS_EmptySet
    <3>2. ASSUME NEW x \in s
          PROVE  s \ {x} \in G
      <4>1. Cardinality(s \ {x}) = n /\ s \ {x} \in SUBSET S
        BY <1>1, <2>1, <3>1, LessOne
      <4> QED
        BY <1>3, <4>1
    <3> QED
      BY <3>1, <3>2
  <2> QED
    BY <2>1
<1> HIDE DEF T
<1>4. \A n \in Nat : n \in T
  BY <1>2, <1>3, EveryNumber
<1> QED
  BY <1>1, <1>4 DEF T

LEMMA SumType ==
    ASSUME NEW f, NEW S, IsFiniteSet(S), \A x \in S : f[x] \in Nat
    PROVE  \A s \in SUBSET S : Sum(f, s) \in Nat
<1> DEFINE G == {s \in SUBSET S : Sum(f, s) \in Nat}
<1>1. {} \in G
  <2>1. Sum(f, {}) = 0
    BY SumStep, FS_EmptySet
  <2> QED
    BY <2>1
<1>2. ASSUME NEW s \in SUBSET S, s # {}, \A x \in s : s \ {x} \in G
      PROVE  s \in G
  <2>1. Any(s) \in s /\ Sum(f, s) = f[Any(s)] + Sum(f, s \ {Any(s)})
    BY <1>2, SumStep, FS_Subset
  <2> QED
    BY <1>2, <2>1
<1> HIDE DEF G
<1>3. \A s \in SUBSET S : s \in G
  BY <1>1, <1>2, EverySubset
<1> QED
  BY <1>3 DEF G

\* The order in which the elements are taken does not matter.
LEMMA SumAny ==
    ASSUME NEW f, NEW S, IsFiniteSet(S), \A x \in S : f[x] \in Nat
    PROVE  \A s \in SUBSET S : \A y \in s : Sum(f, s) = f[y] + Sum(f, s \ {y})
<1> DEFINE G == {s \in SUBSET S : \A y \in s : Sum(f, s) = f[y] + Sum(f, s \ {y})}
<1>1. {} \in G
  OBVIOUS
<1>2. ASSUME NEW s \in SUBSET S, s # {}, \A x \in s : s \ {x} \in G
      PROVE  s \in G
  <2>1. Any(s) \in s /\ Sum(f, s) = f[Any(s)] + Sum(f, s \ {Any(s)})
    BY <1>2, SumStep, FS_Subset
  <2>2. PICK x \in s : Sum(f, s) = f[x] + Sum(f, s \ {x})
    BY <2>1
  <2>3. ASSUME NEW y \in s
        PROVE  Sum(f, s) = f[y] + Sum(f, s \ {y})
    <3>1. CASE y = x
      BY <2>2, <3>1
    <3>2. CASE y # x
      <4>1. PICK t \in SUBSET S : t = s \ {x}
        OBVIOUS
      <4>2. PICK u \in SUBSET S : u = s \ {y}
        OBVIOUS
      <4>3. PICK w \in SUBSET S : w = t \ {y}
        OBVIOUS
      <4>4. w = u \ {x} /\ y \in t /\ x \in u /\ t \in G /\ u \in G
        BY <1>2, <3>2, <4>1, <4>2, <4>3
      <4>5. Sum(f, t) = f[y] + Sum(f, w) /\ Sum(f, u) = f[x] + Sum(f, w)
        BY <4>3, <4>4
      <4>6. Sum(f, w) \in Nat /\ f[x] \in Nat /\ f[y] \in Nat
        BY SumType
      <4> QED
        BY <2>2, <4>1, <4>2, <4>5, <4>6
    <3> QED
      BY <3>1, <3>2
  <2> QED
    BY <2>3
<1> HIDE DEF G
<1>3. \A s \in SUBSET S : s \in G
  BY <1>1, <1>2, EverySubset
<1> QED
  BY <1>3 DEF G

LEMMA SumJoin ==
    ASSUME NEW f, NEW S, IsFiniteSet(S), \A x \in S : f[x] \in Nat
    PROVE  \A a, b \in SUBSET S : a \cap b = {} => Sum(f, a \cup b) = Sum(f, a) + Sum(f, b)
<1> DEFINE G == {a \in SUBSET S : \A b \in SUBSET S :
                    a \cap b = {} => Sum(f, a \cup b) = Sum(f, a) + Sum(f, b)}
<1>1. {} \in G
  <2>1. Sum(f, {}) = 0
    BY SumStep, FS_EmptySet
  <2>2. \A b \in SUBSET S : Sum(f, b) \in Nat /\ {} \cup b = b
    BY SumType
  <2> QED
    BY <2>1, <2>2
<1>2. ASSUME NEW a \in SUBSET S, a # {}, \A x \in a : a \ {x} \in G
      PROVE  a \in G
  <2>1. PICK x \in a : TRUE
    BY <1>2
  <2>2. ASSUME NEW b \in SUBSET S, a \cap b = {}
        PROVE  Sum(f, a \cup b) = Sum(f, a) + Sum(f, b)
    <3>1. PICK c \in SUBSET S : c = a \ {x}
      OBVIOUS
    <3>2. PICK d \in SUBSET S : d = a \cup b
      OBVIOUS
    <3>3. c \cup b = d \ {x} /\ c \cap b = {} /\ x \in d /\ c \in G
      BY <1>2, <2>2, <3>1, <3>2
    <3>4. Sum(f, d) = f[x] + Sum(f, d \ {x}) /\ Sum(f, a) = f[x] + Sum(f, c)
      BY <3>1, <3>3, SumAny
    <3>5. Sum(f, d \ {x}) = Sum(f, c) + Sum(f, b)
      BY <3>3
    <3>6. Sum(f, c) \in Nat /\ Sum(f, b) \in Nat /\ f[x] \in Nat
      BY SumType
    <3> QED
      BY <3>2, <3>4, <3>5, <3>6
  <2> QED
    BY <2>2
<1> HIDE DEF G
<1>3. \A s \in SUBSET S : s \in G
  BY <1>1, <1>2, EverySubset
<1> QED
  BY <1>3 DEF G

\* v has the sum of each part of P, a part being the elements with one key.
HasParts(f, P, k, v, A) ==
    /\ \A a \in A : v[a] = Sum(f, {r \in P : k[r] = a})
    /\ \A r \in P : k[r] \in A

\* The sums of the parts add up to the sum of the whole.
LEMMA SumParts ==
    ASSUME NEW f, NEW P, IsFiniteSet(P), \A r \in P : f[r] \in Nat,
           NEW k, NEW v, NEW A, IsFiniteSet(A), HasParts(f, P, k, v, A)
    PROVE  Sum(v, A) = Sum(f, P)
<1> DEFINE Part(B) == {r \in P : k[r] \in B}
           G == {B \in SUBSET A : Sum(v, B) = Sum(f, Part(B))}
<1>1. {} \in G
  <2>1. Part({}) = {}
    OBVIOUS
  <2> HIDE DEF Part
  <2> QED
    BY <2>1, SumStep, FS_EmptySet
<1>2. ASSUME NEW B \in SUBSET A, B # {}, \A a \in B : B \ {a} \in G
      PROVE  B \in G
  <2>1. PICK a \in B : Sum(v, B) = v[a] + Sum(v, B \ {a})
    <3>1. Any(B) \in B /\ Sum(v, B) = v[Any(B)] + Sum(v, B \ {Any(B)})
      BY <1>2, SumStep, FS_Subset
    <3> QED
      BY <3>1
  <2>2. Sum(v, B \ {a}) = Sum(f, Part(B \ {a}))
    BY <1>2
  <2>3. v[a] = Sum(f, Part({a}))
    <3>1. {r \in P : k[r] = a} = Part({a})
      OBVIOUS
    <3> QED
      BY <3>1 DEF HasParts
  <2>4. Part({a}) \cup Part(B \ {a}) = Part(B) /\ Part({a}) \cap Part(B \ {a}) = {}
    OBVIOUS
  <2>5. Part({a}) \in SUBSET P /\ Part(B \ {a}) \in SUBSET P
    OBVIOUS
  <2> HIDE DEF Part
  <2>6. \A x, y \in SUBSET P : x \cap y = {} => Sum(f, x \cup y) = Sum(f, x) + Sum(f, y)
    BY SumJoin
  <2>7. Sum(f, Part(B)) = Sum(f, Part({a})) + Sum(f, Part(B \ {a}))
    BY <2>4, <2>5, <2>6
  <2> QED
    BY <2>1, <2>2, <2>3, <2>7
<1> HIDE DEF G
<1>3. \A B \in SUBSET A : B \in G
  BY <1>1, <1>2, EverySubset
<1>4. Sum(v, A) = Sum(f, Part(A))
  BY <1>3 DEF G
<1>5. Part(A) = P
  BY DEF HasParts
<1> QED
  BY <1>4, <1>5

LEMMA SumOne ==
    ASSUME NEW f, NEW x, f[x] \in Nat
    PROVE  Sum(f, {x}) = f[x]
<1>1. IsFiniteSet({x}) /\ {x} # {} /\ {x} \ {x} = {}
  BY FS_Singleton
<1>2. Any({x}) = x /\ Sum(f, {x}) = f[Any({x})] + Sum(f, {x} \ {Any({x})})
  BY <1>1, SumStep
<1>3. Sum(f, {}) = 0
  BY SumStep, FS_EmptySet
<1> QED
  BY <1>1, <1>2, <1>3

LEMMA SumSame ==
    ASSUME NEW f, NEW g, NEW S, IsFiniteSet(S), \A x \in S : f[x] = g[x]
    PROVE  Sum(f, S) = Sum(g, S)
<1> DEFINE G == {s \in SUBSET S : Sum(f, s) = Sum(g, s)}
<1>1. {} \in G
  <2>1. Sum(f, {}) = 0 /\ Sum(g, {}) = 0
    BY SumStep, FS_EmptySet
  <2> QED
    BY <2>1
<1>2. ASSUME NEW s \in SUBSET S, s # {}, \A x \in s : s \ {x} \in G
      PROVE  s \in G
  <2>1. /\ Any(s) \in s /\ Sum(f, s) = f[Any(s)] + Sum(f, s \ {Any(s)})
        /\ Sum(g, s) = g[Any(s)] + Sum(g, s \ {Any(s)})
    BY <1>2, SumStep, FS_Subset
  <2> QED
    BY <1>2, <2>1
<1> HIDE DEF G
<1>3. \A s \in SUBSET S : s \in G
  BY <1>1, <1>2, EverySubset
<1> QED
  BY <1>3 DEF G

LEMMA SumZero ==
    ASSUME NEW f, NEW S, IsFiniteSet(S), \A x \in S : f[x] \in Nat
    PROVE  Sum(f, S) = 0 <=> \A x \in S : f[x] = 0
<1> DEFINE G == {s \in SUBSET S : Sum(f, s) = 0 <=> \A x \in s : f[x] = 0}
<1>1. {} \in G
  <2>1. Sum(f, {}) = 0
    BY SumStep, FS_EmptySet
  <2> QED
    BY <2>1
<1>2. ASSUME NEW s \in SUBSET S, s # {}, \A x \in s : s \ {x} \in G
      PROVE  s \in G
  <2>1. Any(s) \in s /\ Sum(f, s) = f[Any(s)] + Sum(f, s \ {Any(s)})
    BY <1>2, SumStep, FS_Subset
  <2>2. PICK x \in s : x = Any(s)
    BY <2>1
  <2>3. PICK t \in SUBSET S : t = s \ {x}
    OBVIOUS
  <2>4. Sum(f, s) = f[x] + Sum(f, t) /\ (Sum(f, t) = 0 <=> \A y \in t : f[y] = 0)
    BY <1>2, <2>1, <2>2, <2>3
  <2>5. Sum(f, t) \in Nat /\ f[x] \in Nat
    BY SumType
  <2>6. Sum(f, s) = 0 <=> f[x] = 0 /\ Sum(f, t) = 0
    BY <2>4, <2>5
  <2>7. (\A y \in s : f[y] = 0) <=> f[x] = 0 /\ \A y \in t : f[y] = 0
    BY <2>3
  <2> QED
    BY <2>4, <2>6, <2>7
<1> HIDE DEF G
<1>3. \A s \in SUBSET S : s \in G
  BY <1>1, <1>2, EverySubset
<1>4. S \in G
  BY <1>3
<1> QED
  BY <1>4 DEF G

-----------------------------------------------------------------------------
(* Lemmas about numbers and records                                        *)

LEMMA PageStays ==
    ASSUME NEW p, PageSound(p), since' = since,
           page'[p].kind = page[p].kind, page'[p].other = page[p].other,
           page'[p].pc \in {"lookup", "ready"} =>
             page[p].pc \in {"lookup", "ready"} /\ page'[p].list = page[p].list
    PROVE  PageSound(p)'
<1>1. \A n : Counts(n)' = Counts(n)
  BY DEF Counts, Open
<1> QED
  BY <1>1 DEF PageSound

LEMMA Names ==
    /\ None \notin Loaders /\ None \notin Int /\ None \notin Requests /\ None \notin Pages
    /\ None \notin Scripts /\ None \notin Replies /\ None \notin Refusals
    /\ \A r \in Requests : r \in Loaders /\ r \notin Pages
    /\ \A p \in Pages : p \in Loaders /\ p \notin Requests
BY NamesAssumption, NoneAssumption DEF Loaders, Replies

LEMMA RequestIs ==
    ASSUME TypeOK, NEW r \in Requests
    PROVE  /\ req[r] \in Request
           /\ req[r].admitted \in (0 .. MaxTime) \cup {None}
           /\ req[r].on \in Loaders \cup {None} /\ req[r].script \in Scripts \cup {None}
BY DEF TypeOK, Request, Loaders

LEMMA LookupIs ==
    ASSUME TypeOK, NEW l \in Loaders
    PROVE  /\ lookup[l] \in Lookup /\ lookup[l].script \in Scripts \cup {None}
           /\ lookup[l].state \in {"none", "asked", "answered", "kept", "failed"}
BY DEF TypeOK, Lookup

LEMMA AnsweredIs ==
    ASSUME TypeOK, NEW S, NEW code \in Replies
    PROVE  /\ Answered(S, code) \in [Requests -> Request]
           /\ \A q \in Requests \ S : Answered(S, code)[q] = req[q]
           /\ \A q \in Requests \cap S :
                /\ Answered(S, code)[q].pc = "done" /\ Answered(S, code)[q].reply = code
                /\ Answered(S, code)[q].body = req[q].body
                /\ Answered(S, code)[q].admitted = req[q].admitted
                /\ Answered(S, code)[q].script = req[q].script
                /\ Answered(S, code)[q].sent = req[q].sent
<1> DEFINE a == Answered(S, code)
<1>1. \A q \in Requests : a[q] = IF q \in S THEN [req[q] EXCEPT !.pc = "done", !.reply = code]
                                 ELSE req[q]
  BY DEF Answered
<1>2. ASSUME NEW q \in Requests
      PROVE  /\ a[q] \in Request /\ (q \notin S => a[q] = req[q])
             /\ q \in S =>
                  /\ a[q].pc = "done" /\ a[q].reply = code
                  /\ a[q].body = req[q].body /\ a[q].admitted = req[q].admitted
                  /\ a[q].script = req[q].script /\ a[q].sent = req[q].sent
  <2>1. req[q] \in Request
    BY RequestIs
  <2>2. CASE q \in S
    <3>1. a[q] = [req[q] EXCEPT !.pc = "done", !.reply = code]
      BY <1>1, <2>2
    <3> HIDE DEF a
    <3> QED
      BY <2>1, <2>2, <3>1 DEF Request
  <2>3. CASE q \notin S
    BY <1>1, <2>1, <2>3
  <2> QED
    BY <2>2, <2>3
<1>3. a = [q \in Requests |-> a[q]]
  BY DEF Answered
<1> HIDE DEF a
<1>4. a \in [Requests -> Request]
  BY <1>2, <1>3
<1> QED
  BY <1>2, <1>4 DEF a

LEMMA ResolvedIs ==
    ASSUME TypeOK, NEW S, NEW s \in Scripts \cup {None}
    PROVE  /\ Resolved(S, s) \in [Requests -> Request]
           /\ \A q \in Requests \ S : Resolved(S, s)[q] = req[q]
           /\ \A q \in Requests \cap S :
                /\ Resolved(S, s)[q].pc = "rpc" /\ Resolved(S, s)[q].reply = req[q].reply
                /\ Resolved(S, s)[q].body = req[q].body
                /\ Resolved(S, s)[q].admitted = req[q].admitted
                /\ Resolved(S, s)[q].script = s /\ Resolved(S, s)[q].sent
<1> DEFINE a == Resolved(S, s)
<1>1. \A q \in Requests : a[q] =
        IF q \in S THEN [req[q] EXCEPT !.pc = "rpc", !.script = s, !.sent = TRUE] ELSE req[q]
  BY DEF Resolved
<1>2. ASSUME NEW q \in Requests
      PROVE  /\ a[q] \in Request /\ (q \notin S => a[q] = req[q])
             /\ q \in S =>
                  /\ a[q].pc = "rpc" /\ a[q].reply = req[q].reply
                  /\ a[q].body = req[q].body /\ a[q].admitted = req[q].admitted
                  /\ a[q].script = s /\ a[q].sent
  <2>1. req[q] \in Request
    BY RequestIs
  <2>2. CASE q \in S
    <3>1. a[q] = [req[q] EXCEPT !.pc = "rpc", !.script = s, !.sent = TRUE]
      BY <1>1, <2>2
    <3> HIDE DEF a
    <3> QED
      BY <2>1, <2>2, <3>1 DEF Request
  <2>3. CASE q \notin S
    BY <1>1, <2>1, <2>3
  <2> QED
    BY <2>2, <2>3
<1>3. a = [q \in Requests |-> a[q]]
  BY DEF Resolved
<1> HIDE DEF a
<1>4. a \in [Requests -> Request]
  BY <1>2, <1>3
<1> QED
  BY <1>2, <1>4 DEF a

-----------------------------------------------------------------------------
(* Lemmas about the limiter                                                *)

\* What filter() keeps: the timestamps of the window, and no other.
LEMMA PrunedIs ==
    ASSUME TypeOK, LimiterSound
    PROVE  \E k \in 0 .. Len(timestamps) :
             /\ Pruned \in Seq(0 .. MaxTime) /\ Len(Pruned) = Len(timestamps) - k
             /\ \A i \in 1 .. Len(Pruned) : i + k \in 1 .. Len(timestamps)
                                            /\ Pruned[i] = timestamps[i + k]
             /\ \A j \in 1 .. Len(timestamps) : timestamps[j] > now - WINDOW <=> j > k
<1> DEFINE n == Len(timestamps)
           K == {j \in 1 .. n : timestamps[j] > now - WINDOW}
<1>1. /\ n \in Nat /\ \A j \in 1 .. n : timestamps[j] \in 0 .. MaxTime
      /\ now \in Nat /\ WINDOW \in Nat /\ MaxTime \in Nat
      /\ \A i, j \in 1 .. n : i < j => timestamps[i] <= timestamps[j]
  BY NumbersAssumption DEF TypeOK, LimiterSound
<1>2. \E k \in 0 .. n : \A j \in 1 .. n : timestamps[j] > now - WINDOW <=> j > k
  <2>1. CASE K = {}
    <3>1. n \in 0 .. n
      BY <1>1
    <3>2. ASSUME NEW j \in 1 .. n PROVE timestamps[j] > now - WINDOW <=> j > n
      BY <1>1, <2>1
    <3> QED
      BY <3>1, <3>2
  <2>2. CASE K # {}
    <3>1. K \subseteq Nat
      BY <1>1
    <3>2. PICK m \in K : \A j \in K : m <= j
      <4> HIDE DEF K
      <4> QED
        BY <2>2, <3>1, LeastOf
    <3>3. m - 1 \in 0 .. n
      BY <1>1
    <3>4. ASSUME NEW j \in 1 .. n PROVE timestamps[j] > now - WINDOW <=> j > m - 1
      BY <1>1, <3>2
    <3> QED
      BY <3>3, <3>4
  <2> QED
    BY <2>1, <2>2
<1>3. PICK k \in 0 .. n : \A j \in 1 .. n : timestamps[j] > now - WINDOW <=> j > k
  BY <1>2
<1>4. Expired = 1 .. k
  <2>1. \A j \in 1 .. n : timestamps[j] <= now - WINDOW <=> ~(timestamps[j] > now - WINDOW)
    BY <1>1
  <2> QED
    BY <1>1, <1>3, <2>1 DEF Expired
<1>5. Cardinality(Expired) = k
  BY <1>1, <1>3, <1>4, FS_Interval
<1>6. Pruned = SubSeq(timestamps, k + 1, n)
  BY <1>5 DEF Pruned
<1> HIDE DEF n
<1>7. /\ Pruned \in Seq(0 .. MaxTime) /\ Len(Pruned) = IF k + 1 <= n THEN n - (k + 1) + 1 ELSE 0
      /\ \A i \in 1 .. n - (k + 1) + 1 : Pruned[i] = timestamps[k + 1 + i - 1]
  <2>1. \A i \in k + 1 .. n : timestamps[i] \in 0 .. MaxTime
    BY <1>1
  <2>2. k + 1 \in Int /\ n \in Int
    BY <1>1
  <2> QED
    BY <1>6, <2>1, <2>2, SubSeqProperties
<1>8. Len(Pruned) = n - k
  BY <1>1, <1>7
<1>9. ASSUME NEW i \in 1 .. Len(Pruned)
      PROVE  i + k \in 1 .. n /\ Pruned[i] = timestamps[i + k]
  <2>1. i + k \in 1 .. n /\ i \in 1 .. n - (k + 1) + 1 /\ k + 1 + i - 1 = i + k
    BY <1>1, <1>8
  <2> QED
    BY <1>7, <2>1
<1> QED
  BY <1>3, <1>7, <1>8, <1>9 DEF n

\* Each timestamp that is kept is that of a request of the window, one to one.
LEMMA PrunedOwned ==
    ASSUME TypeOK, LimiterSound
    PROVE  /\ Pruned \in Seq(0 .. MaxTime) /\ Len(Pruned) \in Nat
           /\ \A i \in 1 .. Len(Pruned) : Pruned[i] > now - WINDOW /\ Pruned[i] <= now
           /\ \A i, j \in 1 .. Len(Pruned) : i < j => Pruned[i] <= Pruned[j]
           /\ \E f \in [1 .. Len(Pruned) -> Requests] :
                /\ \A i, j \in 1 .. Len(Pruned) : f[i] = f[j] => i = j
                /\ \A i \in 1 .. Len(Pruned) : req[f[i]].admitted = Pruned[i]
                /\ \A r \in Requests : req[r].admitted # None /\ req[r].admitted > now - WINDOW =>
                      \E i \in 1 .. Len(Pruned) : f[i] = r
<1>1. PICK k \in 0 .. Len(timestamps) :
        /\ Pruned \in Seq(0 .. MaxTime) /\ Len(Pruned) = Len(timestamps) - k
        /\ \A i \in 1 .. Len(Pruned) : i + k \in 1 .. Len(timestamps)
                                       /\ Pruned[i] = timestamps[i + k]
        /\ \A j \in 1 .. Len(timestamps) : timestamps[j] > now - WINDOW <=> j > k
  BY PrunedIs
<1>2. PICK owner \in Owners : TRUE
  BY DEF LimiterSound
<1>3. /\ owner \in [1 .. Len(timestamps) -> Requests]
      /\ \A i, j \in 1 .. Len(timestamps) : owner[i] = owner[j] => i = j
      /\ \A i \in 1 .. Len(timestamps) : req[owner[i]].admitted = timestamps[i]
      /\ \A r \in Requests : req[r].admitted # None /\ req[r].admitted > now - WINDOW =>
            \E i \in 1 .. Len(timestamps) : owner[i] = r
  BY DEF Owners
<1>4. /\ Len(timestamps) \in Nat /\ Len(Pruned) \in Nat /\ now \in Nat /\ WINDOW \in Nat
      /\ \A j \in 1 .. Len(timestamps) : timestamps[j] \in 0 .. MaxTime
  BY <1>1, NumbersAssumption DEF TypeOK
<1> DEFINE n == Len(Pruned)
           f == [i \in 1 .. n |-> owner[i + k]]
<1>5. /\ f \in [1 .. n -> Requests] /\ \A i \in 1 .. n : f[i] = owner[i + k]
  BY <1>1, <1>3
<1> HIDE DEF f
<1>6. ASSUME NEW i \in 1 .. n, NEW j \in 1 .. n, f[i] = f[j]
      PROVE  i = j
  <2>1. i + k = j + k
    BY <1>1, <1>3, <1>5, <1>6
  <2> QED
    BY <1>4, <2>1
<1>7. ASSUME NEW i \in 1 .. n
      PROVE  req[f[i]].admitted = Pruned[i] /\ Pruned[i] > now - WINDOW /\ Pruned[i] <= now
  <2>1. i + k \in 1 .. Len(timestamps) /\ i + k > k /\ Pruned[i] = timestamps[i + k]
    BY <1>1, <1>4
  <2>2. req[f[i]].admitted = Pruned[i] /\ Pruned[i] > now - WINDOW
    BY <1>1, <1>3, <1>5, <2>1
  <2>3. Pruned[i] # None /\ f[i] \in Requests
    BY <1>4, <1>5, <2>1, Names
  <2> QED
    BY <2>2, <2>3 DEF LimiterSound
<1>8. ASSUME NEW r \in Requests, req[r].admitted # None, req[r].admitted > now - WINDOW
      PROVE  \E i \in 1 .. n : f[i] = r
  <2>1. PICK j \in 1 .. Len(timestamps) : owner[j] = r
    BY <1>3, <1>8
  <2>2. j > k
    BY <1>1, <1>3, <1>8, <2>1
  <2>3. j - k \in 1 .. n /\ (j - k) + k = j
    BY <1>1, <1>4, <2>2
  <2>4. f[j - k] = r
    BY <1>5, <2>1, <2>3
  <2> QED
    BY <2>3, <2>4
<1>9. ASSUME NEW i \in 1 .. n, NEW j \in 1 .. n, i < j
      PROVE  Pruned[i] <= Pruned[j]
  <2>1. i + k < j + k /\ i + k \in 1 .. Len(timestamps) /\ j + k \in 1 .. Len(timestamps)
    BY <1>1, <1>4, <1>9
  <2> QED
    BY <1>1, <2>1 DEF LimiterSound
<1> QED
  BY <1>1, <1>4, <1>5, <1>6, <1>7, <1>8, <1>9

LEMMA WindowCounted ==
    ASSUME TypeOK, LimiterSound
    PROVE  IsFiniteSet(AdmittedIn(now)) /\ Cardinality(AdmittedIn(now)) = Len(Pruned)
<1>1. PICK f \in [1 .. Len(Pruned) -> Requests] :
        /\ \A i, j \in 1 .. Len(Pruned) : f[i] = f[j] => i = j
        /\ \A i \in 1 .. Len(Pruned) : req[f[i]].admitted = Pruned[i]
        /\ \A r \in Requests : req[r].admitted # None /\ req[r].admitted > now - WINDOW =>
              \E i \in 1 .. Len(Pruned) : f[i] = r
  BY PrunedOwned
<1>2. /\ Len(Pruned) \in Nat /\ now \in Nat /\ WINDOW \in Nat
      /\ \A i \in 1 .. Len(Pruned) : Pruned[i] \in Nat /\ Pruned[i] > now - WINDOW /\ Pruned[i] <= now
  BY PrunedOwned, NumbersAssumption DEF TypeOK
<1> DEFINE D == 1 .. Len(Pruned)
           A == AdmittedIn(now)
<1>3. \A i \in D : f[i] \in A
  BY <1>1, <1>2 DEF AdmittedIn
<1>4. ASSUME NEW r \in A PROVE \E i \in D : f[i] = r
  <2>1. r \in Requests /\ req[r].admitted \in now - WINDOW + 1 .. now
    BY DEF AdmittedIn
  <2>2. req[r].admitted # None /\ req[r].admitted > now - WINDOW
    BY <1>2, <2>1, Names
  <2> QED
    BY <1>1, <2>1, <2>2
<1>5. f \in Bijection(D, A)
  BY <1>1, <1>3, <1>4 DEF Bijection, Injection, Surjection, IsInjective
<1>6. IsFiniteSet(D) /\ Cardinality(D) = Len(Pruned)
  <2>1. PICK n \in Nat : n = Len(Pruned)
    BY <1>2
  <2>2. IsFiniteSet(1 .. n) /\ Cardinality(1 .. n) = n
    BY FS_Interval
  <2> QED
    BY <2>1, <2>2
<1> HIDE DEF D, A
<1>7. ExistsBijection(D, A)
  BY <1>5 DEF ExistsBijection
<1>8. IsFiniteSet(A) /\ Cardinality(A) = Cardinality(D)
  BY <1>6, <1>7, FS_Bijection
<1> QED
  BY <1>6, <1>8 DEF A

LEMMA LimiterFrame ==
    ASSUME LimiterSound, UNCHANGED <<now, timestamps>>,
           \A r \in Requests : req'[r].admitted = req[r].admitted
    PROVE  LimiterSound'
<1>1. PICK owner \in Owners : TRUE
  BY DEF LimiterSound
<1>2. owner \in Owners'
  BY <1>1 DEF Owners
<1>3. \A t : AdmittedIn(t)' = AdmittedIn(t)
  BY DEF AdmittedIn
<1>4. WindowNeverOverfull'
  BY <1>3 DEF LimiterSound, WindowNeverOverfull
<1> QED
  BY <1>2, <1>4 DEF LimiterSound

-----------------------------------------------------------------------------
(* Lemmas about a request and the lookup                                   *)

LEMMA BooksFrame ==
    ASSUME NEW r, RequestSound(r), UNCHANGED <<req[r], created[r], rows[r]>>
    PROVE  RequestSound(r)'
BY DEF RequestSound, Accepted, Invoice, Row

\* A reply, and with it a row or none.
LEMMA AnsweredSound ==
    ASSUME NEW r \in Requests, RequestSound(r), NEW code \in Replies,
           req'[r].pc = "done", req'[r].reply = code, req'[r].body = req[r].body,
           req'[r].script = req[r].script, req'[r].sent = req[r].sent,
           created'[r] = created[r],
           rows'[r] = rows[r] \/ (created[r] # None /\ rows'[r] = Row(r)),
           code \in Refusals => ~req[r].sent,
           code = "NODE_UNAVAILABLE" => rows'[r] = None,
           code = "CREATED" => rows'[r] # None
    PROVE  RequestSound(r)'
<1>1. created[r] # None => req[r].sent /\ created'[r] = Invoice(r)'
  BY DEF RequestSound, Invoice
<1>2. rows'[r] # None => created'[r] # None /\ rows'[r] = Row(r)'
  BY DEF RequestSound, Row
<1>3. req[r].sent => Accepted(r)' /\ (req'[r].script = None <=> req'[r].body.asset = "CKB")
  BY DEF RequestSound, Accepted
<1> QED
  BY <1>1, <1>2, <1>3 DEF RequestSound

\* The call of new_invoice leaves.
LEMMA ResolvedSound ==
    ASSUME NEW r \in Requests, RequestSound(r), ~req[r].sent, req[r].reply = None, rows[r] = None,
           Accepted(r), NEW s \in Scripts \cup {None}, s = None <=> req[r].body.asset = "CKB",
           req'[r].pc = "rpc", req'[r].reply = None, req'[r].body = req[r].body,
           req'[r].script = s, req'[r].sent, UNCHANGED <<created[r], rows[r]>>
    PROVE  RequestSound(r)'
BY Names DEF RequestSound, Accepted

LEMMA NoReplyYet ==
    ASSUME NEW r \in Requests, RequestSound(r), req[r].pc \notin {"done", "dropped"}
    PROVE  req[r].reply = None /\ rows[r] = None
BY DEF RequestSound

LEMMA InvalidIs ==
    ASSUME NEW b
    PROVE  /\ Invalid(b) \in {"VALIDATION_ERROR", "INVALID_AMOUNT", "UNSUPPORTED_ASSET", None}
           /\ Invalid(b) = None =>
                /\ b.json /\ b.amount \in MIN_AMOUNT .. MAX_AMOUNT
                /\ b.asset \in {"CKB", "RUSD"} /\ b.expires \in 1 .. MAX_EXPIRES
<1>1. None \notin {"VALIDATION_ERROR", "INVALID_AMOUNT", "UNSUPPORTED_ASSET"}
  BY Names DEF Refusals
<1> QED
  BY <1>1 DEF Invalid

LEMMA LookupFrame ==
    ASSUME LookupSound, UNCHANGED <<cached, lookup>>,
           \A r \in Requests : req'[r].pc = "lookup" =>
              req[r].pc = "lookup" /\ req'[r].on = req[r].on,
           \A p \in Pages : page'[p].pc = "lookup" =>
              page[p].pc = "lookup" /\ page'[p].on = page[p].on /\ page'[p].list = page[p].list
    PROVE  LookupSound'
<1>1. \A l : InFlight(l)' <=> InFlight(l)
  BY DEF InFlight
<1>2. NoFailureCached'
  BY <1>1 DEF LookupSound, NoFailureCached, InFlight
<1>3. NobodyLeftWaiting'
  BY <1>1 DEF LookupSound, NobodyLeftWaiting, InFlight
<1>4. NoPageLeftWaiting'
  BY <1>1 DEF LookupSound, NoPageLeftWaiting, InFlight, HasUdtChannel, Open
<1> QED
  BY <1>1, <1>2, <1>3, <1>4 DEF LookupSound

\* A step of the invoice route leaves the pages as they are.
LEMMA PagesFrame ==
    ASSUME ViewsInv, UNCHANGED views, TypeOK'
    PROVE  ViewsTyped' /\ PagesSound'
<1>1. UNCHANGED <<channels, peers, page, since, moves>>
  BY DEF views, node
<1>2. ViewsTyped'
  BY <1>1 DEF ViewsInv, ViewsTyped, TypeOKViews
<1>3. PagesSound'
  BY <1>1 DEF ViewsInv, PagesSound, PageSound
<1> QED
  BY <1>2, <1>3

-----------------------------------------------------------------------------
(* The steps of a request                                                  *)

LEMMA ArriveKeeps ==
    ASSUME ViewsInv, NEW r \in Requests, NEW b \in Bodies[r], Arrive(r, b), UNCHANGED views
    PROVE  ViewsInv'
<1>1. /\ TypeOK /\ BooksSound /\ LookupSound /\ LimiterSound /\ RequestSound(r)
      /\ req[r].pc = "unsent" /\ req[r] \in Request /\ req \in [Requests -> Request]
      /\ now \in 0 .. MaxTime /\ now \in Nat /\ WINDOW \in Nat \ {0} /\ now # None
  BY RequestIs, Names, NumbersAssumption DEF ViewsInv, ViewsTyped, TypeOKViews, TypeOK, BooksSound, Arrive
<1>2. /\ timestamps' = IF ~Authorized(b) THEN timestamps
                       ELSE IF Full THEN Pruned ELSE Append(Pruned, now)
      /\ req' = [req EXCEPT ![r] =
            IF ~Authorized(b) THEN [@ EXCEPT !.pc = "done", !.reply = "UNAUTHORIZED"]
            ELSE IF Full THEN [@ EXCEPT !.pc = "done", !.reply = "RATE_LIMITED"]
            ELSE [@ EXCEPT !.pc = "body", !.body = b, !.admitted = now]]
      /\ UNCHANGED <<now, cached, lookup, whitelist, created, rows, edits, restarts, page>>
  BY DEF Arrive, budget, views
<1>3. /\ \A q \in Requests \ {r} : req'[q] = req[q]
      /\ req'[r] \in Request /\ req'[r].sent = req[r].sent /\ req'[r].script = req[r].script
      /\ ~Authorized(b) \/ Full =>
           /\ req'[r].pc = "done" /\ req'[r].reply \in {"UNAUTHORIZED", "RATE_LIMITED"}
           /\ req'[r].body = req[r].body /\ req'[r].admitted = req[r].admitted
      /\ Authorized(b) /\ ~Full =>
           /\ req'[r].pc = "body" /\ req'[r].reply = req[r].reply
           /\ req'[r].body = b /\ req'[r].admitted = now
  <2>1. b \in UNION {Bodies[q] : q \in Requests}
    OBVIOUS
  <2>2. "UNAUTHORIZED" \in Replies /\ "RATE_LIMITED" \in Replies
    BY DEF Replies, Refusals
  <2>3. CASE ~Authorized(b)
    <3>1. req'[r] = [req[r] EXCEPT !.pc = "done", !.reply = "UNAUTHORIZED"]
      BY <1>1, <1>2, <2>3
    <3> QED
      BY <1>1, <1>2, <2>2, <2>3, <3>1 DEF Request
  <2>4. CASE Authorized(b) /\ Full
    <3>1. req'[r] = [req[r] EXCEPT !.pc = "done", !.reply = "RATE_LIMITED"]
      BY <1>1, <1>2, <2>4
    <3> QED
      BY <1>1, <1>2, <2>2, <2>4, <3>1 DEF Request
  <2>5. CASE Authorized(b) /\ ~Full
    <3>1. req'[r] = [req[r] EXCEPT !.pc = "body", !.body = b, !.admitted = now]
      BY <1>1, <1>2, <2>5
    <3> QED
      BY <1>1, <1>2, <2>1, <2>5, <3>1 DEF Request
  <2> QED
    BY <2>3, <2>4, <2>5
<1>4. req[r].admitted = None /\ req[r].reply = None /\ rows[r] = None /\ ~req[r].sent
  BY <1>1 DEF RequestSound
<1>5. /\ Pruned \in Seq(0 .. MaxTime) /\ Len(Pruned) \in Nat
      /\ \A i \in 1 .. Len(Pruned) : Pruned[i] > now - WINDOW /\ Pruned[i] <= now
      /\ \A i, j \in 1 .. Len(Pruned) : i < j => Pruned[i] <= Pruned[j]
  BY <1>1, PrunedOwned
<1>6. TypeOK'
  <2>1. timestamps' \in Seq(0 .. MaxTime)
    <3>1. timestamps \in Seq(0 .. MaxTime) /\ timestamps' \in {timestamps, Pruned, Append(Pruned, now)}
      BY <1>1, <1>2 DEF TypeOK
    <3>2. Append(Pruned, now) \in Seq(0 .. MaxTime)
      BY <1>1, <1>5, AppendProperties
    <3> QED
      BY <1>5, <3>1, <3>2
  <2>2. req' \in [Requests -> Request]
    BY <1>1, <1>2, <1>3
  <2> QED
    BY <1>1, <1>2, <2>1, <2>2 DEF TypeOK
<1>7. BooksSound'
  <2>1. ASSUME NEW q \in Requests, q # r PROVE RequestSound(q)'
    BY <1>1, <1>2, <1>3, <2>1, BooksFrame DEF BooksSound
  <2>2. RequestSound(r)'
    <3>1. CASE ~Authorized(b) \/ Full
      <4>1. PICK code \in {"UNAUTHORIZED", "RATE_LIMITED"} : req'[r].reply = code
        BY <1>3, <3>1
      <4>2. code \in Replies /\ code # "NODE_UNAVAILABLE" /\ code # "CREATED"
        BY DEF Replies, Refusals
      <4> QED
        BY <1>1, <1>2, <1>3, <1>4, <3>1, <4>1, <4>2, AnsweredSound
    <3>2. CASE Authorized(b) /\ ~Full
      <4>1. /\ req'[r].pc = "body" /\ req'[r].body = b /\ ~req'[r].sent /\ req'[r].reply = None
            /\ rows'[r] = None /\ created'[r] = None
        BY <1>1, <1>2, <1>3, <1>4, <3>2 DEF RequestSound
      <4> QED
        BY <4>1, Names DEF RequestSound, Refusals, Replies
    <3> QED
      BY <3>1, <3>2
  <2> QED
    BY <2>1, <2>2 DEF BooksSound
<1>8. LookupSound'
  BY <1>1, <1>2, <1>3, LookupFrame
<1>9. LimiterSound'
  <2>1. CASE ~Authorized(b)
    BY <1>1, <1>2, <1>3, <2>1, LimiterFrame
  <2>2. PICK f \in [1 .. Len(Pruned) -> Requests] :
          /\ \A i, j \in 1 .. Len(Pruned) : f[i] = f[j] => i = j
          /\ \A i \in 1 .. Len(Pruned) : req[f[i]].admitted = Pruned[i]
          /\ \A q \in Requests : req[q].admitted # None /\ req[q].admitted > now - WINDOW =>
                \E i \in 1 .. Len(Pruned) : f[i] = q
    BY <1>1, PrunedOwned
  <2>3. CASE Authorized(b) /\ Full
    <3>1. timestamps' = Pruned /\ \A q \in Requests : req'[q].admitted = req[q].admitted
      BY <1>2, <1>3, <2>3
    <3>2. f \in Owners'
      BY <1>2, <2>2, <3>1 DEF Owners
    <3>3. \A t : AdmittedIn(t)' = AdmittedIn(t)
      BY <3>1 DEF AdmittedIn
    <3>4. WindowNeverOverfull'
      BY <1>1, <1>2, <3>3 DEF LimiterSound, WindowNeverOverfull
    <3>5. \A i, j \in 1 .. Len(timestamps') : i < j => timestamps'[i] <= timestamps'[j]
      BY <1>5, <3>1
    <3>6. \A q \in Requests : req'[q].admitted # None => req'[q].admitted <= now'
      BY <1>1, <1>2, <3>1 DEF LimiterSound
    <3> QED
      BY <3>2, <3>4, <3>5, <3>6 DEF LimiterSound
  <2>4. CASE Authorized(b) /\ ~Full
    <3> DEFINE n == Len(Pruned)
               g == [i \in 1 .. n + 1 |-> IF i = n + 1 THEN r ELSE f[i]]
    <3>1. /\ n \in Nat /\ Len(timestamps') = n + 1 /\ timestamps'[n + 1] = now
          /\ \A i \in 1 .. n : timestamps'[i] = Pruned[i]
          /\ \A i \in 1 .. n + 1 : i = n + 1 \/ i \in 1 .. n
          /\ n < MAX_PER_WINDOW
      BY <1>1, <1>2, <1>5, <2>4, NumbersAssumption DEF Full
    <3>2. /\ \A q \in Requests \ {r} : req'[q].admitted = req[q].admitted
          /\ req'[r].admitted = now
      BY <1>3, <2>4
    <3>3. /\ g \in [1 .. n + 1 -> Requests] /\ g[n + 1] = r
          /\ \A i \in 1 .. n : g[i] = f[i] /\ f[i] # r /\ f[i] \in Requests
      <4>1. \A i \in 1 .. n : f[i] # r /\ f[i] \in Requests
        <5>1. ASSUME NEW i \in 1 .. n PROVE f[i] # r /\ f[i] \in Requests
          <6>1. Pruned[i] \in 0 .. MaxTime
            <7>1. i \in 1 .. Len(Pruned)
              BY DEF n
            <7> HIDE DEF n
            <7> QED
              BY <1>5, <7>1, ElementOfSeq
          <6>2. Pruned[i] # None
            BY <6>1, Names
          <6> QED
            BY <1>4, <2>2, <6>2 DEF n
        <5> QED
          BY <5>1
      <4>2. \A i \in 1 .. n + 1 : g[i] \in Requests
        BY <3>1, <4>1
      <4>3. \A i \in 1 .. n : i # n + 1 /\ i \in 1 .. n + 1
        BY <3>1
      <4> QED
        BY <3>1, <4>1, <4>2, <4>3
    <3> HIDE DEF g, n
    <3>4. g \in Owners'
      <4>1. ASSUME NEW i \in 1 .. n + 1, NEW j \in 1 .. n + 1, g[i] = g[j] PROVE i = j
        BY <2>2, <3>1, <3>3, <4>1 DEF n
      <4>2. ASSUME NEW i \in 1 .. n + 1 PROVE req'[g[i]].admitted = timestamps'[i]
        BY <2>2, <3>1, <3>2, <3>3 DEF n
      <4>3. ASSUME NEW q \in Requests, req'[q].admitted # None, req'[q].admitted > now - WINDOW
            PROVE  \E i \in 1 .. n + 1 : g[i] = q
        <5>1. CASE q = r
          <6>1. n + 1 \in 1 .. n + 1
            BY <3>1
          <6> QED
            BY <3>3, <5>1, <6>1
        <5>2. CASE q # r
          <6>1. PICK i \in 1 .. n : f[i] = q
            BY <2>2, <3>2, <4>3, <5>2 DEF n
          <6>2. i \in 1 .. n + 1 /\ g[i] = q
            BY <3>1, <3>3, <6>1
          <6> QED
            BY <6>2
        <5> QED
          BY <5>1, <5>2
      <4> QED
        BY <1>2, <3>1, <3>3, <4>1, <4>2, <4>3 DEF Owners
    <3>5. \A i, j \in 1 .. Len(timestamps') : i < j => timestamps'[i] <= timestamps'[j]
      <4>1. ASSUME NEW i \in 1 .. n + 1, NEW j \in 1 .. n + 1, i < j
            PROVE  timestamps'[i] <= timestamps'[j]
        <5>1. i \in 1 .. n /\ timestamps'[i] = Pruned[i] /\ Pruned[i] <= now
          BY <1>5, <3>1, <4>1 DEF n
        <5>2. CASE j = n + 1
          BY <3>1, <5>1, <5>2
        <5>3. CASE j # n + 1
          <6>1. j \in 1 .. n /\ timestamps'[j] = Pruned[j]
            BY <3>1, <5>3
          <6> QED
            BY <1>5, <4>1, <5>1, <6>1 DEF n
        <5> QED
          BY <5>2, <5>3
      <4> QED
        BY <3>1, <4>1
    <3>6. \A q \in Requests : req'[q].admitted # None => req'[q].admitted <= now'
      BY <1>1, <1>2, <3>2 DEF LimiterSound
    <3>7. WindowNeverOverfull'
      <4>1. ASSUME NEW t \in 0 .. now' PROVE Cardinality(AdmittedIn(t)') <= MAX_PER_WINDOW
        <5>1. CASE t = now
          <6>1. PICK A : A = AdmittedIn(now)
            OBVIOUS
          <6>2. IsFiniteSet(A) /\ Cardinality(A) = n
            BY <1>1, <6>1, WindowCounted DEF n
          <6>3. r \notin A
            BY <1>1, <1>4, <6>1, Names DEF AdmittedIn
          <6>4. now \in now - WINDOW + 1 .. now
            BY <1>1
          <6>5. AdmittedIn(t)' = A \cup {r}
            BY <1>1, <1>2, <3>2, <5>1, <6>1, <6>4 DEF AdmittedIn
          <6>6. Cardinality(A \cup {r}) = n + 1
            BY <6>2, <6>3, FS_AddElement
          <6> QED
            BY <3>1, <6>5, <6>6, NumbersAssumption
        <5>2. CASE t # now
          <6>1. t \in 0 .. now /\ now \notin t - WINDOW + 1 .. t
            BY <1>1, <1>2, <5>2
          <6>2. None \notin t - WINDOW + 1 .. t
            BY <1>1, <6>1, Names
          <6>3. AdmittedIn(t)' = AdmittedIn(t)
            BY <1>4, <3>2, <6>1, <6>2 DEF AdmittedIn
          <6> QED
            BY <1>1, <6>1, <6>3 DEF LimiterSound, WindowNeverOverfull
        <5> QED
          BY <5>1, <5>2
      <4> QED
        BY <4>1 DEF WindowNeverOverfull, AdmittedIn
    <3> QED
      BY <3>4, <3>5, <3>6, <3>7 DEF LimiterSound
  <2> QED
    BY <2>1, <2>3, <2>4
<1>10. ViewsTyped' /\ PagesSound'
  BY <1>6, PagesFrame
<1> QED
  BY <1>7, <1>8, <1>9, <1>10 DEF ViewsInv

\* A step of one request, which neither the limiter nor a page sees.
LEMMA RequestFrame ==
    ASSUME ViewsInv, NEW r \in Requests, UNCHANGED <<now, timestamps, views>>, TypeOK',
           \A q \in Requests \ {r} : UNCHANGED <<req[q], created[q], rows[q]>>,
           req'[r].admitted = req[r].admitted, RequestSound(r)', LookupSound'
    PROVE  ViewsInv'
<1>1. LimiterSound'
  BY LimiterFrame DEF ViewsInv
<1>2. \A q \in Requests \ {r} : RequestSound(q)'
  BY BooksFrame DEF ViewsInv, BooksSound
<1>3. BooksSound'
  BY <1>2 DEF BooksSound
<1> QED
  BY <1>1, <1>3, PagesFrame DEF ViewsInv

\* The request is answered; it waited for no lookup, or waits for none any more.
LEMMA AnswerKeeps ==
    ASSUME ViewsInv, NEW r \in Requests, NEW code \in Replies,
           req' = Answered({r}, code), UNCHANGED <<now, server, whitelist, created, budget, views>>,
           rows' \in [Requests -> [amount : Int, asset : {"CKB", "RUSD"}, expiresIn : Int] \cup {None}],
           \A q \in Requests \ {r} : rows'[q] = rows[q],
           rows'[r] = rows[r] \/ (created[r] # None /\ rows'[r] = Row(r)),
           code \in Refusals => ~req[r].sent,
           code = "NODE_UNAVAILABLE" => rows'[r] = None,
           code = "CREATED" => rows'[r] # None
    PROVE  ViewsInv'
<1>1. TypeOK /\ LookupSound /\ RequestSound(r) /\ UNCHANGED <<cached, lookup, edits, restarts, timestamps, page>>
  BY DEF ViewsInv, ViewsTyped, TypeOKViews, BooksSound, server, budget, views
<1>2. /\ req' \in [Requests -> Request] /\ \A q \in Requests \ {r} : req'[q] = req[q]
      /\ req'[r].pc = "done" /\ req'[r].reply = code /\ req'[r].body = req[r].body
      /\ req'[r].admitted = req[r].admitted /\ req'[r].script = req[r].script
      /\ req'[r].sent = req[r].sent
  BY <1>1, AnsweredIs
<1>3. TypeOK'
  BY <1>1, <1>2 DEF TypeOK
<1>4. RequestSound(r)'
  BY <1>1, <1>2, AnsweredSound
<1>5. LookupSound'
  BY <1>1, <1>2, LookupFrame
<1> QED
  BY <1>1, <1>2, <1>3, <1>4, <1>5, RequestFrame

\* The request goes on to new_invoice.
LEMMA ResolveKeeps ==
    ASSUME ViewsInv, NEW r \in Requests, NEW s \in Scripts \cup {None},
           req[r].pc \in {"body", "lookup"}, Accepted(r), s = None <=> req[r].body.asset = "CKB",
           req' = Resolved({r}, s),
           UNCHANGED <<now, server, whitelist, created, rows, budget, views>>
    PROVE  ViewsInv'
<1>1. TypeOK /\ LookupSound /\ RequestSound(r) /\ UNCHANGED <<cached, lookup, edits, restarts, timestamps, page>>
  BY DEF ViewsInv, ViewsTyped, TypeOKViews, BooksSound, server, budget, views
<1>2. /\ req' \in [Requests -> Request] /\ \A q \in Requests \ {r} : req'[q] = req[q]
      /\ req'[r].pc = "rpc" /\ req'[r].reply = req[r].reply /\ req'[r].body = req[r].body
      /\ req'[r].admitted = req[r].admitted /\ req'[r].script = s /\ req'[r].sent
  BY <1>1, ResolvedIs
<1>3. TypeOK'
  BY <1>1, <1>2 DEF TypeOK
<1>4. ~req[r].sent /\ req[r].reply = None /\ rows[r] = None
  BY <1>1, NoReplyYet DEF RequestSound
<1>5. RequestSound(r)'
  BY <1>1, <1>2, <1>4, ResolvedSound
<1>6. LookupSound'
  BY <1>1, <1>2, LookupFrame
<1> QED
  BY <1>1, <1>2, <1>3, <1>5, <1>6, RequestFrame

LEMMA RejectKeeps ==
    ASSUME ViewsInv, NEW r \in Requests, Reject(r), UNCHANGED views
    PROVE  ViewsInv'
<1>1. /\ TypeOK /\ RequestSound(r) /\ req[r].pc = "body"
      /\ UNCHANGED <<now, server, whitelist, created, rows, budget, views>>
  BY DEF ViewsInv, ViewsTyped, TypeOKViews, BooksSound, Reject
<1>2. PICK code : code = Invalid(req[r].body)
  OBVIOUS
<1>3. code \in {"VALIDATION_ERROR", "INVALID_AMOUNT", "UNSUPPORTED_ASSET"}
  BY <1>2, InvalidIs DEF Reject
<1>4. code \in Replies /\ code # "NODE_UNAVAILABLE" /\ code # "CREATED"
  BY <1>3 DEF Replies, Refusals
<1>5. ~req[r].sent /\ req' = Answered({r}, code)
  BY <1>1, <1>2 DEF RequestSound, Reject
<1>6. /\ rows' \in [Requests -> [amount : Int, asset : {"CKB", "RUSD"}, expiresIn : Int] \cup {None}]
      /\ \A q \in Requests : rows'[q] = rows[q]
  BY <1>1 DEF TypeOK
<1> QED
  BY <1>1, <1>4, <1>5, <1>6, AnswerKeeps

LEMMA ResolveCkbKeeps ==
    ASSUME ViewsInv, NEW r \in Requests, ResolveCkb(r), UNCHANGED views
    PROVE  ViewsInv'
<1>1. Accepted(r)
  BY DEF ViewsInv, BooksSound, RequestSound, ResolveCkb, Accepted
<1>2. PICK s : s = None
  OBVIOUS
<1> QED
  BY <1>1, <1>2, ResolveKeeps DEF ResolveCkb

\* An accepted body has a row, and with a script an invoice.
LEMMA AcceptedIs ==
    ASSUME TypeOK, NEW r \in Requests, Accepted(r)
    PROVE  /\ Invoice(r) \in [amount : Int, script : Scripts \cup {None}] /\ Invoice(r) # None
           /\ Row(r) \in [amount : Int, asset : {"CKB", "RUSD"}, expiresIn : Int] /\ Row(r) # None
           /\ 10 * Row(r).amount - req[r].body.amount \in -4 .. 5
           /\ Row(r).expiresIn \in 1 .. MAX_EXPIRES
<1>1. PICK a : a = req[r].body.amount
  OBVIOUS
<1>2. PICK e : e = req[r].body.expires
  OBVIOUS
<1>3. /\ a \in MIN_AMOUNT .. MAX_AMOUNT /\ e \in 1 .. MAX_EXPIRES
      /\ req[r].body.asset \in {"CKB", "RUSD"}
  BY <1>1, <1>2, InvalidIs DEF Accepted
<1>4. a \in Int /\ e \in Int
  BY <1>3, NumbersAssumption
<1>5. (a + 5) \div 10 \in Int /\ 10 * ((a + 5) \div 10) - a \in -4 .. 5
  BY <1>4
<1>6. req[r].script \in Scripts \cup {None}
  BY RequestIs
<1>7. Invoice(r) \in [amount : Int, script : Scripts \cup {None}]
  BY <1>1, <1>5, <1>6 DEF Invoice, ckbToShannon
<1>8. Row(r) \in [amount : Int, asset : {"CKB", "RUSD"}, expiresIn : Int]
  BY <1>1, <1>2, <1>3, <1>4, <1>5 DEF Row, ckbToShannon
<1>9. Invoice(r) # None /\ Row(r) # None
  BY <1>7, <1>8, NoneAssumption
<1> QED
  BY <1>1, <1>2, <1>3, <1>5, <1>7, <1>8, <1>9 DEF Row, ckbToShannon

LEMMA NodeCreatesKeeps ==
    ASSUME ViewsInv, NEW r \in Requests, NodeCreates(r), UNCHANGED views
    PROVE  ViewsInv'
<1>1. /\ TypeOK /\ LookupSound /\ RequestSound(r) /\ req[r].sent /\ created[r] = None /\ Accepted(r)
      /\ created' = [created EXCEPT ![r] = Invoice(r)]
      /\ UNCHANGED <<now, timestamps, cached, lookup, req, whitelist, rows, edits, restarts, page>>
  BY DEF ViewsInv, ViewsTyped, TypeOKViews, BooksSound, RequestSound, NodeCreates, server, budget, views
<1>2. PICK i \in [amount : Int, script : Scripts \cup {None}] : i = Invoice(r) /\ i # None
  BY <1>1, AcceptedIs
<1>3. /\ created' \in [Requests -> [amount : Int, script : Scripts \cup {None}] \cup {None}]
      /\ created'[r] = i /\ \A q \in Requests \ {r} : created'[q] = created[q]
  BY <1>1, <1>2 DEF TypeOK
<1>4. TypeOK'
  BY <1>1, <1>3 DEF TypeOK
<1>5. RequestSound(r)'
  <2>1. Invoice(r)' = i /\ Row(r)' = Row(r) /\ Accepted(r)'
    BY <1>1, <1>2 DEF Invoice, Row, Accepted
  <2> QED
    BY <1>1, <1>2, <1>3, <2>1 DEF RequestSound
<1>6. LookupSound'
  BY <1>1, LookupFrame
<1> QED
  BY <1>1, <1>3, <1>4, <1>5, <1>6, RequestFrame

LEMMA RpcAnswersKeeps ==
    ASSUME ViewsInv, NEW r \in Requests, RpcAnswers(r), UNCHANGED views
    PROVE  ViewsInv'
<1>1. /\ TypeOK /\ LookupSound /\ RequestSound(r) /\ req[r].pc = "rpc" /\ created[r] # None
      /\ req[r] \in Request /\ req' = [req EXCEPT ![r].pc = "insert"]
      /\ UNCHANGED <<now, timestamps, cached, lookup, created, whitelist, rows, edits, restarts, page>>
  BY RequestIs DEF ViewsInv, ViewsTyped, TypeOKViews, BooksSound, RpcAnswers, server, budget, views
<1>2. /\ req' \in [Requests -> Request] /\ \A q \in Requests \ {r} : req'[q] = req[q]
      /\ req'[r].pc = "insert" /\ req'[r].reply = req[r].reply /\ req'[r].body = req[r].body
      /\ req'[r].admitted = req[r].admitted /\ req'[r].script = req[r].script
      /\ req'[r].sent = req[r].sent
  <2>1. req'[r] = [req[r] EXCEPT !.pc = "insert"] /\ \A q \in Requests \ {r} : req'[q] = req[q]
    BY <1>1 DEF TypeOK
  <2>2. req'[r] \in Request
    BY <1>1, <2>1 DEF Request
  <2>3. req' \in [Requests -> Request]
    BY <1>1, <2>2 DEF TypeOK
  <2> QED
    BY <1>1, <2>1, <2>3 DEF Request
<1>3. TypeOK'
  BY <1>1, <1>2 DEF TypeOK
<1>4. RequestSound(r)'
  <2>1. Invoice(r)' = Invoice(r) /\ Row(r)' = Row(r) /\ (Accepted(r) => Accepted(r)')
    BY <1>2 DEF Invoice, Row, Accepted
  <2> QED
    BY <1>1, <1>2, <2>1 DEF RequestSound
<1>5. LookupSound'
  BY <1>1, <1>2, LookupFrame
<1> QED
  BY <1>1, <1>2, <1>3, <1>4, <1>5, RequestFrame

LEMMA RpcFailsKeeps ==
    ASSUME ViewsInv, NEW r \in Requests, RpcFails(r), UNCHANGED views
    PROVE  ViewsInv'
<1>1. /\ TypeOK /\ RequestSound(r) /\ req[r].pc = "rpc"
      /\ UNCHANGED <<now, server, whitelist, created, rows, budget, views>>
  BY DEF ViewsInv, ViewsTyped, TypeOKViews, BooksSound, RpcFails
<1>2. PICK code \in {"NODE_UNAVAILABLE", "INTERNAL_ERROR"} : req' = Answered({r}, code)
  BY DEF RpcFails
<1>3. code \in Replies /\ code \notin Refusals /\ code # "CREATED"
  BY DEF Replies, Refusals
<1>4. rows[r] = None
  BY <1>1, NoReplyYet
<1>5. /\ rows' \in [Requests -> [amount : Int, asset : {"CKB", "RUSD"}, expiresIn : Int] \cup {None}]
      /\ \A q \in Requests : rows'[q] = rows[q]
  BY <1>1 DEF TypeOK
<1> QED
  BY <1>1, <1>2, <1>3, <1>4, <1>5, AnswerKeeps

LEMMA InsertKeeps ==
    ASSUME ViewsInv, NEW r \in Requests, Insert(r) \/ InsertFails(r), UNCHANGED views
    PROVE  ViewsInv'
<1>1. /\ TypeOK /\ RequestSound(r) /\ req[r].pc = "insert" /\ created[r] # None /\ Accepted(r)
      /\ UNCHANGED <<now, server, whitelist, created, budget, views>>
  BY DEF ViewsInv, ViewsTyped, TypeOKViews, BooksSound, RequestSound, Insert, InsertFails
<1>2. PICK w \in [amount : Int, asset : {"CKB", "RUSD"}, expiresIn : Int] : w = Row(r) /\ w # None
  BY <1>1, AcceptedIs
<1>3. PICK code \in {"CREATED", "INTERNAL_ERROR"} :
        /\ req' = Answered({r}, code) /\ rows' \in {rows, [rows EXCEPT ![r] = w]}
        /\ code = "CREATED" => rows' = [rows EXCEPT ![r] = w]
  BY <1>2 DEF Insert, InsertFails
<1>4. code \in Replies /\ code \notin Refusals /\ code # "NODE_UNAVAILABLE"
  BY DEF Replies, Refusals
<1>5. /\ rows' \in [Requests -> [amount : Int, asset : {"CKB", "RUSD"}, expiresIn : Int] \cup {None}]
      /\ \A q \in Requests \ {r} : rows'[q] = rows[q]
      /\ rows'[r] = rows[r] \/ rows'[r] = w
      /\ code = "CREATED" => rows'[r] = w
  BY <1>1, <1>2, <1>3 DEF TypeOK
<1> QED
  BY <1>1, <1>2, <1>3, <1>4, <1>5, AnswerKeeps

-----------------------------------------------------------------------------
(* The steps of the shared lookup                                          *)

\* Whoever waits, waits for the lookup in the cache.
LEMMA WaitersWaitForCached ==
    ASSUME LookupSound
    PROVE  /\ \A r \in Requests : req[r].pc = "lookup" => req[r].on = cached
           /\ \A p \in Pages : page[p].pc = "lookup" => page[p].on = cached
           /\ \A r \in Requests : req[r].pc = "lookup" => cached # None /\ InFlight(cached)
           /\ \A p \in Pages : page[p].pc = "lookup" => cached # None /\ InFlight(cached)
BY Names DEF LookupSound, NobodyLeftWaiting, NoPageLeftWaiting

\* A call of node_info is started for a loader, and nothing else is in flight.
LEMMA LookupStarts ==
    ASSUME TypeOK, LookupSound, NEW l \in Loaders, cached = None,
           lookup' = [lookup EXCEPT ![l].state = "asked"]
    PROVE  /\ lookup' \in [Loaders -> Lookup] /\ InFlight(l)'
           /\ \A k \in Loaders : k # l => lookup'[k] = lookup[k] /\ ~InFlight(k)'
           /\ \A k \in Loaders : ~(lookup'[k].state = "kept" /\ lookup'[k].script # None)
<1>1. lookup'[l] = [lookup[l] EXCEPT !.state = "asked"] /\ \A k \in Loaders : k # l => lookup'[k] = lookup[k]
  BY DEF TypeOK
<1>2. lookup[l] \in Lookup
  BY LookupIs
<1>3. lookup'[l] \in Lookup /\ lookup'[l].state = "asked"
  BY <1>1, <1>2 DEF Lookup
<1>4. lookup' \in [Loaders -> Lookup]
  BY <1>3 DEF TypeOK
<1>5. \A k \in Loaders : ~InFlight(k) /\ ~(lookup[k].state = "kept" /\ lookup[k].script # None)
  BY Names DEF LookupSound
<1> QED
  BY <1>1, <1>3, <1>4, <1>5 DEF InFlight

LEMMA LoadUdtScriptsKeeps ==
    ASSUME ViewsInv, NEW r \in Requests, LoadUdtScripts(r), UNCHANGED views
    PROVE  ViewsInv'
<1>1. /\ TypeOK /\ LookupSound /\ RequestSound(r) /\ req[r].pc = "body" /\ Accepted(r)
      /\ req[r].body.asset = "RUSD" /\ req[r] \in Request
      /\ UNCHANGED <<now, timestamps, whitelist, created, rows, edits, restarts, budget, page>>
  BY RequestIs DEF ViewsInv, ViewsTyped, TypeOKViews, BooksSound, RequestSound, LoadUdtScripts, Accepted, budget, views
<1>2. cached \in Loaders \cup {None} /\ None \notin Loaders /\ r \in Loaders
  BY <1>1, Names DEF TypeOK
<1>3. ASSUME NEW l \in Loaders, InFlight(l)', cached' = l,
             req' = [req EXCEPT ![r].pc = "lookup", ![r].on = l],
             lookup' \in [Loaders -> Lookup],
             \A k \in Loaders : k # l => ~InFlight(k)',
             \A k \in Loaders : k # l => ~(lookup'[k].state = "kept" /\ lookup'[k].script # None),
             cached # None => cached = l
      PROVE  ViewsInv'
  <2>1. req'[r] = [req[r] EXCEPT !.pc = "lookup", !.on = l] /\ \A q \in Requests \ {r} : req'[q] = req[q]
    BY <1>1, <1>3 DEF TypeOK
  <2>2. /\ req'[r] \in Request /\ req'[r].pc = "lookup" /\ req'[r].on = l
        /\ req'[r].body = req[r].body /\ req'[r].reply = req[r].reply /\ req'[r].sent = req[r].sent
        /\ req'[r].admitted = req[r].admitted
    BY <1>1, <2>1 DEF Request, Loaders
  <2>3. req' \in [Requests -> Request]
    BY <1>1, <1>3, <2>2 DEF TypeOK
  <2>4. TypeOK'
    BY <1>1, <1>3, <2>3 DEF TypeOK
  <2>5. RequestSound(r)'
    <3>1. ~req[r].sent /\ req[r].reply = None /\ rows[r] = None /\ created[r] = None
      BY <1>1, NoReplyYet DEF RequestSound
    <3>2. Accepted(r)'
      BY <1>1, <2>2 DEF Accepted
    <3> QED
      BY <1>1, <2>2, <3>1, <3>2, Names DEF RequestSound, Accepted
  <2>6. LookupSound'
    <3>1. \A q \in Requests : req'[q].pc = "lookup" => req'[q].on = l
      <4>1. ASSUME NEW q \in Requests \ {r}, req[q].pc = "lookup" PROVE req[q].on = l
        BY <1>1, <1>3, <4>1, WaitersWaitForCached
      <4> QED
        BY <2>1, <2>2, <4>1
    <3>2. \A q \in Pages : page'[q].pc = "lookup" =>
            page'[q].on = l /\ HasUdtChannel(page'[q].list)
      <4>1. \A q \in Pages : page[q].pc = "lookup" =>
              page[q].on = l /\ HasUdtChannel(page[q].list)
        BY <1>1, <1>3, WaitersWaitForCached DEF LookupSound, NoPageLeftWaiting
      <4> QED
        BY <1>1, <4>1
    <3>3. NobodyLeftWaiting' /\ NoPageLeftWaiting' /\ NoFailureCached'
      BY <1>3, <3>1, <3>2 DEF NobodyLeftWaiting, NoPageLeftWaiting, NoFailureCached, InFlight
    <3>4. ~(lookup'[l].state = "kept")
      BY <1>3 DEF InFlight
    <3> QED
      BY <1>3, <3>1, <3>2, <3>3, <3>4 DEF LookupSound, InFlight
  <2> QED
    BY <1>1, <2>1, <2>2, <2>4, <2>5, <2>6, RequestFrame
<1>4. CASE /\ cached = None /\ cached' = r /\ lookup' = [lookup EXCEPT ![r].state = "asked"]
           /\ req' = [req EXCEPT ![r].pc = "lookup", ![r].on = r]
  BY <1>1, <1>2, <1>3, <1>4, LookupStarts
<1>5. CASE /\ cached # None /\ InFlight(cached) /\ UNCHANGED <<cached, lookup>>
           /\ req' = [req EXCEPT ![r].pc = "lookup", ![r].on = cached]
  <2>1. PICK l \in Loaders : l = cached
    BY <1>2, <1>5
  <2>2. /\ InFlight(l)' /\ \A k \in Loaders : k # l => ~InFlight(k)'
        /\ \A k \in Loaders : k # l => ~(lookup'[k].state = "kept" /\ lookup'[k].script # None)
    BY <1>1, <1>5, <2>1 DEF LookupSound, InFlight
  <2> QED
    BY <1>1, <1>3, <1>5, <2>1, <2>2 DEF TypeOK
<1>6. CASE /\ cached # None /\ lookup[cached].state = "kept" /\ lookup[cached].script # None
           /\ req' = Resolved({r}, lookup[cached].script) /\ UNCHANGED <<cached, lookup>>
  <2>1. PICK s \in Scripts : s = lookup[cached].script
    BY <1>1, <1>2, <1>6, LookupIs
  <2> QED
    BY <1>1, <1>6, <2>1, ResolveKeeps, Names DEF server
<1>7. CASE /\ cached # None /\ lookup[cached].state = "kept" /\ lookup[cached].script = None
           /\ req' = Answered({r}, "ASSET_NOT_CONFIGURED") /\ cached' = None /\ UNCHANGED lookup
  <2>1. PICK code \in Replies : code = "ASSET_NOT_CONFIGURED" /\ code \in Refusals
    BY DEF Replies, Refusals
  <2>2. /\ req' \in [Requests -> Request] /\ \A q \in Requests \ {r} : req'[q] = req[q]
        /\ req'[r].pc = "done" /\ req'[r].reply = code /\ req'[r].body = req[r].body
        /\ req'[r].admitted = req[r].admitted /\ req'[r].script = req[r].script
        /\ req'[r].sent = req[r].sent
    BY <1>1, <1>7, <2>1, AnsweredIs
  <2>3. TypeOK'
    BY <1>1, <1>7, <2>2 DEF TypeOK
  <2>4. RequestSound(r)'
    <3>1. ~req[r].sent /\ rows[r] = None
      BY <1>1, NoReplyYet DEF RequestSound
    <3> QED
      BY <1>1, <2>1, <2>2, <3>1, AnsweredSound
  <2>5. LookupSound'
    <3>1. ~InFlight(cached)
      BY <1>7 DEF InFlight
    <3>2. \A l \in Loaders : ~InFlight(l)
      BY <1>1, <3>1 DEF LookupSound
    <3>3. \A l \in Loaders : ~(lookup[l].state = "kept" /\ lookup[l].script # None)
      BY <1>1, <1>7 DEF LookupSound
    <3>4. \A q \in Requests : req'[q].pc # "lookup"
      BY <1>1, <2>2, <3>1, WaitersWaitForCached
    <3>5. \A q \in Pages : page'[q].pc # "lookup"
      BY <1>1, <3>1, WaitersWaitForCached
    <3>6. NobodyLeftWaiting' /\ NoPageLeftWaiting' /\ NoFailureCached'
      BY <1>7, <3>4, <3>5 DEF NobodyLeftWaiting, NoPageLeftWaiting, NoFailureCached
    <3> QED
      BY <1>7, <3>2, <3>3, <3>4, <3>5, <3>6 DEF LookupSound, InFlight
  <2> QED
    BY <1>1, <2>2, <2>3, <2>4, <2>5, RequestFrame
<1> QED
  BY <1>4, <1>5, <1>6, <1>7 DEF LoadUdtScripts

LEMMA NodeAnswersKeeps ==
    ASSUME ViewsInv, NEW l \in Loaders, NodeAnswers(l), UNCHANGED views
    PROVE  ViewsInv'
<1>1. /\ TypeOK /\ LookupSound /\ BooksSound /\ LimiterSound /\ lookup[l].state = "asked" /\ lookup[l] \in Lookup
      /\ lookup' = [lookup EXCEPT ![l].state = "answered", ![l].script = whitelist]
      /\ UNCHANGED <<now, timestamps, cached, req, whitelist, created, rows, edits, restarts, page>>
  BY LookupIs DEF ViewsInv, ViewsTyped, TypeOKViews, NodeAnswers, budget, views
<1>2. /\ lookup' \in [Loaders -> Lookup] /\ lookup'[l].state = "answered"
      /\ \A k \in Loaders : k # l => lookup'[k] = lookup[k]
  <2>1. /\ lookup'[l] = [lookup[l] EXCEPT !.state = "answered", !.script = whitelist]
        /\ \A k \in Loaders : k # l => lookup'[k] = lookup[k]
    BY <1>1 DEF TypeOK
  <2>2. lookup'[l] \in Lookup /\ lookup'[l].state = "answered"
    BY <1>1, <2>1 DEF TypeOK, Lookup
  <2> QED
    BY <1>1, <2>1, <2>2 DEF TypeOK
<1>3. TypeOK'
  BY <1>1, <1>2 DEF TypeOK
<1>4. LookupSound'
  <2>1. \A k \in Loaders : InFlight(k)' <=> InFlight(k)
    BY <1>1, <1>2 DEF InFlight
  <2>2. \A k \in Loaders : lookup'[k].state = "kept" /\ lookup'[k].script # None =>
          lookup[k].state = "kept" /\ lookup[k].script # None
    BY <1>2
  <2>3. \A k \in Loaders : lookup[k].state = "kept" => lookup'[k].state = "kept"
    BY <1>1, <1>2
  <2>4. NoFailureCached'
    <3>1. cached \in Loaders \cup {None} /\ (cached # None => InFlight(cached) \/ lookup[cached].state = "kept")
      BY <1>1 DEF TypeOK, LookupSound, NoFailureCached
    <3>2. PICK c : c = cached
      OBVIOUS
    <3>3. c # None => InFlight(c)' \/ lookup'[c].state = "kept"
      BY <2>1, <2>3, <3>1, <3>2
    <3> QED
      BY <1>1, <3>2, <3>3 DEF NoFailureCached, InFlight
  <2>5. NobodyLeftWaiting'
    BY <1>1, <2>1 DEF LookupSound, NobodyLeftWaiting, InFlight
  <2>6. NoPageLeftWaiting'
    <3>1. \A p \in Pages : page[p].pc = "lookup" => InFlight(page[p].on)' /\ HasUdtChannel(page[p].list)
      <4>1. ASSUME NEW p \in Pages, page[p].pc = "lookup", NEW o, o = page[p].on
            PROVE  InFlight(o)' /\ HasUdtChannel(page[p].list)
        BY <1>1, <2>1, <4>1 DEF LookupSound, NoPageLeftWaiting
      <4> QED
        BY <1>1, <4>1 DEF InFlight
    <3> QED
      BY <1>1, <3>1 DEF NoPageLeftWaiting, InFlight
  <2> QED
    BY <1>1, <2>1, <2>2, <2>4, <2>5, <2>6 DEF LookupSound
<1>5. BooksSound'
  BY <1>1, BooksFrame DEF BooksSound
<1>6. LimiterSound'
  BY <1>1, LimiterFrame
<1> QED
  BY <1>3, <1>4, <1>5, <1>6, PagesFrame DEF ViewsInv

\* What a load's record is made of, and what a load may take over from another.
LEMMA PageIs ==
    ASSUME ViewsTyped, NEW p \in Pages
    PROVE  /\ page[p] \in Loads /\ since[p] \subseteq Moments
           /\ page[p].on \in Loaders \cup {None} /\ page[p].rusd \in Scripts \cup {None}
BY DEF ViewsTyped, TypeOKViews, Loads

\* The pages that waited for the lookup go on, or fail; no other changes.
LEMMA ResumedIs ==
    ASSUME ViewsInv, TypeOK', NEW l \in Loaders, PagesResume(l)
    PROVE  /\ page' \in [Pages -> Loads]
           /\ \A p \in Pages : page'[p].pc = "lookup" =>
                page[p].pc = "lookup" /\ page[p].on # l /\ page'[p] = page[p]
           /\ \A p \in Pages : page'[p].pc \in {"lookup", "ready"} =>
                page[p].pc \in {"lookup", "ready"} /\ page'[p].list = page[p].list
           /\ \A p \in Pages : page'[p].kind = page[p].kind /\ page'[p].other = page[p].other
<1>1. page' = [p \in Pages |->
          IF page[p].pc # "lookup" \/ page[p].on # l THEN page[p]
          ELSE IF lookup'[l].state = "kept"
               THEN [page[p] EXCEPT !.pc = "ready", !.rusd = lookup[l].script, !.on = None]
               ELSE [page[p] EXCEPT !.pc = "error", !.on = None]]
  BY DEF PagesResume
<1>2. TypeOK /\ lookup[l].script \in Scripts \cup {None}
  BY LookupIs DEF ViewsInv, ViewsTyped, TypeOKViews
<1>3. ASSUME NEW p \in Pages
      PROVE  /\ page'[p] \in Loads
             /\ page'[p].pc = "lookup" => page[p].pc = "lookup" /\ page[p].on # l /\ page'[p] = page[p]
             /\ page'[p].pc \in {"lookup", "ready"} =>
                  page[p].pc \in {"lookup", "ready"} /\ page'[p].list = page[p].list
             /\ page'[p].kind = page[p].kind /\ page'[p].other = page[p].other
  <2>1. page[p] \in Loads
    BY PageIs DEF ViewsInv
  <2>2. CASE page[p].pc # "lookup" \/ page[p].on # l
    BY <1>1, <2>1, <2>2
  <2>3. CASE page[p].pc = "lookup" /\ page[p].on = l /\ lookup'[l].state = "kept"
    <3>1. page'[p] = [page[p] EXCEPT !.pc = "ready", !.rusd = lookup[l].script, !.on = None]
      BY <1>1, <2>3
    <3> QED
      BY <1>2, <2>1, <2>3, <3>1 DEF Loads
  <2>4. CASE page[p].pc = "lookup" /\ page[p].on = l /\ lookup'[l].state # "kept"
    <3>1. page'[p] = [page[p] EXCEPT !.pc = "error", !.on = None]
      BY <1>1, <2>4
    <3> QED
      BY <2>1, <2>4, <3>1 DEF Loads
  <2> QED
    BY <2>2, <2>3, <2>4
<1>4. page' \in [Pages -> Loads]
  BY <1>1, <1>3
<1> QED
  BY <1>3, <1>4

\* The lookup ends, for all that await it at once.
LEMMA LookupEndsKeeps ==
    ASSUME ViewsInv, NEW l \in Loaders, LookupEnds(l), PagesResume(l)
    PROVE  ViewsInv'
<1>1. /\ TypeOK /\ LookupSound /\ BooksSound /\ LimiterSound /\ InFlight(l) /\ lookup[l] \in Lookup
      /\ UNCHANGED <<now, timestamps, whitelist, created, rows, edits, restarts, channels, peers, since, moves>>
  BY LookupIs DEF ViewsInv, ViewsTyped, TypeOKViews, LookupEnds, LookupFinds, LookupMisses, LookupFails,
                  InFlight, PagesResume, budget, node
<1>2. cached = l /\ l # None /\ \A k \in Loaders : k # l => ~InFlight(k)
  BY <1>1, Names DEF LookupSound
<1>3. PICK st \in {"kept", "failed"} :
        /\ lookup' = [lookup EXCEPT ![l].state = st]
        /\ cached' \in {l, None} /\ (st = "failed" => cached' = None)
        /\ st = "kept" /\ lookup[l].script # None => cached' = l
  BY <1>2 DEF LookupEnds, LookupFinds, LookupMisses, LookupFails
<1>4. /\ lookup' \in [Loaders -> Lookup] /\ lookup'[l].state = st /\ lookup'[l].script = lookup[l].script
      /\ \A k \in Loaders : k # l => lookup'[k] = lookup[k]
  <2>1. lookup'[l] = [lookup[l] EXCEPT !.state = st] /\ \A k \in Loaders : k # l => lookup'[k] = lookup[k]
    BY <1>1, <1>3 DEF TypeOK
  <2>2. lookup'[l] \in Lookup /\ lookup'[l].state = st /\ lookup'[l].script = lookup[l].script
    BY <1>1, <2>1 DEF Lookup
  <2> QED
    BY <1>1, <1>3, <2>1, <2>2 DEF TypeOK
<1>5. \A q \in Requests : q \in Waiters(l) <=> req[q].pc = "lookup"
  BY <1>1, <1>2, WaitersWaitForCached DEF Waiters
<1>6. /\ req' \in [Requests -> Request]
      /\ \A q \in Requests \ Waiters(l) : req'[q] = req[q]
      /\ \A q \in Requests \cap Waiters(l) :
            RequestSound(q)' /\ req'[q].pc # "lookup" /\ req'[q].admitted = req[q].admitted
  <2>1. ASSUME NEW q \in Waiters(l)
        PROVE  /\ q \in Requests /\ RequestSound(q) /\ ~req[q].sent /\ req[q].reply = None /\ rows[q] = None
               /\ Accepted(q) /\ req[q].body.asset = "RUSD"
               /\ created'[q] = created[q] /\ rows'[q] = rows[q]
    <3>1. q \in Requests /\ req[q].pc = "lookup" /\ RequestSound(q)
      BY <1>1 DEF Waiters, BooksSound
    <3> QED
      BY <1>1, <3>1, NoReplyYet DEF RequestSound
  <2>2. ASSUME NEW code \in Replies, code # "CREATED",
               req' = Answered(Waiters(l), code)
        PROVE  /\ req' \in [Requests -> Request]
               /\ \A q \in Requests \ Waiters(l) : req'[q] = req[q]
               /\ \A q \in Requests \cap Waiters(l) :
                    RequestSound(q)' /\ req'[q].pc # "lookup" /\ req'[q].admitted = req[q].admitted
    <3> DEFINE W == Waiters(l)
    <3>1. req' = Answered(W, code)
      BY <2>2
    <3> HIDE DEF W
    <3>2. /\ req' \in [Requests -> Request]
          /\ \A q \in Requests \ W : req'[q] = req[q]
          /\ \A q \in Requests \cap W :
                /\ req'[q].pc = "done" /\ req'[q].reply = code
                /\ req'[q].body = req[q].body /\ req'[q].admitted = req[q].admitted
                /\ req'[q].script = req[q].script /\ req'[q].sent = req[q].sent
      BY <1>1, <3>1, AnsweredIs
    <3>3. ASSUME NEW q \in Requests \cap W PROVE RequestSound(q)'
      <4>1. /\ RequestSound(q) /\ ~req[q].sent /\ rows[q] = None
            /\ created'[q] = created[q] /\ rows'[q] = rows[q]
        BY <2>1, <3>3 DEF W
      <4>2. code # "CREATED"
        BY <2>2
      <4> QED
        BY <3>2, <3>3, <4>1, <4>2, AnsweredSound
    <3> QED
      BY <3>2, <3>3 DEF W
  <2>3. CASE LookupFinds(l)
    <3> DEFINE W == Waiters(l)
    <3>1. PICK s \in Scripts : s = lookup[l].script
      BY <1>1, <2>3 DEF LookupFinds, Lookup
    <3>2. req' = Resolved(W, s)
      BY <2>3, <3>1 DEF LookupFinds
    <3> HIDE DEF W
    <3>3. /\ req' \in [Requests -> Request]
          /\ \A q \in Requests \ W : req'[q] = req[q]
          /\ \A q \in Requests \cap W :
                /\ req'[q].pc = "rpc" /\ req'[q].reply = req[q].reply
                /\ req'[q].body = req[q].body /\ req'[q].admitted = req[q].admitted
                /\ req'[q].script = s /\ req'[q].sent
      BY <1>1, <3>2, ResolvedIs
    <3>4. ASSUME NEW q \in Requests \cap W PROVE RequestSound(q)'
      <4>1. /\ RequestSound(q) /\ ~req[q].sent /\ req[q].reply = None /\ rows[q] = None /\ Accepted(q)
            /\ req[q].body.asset = "RUSD" /\ created'[q] = created[q] /\ rows'[q] = rows[q]
        BY <2>1, <3>4 DEF W
      <4>2. s # None
        BY Names
      <4> QED
        BY <3>3, <3>4, <4>1, <4>2, ResolvedSound
    <3> QED
      BY <3>3, <3>4 DEF W
  <2>4. CASE LookupMisses(l)
    <3>1. PICK code \in Replies : code = "ASSET_NOT_CONFIGURED"
      BY DEF Replies, Refusals
    <3> QED
      BY <2>2, <2>4, <3>1 DEF LookupMisses
  <2>5. CASE LookupFails(l)
    <3>1. PICK code \in {"NODE_UNAVAILABLE", "INTERNAL_ERROR"} : req' = Answered(Waiters(l), code)
      BY <2>5 DEF LookupFails
    <3>2. code \in Replies
      BY DEF Replies
    <3> QED
      BY <2>2, <3>1, <3>2
  <2> QED
    BY <2>3, <2>4, <2>5 DEF LookupEnds
<1>7. TypeOK'
  BY <1>1, <1>3, <1>4, <1>6 DEF TypeOK
<1>8. BooksSound'
  <2>1. ASSUME NEW q \in Requests \ Waiters(l) PROVE RequestSound(q)'
    BY <1>1, <1>6, <2>1, BooksFrame DEF BooksSound
  <2> QED
    BY <1>6, <2>1 DEF BooksSound
<1>9. /\ page' \in [Pages -> Loads]
      /\ \A p \in Pages : page'[p].pc = "lookup" =>
           page[p].pc = "lookup" /\ page[p].on # l /\ page'[p] = page[p]
      /\ \A p \in Pages : page'[p].pc \in {"lookup", "ready"} =>
           page[p].pc \in {"lookup", "ready"} /\ page'[p].list = page[p].list
      /\ \A p \in Pages : page'[p].kind = page[p].kind /\ page'[p].other = page[p].other
  BY <1>7, ResumedIs
<1>10. LookupSound'
  <2>1. \A q \in Requests : req'[q].pc # "lookup"
    BY <1>5, <1>6
  <2>2. \A p \in Pages : page'[p].pc # "lookup"
    BY <1>1, <1>2, <1>9, WaitersWaitForCached
  <2>3. \A k \in Loaders : ~InFlight(k)'
    BY <1>2, <1>4 DEF InFlight
  <2>4. \A k \in Loaders : lookup'[k].state = "kept" /\ lookup'[k].script # None => cached' = k
    <3>1. ASSUME NEW k \in Loaders, k # l PROVE ~(lookup'[k].state = "kept" /\ lookup'[k].script # None)
      BY <1>1, <1>2, <1>4, <3>1 DEF LookupSound
    <3> QED
      BY <1>3, <1>4, <3>1
  <2>5. NobodyLeftWaiting' /\ NoPageLeftWaiting'
    BY <2>1, <2>2 DEF NobodyLeftWaiting, NoPageLeftWaiting
  <2>6. NoFailureCached'
    BY <1>2, <1>3, <1>4 DEF NoFailureCached
  <2> QED
    BY <2>1, <2>2, <2>3, <2>4, <2>5, <2>6 DEF LookupSound
<1>11. LimiterSound'
  BY <1>1, <1>6, LimiterFrame
<1>12. ViewsTyped'
  BY <1>1, <1>7, <1>9 DEF ViewsInv, ViewsTyped, TypeOKViews
<1>13. PagesSound'
  <2>1. ASSUME NEW p \in Pages PROVE PageSound(p)'
    <3>1. /\ PageSound(p) /\ since' = since
          /\ page'[p].kind = page[p].kind /\ page'[p].other = page[p].other
          /\ page'[p].pc \in {"lookup", "ready"} =>
               page[p].pc \in {"lookup", "ready"} /\ page'[p].list = page[p].list
      BY <1>1, <1>9 DEF ViewsInv, PagesSound
    <3> QED
      BY ONLY <3>1, PageStays
  <2> QED
    BY <2>1 DEF PagesSound
<1> QED
  BY <1>8, <1>10, <1>11, <1>12, <1>13 DEF ViewsInv

-----------------------------------------------------------------------------
(* The clock, the operator and a restart                                   *)

LEMMA TickKeeps ==
    ASSUME ViewsInv, Tick, UNCHANGED views
    PROVE  ViewsInv'
<1>1. /\ TypeOK /\ LookupSound /\ BooksSound /\ LimiterSound /\ now < MaxTime /\ now' = now + 1
      /\ UNCHANGED <<timestamps, cached, lookup, req, whitelist, created, rows, edits, restarts, page>>
  BY DEF ViewsInv, ViewsTyped, TypeOKViews, Tick, server, budget, views
<1>2. /\ now \in Nat /\ now \in 0 .. MaxTime /\ MaxTime \in Nat /\ WINDOW \in Nat \ {0} /\ MAX_PER_WINDOW \in Nat
  BY <1>1, NumbersAssumption DEF TypeOK
<1>3. TypeOK'
  <2>1. now' \in 0 .. MaxTime
    BY <1>1, <1>2
  <2> QED
    BY <1>1, <2>1 DEF TypeOK
<1>4. \A r \in Requests : req[r].admitted # None => req[r].admitted \in Nat /\ req[r].admitted <= now
  <2>1. \A r \in Requests : req[r].admitted # None => req[r].admitted \in 0 .. MaxTime
    BY <1>1, RequestIs
  <2> QED
    BY <1>1, <1>2, <2>1 DEF LimiterSound
<1>5. BooksSound'
  BY <1>1, BooksFrame DEF BooksSound
<1>6. LookupSound'
  BY <1>1, LookupFrame
<1>7. LimiterSound'
  <2>1. \A t : AdmittedIn(t)' = AdmittedIn(t)
    BY <1>1 DEF AdmittedIn
  <2>2. ASSUME NEW t \in 0 .. now' PROVE Cardinality(AdmittedIn(t)') <= MAX_PER_WINDOW
    <3>1. CASE t \in 0 .. now
      BY <1>1, <2>1, <3>1 DEF LimiterSound, WindowNeverOverfull
    <3>2. CASE t = now + 1
      <4>1. PICK A : A = AdmittedIn(now)
        OBVIOUS
      <4>2. IsFiniteSet(A) /\ Cardinality(A) <= MAX_PER_WINDOW
        <5>1. now \in 0 .. now
          BY <1>2
        <5> QED
          BY <1>1, <4>1, <5>1, WindowCounted DEF LimiterSound, WindowNeverOverfull
      <4>3. ASSUME NEW r \in AdmittedIn(t) PROVE r \in A
        <5>1. r \in Requests /\ req[r].admitted \in t - WINDOW + 1 .. t
          BY DEF AdmittedIn
        <5>2. req[r].admitted # None
          BY <1>2, <3>2, <5>1, Names
        <5>3. req[r].admitted \in now - WINDOW + 1 .. now
          BY <1>2, <1>4, <3>2, <5>1, <5>2
        <5> QED
          BY <4>1, <5>1, <5>3 DEF AdmittedIn
      <4>4. PICK B : B = AdmittedIn(t)
        OBVIOUS
      <4>5. B \subseteq A
        BY <4>3, <4>4
      <4>6. Cardinality(B) <= Cardinality(A) /\ Cardinality(B) \in Nat /\ Cardinality(A) \in Nat
        BY <4>2, <4>5, FS_Subset, FS_CardinalityType
      <4> QED
        BY <1>2, <2>1, <4>2, <4>4, <4>6
    <3> QED
      BY <1>1, <1>2, <3>1, <3>2
  <2>3. WindowNeverOverfull'
    BY <2>2 DEF WindowNeverOverfull
  <2>4. PICK owner \in Owners : TRUE
    BY <1>1 DEF LimiterSound
  <2>5. owner \in Owners'
    <3>1. \A r \in Requests : req[r].admitted # None /\ req[r].admitted > now' - WINDOW =>
            req[r].admitted > now - WINDOW
      BY <1>1, <1>2, <1>4
    <3> QED
      BY <1>1, <2>4, <3>1 DEF Owners
  <2>6. \A r \in Requests : req'[r].admitted # None => req'[r].admitted <= now'
    BY <1>1, <1>2, <1>4
  <2> QED
    BY <1>1, <2>3, <2>5, <2>6 DEF LimiterSound
<1> QED
  BY <1>3, <1>5, <1>6, <1>7, PagesFrame DEF ViewsInv

LEMMA EditKeeps ==
    ASSUME ViewsInv, EditWhitelist, UNCHANGED views
    PROVE  ViewsInv'
<1>1. /\ TypeOK /\ LookupSound /\ BooksSound /\ LimiterSound
      /\ edits < MaxEdits /\ edits' = edits + 1 /\ whitelist' \in Scripts \cup {None}
      /\ UNCHANGED <<now, timestamps, cached, lookup, req, created, rows, restarts, page>>
  BY DEF ViewsInv, ViewsTyped, TypeOKViews, EditWhitelist, server, views
<1>2. edits' \in 0 .. MaxEdits
  BY <1>1, NumbersAssumption DEF TypeOK
<1>3. TypeOK'
  BY <1>1, <1>2 DEF TypeOK
<1>4. BooksSound'
  BY <1>1, BooksFrame DEF BooksSound
<1> QED
  BY <1>1, <1>3, <1>4, LookupFrame, LimiterFrame, PagesFrame DEF ViewsInv

\* What the process knew is gone, and with it what waited for it; what the
\* node and the table have stays.
LEMMA RestartKeeps ==
    ASSUME ViewsInv, Restart, PagesLost
    PROVE  ViewsInv'
<1>1. /\ TypeOK /\ BooksSound /\ restarts < MaxRestarts /\ restarts' = restarts + 1
      /\ timestamps' = <<>> /\ cached' = None
      /\ lookup' = [l \in Loaders |-> [state |-> "none", script |-> None]]
      /\ req' = [r \in Requests |->
            IF req[r].pc \in {"unsent", "done"} THEN [req[r] EXCEPT !.admitted = None]
            ELSE [req[r] EXCEPT !.pc = "dropped", !.admitted = None]]
      /\ page' = [p \in Pages |->
            IF Loading(p) THEN [page[p] EXCEPT !.pc = "error", !.on = None] ELSE page[p]]
      /\ UNCHANGED <<now, whitelist, created, edits, channels, peers, since, moves>>
  BY DEF ViewsInv, ViewsTyped, TypeOKViews, Restart, PagesLost, node
<1>2. PICK S \in SUBSET {r \in Requests : req[r].pc = "insert"} :
        rows' = [r \in Requests |-> IF r \in S THEN Row(r) ELSE rows[r]]
  BY DEF Restart
<1>3. ASSUME NEW r \in Requests
      PROVE  /\ req'[r] \in Request /\ req'[r].admitted = None
             /\ req'[r].pc \in {"unsent", "done", "dropped"}
             /\ req'[r].pc \in {"unsent", "done"} => req'[r].pc = req[r].pc
             /\ req'[r].pc = "dropped" => req[r].pc \notin {"unsent", "done"}
             /\ req'[r].body = req[r].body /\ req'[r].script = req[r].script
             /\ req'[r].sent = req[r].sent /\ req'[r].reply = req[r].reply
  <2>1. req[r] \in Request
    BY <1>1, RequestIs
  <2>2. CASE req[r].pc \in {"unsent", "done"}
    <3>1. req'[r] = [req[r] EXCEPT !.admitted = None]
      BY <1>1, <2>2
    <3> QED
      BY <2>1, <2>2, <3>1 DEF Request
  <2>3. CASE req[r].pc \notin {"unsent", "done"}
    <3>1. req'[r] = [req[r] EXCEPT !.pc = "dropped", !.admitted = None]
      BY <1>1, <2>3
    <3> QED
      BY <2>1, <2>3, <3>1 DEF Request
  <2> QED
    BY <2>2, <2>3
<1>4. ASSUME NEW r \in Requests
      PROVE  /\ rows'[r] = rows[r] \/ (req[r].pc = "insert" /\ created[r] # None /\ rows'[r] = Row(r))
             /\ rows'[r] \in [amount : Int, asset : {"CKB", "RUSD"}, expiresIn : Int] \cup {None}
  <2>1. RequestSound(r)
    BY <1>1 DEF BooksSound
  <2>2. CASE r \in S
    <3>1. req[r].pc = "insert" /\ created[r] # None /\ Accepted(r)
      BY <2>1, <2>2 DEF RequestSound
    <3>2. Row(r) \in [amount : Int, asset : {"CKB", "RUSD"}, expiresIn : Int]
      BY <1>1, <3>1, AcceptedIs
    <3> QED
      BY <1>2, <2>2, <3>1, <3>2
  <2>3. CASE r \notin S
    BY <1>1, <1>2, <2>3 DEF TypeOK
  <2> QED
    BY <2>2, <2>3
<1>5. TypeOK'
  <2>1. req' \in [Requests -> Request]
    BY <1>1, <1>3
  <2>2. rows' \in [Requests -> [amount : Int, asset : {"CKB", "RUSD"}, expiresIn : Int] \cup {None}]
    BY <1>2, <1>4
  <2>3. lookup' \in [Loaders -> Lookup]
    BY <1>1 DEF Lookup
  <2>4. restarts' \in 0 .. MaxRestarts
    <3>1. restarts \in 0 .. MaxRestarts /\ restarts < MaxRestarts /\ restarts' = restarts + 1
      BY <1>1 DEF TypeOK
    <3> QED
      BY <3>1, NumbersAssumption
  <2>5. timestamps' \in Seq(0 .. MaxTime)
    <3>1. timestamps' = <<>>
      BY <1>1
    <3> QED
      BY <3>1
  <2> QED
    BY <1>1, <2>1, <2>2, <2>3, <2>4, <2>5 DEF TypeOK
<1>6. BooksSound'
  <2>1. ASSUME NEW r \in Requests PROVE RequestSound(r)'
    <3>1. RequestSound(r)
      BY <1>1 DEF BooksSound
    <3>2. Invoice(r)' = Invoice(r) /\ Row(r)' = Row(r) /\ (Accepted(r) => Accepted(r)') /\ created'[r] = created[r]
      BY <1>1, <1>3 DEF Invoice, Row, Accepted
    <3>3. rows'[r] # None => created[r] # None /\ rows'[r] = Row(r)
      BY <1>4, <3>1 DEF RequestSound
    <3>4. req[r].reply # None => rows'[r] = rows[r]
      BY <1>4, <3>1 DEF RequestSound
    <3>5. req[r].pc \in {"unsent", "body", "lookup", "rpc"} => rows'[r] = None
      BY <1>4, <3>1 DEF RequestSound
    <3>6. /\ req[r].reply = "NODE_UNAVAILABLE" => rows'[r] = None
          /\ req[r].reply = "CREATED" => rows'[r] # None
          /\ req[r].reply # None => req'[r].pc = "done"
      <4>1. req[r].reply # None => req[r].pc = "done"
        BY <3>1 DEF RequestSound
      <4>2. "NODE_UNAVAILABLE" # None /\ "CREATED" # None
        BY Names DEF Replies
      <4> QED
        BY <1>3, <3>1, <3>4, <4>1, <4>2 DEF RequestSound
    <3> QED
      BY <1>3, <3>1, <3>2, <3>3, <3>5, <3>6 DEF RequestSound
  <2> QED
    BY <2>1 DEF BooksSound
<1>7. ASSUME NEW p \in Pages
      PROVE  /\ page'[p] \in Loads /\ page'[p].pc # "lookup"
             /\ page'[p].pc = "ready" => page'[p] = page[p]
             /\ page'[p].kind = page[p].kind /\ page'[p].other = page[p].other
  <2>1. page[p] \in Loads
    BY PageIs DEF ViewsInv
  <2>2. CASE Loading(p)
    <3>1. page'[p] = [page[p] EXCEPT !.pc = "error", !.on = None]
      BY <1>1, <2>2
    <3> QED
      BY <2>1, <3>1 DEF Loads
  <2>3. CASE ~Loading(p)
    BY <1>1, <2>1, <2>3 DEF Loading
  <2> QED
    BY <2>2, <2>3
<1>8. LookupSound'
  <2>1. NobodyLeftWaiting' /\ NoPageLeftWaiting' /\ NoFailureCached'
    BY <1>1, <1>3, <1>7 DEF NobodyLeftWaiting, NoPageLeftWaiting, NoFailureCached
  <2> QED
    BY <1>1, <1>3, <1>7, <2>1 DEF LookupSound, InFlight
<1>9. LimiterSound'
  <2>1. \A t \in 0 .. now' : AdmittedIn(t)' = {}
    <3>1. ASSUME NEW t \in 0 .. now' PROVE None \notin t - WINDOW + 1 .. t
      <4>1. now' \in Nat /\ WINDOW \in Nat
        <5>1. now' = now /\ now \in 0 .. MaxTime
          BY <1>1 DEF TypeOK
        <5> QED
          BY <5>1, NumbersAssumption
      <4>2. t - WINDOW + 1 .. t \subseteq Int
        BY <4>1
      <4> QED
        BY <4>2, Names
    <3> QED
      BY <1>3, <3>1 DEF AdmittedIn
  <2>2. WindowNeverOverfull'
    <3>1. Cardinality({}) <= MAX_PER_WINDOW
      BY FS_EmptySet, NumbersAssumption
    <3> QED
      BY <2>1, <3>1 DEF WindowNeverOverfull
  <2>3. Len(timestamps') = 0 /\ 1 .. 0 = {}
    <3>1. timestamps' = <<>>
      BY <1>1
    <3> QED
      BY <3>1
  <2>4. [i \in 1 .. 0 |-> None] \in Owners'
    <3>1. [i \in 1 .. 0 |-> None] \in [1 .. Len(timestamps') -> Requests]
      BY <2>3
    <3> QED
      BY <1>3, <2>3, <3>1 DEF Owners
  <2> QED
    BY <1>3, <2>2, <2>3, <2>4 DEF LimiterSound
<1>10. ViewsTyped'
  <2>1. page' \in [Pages -> Loads]
    BY <1>1, <1>7
  <2> QED
    BY <1>1, <1>5, <2>1 DEF ViewsInv, ViewsTyped, TypeOKViews
<1>11. PagesSound'
  <2>1. ASSUME NEW p \in Pages PROVE PageSound(p)'
    <3>1. /\ since' = since /\ page'[p].kind = page[p].kind /\ page'[p].other = page[p].other
          /\ page'[p].pc \in {"lookup", "ready"} => page'[p] = page[p] /\ page[p].pc = "ready"
      BY <1>1, <1>7
    <3>2. PageSound(p)
      BY DEF ViewsInv, PagesSound
    <3>3. page'[p].pc \in {"lookup", "ready"} =>
             page[p].pc \in {"lookup", "ready"} /\ page'[p].list = page[p].list
      BY <3>1
    <3> QED
      BY ONLY <3>1, <3>2, <3>3, PageStays
  <2> QED
    BY <2>1 DEF PagesSound
<1> QED
  BY <1>6, <1>8, <1>9, <1>10, <1>11 DEF ViewsInv

-----------------------------------------------------------------------------
(* The steps of a page                                                     *)

LEMMA MomentIs ==
    ASSUME ViewsInv, NEW p \in Pages, NEW n \in since[p]
    PROVE  /\ n \in Moments /\ n.channels \in [Channels -> ChannelStates \cup {None}]
           /\ n.channels \in [Channels -> ChannelStates \cup {None}] \cup {None}
           /\ n.peers \in SUBSET Peers
           /\ Cardinality(Open(n.channels)) \in 0 .. Cardinality(Channels)
           /\ Cardinality(n.peers) \in 0 .. Cardinality(Peers)
<1>1. n \in Moments
  BY PageIs DEF ViewsInv
<1>2. n.channels \in [Channels -> ChannelStates \cup {None}] /\ n.peers \in SUBSET Peers
  BY <1>1 DEF Moments
<1>3. PICK o : o = Open(n.channels)
  OBVIOUS
<1>4. PICK q : q = n.peers
  OBVIOUS
<1>5. o \subseteq Channels /\ q \subseteq Peers
  BY <1>2, <1>3, <1>4 DEF Open
<1>6. /\ Cardinality(o) \in Nat /\ Cardinality(Channels) \in Nat /\ Cardinality(o) <= Cardinality(Channels)
      /\ Cardinality(q) \in Nat /\ Cardinality(Peers) \in Nat /\ Cardinality(q) <= Cardinality(Peers)
  BY <1>5, NodeAssumption, FS_Subset, FS_CardinalityType
<1>7. Cardinality(o) \in 0 .. Cardinality(Channels) /\ Cardinality(q) \in 0 .. Cardinality(Peers)
  BY <1>6
<1> QED
  BY <1>1, <1>2, <1>3, <1>4, <1>7

\* A step of one load, which the requests and the other loads do not see.
LEMMA PageFrame ==
    ASSUME ViewsInv, NEW p \in Pages, UNCHANGED <<vars, node, moves>>,
           NEW new \in Loads, page' = [page EXCEPT ![p] = new],
           NEW seen \in SUBSET Moments, since' = [since EXCEPT ![p] = seen],
           new.pc = "lookup" => page[p].pc = "lookup" /\ new.on = page[p].on /\ new.list = page[p].list,
           new.pc \in {"lookup", "ready"} => \E n \in seen : new.list = n.channels,
           new.kind = "info" /\ new.other # None => \E n \in seen : new.other = Counts(n),
           new.kind = "peers" /\ new.other # None => \E n \in seen : new.other = [peers |-> n.peers]
    PROVE  ViewsInv'
<1>1. /\ TypeOK /\ LookupSound /\ BooksSound /\ LimiterSound
      /\ UNCHANGED <<now, timestamps, cached, lookup, req, whitelist, created, rows, edits, restarts,
                     channels, peers, moves>>
  BY DEF ViewsInv, ViewsTyped, TypeOKViews, vars, node, server, budget
<1>2. /\ page' \in [Pages -> Loads] /\ page'[p] = new /\ \A q \in Pages \ {p} : page'[q] = page[q]
      /\ since' \in [Pages -> SUBSET Moments] /\ since'[p] = seen
      /\ \A q \in Pages \ {p} : since'[q] = since[q]
  BY DEF ViewsInv, ViewsTyped, TypeOKViews
<1>3. TypeOK'
  BY <1>1 DEF TypeOK
<1>4. ViewsTyped'
  BY <1>1, <1>2, <1>3 DEF ViewsInv, ViewsTyped, TypeOKViews
<1>5. BooksSound'
  BY <1>1, BooksFrame DEF BooksSound
<1>6. LimiterSound'
  BY <1>1, LimiterFrame
<1>7. LookupSound'
  BY <1>1, <1>2, LookupFrame
<1>8. PagesSound'
  <2>1. ASSUME NEW q \in Pages PROVE PageSound(q)'
    BY <1>2 DEF ViewsInv, PagesSound, PageSound, Counts, Open
  <2> QED
    BY <2>1 DEF PagesSound
<1> QED
  BY <1>4, <1>5, <1>6, <1>7, <1>8 DEF ViewsInv

LEMMA OpenPageKeeps ==
    ASSUME ViewsInv, NEW p \in Pages, NEW kind \in Kinds, OpenPage(p, kind)
    PROVE  ViewsInv'
<1>1. PICK other \in [ready : {TRUE}] \cup {None} :
        other = IF kind = "channels" THEN [ready |-> TRUE] ELSE None
  OBVIOUS
<1>2. PICK new : new = [NoLoad EXCEPT !.kind = kind, !.pc = "list", !.other = other]
  OBVIOUS
<1>3. new \in Loads /\ new.pc = "list" /\ (new.kind # "channels" => new.other = None)
  <2>1. NoLoad \in Loads
    BY DEF NoLoad, Loads
  <2> QED
    BY <1>1, <1>2, <2>1 DEF Loads
<1>4. page' = [page EXCEPT ![p] = new]
  BY <1>1, <1>2 DEF OpenPage
<1>5. PICK seen \in SUBSET Moments : seen = {Now}
  <2>1. Now \in Moments
    BY DEF ViewsInv, ViewsTyped, TypeOKViews, Now, Moments
  <2> QED
    BY <2>1
<1>6. since' = [since EXCEPT ![p] = seen] /\ UNCHANGED <<vars, node, moves>>
  BY <1>5 DEF OpenPage
<1> QED
  BY <1>3, <1>4, <1>6, PageFrame

\* A load that is answered keeps what it has seen.
LEMMA AnswerFrame ==
    ASSUME ViewsInv, NEW p \in Pages, UNCHANGED <<vars, node, since, moves>>,
           NEW new \in Loads, page' = [page EXCEPT ![p] = new],
           new.pc = "lookup" => page[p].pc = "lookup" /\ new.on = page[p].on /\ new.list = page[p].list,
           new.pc \in {"lookup", "ready"} => \E n \in since[p] : new.list = n.channels,
           new.kind = page[p].kind,
           new.other = page[p].other
             \/ /\ new.kind = "info" => \E n \in since[p] : new.other = Counts(n)
                /\ new.kind # "info" => \E n \in since[p] : new.other = [peers |-> n.peers]
    PROVE  ViewsInv'
<1>1. PICK seen \in SUBSET Moments : seen = since[p]
  BY PageIs DEF ViewsInv
<1>2. since' = [since EXCEPT ![p] = seen]
  BY <1>1 DEF ViewsInv, ViewsTyped
<1>3. /\ new.kind = "info" /\ new.other # None => \E n \in seen : new.other = Counts(n)
      /\ new.kind = "peers" /\ new.other # None => \E n \in seen : new.other = [peers |-> n.peers]
  BY <1>1 DEF ViewsInv, PagesSound, PageSound
<1> QED
  BY <1>1, <1>2, <1>3, PageFrame

LEMMA OtherAnswersKeeps ==
    ASSUME ViewsInv, NEW p \in Pages, OtherAnswers(p)
    PROVE  ViewsInv'
<1>1. PICK n \in since[p] :
        page' = [page EXCEPT ![p].other =
           IF page[p].kind = "info"
           THEN [channelCount |-> Cardinality(Open(n.channels)), peersCount |-> Cardinality(n.peers)]
           ELSE [peers |-> n.peers]]
  BY DEF OtherAnswers
<1>2. PICK cs : cs = Cardinality(Open(n.channels))
  OBVIOUS
<1>3. PICK ps : ps = Cardinality(n.peers)
  OBVIOUS
<1>4. PICK q : q = n.peers
  OBVIOUS
<1>5. cs \in 0 .. Cardinality(Channels) /\ ps \in 0 .. Cardinality(Peers) /\ q \in SUBSET Peers
  BY <1>2, <1>3, <1>4, MomentIs
<1>6. PICK o : o = IF page[p].kind = "info" THEN [channelCount |-> cs, peersCount |-> ps]
                   ELSE [peers |-> q]
  OBVIOUS
<1>7. o \in [peers : SUBSET Peers]
            \cup [channelCount : 0 .. Cardinality(Channels), peersCount : 0 .. Cardinality(Peers)]
  BY <1>5, <1>6
<1>8. PICK new : new = [page[p] EXCEPT !.other = o]
  OBVIOUS
<1>9. /\ new \in Loads /\ new.pc = page[p].pc /\ new.on = page[p].on /\ new.list = page[p].list
      /\ new.kind = page[p].kind /\ (new.kind = "info" => new.other = Counts(n))
      /\ new.kind # "info" => new.other = [peers |-> n.peers]
  <2>1. page[p] \in Loads
    BY PageIs DEF ViewsInv
  <2>2. /\ page[p].kind = "info" => o = Counts(n)
        /\ page[p].kind # "info" => o = [peers |-> n.peers]
    BY <1>2, <1>3, <1>4, <1>6 DEF Counts
  <2> QED
    BY <1>7, <1>8, <2>1, <2>2 DEF Loads
<1>10. page' = [page EXCEPT ![p] = new]
  BY <1>1, <1>2, <1>3, <1>4, <1>6, <1>8 DEF ViewsInv, ViewsTyped, TypeOKViews
<1>11. page[p].pc \in {"lookup", "ready"} => \E m \in since[p] : page[p].list = m.channels
  BY DEF ViewsInv, PagesSound, PageSound
<1>12. UNCHANGED <<vars, node, since, moves>>
  BY DEF OtherAnswers
<1> QED
  BY <1>9, <1>10, <1>11, <1>12, AnswerFrame

LEMMA ListAnswersKeeps ==
    ASSUME ViewsInv, NEW p \in Pages, ListAnswers(p)
    PROVE  ViewsInv'
<1>1. PICK n \in since[p] : page' = [page EXCEPT ![p].pc = "ready", ![p].list = n.channels]
  BY DEF ListAnswers
<1>2. PICK list \in [Channels -> ChannelStates \cup {None}] : list = n.channels
  BY MomentIs
<1>3. PICK new : new = [page[p] EXCEPT !.pc = "ready", !.list = list]
  OBVIOUS
<1>4. /\ new \in Loads /\ new.pc = "ready" /\ new.list = list
      /\ new.kind = page[p].kind /\ new.other = page[p].other
  <2>1. page[p] \in Loads
    BY PageIs DEF ViewsInv
  <2> QED
    BY <1>3, <2>1 DEF Loads
<1>5. page' = [page EXCEPT ![p] = new]
  BY <1>1, <1>2, <1>3 DEF ViewsInv, ViewsTyped, TypeOKViews
<1>6. UNCHANGED <<vars, node, since, moves>>
  BY DEF ListAnswers
<1> QED
  BY <1>2, <1>4, <1>5, <1>6, AnswerFrame

LEMMA PageRpcFailsKeeps ==
    ASSUME ViewsInv, NEW p \in Pages, PageRpcFails(p)
    PROVE  ViewsInv'
<1>1. PICK new : new = [page[p] EXCEPT !.pc = "error", !.on = None]
  OBVIOUS
<1>2. new \in Loads /\ new.pc = "error" /\ new.kind = page[p].kind /\ new.other = page[p].other
  <2>1. page[p] \in Loads
    BY PageIs DEF ViewsInv
  <2> QED
    BY <1>1, <2>1 DEF Loads
<1>3. page' = [page EXCEPT ![p] = new]
  BY <1>1 DEF PageRpcFails, ViewsInv, ViewsTyped, TypeOKViews
<1>4. UNCHANGED <<vars, node, since, moves>>
  BY DEF PageRpcFails
<1> QED
  BY <1>2, <1>3, <1>4, AnswerFrame

\* The page starts the lookup, joins it, or finds its result.
LEMMA ListNeedsNamesKeeps ==
    ASSUME ViewsInv, NEW p \in Pages, ListNeedsNames(p)
    PROVE  ViewsInv'
<1>1. /\ TypeOK /\ LookupSound /\ BooksSound /\ LimiterSound /\ p \in Loaders /\ page[p].pc = "list"
      /\ UNCHANGED <<now, timestamps, req, whitelist, created, rows, edits, restarts,
                     channels, peers, since, moves>>
  BY Names DEF ViewsInv, ViewsTyped, TypeOKViews, ListNeedsNames, node, budget
<1>2. PICK n \in since[p] :
        /\ HasUdtChannel(n.channels)
        /\ page' = [page EXCEPT ![p] = [@ EXCEPT
              !.list = n.channels,
              !.pc = IF cached # None /\ ~InFlight(cached) THEN "ready" ELSE "lookup",
              !.on = IF cached = None THEN p ELSE IF InFlight(cached) THEN cached ELSE None,
              !.rusd = IF cached # None /\ ~InFlight(cached) THEN lookup[cached].script ELSE None]]
  BY DEF ListNeedsNames
<1>3. PICK list \in [Channels -> ChannelStates \cup {None}] : list = n.channels
  BY MomentIs
<1>4. ASSUME NEW pc \in {"ready", "lookup"}, NEW on \in Loaders \cup {None},
             NEW rusd \in Scripts \cup {None},
             page' = [page EXCEPT ![p] = [@ EXCEPT !.list = list, !.pc = pc, !.on = on, !.rusd = rusd]]
      PROVE  \E new \in Loads : /\ page' = [page EXCEPT ![p] = new]
                                /\ new.pc = pc /\ new.list = list /\ new.on = on
                                /\ new.kind = page[p].kind /\ new.other = page[p].other
  <2>1. PICK new : new = [page[p] EXCEPT !.list = list, !.pc = pc, !.on = on, !.rusd = rusd]
    OBVIOUS
  <2>2. page[p] \in Loads
    BY PageIs DEF ViewsInv
  <2>3. /\ new \in Loads /\ new.pc = pc /\ new.list = list /\ new.on = on
        /\ new.kind = page[p].kind /\ new.other = page[p].other
    BY <2>1, <2>2 DEF Loads
  <2>4. page' = [page EXCEPT ![p] = new]
    BY <1>4, <2>1 DEF ViewsInv, ViewsTyped, TypeOKViews
  <2> QED
    BY <2>3, <2>4
<1>5. cached \in Loaders \cup {None} /\ None \notin Loaders
  BY <1>1, Names DEF TypeOK
<1>6. CASE cached # None /\ ~InFlight(cached)
  <2>1. PICK rusd \in Scripts \cup {None} : rusd = lookup[cached].script
    BY <1>1, <1>5, <1>6, LookupIs
  <2>2. page' = [page EXCEPT ![p] = [@ EXCEPT !.list = list, !.pc = "ready", !.on = None, !.rusd = rusd]]
    BY <1>2, <1>3, <1>6, <2>1
  <2>3. PICK new \in Loads : /\ page' = [page EXCEPT ![p] = new] /\ new.pc = "ready" /\ new.list = list
                             /\ new.kind = page[p].kind /\ new.other = page[p].other
    BY <1>4, <2>2
  <2>4. UNCHANGED <<vars, node, since, moves>>
    BY <1>1, <1>6 DEF ListNeedsNames, vars, server, budget, node
  <2> QED
    BY <1>3, <2>3, <2>4, AnswerFrame
<1>7. ASSUME NEW l \in Loaders, InFlight(l)', cached' = l, lookup' \in [Loaders -> Lookup],
             page' = [page EXCEPT ![p] = [@ EXCEPT !.list = list, !.pc = "lookup", !.on = l, !.rusd = None]],
             \A k \in Loaders : k # l => ~InFlight(k)',
             \A k \in Loaders : k # l => ~(lookup'[k].state = "kept" /\ lookup'[k].script # None),
             cached # None => cached = l
      PROVE  ViewsInv'
  <2>1. PICK new \in Loads : /\ page' = [page EXCEPT ![p] = new]
                             /\ new.pc = "lookup" /\ new.list = list /\ new.on = l
                             /\ new.kind = page[p].kind /\ new.other = page[p].other
    BY <1>4, <1>7
  <2>2. page' \in [Pages -> Loads] /\ page'[p] = new /\ \A q \in Pages \ {p} : page'[q] = page[q]
    BY <2>1 DEF ViewsInv, ViewsTyped, TypeOKViews
  <2>3. TypeOK'
    BY <1>1, <1>7 DEF TypeOK
  <2>4. ViewsTyped'
    BY <1>1, <2>2, <2>3 DEF ViewsInv, ViewsTyped, TypeOKViews
  <2>5. BooksSound'
    BY <1>1, BooksFrame DEF BooksSound
  <2>6. LimiterSound'
    BY <1>1, LimiterFrame
  <2>7. LookupSound'
    <3>1. \A r \in Requests : req'[r].pc = "lookup" => req'[r].on = l
      BY <1>1, <1>7, WaitersWaitForCached
    <3>2. \A q \in Pages : page'[q].pc = "lookup" => page'[q].on = l /\ HasUdtChannel(page'[q].list)
      <4>1. ASSUME NEW q \in Pages \ {p}, page[q].pc = "lookup"
            PROVE  page[q].on = l /\ HasUdtChannel(page[q].list)
        BY <1>1, <1>7, <4>1, WaitersWaitForCached DEF LookupSound, NoPageLeftWaiting
      <4> QED
        BY <1>2, <1>3, <2>1, <2>2, <4>1
    <3>3. NobodyLeftWaiting' /\ NoPageLeftWaiting' /\ NoFailureCached'
      BY <1>7, <3>1, <3>2 DEF NobodyLeftWaiting, NoPageLeftWaiting, NoFailureCached, InFlight
    <3>4. ~(lookup'[l].state = "kept")
      BY <1>7 DEF InFlight
    <3> QED
      BY <1>7, <3>1, <3>2, <3>3, <3>4 DEF LookupSound, InFlight
  <2>8. PagesSound'
    <3>1. ASSUME NEW q \in Pages PROVE PageSound(q)'
      <4>1. CASE q # p
        <5>1. PageSound(q) /\ page'[q] = page[q] /\ since' = since
          BY <1>1, <2>2, <4>1 DEF ViewsInv, PagesSound
        <5> QED
          BY ONLY <5>1, PageStays
      <4>2. CASE q = p
        <5>1. PageSound(p) /\ page'[p] = new /\ since' = since
          BY <1>1, <2>2 DEF ViewsInv, PagesSound
        <5> QED
          BY <1>3, <2>1, <4>2, <5>1 DEF PageSound, Counts, Open
      <4> QED
        BY <4>1, <4>2
    <3> QED
      BY <3>1 DEF PagesSound
  <2> QED
    BY <2>4, <2>5, <2>6, <2>7, <2>8 DEF ViewsInv
<1>8. CASE cached = None
  <2>1. /\ cached' = p /\ lookup' = [lookup EXCEPT ![p].state = "asked"]
        /\ page' = [page EXCEPT ![p] = [@ EXCEPT !.list = list, !.pc = "lookup", !.on = p, !.rusd = None]]
    BY <1>2, <1>3, <1>8 DEF ListNeedsNames
  <2> QED
    BY <1>1, <1>7, <1>8, <2>1, LookupStarts
<1>9. CASE cached # None /\ InFlight(cached)
  <2>1. PICK l \in Loaders : l = cached
    BY <1>5, <1>9
  <2>2. /\ cached' = cached /\ lookup' = lookup
        /\ page' = [page EXCEPT ![p] = [@ EXCEPT !.list = list, !.pc = "lookup", !.on = l, !.rusd = None]]
    BY <1>2, <1>3, <1>9, <2>1 DEF ListNeedsNames
  <2>3. /\ InFlight(l)' /\ \A k \in Loaders : k # l => ~InFlight(k)'
        /\ \A k \in Loaders : k # l => ~(lookup'[k].state = "kept" /\ lookup'[k].script # None)
    BY <1>1, <1>9, <2>1, <2>2 DEF LookupSound, InFlight
  <2> QED
    BY <1>1, <1>7, <1>9, <2>1, <2>2, <2>3 DEF TypeOK
<1> QED
  BY <1>6, <1>8, <1>9

-----------------------------------------------------------------------------
(* The node moves; nothing happens; the invariant                          *)

LEMMA NodeMovesKeeps ==
    ASSUME ViewsInv, NodeMoves
    PROVE  ViewsInv'
<1>1. /\ TypeOK /\ LookupSound /\ BooksSound /\ LimiterSound /\ moves < MaxMoves /\ moves' = moves + 1
      /\ UNCHANGED <<now, timestamps, cached, lookup, req, whitelist, created, rows, edits, restarts, page>>
      /\ since' = [p \in Pages |-> IF Loading(p) THEN since[p] \cup {Now'} ELSE since[p]]
  BY DEF ViewsInv, ViewsTyped, TypeOKViews, NodeMoves, vars, server, budget
<1>2. channels' \in [Channels -> ChannelStates \cup {None}] /\ peers' \in SUBSET Peers
  BY DEF ViewsInv, ViewsTyped, TypeOKViews, NodeMoves
<1>3. moves' \in 0 .. MaxMoves
  BY <1>1, NodeAssumption DEF ViewsInv, ViewsTyped, TypeOKViews
<1>4. Now' \in Moments
  BY <1>2 DEF Now, Moments
<1>5. ASSUME NEW p \in Pages PROVE since'[p] \in SUBSET Moments /\ since[p] \subseteq since'[p]
  BY <1>1, <1>4, PageIs DEF ViewsInv
<1>6. since' \in [Pages -> SUBSET Moments]
  BY <1>1, <1>5
<1>7. TypeOK'
  BY <1>1 DEF TypeOK
<1>8. ViewsTyped'
  BY <1>1, <1>2, <1>3, <1>6, <1>7 DEF ViewsInv, ViewsTyped, TypeOKViews
<1>9. BooksSound'
  BY <1>1, BooksFrame DEF BooksSound
<1>10. PagesSound'
  <2>1. ASSUME NEW p \in Pages PROVE PageSound(p)'
    BY <1>1, <1>5 DEF ViewsInv, PagesSound, PageSound, Counts, Open
  <2> QED
    BY <2>1 DEF PagesSound
<1> QED
  BY <1>1, <1>8, <1>9, <1>10, LimiterFrame, LookupFrame DEF ViewsInv

LEMMA ViewsInvInit ==
    ASSUME InitViews
    PROVE  ViewsInv
<1>1. /\ now = 0 /\ timestamps = <<>> /\ cached = None
      /\ lookup = [l \in Loaders |-> [state |-> "none", script |-> None]]
      /\ req = [r \in Requests |-> [pc |-> "unsent", body |-> None, admitted |-> None,
                                    on |-> None, script |-> None, sent |-> FALSE, reply |-> None]]
      /\ whitelist \in Scripts \cup {None}
      /\ created = [r \in Requests |-> None] /\ rows = [r \in Requests |-> None]
      /\ edits = 0 /\ restarts = 0
      /\ channels \in [Channels -> ChannelStates \cup {None}] /\ peers \in SUBSET Peers
      /\ page = [p \in Pages |-> NoLoad] /\ since = [p \in Pages |-> {}]
      /\ moves = 0
  BY DEF InitViews, Init
<1>2. TypeOK
  <2>1. 0 \in 0 .. MaxTime /\ 0 \in 0 .. MaxEdits /\ 0 \in 0 .. MaxRestarts
    BY NumbersAssumption
  <2>2. timestamps \in Seq(0 .. MaxTime)
    BY <1>1, EmptySeq
  <2>3. lookup \in [Loaders -> Lookup] /\ req \in [Requests -> Request]
    <3>1. [state |-> "none", script |-> None] \in Lookup
      BY DEF Lookup
    <3>2. [pc |-> "unsent", body |-> None, admitted |-> None, on |-> None, script |-> None,
           sent |-> FALSE, reply |-> None] \in Request
      <4> DEFINE B == (UNION {Bodies[r] : r \in Requests}) \cup {None}
                 A == (0 .. MaxTime) \cup {None}
                 L == Requests \cup Pages \cup {None}
                 S == Scripts \cup {None}
                 R == Replies \cup {None}
      <4>1. None \in B /\ None \in A /\ None \in L /\ None \in S /\ None \in R
        OBVIOUS
      <4>2. Request = [pc : {"unsent", "body", "lookup", "rpc", "insert", "done", "dropped"},
                       body : B, admitted : A, on : L, script : S, sent : BOOLEAN, reply : R]
        BY DEF Request
      <4> HIDE DEF B, A, L, S, R
      <4> QED
        BY <4>1, <4>2
    <3> QED
      BY <1>1, <3>1, <3>2
  <2> QED
    BY <1>1, <2>1, <2>2, <2>3 DEF TypeOK
<1>3. ViewsTyped
  <2>1. NoLoad \in Loads
    BY DEF NoLoad, Loads
  <2>2. 0 \in 0 .. MaxMoves
    BY NodeAssumption
  <2> QED
    BY <1>1, <1>2, <2>1, <2>2 DEF ViewsTyped, TypeOKViews
<1>4. BooksSound
  <2>1. ASSUME NEW r \in Requests PROVE RequestSound(r)
    <3>1. /\ req[r].pc = "unsent" /\ req[r].admitted = None /\ ~req[r].sent /\ req[r].reply = None
          /\ created[r] = None /\ rows[r] = None
      BY <1>1
    <3>2. None \notin Refusals /\ None # "NODE_UNAVAILABLE" /\ None # "CREATED"
      BY Names DEF Replies
    <3> QED
      BY <3>1, <3>2 DEF RequestSound
  <2> QED
    BY <2>1 DEF BooksSound
<1>5. LookupSound
  <2>1. \A l \in Loaders : lookup[l].state = "none"
    BY <1>1
  <2>2. (\A r \in Requests : req[r].pc = "unsent") /\ (\A p \in Pages : page[p].pc = "idle")
    BY <1>1 DEF NoLoad
  <2> QED
    BY <1>1, <2>1, <2>2 DEF LookupSound, InFlight, NoFailureCached, NobodyLeftWaiting, NoPageLeftWaiting
<1>6. LimiterSound
  <2>1. \A r \in Requests : req[r].admitted = None
    BY <1>1
  <2>2. Len(timestamps) = 0 /\ 1 .. 0 = {}
    BY <1>1
  <2>3. [i \in 1 .. 0 |-> None] \in Owners
    <3>1. [i \in 1 .. 0 |-> None] \in [1 .. Len(timestamps) -> Requests]
      BY <2>2
    <3> QED
      BY <2>1, <2>2, <3>1 DEF Owners
  <2>4. WindowNeverOverfull
    <3>1. ASSUME NEW t \in 0 .. now PROVE Cardinality(AdmittedIn(t)) <= MAX_PER_WINDOW
      <4>1. t - WINDOW + 1 .. t \subseteq Int
        BY <1>1, NumbersAssumption
      <4>2. AdmittedIn(t) = {}
        BY <2>1, <4>1, Names DEF AdmittedIn
      <4> QED
        BY <4>2, FS_EmptySet, NumbersAssumption
    <3> QED
      BY <3>1 DEF WindowNeverOverfull
  <2> QED
    BY <2>1, <2>2, <2>3, <2>4 DEF LimiterSound
<1>7. PagesSound
  BY <1>1 DEF PagesSound, PageSound, NoLoad
<1> QED
  BY <1>3, <1>4, <1>5, <1>6, <1>7 DEF ViewsInv

LEMMA ViewsInvNext ==
    ASSUME ViewsInv, [NextViews]_<<vars, views>>
    PROVE  ViewsInv'
<1>1. ASSUME NEW r \in Requests, RequestStep(r), UNCHANGED views PROVE ViewsInv'
  BY <1>1, ArriveKeeps, RejectKeeps, ResolveCkbKeeps, LoadUdtScriptsKeeps, NodeCreatesKeeps,
     RpcAnswersKeeps, RpcFailsKeeps, InsertKeeps DEF RequestStep
<1>2. ASSUME NEW p \in Pages,
             \/ \E kind \in Kinds : OpenPage(p, kind)
             \/ OtherAnswers(p) \/ ListAnswers(p) \/ ListNeedsNames(p) \/ PageRpcFails(p)
      PROVE  ViewsInv'
  BY <1>2, OpenPageKeeps, OtherAnswersKeeps, ListAnswersKeeps, ListNeedsNamesKeeps, PageRpcFailsKeeps
<1>3. CASE UNCHANGED <<vars, views>>
  <2>1. /\ TypeOK /\ LookupSound /\ BooksSound /\ LimiterSound /\ UNCHANGED views
        /\ UNCHANGED <<now, timestamps, cached, lookup, req, whitelist, created, rows, edits, restarts, page>>
    BY <1>3 DEF ViewsInv, ViewsTyped, TypeOKViews, vars, server, budget, views
  <2>2. TypeOK'
    BY <2>1 DEF TypeOK
  <2>3. BooksSound'
    BY <2>1, BooksFrame DEF BooksSound
  <2> QED
    BY <2>1, <2>2, <2>3, LimiterFrame, LookupFrame, PagesFrame DEF ViewsInv
<1> QED
  BY <1>1, <1>2, <1>3, NodeAnswersKeeps, LookupEndsKeeps, TickKeeps, EditKeeps, RestartKeeps,
     NodeMovesKeeps DEF NextViews

\* The inductive invariant of requests, limiter, lookup and pages.
THEOREM Invariants == SpecViews => []ViewsInv
<1>1. InitViews => ViewsInv
  BY ViewsInvInit
<1>2. ViewsInv /\ [NextViews]_<<vars, views>> => ViewsInv'
  BY ViewsInvNext
<1> QED
  BY <1>1, <1>2, PTL DEF SpecViews

-----------------------------------------------------------------------------
(* What the invariant says to the merchant                                 *)

\* Every variable of the requests, the limiter, the lookup and the pages has its type.
THEOREM TypeCorrect == SpecViews => []TypeOKViews
<1>1. ViewsInv => TypeOKViews
  BY DEF ViewsInv, ViewsTyped
<1> QED
  BY <1>1, Invariants, PTL

\* Reply, table and node tell one story about a request, through any failure
\* of the node or the table and any restart.
LEMMA BooksAgreeFromInv ==
    ASSUME ViewsInv
    PROVE  BooksAgree
<1>1. TypeOK /\ \A r \in Requests : RequestSound(r)
  BY DEF ViewsInv, ViewsTyped, TypeOKViews, BooksSound
<1>2. ReplyTellsEffect
  <2>1. ASSUME NEW r \in Requests
        PROVE  /\ req[r].reply \in Refusals => created[r] = None /\ rows[r] = None
               /\ req[r].reply = "NODE_UNAVAILABLE" => rows[r] = None
               /\ req[r].reply = "CREATED" => created[r] # None /\ rows[r] # None
    BY <1>1 DEF RequestSound
  <2> QED
    BY <2>1 DEF ReplyTellsEffect
<1>3. RowsAsOrdered
  <2>1. ASSUME NEW r \in Requests, rows[r] # None
        PROVE  /\ created[r] # None /\ created[r].amount = rows[r].amount
               /\ 10 * rows[r].amount - req[r].body.amount \in -4 .. 5
               /\ rows[r].asset = req[r].body.asset
               /\ (created[r].script = None) = (rows[r].asset = "CKB")
               /\ rows[r].expiresIn \in 1 .. MAX_EXPIRES
    <3>1. /\ created[r] # None /\ rows[r] = Row(r) /\ created[r] = Invoice(r)
          /\ Accepted(r) /\ (req[r].script = None <=> req[r].body.asset = "CKB")
      BY <1>1, <2>1 DEF RequestSound
    <3>2. /\ 10 * Row(r).amount - req[r].body.amount \in -4 .. 5
          /\ Row(r).expiresIn \in 1 .. MAX_EXPIRES
      BY <1>1, <3>1, AcceptedIs
    <3>3. /\ Row(r).asset = req[r].body.asset /\ Invoice(r).script = req[r].script
          /\ Invoice(r).amount = Row(r).amount
      BY DEF Row, Invoice
    <3> QED
      BY <3>1, <3>2, <3>3
  <2> QED
    BY <2>1 DEF RowsAsOrdered
<1> QED
  BY <1>2, <1>3 DEF BooksAgree

\* Reply, row and node agree about every POST request.
THEOREM BooksAgreeHolds == SpecViews => []BooksAgree
BY Invariants, BooksAgreeFromInv, PTL

\* Where the two replies come from that say something about the process.
LEMMA RefusalIs ==
    ASSUME ViewsInv, [NextViews]_<<vars, views>>, NEW r \in Requests, req[r].reply = None,
           req'[r].reply \in {"RATE_LIMITED", "ASSET_NOT_CONFIGURED"}
    PROVE  /\ req'[r].reply = "RATE_LIMITED" => Full
           /\ req'[r].reply = "ASSET_NOT_CONFIGURED" => cached' = None
<1>1. TypeOK /\ LookupSound /\ req' # req /\ req'[r].reply # req[r].reply
  BY Names DEF ViewsInv, ViewsTyped, TypeOKViews, Replies, Refusals
<1>2. ASSUME NEW S, NEW code \in Replies, req' = Answered(S, code)
      PROVE  r \in S /\ req'[r].reply = code
  BY <1>1, <1>2, AnsweredIs
<1>3. ASSUME NEW S, NEW s \in Scripts \cup {None}, req' = Resolved(S, s)
      PROVE  FALSE
  BY <1>1, <1>3, ResolvedIs
<1>4. {"NODE_UNAVAILABLE", "INTERNAL_ERROR", "CREATED", "ASSET_NOT_CONFIGURED", "VALIDATION_ERROR",
       "INVALID_AMOUNT", "UNSUPPORTED_ASSET"} \subseteq Replies
  BY DEF Replies, Refusals
<1>5. ASSUME NEW q \in Requests, RequestStep(q)
      PROVE  /\ req'[r].reply = "RATE_LIMITED" => Full
             /\ req'[r].reply = "ASSET_NOT_CONFIGURED" => cached' = None
  <2>1. req[q] \in Request
    BY <1>1, RequestIs
  <2>2. ASSUME NEW b \in Bodies[q], Arrive(q, b)
        PROVE  req'[r].reply # "ASSET_NOT_CONFIGURED" /\ (req'[r].reply = "RATE_LIMITED" => Full)
    <3>1. req' = [req EXCEPT ![q] =
              IF ~Authorized(b) THEN [@ EXCEPT !.pc = "done", !.reply = "UNAUTHORIZED"]
              ELSE IF Full THEN [@ EXCEPT !.pc = "done", !.reply = "RATE_LIMITED"]
              ELSE [@ EXCEPT !.pc = "body", !.body = b, !.admitted = now]]
      BY <2>2 DEF Arrive
    <3>2. q = r
      BY <1>1, <3>1 DEF TypeOK
    <3>3. CASE ~Authorized(b)
      <4>1. req'[r] = [req[r] EXCEPT !.pc = "done", !.reply = "UNAUTHORIZED"]
        BY <1>1, <3>1, <3>2, <3>3 DEF TypeOK
      <4> QED
        BY <2>1, <3>2, <4>1 DEF Request
    <3>4. CASE Authorized(b) /\ Full
      <4>1. req'[r] = [req[r] EXCEPT !.pc = "done", !.reply = "RATE_LIMITED"]
        BY <1>1, <3>1, <3>2, <3>4 DEF TypeOK
      <4> QED
        BY <2>1, <3>2, <3>4, <4>1 DEF Request
    <3>5. CASE Authorized(b) /\ ~Full
      <4>1. req'[r] = [req[r] EXCEPT !.pc = "body", !.body = b, !.admitted = now]
        BY <1>1, <3>1, <3>2, <3>5 DEF TypeOK
      <4> QED
        BY <1>1, <2>1, <3>2, <4>1 DEF Request
    <3> QED
      BY <3>3, <3>4, <3>5
  <2>3. CASE Reject(q)
    <3>1. PICK code : code = Invalid(req[q].body)
      OBVIOUS
    <3>2. code \in {"VALIDATION_ERROR", "INVALID_AMOUNT", "UNSUPPORTED_ASSET"} /\ req' = Answered({q}, code)
      BY <2>3, <3>1, InvalidIs DEF Reject
    <3> QED
      BY <1>2, <1>4, <3>2
  <2>4. CASE ResolveCkb(q)
    <3>1. PICK s \in Scripts \cup {None} : s = None
      OBVIOUS
    <3> QED
      BY <1>3, <2>4, <3>1 DEF ResolveCkb
  <2>5. CASE LoadUdtScripts(q)
    <3>1. ASSUME NEW l, req' = [req EXCEPT ![q].pc = "lookup", ![q].on = l] PROVE FALSE
      <4>1. q = r
        BY <1>1, <3>1 DEF TypeOK
      <4>2. req'[r] = [req[r] EXCEPT !.pc = "lookup", !.on = l]
        BY <1>1, <3>1, <4>1 DEF TypeOK
      <4> QED
        BY <1>1, <2>1, <4>1, <4>2 DEF Request
    <3>2. ASSUME cached # None, req' = Resolved({q}, lookup[cached].script) PROVE FALSE
      <4>1. PICK s : s = lookup[cached].script
        OBVIOUS
      <4>2. cached \in Loaders
        BY <1>1, <3>2 DEF TypeOK
      <4>3. s \in Scripts \cup {None}
        BY <1>1, <4>1, <4>2, LookupIs
      <4> QED
        BY <1>3, <3>2, <4>1, <4>3
    <3>3. CASE req' = Answered({q}, "ASSET_NOT_CONFIGURED") /\ cached' = None
      <4>1. PICK code \in Replies : code = "ASSET_NOT_CONFIGURED"
        BY <1>4
      <4> QED
        BY <1>2, <3>3, <4>1
    <3> QED
      BY <2>5, <3>1, <3>2, <3>3 DEF LoadUdtScripts
  <2>6. CASE NodeCreates(q)
    BY <1>1, <2>6 DEF NodeCreates
  <2>7. CASE RpcAnswers(q)
    <3>1. req' = [req EXCEPT ![q].pc = "insert"]
      BY <2>7 DEF RpcAnswers
    <3>2. q = r
      BY <1>1, <3>1 DEF TypeOK
    <3>3. req'[r] = [req[r] EXCEPT !.pc = "insert"]
      BY <1>1, <3>1, <3>2 DEF TypeOK
    <3> QED
      BY <1>1, <2>1, <3>2, <3>3 DEF Request
  <2>8. CASE RpcFails(q) \/ Insert(q) \/ InsertFails(q)
    <3>1. PICK code \in {"NODE_UNAVAILABLE", "INTERNAL_ERROR", "CREATED"} : req' = Answered({q}, code)
      BY <2>8 DEF RpcFails, Insert, InsertFails
    <3> QED
      BY <1>2, <1>4, <3>1
  <2> QED
    BY <1>5, <2>2, <2>3, <2>4, <2>5, <2>6, <2>7, <2>8 DEF RequestStep
<1>6. ASSUME NEW l \in Loaders, LookupEnds(l)
      PROVE  /\ req'[r].reply = "RATE_LIMITED" => Full
             /\ req'[r].reply = "ASSET_NOT_CONFIGURED" => cached' = None
  <2>1. CASE LookupFinds(l)
    <3>1. PICK s \in Scripts \cup {None} : s = lookup[l].script
      BY <1>1, LookupIs
    <3> QED
      BY <1>3, <2>1, <3>1 DEF LookupFinds
  <2>2. CASE LookupMisses(l)
    <3>1. PICK code \in Replies : code = "ASSET_NOT_CONFIGURED"
      BY <1>4
    <3>2. PICK W : W = Waiters(l)
      OBVIOUS
    <3>3. r \in W /\ req'[r].reply = code
      BY <1>2, <2>2, <3>1, <3>2 DEF LookupMisses
    <3> QED
      BY <2>2, <3>1, <3>2, <3>3 DEF LookupMisses
  <2>3. CASE LookupFails(l)
    <3>1. PICK code \in {"NODE_UNAVAILABLE", "INTERNAL_ERROR"} : req' = Answered(Waiters(l), code)
      BY <2>3 DEF LookupFails
    <3>2. PICK W : W = Waiters(l)
      OBVIOUS
    <3> QED
      BY <1>2, <1>4, <3>1, <3>2
  <2> QED
    BY <1>6, <2>1, <2>2, <2>3 DEF LookupEnds
<1>7. CASE Restart
  <2>1. req'[r] = IF req[r].pc \in {"unsent", "done"} THEN [req[r] EXCEPT !.admitted = None]
                  ELSE [req[r] EXCEPT !.pc = "dropped", !.admitted = None]
    BY <1>7 DEF Restart
  <2>2. req[r] \in Request
    BY <1>1, RequestIs
  <2> QED
    BY <1>1, <2>1, <2>2 DEF Request
<1>8. ASSUME UNCHANGED req PROVE FALSE
  BY <1>1, <1>8
<1>9. ASSUME NEW p \in Pages,
             \/ \E kind \in Kinds : OpenPage(p, kind)
             \/ OtherAnswers(p) \/ ListAnswers(p) \/ ListNeedsNames(p) \/ PageRpcFails(p)
      PROVE  UNCHANGED req
  BY <1>9 DEF OpenPage, OtherAnswers, ListAnswers, ListNeedsNames, PageRpcFails, vars
<1>10. (NodeMoves \/ Tick \/ EditWhitelist \/ UNCHANGED <<vars, views>>) => UNCHANGED req
  BY DEF NodeMoves, Tick, EditWhitelist, vars
<1>11. \A l \in Loaders : NodeAnswers(l) => UNCHANGED req
  BY DEF NodeAnswers
<1> QED
  BY <1>5, <1>6, <1>7, <1>8, <1>9, <1>10, <1>11 DEF NextViews

\* The limiter lets neither more through than it says nor less, whatever the
\* clock and the restarts did between two requests.
THEOREM LimiterExactHolds == SpecViews => LimiterExact
<1>1. ViewsInv /\ ViewsInv' /\ [NextViews]_<<vars, views>> =>
        [/\ WindowNeverOverfull'
         /\ \A r \in Requests : req'[r].reply = "RATE_LIMITED" /\ req[r].reply = None
              => Cardinality(AdmittedIn(now)) = MAX_PER_WINDOW]_vars
  <2> SUFFICES ASSUME ViewsInv, ViewsInv', [NextViews]_<<vars, views>>,
                      NEW r \in Requests, req'[r].reply = "RATE_LIMITED", req[r].reply = None
               PROVE  Cardinality(AdmittedIn(now)) = MAX_PER_WINDOW
    BY DEF ViewsInv, LimiterSound
  <2>1. Full
    BY RefusalIs
  <2>2. TypeOK /\ LimiterSound /\ now \in 0 .. now
    BY NumbersAssumption DEF ViewsInv, ViewsTyped, TypeOKViews, TypeOK
  <2>3. PICK n \in Nat : n = Len(Pruned)
    BY <2>2, PrunedOwned
  <2>4. Cardinality(AdmittedIn(now)) = n
    BY <2>2, <2>3, WindowCounted
  <2>5. n <= MAX_PER_WINDOW
    BY <2>2, <2>4 DEF LimiterSound, WindowNeverOverfull
  <2>6. n >= MAX_PER_WINDOW
    BY <2>1, <2>3 DEF Full
  <2> QED
    BY <2>4, <2>5, <2>6, NumbersAssumption
<1> QED
  BY <1>1, Invariants, PTL DEF SpecViews, LimiterExact

\* Whatever becomes of the node's answer, requests and pages share one call of
\* node_info, keep no failure, wait for nothing that has ended, forget a
\* whitelist without RUSD with the first refusal, and call one script RUSD.
THEOREM LookupSharedHolds == SpecViews => LookupSharedByAll
<1>1. ViewsInv => OneLookupInFlight /\ NoFailureCached /\ NobodyLeftWaiting
  BY DEF ViewsInv, LookupSound, OneLookupInFlight
<1>2. ViewsInv => NoPageLeftWaiting /\ OneWhitelist
  BY DEF ViewsInv, LookupSound, OneWhitelist
<1>3. ViewsInv /\ [NextViews]_<<vars, views>> =>
        [(\E r \in Requests :
            req[r].reply = None /\ req'[r].reply = "ASSET_NOT_CONFIGURED") => cached' = None]_vars
  BY RefusalIs
<1> QED
  BY <1>1, <1>2, <1>3, Invariants, PTL DEF SpecViews, LookupSharedByAll, LookupShared, NoRefusalRepeated

-----------------------------------------------------------------------------
(* The pages                                                               *)

\* The rows of a page that is shown, over the channels of one moment.
LEMMA RowsFromInv ==
    ASSUME ViewsInv, NEW p \in Pages, Shown(p)
    PROVE  \E n \in since[p] :
              /\ page[p].list = n.channels
              /\ {d.id : d \in Details(p)} = Open(n.channels)
              /\ \A d \in Details(p) :
                    /\ d.peer = n.channels[d.id].peer
                    /\ (d.asset = "CKB") = (n.channels[d.id].fundingUdt = None)
                    /\ d.status = DeriveChannelStatus(n.channels[d.id])
                    /\ d.asset = "RUSD" => n.channels[d.id].fundingUdt = page[p].rusd
              /\ \A c \in Open(n.channels) : \E d \in Details(p) : d.id = c
<1>1. PICK n \in since[p] : page[p].list = n.channels
  BY DEF ViewsInv, PagesSound, PageSound, Shown
<1>2. PICK list : list = page[p].list
  OBVIOUS
<1> DEFINE row(c) ==
      [id |-> c, peer |-> list[c].peer,
       asset |-> ResolveChannelAssetName(list[c].fundingUdt, page[p].rusd),
       status |-> DeriveChannelStatus(list[c]),
       capacity |-> list[c].local + list[c].remote]
<1>3. Details(p) = {row(c) : c \in Open(list)}
  BY <1>2 DEF Details
<1>4. \A c : /\ row(c).id = c /\ row(c).peer = list[c].peer
             /\ row(c).asset = ResolveChannelAssetName(list[c].fundingUdt, page[p].rusd)
             /\ row(c).status = DeriveChannelStatus(list[c])
  OBVIOUS
<1> HIDE DEF row
<1>5. ASSUME NEW d \in Details(p)
      PROVE  /\ d.id \in Open(list) /\ d.peer = list[d.id].peer
             /\ (d.asset = "CKB") = (list[d.id].fundingUdt = None)
             /\ d.status = DeriveChannelStatus(list[d.id])
             /\ d.asset = "RUSD" => list[d.id].fundingUdt = page[p].rusd
  <2>1. PICK c \in Open(list) : d = row(c)
    BY <1>3
  <2>2. /\ d.id = c /\ d.peer = list[c].peer /\ d.status = DeriveChannelStatus(list[c])
        /\ d.asset = ResolveChannelAssetName(list[c].fundingUdt, page[p].rusd)
    BY <1>4, <2>1
  <2> QED
    BY <2>2 DEF ResolveChannelAssetName
<1>6. ASSUME NEW c \in Open(list) PROVE \E d \in Details(p) : d.id = c
  BY <1>3, <1>4
<1>7. {d.id : d \in Details(p)} = Open(list)
  BY <1>5, <1>6
<1> QED
  BY <1>1, <1>2, <1>5, <1>6, <1>7

\* The rows of a page that is shown are the channels of its list, each once.
LEMMA DetailsAre ==
    ASSUME ViewsInv, NEW p \in Pages, Shown(p), page[p].kind # "info"
    PROVE  /\ \A c \in Open(page[p].list) :
                 /\ page[p].list[c].peer \in Peers
                 /\ page[p].list[c].local \in Nat /\ page[p].list[c].remote \in Nat
           /\ \A d \in Details(p) :
                 /\ d.id \in Open(page[p].list) /\ d.peer = page[p].list[d.id].peer
                 /\ d.capacity = page[p].list[d.id].local + page[p].list[d.id].remote
           /\ \A c \in Open(page[p].list) : \E d \in Details(p) : d.id = c
           /\ \A d, e \in Details(p) : d.id = e.id => d = e
<1>1. PICK list \in [Channels -> ChannelStates \cup {None}] : list = page[p].list
  <2>1. PICK n \in since[p] : page[p].list = n.channels
    BY DEF ViewsInv, PagesSound, PageSound, Shown
  <2> QED
    BY <2>1, MomentIs
<1>2. \A c \in Open(list) : list[c] \in ChannelStates
  BY <1>1 DEF Open
<1>3. \A c \in Open(list) : list[c].peer \in Peers /\ list[c].local \in Nat /\ list[c].remote \in Nat
  BY <1>2, NodeAssumption
<1> DEFINE row(c) == [id |-> c, peer |-> list[c].peer,
                      asset |-> ResolveChannelAssetName(list[c].fundingUdt, page[p].rusd),
                      status |-> DeriveChannelStatus(list[c]),
                      capacity |-> list[c].local + list[c].remote]
<1>4. Details(p) = {row(c) : c \in Open(list)}
  BY <1>1 DEF Details
<1>5. \A c : row(c).id = c /\ row(c).peer = list[c].peer /\ row(c).capacity = list[c].local + list[c].remote
  OBVIOUS
<1> HIDE DEF row
<1> QED
  BY <1>1, <1>3, <1>4, <1>5

\* The rows of a Channels or Peers page are the channels the node had at one
\* moment of the load, with the peer, the capacity, the asset and the status they
\* had then.
THEOREM RowsOfOneMomentHolds == SpecViews => []RowsOfOneMoment
<1>1. ASSUME ViewsInv PROVE RowsOfOneMoment
  <2> SUFFICES ASSUME NEW p \in Pages, Shown(p), page[p].kind # "info"
               PROVE  /\ \E n \in since[p] :
                            /\ {d.id : d \in Details(p)} = Open(n.channels)
                            /\ \A d \in Details(p) :
                                  /\ d.peer = n.channels[d.id].peer
                                  /\ d.capacity = n.channels[d.id].local + n.channels[d.id].remote
                                  /\ (d.asset = "CKB") = (n.channels[d.id].fundingUdt = None)
                                  /\ (d.status = "closing") = n.channels[d.id].closing
                                  /\ d.status = "active" => n.channels[d.id].enabled
                                  /\ d.status = "disabled" => ~n.channels[d.id].enabled
                      /\ \A d, e \in Details(p) : (d.asset = "RUSD" /\ e.asset = "RUSD") =>
                            page[p].list[d.id].fundingUdt = page[p].list[e.id].fundingUdt
    BY DEF RowsOfOneMoment
  <2>1. PICK n \in since[p] :
          /\ page[p].list = n.channels
          /\ {d.id : d \in Details(p)} = Open(n.channels)
          /\ \A d \in Details(p) :
                /\ d.peer = n.channels[d.id].peer
                /\ (d.asset = "CKB") = (n.channels[d.id].fundingUdt = None)
                /\ d.status = DeriveChannelStatus(n.channels[d.id])
                /\ d.asset = "RUSD" => n.channels[d.id].fundingUdt = page[p].rusd
    BY <1>1, RowsFromInv
  <2>2. ASSUME NEW d \in Details(p)
        PROVE  /\ d.capacity = n.channels[d.id].local + n.channels[d.id].remote
               /\ (d.status = "closing") = n.channels[d.id].closing
               /\ d.status = "active" => n.channels[d.id].enabled
               /\ d.status = "disabled" => ~n.channels[d.id].enabled
    <3>1. d.status = DeriveChannelStatus(n.channels[d.id])
      BY <2>1
    <3>2. PICK ch : ch = n.channels[d.id]
      OBVIOUS
    <3>3. ch.closing \in BOOLEAN /\ ch.enabled \in BOOLEAN
      <4>1. d.id \in Open(n.channels)
        BY <2>1
      <4>2. ch \in ChannelStates
        BY <1>1, <3>2, <4>1, MomentIs DEF Open
      <4> QED
        BY <4>2, NodeAssumption
    <3>4. d.capacity = ch.local + ch.remote
      BY <1>1, <2>1, <3>2, DetailsAre
    <3>5. /\ (d.status = "closing") = ch.closing
          /\ d.status = "active" => ch.enabled
          /\ d.status = "disabled" => ~ch.enabled
      BY <3>1, <3>2, <3>3 DEF DeriveChannelStatus
    <3> QED
      BY <3>2, <3>4, <3>5
  <2>3. \A d, e \in Details(p) : (d.asset = "RUSD" /\ e.asset = "RUSD") =>
          page[p].list[d.id].fundingUdt = page[p].list[e.id].fundingUdt
    BY <2>1
  <2> QED
    BY <2>1, <2>2, <2>3
<1>2. ViewsInv => RowsOfOneMoment
  BY <1>1
<1> QED
  BY <1>2, Invariants, PTL

\* A dot of the topology is lit exactly when some channel of the peer can pay, and
\* dark exactly when none can pay or settle.
THEOREM DotsTellStatusHolds == SpecViews => []DotsTellStatus
<1>1. ASSUME ViewsInv PROVE DotsTellStatus
  <2> SUFFICES ASSUME NEW p \in Pages, Shown(p),
                      page[p].kind # "info", NEW q \in DOMAIN ComputeTopology(Details(p))
               PROVE  LET dot == ComputeTopology(Details(p))[q]
                          list == page[p].list
                          own == {c \in Open(list) : list[c].peer = q}
                      IN  /\ own # {}
                          /\ (dot = "active") = (\E c \in own : list[c].enabled /\ ~list[c].closing)
                          /\ (dot = "disabled")
                               = (\A c \in own : ~list[c].enabled /\ ~list[c].closing)
    BY DEF DotsTellStatus
  <2>1. PICK list : list = page[p].list
    OBVIOUS
  <2>2. PICK D : D = Details(p)
    OBVIOUS
  <2>3. /\ \A d \in D : /\ d.id \in Open(list) /\ d.peer = list[d.id].peer
                        /\ d.status = DeriveChannelStatus(list[d.id])
        /\ \A c \in Open(list) : \E d \in D : d.id = c
    BY <1>1, <2>1, <2>2, RowsFromInv
  <2>4. PICK T : T = {d.status : d \in {x \in D : x.peer = q}}
    OBVIOUS
  <2>5. ComputeTopology(Details(p))[q] = BestStatus(T)
    BY <2>2, <2>4 DEF ComputeTopology
  <2>6. "active" \in T <=>
          \E c \in Open(list) : list[c].peer = q /\ ~list[c].closing /\ list[c].enabled
    <3>1. ASSUME NEW d \in D, d.peer = q, d.status = "active"
          PROVE  \E c \in Open(list) : list[c].peer = q /\ ~list[c].closing /\ list[c].enabled
      BY <2>3, <3>1 DEF DeriveChannelStatus
    <3>2. ASSUME NEW c \in Open(list), list[c].peer = q, ~list[c].closing, list[c].enabled
          PROVE  \E d \in D : d.peer = q /\ d.status = "active"
      BY <2>3, <3>2 DEF DeriveChannelStatus
    <3> QED
      BY <2>4, <3>1, <3>2
  <2>7. "closing" \in T <=> \E c \in Open(list) : list[c].peer = q /\ list[c].closing
    <3>1. ASSUME NEW d \in D, d.peer = q, d.status = "closing"
          PROVE  \E c \in Open(list) : list[c].peer = q /\ list[c].closing
      BY <2>3, <3>1 DEF DeriveChannelStatus
    <3>2. ASSUME NEW c \in Open(list), list[c].peer = q, list[c].closing
          PROVE  \E d \in D : d.peer = q /\ d.status = "closing"
      BY <2>3, <3>2 DEF DeriveChannelStatus
    <3> QED
      BY <2>4, <3>1, <3>2
  <2>8. /\ BestStatus(T) = "disabled" <=> "active" \notin T /\ "closing" \notin T
        /\ BestStatus(T) = "active" <=> "active" \in T
    BY DEF BestStatus
  <2>9. \E c \in Open(list) : list[c].peer = q
    <3>1. q \in {d.peer : d \in D}
      BY <2>2 DEF ComputeTopology
    <3> QED
      BY <2>3, <3>1
  <2> QED
    <3>1. PICK own : own = {c \in Open(list) : list[c].peer = q}
      OBVIOUS
    <3>2. /\ own # {}
          /\ (BestStatus(T) = "active") = (\E c \in own : list[c].enabled /\ ~list[c].closing)
          /\ (BestStatus(T) = "disabled") = (\A c \in own : ~list[c].enabled /\ ~list[c].closing)
      BY <2>6, <2>7, <2>8, <2>9, <3>1
    <3> QED
      BY <2>1, <2>5, <3>1, <3>2
<1>2. ViewsInv => DotsTellStatus
  BY <1>1
<1> QED
  BY <1>2, Invariants, PTL

\* The drawers of the Peers page divide up the channels of the peers it lists:
\* their capacities add up.
THEOREM PeersDivideRowsHolds == SpecViews => []PeersDivideRows
<1>1. ASSUME ViewsInv PROVE PeersDivideRows
  <2> SUFFICES ASSUME NEW p \in Pages, Shown(p), page[p].kind = "peers",
                      NEW list, list = page[p].list, NEW listed, listed = page[p].other.peers
               PROVE  SumFunction([q \in listed |-> ChannelsForPeer(p, q).totalCapacity])
                        = SumFunction([c \in {x \in Open(list) : list[x].peer \in listed} |->
                                         list[c].local + list[c].remote])
    BY DEF PeersDivideRows
  <2>1. PICK O, D : /\ O = {x \in Open(list) : list[x].peer \in listed}
                    /\ D = {d \in Details(p) : d.peer \in listed}
    OBVIOUS
  <2> DEFINE cap == [d \in D |-> d.capacity]
             own(q) == {d \in D : d.peer = q}
             ofPeer == [q \in listed |-> SumFunction([d \in own(q) |-> d.capacity])]
             ofChannel == [c \in O |-> list[c].local + list[c].remote]
             idOf == [d \in D |-> d.id]
             peerOf == [d \in D |-> d.peer]
  <2>2. /\ \A c \in O : list[c].local \in Nat /\ list[c].remote \in Nat
        /\ \A d \in D : /\ d.id \in O /\ d.peer = list[d.id].peer
                        /\ d.capacity = list[d.id].local + list[d.id].remote
        /\ \A c \in O : \E d \in D : d.id = c
        /\ \A d, e \in D : d.id = e.id => d = e
    <3>1. /\ \A c \in Open(list) : list[c].local \in Nat /\ list[c].remote \in Nat
          /\ \A d \in Details(p) :
                /\ d.id \in Open(list) /\ d.peer = list[d.id].peer
                /\ d.capacity = list[d.id].local + list[d.id].remote
          /\ \A c \in Open(list) : \E d \in Details(p) : d.id = c
          /\ \A d, e \in Details(p) : d.id = e.id => d = e
      BY <1>1, DetailsAre
    <3>2. \A d \in D : d \in Details(p) /\ d.peer \in listed /\ d.id \in O
      BY <2>1, <3>1
    <3>3. \A c \in O : \E d \in D : d.id = c
      <4> SUFFICES ASSUME NEW c \in O PROVE \E d \in D : d.id = c
        OBVIOUS
      <4>1. PICK d \in Details(p) : d.id = c
        BY <2>1, <3>1
      <4>2. d.peer \in listed
        BY <2>1, <3>1, <4>1
      <4> QED
        BY <2>1, <4>1, <4>2
    <3> QED
      BY <2>1, <3>1, <3>2, <3>3
  <2>3. IsFiniteSet(O) /\ IsFiniteSet(listed)
    <3>1. PICK n \in since[p] : page[p].other = [peers |-> n.peers]
      BY <1>1 DEF ViewsInv, PagesSound, PageSound, Shown
    <3>2. listed \subseteq Peers
      BY <1>1, <3>1, MomentIs
    <3>3. O \subseteq Channels
      BY <2>1 DEF Open
    <3> QED
      BY <3>2, <3>3, NodeAssumption, FS_Subset
  <2>4. IsFiniteSet(D)
    <3>1. idOf \in Injection(D, O)
      BY <2>2 DEF Injection, IsInjective
    <3> QED
      BY <2>3, <3>1, FS_Injection
  <2>5. \A d \in D : cap[d] \in Nat
    BY <2>2
  <2>6. \A q \in listed : ofPeer[q] = Sum(cap, {d \in D : peerOf[d] = q})
    <3> SUFFICES ASSUME NEW q \in listed PROVE ofPeer[q] = Sum(cap, {d \in D : peerOf[d] = q})
      OBVIOUS
    <3>1. PICK s \in SUBSET D : s = own(q)
      OBVIOUS
    <3>2. PICK f : f = [d \in s |-> d.capacity]
      OBVIOUS
    <3>3. DOMAIN f = s /\ \A d \in s : f[d] = cap[d]
      BY <3>2
    <3>4. ofPeer[q] = Sum(f, s)
      BY <3>1, <3>2, <3>3 DEF SumFunction, Sum
    <3>5. {d \in D : peerOf[d] = q} = s
      BY <3>1
    <3>6. Sum(f, s) = Sum(cap, s)
      <4> HIDE DEF cap
      <4> QED
        BY <2>4, <3>3, SumSame, FS_Subset
    <3> QED
      BY <3>4, <3>5, <3>6
  <2>7. \A c \in O : ofChannel[c] = Sum(cap, {d \in D : idOf[d] = c})
    <3> SUFFICES ASSUME NEW c \in O PROVE ofChannel[c] = Sum(cap, {d \in D : idOf[d] = c})
      OBVIOUS
    <3>1. PICK d \in D : d.id = c
      BY <2>2
    <3>2. {e \in D : idOf[e] = c} = {d}
      BY <2>2, <3>1
    <3>3. Sum(cap, {d}) = cap[d]
      <4> HIDE DEF cap
      <4> QED
        BY <2>5, SumOne
    <3>4. ofChannel[c] = cap[d]
      BY <2>2, <3>1
    <3> QED
      BY <3>2, <3>3, <3>4
  <2>8. \A d \in D : peerOf[d] \in listed /\ idOf[d] \in O
    BY <2>1, <2>2
  <2>9. DOMAIN ofPeer = listed /\ DOMAIN ofChannel = O
    OBVIOUS
  <2>10. /\ ofPeer = [q \in listed |-> ChannelsForPeer(p, q).totalCapacity]
         /\ ofChannel = [c \in {x \in Open(list) : list[x].peer \in listed} |-> list[c].local + list[c].remote]
    <3>1. \A q \in listed : {d \in Details(p) : d.peer = q} = own(q)
      BY <2>1
    <3> QED
      BY <2>1, <3>1 DEF ChannelsForPeer
  <2> HIDE DEF cap, ofPeer, ofChannel, idOf, peerOf
  <2>11. HasParts(cap, D, peerOf, ofPeer, listed) /\ HasParts(cap, D, idOf, ofChannel, O)
    BY <2>6, <2>7, <2>8 DEF HasParts
  <2>12. Sum(ofPeer, listed) = Sum(cap, D)
    BY <2>3, <2>4, <2>5, <2>11, SumParts
  <2>13. Sum(ofChannel, O) = Sum(cap, D)
    BY <2>3, <2>4, <2>5, <2>11, SumParts
  <2>14. SumFunction(ofPeer) = SumFunction(ofChannel)
    BY <2>9, <2>12, <2>13 DEF SumFunction, Sum
  <2> QED
    BY <2>10, <2>14
<1>2. ViewsInv => PeersDivideRows
  BY <1>1
<1> QED
  BY <1>2, Invariants, PTL

\* A sum over the enabled channels is one over all of them, the others counted 0.
LEMMA FundsAre ==
    ASSUME ViewsInv, NEW p \in Pages, NEW n \in since[p], NEW side \in {"local", "remote"}
    PROVE  Capacity(n.channels, side) = Funds(n, side)
<1>1. PICK list \in [Channels -> ChannelStates \cup {None}] : list = n.channels
  BY MomentIs
<1>2. PICK active \in SUBSET Channels : active = Active(list)
  BY DEF Active, Open
<1>3. \A c \in Channels : c \in active <=> list[c] # None /\ list[c].enabled
  BY <1>2 DEF Active, Open
<1>4. \A c \in active : list[c][side] \in Nat
  <2> SUFFICES ASSUME NEW c \in active PROVE list[c][side] \in Nat
    OBVIOUS
  <2>1. list[c] \in ChannelStates
    BY <1>1, <1>3
  <2>2. list[c].local \in Nat /\ list[c].remote \in Nat
    BY <2>1, NodeAssumption
  <2> QED
    BY <2>2
<1>5. PICK f : f = [c \in active |-> list[c][side]]
  OBVIOUS
<1>6. PICK g : g = [c \in Channels |-> IF list[c] # None /\ list[c].enabled THEN list[c][side] ELSE 0]
  OBVIOUS
<1>7. /\ DOMAIN f = active /\ DOMAIN g = Channels
      /\ \A c \in active : g[c] = f[c] /\ g[c] \in Nat
      /\ \A c \in Channels \ active : g[c] = 0
  BY <1>3, <1>4, <1>5, <1>6
<1>8. Capacity(n.channels, side) = Sum(f, active) /\ Funds(n, side) = Sum(g, Channels)
  BY <1>1, <1>2, <1>5, <1>6, <1>7 DEF Capacity, Funds, SumFunction, Sum
<1>9. PICK rest \in SUBSET Channels : rest = Channels \ active
  OBVIOUS
<1>10. IsFiniteSet(Channels) /\ IsFiniteSet(active) /\ IsFiniteSet(rest)
  BY NodeAssumption, FS_Subset
<1>11. active \cap rest = {} /\ active \cup rest = Channels
  BY <1>9
<1>12. \A c \in Channels : g[c] \in Nat
  BY <1>7
<1>13. Sum(g, Channels) = Sum(g, active) + Sum(g, rest)
  <2>1. Sum(g, active \cup rest) = Sum(g, active) + Sum(g, rest)
    BY <1>10, <1>11, <1>12, SumJoin
  <2> QED
    BY <1>11, <2>1
<1>14. Sum(g, rest) = 0
  <2>1. \A c \in rest : g[c] = 0 /\ g[c] \in Nat
    BY <1>7, <1>9
  <2> QED
    BY <1>10, <2>1, SumZero
<1>15. Sum(f, active) = Sum(g, active) /\ Sum(g, active) \in Nat
  <2>1. \A c \in active : f[c] = g[c]
    BY <1>7
  <2>2. Sum(f, active) = Sum(g, active)
    BY <1>10, <2>1, SumSame
  <2> QED
    BY <1>10, <1>12, <2>2, SumType
<1> QED
  BY <1>8, <1>13, <1>14, <1>15

\* The Node Status tells the funds of one moment of the load and the isolation of
\* one; and when no channel opened or closed during it, it is degraded exactly
\* when a channel was not enabled.
THEOREM StatusOfTwoMomentsHolds == SpecViews => []StatusOfTwoMoments
<1>1. ASSUME ViewsInv PROVE StatusOfTwoMoments
  <2> SUFFICES ASSUME NEW p \in Pages, Shown(p), page[p].kind = "info"
               PROVE  /\ \E n \in since[p] :
                            /\ NodeStatus(p).inbound = Funds(n, "remote")
                            /\ NodeStatus(p).outbound = Funds(n, "local")
                            /\ (\A k, l \in since[p] : Open(k.channels) = Open(l.channels)) =>
                                  (NodeStatus(p).status = "degraded")
                                     = (\E c \in Open(n.channels) : ~n.channels[c].enabled)
                      /\ \E m \in since[p] : NodeStatus(p).isolated = (m.peers = {})
    BY DEF StatusOfTwoMoments
  <2>1. PICK n \in since[p] : page[p].list = n.channels
    BY <1>1 DEF ViewsInv, PagesSound, PageSound, Shown
  <2>2. PICK m \in since[p] : page[p].other = Counts(m)
    BY <1>1 DEF ViewsInv, PagesSound, PageSound, Shown
  <2>3. PICK list \in [Channels -> ChannelStates \cup {None}] : list = n.channels
    BY <1>1, MomentIs
  <2>4. PICK connected \in SUBSET Peers : connected = m.peers
    BY <1>1, MomentIs
  <2>5. PICK open : open = Open(list)
    OBVIOUS
  <2>6. PICK active : active = Active(list)
    OBVIOUS
  <2>7. /\ open \subseteq Channels /\ active \subseteq open
        /\ \A c \in open : c \in active <=> list[c].enabled
    BY <2>5, <2>6 DEF Open, Active
  <2>8. IsFiniteSet(open) /\ IsFiniteSet(active) /\ IsFiniteSet(connected)
    BY <2>7, NodeAssumption, FS_Subset
  <2>9. /\ Cardinality(open) \in Nat /\ Cardinality(active) \in Nat
        /\ Cardinality(active) <= Cardinality(open)
        /\ Cardinality(active) = Cardinality(open) => active = open
    BY <2>7, <2>8, FS_Subset, FS_CardinalityType
  <2>10. Cardinality(active) < Cardinality(open) <=> active # open
    BY <2>9
  <2>11. active # open <=> \E c \in open : ~list[c].enabled
    BY <2>7
  <2>12. Cardinality(connected) = 0 <=> connected = {}
    BY <2>8, FS_EmptySet
  <2>13. PICK counted : counted = Cardinality(Open(m.channels))
    OBVIOUS
  <2>14. /\ NodeStatus(p).status = IF Cardinality(active) < counted THEN "degraded" ELSE "online"
         /\ NodeStatus(p).isolated = (Cardinality(connected) = 0)
         /\ NodeStatus(p).inbound = Capacity(n.channels, "remote")
         /\ NodeStatus(p).outbound = Capacity(n.channels, "local")
    BY <2>1, <2>2, <2>3, <2>4, <2>6, <2>13 DEF NodeStatus, Counts
  <2>15. NodeStatus(p).inbound = Funds(n, "remote") /\ NodeStatus(p).outbound = Funds(n, "local")
    BY <1>1, <2>14, FundsAre
  <2>16. ASSUME Open(n.channels) = Open(m.channels)
         PROVE  (NodeStatus(p).status = "degraded")
                   = (\E c \in Open(n.channels) : ~n.channels[c].enabled)
    <3>1. counted = Cardinality(open)
      BY <2>3, <2>5, <2>13, <2>16
    <3>2. (NodeStatus(p).status = "degraded") = (\E c \in open : ~list[c].enabled)
      BY <2>10, <2>11, <2>14, <3>1
    <3> QED
      BY <2>3, <2>5, <3>2
  <2>17. NodeStatus(p).isolated = (m.peers = {})
    BY <2>4, <2>12, <2>14
  <2> QED
    BY <2>15, <2>16, <2>17
<1>2. ViewsInv => StatusOfTwoMoments
  BY <1>1
<1> QED
  BY <1>2, Invariants, PTL

\* What the merchant is shown of the node is what the node was.
THEOREM PagesTellNodeHolds == SpecViews => []PagesTellNode
BY RowsOfOneMomentHolds, PeersDivideRowsHolds, DotsTellStatusHolds,
   StatusOfTwoMomentsHolds, PTL DEF PagesTellNode

=============================================================================
