------------------------ MODULE EndpointPanelProofs ------------------------
(***************************************************************************)
(* What EndpointPanel promises of the page and of the secrets, for any     *)
(* number of endpoints, clicks, failures and second tabs.                  *)
(***************************************************************************)
EXTENDS EndpointPanel, FiniteSetTheorems, SequenceTheorems, TLAPS

-----------------------------------------------------------------------------
(* The inductive invariant                                                 *)

Answer == [ok : BOOLEAN, id : Endpoints \cup {None}, secret : Nat \cup {None},
           rows : Seq(Row), told : SUBSET Endpoints]
Revealed == [id : Endpoints, secret : Nat]
Delivery == [state : {"none", "due", "loaded", "delivered", "failed", "rejected"},
             secret : Nat \cup {None}, sound : BOOLEAN, attempts : 0 .. MAX_ATTEMPTS]

\* The shape of the state; the watched endpoint has a row, and so a secret.
PanelTyped ==
    /\ active \in [Endpoints -> BOOLEAN] /\ secret \in [Endpoints -> Nat \cup {None}]
    /\ order \in Seq(Endpoints) /\ issued \in Nat /\ queue \in Seq(Requests)
    /\ answer \in Answer \cup {None}
    /\ list \in Seq(Row) /\ selectedId \in Endpoints \cup {None}
    /\ revealedSecret \in Revealed \cup {None}
    /\ busyKeys \subseteq {"toggle", "regenerate"} \X Endpoints
    /\ deliveriesOf \in Endpoints \cup {None} /\ installed \in Nat
    /\ drawer \in [open : BOOLEAN, form : {"blank", "filled"}, submitting : BOOLEAN]
    /\ delivery \in Delivery /\ gone \subseteq Nat
    /\ secret[Watched] # None

Asked(q) == {q[i] : i \in 1 .. Len(q)}
ForButton == {"toggle", "regenerate"}

\* The busy keys are those of the requests under way, no two of which share one.
Keyed(q, keys) ==
    /\ keys = {Key(r) : r \in {x \in Asked(q) : x.kind \in ForButton}}
    /\ \A i, j \in 1 .. Len(q) :
          i # j /\ q[i].kind \in ForButton /\ q[j].kind \in ForButton => Key(q[i]) # Key(q[j])

\* The row of e is there, but the page has not been told of it yet.
JustCreated(e) == answer # None /\ answer.ok /\ queue[1].kind = "create" /\ answer.id = e

\* What the page can be about.
Known(e) == e \in Endpoints /\ secret[e] # None /\ ~JustCreated(e)

\* A request of the tab: what it is about is a row, a history that will be put
\* up is the selected one's, and a secret under way is not on the page yet.
RequestSound(r) ==
    /\ r.kind \in {"toggle", "regenerate", "deliveries"} => Known(r.id)
    /\ r.kind \in {"create", "refresh"} => r.id = None
    /\ r.kind = "deliveries" /\ r.live => r.id = selectedId
    /\ r.kind = "regenerate" =>
         selectedId # None /\ (revealedSecret = None \/ revealedSecret.id # r.id)

QueueSound == Keyed(queue, busyKeys) /\ \A r \in Asked(queue) : RequestSound(r)

PageSound ==
    /\ \A i \in 1 .. Len(list) : Known(list[i].id)
    /\ selectedId # None => Known(selectedId)
    /\ revealedSecret # None => selectedId # None /\ Known(revealedSecret.id)

\* The answer is about the head of the queue.
AnswerSound ==
    answer # None =>
      /\ queue # <<>>
      /\ JustCreated(answer.id) =>
           answer.id \in Endpoints /\ secret[answer.id] # None /\ order # <<>> /\ order[1] = answer.id
      /\ queue[1].kind # "create" => answer.id = queue[1].id
      /\ answer.secret # None <=> answer.ok /\ queue[1].kind \in {"create", "regenerate"}
      /\ queue[1].kind # "refresh" => answer.told = {}
      /\ \A i \in 1 .. Len(answer.rows) : secret[answer.rows[i].id] # None

\* Rows and their order are of one table.
OrderSound == \A e \in Endpoints : secret[e] # None <=> \E i \in 1 .. Len(order) : order[i] = e

\* Of the secret s of e that the tab has been told: it is the table's until the
\* second tab replaces it, and from then on it is not.
Current(e, s) == IF <<"secret", e>> \in behind THEN s # secret[e] ELSE s = secret[e]

SecretsKnown ==
    /\ \A e \in Endpoints : secret[e] # None => secret[e] <= issued
    /\ \A e \in Endpoints : <<"secret", e>> \in behind => secret[e] # None
    /\ installed <= issued
    /\ \A s \in gone : s <= issued
    /\ revealedSecret # None =>
         revealedSecret.secret <= issued /\ Current(revealedSecret.id, revealedSecret.secret)
    /\ answer # None /\ answer.secret # None =>
         /\ answer.secret <= issued /\ Current(answer.id, answer.secret)
         /\ answer.secret \notin gone
         /\ revealedSecret # None => revealedSecret.secret # answer.secret
    /\ <<"secret", Watched>> \in behind => installed # secret[Watched]
    /\ Shown \notin gone

\* A sound attempt is signed with the key the server has.
DeliverySound ==
    /\ delivery.state \in {"none", "due", "loaded"} => delivery.attempts < MAX_ATTEMPTS
    /\ delivery.state = "loaded" /\ delivery.sound =>
         delivery.secret = secret[Watched] /\ installed = secret[Watched]
    /\ NewSecretVerifies

InOrder(rows) ==
    \A i, j \in 1 .. Len(rows) : i < j =>
       \E k, l \in 1 .. Len(order) : k < l /\ order[k] = rows[i].id /\ order[l] = rows[j].id
Lists(rows, e) == \E i \in 1 .. Len(rows) : rows[i] = EndpointView(e)

\* What has been switched, and not yet shown so.
Switched(e) == answer # None /\ answer.ok /\ queue[1].kind = "toggle" /\ answer.id = e

ListSound ==
    /\ \A e \in Endpoints \ behind : secret[e] # None =>
         \/ JustCreated(e)
         \/ answer # None /\ e \in answer.told
         \/ e \in Listed /\ (Switched(e) \/ Lists(list, e))
    /\ InOrder(list)
    /\ answer # None =>
         /\ InOrder(answer.rows)
         /\ Switched(answer.id) /\ answer.id \notin behind =>
              active[answer.id] = (queue[1].value = "on")
         /\ JustCreated(answer.id) /\ answer.id \notin behind => active[answer.id]
         /\ queue[1].kind = "refresh" =>
              \A e \in Endpoints \ behind : secret[e] # None => Lists(answer.rows, e)

PanelInv ==
    /\ PanelTyped /\ QueueSound /\ PageSound /\ AnswerSound /\ OrderSound
    /\ SecretsKnown /\ DeliverySound /\ ListSound

-----------------------------------------------------------------------------
(* Lemmas about the queue                                                  *)

LEMMA SeqOfFunction ==
    ASSUME NEW S, NEW n \in Nat, NEW f \in [1 .. n -> S]
    PROVE  f \in Seq(S) /\ Len(f) = n
OBVIOUS

LEMMA TailIs ==
    ASSUME NEW S, NEW q \in Seq(S), q # <<>>
    PROVE  /\ Len(q) \in Nat /\ Len(q) >= 1 /\ q[1] \in S
           /\ Tail(q) \in Seq(S) /\ Len(Tail(q)) = Len(q) - 1
           /\ \A i \in 1 .. Len(Tail(q)) : i + 1 \in 1 .. Len(q) /\ Tail(q)[i] = q[i + 1]
OBVIOUS

LEMMA AppendIs ==
    ASSUME NEW S, NEW q \in Seq(S), NEW x \in S
    PROVE  /\ Append(q, x) \in Seq(S) /\ Len(q) \in Nat /\ Len(Append(q, x)) = Len(q) + 1
           /\ Append(q, x) # <<>>
           /\ \A i \in 1 .. Len(q) : Append(q, x)[i] = q[i]
           /\ Append(q, x)[Len(q) + 1] = x
OBVIOUS

\* The queue with the fetches in it called off.
Uncalled(q) == [i \in 1 .. Len(q) |->
                  IF q[i].kind = "deliveries" THEN [q[i] EXCEPT !.live = FALSE] ELSE q[i]]

LEMMA UncalledIs ==
    ASSUME NEW q \in Seq(Requests)
    PROVE  /\ Uncalled(q) \in Seq(Requests) /\ Len(Uncalled(q)) = Len(q)
           /\ \A i \in 1 .. Len(q) :
                /\ Uncalled(q)[i].kind = q[i].kind /\ Uncalled(q)[i].id = q[i].id
                /\ Uncalled(q)[i].value = q[i].value
                /\ Uncalled(q)[i].kind = "deliveries" => ~Uncalled(q)[i].live
<1>1. Len(q) \in Nat /\ \A i \in 1 .. Len(q) : q[i] \in Requests
  OBVIOUS
<1>2. ASSUME NEW i \in 1 .. Len(q)
      PROVE  /\ Uncalled(q)[i] \in Requests
             /\ Uncalled(q)[i].kind = q[i].kind /\ Uncalled(q)[i].id = q[i].id
             /\ Uncalled(q)[i].value = q[i].value
             /\ Uncalled(q)[i].kind = "deliveries" => ~Uncalled(q)[i].live
  <2>1. CASE q[i].kind = "deliveries"
    <3>1. Uncalled(q)[i] = [q[i] EXCEPT !.live = FALSE]
      BY <2>1 DEF Uncalled
    <3> QED
      BY <1>1, <3>1 DEF Requests
  <2>2. CASE q[i].kind # "deliveries"
    <3>1. Uncalled(q)[i] = q[i]
      BY <2>2 DEF Uncalled
    <3> QED
      BY <1>1, <2>2, <3>1
  <2> QED
    BY <2>1, <2>2
<1>3. Uncalled(q) \in [1 .. Len(q) -> Requests]
  <2>1. Uncalled(q) = [i \in 1 .. Len(q) |-> Uncalled(q)[i]]
    BY DEF Uncalled
  <2> QED
    BY <1>2, <2>1
<1>4. Uncalled(q) \in Seq(Requests) /\ Len(Uncalled(q)) = Len(q)
  BY <1>1, <1>3, SeqOfFunction
<1> QED
  BY <1>2, <1>4

LEMMA AskIs ==
    ASSUME NEW kind \in {"toggle", "regenerate", "create", "deliveries", "refresh"},
           NEW e \in Endpoints \cup {None}, NEW value \in {None, "on", "off", "blank", "filled"}
    PROVE  /\ Ask(kind, e, value) \in Requests
           /\ Ask(kind, e, value).kind = kind /\ Ask(kind, e, value).id = e
           /\ Ask(kind, e, value).value = value /\ Ask(kind, e, value).live
BY DEF Ask, Requests

LEMMA AskedTail ==
    ASSUME NEW q \in Seq(Requests), q # <<>>
    PROVE  q[1] \in Asked(q) /\ Asked(Tail(q)) \subseteq Asked(q) /\ Asked(q) \subseteq Asked(Tail(q)) \cup {q[1]}
<1>1. ASSUME NEW i \in 1 .. Len(q) PROVE i = 1 \/ (i - 1 \in 1 .. Len(Tail(q)) /\ Tail(q)[i - 1] = q[i])
  <2>1. i # 1 => i - 1 \in 1 .. Len(Tail(q)) /\ (i - 1) + 1 = i
    BY TailIs
  <2> QED
    BY <2>1, TailIs
<1>2. 1 \in 1 .. Len(q)
  BY TailIs
<1>3. Asked(Tail(q)) \subseteq Asked(q)
  BY TailIs DEF Asked
<1> QED
  BY <1>1, <1>2, <1>3 DEF Asked

LEMMA AskedAppend ==
    ASSUME NEW q \in Seq(Requests), NEW x \in Requests
    PROVE  Asked(Append(q, x)) = Asked(q) \cup {x}
<1> DEFINE p == Append(q, x)
<1>1. /\ Len(q) \in Nat /\ Len(p) = Len(q) + 1
      /\ \A i \in 1 .. Len(q) : p[i] = q[i]
      /\ p[Len(q) + 1] = x
  BY AppendIs
<1> HIDE DEF p
<1>2. \A i \in 1 .. Len(p) : i \in 1 .. Len(q) \/ i = Len(q) + 1
  BY <1>1
<1>3. 1 .. Len(q) \subseteq 1 .. Len(p) /\ Len(q) + 1 \in 1 .. Len(p)
  BY <1>1
<1>4. Asked(p) = Asked(q) \cup {x}
  BY <1>1, <1>2, <1>3 DEF Asked
<1> QED
  BY <1>4 DEF p

-----------------------------------------------------------------------------
(* Lemmas about the busy keys                                              *)

LEMMA KeyIs ==
    ASSUME NEW r, NEW s
    PROVE  Key(r) = Key(s) <=> r.kind = s.kind /\ r.id = s.id
BY DEF Key

\* A request of another kind comes to the end.
LEMMA KeyedOther ==
    ASSUME NEW q \in Seq(Requests), NEW keys, Keyed(q, keys),
           NEW x \in Requests, x.kind \notin ForButton
    PROVE  Keyed(Append(q, x), keys)
<1> DEFINE p == Append(q, x)
<1>1. /\ Len(q) \in Nat /\ Len(p) = Len(q) + 1
      /\ \A i \in 1 .. Len(q) : p[i] = q[i]
      /\ p[Len(q) + 1] = x
      /\ Asked(p) = Asked(q) \cup {x}
  BY AppendIs, AskedAppend
<1> HIDE DEF p
<1>2. \A i \in 1 .. Len(p) : p[i].kind \in ForButton => i \in 1 .. Len(q)
  BY <1>1
<1>3. {r \in Asked(p) : r.kind \in ForButton} = {r \in Asked(q) : r.kind \in ForButton}
  BY <1>1
<1>4. Keyed(p, keys)
  BY <1>1, <1>2, <1>3 DEF Keyed
<1> QED
  BY <1>4 DEF p

\* A request for a button that is not busy comes to the end.
LEMMA KeyedButton ==
    ASSUME NEW q \in Seq(Requests), NEW keys, Keyed(q, keys),
           NEW x \in Requests, x.kind \in ForButton, Key(x) \notin keys
    PROVE  Keyed(Append(q, x), keys \cup {Key(x)})
<1> DEFINE p == Append(q, x)
<1>1. /\ Len(q) \in Nat /\ Len(p) = Len(q) + 1
      /\ \A i \in 1 .. Len(q) : p[i] = q[i]
      /\ p[Len(q) + 1] = x
      /\ Asked(p) = Asked(q) \cup {x}
  BY AppendIs, AskedAppend
<1> HIDE DEF p
<1>2. {r \in Asked(p) : r.kind \in ForButton} = {r \in Asked(q) : r.kind \in ForButton} \cup {x}
  BY <1>1
<1>3. {Key(r) : r \in {y \in Asked(p) : y.kind \in ForButton}} = keys \cup {Key(x)}
  BY <1>2 DEF Keyed
<1>4. ASSUME NEW i \in 1 .. Len(q), q[i].kind \in ForButton
      PROVE  Key(q[i]) # Key(x)
  BY <1>4 DEF Keyed, Asked
<1>5. \A i \in 1 .. Len(p) : i \in 1 .. Len(q) \/ i = Len(q) + 1
  BY <1>1
<1>6. ASSUME NEW i \in 1 .. Len(p), NEW j \in 1 .. Len(p),
             i # j, p[i].kind \in ForButton, p[j].kind \in ForButton
      PROVE  Key(p[i]) # Key(p[j])
  BY <1>1, <1>4, <1>5, <1>6 DEF Keyed
<1>7. Keyed(p, keys \cup {Key(x)})
  BY <1>3, <1>6 DEF Keyed
<1> QED
  BY <1>7 DEF p

\* Calling fetches off is no matter of the buttons'.
LEMMA KeyedUncalled ==
    ASSUME NEW q \in Seq(Requests), NEW keys, Keyed(q, keys)
    PROVE  Keyed(Uncalled(q), keys)
<1> DEFINE p == Uncalled(q)
<1>1. Len(p) = Len(q) /\ \A i \in 1 .. Len(q) : p[i].kind = q[i].kind /\ Key(p[i]) = Key(q[i])
  BY UncalledIs, KeyIs
<1> HIDE DEF p
<1>2. {Key(r) : r \in {y \in Asked(p) : y.kind \in ForButton}}
        = {Key(r) : r \in {y \in Asked(q) : y.kind \in ForButton}}
  BY <1>1 DEF Asked
<1>3. Keyed(p, keys)
  BY <1>1, <1>2 DEF Keyed
<1> QED
  BY <1>3 DEF p

\* The head goes, and its key with it; those behind it have others.
LEMMA KeyedTail ==
    ASSUME NEW q \in Seq(Requests), NEW keys, Keyed(q, keys), q # <<>>
    PROVE  /\ Keyed(Tail(q), keys \ {Key(q[1])})
           /\ q[1].kind \notin ForButton => Keyed(Tail(q), keys)
           /\ q[1].kind \in ForButton =>
                \A r \in Asked(Tail(q)) : r.kind = q[1].kind => r.id # q[1].id
<1> DEFINE p == Tail(q)
<1>1. /\ Len(q) \in Nat /\ Len(p) = Len(q) - 1 /\ 1 \in 1 .. Len(q)
      /\ \A i \in 1 .. Len(p) : i + 1 \in 1 .. Len(q) /\ p[i] = q[i + 1] /\ i + 1 # 1
      /\ Asked(p) \subseteq Asked(q) /\ Asked(q) \subseteq Asked(p) \cup {q[1]}
  BY TailIs, AskedTail
<1> HIDE DEF p
<1>2. ASSUME NEW i \in 1 .. Len(p), NEW j \in 1 .. Len(p),
             i # j, p[i].kind \in ForButton, p[j].kind \in ForButton
      PROVE  Key(p[i]) # Key(p[j])
  <2>1. i + 1 # j + 1
    BY <1>2
  <2> QED
    BY <1>1, <1>2, <2>1 DEF Keyed
<1>3. ASSUME NEW r \in Asked(p), r.kind \in ForButton, q[1].kind \in ForButton
      PROVE  Key(r) # Key(q[1])
  BY <1>1, <1>3 DEF Asked, Keyed
<1>4. {Key(r) : r \in {y \in Asked(p) : y.kind \in ForButton}} = keys \ {Key(q[1])}
  <2>1. keys = {Key(r) : r \in {y \in Asked(q) : y.kind \in ForButton}}
    BY DEF Keyed
  <2>2. ASSUME NEW r \in Asked(p), r.kind \in ForButton PROVE Key(r) # Key(q[1])
    <3>1. q[1].kind \notin ForButton => r.kind # q[1].kind
      BY <2>2
    <3> QED
      BY <1>3, <2>2, <3>1, KeyIs
  <2>3. ASSUME NEW r \in Asked(q), r.kind \in ForButton, Key(r) # Key(q[1]) PROVE r \in Asked(p)
    BY <1>1, <2>3
  <2> QED
    BY <1>1, <2>1, <2>2, <2>3
<1>5. Keyed(p, keys \ {Key(q[1])})
  BY <1>2, <1>4 DEF Keyed
<1>6. q[1].kind \notin ForButton => keys \ {Key(q[1])} = keys
  <2>1. ASSUME NEW r \in Asked(q), r.kind \in ForButton, q[1].kind \notin ForButton PROVE Key(r) # Key(q[1])
    BY <2>1, KeyIs
  <2> QED
    BY <2>1 DEF Keyed
<1>7. q[1].kind \in ForButton => \A r \in Asked(p) : r.kind = q[1].kind => r.id # q[1].id
  BY <1>3, KeyIs
<1> QED
  BY <1>5, <1>6, <1>7 DEF p

\* What the queue is after the effect on selectedId.
LEMMA RefetchIs ==
    ASSUME NEW q \in Seq(Requests), NEW e \in Endpoints
    PROVE  /\ Refetch(q, e) \in Seq(Requests) /\ Refetch(q, e) # <<>>
           /\ \A keys : Keyed(q, keys) => Keyed(Refetch(q, e), keys)
           /\ \A r \in Asked(Refetch(q, e)) :
                \/ r = Ask("deliveries", e, None)
                \/ /\ r.kind = "deliveries" => ~r.live
                   /\ \E s \in Asked(q) : r.kind = s.kind /\ r.id = s.id
           /\ q # <<>> => /\ Refetch(q, e)[1].kind = q[1].kind
                          /\ Refetch(q, e)[1].id = q[1].id
                          /\ Refetch(q, e)[1].value = q[1].value
<1> DEFINE u == Uncalled(q)
           x == Ask("deliveries", e, None)
<1>1. /\ u \in Seq(Requests) /\ Len(u) = Len(q)
      /\ \A i \in 1 .. Len(q) :
           /\ u[i].kind = q[i].kind /\ u[i].id = q[i].id /\ u[i].value = q[i].value
           /\ u[i].kind = "deliveries" => ~u[i].live
  BY UncalledIs
<1>2. x \in Requests /\ x.kind = "deliveries"
  BY AskIs
<1>3. Refetch(q, e) = Append(u, x)
  BY DEF Refetch, Uncalled
<1>4. \A keys : Keyed(q, keys) => Keyed(u, keys)
  BY KeyedUncalled
<1> HIDE DEF u, x
<1>5. /\ Append(u, x) \in Seq(Requests) /\ Append(u, x) # <<>>
      /\ \A i \in 1 .. Len(u) : Append(u, x)[i] = u[i]
  BY <1>1, <1>2, AppendIs
<1>6. \A keys : Keyed(q, keys) => Keyed(Append(u, x), keys)
  BY <1>1, <1>2, <1>4, KeyedOther DEF ForButton
<1>7. \A r \in Asked(Append(u, x)) :
        \/ r = x
        \/ /\ r.kind = "deliveries" => ~r.live
           /\ \E s \in Asked(q) : r.kind = s.kind /\ r.id = s.id
  <2>1. Asked(Append(u, x)) = Asked(u) \cup {x}
    BY <1>1, <1>2, AskedAppend
  <2> QED
    BY <1>1, <2>1 DEF Asked
<1>8. q # <<>> => /\ Append(u, x)[1].kind = q[1].kind /\ Append(u, x)[1].id = q[1].id
                  /\ Append(u, x)[1].value = q[1].value
  <2>1. q # <<>> => 1 \in 1 .. Len(q)
    BY TailIs
  <2> QED
    BY <1>1, <1>5, <2>1
<1> QED
  BY <1>3, <1>5, <1>6, <1>7, <1>8 DEF x

LEMMA RefreshIs ==
    ASSUME NEW q \in Seq(Requests)
    PROVE  /\ Refresh(q) \in Seq(Requests)
           /\ \A keys : Keyed(q, keys) => Keyed(Refresh(q), keys)
           /\ Asked(Refresh(q)) = Asked(q) \cup {Ask("refresh", None, None)}
           /\ Ask("refresh", None, None).kind = "refresh"
<1> DEFINE x == Ask("refresh", None, None)
<1>1. x \in Requests /\ x.kind = "refresh"
  BY AskIs
<1>2. Refresh(q) = Append(q, x)
  BY DEF Refresh
<1> HIDE DEF x
<1>3. /\ Append(q, x) \in Seq(Requests) /\ Asked(Append(q, x)) = Asked(q) \cup {x}
      /\ \A keys : Keyed(q, keys) => Keyed(Append(q, x), keys)
  BY <1>1, AppendIs, AskedAppend, KeyedOther DEF ForButton
<1> QED
  BY <1>1, <1>2, <1>3 DEF x

\* The queue grows at its end, or a fetch in it is called off.
HeadStays ==
    queue # <<>> => /\ queue' # <<>> /\ queue'[1].kind = queue[1].kind
                    /\ queue'[1].id = queue[1].id /\ queue'[1].value = queue[1].value

LEMMA HeadStaysInAppend ==
    ASSUME NEW x \in Requests, queue \in Seq(Requests), queue' = Append(queue, x)
    PROVE  HeadStays
<1>1. queue # <<>> => 1 \in 1 .. Len(queue)
  BY TailIs
<1> QED
  BY <1>1, AppendIs DEF HeadStays

LEMMA AnswerStays ==
    ASSUME PanelInv, HeadStays, UNCHANGED <<secret, answer>>
    PROVE  \A e : /\ JustCreated(e)' <=> JustCreated(e)
                  /\ Switched(e)' <=> Switched(e)
                  /\ Known(e)' <=> Known(e)
BY DEF PanelInv, AnswerSound, HeadStays, JustCreated, Switched, Known

-----------------------------------------------------------------------------
(* Lemmas about what is shown                                              *)

LEMMA ShownIs ==
    ASSUME PanelTyped
    PROVE  /\ Shown \in Nat \cup {None}
           /\ Shown # None => /\ revealedSecret \in Revealed /\ revealedSecret # None
                              /\ revealedSecret.id = selectedId
                              /\ Shown = revealedSecret.secret
BY DEF PanelTyped, Revealed, Shown

LEMMA RevealedIsNone == None \notin Revealed /\ None \notin Answer /\ None \notin Nat
BY NoneAssumption, EndpointsAssumption DEF Revealed, Answer, Row

\* What goes from the page is remembered, and what stays is not.
LEMMA HistoryIs ==
    ASSUME PanelTyped, SecretsKnown, History
    PROVE  /\ gone' \subseteq Nat /\ \A s \in gone' : s <= issued
           /\ gone' \subseteq gone \cup {Shown}
           /\ Shown' \in {Shown, None} => Shown' \notin gone'
           /\ Shown' = Shown => gone' = gone
<1>1. gone \subseteq Nat /\ Shown \in Nat \cup {None} /\ Shown \notin gone /\ None \notin Nat
  BY ShownIs, RevealedIsNone DEF PanelTyped, SecretsKnown
<1>2. /\ \A s \in gone : s <= issued
      /\ Shown # None => Shown <= issued
  BY ShownIs DEF SecretsKnown
<1>3. gone' = IF Shown # None /\ Shown' # Shown THEN gone \cup {Shown} ELSE gone
  BY DEF History
<1> QED
  BY <1>1, <1>2, <1>3

-----------------------------------------------------------------------------
(* The first state                                                         *)

\* The rows of the table at the start, each once.
LEMMA SeqOfIs ==
    /\ SeqOf(Existing) \in Seq(Existing)
    /\ \A e \in Existing : \E i \in 1 .. Len(SeqOf(Existing)) : SeqOf(Existing)[i] = e
<1> DEFINE n == Cardinality(Existing)
           Enumerates(s) == \A e \in Existing : \E i \in DOMAIN s : s[i] = e
<1>1. IsFiniteSet(Existing)
  BY EndpointsAssumption, FS_Subset DEF Endpoints
<1>2. n \in Nat /\ ExistsBijection(1 .. n, Existing)
  BY <1>1, FS_CardinalityType
<1> HIDE DEF n
<1>3. PICK f \in Bijection(1 .. n, Existing) : TRUE
  BY <1>2 DEF ExistsBijection
<1>4. f \in [1 .. n -> Existing] /\ Enumerates(f)
  BY <1>3 DEF Bijection, Injection, Surjection
<1>5. SeqOf(Existing) = CHOOSE s \in [1 .. n -> Existing] : Enumerates(s)
  BY DEF SeqOf, n
<1>6. \E s \in [1 .. n -> Existing] : Enumerates(s)
  BY <1>4
<1>7. SeqOf(Existing) \in [1 .. n -> Existing] /\ Enumerates(SeqOf(Existing))
  BY <1>5, <1>6
<1> QED
  BY <1>2, <1>7, SeqOfFunction

\* The rows of a listing are views of the table's.
LEMMA ListingIs ==
    ASSUME order \in Seq(Endpoints), active \in [Endpoints -> BOOLEAN]
    PROVE  /\ Listing \in Seq(Row) /\ Len(Listing) = Len(order) /\ Len(order) \in Nat
           /\ \A i \in 1 .. Len(order) :
                Listing[i] = EndpointView(order[i]) /\ Listing[i].id = order[i] /\ order[i] \in Endpoints
<1>1. Len(order) \in Nat /\ \A i \in 1 .. Len(order) : order[i] \in Endpoints
  OBVIOUS
<1>2. \A e \in Endpoints : EndpointView(e) \in Row /\ EndpointView(e).id = e
  BY DEF EndpointView, Row
<1>3. \A i \in 1 .. Len(order) : Listing[i] = EndpointView(order[i])
  BY DEF Listing
<1>4. Listing \in [1 .. Len(order) -> Row]
  <2>1. Listing = [i \in 1 .. Len(order) |-> Listing[i]]
    BY DEF Listing
  <2> QED
    BY <1>1, <1>2, <1>3, <2>1
<1>5. Listing \in Seq(Row) /\ Len(Listing) = Len(order)
  BY <1>1, <1>4, SeqOfFunction
<1> QED
  BY <1>1, <1>2, <1>3, <1>5

LEMMA ListingLists ==
    ASSUME order \in Seq(Endpoints), active \in [Endpoints -> BOOLEAN], OrderSound
    PROVE  /\ InOrder(Listing)
           /\ \A e \in Endpoints : secret[e] # None => Lists(Listing, e)
           /\ \A i \in 1 .. Len(Listing) : secret[Listing[i].id] # None
BY ListingIs DEF InOrder, Lists, OrderSound

LEMMA PanelInvInit == Init => PanelInv
<1> SUFFICES ASSUME Init PROVE PanelInv
  OBVIOUS
<1>1. /\ order \in Seq(Existing) /\ order \in Seq(Endpoints) /\ order # <<>>
      /\ Len(order) \in Nat /\ 1 \in 1 .. Len(order) /\ order[1] \in Existing
      /\ \A e \in Existing : \E i \in 1 .. Len(order) : order[i] = e
      /\ \A i \in 1 .. Len(order) : order[i] \in Existing
  <2>1. order \in Seq(Existing) /\ \A e \in Existing : \E i \in 1 .. Len(order) : order[i] = e
    BY SeqOfIs DEF Init
  <2>2. Existing \subseteq Endpoints /\ Watched \in Existing
    BY EndpointsAssumption DEF Endpoints
  <2>3. Len(order) # 0 /\ Len(order) \in Nat
    BY <2>1, <2>2
  <2> QED
    BY <2>1, <2>2, <2>3
<1>2. /\ \A e \in Existing : secret[e] \in 1 .. Len(order)
      /\ \A e \in Added : secret[e] = None
      /\ secret \in [Endpoints -> Nat \cup {None}]
      /\ issued = Len(order) /\ None \notin Nat
  <2>1. secret = [e \in Endpoints |-> IF e \in Added THEN None
                                      ELSE CHOOSE i \in 1 .. Len(order) : order[i] = e]
    BY DEF Init
  <2>2. \A e \in Existing : e \notin Added /\ e \in Endpoints
    BY EndpointsAssumption DEF Endpoints
  <2>3. \A e \in Existing : secret[e] \in 1 .. Len(order)
    BY <1>1, <2>1, <2>2
  <2>4. \A e \in Added : secret[e] = None
    BY <2>1 DEF Endpoints
  <2>5. \A e \in Endpoints : secret[e] \in Nat \cup {None}
    BY <2>3, <2>4 DEF Endpoints
  <2> QED
    BY <2>1, <2>3, <2>4, <2>5, EndpointsAssumption DEF Init
<1>3. /\ active = [e \in Endpoints |-> e \in Existing] /\ active \in [Endpoints -> BOOLEAN]
      /\ list = Listing /\ selectedId = order[1] /\ queue = <<Ask("deliveries", order[1], None)>>
      /\ answer = None /\ revealedSecret = None /\ busyKeys = {} /\ deliveriesOf = None
      /\ drawer = [open |-> FALSE, form |-> "blank", submitting |-> FALSE]
      /\ installed = secret[Watched]
      /\ delivery = [state |-> "none", secret |-> None, sound |-> FALSE, attempts |-> 0]
      /\ behind = {} /\ gone = {}
  BY <1>1 DEF Init
<1>4. OrderSound
  BY <1>1, <1>2 DEF OrderSound, Endpoints
<1>5. PanelTyped
  <2>1. Ask("deliveries", order[1], None) \in Requests
    BY <1>1, AskIs DEF Endpoints
  <2>2. queue \in Seq(Requests)
    BY <1>3, <2>1
  <2>3. list \in Seq(Row)
    BY <1>1, <1>3, ListingIs
  <2>4. delivery \in Delivery
    BY <1>3, BoundsAssumption DEF Delivery
  <2>5. secret[Watched] \in Nat /\ secret[Watched] # None
    BY <1>1, <1>2, EndpointsAssumption
  <2>6. selectedId \in Endpoints
    BY <1>1, <1>3 DEF Endpoints
  <2> QED
    BY <1>1, <1>2, <1>3, <2>2, <2>3, <2>4, <2>5, <2>6 DEF PanelTyped
<1>6. \A e \in Existing : Known(e)
  BY <1>1, <1>2, <1>3 DEF Known, JustCreated, Endpoints
<1>7. QueueSound
  <2> DEFINE x == Ask("deliveries", order[1], None)
  <2>1. x \in Requests /\ x.kind = "deliveries" /\ x.id = order[1]
    BY <1>1, AskIs DEF Endpoints
  <2> HIDE DEF x
  <2>2. Keyed(<<>>, {})
    BY DEF Keyed, Asked
  <2>3. Append(<<>>, x) = <<x>> /\ <<>> \in Seq(Requests)
    BY <2>1
  <2>4. Keyed(<<x>>, {})
    BY <2>1, <2>2, <2>3, KeyedOther DEF ForButton
  <2>5. Asked(<<x>>) = {x}
    BY DEF Asked
  <2>6. RequestSound(x)
    BY <1>1, <1>3, <1>6, <2>1 DEF RequestSound
  <2>7. queue = <<x>>
    BY <1>3 DEF x
  <2> QED
    BY <1>3, <2>4, <2>5, <2>6, <2>7 DEF QueueSound
<1>8. PageSound
  <2>1. \A i \in 1 .. Len(list) : list[i].id \in Existing
    BY <1>1, <1>3, ListingIs
  <2> QED
    BY <1>1, <1>3, <1>6, <2>1 DEF PageSound
<1>9. AnswerSound
  BY <1>3 DEF AnswerSound
<1>10. SecretsKnown
  <2>1. Shown \notin gone
    BY <1>3
  <2>2. secret[Watched] \in 1 .. Len(order) /\ \A e \in Endpoints : secret[e] # None => secret[e] <= issued
    BY <1>1, <1>2, EndpointsAssumption DEF Endpoints
  <2> QED
    BY <1>1, <1>2, <1>3, <2>1, <2>2 DEF SecretsKnown
<1>11. DeliverySound
  BY <1>3, BoundsAssumption DEF DeliverySound, NewSecretVerifies
<1>12. ListSound
  <2>1. InOrder(list) /\ \A e \in Endpoints : secret[e] # None => Lists(list, e)
    BY <1>1, <1>3, <1>4, ListingLists
  <2>2. \A e \in Endpoints : Lists(list, e) => e \in Listed
    BY DEF Lists, Listed, EndpointView
  <2> QED
    BY <1>3, <2>1, <2>2 DEF ListSound
<1> QED
  BY <1>4, <1>5, <1>7, <1>8, <1>9, <1>10, <1>11, <1>12 DEF PanelInv

-----------------------------------------------------------------------------
(* What a step that leaves a part alone keeps of it                        *)

LEMMA TableFrame ==
    ASSUME PanelInv, HeadStays, UNCHANGED <<table, answer, list, behind>>
    PROVE  AnswerSound' /\ OrderSound' /\ ListSound'
<1>1. /\ AnswerSound /\ OrderSound /\ ListSound
      /\ UNCHANGED <<active, secret, order, answer, list, behind>>
  BY DEF PanelInv, table
<1>2. \A e : JustCreated(e)' <=> JustCreated(e)
  BY <1>1, AnswerStays
<1>3. \A e : Switched(e)' <=> Switched(e)
  BY <1>1, AnswerStays
<1>4. answer # None => queue # <<>>
  BY <1>1 DEF AnswerSound
<1>5. AnswerSound'
  BY <1>1, <1>2, <1>4 DEF AnswerSound, HeadStays
<1>6. OrderSound'
  BY <1>1 DEF OrderSound
<1>7. UNCHANGED Listed /\ \A rows : InOrder(rows)' <=> InOrder(rows)
  BY <1>1 DEF Listed, InOrder
<1>8. /\ \A e : EndpointView(e)' = EndpointView(e)
      /\ \A rows, e : Lists(rows, e)' <=> Lists(rows, e)
  BY <1>1 DEF EndpointView, Lists
<1>9. answer # None => queue'[1].kind = queue[1].kind /\ queue'[1].value = queue[1].value
  BY <1>4 DEF HeadStays
<1>10. ListSound'
  <2>1. ASSUME NEW e \in Endpoints \ behind, secret[e] # None
        PROVE  \/ JustCreated(e)'
               \/ answer # None /\ e \in answer.told
               \/ e \in Listed' /\ (Switched(e)' \/ Lists(list, e)')
    BY <1>1, <1>2, <1>3, <1>7, <1>8, <2>1 DEF ListSound
  <2>2. InOrder(list)'
    BY <1>1, <1>7 DEF ListSound, InOrder
  <2>3. ASSUME answer # None
        PROVE  /\ InOrder(answer.rows)'
               /\ Switched(answer.id)' /\ answer.id \notin behind =>
                    active[answer.id] = (queue'[1].value = "on")
               /\ JustCreated(answer.id)' /\ answer.id \notin behind => active[answer.id]
    BY <1>1, <1>2, <1>3, <1>9, <2>3 DEF ListSound, InOrder, Switched, JustCreated
  <2>4. ASSUME answer # None, queue'[1].kind = "refresh", NEW e \in Endpoints \ behind, secret[e] # None
        PROVE  Lists(answer.rows, e)'
    BY <1>1, <1>9, <2>4 DEF ListSound, Lists, EndpointView
  <2> QED
    BY <1>1, <2>1, <2>2, <2>3, <2>4 DEF ListSound, JustCreated, Switched, Lists, EndpointView
<1> QED
  BY <1>5, <1>6, <1>10

LEMMA SecretsFrame ==
    ASSUME PanelInv, History, UNCHANGED <<table, answer, behind>>,
           revealedSecret' \in {revealedSecret, None}, Shown' \in {Shown, None},
           \/ installed' = installed
           \/ installed' = Shown /\ Shown # None /\ selectedId = Watched
    PROVE  SecretsKnown'
<1>1. PanelTyped /\ SecretsKnown /\ UNCHANGED <<secret, issued, answer, behind>>
  BY DEF PanelInv, table
<1>2. /\ \A s \in gone' : s <= issued
      /\ gone' \subseteq gone \cup {Shown} /\ Shown' \notin gone'
  BY <1>1, HistoryIs
<1>3. Shown # None => /\ revealedSecret # None /\ revealedSecret.id = selectedId
                      /\ Shown = revealedSecret.secret
  BY <1>1, ShownIs
<1>4. \A e, s : Current(e, s)' <=> Current(e, s)
  BY <1>1 DEF Current
<1>5. /\ installed' <= issued
      /\ <<"secret", Watched>> \in behind => installed' # secret[Watched]
  BY <1>1, <1>3 DEF SecretsKnown, Current
<1>6. answer # None /\ answer.secret # None =>
        /\ answer.secret <= issued /\ Current(answer.id, answer.secret)
        /\ answer.secret \notin gone'
        /\ revealedSecret' # None => revealedSecret'.secret # answer.secret
  BY <1>1, <1>2, <1>3 DEF SecretsKnown
<1>7. revealedSecret' # None =>
        revealedSecret'.secret <= issued /\ Current(revealedSecret'.id, revealedSecret'.secret)
  BY <1>1 DEF SecretsKnown
<1> QED
  BY <1>1, <1>2, <1>4, <1>5, <1>6, <1>7 DEF SecretsKnown, Current

LEMMA DeliveryFrame ==
    ASSUME PanelInv, UNCHANGED <<secret, receiver>>
    PROVE  DeliverySound'
BY DEF PanelInv, DeliverySound, receiver, NewSecretVerifies

LEMMA PageFrame ==
    ASSUME PanelInv, UNCHANGED <<secret, queue, answer, list, selectedId, revealedSecret, busyKeys>>
    PROVE  QueueSound' /\ PageSound'
<1>1. QueueSound /\ PageSound
  BY DEF PanelInv
<1>2. HeadStays
  BY DEF HeadStays
<1>3. \A e : Known(e)' <=> Known(e)
  BY <1>2, AnswerStays
<1>4. \A r : RequestSound(r)' <=> RequestSound(r)
  BY <1>3 DEF RequestSound
<1>5. QueueSound'
  BY <1>1, <1>4 DEF QueueSound, Keyed, Asked
<1>6. PageSound'
  BY <1>1, <1>3 DEF PageSound
<1> QED
  BY <1>5, <1>6

-----------------------------------------------------------------------------
(* The tab: every click keeps the invariant                                *)

LEMMA SelectKeeps ==
    ASSUME PanelInv, NEW e \in Endpoints, HandleSelect(e), History
    PROVE  PanelInv'
<1>1. /\ PanelTyped /\ QueueSound /\ PageSound /\ SecretsKnown /\ None \notin Endpoints
      /\ queue \in Seq(Requests)
  BY EndpointsAssumption DEF PanelInv, PanelTyped
<1>2. /\ e \in Listed /\ revealedSecret' = None /\ selectedId' = e /\ queue' = Refetch(queue, e)
      /\ UNCHANGED <<table, answer, list, busyKeys, deliveriesOf, drawer, receiver, behind>>
  BY DEF HandleSelect
<1> DEFINE x == Ask("deliveries", e, None)
<1>3. /\ queue' \in Seq(Requests) /\ Keyed(queue', busyKeys)
      /\ \A r \in Asked(queue') :
           \/ r = x
           \/ /\ r.kind = "deliveries" => ~r.live
              /\ \E s \in Asked(queue) : r.kind = s.kind /\ r.id = s.id
      /\ HeadStays
  BY <1>1, <1>2, RefetchIs DEF QueueSound, HeadStays
<1>4. x.kind = "deliveries" /\ x.id = e
  BY AskIs
<1> HIDE DEF x
<1>5. Shown' = None
  BY <1>2 DEF Shown
<1>6. AnswerSound' /\ OrderSound' /\ ListSound'
  BY <1>2, <1>3, TableFrame
<1>7. SecretsKnown'
  BY <1>2, <1>5, SecretsFrame DEF receiver
<1>8. DeliverySound'
  BY <1>2, DeliveryFrame DEF table
<1>9. \A d : Known(d)' <=> Known(d)
  BY <1>2, <1>3, AnswerStays DEF table
<1>10. Known(e)
  BY <1>1, <1>2 DEF Listed, PageSound
<1>11. QueueSound'
  <2>1. ASSUME NEW r \in Asked(queue')
        PROVE  RequestSound(r)'
    <3>1. CASE r = x
      BY <1>2, <1>4, <1>9, <1>10, <3>1 DEF RequestSound
    <3>2. CASE r # x
      <4>1. PICK s \in Asked(queue) : r.kind = s.kind /\ r.id = s.id
        BY <1>3, <3>2
      <4>2. RequestSound(s) /\ (r.kind = "deliveries" => ~r.live)
        BY <1>1, <1>3, <3>2 DEF QueueSound
      <4> QED
        BY <1>1, <1>2, <1>9, <4>1, <4>2 DEF RequestSound
    <3> QED
      BY <3>1, <3>2
  <2>2. \A r \in Asked(queue') : RequestSound(r)'
    BY <2>1
  <2>3. Keyed(queue', busyKeys')
    BY <1>2, <1>3
  <2> QED
    BY <2>2, <2>3 DEF QueueSound, Keyed, Asked
<1>12. PageSound'
  BY <1>1, <1>2, <1>9, <1>10 DEF PageSound
<1>13. PanelTyped'
  <2>1. gone' \subseteq Nat
    BY <1>1, HistoryIs
  <2> QED
    BY <1>1, <1>2, <1>3, <2>1 DEF PanelTyped, table, receiver
<1> QED
  BY <1>6, <1>7, <1>8, <1>11, <1>12, <1>13 DEF PanelInv

\* A click that sends a request.
LEMMA SendKeeps ==
    ASSUME PanelInv, History,
           NEW x \in Requests, RequestSound(x), queue' = Append(queue, x),
           \/ x.kind \in ForButton /\ x.id \in Endpoints /\ Start(Key(x))
           \/ x.kind = "create" /\ busyKeys' = busyKeys,
           UNCHANGED <<table, answer, list, selectedId, revealedSecret, deliveriesOf, receiver,
                       behind>>,
           drawer' \in [open : BOOLEAN, form : {"blank", "filled"}, submitting : BOOLEAN]
    PROVE  PanelInv'
<1>1. /\ PanelTyped /\ QueueSound /\ PageSound /\ SecretsKnown /\ queue \in Seq(Requests)
      /\ UNCHANGED <<active, secret, order, issued, installed, delivery>>
  BY DEF PanelInv, PanelTyped, table, receiver
<1>2. queue' \in Seq(Requests) /\ Asked(queue') = Asked(queue) \cup {x} /\ HeadStays
  BY <1>1, AppendIs, AskedAppend, HeadStaysInAppend
<1>3. Keyed(queue', busyKeys') /\ busyKeys' \subseteq {"toggle", "regenerate"} \X Endpoints
  <2>1. CASE x.kind \in ForButton /\ x.id \in Endpoints /\ Start(Key(x))
    <3>1. Key(x) \notin busyKeys /\ busyKeys' = busyKeys \cup {Key(x)}
          /\ Key(x) \in {"toggle", "regenerate"} \X Endpoints
      BY <2>1 DEF Start, Key, ForButton
    <3>2. Keyed(queue, busyKeys)
      BY <1>1 DEF QueueSound
    <3> QED
      BY <1>1, <2>1, <3>1, <3>2, KeyedButton DEF PanelTyped
  <2>2. CASE x.kind = "create" /\ busyKeys' = busyKeys
    BY <1>1, <2>2, KeyedOther DEF QueueSound, PanelTyped, ForButton
  <2> QED
    BY <2>1, <2>2
<1>4. AnswerSound' /\ OrderSound' /\ ListSound'
  BY <1>2, TableFrame
<1>5. Shown' = Shown
  BY DEF Shown
<1>6. SecretsKnown'
  BY <1>1, <1>5, SecretsFrame
<1>7. DeliverySound'
  BY <1>1, DeliveryFrame
<1>8. \A d : Known(d)' <=> Known(d)
  BY <1>1, <1>2, AnswerStays
<1>9. \A r \in Asked(queue') : RequestSound(r)'
  BY <1>1, <1>2, <1>8 DEF QueueSound, RequestSound
<1>10. QueueSound'
  BY <1>3, <1>9 DEF QueueSound, Keyed, Asked
<1>11. PageSound'
  BY <1>1, <1>8 DEF PageSound
<1>12. PanelTyped'
  <2>1. gone' \subseteq Nat
    BY <1>1, HistoryIs
  <2> QED
    BY <1>1, <1>2, <1>3, <2>1 DEF PanelTyped
<1> QED
  BY <1>4, <1>6, <1>7, <1>10, <1>11, <1>12 DEF PanelInv

LEMMA ToggleKeeps ==
    ASSUME PanelInv, NEW i \in 1 .. Len(list), HandleToggle(i), History
    PROVE  PanelInv'
<1>1. PanelTyped /\ PageSound /\ list[i] \in Row
  BY DEF PanelInv, PanelTyped
<1> DEFINE v == IF list[i].isActive THEN "off" ELSE "on"
           x == Ask("toggle", list[i].id, v)
<1>2. list[i].id \in Endpoints /\ v \in {None, "on", "off", "blank", "filled"}
  BY <1>1 DEF Row
<1>3. x \in Requests /\ x.kind = "toggle" /\ x.id = list[i].id
  BY <1>2, AskIs
<1>4. /\ Start(Key(x)) /\ queue' = Append(queue, x)
      /\ UNCHANGED <<table, answer, list, selectedId, revealedSecret, deliveriesOf, drawer,
                     receiver, behind>>
  BY DEF HandleToggle
<1> HIDE DEF x
<1>5. RequestSound(x)
  BY <1>1, <1>3 DEF PageSound, RequestSound
<1> QED
  BY <1>1, <1>2, <1>3, <1>4, <1>5, SendKeeps DEF ForButton, PanelTyped

LEMMA RegenerateKeeps ==
    ASSUME PanelInv, HandleRegenerate, History
    PROVE  PanelInv'
<1> DEFINE x == Ask("regenerate", selectedId, None)
<1>1. /\ PanelTyped /\ PageSound /\ selectedId \in Listed /\ Shown = None
      /\ None \notin Endpoints /\ None \notin Nat
  BY EndpointsAssumption DEF PanelInv, HandleRegenerate
<1>2. selectedId \in Endpoints /\ selectedId # None /\ Known(selectedId)
  BY <1>1 DEF Listed, PageSound, Known
<1>3. x \in Requests /\ x.kind = "regenerate" /\ x.id = selectedId
  BY <1>2, AskIs
<1>4. /\ Start(Key(x)) /\ queue' = Append(queue, x)
      /\ UNCHANGED <<table, answer, list, selectedId, revealedSecret, deliveriesOf, drawer,
                     receiver, behind>>
  BY DEF HandleRegenerate
<1> HIDE DEF x
<1>5. revealedSecret = None \/ revealedSecret.id # selectedId
  BY <1>1 DEF Shown, PanelTyped, Revealed
<1>6. RequestSound(x)
  BY <1>2, <1>3, <1>5 DEF RequestSound
<1> QED
  BY <1>1, <1>2, <1>3, <1>4, <1>6, SendKeeps DEF ForButton, PanelTyped

LEMMA SubmitKeeps ==
    ASSUME PanelInv, HandleSubmit, History
    PROVE  PanelInv'
<1> DEFINE x == Ask("create", None, drawer.form)
<1>1. drawer \in [open : BOOLEAN, form : {"blank", "filled"}, submitting : BOOLEAN]
  BY DEF PanelInv, PanelTyped
<1>2. x \in Requests /\ x.kind = "create" /\ x.id = None
  BY <1>1, AskIs
<1>3. /\ queue' = Append(queue, x) /\ drawer' = [drawer EXCEPT !.submitting = TRUE]
      /\ UNCHANGED <<table, answer, list, selectedId, revealedSecret, busyKeys, deliveriesOf,
                     receiver, behind>>
  BY DEF HandleSubmit
<1> HIDE DEF x
<1>4. RequestSound(x)
  BY <1>2 DEF RequestSound
<1> QED
  BY <1>1, <1>2, <1>3, <1>4, SendKeeps

\* The drawer and the merchant's server leave the queue and the rows alone.
LEMMA OutsideKeeps ==
    ASSUME PanelInv, UseDrawer \/ Copy \/ TriggerWebhook \/ Load \/ Post, History
    PROVE  PanelInv'
<1>1. /\ UNCHANGED <<active, secret, order, issued, queue, answer, list, selectedId,
                     revealedSecret, busyKeys, deliveriesOf, behind>>
      /\ UNCHANGED table
  BY DEF UseDrawer, Copy, TriggerWebhook, Load, Post, page, table
<1>2. /\ PanelTyped /\ SecretsKnown /\ DeliverySound /\ Shown' = Shown
      /\ delivery \in Delivery /\ secret \in [Endpoints -> Nat \cup {None}]
      /\ drawer \in [open : BOOLEAN, form : {"blank", "filled"}, submitting : BOOLEAN]
  BY <1>1 DEF PanelInv, PanelTyped, Shown
<1>3. AnswerSound' /\ OrderSound' /\ ListSound'
  <2>1. HeadStays
    BY <1>1 DEF HeadStays
  <2> QED
    BY <1>1, <2>1, TableFrame
<1>4. QueueSound' /\ PageSound'
  BY <1>1, PageFrame
<1>5. installed' = installed \/ (installed' = Shown /\ Shown # None /\ selectedId = Watched)
  BY DEF UseDrawer, Copy, TriggerWebhook, Load, Post, receiver
<1>6. SecretsKnown'
  BY <1>1, <1>2, <1>5, SecretsFrame
<1>7. installed' \in Nat
  BY <1>2, <1>5, ShownIs DEF PanelTyped
<1>8. drawer' \in [open : BOOLEAN, form : {"blank", "filled"}, submitting : BOOLEAN]
  <2>1. CASE UseDrawer
    BY <1>2, <2>1 DEF UseDrawer
  <2>2. CASE ~UseDrawer
    BY <1>2, <2>2 DEF Copy, TriggerWebhook, Load, Post, page
  <2> QED
    BY <2>1, <2>2
<1>9. delivery' \in Delivery /\ DeliverySound'
  <2>1. CASE UseDrawer
    BY <1>1, <1>2, <2>1, DeliveryFrame DEF UseDrawer, receiver
  <2>2. CASE Copy
    <3>1. Shown = revealedSecret.secret /\ revealedSecret.id = Watched /\ revealedSecret # None
          /\ installed' = Shown /\ installed # Shown /\ delivery' = delivery
      BY <1>2, <2>2, ShownIs DEF Copy
    <3>2. installed # secret[Watched]
      BY <1>2, <3>1 DEF SecretsKnown, Current
    <3> QED
      BY <1>1, <1>2, <3>1, <3>2 DEF DeliverySound, NewSecretVerifies
  <2>3. CASE TriggerWebhook
    <3>1. delivery' = [delivery EXCEPT !.state = "due"] /\ installed' = installed /\ delivery.state = "none"
      BY <2>3 DEF TriggerWebhook
    <3>2. /\ delivery' \in Delivery /\ delivery'.state = "due"
          /\ delivery'.attempts = delivery.attempts
      BY <1>2, <3>1 DEF Delivery
    <3> QED
      BY <1>2, <3>1, <3>2 DEF DeliverySound, NewSecretVerifies
  <2>4. CASE Load
    <3> DEFINE b == installed = secret[Watched]
    <3>1. /\ delivery' = [delivery EXCEPT !.state = "loaded", !.sound = b,
                                          !.secret = secret[Watched]]
          /\ installed' = installed /\ delivery.state = "due" /\ secret[Watched] \in Nat \cup {None}
          /\ b \in BOOLEAN
      BY <1>2, <2>4, EndpointsAssumption DEF Load, Endpoints
    <3> HIDE DEF b
    <3>2. /\ delivery' \in Delivery /\ delivery'.state = "loaded"
          /\ delivery'.secret = secret[Watched] /\ delivery'.sound = b
          /\ delivery'.attempts = delivery.attempts
      BY <1>2, <3>1 DEF Delivery
    <3> QED
      BY <1>1, <1>2, <3>1, <3>2 DEF DeliverySound, NewSecretVerifies, b
  <2>5. CASE Post
    <3>1. installed' = installed /\ delivery.state = "loaded"
      BY <2>5 DEF Post
    <3>2. CASE ~Verify
      <4>1. delivery' = [delivery EXCEPT !.state = "rejected"]
        BY <2>5, <3>2 DEF Post
      <4>2. delivery' \in Delivery /\ delivery'.state = "rejected" /\ delivery'.sound = delivery.sound
        BY <1>2, <4>1 DEF Delivery
      <4>3. ~delivery.sound
        BY <1>2, <3>1, <3>2 DEF DeliverySound, Verify
      <4> QED
        BY <4>2, <4>3 DEF DeliverySound, NewSecretVerifies
    <3>3. CASE delivery' = [delivery EXCEPT !.state = "delivered"]
      <4>1. delivery' \in Delivery /\ delivery'.state = "delivered"
        BY <1>2, <3>3 DEF Delivery
      <4> QED
        BY <4>1 DEF DeliverySound, NewSecretVerifies
    <3>4. CASE delivery' = [delivery EXCEPT !.attempts = @ + 1,
                    !.state = IF delivery.attempts + 1 < MAX_ATTEMPTS THEN "due" ELSE "failed"]
      <4> DEFINE n == delivery.attempts + 1
                 z == IF n < MAX_ATTEMPTS THEN "due" ELSE "failed"
      <4>1. n \in 0 .. MAX_ATTEMPTS /\ (z = "due" => n < MAX_ATTEMPTS)
        BY <1>2, <3>1, BoundsAssumption DEF Delivery, DeliverySound
      <4>2. delivery' = [delivery EXCEPT !.attempts = n, !.state = z] /\ z \in {"due", "failed"}
        BY <3>4
      <4> HIDE DEF n, z
      <4>3. delivery' \in Delivery /\ delivery'.state = z /\ delivery'.attempts = n
        BY <1>2, <4>1, <4>2 DEF Delivery
      <4> QED
        BY <4>1, <4>2, <4>3 DEF DeliverySound, NewSecretVerifies
    <3> QED
      BY <2>5, <3>2, <3>3, <3>4 DEF Post
  <2> QED
    BY <2>1, <2>2, <2>3, <2>4, <2>5
<1>10. PanelTyped'
  <2>1. gone' \subseteq Nat
    BY <1>2, HistoryIs
  <2> QED
    BY <1>1, <1>2, <1>7, <1>8, <1>9, <2>1 DEF PanelTyped
<1> QED
  BY <1>3, <1>4, <1>6, <1>9, <1>10 DEF PanelInv

-----------------------------------------------------------------------------
(* Lemmas about what the gateway does                                      *)

LEMMA PrependIs ==
    ASSUME NEW S, NEW q \in Seq(S), NEW x \in S
    PROVE  /\ <<x>> \o q \in Seq(S) /\ <<x>> \o q # <<>>
           /\ Len(q) \in Nat /\ Len(<<x>> \o q) = Len(q) + 1
           /\ (<<x>> \o q)[1] = x
           /\ \A i \in 1 .. Len(q) : i + 1 \in 1 .. Len(<<x>> \o q) /\ (<<x>> \o q)[i + 1] = q[i]
           /\ \A i \in 1 .. Len(<<x>> \o q) :
                i = 1 \/ (i - 1 \in 1 .. Len(q) /\ (<<x>> \o q)[i] = q[i - 1])
<1>1. Len(<<x>>) = 1 /\ <<x>>[1] = x /\ <<x>> \in Seq(S)
  OBVIOUS
<1> QED
  BY <1>1

LEMMA SaysIs ==
    ASSUME NEW ok \in BOOLEAN, NEW e \in Endpoints \cup {None}, NEW s \in Nat \cup {None},
           NEW rows \in Seq(Row), NEW told \in SUBSET Endpoints
    PROVE  /\ Says(ok, e, s, rows, told) \in Answer /\ Says(ok, e, s, rows, told) # None
           /\ Says(ok, e, s, rows, told).ok = ok /\ Says(ok, e, s, rows, told).id = e
           /\ Says(ok, e, s, rows, told).secret = s /\ Says(ok, e, s, rows, told).rows = rows
           /\ Says(ok, e, s, rows, told).told = told
<1>1. Says(ok, e, s, rows, told) \in Answer
  BY DEF Says, Answer
<1> QED
  BY <1>1, RevealedIsNone DEF Says

\* Without an answer under way the list is right, but for rows it was not told of.
LEMMA BeforeServe ==
    ASSUME PanelInv, answer = None, queue # <<>>
    PROVE  /\ \A e \in Endpoints \ behind : secret[e] # None => e \in Listed /\ Lists(list, e)
           /\ \A e : ~JustCreated(e) /\ ~Switched(e)
           /\ Head1 \in Requests /\ Head1 \in Asked(queue) /\ RequestSound(Head1)
           /\ PanelTyped /\ OrderSound /\ SecretsKnown /\ InOrder(list)
           /\ None \notin Endpoints /\ None \notin Nat
<1>1. queue \in Seq(Requests)
  BY DEF PanelInv, PanelTyped
<1>2. Head1 \in Requests /\ Head1 \in Asked(queue)
  BY <1>1, TailIs, AskedTail DEF Head1
<1>3. \A e : ~JustCreated(e) /\ ~Switched(e)
  BY DEF JustCreated, Switched
<1>4. \A e \in Endpoints \ behind : secret[e] # None => e \in Listed /\ Lists(list, e)
  BY <1>3 DEF PanelInv, ListSound
<1> QED
  BY <1>2, <1>3, <1>4, EndpointsAssumption DEF PanelInv, QueueSound, ListSound

\* What the page can be about it still can, when no row goes and only a new one
\* is kept from it.
LEMMA PageServed ==
    ASSUME PanelInv, answer = None, queue # <<>>, UNCHANGED <<queue, page>>,
           \A e \in Endpoints : secret[e] # None => secret'[e] # None /\ ~JustCreated(e)'
    PROVE  QueueSound' /\ PageSound'
<1>1. QueueSound /\ PageSound /\ UNCHANGED <<queue, list, selectedId, revealedSecret, busyKeys>>
  BY DEF PanelInv, page
<1>2. \A e : Known(e) => Known(e)'
  BY DEF Known
<1>3. \A r : RequestSound(r) => RequestSound(r)'
  BY <1>1, <1>2 DEF RequestSound
<1>4. QueueSound'
  BY <1>1, <1>3 DEF QueueSound, Keyed, Asked
<1>5. PageSound'
  BY <1>1, <1>2 DEF PageSound
<1> QED
  BY <1>4, <1>5

LEMMA PageStays ==
    ASSUME PanelTyped, SecretsKnown, UNCHANGED page, History
    PROVE  Shown' = Shown /\ gone' = gone /\ revealedSecret' = revealedSecret
<1>1. Shown' = Shown
  BY DEF page, Shown
<1> QED
  BY <1>1, HistoryIs DEF page

\* No secret is touched.
LEMMA SecretsServed ==
    ASSUME PanelInv, answer = None, UNCHANGED <<secret, issued, page, installed>>, History,
           answer'.secret = None,
           \A e \in Endpoints : <<"secret", e>> \in behind' <=> <<"secret", e>> \in behind
    PROVE  SecretsKnown'
<1>1. PanelTyped /\ SecretsKnown /\ PageSound
  BY DEF PanelInv
<1>2. Shown' = Shown /\ gone' = gone /\ revealedSecret' = revealedSecret
  BY <1>1, PageStays
<1>3. Watched \in Endpoints /\ (revealedSecret # None => revealedSecret.id \in Endpoints)
  BY <1>1, EndpointsAssumption DEF Endpoints, PanelTyped, Revealed
<1> QED
  BY <1>1, <1>2, <1>3 DEF SecretsKnown, Current

\* The row of e gets a new secret, of which the page may be told.
LEMMA SecretsDrawn ==
    ASSUME PanelInv, answer = None, UNCHANGED <<page, installed>>, History,
           NEW e \in Endpoints, issued' = issued + 1, secret' = [secret EXCEPT ![e] = issued'],
           revealedSecret = None \/ revealedSecret.id # e,
           \/ answer'.secret = None
           \/ answer'.secret = issued' /\ answer'.id = e,
           <<"secret", e>> \notin behind',
           \A x \in Endpoints \ {e} : <<"secret", x>> \in behind' <=> <<"secret", x>> \in behind
    PROVE  SecretsKnown' /\ secret' \in [Endpoints -> Nat \cup {None}] /\ issued' \in Nat
<1>1. /\ PanelTyped /\ SecretsKnown /\ issued \in Nat /\ None \notin Nat /\ installed \in Nat
      /\ secret \in [Endpoints -> Nat \cup {None}] /\ gone \subseteq Nat
      /\ revealedSecret # None => revealedSecret.id \in Endpoints /\ revealedSecret.secret \in Nat
      /\ Watched \in Endpoints
  BY EndpointsAssumption DEF PanelInv, PanelTyped, Revealed, Endpoints
<1>2. Shown' = Shown /\ gone' = gone /\ revealedSecret' = revealedSecret
  BY <1>1, PageStays
<1>3. /\ secret' \in [Endpoints -> Nat \cup {None}] /\ issued' \in Nat
      /\ secret'[e] = issued + 1 /\ \A x \in Endpoints \ {e} : secret'[x] = secret[x]
  BY <1>1
<1>4. /\ \A x \in Endpoints : secret'[x] # None => secret'[x] <= issued'
      /\ \A x \in Endpoints : <<"secret", x>> \in behind' => secret'[x] # None
      /\ installed <= issued' /\ \A s \in gone : s <= issued'
  BY <1>1, <1>3 DEF SecretsKnown
<1>5. revealedSecret # None =>
        /\ revealedSecret.secret <= issued /\ revealedSecret.secret <= issued'
        /\ Current(revealedSecret.id, revealedSecret.secret)'
  BY <1>1, <1>2, <1>3 DEF SecretsKnown, Current
<1>6. answer'.secret # None =>
        /\ answer'.secret <= issued' /\ Current(answer.id, answer.secret)'
        /\ answer'.secret \notin gone
        /\ revealedSecret # None => revealedSecret.secret # answer'.secret
  BY <1>1, <1>3, <1>5 DEF SecretsKnown, Current
<1>7. <<"secret", Watched>> \in behind' => installed # secret'[Watched]
  BY <1>1, <1>3 DEF SecretsKnown
<1>8. SecretsKnown'
  BY <1>1, <1>2, <1>4, <1>5, <1>6, <1>7 DEF SecretsKnown, Current
<1> QED
  BY <1>3, <1>8

\* A delivery signed before is not sound any more.
LEMMA DeliveryReplaced ==
    ASSUME PanelInv, UNCHANGED installed, NEW e \in Endpoints,
           issued' = issued + 1, secret' = [secret EXCEPT ![e] = issued'],
           delivery' = IF e = Watched THEN [delivery EXCEPT !.sound = FALSE] ELSE delivery
    PROVE  DeliverySound' /\ delivery' \in Delivery /\ secret'[Watched] # None
<1>1. /\ DeliverySound /\ delivery \in Delivery /\ Watched \in Endpoints
      /\ secret \in [Endpoints -> Nat \cup {None}] /\ issued' \in Nat /\ None \notin Nat
      /\ secret[Watched] # None
  BY EndpointsAssumption DEF PanelInv, PanelTyped, Endpoints
<1>2. /\ delivery' \in Delivery /\ delivery'.state = delivery.state
      /\ delivery'.attempts = delivery.attempts /\ delivery'.secret = delivery.secret
      /\ delivery'.sound => delivery.sound /\ e # Watched
  <2>1. CASE e = Watched
    BY <1>1, <2>1 DEF Delivery
  <2>2. CASE e # Watched
    BY <1>1, <2>2
  <2> QED
    BY <2>1, <2>2
<1>3. secret'[Watched] # None /\ (e # Watched => secret'[Watched] = secret[Watched])
  BY <1>1
<1> QED
  BY <1>1, <1>2, <1>3 DEF DeliverySound, NewSecretVerifies

\* A new row comes first; the others keep their order.
LEMMA OrderGrows ==
    ASSUME PanelInv, NEW e \in Endpoints, secret[e] = None, order' = <<e>> \o order,
           issued' = issued + 1, secret' = [secret EXCEPT ![e] = issued']
    PROVE  /\ OrderSound' /\ order' \in Seq(Endpoints) /\ order' # <<>> /\ order'[1] = e
           /\ \A rows : InOrder(rows) => InOrder(rows)'
           /\ \A x \in Endpoints \ {e} : secret'[x] = secret[x]
           /\ secret'[e] # None /\ e # Watched
<1>1. /\ OrderSound /\ order \in Seq(Endpoints) /\ secret \in [Endpoints -> Nat \cup {None}]
      /\ issued' \in Nat /\ None \notin Nat /\ secret[Watched] # None
  BY EndpointsAssumption DEF PanelInv, PanelTyped
<1>2. /\ order' \in Seq(Endpoints) /\ order' # <<>> /\ order'[1] = e
      /\ Len(order) \in Nat /\ Len(order') = Len(order) + 1
      /\ \A i \in 1 .. Len(order) : i + 1 \in 1 .. Len(order') /\ order'[i + 1] = order[i]
      /\ \A i \in 1 .. Len(order') :
           i = 1 \/ (i - 1 \in 1 .. Len(order) /\ order'[i] = order[i - 1])
  BY <1>1, PrependIs
<1>3. secret'[e] # None /\ \A x \in Endpoints \ {e} : secret'[x] = secret[x]
  BY <1>1
<1>4. ASSUME NEW x \in Endpoints
      PROVE  secret'[x] # None <=> \E i \in 1 .. Len(order') : order'[i] = x
  <2>1. CASE x = e
    <3>1. 1 \in 1 .. Len(order')
      BY <1>2
    <3> QED
      BY <1>2, <1>3, <2>1, <3>1
  <2>2. CASE x # e
    BY <1>1, <1>2, <1>3, <2>2 DEF OrderSound
  <2> QED
    BY <2>1, <2>2
<1>5. ASSUME NEW rows, InOrder(rows)
      PROVE  InOrder(rows)'
  <2>1. ASSUME NEW i \in 1 .. Len(rows), NEW j \in 1 .. Len(rows), i < j
        PROVE  \E k, l \in 1 .. Len(order') :
                  k < l /\ order'[k] = rows[i].id /\ order'[l] = rows[j].id
    <3>1. PICK k \in 1 .. Len(order), l \in 1 .. Len(order) :
             k < l /\ order[k] = rows[i].id /\ order[l] = rows[j].id
      BY <1>5, <2>1 DEF InOrder
    <3>2. /\ k + 1 \in 1 .. Len(order') /\ l + 1 \in 1 .. Len(order') /\ k + 1 < l + 1
          /\ order'[k + 1] = rows[i].id /\ order'[l + 1] = rows[j].id
      BY <1>2, <3>1
    <3> WITNESS k + 1 \in 1 .. Len(order'), l + 1 \in 1 .. Len(order')
    <3> QED
      BY <3>2
  <2> QED
    BY <2>1 DEF InOrder
<1>6. OrderSound'
  BY <1>4 DEF OrderSound
<1> QED
  BY <1>1, <1>2, <1>3, <1>5, <1>6

\* The list stays right about the rows that are as they were.
LEMMA ListServed ==
    ASSUME PanelInv, answer = None, queue # <<>>, UNCHANGED <<queue, list>>, answer' # None,
           \A rows : InOrder(rows) => InOrder(rows)',
           InOrder(answer.rows)',
           \A e \in Endpoints \ behind' : secret'[e] # None =>
              \/ JustCreated(e)'
              \/ e \in answer'.told
              \/ secret[e] # None /\ e \notin behind /\ (Switched(e)' \/ active'[e] = active[e]),
           queue[1].kind = "toggle" /\ answer'.ok /\ answer'.id \notin behind' =>
              active'[answer'.id] = (queue[1].value = "on"),
           queue[1].kind = "create" /\ answer'.ok /\ answer'.id \notin behind' => active'[answer'.id],
           queue[1].kind = "refresh" =>
              \A e \in Endpoints \ behind' : secret'[e] # None => Lists(answer.rows, e)'
    PROVE  ListSound'
<1>1. /\ \A e \in Endpoints \ behind : secret[e] # None => e \in Listed /\ Lists(list, e)
      /\ InOrder(list)
  BY BeforeServe
<1>2. ASSUME NEW e \in Endpoints \ behind', secret'[e] # None
      PROVE  \/ JustCreated(e)'
             \/ e \in answer'.told
             \/ e \in Listed' /\ (Switched(e)' \/ Lists(list, e)')
  <2> SUFFICES ASSUME secret[e] # None, e \notin behind, Switched(e)' \/ active'[e] = active[e]
               PROVE  e \in Listed' /\ (Switched(e)' \/ Lists(list, e)')
    BY <1>2
  <2>1. e \in Listed' /\ Lists(list, e)
    BY <1>1, <1>2 DEF Listed
  <2>2. active'[e] = active[e] => Lists(list, e)'
    BY <2>1 DEF Lists, EndpointView
  <2> QED
    BY <2>1, <2>2
<1>3. InOrder(list)'
  <2>1. PICK rows : rows = list
    OBVIOUS
  <2>2. InOrder(rows)'
    BY <1>1, <2>1
  <2>3. list' = rows
    BY <2>1
  <2> QED
    BY <2>2, <2>3 DEF InOrder
<1>4. /\ Switched(answer.id)' => queue[1].kind = "toggle" /\ answer'.ok
      /\ JustCreated(answer.id)' => queue[1].kind = "create" /\ answer'.ok
  BY DEF Switched, JustCreated
<1> QED
  BY <1>2, <1>3, <1>4 DEF ListSound, JustCreated, Switched, Lists, EndpointView, InOrder

\* An answer without rows.
LEMMA AnswerServed ==
    ASSUME PanelInv, queue # <<>>, queue' = queue,
           NEW ok \in BOOLEAN, NEW e \in Endpoints \cup {None}, NEW s \in Nat \cup {None},
           answer' = Says(ok, e, s, <<>>, {}),
           queue[1].kind # "create" => e = queue[1].id,
           s # None <=> ok /\ queue[1].kind \in {"create", "regenerate"},
           queue[1].kind = "create" /\ ok =>
             e \in Endpoints /\ secret'[e] # None /\ order' # <<>> /\ order'[1] = e
    PROVE  /\ AnswerSound' /\ InOrder(answer.rows)'
           /\ answer' \in Answer /\ answer' # None /\ answer'.ok = ok /\ answer'.id = e
           /\ answer'.secret = s /\ answer'.told = {}
<1> DEFINE rows == <<>>
           told == {}
           a == Says(ok, e, s, rows, told)
<1>1. rows \in Seq(Row) /\ told \in SUBSET Endpoints
  OBVIOUS
<1>2. /\ answer' \in Answer /\ answer' # None /\ answer'.ok = ok /\ answer'.id = e
      /\ answer'.secret = s /\ answer'.told = {} /\ answer'.rows = <<>>
  <2> HIDE DEF rows, told
  <2>1. /\ a \in Answer /\ a # None /\ a.ok = ok /\ a.id = e
        /\ a.secret = s /\ a.told = told /\ a.rows = rows
    BY <1>1, SaysIs
  <2>2. answer' = a
    BY DEF rows, told
  <2> HIDE DEF a
  <2>3. rows = <<>> /\ told = {}
    BY DEF rows, told
  <2> QED
    BY <2>1, <2>2, <2>3
<1>3. AnswerSound'
  BY <1>2 DEF AnswerSound, JustCreated
<1>4. InOrder(answer.rows)'
  BY <1>2 DEF InOrder
<1> QED
  BY <1>2, <1>3, <1>4

\* A listing of deliveries, a refused form, or a failure that changed nothing.
LEMMA ServeNothingKeeps ==
    ASSUME PanelInv, History, queue # <<>>, answer = None,
           UNCHANGED <<table, queue, page, receiver>>,
           NEW ok \in BOOLEAN, answer' = Says(ok, Head1.id, None, <<>>, {}),
           ok => Head1.kind = "deliveries",
           \/ behind' = behind /\ Head1.kind # "refresh"
           \/ behind' = behind \cup Endpoints
    PROVE  PanelInv'
<1>1. /\ PanelTyped /\ OrderSound /\ SecretsKnown
      /\ \A e : ~JustCreated(e) /\ ~Switched(e)
      /\ Head1 \in Requests /\ RequestSound(Head1)
      /\ UNCHANGED <<active, secret, order, issued, installed, delivery, list, queue>>
  BY BeforeServe DEF table, page, receiver
<1>2. /\ AnswerSound' /\ InOrder(answer.rows)'
      /\ answer' \in Answer /\ answer' # None /\ answer'.ok = ok
      /\ answer'.secret = None /\ answer'.told = {}
  BY <1>1, AnswerServed DEF Requests, Head1
<1>3. \A e \in Endpoints : ~JustCreated(e)'
  BY <1>1, <1>2 DEF JustCreated, Head1
<1>4. QueueSound' /\ PageSound'
  BY <1>1, <1>3, PageServed
<1>5. \A e \in Endpoints : <<"secret", e>> \in behind' <=> <<"secret", e>> \in behind
  BY BehindAssumption
<1>6. SecretsKnown'
  BY <1>1, <1>2, <1>5, SecretsServed
<1>7. DeliverySound'
  BY <1>1, DeliveryFrame
<1>8. OrderSound'
  BY <1>1 DEF OrderSound
<1>9. \A rows : InOrder(rows) => InOrder(rows)'
  BY <1>1 DEF InOrder
<1>10. ListSound'
  <2>1. \A e \in Endpoints \ behind' : e \notin behind /\ secret'[e] = secret[e] /\ active'[e] = active[e]
    BY <1>1
  <2>2. queue[1].kind \notin {"toggle", "create"} \/ ~answer'.ok
    BY <1>2 DEF Head1
  <2>3. queue[1].kind = "refresh" => Endpoints \ behind' = {}
    BY DEF Head1
  <2> QED
    BY <1>1, <1>2, <1>9, <2>1, <2>2, <2>3, ListServed
<1>11. PanelTyped'
  <2>1. gone' = gone
    BY <1>1, PageStays
  <2> QED
    BY <1>1, <1>2, <2>1 DEF PanelTyped, page
<1> QED
  BY <1>2, <1>4, <1>6, <1>7, <1>8, <1>10, <1>11 DEF PanelInv

\* A row is switched, whether or not the page will hear of it.
LEMMA ServeSwitchKeeps ==
    ASSUME PanelInv, History, queue # <<>>, answer = None, Head1.kind = "toggle",
           active' = [active EXCEPT ![Head1.id] = (Head1.value = "on")],
           UNCHANGED <<secret, order, issued, queue, page, receiver>>,
           NEW ok \in BOOLEAN, answer' = Says(ok, Head1.id, None, <<>>, {}),
           behind' = IF ok THEN behind ELSE behind \cup {Head1.id}
    PROVE  PanelInv'
<1>1. /\ PanelTyped /\ OrderSound /\ SecretsKnown
      /\ \A e : ~JustCreated(e) /\ ~Switched(e)
      /\ Head1 \in Requests /\ Head1.id \in Endpoints
      /\ UNCHANGED <<installed, delivery, list>>
  BY BeforeServe DEF page, receiver, RequestSound, Known
<1>2. /\ AnswerSound' /\ InOrder(answer.rows)'
      /\ answer' \in Answer /\ answer' # None /\ answer'.ok = ok /\ answer'.id = Head1.id
      /\ answer'.secret = None /\ answer'.told = {}
  BY <1>1, AnswerServed DEF Requests, Head1
<1>3. \A e \in Endpoints : ~JustCreated(e)'
  BY <1>1 DEF JustCreated, Head1
<1>4. QueueSound' /\ PageSound'
  BY <1>1, <1>3, PageServed
<1>5. \A e \in Endpoints : <<"secret", e>> \in behind' <=> <<"secret", e>> \in behind
  BY <1>1, BehindAssumption
<1>6. SecretsKnown'
  BY <1>1, <1>2, <1>5, SecretsServed
<1>7. DeliverySound'
  BY <1>1, DeliveryFrame
<1>8. OrderSound'
  BY <1>1 DEF OrderSound
<1>9. \A rows : InOrder(rows) => InOrder(rows)'
  BY <1>1 DEF InOrder
<1>10. /\ active' \in [Endpoints -> BOOLEAN] /\ active'[Head1.id] = (Head1.value = "on")
       /\ \A e \in Endpoints \ {Head1.id} : active'[e] = active[e]
  BY <1>1 DEF PanelTyped
<1>11. ListSound'
  <2>1. \A e \in Endpoints \ behind' :
          e \notin behind /\ secret'[e] = secret[e] /\ (Switched(e)' \/ active'[e] = active[e])
    BY <1>1, <1>2, <1>10 DEF Switched, Head1
  <2>2. queue[1].kind = "toggle" /\ active'[answer'.id] = (queue[1].value = "on")
    BY <1>2, <1>10 DEF Head1
  <2> QED
    BY <1>1, <1>2, <1>9, <2>1, <2>2, ListServed
<1>12. PanelTyped'
  <2>1. gone' = gone
    BY <1>1, PageStays
  <2> QED
    BY <1>1, <1>2, <1>10, <2>1 DEF PanelTyped, page
<1> QED
  BY <1>2, <1>4, <1>6, <1>7, <1>8, <1>11, <1>12 DEF PanelInv

\* A row gets a new secret, whether or not the page will hear of it.
LEMMA ServeSecretKeeps ==
    ASSUME PanelInv, History, queue # <<>>, answer = None, Head1.kind = "regenerate",
           issued' = issued + 1, secret' = [secret EXCEPT ![Head1.id] = issued'],
           delivery' = IF Head1.id = Watched THEN [delivery EXCEPT !.sound = FALSE] ELSE delivery,
           behind' = behind \ {<<"secret", Head1.id>>},
           UNCHANGED <<active, order, queue, page, installed>>,
           NEW ok \in BOOLEAN,
           answer' = Says(ok, Head1.id, IF ok THEN issued' ELSE None, <<>>, {})
    PROVE  PanelInv'
<1>1. /\ PanelTyped /\ OrderSound /\ SecretsKnown /\ None \notin Nat
      /\ \A e : ~JustCreated(e) /\ ~Switched(e)
      /\ Head1 \in Requests /\ Head1.id \in Endpoints /\ secret[Head1.id] # None
      /\ revealedSecret = None \/ revealedSecret.id # Head1.id
      /\ list' = list
  BY BeforeServe DEF page, RequestSound, Known
<1>2. /\ secret \in [Endpoints -> Nat \cup {None}] /\ issued' \in Nat
  BY <1>1 DEF PanelTyped
<1>3. /\ secret'[Head1.id] # None /\ \A e \in Endpoints \ {Head1.id} : secret'[e] = secret[e]
  BY <1>1, <1>2
<1> DEFINE s == IF ok THEN issued' ELSE None
<1>4. s \in Nat \cup {None} /\ (s # None <=> ok) /\ answer' = Says(ok, Head1.id, s, <<>>, {})
  BY <1>1, <1>2
<1> HIDE DEF s
<1>5. /\ AnswerSound' /\ InOrder(answer.rows)'
      /\ answer' \in Answer /\ answer' # None /\ answer'.ok = ok /\ answer'.id = Head1.id
      /\ answer'.secret = s /\ answer'.told = {}
  BY <1>1, <1>4, AnswerServed DEF Requests, Head1
<1>6. \A e \in Endpoints : ~JustCreated(e)'
  BY <1>1 DEF JustCreated, Head1
<1>7. QueueSound' /\ PageSound'
  BY <1>1, <1>3, <1>6, PageServed
<1>8. /\ SecretsKnown' /\ secret' \in [Endpoints -> Nat \cup {None}]
  <2>1. answer'.secret = None \/ (answer'.secret = issued' /\ answer'.id = Head1.id)
    BY <1>5 DEF s
  <2> QED
    BY <1>1, <2>1, SecretsDrawn
<1>9. DeliverySound' /\ delivery' \in Delivery /\ secret'[Watched] # None
  BY <1>1, DeliveryReplaced
<1>10. OrderSound'
  BY <1>1, <1>3 DEF OrderSound
<1>11. \A rows : InOrder(rows) => InOrder(rows)'
  BY <1>1 DEF InOrder
<1>12. ListSound'
  <2>1. \A e \in Endpoints \ behind' :
          e \notin behind /\ (secret'[e] # None => secret[e] # None) /\ active'[e] = active[e]
    BY <1>1, <1>3, BehindAssumption
  <2>2. queue[1].kind = "regenerate"
    BY DEF Head1
  <2> QED
    BY <1>1, <1>5, <1>11, <2>1, <2>2, ListServed
<1>13. PanelTyped'
  <2>1. gone' = gone
    BY <1>1, PageStays
  <2> QED
    BY <1>1, <1>2, <1>5, <1>8, <1>9, <2>1 DEF PanelTyped, page
<1> QED
  BY <1>5, <1>7, <1>8, <1>9, <1>10, <1>12, <1>13 DEF PanelInv

\* A row is made, whether or not the page will hear of it.
LEMMA ServeRowKeeps ==
    ASSUME PanelInv, History, queue # <<>>, answer = None, Head1.kind = "create",
           NEW e \in Endpoints, secret[e] = None,
           issued' = issued + 1, secret' = [secret EXCEPT ![e] = issued'],
           active' = [active EXCEPT ![e] = TRUE], order' = <<e>> \o order,
           UNCHANGED <<queue, page, receiver>>,
           NEW ok \in BOOLEAN,
           answer' = IF ok THEN Says(TRUE, e, issued', <<>>, {})
                     ELSE Says(FALSE, Head1.id, None, <<>>, {}),
           behind' = IF ok THEN behind ELSE behind \cup {e}
    PROVE  PanelInv'
<1>1. /\ PanelTyped /\ OrderSound /\ SecretsKnown /\ None \notin Nat
      /\ \A x : ~JustCreated(x) /\ ~Switched(x)
      /\ Head1 \in Requests /\ UNCHANGED <<installed, delivery, list>>
      /\ revealedSecret = None \/ revealedSecret.id # e
  <2>1. PageSound
    BY DEF PanelInv
  <2>2. revealedSecret = None \/ revealedSecret.id # e
    BY <2>1 DEF PageSound, Known
  <2> QED
    BY <2>2, BeforeServe DEF page, receiver
<1>2. /\ secret \in [Endpoints -> Nat \cup {None}] /\ issued' \in Nat
      /\ active' \in [Endpoints -> BOOLEAN] /\ active'[e]
      /\ \A x \in Endpoints \ {e} : active'[x] = active[x]
  BY <1>1 DEF PanelTyped
<1>3. /\ OrderSound' /\ order' \in Seq(Endpoints) /\ order' # <<>> /\ order'[1] = e
      /\ \A rows : InOrder(rows) => InOrder(rows)'
      /\ \A x \in Endpoints \ {e} : secret'[x] = secret[x]
      /\ secret'[e] # None /\ e # Watched
  BY OrderGrows
<1> DEFINE s == IF ok THEN issued' ELSE None
           d == IF ok THEN e ELSE Head1.id
<1>4. /\ s \in Nat \cup {None} /\ (s # None <=> ok) /\ d \in Endpoints \cup {None}
      /\ ok => d = e
      /\ answer' = Says(ok, d, s, <<>>, {})
  BY <1>1, <1>2 DEF Requests
<1> HIDE DEF s, d
<1>5. /\ AnswerSound' /\ InOrder(answer.rows)'
      /\ answer' \in Answer /\ answer' # None /\ answer'.ok = ok /\ answer'.id = d
      /\ answer'.secret = s /\ answer'.told = {}
  BY <1>1, <1>3, <1>4, AnswerServed DEF Head1
<1>6. \A x \in Endpoints : JustCreated(x)' <=> ok /\ x = e
  BY <1>4, <1>5 DEF JustCreated, Head1
<1>7. QueueSound' /\ PageSound'
  <2>1. \A x \in Endpoints : secret[x] # None => secret'[x] # None /\ ~JustCreated(x)'
    BY <1>3, <1>6
  <2> QED
    BY <2>1, PageServed
<1>8. /\ SecretsKnown' /\ secret' \in [Endpoints -> Nat \cup {None}]
  <2>1. answer'.secret = None \/ (answer'.secret = issued' /\ answer'.id = e)
    BY <1>1, <1>4, <1>5 DEF s
  <2>2. <<"secret", e>> \notin behind'
    BY <1>1, BehindAssumption DEF SecretsKnown
  <2>3. \A x \in Endpoints \ {e} : <<"secret", x>> \in behind' <=> <<"secret", x>> \in behind
    BY BehindAssumption
  <2> QED
    BY <1>1, <2>1, <2>2, <2>3, SecretsDrawn
<1>9. DeliverySound' /\ secret'[Watched] # None
  <2>1. delivery' = IF e = Watched THEN [delivery EXCEPT !.sound = FALSE] ELSE delivery
    BY <1>1, <1>3
  <2> QED
    BY <1>1, <2>1, DeliveryReplaced
<1>10. ListSound'
  <2>1. \A x \in Endpoints \ behind' : secret'[x] # None =>
           \/ JustCreated(x)'
           \/ secret[x] # None /\ x \notin behind /\ active'[x] = active[x]
    BY <1>2, <1>3, <1>6
  <2>2. queue[1].kind = "create" /\ (answer'.ok => active'[answer'.id])
    BY <1>2, <1>4, <1>5 DEF Head1
  <2> QED
    BY <1>1, <1>3, <1>5, <2>1, <2>2, ListServed
<1>11. PanelTyped'
  <2>1. gone' = gone
    BY <1>1, PageStays
  <2> QED
    BY <1>1, <1>2, <1>3, <1>5, <1>8, <1>9, <2>1 DEF PanelTyped, page
<1> QED
  BY <1>3, <1>5, <1>7, <1>8, <1>9, <1>10, <1>11 DEF PanelInv

-----------------------------------------------------------------------------
(* The gateway: every answer keeps the invariant                           *)

\* The page is rendered again.
LEMMA ServeRefreshKeeps ==
    ASSUME PanelInv, ServeRefresh, History
    PROVE  PanelInv'
<1>1. /\ queue # <<>> /\ answer = None /\ Head1.kind = "refresh"
      /\ answer' = Says(TRUE, None, None, Listing, behind \cap Endpoints)
      /\ behind' = behind \ Endpoints
      /\ UNCHANGED <<table, queue, page, receiver, budget>>
  BY DEF ServeRefresh, Unserved
<1>2. /\ PanelTyped /\ OrderSound /\ SecretsKnown
      /\ \A e : ~JustCreated(e) /\ ~Switched(e)
      /\ Head1 \in Requests /\ RequestSound(Head1) /\ Head1.id = None
      /\ UNCHANGED <<active, secret, order, issued, installed, delivery, list, queue>>
  BY <1>1, BeforeServe DEF table, page, receiver, RequestSound
<1>3. /\ Listing \in Seq(Row) /\ InOrder(Listing)
      /\ \A e \in Endpoints : secret[e] # None => Lists(Listing, e)
      /\ \A i \in 1 .. Len(Listing) : secret[Listing[i].id] # None
  BY <1>2, ListingIs, ListingLists DEF PanelTyped
<1>4. PICK rows \in Seq(Row), told \in SUBSET Endpoints, none \in {None}, ok \in BOOLEAN :
        rows = Listing /\ told = behind \cap Endpoints /\ ok = TRUE
  BY <1>3
<1>5. answer' = Says(ok, none, none, rows, told)
  BY <1>1, <1>4
<1>6. /\ answer' \in Answer /\ answer' # None /\ answer'.ok /\ answer'.id = None
      /\ answer'.secret = None /\ answer'.rows = Listing /\ answer'.told = behind \cap Endpoints
  <2>1. none \in Endpoints \cup {None} /\ none \in Nat \cup {None}
    OBVIOUS
  <2>2. /\ Says(ok, none, none, rows, told) \in Answer /\ Says(ok, none, none, rows, told) # None
        /\ Says(ok, none, none, rows, told).ok = ok /\ Says(ok, none, none, rows, told).id = none
        /\ Says(ok, none, none, rows, told).secret = none
        /\ Says(ok, none, none, rows, told).rows = rows
        /\ Says(ok, none, none, rows, told).told = told
    BY <2>1, SaysIs
  <2>3. /\ answer' \in Answer /\ answer' # None /\ answer'.ok = ok /\ answer'.id = none
        /\ answer'.secret = none /\ answer'.rows = rows /\ answer'.told = told
    BY <1>5, <2>2
  <2> QED
    BY <1>4, <2>3
<1>7. AnswerSound'
  <2>1. queue' # <<>> /\ queue'[1].kind = "refresh" /\ queue'[1].id = None
    BY <1>1, <1>2 DEF Head1
  <2>2. \A i \in 1 .. Len(answer'.rows) : secret'[answer'.rows[i].id] # None
    <3> HIDE DEF Listing
    <3> QED
      BY <1>2, <1>3, <1>6
  <2>3. ~JustCreated(answer.id)'
    BY <2>1 DEF JustCreated
  <2> QED
    BY <1>6, <2>1, <2>2, <2>3 DEF AnswerSound
<1>8. \A e \in Endpoints : ~JustCreated(e)'
  BY <1>1, <1>2 DEF JustCreated, Head1
<1>9. QueueSound' /\ PageSound'
  BY <1>1, <1>2, <1>8, PageServed
<1>10. \A e \in Endpoints : <<"secret", e>> \in behind' <=> <<"secret", e>> \in behind
  BY <1>1, BehindAssumption
<1>11. SecretsKnown'
  BY <1>1, <1>2, <1>6, <1>10, SecretsServed
<1>12. DeliverySound'
  BY <1>1, <1>2, DeliveryFrame
<1>13. OrderSound'
  BY <1>2 DEF OrderSound
<1>14. \A rs : InOrder(rs) => InOrder(rs)'
  BY <1>2 DEF InOrder
<1>15. \A rs, e : Lists(rs, e) => Lists(rs, e)'
  BY <1>2 DEF Lists, EndpointView
<1>16. ListSound'
  <2>1. \A e \in Endpoints \ behind' :
          e \in answer'.told \/ (e \notin behind /\ active'[e] = active[e])
    BY <1>1, <1>2, <1>6
  <2>2. queue[1].kind = "refresh"
    BY <1>1 DEF Head1
  <2>3. PICK rs : rs = Listing
    OBVIOUS
  <2>4. InOrder(rs)' /\ \A e \in Endpoints : secret[e] # None => Lists(rs, e)'
    BY <1>3, <1>14, <1>15, <2>3
  <2>5. answer'.rows = rs
    BY <1>6, <2>3
  <2>6. InOrder(answer.rows)'
    BY <2>4, <2>5 DEF InOrder
  <2>7. \A e \in Endpoints \ behind' : secret'[e] # None => Lists(answer.rows, e)'
    BY <1>2, <2>4, <2>5 DEF Lists
  <2>8. \A e \in Endpoints \ behind' : secret'[e] # None =>
           \/ JustCreated(e)'
           \/ e \in answer'.told
           \/ secret[e] # None /\ e \notin behind /\ (Switched(e)' \/ active'[e] = active[e])
    BY <1>2, <2>1
  <2> QED
    BY <1>1, <1>2, <1>6, <1>14, <2>2, <2>6, <2>7, <2>8, ListServed
<1>17. PanelTyped'
  <2>1. gone' = gone
    BY <1>1, <1>2, PageStays
  <2> QED
    BY <1>1, <1>2, <1>6, <2>1 DEF PanelTyped, page
<1> QED
  BY <1>7, <1>9, <1>11, <1>12, <1>13, <1>16, <1>17 DEF PanelInv

LEMMA ServeKeeps ==
    ASSUME PanelInv, History,
           \/ ServeToggle \/ ServeRegenerate \/ ServeInvalid \/ ServeDeliveries
           \/ \E e \in Endpoints : ServeCreate(e)
    PROVE  PanelInv'
<1>1. CASE ServeToggle
  <2>1. /\ queue # <<>> /\ answer = None /\ Head1.kind = "toggle"
        /\ active' = [active EXCEPT ![Head1.id] = (Head1.value = "on")]
        /\ UNCHANGED <<secret, order, issued, queue, page, receiver>> /\ behind' = behind
        /\ answer' = Says(TRUE, Head1.id, None, <<>>, {})
    BY <1>1 DEF ServeToggle, Unserved
  <2> QED
    BY <2>1, ServeSwitchKeeps
<1>2. CASE ServeRegenerate
  <2>1. /\ queue # <<>> /\ answer = None /\ Head1.kind = "regenerate"
        /\ issued' = issued + 1 /\ secret' = [secret EXCEPT ![Head1.id] = issued']
        /\ delivery' = IF Head1.id = Watched THEN [delivery EXCEPT !.sound = FALSE] ELSE delivery
        /\ behind' = behind \ {<<"secret", Head1.id>>}
        /\ UNCHANGED <<active, order, queue, page, installed>>
        /\ answer' = Says(TRUE, Head1.id, IF TRUE THEN issued' ELSE None, <<>>, {})
    BY <1>2 DEF ServeRegenerate, Unserved
  <2> QED
    BY <2>1, ServeSecretKeeps
<1>3. CASE ServeInvalid
  <2>1. /\ queue # <<>> /\ answer = None /\ Head1.kind = "create"
        /\ UNCHANGED <<table, queue, page, receiver, behind>>
        /\ answer' = Says(FALSE, None, None, <<>>, {})
    BY <1>3 DEF ServeInvalid, Unserved
  <2>2. Head1.id = None
    BY <2>1, BeforeServe DEF RequestSound
  <2>3. answer' = Says(FALSE, Head1.id, None, <<>>, {})
    BY <2>1, <2>2
  <2> QED
    BY <2>1, <2>3, ServeNothingKeeps
<1>4. CASE ServeDeliveries
  <2>1. /\ queue # <<>> /\ answer = None /\ Head1.kind = "deliveries"
        /\ UNCHANGED <<table, queue, page, receiver, behind>>
        /\ answer' = Says(TRUE, Head1.id, None, <<>>, {})
    BY <1>4 DEF ServeDeliveries, Unserved
  <2> QED
    BY <2>1, ServeNothingKeeps
<1>5. ASSUME NEW e \in Endpoints, ServeCreate(e) PROVE PanelInv'
  <2>1. /\ queue # <<>> /\ answer = None /\ Head1.kind = "create" /\ secret[e] = None
        /\ issued' = issued + 1 /\ secret' = [secret EXCEPT ![e] = issued']
        /\ active' = [active EXCEPT ![e] = TRUE] /\ order' = <<e>> \o order
        /\ UNCHANGED <<queue, page, receiver>> /\ behind' = behind
        /\ answer' = Says(TRUE, e, issued', <<>>, {})
    BY <1>5 DEF ServeCreate, Unserved
  <2> QED
    BY <2>1, ServeRowKeeps
<1> QED
  BY <1>1, <1>2, <1>3, <1>4, <1>5

\* A statement that fails has done its work or not.
LEMMA ServeFailsKeeps ==
    ASSUME PanelInv, ServeFails, History
    PROVE  PanelInv'
<1>1. /\ queue # <<>> /\ answer = None
      /\ answer' = Says(FALSE, Head1.id, None, <<>>, {})
      /\ UNCHANGED <<queue, page, installed>>
  BY DEF ServeFails
<1>2. CASE /\ UNCHANGED <<table, delivery>>
           /\ behind' = IF Head1.kind = "refresh" THEN behind \cup Endpoints ELSE behind
  <2>1. UNCHANGED receiver
    BY <1>1, <1>2 DEF receiver
  <2>2. \/ behind' = behind /\ Head1.kind # "refresh"
        \/ behind' = behind \cup Endpoints
    BY <1>2
  <2> QED
    BY <1>1, <1>2, <2>1, <2>2, ServeNothingKeeps
<1>3. CASE /\ Head1.kind = "toggle" /\ active' = [active EXCEPT ![Head1.id] = (Head1.value = "on")]
           /\ behind' = behind \cup {Head1.id}
           /\ UNCHANGED <<secret, order, issued, delivery>>
  <2>1. UNCHANGED receiver
    BY <1>1, <1>3 DEF receiver
  <2> QED
    BY <1>1, <1>3, <2>1, ServeSwitchKeeps
<1>4. CASE /\ Head1.kind = "regenerate"
           /\ issued' = issued + 1 /\ secret' = [secret EXCEPT ![Head1.id] = issued']
           /\ delivery' = IF Head1.id = Watched THEN [delivery EXCEPT !.sound = FALSE]
                          ELSE delivery
           /\ behind' = behind \ {<<"secret", Head1.id>>} /\ UNCHANGED <<active, order>>
  <2>1. answer' = Says(FALSE, Head1.id, IF FALSE THEN issued' ELSE None, <<>>, {})
    BY <1>1
  <2> QED
    BY <1>1, <1>4, <2>1, ServeSecretKeeps
<1>5. CASE /\ Head1.kind = "create" /\ Head1.value = "filled"
           /\ \E e \in Endpoints :
                 /\ secret[e] = None
                 /\ issued' = issued + 1 /\ secret' = [secret EXCEPT ![e] = issued']
                 /\ active' = [active EXCEPT ![e] = TRUE] /\ order' = <<e>> \o order
                 /\ behind' = behind \cup {e}
           /\ UNCHANGED delivery
  <2>1. UNCHANGED receiver
    BY <1>1, <1>5 DEF receiver
  <2>2. PICK e \in Endpoints :
            /\ secret[e] = None
            /\ issued' = issued + 1 /\ secret' = [secret EXCEPT ![e] = issued']
            /\ active' = [active EXCEPT ![e] = TRUE] /\ order' = <<e>> \o order
            /\ behind' = behind \cup {e}
    BY <1>5
  <2> QED
    BY <1>1, <1>5, <2>1, <2>2, ServeRowKeeps
<1> QED
  BY <1>2, <1>3, <1>4, <1>5 DEF ServeFails

-----------------------------------------------------------------------------
(* Lemmas about the handling of an answer                                  *)

LEMMA BeforeSettle ==
    ASSUME PanelInv, queue # <<>>
    PROVE  /\ Head1 \in Requests /\ Head1 \in Asked(queue) /\ RequestSound(Head1)
           /\ queue \in Seq(Requests) /\ Keyed(queue, busyKeys)
           /\ PanelTyped /\ PageSound /\ AnswerSound /\ OrderSound /\ SecretsKnown /\ ListSound
           /\ None \notin Endpoints /\ None \notin Nat
<1>1. queue \in Seq(Requests)
  BY DEF PanelInv, PanelTyped
<1>2. Head1 \in Requests /\ Head1 \in Asked(queue)
  BY <1>1, TailIs, AskedTail DEF Head1
<1> QED
  BY <1>1, <1>2, EndpointsAssumption DEF PanelInv, QueueSound

\* Once the answer is gone, the page may know of every row.
LEMMA SettledKnown ==
    ASSUME answer' = None, UNCHANGED secret
    PROVE  \A e : /\ ~JustCreated(e)' /\ ~Switched(e)'
                  /\ Known(e)' <=> e \in Endpoints /\ secret[e] # None
                  /\ Known(e) => Known(e)'
BY DEF JustCreated, Switched, Known

\* The requests behind the head are as sound as they were.
LEMMA QueueSettled ==
    ASSUME PanelInv, queue # <<>>, answer' = None, UNCHANGED <<secret, selectedId>>,
           \/ revealedSecret' = revealedSecret
           \/ Head1.kind = "regenerate" /\ revealedSecret'.id = Head1.id,
           \/ Settle(Key(Head1))
           \/ Head1.kind \notin ForButton /\ busyKeys' = busyKeys
    PROVE  /\ Tail(queue) \in Seq(Requests) /\ Keyed(Tail(queue), busyKeys')
           /\ \A r \in Asked(Tail(queue)) : RequestSound(r)'
           /\ busyKeys' \subseteq busyKeys
<1>1. /\ queue \in Seq(Requests) /\ Keyed(queue, busyKeys) /\ Head1 \in Requests
      /\ Tail(queue) \in Seq(Requests) /\ Asked(Tail(queue)) \subseteq Asked(queue)
      /\ \A r \in Asked(queue) : RequestSound(r)
  BY BeforeSettle, TailIs, AskedTail DEF PanelInv, QueueSound
<1>2. /\ Keyed(Tail(queue), busyKeys \ {Key(Head1)})
      /\ Head1.kind \notin ForButton => Keyed(Tail(queue), busyKeys)
      /\ Head1.kind \in ForButton =>
           \A r \in Asked(Tail(queue)) : r.kind = Head1.kind => r.id # Head1.id
  BY <1>1, KeyedTail DEF Head1
<1>3. Keyed(Tail(queue), busyKeys') /\ busyKeys' \subseteq busyKeys
  BY <1>2 DEF Settle
<1>4. \A e : Known(e) => Known(e)'
  BY SettledKnown
<1>5. ASSUME NEW r \in Asked(Tail(queue))
      PROVE  RequestSound(r)'
  <2>1. RequestSound(r)
    BY <1>1
  <2>2. r.kind = "regenerate" =>
          \/ revealedSecret' = revealedSecret
          \/ revealedSecret'.id # r.id
    BY <1>2 DEF ForButton
  <2> QED
    BY <1>4, <2>1, <2>2 DEF RequestSound
<1> QED
  BY <1>1, <1>3, <1>5

\* A secret in an answer is put on the page, or nothing is.
LEMMA SecretsSettled ==
    ASSUME PanelInv, History, answer # None, answer' = None,
           UNCHANGED <<secret, issued, installed>>,
           \A e \in Endpoints : <<"secret", e>> \in behind' <=> <<"secret", e>> \in behind,
           \/ revealedSecret' = revealedSecret /\ Shown' = Shown
           \/ /\ answer.secret # None /\ answer.id \in Endpoints
              /\ revealedSecret' = [id |-> answer.id, secret |-> answer.secret]
    PROVE  SecretsKnown' /\ revealedSecret' \in Revealed \cup {None} /\ gone' \subseteq Nat
<1>1. /\ PanelTyped /\ SecretsKnown /\ None \notin Nat /\ Watched \in Endpoints
      /\ revealedSecret \in Revealed \cup {None} /\ answer \in Answer
      /\ revealedSecret # None => revealedSecret.id \in Endpoints
  BY EndpointsAssumption DEF PanelInv, PanelTyped, Revealed, Endpoints
<1>2. /\ gone' \subseteq Nat /\ \A s \in gone' : s <= issued
      /\ gone' \subseteq gone \cup {Shown}
      /\ Shown' = Shown => Shown' \notin gone'
  BY <1>1, HistoryIs
<1>3. Shown # None => revealedSecret # None /\ Shown = revealedSecret.secret
  BY <1>1, ShownIs
<1>4. \A e \in Endpoints : \A s : Current(e, s)' <=> Current(e, s)
  BY DEF Current
<1>5. CASE revealedSecret' = revealedSecret /\ Shown' = Shown
  <2>1. \A e \in Endpoints : <<"secret", e>> \in behind' => secret[e] # None
    BY <1>1 DEF SecretsKnown
  <2>2. revealedSecret' # None =>
          revealedSecret'.secret <= issued /\ Current(revealedSecret.id, revealedSecret.secret)'
    BY <1>1, <1>5 DEF SecretsKnown, Current
  <2> QED
    BY <1>1, <1>2, <1>5, <2>1, <2>2 DEF SecretsKnown
<1>6. CASE /\ answer.secret # None /\ answer.id \in Endpoints
           /\ revealedSecret' = [id |-> answer.id, secret |-> answer.secret]
  <2>1. answer.secret \in Nat
    BY <1>1, <1>6 DEF Answer
  <2>2. /\ revealedSecret' \in Revealed /\ revealedSecret' # None
        /\ revealedSecret'.id = answer.id /\ revealedSecret'.secret = answer.secret
    BY <1>6, <2>1, RevealedIsNone DEF Revealed
  <2>3. answer.secret <= issued /\ Current(answer.id, answer.secret)
    BY <1>1, <1>6 DEF SecretsKnown
  <2>4. Current(revealedSecret.id, revealedSecret.secret)'
    BY <1>6, <2>2, <2>3 DEF Current
  <2>5. answer.secret \notin gone' /\ None \notin gone'
    BY <1>1, <1>2, <1>3, <1>6 DEF SecretsKnown
  <2>6. Shown' \in {answer.secret, None}
    BY <2>2 DEF Shown
  <2>7. \A e \in Endpoints : <<"secret", e>> \in behind' => secret[e] # None
    BY <1>1 DEF SecretsKnown
  <2> QED
    BY <1>1, <1>2, <2>2, <2>3, <2>4, <2>5, <2>6, <2>7 DEF SecretsKnown
<1> QED
  BY <1>5, <1>6

\* The rest is of the table, and a list that is right.
LEMMA SettledRest ==
    ASSUME PanelInv, answer' = None, UNCHANGED <<table, receiver>>,
           \A e \in Endpoints \ behind' : secret[e] # None => e \in Listed' /\ Lists(list, e)',
           InOrder(list)'
    PROVE  AnswerSound' /\ OrderSound' /\ DeliverySound' /\ ListSound'
<1>1. OrderSound'
  BY DEF PanelInv, OrderSound, table
<1>2. DeliverySound'
  BY DeliveryFrame DEF table
<1> QED
  BY <1>1, <1>2 DEF AnswerSound, ListSound, table

\* Rows in the table's order are taken over.
LEMMA InOrderStays ==
    ASSUME NEW rows, InOrder(rows), list' = rows, UNCHANGED order
    PROVE  InOrder(list)'
<1>1. \A rs : InOrder(rs) => InOrder(rs)'
  BY DEF InOrder
<1>2. InOrder(rows)'
  BY <1>1
<1> QED
  BY <1>2 DEF InOrder

\* An answer that has nothing for the list, or is lost, leaves it right about
\* all but what it had to tell.
LEMMA ListSettled ==
    ASSUME PanelInv, queue # <<>>, answer # None,
           \A e \in Endpoints : JustCreated(e) \/ Switched(e) => e \in behind',
           UNCHANGED <<active, secret, order, list>>,
           behind \cup answer.told \subseteq behind'
    PROVE  /\ \A e \in Endpoints \ behind' : secret[e] # None => e \in Listed' /\ Lists(list, e)'
           /\ InOrder(list)'
<1>1. ListSound
  BY DEF PanelInv
<1>2. ASSUME NEW e \in Endpoints \ behind', secret[e] # None
      PROVE  e \in Listed' /\ Lists(list, e)'
  <2>1. e \in Listed /\ Lists(list, e)
    BY <1>1, <1>2 DEF ListSound
  <2> QED
    BY <2>1 DEF Listed, Lists, EndpointView
<1>3. InOrder(list)'
  BY <1>1 DEF ListSound, InOrder
<1> QED
  BY <1>2, <1>3

-----------------------------------------------------------------------------
(* The page: every answer that is handled keeps the invariant              *)

LEMMA ToggleSettlesKeeps ==
    ASSUME PanelInv, ToggleSettles, History
    PROVE  PanelInv'
<1> DEFINE h == Head1.id
           v == Head1.value = "on"
<1>1. /\ queue # <<>> /\ answer # None /\ Head1.kind = "toggle" /\ answer' = None
      /\ list' = IF ~answer.ok THEN list
                 ELSE [i \in 1 .. Len(list) |->
                         IF list[i].id = h THEN [list[i] EXCEPT !.isActive = v] ELSE list[i]]
      /\ queue' = IF answer.ok THEN Refresh(Tail(queue)) ELSE Tail(queue)
      /\ Settle(Key(Head1))
      /\ UNCHANGED <<table, selectedId, revealedSecret, deliveriesOf, drawer, receiver, behind>>
      /\ UNCHANGED <<active, secret, order, issued, installed, delivery>>
  BY DEF ToggleSettles, Answered, table, receiver
<1>2. /\ PanelTyped /\ PageSound /\ AnswerSound /\ ListSound /\ h \in Endpoints
      /\ list \in Seq(Row) /\ v \in BOOLEAN
  BY <1>1, BeforeSettle DEF PanelTyped, RequestSound, Known
<1>3. /\ Tail(queue) \in Seq(Requests) /\ Keyed(Tail(queue), busyKeys')
      /\ \A r \in Asked(Tail(queue)) : RequestSound(r)'
      /\ busyKeys' \subseteq busyKeys
  BY <1>1, QueueSettled
<1>4. queue' \in Seq(Requests) /\ QueueSound'
  <2>1. CASE answer.ok
    <3>1. /\ queue' \in Seq(Requests) /\ Keyed(queue', busyKeys')
          /\ Asked(queue') = Asked(Tail(queue)) \cup {Ask("refresh", None, None)}
      BY <1>1, <1>3, <2>1, RefreshIs
    <3>2. RequestSound(Ask("refresh", None, None))'
      BY DEF Ask, RequestSound
    <3> QED
      BY <1>3, <3>1, <3>2 DEF QueueSound, Keyed, Asked
  <2>2. CASE ~answer.ok
    BY <1>1, <1>3, <2>2 DEF QueueSound, Keyed, Asked
  <2> QED
    BY <2>1, <2>2
<1> HIDE DEF v
<1>5. /\ list' \in Seq(Row) /\ Len(list') = Len(list) /\ Len(list) \in Nat
      /\ \A i \in 1 .. Len(list) :
           /\ list'[i].id = list[i].id
           /\ list[i].id # h \/ ~answer.ok => list'[i] = list[i]
           /\ list[i].id = h /\ answer.ok => list'[i] = [id |-> h, isActive |-> v]
  <2>1. CASE ~answer.ok
    BY <1>1, <1>2, <2>1
  <2>2. CASE answer.ok
    <3>1. ASSUME NEW i \in 1 .. Len(list)
          PROVE  /\ list'[i] \in Row /\ list'[i].id = list[i].id
                 /\ list[i].id # h => list'[i] = list[i]
                 /\ list[i].id = h => list'[i] = [id |-> h, isActive |-> v]
      <4>1. list[i] \in Row
        BY <1>2
      <4>2. CASE list[i].id = h
        <5>1. list'[i] = [list[i] EXCEPT !.isActive = v]
          BY <1>1, <2>2, <4>2
        <5> QED
          BY <1>2, <4>1, <4>2, <5>1 DEF Row
      <4>3. CASE list[i].id # h
        BY <1>1, <2>2, <4>1, <4>3
      <4> QED
        BY <4>2, <4>3
    <3>2. Len(list) \in Nat
      BY <1>2
    <3>3. list' \in [1 .. Len(list) -> Row]
      <4>1. list' = [i \in 1 .. Len(list) |-> list'[i]]
        BY <1>1, <2>2
      <4> QED
        BY <3>1, <4>1
    <3> QED
      BY <2>2, <3>1, <3>2, <3>3, SeqOfFunction
  <2> QED
    BY <2>1, <2>2
<1>6. \A e : Known(e) => Known(e)'
  BY <1>1, SettledKnown
<1>7. PageSound'
  BY <1>1, <1>2, <1>5, <1>6 DEF PageSound
<1>8. /\ \A e \in Endpoints \ behind' : secret[e] # None => e \in Listed' /\ Lists(list, e)'
      /\ InOrder(list)'
  <2>1. ASSUME NEW e \in Endpoints \ behind, secret[e] # None
        PROVE  e \in Listed' /\ Lists(list, e)'
    <3>1. e \in Listed /\ (Switched(e) \/ Lists(list, e))
      BY <1>1, <1>2, <2>1 DEF ListSound, AnswerSound, JustCreated, Head1
    <3>2. e \in Listed'
      BY <1>5, <3>1 DEF Listed
    <3>3. CASE answer.ok /\ e = h
      <4>1. answer.id = h
        BY <1>1, <1>2 DEF AnswerSound, Head1
      <4>2. active[e] = v
        BY <1>1, <1>2, <2>1, <3>3, <4>1 DEF ListSound, Switched, Head1, v
      <4>3. PICK i \in 1 .. Len(list) : list[i].id = e
        BY <3>1 DEF Listed
      <4>4. list'[i] = EndpointView(e)' /\ i \in 1 .. Len(list')
        BY <1>1, <1>5, <3>3, <4>2, <4>3 DEF EndpointView
      <4> QED
        BY <3>2, <4>4 DEF Lists
    <3>4. CASE ~(answer.ok /\ e = h)
      <4>1. ~Switched(e)
        BY <1>1, <1>2, <3>4 DEF Switched, AnswerSound, Head1
      <4>2. PICK i \in 1 .. Len(list) : list[i] = EndpointView(e)
        BY <3>1, <4>1 DEF Lists
      <4>3. list[i].id = e
        BY <4>2 DEF EndpointView
      <4>4. list'[i] = EndpointView(e)' /\ i \in 1 .. Len(list')
        BY <1>1, <1>5, <3>4, <4>2, <4>3 DEF EndpointView
      <4> QED
        BY <3>2, <4>4 DEF Lists
    <3> QED
      BY <3>3, <3>4
  <2>2. InOrder(list)'
    BY <1>1, <1>2, <1>5 DEF ListSound, InOrder
  <2> QED
    BY <1>1, <2>1, <2>2
<1>9. AnswerSound' /\ OrderSound' /\ DeliverySound' /\ ListSound'
  BY <1>1, <1>8, SettledRest
<1>10. SecretsKnown' /\ gone' \subseteq Nat
  <2>1. Shown' = Shown
    BY <1>1 DEF Shown
  <2> QED
    BY <1>1, <2>1, SecretsSettled
<1>11. PanelTyped'
  BY <1>1, <1>2, <1>3, <1>4, <1>5, <1>10 DEF PanelTyped
<1> QED
  BY <1>4, <1>7, <1>9, <1>10, <1>11 DEF PanelInv

LEMMA RegenerateSettlesKeeps ==
    ASSUME PanelInv, RegenerateSettles, History
    PROVE  PanelInv'
<1>1. /\ queue # <<>> /\ answer # None /\ Head1.kind = "regenerate" /\ answer' = None
      /\ revealedSecret' = IF answer.ok THEN [id |-> Head1.id, secret |-> answer.secret]
                           ELSE revealedSecret
      /\ queue' = Tail(queue) /\ Settle(Key(Head1))
      /\ UNCHANGED <<table, list, selectedId, deliveriesOf, drawer, receiver, behind>>
      /\ UNCHANGED <<active, secret, order, issued, installed, delivery>>
  BY DEF RegenerateSettles, Answered, table, receiver
<1>2. /\ PanelTyped /\ PageSound /\ AnswerSound /\ RequestSound(Head1)
      /\ Known(Head1.id) /\ Head1.id \in Endpoints /\ selectedId # None
      /\ answer.id = Head1.id /\ answer.told = {}
      /\ answer.secret # None <=> answer.ok
  BY <1>1, BeforeSettle DEF RequestSound, Known, AnswerSound, Head1
<1>3. /\ Tail(queue) \in Seq(Requests) /\ Keyed(Tail(queue), busyKeys')
      /\ \A r \in Asked(Tail(queue)) : RequestSound(r)'
      /\ busyKeys' \subseteq busyKeys
  BY <1>1, QueueSettled
<1>4. QueueSound'
  BY <1>1, <1>3 DEF QueueSound, Keyed, Asked
<1>5. \A e : Known(e) => Known(e)'
  BY <1>1, SettledKnown
<1>6. PageSound'
  BY <1>1, <1>2, <1>5 DEF PageSound
<1>7. /\ \A e \in Endpoints \ behind' : secret[e] # None => e \in Listed' /\ Lists(list, e)'
      /\ InOrder(list)'
  <2>1. \A e : ~JustCreated(e) /\ ~Switched(e)
    BY <1>1 DEF JustCreated, Switched, Head1
  <2> QED
    BY <1>1, <1>2, <2>1, ListSettled
<1>8. AnswerSound' /\ OrderSound' /\ DeliverySound' /\ ListSound'
  BY <1>1, <1>7, SettledRest
<1>9. SecretsKnown' /\ revealedSecret' \in Revealed \cup {None} /\ gone' \subseteq Nat
  <2>1. \/ revealedSecret' = revealedSecret /\ Shown' = Shown
        \/ /\ answer.secret # None /\ answer.id \in Endpoints
           /\ revealedSecret' = [id |-> answer.id, secret |-> answer.secret]
    BY <1>1, <1>2 DEF Shown
  <2> QED
    BY <1>1, <2>1, SecretsSettled
<1>10. PanelTyped'
  BY <1>1, <1>2, <1>3, <1>9 DEF PanelTyped
<1> QED
  BY <1>4, <1>6, <1>8, <1>9, <1>10 DEF PanelInv

\* The answer about a new endpoint: its row comes first, and it is selected.
LEMMA CreatedKeeps ==
    ASSUME PanelInv, CreateSettles, answer.ok, History
    PROVE  PanelInv'
<1>0. PICK e : e = answer.id
  OBVIOUS
<1> DEFINE row == [id |-> e, isActive |-> TRUE]
           rest == Tail(queue)
<1>1. /\ queue # <<>> /\ answer # None /\ Head1.kind = "create" /\ answer' = None
      /\ list' = <<row>> \o list /\ selectedId' = e
      /\ revealedSecret' = [id |-> e, secret |-> answer.secret]
      /\ drawer' = [open |-> FALSE, form |-> "blank", submitting |-> FALSE]
      /\ queue' = Refetch(Refresh(rest), e)
      /\ UNCHANGED <<table, busyKeys, deliveriesOf, receiver, behind>>
      /\ UNCHANGED <<active, secret, order, issued, installed, delivery>>
  BY <1>0 DEF CreateSettles, Answered, table, receiver
<1>2. /\ PanelTyped /\ PageSound /\ AnswerSound /\ ListSound /\ OrderSound
      /\ queue \in Seq(Requests) /\ Keyed(queue, busyKeys) /\ None \notin Endpoints
      /\ \A r \in Asked(queue) : RequestSound(r)
  BY <1>1, BeforeSettle DEF PanelInv, QueueSound
<1>3. /\ JustCreated(e) /\ \A x : Known(x) => x # e
      /\ e \in Endpoints /\ e # None /\ secret[e] # None /\ order # <<>> /\ order[1] = e
      /\ answer.secret # None /\ answer.told = {}
  BY <1>0, <1>1, <1>2 DEF JustCreated, Known, AnswerSound, Head1
<1>4. \A x : Known(x) => Known(x)'
  BY <1>1, SettledKnown
<1>5. Known(e)'
  BY <1>1, <1>3, SettledKnown
<1> HIDE DEF rest
<1>6. /\ rest \in Seq(Requests) /\ Keyed(rest, busyKeys) /\ Asked(rest) \subseteq Asked(queue)
  BY <1>1, <1>2, TailIs, AskedTail, KeyedTail DEF rest, Head1, ForButton
<1>7. /\ Refresh(rest) \in Seq(Requests) /\ Keyed(Refresh(rest), busyKeys)
      /\ Asked(Refresh(rest)) = Asked(rest) \cup {Ask("refresh", None, None)}
  BY <1>6, RefreshIs
<1>8. /\ queue' \in Seq(Requests) /\ Keyed(queue', busyKeys)
      /\ \A r \in Asked(queue') :
           \/ r = Ask("deliveries", e, None)
           \/ /\ r.kind = "deliveries" => ~r.live
              /\ \E s \in Asked(rest) \cup {Ask("refresh", None, None)} :
                    r.kind = s.kind /\ r.id = s.id
  <2> DEFINE q == Refresh(rest)
  <2>1. q \in Seq(Requests) /\ queue' = Refetch(q, e) /\ e \in Endpoints
    BY <1>1, <1>3, <1>7
  <2>2. Keyed(q, busyKeys) /\ Asked(q) = Asked(rest) \cup {Ask("refresh", None, None)}
    BY <1>7
  <2> HIDE DEF q
  <2>3. /\ queue' \in Seq(Requests) /\ Keyed(queue', busyKeys)
        /\ \A r \in Asked(queue') :
             \/ r = Ask("deliveries", e, None)
             \/ /\ r.kind = "deliveries" => ~r.live
                /\ \E s \in Asked(q) : r.kind = s.kind /\ r.id = s.id
    BY <2>1, <2>2, RefetchIs
  <2> QED
    BY <2>2, <2>3
<1>9. QueueSound'
  <2>1. ASSUME NEW r \in Asked(queue')
        PROVE  RequestSound(r)'
    <3>1. CASE r = Ask("deliveries", e, None)
      <4>1. r.kind = "deliveries" /\ r.id = e
        BY <3>1 DEF Ask
      <4> QED
        BY <1>1, <1>5, <4>1 DEF RequestSound
    <3>2. CASE /\ r.kind = "deliveries" => ~r.live
               /\ \E s \in Asked(rest) \cup {Ask("refresh", None, None)} :
                     r.kind = s.kind /\ r.id = s.id
      <4>1. PICK s \in Asked(rest) \cup {Ask("refresh", None, None)} : r.kind = s.kind /\ r.id = s.id
        BY <3>2
      <4>2. CASE s = Ask("refresh", None, None)
        <5>1. r.kind = "refresh" /\ r.id = None
          BY <4>1, <4>2 DEF Ask
        <5> QED
          BY <5>1 DEF RequestSound
      <4>3. CASE s \in Asked(rest)
        <5>1. RequestSound(s)
          BY <1>2, <1>6, <4>3
        <5>2. revealedSecret'.id = e /\ selectedId' # None
          BY <1>1, <1>3
        <5> QED
          BY <1>3, <1>4, <3>2, <4>1, <5>1, <5>2 DEF RequestSound
      <4> QED
        BY <4>1, <4>2, <4>3
    <3> QED
      BY <1>8, <3>1, <3>2
  <2>2. Keyed(queue', busyKeys') /\ \A r \in Asked(queue') : RequestSound(r)'
    BY <1>1, <1>8, <2>1
  <2> QED
    BY <2>2 DEF QueueSound, Keyed, Asked
<1>10. row \in Row /\ row.id = e /\ row.isActive = TRUE
  BY <1>3 DEF Row
<1>11. /\ list' \in Seq(Row) /\ Len(list) \in Nat /\ Len(list') = Len(list) + 1 /\ list'[1] = row
       /\ \A i \in 1 .. Len(list) : i + 1 \in 1 .. Len(list') /\ list'[i + 1] = list[i]
       /\ \A i \in 1 .. Len(list') : i = 1 \/ (i - 1 \in 1 .. Len(list) /\ list'[i] = list[i - 1])
  <2> HIDE DEF row
  <2>1. list \in Seq(Row)
    BY <1>2 DEF PanelTyped
  <2> QED
    BY <1>1, <1>10, <2>1, PrependIs
<1>12. PageSound'
  <2>1. \A i \in 1 .. Len(list') : Known(list[i].id)'
    <3>1. ASSUME NEW i \in 1 .. Len(list') PROVE Known(list[i].id)'
      <4>1. CASE i = 1
        <5>1. list'[i].id = e
          BY <1>10, <1>11, <4>1
        <5> QED
          BY <1>5, <5>1 DEF Known, JustCreated
      <4>2. CASE i # 1
        <5>1. PICK x : x = list[i - 1].id
          OBVIOUS
        <5>2. Known(x) /\ list'[i].id = x
          BY <1>2, <1>11, <4>2, <5>1 DEF PageSound
        <5>3. Known(x)'
          BY <1>4, <5>2
        <5> QED
          BY <1>1, <5>2, <5>3 DEF Known, JustCreated
      <4> QED
        BY <4>1, <4>2
    <3> QED
      BY <3>1
  <2>2. revealedSecret'.id = e /\ selectedId' = e
    BY <1>1
  <2> QED
    BY <1>1, <1>3, <1>5, <2>1, <2>2 DEF PageSound, Known, JustCreated
<1>13. /\ \A x \in Endpoints \ behind' : secret[x] # None => x \in Listed' /\ Lists(list, x)'
       /\ InOrder(list)'
  <2>1. ASSUME NEW x \in Endpoints \ behind, secret[x] # None
        PROVE  x \in Listed' /\ Lists(list, x)'
    <3>1. CASE x = e
      <4>1. active[e] = TRUE
        BY <1>0, <1>1, <1>2, <1>3, <2>1, <3>1 DEF ListSound, PanelTyped
      <4>2. 1 \in 1 .. Len(list')
        BY <1>11
      <4>3. EndpointView(e)' = row /\ row.id = e
        BY <1>1, <4>1 DEF EndpointView
      <4>4. list'[1] = EndpointView(e)' /\ list'[1].id = e
        BY <1>11, <4>3
      <4> QED
        BY <3>1, <4>2, <4>4 DEF Listed, Lists
    <3>2. CASE x # e
      <4>1. x \in Listed /\ Lists(list, x)
        BY <1>0, <1>1, <1>2, <1>3, <2>1, <3>2 DEF ListSound, JustCreated, Switched, Head1
      <4>2. PICK i \in 1 .. Len(list) : list[i] = EndpointView(x)
        BY <4>1 DEF Lists
      <4>3. list'[i + 1] = EndpointView(x)' /\ i + 1 \in 1 .. Len(list') /\ list'[i + 1].id = x
        BY <1>1, <1>11, <4>2 DEF EndpointView
      <4> QED
        BY <4>3 DEF Lists, Listed
    <3> QED
      BY <3>1, <3>2
  <2>2. ASSUME NEW i \in 1 .. Len(list'), NEW j \in 1 .. Len(list'), i < j
        PROVE  \E k, l \in 1 .. Len(order) :
                  k < l /\ order[k] = list'[i].id /\ order[l] = list'[j].id
    <3>1. j # 1 /\ j - 1 \in 1 .. Len(list) /\ list'[j] = list[j - 1]
      BY <1>11, <2>2
    <3>2. CASE i = 1
      <4>1. Known(list[j - 1].id)
        BY <1>2, <3>1 DEF PageSound
      <4>2. PICK l \in 1 .. Len(order) : order[l] = list[j - 1].id
        BY <1>2, <4>1 DEF OrderSound, Known
      <4>3. order[l] # e /\ Len(order) \in Nat
        BY <1>2, <1>3, <4>1, <4>2 DEF PanelTyped
      <4>4. 1 \in 1 .. Len(order) /\ 1 < l
        BY <1>3, <4>2, <4>3
      <4>5. order[1] = list'[i].id /\ order[l] = list'[j].id
        BY <1>3, <1>10, <1>11, <3>1, <3>2, <4>2
      <4> QED
        BY <4>4, <4>5
    <3>3. CASE i # 1
      <4>1. i - 1 \in 1 .. Len(list) /\ list'[i] = list[i - 1] /\ i - 1 < j - 1
        BY <1>11, <2>2, <3>3
      <4>2. PICK k \in 1 .. Len(order), l \in 1 .. Len(order) :
               k < l /\ order[k] = list[i - 1].id /\ order[l] = list[j - 1].id
        BY <1>2, <3>1, <4>1 DEF ListSound, InOrder
      <4> QED
        BY <3>1, <4>1, <4>2
    <3> QED
      BY <3>2, <3>3
  <2>3. PICK rows : rows = list'
    OBVIOUS
  <2>4. InOrder(rows)
    BY <2>2, <2>3 DEF InOrder
  <2>5. InOrder(list)'
    BY <1>1, <2>3, <2>4, InOrderStays
  <2> QED
    BY <1>1, <2>1, <2>5
<1>14. AnswerSound' /\ OrderSound' /\ DeliverySound' /\ ListSound'
  BY <1>1, <1>13, SettledRest
<1>15. SecretsKnown' /\ revealedSecret' \in Revealed \cup {None} /\ gone' \subseteq Nat
  BY <1>0, <1>1, <1>3, SecretsSettled
<1>16. PanelTyped'
  BY <1>1, <1>2, <1>3, <1>8, <1>11, <1>15 DEF PanelTyped
<1> QED
  BY <1>9, <1>12, <1>14, <1>15, <1>16 DEF PanelInv

\* Nothing has been made: the drawer can be submitted again.
LEMMA NotCreatedKeeps ==
    ASSUME PanelInv, CreateSettles, ~answer.ok, History
    PROVE  PanelInv'
<1>1. /\ queue # <<>> /\ answer # None /\ Head1.kind = "create" /\ answer' = None
      /\ drawer' = [drawer EXCEPT !.submitting = FALSE] /\ queue' = Tail(queue)
      /\ UNCHANGED <<table, list, selectedId, revealedSecret, busyKeys, deliveriesOf, receiver,
                     behind>>
      /\ UNCHANGED <<active, secret, order, issued, installed, delivery>>
  BY DEF CreateSettles, Answered, table, receiver
<1>2. /\ PanelTyped /\ PageSound /\ AnswerSound
  BY <1>1, BeforeSettle
<1>3. /\ Tail(queue) \in Seq(Requests) /\ Keyed(Tail(queue), busyKeys')
      /\ \A r \in Asked(Tail(queue)) : RequestSound(r)'
  BY <1>1, QueueSettled DEF ForButton
<1>4. QueueSound'
  BY <1>1, <1>3 DEF QueueSound, Keyed, Asked
<1>5. \A e : Known(e) => Known(e)'
  BY <1>1, SettledKnown
<1>6. PageSound'
  BY <1>1, <1>2, <1>5 DEF PageSound
<1>7. /\ \A e \in Endpoints \ behind' : secret[e] # None => e \in Listed' /\ Lists(list, e)'
      /\ InOrder(list)'
  <2>1. (\A e : ~JustCreated(e) /\ ~Switched(e)) /\ answer.told = {}
    BY <1>1, <1>2 DEF JustCreated, Switched, AnswerSound, Head1
  <2> QED
    BY <1>1, <2>1, ListSettled
<1>8. AnswerSound' /\ OrderSound' /\ DeliverySound' /\ ListSound'
  BY <1>1, <1>7, SettledRest
<1>9. SecretsKnown' /\ gone' \subseteq Nat
  <2>1. Shown' = Shown
    BY <1>1 DEF Shown
  <2> QED
    BY <1>1, <2>1, SecretsSettled
<1>10. PanelTyped'
  BY <1>1, <1>2, <1>3, <1>9 DEF PanelTyped
<1> QED
  BY <1>4, <1>6, <1>8, <1>9, <1>10 DEF PanelInv

LEMMA DeliveriesSettleKeeps ==
    ASSUME PanelInv, DeliveriesSettle, History
    PROVE  PanelInv'
<1>1. /\ queue # <<>> /\ answer # None /\ Head1.kind = "deliveries" /\ answer' = None
      /\ deliveriesOf' = IF answer.ok /\ Head1.live THEN Head1.id ELSE deliveriesOf
      /\ queue' = Tail(queue)
      /\ UNCHANGED <<table, list, selectedId, revealedSecret, busyKeys, drawer, receiver, behind>>
      /\ UNCHANGED <<active, secret, order, issued, installed, delivery>>
  BY DEF DeliveriesSettle, Answered, table, receiver
<1>2. /\ PanelTyped /\ PageSound /\ AnswerSound /\ Head1 \in Requests
  BY <1>1, BeforeSettle
<1>3. /\ Tail(queue) \in Seq(Requests) /\ Keyed(Tail(queue), busyKeys')
      /\ \A r \in Asked(Tail(queue)) : RequestSound(r)'
  BY <1>1, QueueSettled DEF ForButton
<1>4. QueueSound'
  BY <1>1, <1>3 DEF QueueSound, Keyed, Asked
<1>5. \A e : Known(e) => Known(e)'
  BY <1>1, SettledKnown
<1>6. PageSound'
  BY <1>1, <1>2, <1>5 DEF PageSound
<1>7. /\ \A e \in Endpoints \ behind' : secret[e] # None => e \in Listed' /\ Lists(list, e)'
      /\ InOrder(list)'
  <2>1. (\A e : ~JustCreated(e) /\ ~Switched(e)) /\ answer.told = {}
    BY <1>1, <1>2 DEF JustCreated, Switched, AnswerSound, Head1
  <2> QED
    BY <1>1, <2>1, ListSettled
<1>8. AnswerSound' /\ OrderSound' /\ DeliverySound' /\ ListSound'
  BY <1>1, <1>7, SettledRest
<1>9. SecretsKnown' /\ gone' \subseteq Nat
  <2>1. Shown' = Shown
    BY <1>1 DEF Shown
  <2> QED
    BY <1>1, <2>1, SecretsSettled
<1>10. PanelTyped'
  <2>1. deliveriesOf' \in Endpoints \cup {None}
    BY <1>1, <1>2 DEF PanelTyped, Requests
  <2> QED
    BY <1>1, <1>2, <1>3, <1>9, <2>1 DEF PanelTyped
<1> QED
  BY <1>4, <1>6, <1>8, <1>9, <1>10 DEF PanelInv

\* The list is taken over, and its first row selected if none was.
LEMMA RefreshSettlesKeeps ==
    ASSUME PanelInv, RefreshSettles, History
    PROVE  PanelInv'
<1>1. /\ queue # <<>> /\ answer # None /\ Head1.kind = "refresh" /\ answer' = None
      /\ list' = answer.rows
      /\ selectedId' = IF selectedId # None \/ answer.rows = <<>> THEN selectedId
                       ELSE answer.rows[1].id
      /\ queue' = IF selectedId' = selectedId THEN Tail(queue)
                  ELSE Refetch(Tail(queue), selectedId')
      /\ UNCHANGED <<table, revealedSecret, busyKeys, deliveriesOf, drawer, receiver, behind>>
      /\ UNCHANGED <<active, secret, order, issued, installed, delivery>>
  BY DEF RefreshSettles, Answered, table, receiver
<1>2. /\ PanelTyped /\ PageSound /\ AnswerSound /\ ListSound
      /\ queue \in Seq(Requests) /\ Keyed(queue, busyKeys) /\ None \notin Endpoints
      /\ \A r \in Asked(queue) : RequestSound(r)
  BY <1>1, BeforeSettle DEF PanelInv, QueueSound
<1>3. /\ list' \in Seq(Row) /\ answer.rows \in Seq(Row)
      /\ \A i \in 1 .. Len(answer.rows) :
           answer.rows[i].id \in Endpoints /\ secret[answer.rows[i].id] # None
  <2>1. answer.rows \in Seq(Row)
    BY <1>1, <1>2 DEF PanelTyped, Answer
  <2>2. \A i \in 1 .. Len(answer.rows) : answer.rows[i] \in Row
    BY <2>1
  <2> QED
    BY <1>1, <1>2, <2>1, <2>2 DEF AnswerSound, Row
<1>4. /\ \A e : Known(e) => Known(e)'
      /\ \A e \in Endpoints : secret[e] # None => Known(e)'
  BY <1>1, SettledKnown
<1>5. /\ Tail(queue) \in Seq(Requests) /\ Keyed(Tail(queue), busyKeys)
      /\ Asked(Tail(queue)) \subseteq Asked(queue)
  BY <1>1, <1>2, TailIs, AskedTail, KeyedTail DEF Head1, ForButton
<1>6. \/ selectedId' = selectedId
      \/ /\ selectedId = None /\ revealedSecret = None /\ selectedId' \in Endpoints
         /\ secret[selectedId'] # None
  <2>1. ASSUME answer.rows # <<>> PROVE 1 \in 1 .. Len(answer.rows)
    BY <1>3, <2>1
  <2> QED
    BY <1>1, <1>2, <1>3, <2>1 DEF PageSound
<1>7. queue' \in Seq(Requests) /\ QueueSound'
  <2>1. CASE selectedId' = selectedId
    <3>1. queue' = Tail(queue) /\ \A r \in Asked(queue') : RequestSound(r)
      BY <1>1, <1>2, <1>5, <2>1
    <3>2. \A r \in Asked(queue') : RequestSound(r)'
      BY <1>1, <1>4, <2>1, <3>1 DEF RequestSound
    <3> QED
      BY <1>1, <1>5, <3>1, <3>2 DEF QueueSound, Keyed, Asked
  <2>2. CASE selectedId' # selectedId
    <3>1. PICK e \in Endpoints : e = selectedId' /\ selectedId = None /\ revealedSecret = None /\ Known(e)'
      BY <1>4, <1>6, <2>2
    <3> DEFINE q == Tail(queue)
    <3>2. q \in Seq(Requests) /\ Keyed(q, busyKeys) /\ queue' = Refetch(q, e)
          /\ \A s \in Asked(q) : RequestSound(s)
      BY <1>1, <1>2, <1>5, <2>2, <3>1
    <3> HIDE DEF q
    <3>3. /\ queue' \in Seq(Requests) /\ Keyed(queue', busyKeys)
          /\ \A r \in Asked(queue') :
               \/ r = Ask("deliveries", e, None)
               \/ /\ r.kind = "deliveries" => ~r.live
                  /\ \E s \in Asked(q) : r.kind = s.kind /\ r.id = s.id
      BY <3>2, RefetchIs
    <3>4. ASSUME NEW r \in Asked(queue')
          PROVE  RequestSound(r)'
      <4>1. CASE r = Ask("deliveries", e, None)
        <5>1. r.kind = "deliveries" /\ r.id = e
          BY <4>1 DEF Ask
        <5> QED
          BY <3>1, <5>1 DEF RequestSound
      <4>2. CASE /\ r.kind = "deliveries" => ~r.live
                 /\ \E s \in Asked(q) : r.kind = s.kind /\ r.id = s.id
        <5>1. PICK s \in Asked(q) : r.kind = s.kind /\ r.id = s.id
          BY <4>2
        <5>2. RequestSound(s) /\ s.kind # "regenerate"
          BY <3>1, <3>2 DEF RequestSound
        <5> QED
          BY <1>4, <4>2, <5>1, <5>2 DEF RequestSound
      <4> QED
        BY <3>3, <4>1, <4>2
    <3>5. Keyed(queue', busyKeys') /\ \A r \in Asked(queue') : RequestSound(r)'
      BY <1>1, <3>3, <3>4
    <3> QED
      BY <3>3, <3>5 DEF QueueSound, Keyed, Asked
  <2> QED
    BY <2>1, <2>2
<1>8. PageSound'
  <2>1. \A i \in 1 .. Len(list') : Known(list[i].id)'
    BY <1>1, <1>3, <1>4 DEF Known, JustCreated
  <2>2. selectedId' # None => Known(selectedId)'
    <3>1. CASE selectedId' = selectedId
      BY <1>1, <1>2, <1>4, <3>1 DEF PageSound, Known, JustCreated
    <3>2. CASE selectedId' # selectedId
      BY <1>1, <1>6, <3>2 DEF Known, JustCreated
    <3> QED
      BY <3>1, <3>2
  <2>3. revealedSecret' # None => selectedId' # None /\ Known(revealedSecret.id)'
    BY <1>1, <1>2, <1>4, <1>6 DEF PageSound, Known, JustCreated
  <2> QED
    BY <2>1, <2>2, <2>3 DEF PageSound
<1>9. /\ \A e \in Endpoints \ behind' : secret[e] # None => e \in Listed' /\ Lists(list, e)'
      /\ InOrder(list)'
  <2>1. InOrder(answer.rows)
    BY <1>1, <1>2 DEF ListSound
  <2>2. \A e \in Endpoints \ behind : secret[e] # None => Lists(answer.rows, e)
    BY <1>1, <1>2 DEF ListSound, Head1
  <2>3. ASSUME NEW e \in Endpoints \ behind', secret[e] # None
        PROVE  e \in Listed' /\ Lists(list, e)'
    <3>1. PICK i \in 1 .. Len(answer.rows) : answer.rows[i] = EndpointView(e)
      BY <1>1, <2>2, <2>3 DEF Lists
    <3>2. list'[i] = EndpointView(e)' /\ i \in 1 .. Len(list') /\ list'[i].id = e
      BY <1>1, <3>1 DEF EndpointView
    <3> QED
      BY <3>2 DEF Listed, Lists
  <2>4. InOrder(list)'
    BY <1>1, <2>1, InOrderStays
  <2> QED
    BY <2>3, <2>4
<1>10. AnswerSound' /\ OrderSound' /\ DeliverySound' /\ ListSound'
  BY <1>1, <1>9, SettledRest
<1>11. SecretsKnown' /\ gone' \subseteq Nat
  <2>1. Shown' = Shown
    BY <1>1, <1>6 DEF Shown
  <2> QED
    BY <1>1, <2>1, SecretsSettled
<1>12. PanelTyped'
  <2>1. selectedId' \in Endpoints \cup {None}
    BY <1>2, <1>6 DEF PanelTyped
  <2> QED
    BY <1>1, <1>2, <1>3, <1>7, <1>11, <2>1 DEF PanelTyped
<1> QED
  BY <1>7, <1>8, <1>10, <1>11, <1>12 DEF PanelInv

\* What the answer had to tell stays untold.
LEMMA AnswerLostKeeps ==
    ASSUME PanelInv, AnswerLost, History
    PROVE  PanelInv'
<1>1. /\ queue # <<>> /\ answer # None /\ answer' = None
      /\ queue' = Tail(queue) /\ Settle(Key(Head1))
      /\ drawer' = IF Head1.kind = "create" THEN [drawer EXCEPT !.submitting = FALSE] ELSE drawer
      /\ behind' = behind \cup answer.told
                     \cup (IF answer.ok /\ Head1.kind \in {"toggle", "create"}
                           THEN {answer.id} ELSE {})
      /\ UNCHANGED <<table, list, selectedId, revealedSecret, deliveriesOf, receiver>>
      /\ UNCHANGED <<active, secret, order, issued, installed, delivery>>
  BY DEF AnswerLost, table, receiver
<1>2. /\ PanelTyped /\ PageSound /\ AnswerSound /\ answer \in Answer /\ Head1 \in Requests
      /\ RequestSound(Head1) /\ None \notin Endpoints
  BY <1>1, BeforeSettle DEF PanelTyped
<1>3. /\ Tail(queue) \in Seq(Requests) /\ Keyed(Tail(queue), busyKeys')
      /\ \A r \in Asked(Tail(queue)) : RequestSound(r)'
      /\ busyKeys' \subseteq busyKeys
  BY <1>1, QueueSettled
<1>4. QueueSound'
  BY <1>1, <1>3 DEF QueueSound, Keyed, Asked
<1>5. \A e : Known(e) => Known(e)'
  BY <1>1, SettledKnown
<1>6. PageSound'
  BY <1>1, <1>2, <1>5 DEF PageSound
<1>7. /\ answer.told \subseteq Endpoints
      /\ answer.ok /\ Head1.kind \in {"toggle", "create"} => answer.id \in Endpoints
  BY <1>1, <1>2 DEF Answer, AnswerSound, RequestSound, Known, JustCreated, Head1
<1>8. \A e \in Endpoints : <<"secret", e>> \in behind' <=> <<"secret", e>> \in behind
  BY <1>1, <1>7, BehindAssumption
<1>9. /\ \A e \in Endpoints \ behind' : secret[e] # None => e \in Listed' /\ Lists(list, e)'
      /\ InOrder(list)'
  <2>1. \A e \in Endpoints : JustCreated(e) \/ Switched(e) => e \in behind'
    BY <1>1 DEF JustCreated, Switched, Head1
  <2> QED
    BY <1>1, <2>1, ListSettled
<1>10. AnswerSound' /\ OrderSound' /\ DeliverySound' /\ ListSound'
  BY <1>1, <1>9, SettledRest
<1>11. SecretsKnown' /\ gone' \subseteq Nat
  <2>1. Shown' = Shown
    BY <1>1 DEF Shown
  <2> QED
    BY <1>1, <1>8, <2>1, SecretsSettled
<1>12. PanelTyped'
  <2>1. drawer' \in [open : BOOLEAN, form : {"blank", "filled"}, submitting : BOOLEAN]
    BY <1>1, <1>2 DEF PanelTyped
  <2> QED
    BY <1>1, <1>2, <1>3, <1>11, <2>1 DEF PanelTyped
<1> QED
  BY <1>4, <1>6, <1>10, <1>11, <1>12 DEF PanelInv

-----------------------------------------------------------------------------
(* The second tab                                                          *)

\* What the other tab changes of a row, this one is not told.
LEMMA ElsewhereKeeps ==
    ASSUME PanelInv, UNCHANGED <<queue, answer, page, order>>,
           \A x \in Endpoints : secret'[x] # None <=> secret[x] # None,
           \A x \in Endpoints \ behind' : x \notin behind /\ active'[x] = active[x]
    PROVE  QueueSound' /\ PageSound' /\ AnswerSound' /\ OrderSound' /\ ListSound'
<1>1. /\ PanelTyped /\ QueueSound /\ PageSound /\ AnswerSound /\ OrderSound /\ ListSound
      /\ None \notin Endpoints
      /\ UNCHANGED <<queue, answer, order, list, selectedId, revealedSecret, busyKeys>>
  BY EndpointsAssumption DEF PanelInv, page
<1>2. \A x : /\ JustCreated(x)' <=> JustCreated(x)
             /\ Switched(x)' <=> Switched(x)
             /\ Known(x)' <=> Known(x)
  BY <1>1 DEF JustCreated, Switched, Known
<1>3. \A r : RequestSound(r)' <=> RequestSound(r)
  BY <1>1, <1>2 DEF RequestSound
<1>4. QueueSound'
  BY <1>1, <1>3 DEF QueueSound, Keyed, Asked
<1>5. PageSound'
  BY <1>1, <1>2 DEF PageSound
<1>6. AnswerSound'
  <2>1. ASSUME answer # None
        PROVE  /\ JustCreated(answer.id) =>
                    /\ answer.id \in Endpoints /\ secret'[answer.id] # None
                    /\ order # <<>> /\ order[1] = answer.id
               /\ \A i \in 1 .. Len(answer.rows) : secret'[answer.rows[i].id] # None
    <3>1. answer.rows \in Seq(Row)
      BY <1>1, <2>1 DEF PanelTyped, Answer
    <3>2. \A i \in 1 .. Len(answer.rows) : answer.rows[i] \in Row
      BY <3>1
    <3>3. \A i \in 1 .. Len(answer.rows) : answer.rows[i].id \in Endpoints
      BY <3>2 DEF Row
    <3> QED
      BY <1>1, <2>1, <3>3 DEF AnswerSound
  <2>2. JustCreated(answer.id)' <=> JustCreated(answer.id)
    BY <1>1 DEF JustCreated
  <2> QED
    BY <1>1, <2>1, <2>2 DEF AnswerSound
<1>7. OrderSound'
  BY <1>1 DEF OrderSound
<1>8. ListSound'
  <2>1. /\ \A rows : InOrder(rows) => InOrder(rows)'
        /\ \A x \in Endpoints \ behind' : \A rows : Lists(rows, x) => Lists(rows, x)'
        /\ Listed' = Listed
    BY <1>1 DEF InOrder, Lists, Listed, EndpointView
  <2>2. ASSUME NEW x \in Endpoints \ behind', secret'[x] # None
        PROVE  \/ JustCreated(x)'
               \/ answer # None /\ x \in answer.told
               \/ x \in Listed' /\ (Switched(x)' \/ Lists(list, x)')
    <3>1. \/ JustCreated(x)
          \/ answer # None /\ x \in answer.told
          \/ x \in Listed /\ (Switched(x) \/ Lists(list, x))
      BY <1>1, <2>2 DEF ListSound
    <3>2. Lists(list, x) => Lists(list, x)'
      BY <1>1, <2>1, <2>2 DEF Lists
    <3> QED
      BY <1>2, <2>1, <3>1, <3>2
  <2>3. InOrder(list)'
    BY <1>1, <2>1 DEF ListSound, InOrder
  <2>4. ASSUME answer # None
        PROVE  /\ InOrder(answer.rows)'
               /\ Switched(answer.id)' /\ answer.id \notin behind' =>
                    active'[answer.id] = (queue[1].value = "on")
               /\ JustCreated(answer.id)' /\ answer.id \notin behind' => active'[answer.id]
               /\ queue[1].kind = "refresh" =>
                    \A x \in Endpoints \ behind' : secret'[x] # None => Lists(answer.rows, x)'
    <3>1. PICK rows, e : rows = answer.rows /\ e = answer.id
      OBVIOUS
    <3>2. InOrder(rows) /\ InOrder(rows)'
      BY <1>1, <2>1, <2>4, <3>1 DEF ListSound
    <3>3. ASSUME Switched(e) \/ JustCreated(e), e \notin behind'
          PROVE  e \in Endpoints /\ e \notin behind /\ active'[e] = active[e]
      <4>1. e \in Endpoints
        <5>1. CASE JustCreated(e)
          BY <1>1, <2>4, <3>1, <5>1 DEF AnswerSound
        <5>2. CASE Switched(e)
          <6>1. queue # <<>> /\ queue[1].kind = "toggle" /\ e = queue[1].id
            BY <1>1, <2>4, <3>1, <5>2 DEF AnswerSound, Switched
          <6> QED
            BY <6>1, BeforeSettle DEF RequestSound, Known, Head1
        <5> QED
          BY <3>3, <5>1, <5>2
      <4> QED
        BY <3>3, <4>1
    <3>4. /\ Switched(e) /\ e \notin behind' => active'[e] = (queue[1].value = "on")
          /\ JustCreated(e) /\ e \notin behind' => active'[e]
      BY <1>1, <2>4, <3>1, <3>3 DEF ListSound
    <3>5. ASSUME queue[1].kind = "refresh", NEW x \in Endpoints \ behind', secret'[x] # None
          PROVE  Lists(rows, x)'
      <4>1. Lists(rows, x)
        BY <1>1, <2>4, <3>1, <3>5 DEF ListSound
      <4> QED
        BY <2>1, <4>1
    <3>6. Switched(answer.id)' <=> Switched(e)
      BY <1>1, <3>1 DEF Switched
    <3>7. JustCreated(answer.id)' <=> JustCreated(e)
      BY <1>1, <3>1 DEF JustCreated
    <3>8. InOrder(answer.rows)'
      BY <1>1, <3>1, <3>2 DEF InOrder
    <3>9. ASSUME queue[1].kind = "refresh", NEW x \in Endpoints \ behind', secret'[x] # None
          PROVE  Lists(answer.rows, x)'
      BY <1>1, <3>1, <3>5, <3>9 DEF Lists
    <3> QED
      BY <1>1, <3>1, <3>4, <3>6, <3>7, <3>8, <3>9
  <2> QED
    BY <1>1, <2>2, <2>3, <2>4 DEF ListSound
<1> QED
  BY <1>4, <1>5, <1>6, <1>7, <1>8

LEMMA ForeignChangeKeeps ==
    ASSUME PanelInv, NEW e \in Endpoints, ForeignChange(e), History
    PROVE  PanelInv'
<1>1. /\ secret[e] # None /\ UNCHANGED <<order, queue, answer, page, installed>>
      /\ \/ /\ active' = [active EXCEPT ![e] = ~@]
            /\ behind' = behind \cup {e} /\ UNCHANGED <<secret, issued, delivery>>
         \/ /\ issued' = issued + 1 /\ secret' = [secret EXCEPT ![e] = issued']
            /\ delivery' = IF e = Watched THEN [delivery EXCEPT !.sound = FALSE] ELSE delivery
            /\ behind' = behind \cup {<<"secret", e>>} /\ UNCHANGED active
  BY DEF ForeignChange
<1>2. /\ PanelTyped /\ SecretsKnown /\ AnswerSound /\ None \notin Nat /\ Watched \in Endpoints
      /\ revealedSecret # None => revealedSecret.id \in Endpoints /\ revealedSecret.secret \in Nat
      /\ UNCHANGED <<list, selectedId, busyKeys, deliveriesOf, drawer>>
  BY <1>1, EndpointsAssumption DEF PanelInv, PanelTyped, Revealed, Endpoints, page
<1>3. Shown' = Shown /\ gone' = gone /\ revealedSecret' = revealedSecret
  BY <1>1, <1>2, PageStays
<1>4. answer # None /\ answer.secret # None => answer.id \in Endpoints /\ answer.secret \in Nat
  <2>1. ASSUME answer # None, answer.secret # None
        PROVE  answer.id \in Endpoints /\ answer.secret \in Nat
    <3>1. /\ queue # <<>> /\ answer.ok /\ queue[1].kind \in {"create", "regenerate"}
          /\ JustCreated(answer.id) => answer.id \in Endpoints
          /\ queue[1].kind # "create" => answer.id = queue[1].id
      BY <1>2, <2>1 DEF AnswerSound
    <3>2. queue[1].kind = "regenerate" => queue[1].id \in Endpoints
      BY <3>1, BeforeSettle DEF RequestSound, Known, Head1
    <3>3. queue[1].kind = "create" => JustCreated(answer.id)
      BY <2>1, <3>1 DEF JustCreated
    <3>4. answer.secret \in Nat
      BY <1>2, <2>1 DEF PanelTyped, Answer
    <3> QED
      BY <3>1, <3>2, <3>3, <3>4
  <2> QED
    BY <2>1
<1>5. CASE /\ active' = [active EXCEPT ![e] = ~@]
           /\ behind' = behind \cup {e} /\ UNCHANGED <<secret, issued, delivery>>
  <2>1. /\ active' \in [Endpoints -> BOOLEAN]
        /\ \A x \in Endpoints \ {e} : active'[x] = active[x]
    BY <1>2, <1>5 DEF PanelTyped
  <2>2. QueueSound' /\ PageSound' /\ AnswerSound' /\ OrderSound' /\ ListSound'
    <3>1. \A x \in Endpoints \ behind' : x \notin behind /\ active'[x] = active[x]
      BY <1>5, <2>1
    <3> QED
      BY <1>1, <1>5, <3>1, ElsewhereKeeps
  <2>3. \A x \in Endpoints : <<"secret", x>> \in behind' <=> <<"secret", x>> \in behind
    BY <1>5, BehindAssumption
  <2>4. SecretsKnown'
    <3>1. \A x \in Endpoints : \A s : Current(x, s)' <=> Current(x, s)
      BY <1>5, <2>3 DEF Current
    <3>2. revealedSecret # None =>
            revealedSecret.secret <= issued /\ Current(revealedSecret.id, revealedSecret.secret)'
      BY <1>2, <1>3, <3>1 DEF SecretsKnown, Current
    <3>3. answer # None /\ answer.secret # None =>
            answer.secret <= issued /\ Current(answer.id, answer.secret)'
      BY <1>1, <1>2, <1>4, <3>1 DEF SecretsKnown, Current
    <3> QED
      BY <1>1, <1>2, <1>3, <1>5, <2>3, <3>2, <3>3 DEF SecretsKnown
  <2>5. DeliverySound'
    BY <1>1, <1>5, DeliveryFrame DEF receiver
  <2>6. PanelTyped'
    BY <1>1, <1>2, <1>3, <1>5, <2>1 DEF PanelTyped
  <2> QED
    BY <2>2, <2>4, <2>5, <2>6 DEF PanelInv
<1>6. CASE /\ issued' = issued + 1 /\ secret' = [secret EXCEPT ![e] = issued']
           /\ delivery' = IF e = Watched THEN [delivery EXCEPT !.sound = FALSE] ELSE delivery
           /\ behind' = behind \cup {<<"secret", e>>} /\ UNCHANGED active
  <2>1. /\ issued \in Nat /\ issued' \in Nat /\ secret' \in [Endpoints -> Nat \cup {None}]
        /\ secret'[e] = issued + 1 /\ \A x \in Endpoints \ {e} : secret'[x] = secret[x]
        /\ installed \in Nat /\ gone \subseteq Nat
        /\ \A x \in Endpoints : secret[x] \in Nat \cup {None}
    BY <1>2, <1>6 DEF PanelTyped
  <2>2. QueueSound' /\ PageSound' /\ AnswerSound' /\ OrderSound' /\ ListSound'
    <3>1. \A x \in Endpoints : secret'[x] # None <=> secret[x] # None
      BY <1>1, <1>2, <2>1
    <3>2. \A x \in Endpoints \ behind' : x \notin behind /\ active'[x] = active[x]
      BY <1>6
    <3> QED
      BY <1>1, <3>1, <3>2, ElsewhereKeeps
  <2>3. /\ <<"secret", e>> \in behind'
        /\ \A x \in Endpoints \ {e} : <<"secret", x>> \in behind' <=> <<"secret", x>> \in behind
    BY <1>6
  <2>4. \A x \in Endpoints : \A s \in Nat : s <= issued /\ Current(x, s) => s <= issued' /\ Current(x, s)'
    BY <2>1, <2>3, <1>6 DEF Current
  <2>5. SecretsKnown'
    <3>1. revealedSecret # None =>
            revealedSecret.secret <= issued' /\ Current(revealedSecret.id, revealedSecret.secret)'
      <4>1. PICK r : r = revealedSecret
        OBVIOUS
      <4>2. r # None => r.secret <= issued' /\ Current(r.id, r.secret)'
        BY <1>2, <2>4, <4>1 DEF SecretsKnown
      <4> QED
        BY <1>3, <4>1, <4>2 DEF Current
    <3>2. answer # None /\ answer.secret # None =>
            answer.secret <= issued' /\ Current(answer.id, answer.secret)'
      <4>1. PICK a : a = answer
        OBVIOUS
      <4>2. a # None /\ a.secret # None => a.secret <= issued' /\ Current(a.id, a.secret)'
        BY <1>2, <1>4, <2>4, <4>1 DEF SecretsKnown
      <4> QED
        BY <1>1, <4>1, <4>2 DEF Current
    <3>3. /\ \A x \in Endpoints : secret'[x] # None => secret'[x] <= issued'
          /\ \A x \in Endpoints : <<"secret", x>> \in behind' => secret'[x] # None
          /\ installed <= issued' /\ \A s \in gone : s <= issued'
          /\ <<"secret", Watched>> \in behind' => installed # secret'[Watched]
      BY <1>2, <1>6, <2>1, <2>3 DEF SecretsKnown
    <3> QED
      BY <1>1, <1>2, <1>3, <3>1, <3>2, <3>3 DEF SecretsKnown
  <2>6. DeliverySound' /\ delivery' \in Delivery /\ secret'[Watched] # None
    BY <1>1, <1>6, DeliveryReplaced
  <2>7. PanelTyped'
    BY <1>1, <1>2, <1>3, <1>6, <2>1, <2>6 DEF PanelTyped
  <2> QED
    BY <2>2, <2>5, <2>6, <2>7 DEF PanelInv
<1> QED
  BY <1>1, <1>5, <1>6

-----------------------------------------------------------------------------
(* Every step                                                              *)

LEMMA PanelInvNext == PanelInv /\ [Next]_vars => PanelInv'
<1> SUFFICES ASSUME PanelInv, [Next]_vars PROVE PanelInv'
  OBVIOUS
<1>1. CASE Next
  <2>1. History /\ Step
    BY <1>1 DEF Next
  <2>2. ASSUME NEW e \in Endpoints, HandleSelect(e) PROVE PanelInv'
    BY <2>1, <2>2, SelectKeeps
  <2>3. ASSUME NEW i \in 1 .. Len(list), HandleToggle(i) PROVE PanelInv'
    BY <2>1, <2>3, ToggleKeeps
  <2>4. CASE HandleRegenerate
    BY <2>1, <2>4, RegenerateKeeps
  <2>5. CASE HandleSubmit
    BY <2>1, <2>5, SubmitKeeps
  <2>6. CASE UseDrawer \/ Copy \/ TriggerWebhook \/ Load \/ Post
    BY <2>1, <2>6, OutsideKeeps
  <2>7. CASE \/ ServeToggle \/ ServeRegenerate \/ ServeInvalid \/ ServeDeliveries
             \/ \E e \in Endpoints : ServeCreate(e)
    BY <2>1, <2>7, ServeKeeps
  <2>8. CASE ServeRefresh
    BY <2>1, <2>8, ServeRefreshKeeps
  <2>9. CASE ServeFails
    BY <2>1, <2>9, ServeFailsKeeps
  <2>10. CASE ToggleSettles
    BY <2>1, <2>10, ToggleSettlesKeeps
  <2>11. CASE RegenerateSettles
    BY <2>1, <2>11, RegenerateSettlesKeeps
  <2>12. CASE CreateSettles
    BY <2>1, <2>12, CreatedKeeps, NotCreatedKeeps
  <2>13. CASE DeliveriesSettle
    BY <2>1, <2>13, DeliveriesSettleKeeps
  <2>14. CASE RefreshSettles
    BY <2>1, <2>14, RefreshSettlesKeeps
  <2>15. CASE AnswerLost
    BY <2>1, <2>15, AnswerLostKeeps
  <2>16. ASSUME NEW e \in Endpoints, ForeignChange(e) PROVE PanelInv'
    BY <2>1, <2>16, ForeignChangeKeeps
  <2> QED
    BY <2>1, <2>2, <2>3, <2>4, <2>5, <2>6, <2>7, <2>8, <2>9, <2>10, <2>11, <2>12, <2>13,
       <2>14, <2>15, <2>16 DEF Step
<1>2. CASE UNCHANGED vars
  <2>1. /\ UNCHANGED <<table, queue, answer, page, receiver, behind, gone>>
        /\ UNCHANGED <<active, secret, order, issued>> /\ UNCHANGED <<installed, delivery>>
        /\ UNCHANGED <<list, selectedId, revealedSecret, busyKeys, deliveriesOf, drawer>>
    BY <1>2 DEF vars, table, page, receiver
  <2>2. HeadStays
    BY <2>1 DEF HeadStays
  <2>3. AnswerSound' /\ OrderSound' /\ ListSound'
    BY <2>1, <2>2, TableFrame
  <2>4. QueueSound' /\ PageSound'
    BY <2>1, PageFrame
  <2>5. DeliverySound'
    BY <2>1, DeliveryFrame
  <2>6. SecretsKnown'
    <3>1. History /\ Shown' = Shown
      BY <2>1 DEF History, Shown
    <3> QED
      BY <2>1, <3>1, SecretsFrame
  <2>7. PanelTyped'
    BY <2>1 DEF PanelInv, PanelTyped
  <2> QED
    BY <2>3, <2>4, <2>5, <2>6, <2>7 DEF PanelInv
<1> QED
  BY <1>1, <1>2

LEMMA Invariants == Spec => []PanelInv
BY PanelInvInit, PanelInvNext, PTL DEF Spec

-----------------------------------------------------------------------------
(* The theorems                                                            *)

\* Every variable of the page, the table and the receiver has its type.
THEOREM TypeCorrect == Spec => []TypeOK
<1>1. PanelInv => TypeOK
  <2> SUFFICES ASSUME PanelInv PROVE TypeOK
    OBVIOUS
  <2>1. answer = None \/ answer.rows \in Seq(Row)
    BY DEF PanelInv, PanelTyped, Answer
  <2>2. /\ delivery.state \in {"none", "due", "loaded", "delivered", "failed", "rejected"}
        /\ delivery.attempts \in 0 .. MAX_ATTEMPTS
    BY DEF PanelInv, PanelTyped, Delivery
  <2> QED
    BY <2>1, <2>2 DEF PanelInv, PanelTyped, TypeOK, Revealed
<1> QED
  BY <1>1, Invariants, PTL

\* The secret shown next to an endpoint is the one the gateway signs with for
\* it, until another tab replaces it; once gone from the page it never comes
\* back; and a server that has it refuses no attempt signed since.
THEOREM SecretsSoundHolds == Spec => []SecretsSound
<1>1. PanelInv => SecretsSound
  <2> SUFFICES ASSUME PanelInv PROVE SecretsSound
    OBVIOUS
  <2>1. ShownIsCurrent
    BY ShownIs DEF PanelInv, SecretsKnown, Current, ShownIsCurrent
  <2>2. NeverShownAgain /\ NewSecretVerifies
    BY DEF PanelInv, SecretsKnown, DeliverySound, NeverShownAgain
  <2> QED
    BY <2>1, <2>2 DEF SecretsSound
<1> QED
  BY <1>1, Invariants, PTL

\* One key for each request of a button under way.
LEMMA KeysCounted ==
    ASSUME PanelInv
    PROVE  BusyIsInFlight
<1> DEFINE I == {i \in 1 .. Len(queue) : queue[i].kind \in {"toggle", "regenerate"}}
           f == [i \in I |-> Key(queue[i])]
<1>1. Keyed(queue, busyKeys) /\ Len(queue) \in Nat
  BY DEF PanelInv, PanelTyped, QueueSound
<1>2. busyKeys = {Key(queue[i]) : i \in I}
  BY <1>1 DEF Keyed, Asked, ForButton
<1>3. IsFiniteSet(I)
  <2>1. IsFiniteSet(1 .. Len(queue))
    BY <1>1, FS_Interval
  <2> QED
    BY <2>1, FS_Subset
<1>4. f \in Bijection(I, busyKeys)
  <2>1. \A i, j \in I : f[i] = f[j] => i = j
    BY <1>1 DEF Keyed, ForButton
  <2>2. f \in [I -> busyKeys] /\ \A k \in busyKeys : \E i \in I : f[i] = k
    BY <1>2
  <2> QED
    BY <2>1, <2>2 DEF Bijection, Injection, Surjection, IsInjective
<1>5. Cardinality(busyKeys) = Cardinality(I)
  <2>1. ExistsBijection(I, busyKeys)
    BY <1>4 DEF ExistsBijection
  <2> QED
    BY <1>3, <2>1, FS_Bijection
<1> QED
  BY <1>2, <1>5 DEF BusyIsInFlight

\* The list is the table's but for what the page has not been told; the buttons
\* spin for what is under way; and no history is put under another's heading.
THEOREM PageIsTrueHolds == Spec => PageIsTrue
<1>1. PanelInv => ListIsTrue
  <2> SUFFICES ASSUME PanelInv PROVE ListIsTrue
    OBVIOUS
  <2>1. ASSUME NEW e \in Endpoints \ behind
        PROVE  \/ secret[e] = None
               \/ answer # None /\ (answer.id = e \/ e \in answer.told)
               \/ \E i \in 1 .. Len(list) : list[i] = EndpointView(e)
    BY DEF PanelInv, ListSound, JustCreated, Switched, Lists
  <2>2. InOrder(list)
    BY DEF PanelInv, ListSound
  <2> QED
    BY <2>1, <2>2 DEF ListIsTrue, InOrder
<1>2. PanelInv => BusyIsInFlight
  BY KeysCounted
<1>3. PanelInv /\ [Next]_vars => (deliveriesOf' # deliveriesOf => deliveriesOf' = selectedId)
  <2> SUFFICES ASSUME PanelInv, [Next]_vars, deliveriesOf' # deliveriesOf
               PROVE  deliveriesOf' = selectedId
    OBVIOUS
  <2>1. DeliveriesSettle
    BY DEF Next, Step, vars, page, HandleSelect, HandleToggle, HandleRegenerate, UseDrawer,
           HandleSubmit, ServeToggle, ServeRegenerate, ServeCreate, ServeInvalid,
           ServeDeliveries, ServeRefresh, ServeFails, ToggleSettles, RegenerateSettles,
           CreateSettles, RefreshSettles, AnswerLost, ForeignChange, Copy, TriggerWebhook,
           Load, Post
  <2>2. queue # <<>> /\ Head1.kind = "deliveries" /\ Head1.live /\ deliveriesOf' = Head1.id
    BY <2>1 DEF DeliveriesSettle, Answered
  <2> QED
    BY <2>2, BeforeSettle DEF RequestSound
<1> QED
  BY <1>1, <1>2, <1>3, Invariants, PTL DEF Spec, PageIsTrue, HistoryNotMislabelled
=============================================================================
