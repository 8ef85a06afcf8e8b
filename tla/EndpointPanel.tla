---------------------------- MODULE EndpointPanel ----------------------------
(***************************************************************************)
(* The Webhooks page: endpoints created, switched and given new secrets in *)
(* one browser tab, against the table webhook_endpoints, a second tab, and *)
(* a merchant's server that verifies what the gateway signs.               *)
(*                                                                         *)
(* A tab's server actions and refreshes wait in one queue, which Next.js   *)
(* (external) serves one at a time.  The head of the queue is first served *)
(* by the gateway (Serve), then its answer is handled by the page (one     *)
(* action per handler), or is lost on the way.  Clicks, the second tab and *)
(* deliveries happen at any time in between.                               *)
(***************************************************************************)
EXTENDS Integers, Sequences, FiniteSets

CONSTANTS
    Existing,       \* endpoints the table holds at the start
    Added,          \* endpoints that may be created
    Watched,        \* the one of Existing whose deliveries are modelled
    None,           \* no endpoint, no secret, no answer
    MAX_ATTEMPTS,   \* requests of one delivery
    MaxClicks,      \* bound: clicks in the tab
    MaxUpsets       \* bound: failed statements, lost answers, second tab's changes

Endpoints == Existing \cup Added

ASSUME EndpointsAssumption ==
    /\ Existing \cap Added = {} /\ Watched \in Existing /\ None \notin Endpoints
    /\ IsFiniteSet(Endpoints) /\ None \notin Nat
\* "Nothing" is no secret on show and no answer; behind's two kinds of members differ.
ASSUME NoneAssumption ==
    /\ None \notin [id : Endpoints, secret : Nat]
    /\ None \notin [ok : BOOLEAN, id : Endpoints \cup {None}, secret : Nat \cup {None},
                    rows : Seq([id : Endpoints, isActive : BOOLEAN]), told : SUBSET Endpoints]
ASSUME BehindAssumption == \A e \in Endpoints : <<"secret", e>> \notin Endpoints
ASSUME BoundsAssumption ==
    /\ MAX_ATTEMPTS \in Nat \ {0} /\ MaxClicks \in Nat /\ MaxUpsets \in Nat

VARIABLES
    active,         \* webhook_endpoints.is_active
    secret,         \* webhook_endpoints.secret, decrypted; None: no such row
    order,          \* the ids of the rows, newest first
    issued,         \* secrets drawn so far
    queue,          \* the tab's requests, the oldest first
    answer,         \* what the gateway answers to the head, or None
    list,           \* endpoints: the rows the page shows
    selectedId, revealedSecret, busyKeys,
    deliveriesOf,   \* the endpoint whose rows `deliveries` holds, or None
    drawer,         \* the drawer: open, form, submitting
    installed,      \* the secret in the watched endpoint's server
    delivery,       \* one delivery to the watched endpoint
    clicks, upsets,
    behind,         \* history: rows changed without this tab being told
    gone            \* history: secrets the page showed and no longer shows

table == <<active, secret, order, issued>>
page == <<list, selectedId, revealedSecret, busyKeys, deliveriesOf, drawer>>
receiver == <<installed, delivery>>
budget == <<clicks, upsets>>
vars == <<table, queue, answer, page, receiver, budget, behind, gone>>

-----------------------------------------------------------------------------
(* The table, the page and the queue                                       *)

\* One row as toEndpointView() gives it to the page.
EndpointView(e) == [id |-> e, isActive |-> active[e]]

\* listWebhookEndpoints(): every row, the newest first.
Listing == [i \in 1 .. Len(order) |-> EndpointView(order[i])]

Listed == {list[i].id : i \in 1 .. Len(list)}

\* What the Signing Secret card shows: the secret in the clear, or the mask.
Shown == IF revealedSecret # None /\ revealedSecret.id = selectedId
         THEN revealedSecret.secret ELSE None

\* value: what a toggle asks for, or the drawer's form as it was submitted.
\* live: the effect that sent a "deliveries" request has not been cleaned up.
Ask(kind, e, value) == [kind |-> kind, id |-> e, value |-> value, live |-> TRUE]

Key(request) == <<request.kind, request.id>>

\* The effect on selectedId: cancel the last fetch, send the next one.
\* Faulty variant: the clean-up is missing.
RefetchUncancelled(q, e) == Append(q, Ask("deliveries", e, None))

Refetch(q, e) ==
    Append([i \in 1 .. Len(q) |->
               IF q[i].kind = "deliveries" THEN [q[i] EXCEPT !.live = FALSE] ELSE q[i]],
           Ask("deliveries", e, None))

\* useBusyKeys(): the re-entrancy guard, and its release.
Start(key) == key \notin busyKeys /\ busyKeys' = busyKeys \cup {key}
Settle(key) == busyKeys' = busyKeys \ {key}

\* router.refresh().
Refresh(q) == Append(q, Ask("refresh", None, None))

SeqOf(S) == CHOOSE s \in [1 .. Cardinality(S) -> S] : \A x \in S : \E i \in DOMAIN s : s[i] = x

\* The page as its server component and its effects leave it on arrival.
Init ==
    /\ active = [e \in Endpoints |-> e \in Existing]
    /\ order = SeqOf(Existing) /\ issued = Len(order)
    /\ secret = [e \in Endpoints |-> IF e \in Added THEN None
                                     ELSE CHOOSE i \in 1 .. Len(order) : order[i] = e]
    /\ list = Listing /\ selectedId = (IF order = <<>> THEN None ELSE order[1])
    /\ queue = (IF order = <<>> THEN <<>> ELSE <<Ask("deliveries", order[1], None)>>)
    /\ answer = None
    /\ revealedSecret = None /\ busyKeys = {} /\ deliveriesOf = None
    /\ drawer = [open |-> FALSE, form |-> "blank", submitting |-> FALSE]
    /\ installed = secret[Watched]
    /\ delivery = [state |-> "none", secret |-> None, sound |-> FALSE, attempts |-> 0]
    /\ clicks = 0 /\ upsets = 0
    /\ behind = {} /\ gone = {}

Click == clicks < MaxClicks /\ clicks' = clicks + 1 /\ UNCHANGED upsets
Upset == upsets < MaxUpsets /\ upsets' = upsets + 1 /\ UNCHANGED clicks

-----------------------------------------------------------------------------
(* Clicks                                                                  *)

\* handleSelect() of another row, and the effects that follow.
HandleSelect(e) ==
    /\ Click /\ e \in Listed \ {selectedId}
    /\ revealedSecret' = None /\ selectedId' = e /\ queue' = Refetch(queue, e)
    /\ UNCHANGED <<table, answer, list, busyKeys, deliveriesOf, drawer, receiver, behind>>

\* handleToggle(): asks for the opposite of what the row shows.
HandleToggle(i) ==
    /\ Click
    /\ LET ask == Ask("toggle", list[i].id, IF list[i].isActive THEN "off" ELSE "on")
       IN  Start(Key(ask)) /\ queue' = Append(queue, ask)
    /\ UNCHANGED <<table, answer, list, selectedId, revealedSecret, deliveriesOf, drawer,
                   receiver, behind>>

\* handleRegenerate(): the button is there only while the secret is masked.
HandleRegenerate ==
    /\ Click /\ selectedId \in Listed /\ Shown = None
    /\ LET ask == Ask("regenerate", selectedId, None)
       IN  Start(Key(ask)) /\ queue' = Append(queue, ask)
    /\ UNCHANGED <<table, answer, list, selectedId, revealedSecret, deliveriesOf, drawer,
                   receiver, behind>>

\* The drawer is opened, closed with its cross (reset) or with Cancel (no
\* reset), and filled in.
UseDrawer ==
    /\ Click
    /\ \/ ~drawer.open /\ drawer' = [drawer EXCEPT !.open = TRUE]
       \/ drawer.open /\ drawer' = [drawer EXCEPT !.open = FALSE, !.form = "blank"]
       \/ drawer.open /\ drawer' = [drawer EXCEPT !.open = FALSE]
       \/ drawer.open /\ drawer.form = "blank" /\ drawer' = [drawer EXCEPT !.form = "filled"]
    /\ UNCHANGED <<table, queue, answer, list, selectedId, revealedSecret, busyKeys,
                   deliveriesOf, receiver, behind>>

\* handleSubmit(): the button is disabled while a submission is under way.
HandleSubmit ==
    /\ Click /\ drawer.open /\ ~drawer.submitting
    /\ drawer' = [drawer EXCEPT !.submitting = TRUE]
    /\ queue' = Append(queue, Ask("create", None, drawer.form))
    /\ UNCHANGED <<table, answer, list, selectedId, revealedSecret, busyKeys, deliveriesOf,
                   receiver, behind>>

-----------------------------------------------------------------------------
(* The gateway serves the head of the queue                                *)

Head1 == queue[1]
Unserved(kind) == queue # <<>> /\ answer = None /\ Head1.kind = kind

\* An answer: ok, the endpoint it is about, the secret it carries, the rows it
\* lists, and the rows this tab will be up to date with once it has them.
Says(ok, e, s, rows, told) == [ok |-> ok, id |-> e, secret |-> s, rows |-> rows, told |-> told]

\* deactivateWebhookEndpoint(), or updateWebhookEndpoint() to enable again.
ServeToggle ==
    /\ Unserved("toggle")
    /\ active' = [active EXCEPT ![Head1.id] = (Head1.value = "on")]
    /\ answer' = Says(TRUE, Head1.id, None, <<>>, {})
    /\ UNCHANGED <<secret, order, issued, queue, page, receiver, budget, behind>>

\* regenerateWebhookSecret().  A delivery signed before is not sound any more.
ServeRegenerate ==
    /\ Unserved("regenerate")
    /\ issued' = issued + 1 /\ secret' = [secret EXCEPT ![Head1.id] = issued']
    /\ answer' = Says(TRUE, Head1.id, issued', <<>>, {})
    /\ delivery' = IF Head1.id = Watched THEN [delivery EXCEPT !.sound = FALSE] ELSE delivery
    /\ behind' = behind \ {<<"secret", Head1.id>>}
    /\ UNCHANGED <<active, order, queue, page, installed, budget>>

\* createEndpoint(): validateEndpointInput(), then createWebhookEndpoint().
ServeCreate(e) ==
    /\ Unserved("create") /\ Head1.value = "filled" /\ secret[e] = None
    /\ issued' = issued + 1 /\ secret' = [secret EXCEPT ![e] = issued']
    /\ active' = [active EXCEPT ![e] = TRUE] /\ order' = <<e>> \o order
    /\ answer' = Says(TRUE, e, issued', <<>>, {})
    /\ UNCHANGED <<queue, page, receiver, budget, behind>>

ServeInvalid ==
    /\ Unserved("create") /\ Head1.value = "blank"
    /\ answer' = Says(FALSE, None, None, <<>>, {})
    /\ UNCHANGED <<table, queue, page, receiver, budget, behind>>

\* getEndpointDeliveries().
ServeDeliveries ==
    /\ Unserved("deliveries")
    /\ answer' = Says(TRUE, Head1.id, None, <<>>, {})
    /\ UNCHANGED <<table, queue, page, receiver, budget, behind>>

\* The server component renders the page again.
ServeRefresh ==
    /\ Unserved("refresh")
    /\ answer' = Says(TRUE, None, None, Listing, behind \cap Endpoints)
    /\ behind' = behind \ Endpoints
    /\ UNCHANGED <<table, queue, page, receiver, budget>>

\* A statement fails (a write may have been done all the same): an error
\* answer; a thrown error for the deliveries; an empty list for a refresh.
ServeFails ==
    /\ Upset /\ queue # <<>> /\ answer = None
    /\ answer' = Says(FALSE, Head1.id, None, <<>>, {})
    /\ \/ UNCHANGED <<table, delivery>>
          /\ behind' = IF Head1.kind = "refresh" THEN behind \cup Endpoints ELSE behind
       \/ /\ Head1.kind = "toggle" /\ active' = [active EXCEPT ![Head1.id] = (Head1.value = "on")]
          /\ behind' = behind \cup {Head1.id}
          /\ UNCHANGED <<secret, order, issued, delivery>>
       \/ /\ Head1.kind = "regenerate"
          /\ issued' = issued + 1 /\ secret' = [secret EXCEPT ![Head1.id] = issued']
          /\ delivery' = IF Head1.id = Watched THEN [delivery EXCEPT !.sound = FALSE]
                         ELSE delivery
          /\ behind' = behind \ {<<"secret", Head1.id>>} /\ UNCHANGED <<active, order>>
       \/ /\ Head1.kind = "create" /\ Head1.value = "filled"
          /\ \E e \in Endpoints :
                /\ secret[e] = None
                /\ issued' = issued + 1 /\ secret' = [secret EXCEPT ![e] = issued']
                /\ active' = [active EXCEPT ![e] = TRUE] /\ order' = <<e>> \o order
                /\ behind' = behind \cup {e}
          /\ UNCHANGED delivery
    /\ UNCHANGED <<queue, page, installed>>

-----------------------------------------------------------------------------
(* The page handles the answer                                             *)

Answered(kind) == queue # <<>> /\ answer # None /\ Head1.kind = kind /\ answer' = None

\* The .then() and .finally() of handleToggle().
ToggleSettles ==
    /\ Answered("toggle")
    /\ list' = IF ~answer.ok THEN list
               ELSE [i \in 1 .. Len(list) |->
                        IF list[i].id = Head1.id THEN [list[i] EXCEPT !.isActive = (Head1.value = "on")]
                        ELSE list[i]]
    /\ queue' = IF answer.ok THEN Refresh(Tail(queue)) ELSE Tail(queue)
    /\ Settle(Key(Head1))
    /\ UNCHANGED <<table, selectedId, revealedSecret, deliveriesOf, drawer, receiver, budget,
                   behind>>

\* Of handleRegenerate(): the id is the one that was selected at the click.
RegenerateSettles ==
    /\ Answered("regenerate")
    /\ revealedSecret' = IF answer.ok THEN [id |-> Head1.id, secret |-> answer.secret]
                         ELSE revealedSecret
    /\ queue' = Tail(queue) /\ Settle(Key(Head1))
    /\ UNCHANGED <<table, list, selectedId, deliveriesOf, drawer, receiver, budget, behind>>

\* Of handleSubmit(): onCreated() and reset(), whether or not the drawer is
\* still the one that was submitted.
CreateSettles ==
    /\ Answered("create")
    /\ IF answer.ok
       THEN /\ list' = <<[id |-> answer.id, isActive |-> TRUE]>> \o list
            /\ selectedId' = answer.id
            /\ revealedSecret' = [id |-> answer.id, secret |-> answer.secret]
            /\ drawer' = [open |-> FALSE, form |-> "blank", submitting |-> FALSE]
            /\ queue' = Refetch(Refresh(Tail(queue)), answer.id)
       ELSE /\ drawer' = [drawer EXCEPT !.submitting = FALSE]
            /\ queue' = Tail(queue) /\ UNCHANGED <<list, selectedId, revealedSecret>>
    /\ UNCHANGED <<table, busyKeys, deliveriesOf, receiver, budget, behind>>

\* The fetch of the history ends.
DeliveriesSettle ==
    /\ Answered("deliveries")
    /\ deliveriesOf' = IF answer.ok /\ Head1.live THEN Head1.id ELSE deliveriesOf
    /\ queue' = Tail(queue)
    /\ UNCHANGED <<table, list, selectedId, revealedSecret, busyKeys, drawer, receiver,
                   budget, behind>>

\* New initialEndpoints: the effect takes the list over, and selects its first
\* row when none is selected.
RefreshSettles ==
    /\ Answered("refresh")
    /\ list' = answer.rows
    /\ selectedId' = IF selectedId # None \/ answer.rows = <<>> THEN selectedId
                     ELSE answer.rows[1].id
    /\ queue' = IF selectedId' = selectedId THEN Tail(queue)
                ELSE Refetch(Tail(queue), selectedId')
    /\ UNCHANGED <<table, revealedSecret, busyKeys, deliveriesOf, drawer, receiver, budget,
                   behind>>

\* The answer is lost: the .catch() of each handler.
AnswerLost ==
    /\ Upset /\ queue # <<>> /\ answer # None /\ answer' = None
    /\ queue' = Tail(queue) /\ Settle(Key(Head1))
    /\ drawer' = IF Head1.kind = "create" THEN [drawer EXCEPT !.submitting = FALSE]
                 ELSE drawer
    /\ behind' = behind \cup answer.told
                   \cup (IF answer.ok /\ Head1.kind \in {"toggle", "create"}
                         THEN {answer.id} ELSE {})
    /\ UNCHANGED <<table, list, selectedId, revealedSecret, deliveriesOf, receiver>>

-----------------------------------------------------------------------------
(* The second tab, the merchant's server and a delivery to it              *)

\* In the second tab a row is switched, or given a new secret.
ForeignChange(e) ==
    /\ Upset /\ secret[e] # None
    /\ \/ /\ active' = [active EXCEPT ![e] = ~@]
          /\ behind' = behind \cup {e} /\ UNCHANGED <<secret, issued, delivery>>
       \/ /\ issued' = issued + 1 /\ secret' = [secret EXCEPT ![e] = issued']
          /\ delivery' = IF e = Watched THEN [delivery EXCEPT !.sound = FALSE] ELSE delivery
          /\ behind' = behind \cup {<<"secret", e>>} /\ UNCHANGED active
    /\ UNCHANGED <<order, queue, answer, page, installed>>

\* Copy: the merchant puts the secret into the watched endpoint's server.
Copy ==
    /\ Shown # None /\ selectedId = Watched /\ installed # Shown
    /\ installed' = Shown
    /\ UNCHANGED <<table, queue, answer, page, delivery, budget, behind>>

\* triggerWebhook() writes rows for active endpoints only.
TriggerWebhook ==
    /\ delivery.state = "none" /\ active[Watched]
    /\ delivery' = [delivery EXCEPT !.state = "due"]
    /\ UNCHANGED <<table, queue, answer, page, installed, budget, behind>>

\* attemptDelivery() up to the POST: the secret is read anew for every attempt;
\* is_active is not looked at.
\* Faulty variant: a retry is signed with the secret of the first attempt.
LoadKept ==
    /\ delivery.state = "due"
    /\ delivery' = [delivery EXCEPT !.state = "loaded", !.sound = (installed = secret[Watched]),
                                    !.secret = IF @ = None THEN secret[Watched] ELSE @]
    /\ UNCHANGED <<table, queue, answer, page, installed, budget, behind>>

Load ==
    /\ delivery.state = "due"
    /\ delivery' = [delivery EXCEPT !.state = "loaded", !.sound = (installed = secret[Watched]),
                                    !.secret = secret[Watched]]
    /\ UNCHANGED <<table, queue, answer, page, installed, budget, behind>>

\* webhooks.verify() on the merchant's side: the two keys agree.
Verify == delivery.secret = installed

\* The POST and its outcome: a wrong signature is answered 401, which is final.
\* Faulty variant: one attempt too many.
PostOnceMore ==
    /\ delivery.state = "loaded"
    /\ delivery' \in
         IF ~Verify THEN {[delivery EXCEPT !.state = "rejected"]}
         ELSE {[delivery EXCEPT !.state = "delivered"],
               [delivery EXCEPT !.attempts = @ + 1,
                    !.state = IF delivery.attempts + 1 <= MAX_ATTEMPTS THEN "due" ELSE "failed"]}
    /\ UNCHANGED <<table, queue, answer, page, installed, budget, behind>>

Post ==
    /\ delivery.state = "loaded"
    /\ delivery' \in
         IF ~Verify THEN {[delivery EXCEPT !.state = "rejected"]}
         ELSE {[delivery EXCEPT !.state = "delivered"],
               [delivery EXCEPT !.attempts = @ + 1,
                    !.state = IF delivery.attempts + 1 < MAX_ATTEMPTS THEN "due" ELSE "failed"]}
    /\ UNCHANGED <<table, queue, answer, page, installed, budget, behind>>

\* What the page showed before the step and not after it.
History == gone' = IF Shown # None /\ Shown' # Shown THEN gone \cup {Shown} ELSE gone

Step ==
    \/ \E e \in Endpoints : HandleSelect(e) \/ ServeCreate(e) \/ ForeignChange(e)
    \/ \E i \in 1 .. Len(list) : HandleToggle(i)
    \/ HandleRegenerate \/ UseDrawer \/ HandleSubmit
    \/ ServeToggle \/ ServeRegenerate \/ ServeInvalid \/ ServeDeliveries \/ ServeRefresh
    \/ ServeFails
    \/ ToggleSettles \/ RegenerateSettles \/ CreateSettles \/ DeliveriesSettle
    \/ RefreshSettles \/ AnswerLost
    \/ Copy \/ TriggerWebhook \/ Load \/ Post

Next == Step /\ History

Spec == Init /\ [][Next]_vars

-----------------------------------------------------------------------------
(* Properties                                                              *)

Requests == [kind : {"toggle", "regenerate", "create", "deliveries", "refresh"},
             id : Endpoints \cup {None}, value : {None, "on", "off", "blank", "filled"},
             live : BOOLEAN]

Row == [id : Endpoints, isActive : BOOLEAN]

\* Every variable has its type; the list has a row for an endpoint once.
TypeOK ==
    /\ active \in [Endpoints -> BOOLEAN] /\ secret \in [Endpoints -> Nat \cup {None}]
    /\ order \in Seq(Endpoints) /\ issued \in Nat /\ queue \in Seq(Requests)
    /\ answer = None \/ answer.rows \in Seq(Row)
    /\ list \in Seq(Row) /\ selectedId \in Endpoints \cup {None}
    /\ revealedSecret = None \/ revealedSecret \in [id : Endpoints, secret : Nat]
    /\ busyKeys \subseteq {"toggle", "regenerate"} \X Endpoints
    /\ deliveriesOf \in Endpoints \cup {None} /\ installed \in Nat
    /\ drawer \in [open : BOOLEAN, form : {"blank", "filled"}, submitting : BOOLEAN]
    /\ delivery.state \in {"none", "due", "loaded", "delivered", "failed", "rejected"}
    /\ delivery.attempts \in 0 .. MAX_ATTEMPTS

\* The secret in the clear is the one the gateway signs with, for the endpoint
\* it is shown next to, unless the second tab has replaced it since: a late
\* answer never puts one endpoint's secret under another one's heading.
ShownIsCurrent ==
    Shown # None => \/ Shown = secret[selectedId]
                    \/ <<"secret", selectedId>> \in behind

\* "a previously revealed plaintext secret must never be shown again after the
\* user navigates away" (webhooks-panel.tsx:68): not by coming back, and not
\* by an answer that comes late.
NeverShownAgain == Shown \notin gone

\* The list is what the table says, in the table's order, whatever requests
\* have crossed: it is wrong only about the endpoint of the one answer that is
\* on its way, or about rows changed without this tab being told.
ListIsTrue ==
    /\ \A e \in Endpoints \ behind :
          \/ secret[e] = None
          \/ answer # None /\ (answer.id = e \/ e \in answer.told)
          \/ \E i \in 1 .. Len(list) : list[i] = EndpointView(e)
    /\ \A i, j \in 1 .. Len(list) : i < j =>
          \E k, l \in 1 .. Len(order) : k < l /\ order[k] = list[i].id /\ order[l] = list[j].id

\* A history is put under the heading of the endpoint it belongs to, in
\* whatever order rows are clicked and answers come in.
HistoryNotMislabelled == [][deliveriesOf' # deliveriesOf => deliveriesOf' = selectedId]_vars

\* A button spins exactly as long as its request is under way, and there is
\* never a second one for the same button: none is left spinning for ever.
BusyIsInFlight ==
    LET InFlight == {i \in 1 .. Len(queue) : queue[i].kind \in {"toggle", "regenerate"}}
    IN  /\ busyKeys = {Key(queue[i]) : i \in InFlight}
        /\ Cardinality(busyKeys) = Cardinality(InFlight)

\* The page does not lie: its list, its spinners and its history.
PageIsTrue == []ListIsTrue /\ []BusyIsInFlight /\ HistoryNotMislabelled

\* Once the merchant's server has the secret of the table, no attempt that
\* starts then, first or retry, is refused for its signature before the secret
\* is replaced: "The endpoint's OLD secret stops verifying signatures the
\* instant this call succeeds" (webhooks.ts:90), and the new one starts to.
NewSecretVerifies == delivery.state = "rejected" => ~delivery.sound

\* What is revealed is right, goes for good when it goes, and verifies.
SecretsSound == ShownIsCurrent /\ NeverShownAgain /\ NewSecretVerifies
=============================================================================
