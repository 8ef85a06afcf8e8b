----------------------------- MODULE InvoiceApi -----------------------------
(***************************************************************************)
(* POST /api/v1/invoices, from the bearer token to the reply: the sliding  *)
(* window of the rate limiter, the validation of the body, the promise of  *)
(* the node's UDT whitelist that concurrent RUSD requests share, the       *)
(* new_invoice call with its timeout, and the INSERT.  One action per      *)
(* stretch of code between two awaits; a settled promise wakes all that    *)
(* await it before anything else runs.                                     *)
(*                                                                         *)
(* The Fiber node and the operator who edits its whitelist are external.   *)
(* A restart of the process loses the limiter's timestamps, the promise    *)
(* and every request being served; the node and the table survive it.      *)
(***************************************************************************)
EXTENDS Integers, Sequences, FiniteSets

CONSTANTS
    Requests,       \* POST requests that may be made
    Pages,          \* page loads of the dashboard, which share the lookup
    Bodies,         \* Bodies[r]: what request r may carry
    Scripts,        \* type scripts the whitelist may hold for RUSD
    None,           \* no script, no lookup, never
    WINDOW,         \* WINDOW_MS
    MAX_PER_WINDOW, \* MAX_INVOICES_PER_WINDOW
    MIN_AMOUNT,     \* MIN_AMOUNT_CKB, in tenths of a shannon
    MAX_AMOUNT,     \* MAX_AMOUNT_CKB, in tenths of a shannon
    MAX_EXPIRES,    \* MAX_EXPIRES_IN_SECONDS
    MaxTime,        \* bound: the clock stops here
    MaxEdits,       \* bound: changes of the whitelist
    MaxRestarts     \* bound: restarts of the process

ASSUME BodiesAssumption ==
    Bodies \in [Requests -> SUBSET [token : {"FIBERGATE_INTERNAL_SECRET", "other"}, json : BOOLEAN, amount : Int,
                                   asset : {"CKB", "RUSD", "DOGE"}, expires : Int]]
ASSUME NamesAssumption == 
    None \notin Requests \cup Pages \cup Scripts /\ None \notin Int /\ Requests \cap Pages = {}
ASSUME NumbersAssumption ==
    /\ WINDOW \in Nat \ {0} /\ MAX_PER_WINDOW \in Nat \ {0}
    /\ MIN_AMOUNT \in Nat \ {0} /\ MAX_AMOUNT \in Nat /\ MAX_EXPIRES \in Nat
    /\ MaxTime \in Nat /\ MaxEdits \in Nat /\ MaxRestarts \in Nat

VARIABLES
    now,            \* Date.now()
    timestamps,     \* invoiceCreationTimestamps
    cached,         \* udtScriptsPromise: the loader whose call it is, or None
    lookup,         \* lookup[l]: the node_info call loader l started
    req,            \* req[r]: one POST request
    whitelist,      \* node: the script of RUSD in ckb.udt_whitelist, or None
    created,        \* node: created[r], the invoice made for r, or None
    rows,           \* table invoices: rows[r], the row inserted for r, or None
    edits, restarts

server == <<timestamps, cached, lookup>>
budget == <<edits, restarts>>
vars == <<now, server, req, whitelist, created, rows, budget>>

-----------------------------------------------------------------------------
(* Requests, replies and the body                                          *)

Refusals == {"UNAUTHORIZED", "RATE_LIMITED", "VALIDATION_ERROR",
             "INVALID_AMOUNT", "UNSUPPORTED_ASSET", "ASSET_NOT_CONFIGURED"}
Replies == Refusals \cup {"NODE_UNAVAILABLE", "INTERNAL_ERROR", "CREATED"}

\* admitted: when the request took a slot of the limiter of this process.
\* sent: its new_invoice call has left for the node, which may act on it at any
\* time from then on.
Request == [pc : {"unsent", "body", "lookup", "rpc", "insert", "done", "dropped"},
            body : (UNION {Bodies[r] : r \in Requests}) \cup {None},
            admitted : (0 .. MaxTime) \cup {None}, on : Requests \cup Pages \cup {None}, script : Scripts \cup {None}, sent : BOOLEAN,
            reply : Replies \cup {None}]

Lookup == [state : {"none", "asked", "answered", "kept", "failed"},
           script : Scripts \cup {None}]

Loaders == Requests \cup Pages

\* "Nothing" is no reply, no invoice and no row.
ASSUME NoneAssumption ==
    /\ None \notin Replies
    /\ None \notin [amount : Int, script : Scripts \cup {None}]
    /\ None \notin [amount : Int, asset : {"CKB", "RUSD"}, expiresIn : Int]

\* Math.round(amount * 1e8): a tenth of a shannon is rounded half up.
ckbToShannon(amount) == (amount + 5) \div 10

\* validateCreateInvoiceInput(): the code of the first check that fails.
Invalid(b) ==
    IF ~b.json THEN "VALIDATION_ERROR"
    ELSE IF b.amount \notin MIN_AMOUNT .. MAX_AMOUNT THEN "INVALID_AMOUNT"
    ELSE IF b.asset \notin {"CKB", "RUSD"} THEN "UNSUPPORTED_ASSET"
    ELSE IF b.expires \notin 1 .. MAX_EXPIRES THEN "VALIDATION_ERROR"
    ELSE None

Init ==
    /\ now = 0 /\ timestamps = <<>> /\ cached = None
    /\ lookup = [l \in Loaders |-> [state |-> "none", script |-> None]]
    /\ req = [r \in Requests |-> [pc |-> "unsent", body |-> None, admitted |-> None,
                                  on |-> None, script |-> None, sent |-> FALSE,
                                  reply |-> None]]
    /\ whitelist \in Scripts \cup {None}
    /\ created = [r \in Requests |-> None] /\ rows = [r \in Requests |-> None]
    /\ edits = 0 /\ restarts = 0

\* The requests of S are answered with the code.
Answered(S, code) ==
    [r \in Requests |-> IF r \in S THEN [req[r] EXCEPT !.pc = "done", !.reply = code]
                        ELSE req[r]]

\* The requests of S go on to new_invoice with the script.
Resolved(S, script) ==
    [r \in Requests |->
        IF r \in S THEN [req[r] EXCEPT !.pc = "rpc", !.script = script, !.sent = TRUE]
        ELSE req[r]]

-----------------------------------------------------------------------------
(* The route handler, up to its first RPC                                  *)

\* Faulty variant: a slot is kept one unit too short.
ExpiredTooSoon == {i \in 1 .. Len(timestamps) : timestamps[i] <= now - WINDOW + 1}
Expired == {i \in 1 .. Len(timestamps) : timestamps[i] <= now - WINDOW}

\* What filter() keeps: the timestamps ascend, so the expired ones come first.
Pruned == SubSeq(timestamps, Cardinality(Expired) + 1, Len(timestamps))

\* tryConsumeInvoiceCreationSlot() returns false.
Full == Len(Pruned) >= MAX_PER_WINDOW

\* requireAuth(): the digests of the two tokens agree.
Authorized(b) == b.token = "FIBERGATE_INTERNAL_SECRET"

\* requireAuth() and tryConsumeInvoiceCreationSlot(), before any await.
Arrive(r, b) ==
    /\ req[r].pc = "unsent"
    /\ timestamps' = IF ~Authorized(b) THEN timestamps
                     ELSE IF Full THEN Pruned ELSE Append(Pruned, now)
    /\ req' = [req EXCEPT ![r] =
          IF ~Authorized(b) THEN [@ EXCEPT !.pc = "done", !.reply = "UNAUTHORIZED"]
          ELSE IF Full THEN [@ EXCEPT !.pc = "done", !.reply = "RATE_LIMITED"]
          ELSE [@ EXCEPT !.pc = "body", !.body = b, !.admitted = now]]
    /\ UNCHANGED <<now, cached, lookup, whitelist, created, rows, budget>>

\* The body has been read, and is no invoice's.
Reject(r) ==
    /\ req[r].pc = "body" /\ Invalid(req[r].body) # None
    /\ req' = Answered({r}, Invalid(req[r].body))
    /\ UNCHANGED <<now, server, whitelist, created, rows, budget>>

\* resolveUdtTypeScript() of a CKB invoice needs nothing.
ResolveCkb(r) ==
    /\ req[r].pc = "body" /\ Invalid(req[r].body) = None /\ req[r].body.asset = "CKB"
    /\ req' = Resolved({r}, None)
    /\ UNCHANGED <<now, server, whitelist, created, rows, budget>>

InFlight(l) == lookup[l].state \in {"asked", "answered"}

\* loadUdtScripts() starts the call, joins the one in flight, or finds a
\* resolved promise.  One without RUSD, which only a page of the dashboard
\* leaves behind, refuses this request and is forgotten.
LoadUdtScripts(r) ==
    /\ req[r].pc = "body" /\ Invalid(req[r].body) = None /\ req[r].body.asset = "RUSD"
    /\ \/ /\ cached = None
          /\ cached' = r /\ lookup' = [lookup EXCEPT ![r].state = "asked"]
          /\ req' = [req EXCEPT ![r].pc = "lookup", ![r].on = r]
       \/ /\ cached # None /\ InFlight(cached)
          /\ req' = [req EXCEPT ![r].pc = "lookup", ![r].on = cached]
          /\ UNCHANGED <<cached, lookup>>
       \/ /\ cached # None /\ lookup[cached].state = "kept" /\ lookup[cached].script # None
          /\ req' = Resolved({r}, lookup[cached].script)
          /\ UNCHANGED <<cached, lookup>>
       \/ /\ cached # None /\ lookup[cached].state = "kept" /\ lookup[cached].script = None
          /\ req' = Answered({r}, "ASSET_NOT_CONFIGURED")
          /\ cached' = None /\ UNCHANGED lookup
    /\ UNCHANGED <<now, timestamps, whitelist, created, rows, budget>>

-----------------------------------------------------------------------------
(* The shared node_info call                                               *)

Waiters(l) == {r \in Requests : req[r].pc = "lookup" /\ req[r].on = l}

\* The node reads its whitelist; its answer is on the way.
NodeAnswers(l) ==
    /\ lookup[l].state = "asked"
    /\ lookup' = [lookup EXCEPT ![l].state = "answered", ![l].script = whitelist]
    /\ UNCHANGED <<now, timestamps, cached, req, whitelist, created, rows, budget>>

\* The answer has RUSD: the promise stays, for the life of the process.
LookupFinds(l) ==
    /\ lookup[l].state = "answered" /\ lookup[l].script # None
    /\ lookup' = [lookup EXCEPT ![l].state = "kept"]
    /\ req' = Resolved(Waiters(l), lookup[l].script)
    /\ UNCHANGED <<now, timestamps, cached, whitelist, created, rows, budget>>

\* The answer has not: every request that waits forgets the promise and fails
\* with UdtNotConfiguredError; pages that wait are content, and keep it.
\* Faulty variant: the promise stays.
LookupMissesCached(l) ==
    /\ lookup[l].state = "answered" /\ lookup[l].script = None
    /\ lookup' = [lookup EXCEPT ![l].state = "kept"]
    /\ req' = Answered(Waiters(l), "ASSET_NOT_CONFIGURED")
    /\ UNCHANGED <<now, timestamps, cached, whitelist, created, rows, budget>>

LookupMisses(l) ==
    /\ lookup[l].state = "answered" /\ lookup[l].script = None
    /\ lookup' = [lookup EXCEPT ![l].state = "kept"]
    /\ cached' = IF Waiters(l) = {} THEN cached ELSE None
    /\ req' = Answered(Waiters(l), "ASSET_NOT_CONFIGURED")
    /\ UNCHANGED <<now, timestamps, whitelist, created, rows, budget>>

\* The call times out, or fails, or its answer has no udtCfgInfos.
LookupFails(l) ==
    /\ InFlight(l)
    /\ lookup' = [lookup EXCEPT ![l].state = "failed"]
    /\ cached' = None
    /\ \E code \in {"NODE_UNAVAILABLE", "INTERNAL_ERROR"} :
           req' = Answered(Waiters(l), code)
    /\ UNCHANGED <<now, timestamps, whitelist, created, rows, budget>>

-----------------------------------------------------------------------------
(* new_invoice and the INSERT                                              *)

Invoice(r) == [amount |-> ckbToShannon(req[r].body.amount), script |-> req[r].script]

\* Also when the gateway has given up waiting, or has been restarted.
NodeCreates(r) ==
    /\ req[r].sent /\ created[r] = None
    /\ created' = [created EXCEPT ![r] = Invoice(r)]
    /\ UNCHANGED <<now, server, req, whitelist, rows, budget>>

RpcAnswers(r) ==
    /\ req[r].pc = "rpc" /\ created[r] # None
    /\ req' = [req EXCEPT ![r].pc = "insert"]
    /\ UNCHANGED <<now, server, whitelist, created, rows, budget>>

\* The call fails before or after the node has done its part: a timeout is
\* answered 503, any other error 500.
\* Faulty variants: the error's own name is the code; an error of the node is
\* taken for a refusal of the asset.
RpcFailsUnmapped(r) ==
    /\ req[r].pc = "rpc"
    /\ req' = Answered({r}, "FiberRpcTimeoutError")
    /\ UNCHANGED <<now, server, whitelist, created, rows, budget>>

RpcFailsAsRefusal(r) ==
    /\ req[r].pc = "rpc"
    /\ req' = Answered({r}, "ASSET_NOT_CONFIGURED")
    /\ UNCHANGED <<now, server, whitelist, created, rows, budget>>

RpcFails(r) ==
    /\ req[r].pc = "rpc"
    /\ \E code \in {"NODE_UNAVAILABLE", "INTERNAL_ERROR"} : req' = Answered({r}, code)
    /\ UNCHANGED <<now, server, whitelist, created, rows, budget>>

\* expiresIn: expires_at less the time of the INSERT.
Row(r) == [amount |-> ckbToShannon(req[r].body.amount), asset |-> req[r].body.asset,
           expiresIn |-> req[r].body.expires]

Insert(r) ==
    /\ req[r].pc = "insert"
    /\ rows' = [rows EXCEPT ![r] = Row(r)]
    /\ req' = Answered({r}, "CREATED")
    /\ UNCHANGED <<now, server, whitelist, created, budget>>

\* The statement is reported failed; it may have been committed all the same.
InsertFails(r) ==
    /\ req[r].pc = "insert"
    /\ rows' \in {rows, [rows EXCEPT ![r] = Row(r)]}
    /\ req' = Answered({r}, "INTERNAL_ERROR")
    /\ UNCHANGED <<now, server, whitelist, created, budget>>

-----------------------------------------------------------------------------
(* The clock, the operator, a restart                                      *)

Tick == now < MaxTime /\ now' = now + 1
        /\ UNCHANGED <<server, req, whitelist, created, rows, budget>>

EditWhitelist ==
    /\ edits < MaxEdits /\ edits' = edits + 1
    /\ whitelist' \in (Scripts \cup {None}) \ {whitelist}
    /\ UNCHANGED <<now, server, req, created, rows, restarts>>

Restart ==
    /\ restarts < MaxRestarts /\ restarts' = restarts + 1
    /\ timestamps' = <<>> /\ cached' = None
    /\ lookup' = [l \in Loaders |-> [state |-> "none", script |-> None]]
    /\ req' = [r \in Requests |->
                  IF req[r].pc \in {"unsent", "done"} THEN [req[r] EXCEPT !.admitted = None]
                  ELSE [req[r] EXCEPT !.pc = "dropped", !.admitted = None]]
    /\ \E S \in SUBSET {r \in Requests : req[r].pc = "insert"} :
           rows' = [r \in Requests |-> IF r \in S THEN Row(r) ELSE rows[r]]
    /\ UNCHANGED <<now, whitelist, created, edits>>

RequestStep(r) ==
    \/ \E b \in Bodies[r] : Arrive(r, b)
    \/ Reject(r) \/ ResolveCkb(r) \/ LoadUdtScripts(r) \/ NodeCreates(r)
    \/ RpcAnswers(r) \/ RpcFails(r) \/ Insert(r) \/ InsertFails(r)

LookupEnds(l) == LookupFinds(l) \/ LookupMisses(l) \/ LookupFails(l)

Next ==
    \/ \E r \in Requests : RequestStep(r)
    \/ \E l \in Loaders : NodeAnswers(l) \/ LookupEnds(l)
    \/ Tick \/ EditWhitelist \/ Restart

Spec == Init /\ [][Next]_vars

-----------------------------------------------------------------------------
(* Properties                                                              *)

\* Every variable has its type.
TypeOK ==
    /\ now \in 0 .. MaxTime /\ timestamps \in Seq(0 .. MaxTime)
    /\ cached \in Loaders \cup {None} /\ lookup \in [Loaders -> Lookup]
    /\ req \in [Requests -> Request] /\ whitelist \in Scripts \cup {None}
    /\ created \in [Requests -> [amount : Int, script : Scripts \cup {None}] \cup {None}]
    /\ rows \in [Requests -> [amount : Int, asset : {"CKB", "RUSD"}, expiresIn : Int]
                             \cup {None}]
    /\ edits \in 0 .. MaxEdits /\ restarts \in 0 .. MaxRestarts

\* The requests this process has let through in the window that ends at t.
AdmittedIn(t) ==
    {r \in Requests : req[r].admitted \in (t - WINDOW + 1) .. t}

\* The limiter's promise (BR-RTE-001): whatever the clock did between two
\* requests, no window of WINDOW units, wherever it starts, holds more than
\* MAX_PER_WINDOW requests the process let through.
WindowNeverOverfull ==
    \A t \in 0 .. now : Cardinality(AdmittedIn(t)) <= MAX_PER_WINDOW

\* The limiter lets neither more through than it says nor less: a request is
\* turned away only when the window that ends with it is full of requests that
\* were let through, the ones turned away not counted.
LimiterExact ==
    [][/\ WindowNeverOverfull'
       /\ \A r \in Requests : req'[r].reply = "RATE_LIMITED" /\ req[r].reply = None
            => Cardinality(AdmittedIn(now)) = MAX_PER_WINDOW]_vars

\* What the merchant's code may conclude from a reply before it tries again:
\* a refusal has left nothing anywhere; NODE_UNAVAILABLE may have left an
\* invoice on the node, but no row; and CREATED has left both.
ReplyTellsEffect ==
    \A r \in Requests :
        /\ req[r].reply \in Refusals => created[r] = None /\ rows[r] = None
        /\ req[r].reply = "NODE_UNAVAILABLE" => rows[r] = None
        /\ req[r].reply = "CREATED" => created[r] # None /\ rows[r] # None

\* A row has the invoice the node made for the same request, of the amount
\* and the asset that were asked for, a UDT invoice never taken for one in
\* CKB, and a deadline within the limits.
RowsAsOrdered ==
    \A r \in Requests : rows[r] # None =>
        /\ created[r] # None /\ created[r].amount = rows[r].amount
        /\ 10 * rows[r].amount - req[r].body.amount \in -4 .. 5
        /\ rows[r].asset = req[r].body.asset
        /\ (created[r].script = None) = (rows[r].asset = "CKB")
        /\ rows[r].expiresIn \in 1 .. MAX_EXPIRES

\* The reply, the table and the node tell one story about a request.
BooksAgree == ReplyTellsEffect /\ RowsAsOrdered

\* Requests and pages share a lookup: at most one node_info call is in flight.
OneLookupInFlight == \A l \in Loaders : InFlight(l) => cached = l

\* What the process keeps is never a failure, and a missing entry no longer than
\* until the next request that needs it.
NoFailureCached == cached # None => InFlight(cached) \/ lookup[cached].state = "kept"
NoRefusalRepeated ==
    [][(\E r \in Requests :
            req[r].reply = None /\ req'[r].reply = "ASSET_NOT_CONFIGURED") => cached' = None]_vars

\* Nobody waits for ever: a request that awaits the lookup has one that is
\* still in flight, another request's included, and whose end (a timeout, at
\* the latest) answers it.
NobodyLeftWaiting == \A r \in Requests : req[r].pc = "lookup" => InFlight(req[r].on)

\* The shared lookup of the whitelist, whatever becomes of the node's answer.
LookupShared ==
    /\ [](OneLookupInFlight /\ NoFailureCached /\ NobodyLeftWaiting)
    /\ NoRefusalRepeated
=============================================================================
