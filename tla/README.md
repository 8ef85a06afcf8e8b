# FiberGate: a TLA+ verification project

FiberGate is a self-hosted payment gateway. One long-lived Node.js process
(`fibergate-core`, `src/apps/web`) sits between a merchant's shop, a PostgreSQL
database and a Fiber node (FNN): it creates invoices on the node, finds out how
they end, tells the merchant by signed webhooks, and shows all of it on a
dashboard. This directory models what in that process, in the demo shop and in
the scaffolder depends on order, failure and restarts, checks it with TLC on
small instances, and proves the main results with TLAPS for all.

Throughout, `W` stands for `src/apps/web`, `D` for `W/app/(dashboard)`.

## 1. Inventory

| Component | State | Operations | Interacts with | What makes it correct |
|---|---|---|---|---|
| Invoice creation (`W/app/api/v1/invoices`, `W/lib/services/invoices.ts`) | `invoices` rows | authenticate, take a slot, validate, resolve the asset, `new_invoice`, INSERT, answer | API caller, Fiber node, PostgreSQL | reply, row and node agree about each request |
| Rate limiter (`W/lib/api/rate-limit.ts`) | timestamps of the last minute | take a slot | creation route | at most the limit in any window, and not fewer |
| Fiber RPC client (`W/lib/fiber/client.ts`) | the shared promise of the UDT whitelist | RPC with timeout; load, keep, clear | creation, node/channel/peer views | a failure is not kept, all who wait are answered |
| Poll cycle (`W/lib/poller/invoice-poller.ts`) | local `now`, batch, row, answer | `pollPendingBatch`, `pollOneInvoice`, `applyNodeStatus`, `expireOverdueInvoices` | worker, cron route, node, database, `triggerWebhook()` | one outcome per invoice, the true one, announced once; a settled payment is not expired |
| Interval worker (`W/lib/poller/worker.ts`), cron route (`W/app/api/cron/poll-invoices`) | `isRunning` | tick, request | poll cycle | the worker never overlaps itself and never stops |
| Real-time listener (`W/lib/poller/invoice-listener.ts`, `W/lib/fiber/subscribe-client.ts`) | status, subscription, reconnect timer, backoff; per socket: promise, heartbeat, timeouts | start, stop, connect, reconnect, events | Fiber node's WebSocket, `applyInvoiceStatusUpdate()` | one connection, dead links noticed, always something that reconnects |
| Webhook trigger (`W/lib/webhooks/trigger.ts`) | `webhook_deliveries` rows | one INSERT per endpoint, arm an attempt for each | poller, listener, scheduler | every terminal invoice gets its rows |
| Delivery and retries (`W/lib/webhooks/deliver.ts`, `retry-scheduler.ts`) | row: status, attempt_count, next_retry_at; `scheduledTimers` | schedule, cancel, attempt, persist, recover at boot | merchant endpoints, database | at most one chain per row, bounded requests, no early retry, an outcome at the end |
| Endpoints and their secrets (`W/lib/services/webhooks.ts`, `D/webhooks`) | `webhook_endpoints` rows; the page's list, selection, revealed secret, busy keys, drawer | create, toggle, regenerate, list, reveal | merchant's server, other tabs | the secret shown is the one that verifies; the page says what the table says |
| Tables and exports (`D/invoices`, `D/delivery-log`, `W/lib/db/cursor.ts`) | filters, search box, debounce, page, CSV | filter, search, page, export | database | pages are slices; an export is complete; the last gesture counts |
| Overview, health, receipts (`D/overview`, `D/webhooks`, `D/invoices/receipt-drawer.tsx`) | loaded cards; the open receipt | load sections side by side, open, close | database | the endpoint that needs attention is one; a receipt is the one asked for |
| Node, channel and peer views (`W/lib/services/node.ts`, `channels.ts`, `peers.ts`) | - | parallel RPCs, naming of UDT channels, grouping by peer | node, shared whitelist | a page is what the node was |
| Session and admin password (`W/lib/auth`, `W/middleware.ts`, `W/lib/services/settings.ts`) | cookie, settings row, environment | log in, renew, log out, change password | dashboard | only who knew the password; who is active stays in, who left is out |
| Process start (`W/instrumentation.ts`) | - | start poller, listener, recovery | all of the above | what the memory lost is taken up again |
| `create-fibergate` and `generate-local-env` (`src/packages/create-fibergate`) | deploy directory: `.env`, key, compose file | prompts, writes | docker compose, node's key store, PostgreSQL volume | cancelled: nothing written; finished: a stack that starts |
| Demo storefront (`src/apps/demo-storefront`) | event bus, SSE streams | receive webhook, stream | gateway, browser | no event lost between reading and subscribing |
| SDK, activity log, landing and quick-start pages | none | HTTP calls, log ring, text | - | - |

The hard behaviours are the interleavings at every `await` of three independent
writers of an invoice's status, work that exists only in memory (timers, the
calls of `triggerWebhook()`, shared promises), failures between a committed
UPDATE and the step that should follow it, restarts, silent network links,
retries of requests whose result was never stored, and, in the browser, answers
that arrive after the user has moved on. `PROJECT.json` lists each of them under
`hazards`, at its line.

## 2. The modules

| Module | Models |
|---|---|
| `InvoiceLifecycle` | abstract specification: an invoice is created pending, settles once, and is announced at most once by the event of the status it has |
| `DeliveryContract` | abstract specification: one request at a time, one more for each whose result was lost, an outcome that the answers justify and nothing changes |
| `InvoicePoller` | creation (its two effects), poll cycles of both callers, listener events, `triggerWebhook()`, clock, failures, restarts |
| `WebhookDelivery` | a `webhook_deliveries` row from INSERT to outcome: timers, attempts, resend, recovery, failures, restarts |
| `StoreChangeListener` | the WebSocket subscription and its reconnect loop |
| `InvoiceApi` | a POST request from the bearer token to the reply: limiter, validation, shared whitelist, `new_invoice`, INSERT |
| `NodeViews` | extends `InvoiceApi`: node status, Channels and Peers pages, which share the lookup with the requests |
| `EndpointPanel` | the Webhooks page against its queue of server actions, the table, a second tab and a merchant's server |
| `DashboardTable` | a filtered, paged, exported table and its cursors, with other writers |
| `DashboardPanels` | extends `DashboardTable`: Receipt drawer, delivery health |
| `AdminSession` | login, logout, renewal, password change of one browser with tabs |
| `Deployment` | extends `AdminSession`: the scaffolder's interview and writes, starts and stops of the stack, which runs the gateway of `AdminSession` |
| `StorefrontStream` | the demo shop's event bus, SSE streams, webhook route and waiting page |
| `InvoicePollerProofs`, `WebhookDeliveryProofs`, `StoreChangeListenerProofs`, `NodeViewsProofs` (with `InvoiceApi`), `EndpointPanelProofs`, `DashboardTableProofs` (with `DashboardPanels`), `DeploymentProofs` (with `AdminSession`), `StorefrontStreamProofs` | TLAPS proofs |
| `MC*` | definitions for TLC: symmetry, instances, and one state constraint |

### InvoicePoller

An action is a stretch of code between two awaits. `run[c]` holds the local
variables of one invocation of `runPollCycle()`; invocations by the interval
worker (`TimerRuns`) and by the cron route (`CronRuns`) interleave freely, and
so do the handlers of listener events (`events`) and the calls of
`triggerWebhook()` (`triggers`), each tagged with its caller because the caller
awaits it: a run polls its next row only when the previous row's trigger has
ended, and ends only when those of its bulk expiry have.

`ApplyNodeStatus` is the UPDATE `... WHERE status = 'pending' RETURNING`, one
atomic statement, and the call it leads to. `SelectBatch` returns any batch of
at most `BatchSize` pending rows inside the window, because the query has no
ORDER BY. `ExpireOverdue` compares with the `now` the run captured when it
began. An INSERT of all delivery rows of a trigger is one step, `TriggerWebhook`,
which counts the event in `queued`; what becomes of the rows is the subject of
`WebhookDelivery`.

The Fiber node is external: it moves an invoice along `NodeNext` and may or may
not tell the listener (`NodeMoves`): the subscription may be down, and nothing
is replayed. Received events may be handled in any order. `Crash` loses
everything but the database and the node. A creation whose reply or INSERT
failed leaves an orphan on the node (`api[i] = "orphaned"`).

Two history variables or fields serve properties only: `lost` (invoices whose
`triggerWebhook()` failed or died) and `run[c].settled` (the batch's invoices that
the node had settled when the run began and whose check has not failed).
`paid_at`, amounts, assets and metadata are abstracted away.

### WebhookDelivery

`row[d]` is the stored row, `timers` is `scheduledTimers`, `attempts` the calls
of `attemptDelivery()` in flight, with a program counter: load (the SELECTs),
send, wait (the request is out), persist (the UPDATE). HTTP answers are the
three classes of `classifyResponse()`; a timeout is a retryable answer.
Scheduling is part of `Persist`: nothing happens between the UPDATE's return
and the timer. The recovery at boot is two steps, its SELECT and the arming,
because `register()` does not await it and new rows are queued, attempted and
persisted next to it.

Time is relative: `next_retry_at` and a timer's due time count down at each
`Tick`, so behaviours are infinite in finitely many states and no clock bound
is needed. A unit is longer than a statement and than a turn of the event loop;
the one place where this matters is that `Tick` is off between the recovery's
start and its arming. The guard of `Resend`, that the old row is failed, is the
dashboard's (`delivery-log-table.tsx:154`); the service has none.

History variables: `sent`, `interrupted` (requests whose result was not
stored), `accepted`, `refused`, `broken` (chains cut by a failed statement, or
by a crash before the first result was stored).

### StoreChangeListener

One record per socket, that is, per call of `subscribeToStoreChanges()`; a
socket goes opening - asked - subscribed - closing and is free again. A
rejected attempt's socket is free at once, since its later events do nothing.
The reconnect timers are a count and one bit: `armed` many, and `tracked` when
`reconnectTimer` refers to one, because `scheduleReconnect()` overwrites the
variable without clearing and any callback sets it to null. The model is
untimed: an armed timer may fire at any moment, so nothing depends on how 5 s
compare with 15 s. Malformed frames and answers of another id are ignored by
the code and are no steps.

### StorefrontStream

One invoice and one page, because the bus is keyed by invoice and the page
waits for one. `stream[s]` is one GET request, with its controller, heartbeat
and the `Set` its unsubscribe function closes over. A `Set` is named by the
stream that created it, so `bus` says which one the Map holds and `listeners`
keeps those a late unsubscribe still refers to. The lookup is two steps, the
gateway's read (`GatewayAnswers`) and what the handler does with the answer
(`SendsStatus`, `Subscribes`). `publish()` is synchronous and so one step,
in insertion order up to the first listener that throws (`Reaches`).

The page has one connection at a time and reconnects with a new request; the
server may hear late, or never, that the old one is gone (`Drop`, then `Abort`
or `Cancel`). Next.js is external: the signal may come until the response is
written (`Finish`), also after the stream was closed. A throwing heartbeat is no step: it
changes nothing. Reloading or leaving the page for good is `Drop` without the
reconnection, which is harmless to the safety properties. The gateway's
delivery is reduced to its requests and results, and to the end of their chain
without an outcome (`ChainBreaks`): a crash or a failure between the UPDATE and
the trigger, or a failed UPDATE of an attempt, which may come at any time.
History: `early`, `late`, `published`, `twice`.

### InvoiceApi

One action per stretch between two awaits of `POST /invoices`: the bearer token
and the slot are one (`checkAuth`, `tryConsumeInvoiceCreationSlot` are
synchronous), then the body, the validation, the whitelist, the RPC, the INSERT.
Amounts are kept in tenths of a shannon, since the conversion of a decimal to
shannons rounds and is part of what `BooksAgree` says.

`cached` is `udtScriptsPromise`, named by the loader whose `node_info` call it
is; `lookup[l]` is that call: none, asked, answered, kept, failed. A loader is
a request or a page of `NodeViews`. A settled promise wakes all that await it in
one step, because nothing else runs in between. Missing the asset clears the
cache; whoever joined it shares the refusal. A timed-out `new_invoice` may still
take effect on the node later (`created`), which is why NODE_UNAVAILABLE
promises no row but not no invoice. The retry of a caller is a request of its
own: nothing in the gateway links the two.

### NodeViews

A load makes two RPCs in parallel (`list`, `other`), each answered from the
state the node is in at that moment, and joins or starts the lookup when a
channel has a UDT. `since[p]` records every state the node was in during the
load, and is what "one moment of the load" is measured by. The node moves by
itself (`NodeMoves`): channels open, close, change, peers come and go.

### EndpointPanel

Next.js serves a tab's server actions and refreshes one at a time, in order, so
the page is a queue: the head is served by the gateway (`Serve`), and its answer
handled by the page, or lost. Clicks, the second tab and deliveries happen in
between. `live` marks a fetch whose effect has not been cleaned up. The merchant
installs the secret the page shows; `delivery` is one delivery to the watched
endpoint with its retries, and `sound` says whether the attempt under way
started when table and server had the same secret. History: `behind`, `gone`.

### DashboardTable and DashboardPanels

Time has three grains, as in the code: microseconds in PostgreSQL, milliseconds
in JavaScript's `Date` and so in a cursor, days in the date picker; a tick is
half a millisecond, so that two rows can share a millisecond and differ. The
server walks to page *n* one query per step, and an export likewise, while rows
are inserted or take a final status. The filter bar is `use-table-filters.ts`:
the debounce timer carries the filters it closed over, a navigation replaces the
one in flight, and its answer resets the search box. The two tables share the
code; what differs is the meaning of one filter key and the columns.
A query's ORDER BY is a function of ranks (`NewestFirst`): the i-th row is the
one with i - 1 newer rows. The URL's keys over the defaults, and a gesture's over
the bar's, are JavaScript's spread (`Spread`).

`DashboardPanels` answers the drawer's server actions in their order, whatever the
drawer does meanwhile. The delivery health is a function of the rows of one query
(`GetWebhookDeliveryHealth`): no other step touches it, so it is checked as an
assumption over all small sets of deliveries and proved for every set.

### AdminSession and Deployment

A request carries the cookie of the moment it is sent and its answer is obeyed
when it arrives. A login and a change are two steps, reading the hash and, after
`bcrypt.compare`, acting on it. The token's secret and the environment's password
belong to the running gateway, which `Deployment` starts and stops: containers
keep the environment they were created with, the volume the database password of
its first start, and the node encrypts a raw key with the passphrase it reads.
Secrets, and the names of user and database, are values with three properties that
the code is about, none of which implies another: matched by the wizard's
validator (`Refused`, asked of secrets only), changed when compose reads `.env`
(`Mangled`, a function to what a container gets), and breaking the connection
string (`Splitting`). A write that fails may leave the file as it was or cut, since
`writeFileSync()` empties it first; a cut `.env` counts as none, a cut key opens with
nothing. The two tools, `create-fibergate` and `generate-local-env`, differ
in their prompts and writes.

## 3. Abstract specifications

*Invoices.* `InvoicePoller` implements `InvoiceLifecycle` with the identity on
`status` and `queued`: every step of the poller is a `Create`, a `Settle` of a
set of rows, an `Announce`, or leaves both alone. `ImplementsLifecycle`, checked
in `InvoiceRaces` and proved.

*Deliveries.* `WebhookDelivery` implements `DeliveryContract`, which knows no
timer, attempt count, clock or recovery. Its `outcome` is the row's status with
"pending" read as open, its `phase` what the attempt in flight is at (a request
out, an answer in hand, or neither), its `answers` what was heard. `Post` is a
`Request`, which the contract allows only below `MAX_ATTEMPTS + lost`: a result
that was never stored entitles the gateway to one request more, and nothing else
does. `Crash` and a failed UPDATE are `Lose`; timers, the recovery, `Tick` and
`Fire` are stutters. `ImplementsContract`, checked in `DeliveryRestarts` and
proved.

## 4. Runs

| Run | Instance | Shows |
|---|---|---|
| `InvoiceRaces` | 1 invoice, 2 interval invocations, 1 cron run, listener, clock 0..3, 1 failure, 1 crash | the outcome is announced once and is the node's; the worker does not overlap itself; no early expiry; the lifecycle is implemented |
| `InvoiceBatches` | 2 invoices, batch of 1, 1 interval invocation, 1 failure | what concerns several rows of one run: polling before bulk expiry, announcements one by one |
| `InvoiceLiveness` | 1 invoice, 2 failures, fair | every stored invoice ends up announced (or its announcement was hit) |
| `InvoiceRequests` | 3 requests against a limit of 2, 1 page load, 2 channels (symmetric) in 4 states, 2 peers, 2 UDT scripts, 1 edit of the whitelist, 1 restart, 1 move of the node | the limiter is exact; reply, row and node agree; the lookup is shared and no failure kept; the pages are the node's |
| `EndpointPanel` | 2 endpoints and 1 to create, 4 clicks, 1 failure, lost answer or second tab's change, 1 delivery of 2 attempts | secrets and page are right in every order of clicks, answers and attempts |
| `DashboardTable` | 3 rows over two days, pages of 1, exports of at most 3, 3 gestures, 1 write, 1 failed query | slices, exports, the filter bar, receipts; health, for all sets of its deliveries |
| `Deployment` | 2 scaffolds, 2 starts, 2 possible names, 2 typed secrets (one refused, one that is changed by `.env` and let pass), 3 key files, 2 tabs, 3 requests, tokens of 4 units renewed below 2, 1 failure | the wizard's directory and the stack; passwords and sessions |
| `DeliveryRestarts` | 2 rows, 3 attempts, delays 1 and 3, 1 failure, 2 restarts, fair | all properties of a delivery, and the contract |
| `ListenerLoops` | 3 sockets, 2 stops, fair | all properties of the listener |
| `StorefrontStreams` | 3 streams, 2 requests, fair | all properties of the shop's streams |
| `ListenerWedged` | 2 sockets, no stop | violation: nothing left that reconnects |
| `ExportTornTie` | 3 rows, pages of 1, no other writer | violation: an export separates two rows of one transaction |

### Bounds

- *Invoices.* The rows interact only in a run's batch and bulk UPDATE; two
  invoices with a batch of one give a row inside and a row outside the batch.
- *Runs.* An invocation record is reused, so the number of cycles is unbounded;
  two interval invocations are needed for an overlap, and one cron run besides.
- *Clock.* A unit is about half a minute. Lifetime 1 and window 2 (60 s) within
  0..3 let a row be fresh, due, overdue inside the window; in `InvoiceLiveness`
  time stops at 3 and the runs go on.
- *Failures and crashes.* One of each at every place; two failures in
  `InvoiceLiveness` (one cycle fails, then the next), two restarts in
  `DeliveryRestarts` (a restart during the recovery of another).
- *Requests.* Three against a limit of two, a window of two units in a clock of
  two: the third is turned away, or let through when the first has left the
  window. The bodies lie at the bounds of the validation and between two
  shannons. The state constraint `Focus` (in `MCNodeViews`) keeps the product in
  bounds. It is three instances in one: all requests beside a node without
  channels (`Plain`); one request, up to its `new_invoice` call, beside a load that
  needs names and a node of one channel (`Sharing`); and a load of any node,
  both channels of one peer or of two, with both UDT scripts, beside no request
  and with one change of the node (`Alone`). An edit of the whitelist and a restart
  are combined with two requests or with a shared load; the third request, which
  is there for the limiter, comes with a restart at most.
- *Node.* Two channels: of one peer in two states (the best status, the sum of
  a drawer), or of two peers (the division of the rows); four states of a channel
  cover enabled, disabled and closing, CKB and two scripts, and capacity on either
  side or both.
- *Clicks, gestures.* Four clicks: select, regenerate, select back, regenerate
  again. Three gestures: a search, a filter during its debounce, and a page.
- *Table.* Three rows: two of one millisecond and one of another day, or a
  late-inserted one; pages of one make every row a page boundary.
- *Sessions.* A lifetime of four with a threshold of two in a clock of five: a
  token is renewed, and one that was not expires. Three overlapping requests are
  a page, a logout and a login, or two changes and a login.
- *Scaffolds.* Two, so that the second meets the first's directory and a stack
  still starting from it; a start after each. The answers are one
  of each kind: harmless; refused by the validator; breaking the URL only (as a
  name); and let pass though `.env` changes it and a URL does not carry it.
- *Deliveries.* Two: queued together, or the second resent for the first.
- *Sockets.* Three: after two stops the current attempt and two leftovers. A
  connection attempt waits for a free record, a bound of the model.
- *Streams and posts.* Three streams: one cut off by another's second
  unsubscribe, and one that connects meanwhile. Two posts: the first
  unconfirmed, the second accepted. A fourth stream repeats the third.

CHECK_DEADLOCK is FALSE where the system may stop: a listener whose attempt
never settles (`ListenerWedged` shows it), a shop whose page was told, and the
runs in which users, requests and writers have a bounded number of steps and may
all have taken them. The other runs check deadlock.

### Fairness

Weak fairness only, and only of the process' own steps. `InvoicePoller`: time
passes, the interval fires, a started call ends, since RPC calls and statements
have timeouts (`W/lib/fiber/client.ts:61`) and failures are among the ends.
`WebhookDelivery`: the process is restarted, timers fire, an attempt goes on
(`fetch` is aborted after 5 s, `deliver.ts:122`). `StoreChangeListener`: the two
handshake timeouts, the heartbeat, the reconnect timer, the close event of a
socket that was closed. `StorefrontStream`: lookups are answered or fail, the
gateway makes its requests as long as their chain is not broken (`ChainBreaks` may
end it at any time), the handlers go on, the `EventSource` reconnects and reads. Nothing is assumed of
merchants, API callers, the cron caller, the node or the network, and nothing of
users: the dashboard's modules have safety properties only.

## 5. Properties

Each is stated in words above its definition. Those of one subject are one
property, a conjunction of named parts.

| Module | Properties |
|---|---|
| `InvoicePoller` | `AnnouncedOnce` (`OutcomeQueuedOnce`, `NoSilentLoss`), `OutcomeMatchesNode`, `OneTimerRun`, `SettledPaymentBeatsClock`, `NoEarlyExpiry`, `ImplementsLifecycle`, `EveryInvoiceAnnounced` |
| `WebhookDelivery` | `SingleToken`, `LogAgrees` (`SendsBounded`, `OutcomeTruthful`), `PendingHasToken`, `ImplementsContract`, `NeverEarly`, `DeliveryEnds`; proved besides: `OutcomeFinal` |
| `StoreChangeListener` | `OneLiveChain` (`OneChain`, `StaysAlive`), `ConnectedIsLive`, `StoppedStaysQuiet`, `DeadLinkNoticed`; refuted: `NeverWedged` |
| `InvoiceApi` | `LimiterExact`, `BooksAgree` (`ReplyTellsEffect`, `RowsAsOrdered`), `LookupShared` (`OneLookupInFlight`, `NoFailureCached`, `NobodyLeftWaiting`, `NoRefusalRepeated`) |
| `NodeViews` | `LookupSharedByAll` (`LookupShared`, `NoPageLeftWaiting`, `OneWhitelist`), `PagesTellNode` (`RowsOfOneMoment`, `PeersDivideRows`, `DotsTellStatus`, `StatusOfTwoMoments`) |
| `EndpointPanel` | `SecretsSound` (`ShownIsCurrent`, `NeverShownAgain`, `NewSecretVerifies`), `PageIsTrue` (`ListIsTrue`, `BusyIsInFlight`, `HistoryNotMislabelled`) |
| `DashboardTable` | `PageIsSlice`, `ExportFaithful` (`ExportMissesOnly`, `ExportNewestFirst`), `RestsAsAsked` (`LastGestureKept`, `BoxShowsFilter`); refuted: `TiesStayTogether` |
| `DashboardPanels` | `ReceiptIsThisOne`; as an assumption TLC evaluates and a theorem: `HealthPointsAtWorst` |
| `AdminSession` | `SessionsSound` (`KnewThePassword`, `LoggedOutStays`), `ActiveAdminStaysIn` |
| `Deployment` | `DirectorySound` (`NothingOnCancel`, `KeyOpens`, `FreshStackComesUp`) |
| `StorefrontStream` | `StreamsSound` (`OneEventPerStream`, `NothingLeftBehind`, `WaitingIsRegistered`, `MissedOnlyLate`), `PageToldUnlessLate` |

For every property a faulty variant of one definition, kept before the
definition it stands for and marked "Faulty variant", makes TLC find it
violated; `PROJECT.json` pairs them under `mutants`.

## 6. Where code and documentation disagree

Two disagreements are shown by a run that expects the violation:

1. `ListenerWedged`. A socket closed cleanly between `open` and the subscribe
   reply leaves the promise unsettled for ever, with the reply timer cleared:
   the listener never reconnects, and detection falls back to polling.
2. `ExportTornTie`. A cursor keeps milliseconds of a `created_at` that has
   microseconds, so the rest of the boundary row's millisecond is skipped by the
   next page. `cursor.ts:4` says rows of the same `createdAt` are safe.

The others were met while modelling; the properties name them as exceptions,
each with the history variable or condition that says when it applies.

- The status is committed before `triggerWebhook()` runs. If that throws, or the
  process dies, the row is terminal and nobody triggers again
  (`invoice-poller.ts:149`); BR-WHK-001 promises a webhook for every terminal
  status. (`lost`)
- An invoice skipped because the node did not answer is expired by the bulk
  UPDATE of the same run; BR-POL-004 says its status does not change. If it was
  paid meanwhile, it stays expired. The same holds of a row left out of every
  batch (LIMIT 50 without ORDER BY). (`run[c].settled`)
- `recoverPendingDeliveries()` finds only rows with a `next_retry_at`; a row
  interrupted before its first result has none and stays pending for ever. The
  comment in `instrumentation.ts:25` says every still-pending delivery is
  re-armed. (`broken`)
- The SSE route subscribes after the awaited lookup; a webhook between the
  gateway's read and the subscription is answered 200 and heard by nobody. The
  comment at `webhook-events/[invoiceId]/route.ts:47` says the race is closed.
  (`late`)
- A client that leaves during the lookup leaves a listener with a closed
  controller in the bus. It makes `publish()` throw, the webhook is answered
  500; `webhook/route.ts:60` promises 200 in every case. (`early`, `twice`)
- When the gateway's chain of requests breaks (the first and the third of this
  list), a page that is connected and registered waits for ever, unless it
  reconnects and looks up the status again. (`hook` = "broken")
- A secret whose answer is lost is regenerated and shown to nobody, and one that
  is revealed survives a reload of the list; `dashboard-tour.md:70` says it is
  shown exactly once. (`behind`)
- A session not used on its last day ends up to six days before the "~7 days
  after the last request" of `session.ts:14-16`.
- A logout does not revoke what a request under way brings back. (`late` of a
  request in `AdminSession`)
- The node's status is judged by two RPCs of two moments: a channel that opens or
  closes between the answers may pass for a disabled one, or hide one. (`since`)
- The sections of the Overview take their windows from a `Date.now()` of their own
  (`services/invoices.ts:197` and `:235`): two cards may differ by a row at the edge
  with no row changed. Nothing is claimed of them here.
- The password in force after two overlapping changes is one of the two: the
  other is lost although its tab was told it succeeded.
- A page that met no RUSD keeps the whitelist; the first request after the
  operator's fix is refused once more, although `client.ts` says the next one
  re-checks.
- A filter chosen during the debounce of a search is undone by it, and text
  typed while a page is on its way is overwritten. (`overtaken`, `discarded`)
- A scaffold that fails between `.env` and the key file, or one made under a
  stack that is still starting, leaves a key its passphrase does not open until
  the next complete scaffold. So does one that fails inside either file. (`torn`)
- `validate-secret.ts:1-13` wants to keep out what `.env` and the connection string
  cannot carry, and rejects `$`, `@`, `:`, `/` and newlines. A ` #` and quotes change
  a value when compose reads `.env`, so a passphrase that the wizard verified may
  not be the one the node reads; `#`, `?` and `%` in the database password break
  `postgres://...` (`lib/db/index.ts:14`). (`Mangled`, `Splitting \ Refused`)
- The user and the name of the database go through neither check
  (`prompts.ts:54-55`). (`Splitting`, of `names`)
- `prompts.ts:138` compares host names case-sensitively: the P2P domain may be
  the proxied one in other letters. Not modelled: nothing depends on it here.
- `decisions-and-tradeoffs.md:100` describes retries as an interval scanner,
  which the code replaced.

## 7. Proofs

TLAPS proves these for every value of the constants that satisfies the named
assumptions in the modules (disjoint sets of runs, positive lifetimes and batch
size, natural bounds, positive retry delays, ...).

**`InvoicePollerProofs`.** `TypeCorrect`; `OutcomeQueuedOnceHolds` and
`NoSilentLossHolds`, together `AnnouncedOnceHolds`; `LifecycleImplemented`. The
proofs look at the rows and the announcements only, so a first lemma
(`StepEffect`) reduces the actions to six effects on them: nothing, a row
inserted, a pending row settled, rows expired, a trigger done, triggers dropped.
`OutcomeQueuedOnce` is not inductive: a trigger under way could announce a
status the row does not have, or one that was announced before.
`AnnouncementInv` adds that a trigger says what its row says and comes before
anything is queued, that there is one per row, and that the row an INSERT
creates is new. `NoSilentLoss` is inductive by itself, because the settling
UPDATE and the call it leads to are one action. The refinement needs
`AnnouncementInv` too: `Announce` demands a row that has its status and was not
announced.

The other four properties of `InvoicePoller` are about the node and the clock.
`OutcomeMatchesNodeHolds`, which speaks of paid and failed rows only (a row that
the clock expired may still be paid on the node), needs `NodeInv`: an answer a
run holds and an event the listener holds say what the node has said for good,
since a final status stays (`FinalStays`), so it does not matter how late they
are applied.
`OneTimerRunHolds` adds that `isRunning` is up exactly while an interval run is.
`NoEarlyExpiryHolds` needs that the `now` a run captured is not ahead of the
clock (`CapturedNow`). `SettledPaymentBeatsClockHolds` rests on `SettlingInv`: an
invoice of `run[c].settled` (paid on the node before the run began, in its batch,
its check not failed) is still to be looked at, about to be recorded, or final.

**`WebhookDeliveryProofs`.** `TypeCorrect`, `SingleTokenHolds`,
`LogAgreesHolds` (from `SendsBoundedHolds` and `OutcomeTruthfulHolds`),
`PendingHasTokenHolds`, `OutcomeFinalHolds`, `NeverEarlyHolds`,
`ContractImplemented`: all safety properties of the module. They follow from one
inductive invariant, `DeliveryInv`, defined at the end of `WebhookDelivery`; its
parts need each other, and each is one lemma:

- `ChainInv`: at most one timer or attempt for a row, and only for a pending one;
- `DueInv`: a timer is due when its row is, and the row of an attempt has been due;
- `BootInv`: until the recovery is done, only rows inserted since the start have
  run, and their retries are not yet due. This is why the recovery cannot arm a
  row that is being attempted: an attempt's row has no `next_retry_at`, a found
  row has one. It rests on the clock standing still during the recovery;
- `CountInv`: `attempt_count` lags behind the requests made by those in flight
  and those never stored;
- `AnswerInv`: what an attempt is about to store is what the merchant answered;
- `PendingHasToken` and `OutcomeTruthful` themselves.

The refinement has one lemma for each step of the contract. `RequestStep` is
where `CountInv` pays: a request is made below `MAX_ATTEMPTS + lost` because the
row of a pending delivery counts fewer than `MAX_ATTEMPTS` and lags by exactly
what was lost. `StoreStep` uses `AnswerInv`, and `PhaseFacts` uses `ChainInv`: a
delivery's phase is that of its one attempt.

**`StoreChangeListenerProofs`.** `TypeCorrect`, `OneLiveChainHolds` (from
`OneChainHolds` and `StaysAliveHolds`), `ConnectedIsLiveHolds`,
`StoppedStaysQuietHolds`. An attempt, a connection and a reconnect timer are one
loop in three places: `NextLoop` shows that every step starts a loop, leaves one
behind, hands one on, ends one or touches none, and `ChainsConserved` counts
them (a stopped listener allows one fewer than a running one, which `OneChain`
alone does not say). `Adopted`, the invariant behind `ConnectedIsLive`, is also
needed there: a stop closes the adopted socket, which must be a live one.

**`StorefrontStreamProofs`.** `TypeCorrect`, `StreamsSoundHolds`. `StreamInv`
says which `Set` a stream's unsubscribe refers to (`SetsAreOwned`), that no
listener is in a `Set` the Map has forgotten until one unsubscribe runs twice
(`NoneForgotten`: without it a waiting stream may be in a `Set` `publish()` does
not see), and that whoever the accepted request could still reach came after it
(`ReachedAreLate`). Its lemmas are about sequences without repetitions. The
insertion order of a `Set` is a sequence from which `RemoveAt` takes a listener,
because `SelectSeq`, a recursive operator, says nothing to the prover.

**`DeploymentProofs`.** `TypeCorrect`, `DirectorySoundHolds`,
`SessionsSoundHolds`, `ActiveAdminStaysInHolds`. `DeployInv`: what the wizard
has been told when it has passed a prompt (`AnswersInOrder`), and that between
its writes the `.env` holds the passphrase of the key to come
(`EnvOfThisWizard`), which makes `KeyOpens` inductive. The values the merchant
types are arbitrary; what the two parts of `FreshStackComesUp` exempt is what
`EnvRead` changes and what the validator lets pass or is not asked about, and
nothing else. `SessionInv` says, for each request, that it has seen the password
in force as long as it is under way and that a hash it holds is one it saw
(`RequestSound`), and that the last page was granted `THRESHOLD` or more before
the newest token ends (`Aged`), which is `ActiveAdminStaysIn` a step ahead. They
assume that "nothing" is no secret, key, token or environment, that the
scaffolder's own hex secrets contain no character that compose or a connection
string treats specially, and `0 < THRESHOLD < TTL`.

**`EndpointPanelProofs`.** `TypeCorrect`, `SecretsSoundHolds`, `PageIsTrueHolds`.
`PanelInv` follows a secret from the table through the answer in flight to the
page and the merchant's server (`SecretsKnown`: what the tab was told is the
table's until the second tab replaces it, and from then on it is not;
`DeliverySound`), the busy keys (`Keyed`: they are those of the queue, no two of
which share one), and the list (`ListSound`: what the list lacks of the table is
in the answer, or named in `behind`). They assume finitely many endpoints, and
that "nothing" is none of them, no number, secret on show or answer.

**`NodeViewsProofs`.** `TypeCorrect`, `BooksAgreeHolds`, `LimiterExactHolds`,
`LookupSharedHolds`, and `PagesTellNodeHolds` (from `RowsOfOneMomentHolds`,
`PeersDivideRowsHolds`, `DotsTellStatusHolds` and `StatusOfTwoMomentsHolds`). Of
`ViewsInv`:

- `BooksSound`: what a request sent, the node created and the table stored are
  the same body's (`RequestSound`), for every place an answer may be lost at;
- `LookupSound`: the cached lookup is the only one in flight, and the only one
  that found the asset. `NoRefusalRepeated` and `OneWhitelist` rest on it;
- `LimiterSound`: timestamps ascend, and an injection `owner` gives each of them
  the request that took it, such that no admitted request of the window is
  without one. Counting requests then is counting timestamps, so a full window
  turns away and only a full window does. The filter over the timestamps is
  the suffix after `Cardinality(Expired)` elements (`Pruned`): this is the
  code's filter because they ascend, which the invariant proves;
- `PagesSound`: what a page has of the channels is what they were at one moment
  of the load, and what it counts is what could be counted then.

The capacities are sums over the channels, grouped by peer and not. The sums are
those of the library module `Functions`, whose recursion is a `CHOOSE` of a
function, so a lemma must first show that there is one (`SumsExist`, by induction
on the number of elements, as a set of numbers without a least exception), and
another that any two agree; `SumAny`, `SumJoin` and `SumParts` then say that
neither the order nor the grouping of the summands matters.

They assume finitely many channels and peers, and that "nothing" is no name,
number, reply, invoice or row. The least element of a set of numbers (`LeastOf`)
comes from the well-foundedness of `<`, which replaces an induction over an
operator.

**`DashboardTableProofs`.** `TypeCorrect`, `RestsAsAskedHolds`,
`ExportFaithfulHolds`, `PageIsSliceHolds`, `ReceiptIsThisOneHolds`, all of them of
`SpecPanels`, in which the drawer is opened over the table; and
`HealthPointsAtWorstHolds`, of every finite set of deliveries. First the order: a finite set of
rows with distinct ids has one row of each rank, so `NewestFirst` is a sequence
of all of them without repetitions, and a page is a run of ranks
(`IsPageOf`). Then, one invariant for each question:

- `BarSound`: while a debounce or a navigation is under way it carries what the
  last gesture set, unless a later one overtook it; without this, what is at
  rest says nothing about what was asked;
- `ExportSound`: the file is in order and ends at the cursor (`EndsAt`,
  `Ordered`), a row newer than the cursor that is owed is in the file (`Owed`),
  and an uncut export has stopped because nothing followed. It does not fix the
  table: rows may be inserted above the cursor and change below it;
- `WalkSound`: a walk that no writer disturbed stands after `i` whole pages of
  the list (`StandsAt`), so what is left is the list without them (`RestIs`);
- `ReceiptSound`: an answer is about the row that was asked for, and the ask of
  the newest click, if it is still in the queue, is for the row that is open.

`PercentIs` bounds what `Math.round` returns, which is all that
`HealthPointsAtWorst` needs of it. The proofs assume that `None` is no number,
name, cursor or record of the model, that the bar offers its defaults, that the
tables the database may start with are finite, typed and keyed by id, and that
page sizes and caps are positive.

Model-checked only:

- everything temporal under fairness (`EveryInvoiceAnnounced`, `DeliveryEnds`,
  `DeadLinkNoticed`, `PageToldUnlessLate`), which is beyond the prover;
- what the two violation runs refute (`NeverWedged`, `TiesStayTogether`).

So every invariant and every action property of the passing runs, and both
refinements, are theorems.

## 8. Not modelled, and the plan

Not modelled: cryptography, the JSON of requests and answers, layout and
wording; the activity log (a ring of log lines), the landing, help and
quick-start pages, the SDK but for its verification of signatures, the shop's
checkout and wallet, and what happens when an operator changes
`WEBHOOK_SECRET_ENCRYPTION_KEY` or edits the database by hand. They keep no state
whose order matters, or are pure I/O.

In the order planned:

1. The composition of `InvoicePoller` and `WebhookDelivery` at
   `triggerWebhook()`, for BR-WHK-001 from the node to the merchant: now each
   module shows its half, and they meet in the INSERT of the delivery rows.
2. Weaker fairness for the delivery (`WF` of the process' restart only after a
   bounded number of crashes).
