---------------------------- MODULE DashboardTable ----------------------------
(* A filtered, paged table of the dashboard: Invoices or Delivery Log.  The    *)
(* browser keeps the filter bar (a URL-driven filter record, a search box with *)
(* a 400 ms debounce, Prev/Next) and the Export CSV button; the server answers *)
(* a navigation by walking the cursor pages up to the requested one, and an    *)
(* export by walking all of them, one query of the database per step, while    *)
(* other processes insert rows and change their status.                        *)
(* Time: PostgreSQL keeps microseconds, JavaScript milliseconds and the date   *)
(* picker days.  A tick is half a millisecond, and a day is DAY ticks.         *)
EXTENDS Naturals, FiniteSets, Sequences, Functions

CONSTANTS
    Kinds,          \* which tables: a subset of {"invoices", "deliveries"}
    Tables,         \* Tables[kind]: the row sets the database may start with
    Values,         \* Values[key]: what the filter bar offers for that key
    Ids, Times,     \* ids and creation times of rows inserted later
    Closed,         \* the final statuses a row may take in this instance
    DAY,            \* ticks in a day
    PAGE_SIZE, CSV_PAGE_SIZE, CSV_MAX_PAGES,
    MaxGestures, MaxChurn, MaxFaults,  \* bounds: user's, writers', database's
    None

MS == 2

ASSUME SizesAssumption ==
    /\ {PAGE_SIZE, CSV_PAGE_SIZE, CSV_MAX_PAGES} \subseteq Nat \ {0}
    /\ DAY \in Nat /\ DAY > MS /\ DAY % MS = 0

Keys == {"status", "of", "q", "from", "to", "min", "max"}
\* "of" is the asset of an invoice and the endpoint of a delivery.
Defaults ==
    [status |-> "all", of |-> "all", q |-> "", from |-> None, to |-> None,
     min |-> None, max |-> None]
Outcomes(k) == IF k = "invoices" THEN {"paid", "expired", "failed"} ELSE {"success", "failed"}
Row(k) ==
    [id : Nat, at : Nat, status : {"pending"} \cup Outcomes(k), of : STRING,
     text : SUBSET STRING, amount : Nat]

\* A debounce, a navigation and an export, as the browser and the server keep them.
Filters ==
    [status : Values.status, of : Values.of, q : Values.q, from : Values.from, to : Values.to,
     min : Values.min, max : Values.max]
Queries == {[k \in K |-> f[k]] : K \in SUBSET Keys, f \in Filters}
Cursor == [at : Nat, id : Nat]
Debounce == [filters : Filters, q : Values.q]
Navigation ==
    [query : Queries, page : Nat, i : Nat, cursor : Cursor \cup {None}, fresh : BOOLEAN]
Export ==
    [state : {"running", "done"}, filters : Filters, pages : Nat, cursor : Cursor \cup {None},
     out : Seq(Nat), capped : BOOLEAN, due : SUBSET Nat]

ASSUME NoneAssumption ==
    /\ None \notin Nat \cup STRING
    /\ None \notin Cursor /\ None \notin Debounce /\ None \notin Navigation /\ None \notin Export
ASSUME ValuesAssumption ==
    /\ Defaults \in Filters
    /\ UNION {Values.from, Values.to, Values.min, Values.max} \subseteq Nat \cup {None}
ASSUME TablesAssumption ==
    /\ Kinds \subseteq {"invoices", "deliveries"} /\ Ids \subseteq Nat /\ Times \subseteq Nat
    /\ \A k \in Kinds : \A S \in Tables[k] :
          /\ IsFiniteSet(S) /\ S \subseteq Row(k)
          /\ \A a, b \in S : a.id = b.id => a = b

VARIABLES
    kind, rows,              \* the database table
    view, searchInput,       \* what the browser shows
    timer,                   \* the pending debounce, with the filters it closed over
    nav,                     \* the navigation in flight
    csv,                     \* the export, running or finished
    last, overtaken, discarded,  \* what the user did last, and what became of it
    gestures, churn, faults

db == <<kind, rows, churn>>
bar == <<view, searchInput, timer, nav>>
user == <<last, overtaken, discarded, gestures>>
vars == <<db, bar, csv, user, faults>>

-----------------------------------------------------------------------------
(* The list queries.                                                         *)

Floor(at) == at - (at % MS)
ParseDateStart(day) == day * DAY
ParseDateEnd(day) == (day + 1) * DAY - MS

\* A cursor is the last row's key through JSON: milliseconds are all that is left.
EncodeCursor(row) == [at |-> Floor(row.at), id |-> row.id]
\* Faulty variant: the cursor's own row again.
AfterOrAt(cursor, row) ==
    cursor = None \/ row.at < cursor.at \/ (row.at = cursor.at /\ row.id <= cursor.id)

After(cursor, row) ==
    \/ cursor = None
    \/ row.at < cursor.at
    \/ row.at = cursor.at /\ row.id < cursor.id

MatchesCommon(row, f) ==
    /\ f.status \in {"all", row.status}
    /\ f.of \in {"all", row.of}
    /\ f.q = "" \/ f.q \in row.text
    /\ f.from = None \/ row.at >= ParseDateStart(f.from)
    /\ f.to = None \/ row.at <= ParseDateEnd(f.to)

MatchesInvoice(row, f) ==
    /\ MatchesCommon(row, f)
    /\ f.min = None \/ row.amount >= f.min
    /\ f.max = None \/ row.amount <= f.max

Newer(a, b) == a.at > b.at \/ (a.at = b.at /\ a.id > b.id)
\* ORDER BY created_at DESC, id DESC: the i-th row has i - 1 newer ones.
NewestFirst(S) ==
    [i \in 1 .. Cardinality(S) |-> CHOOSE r \in S : Cardinality({x \in S : Newer(x, r)}) = i - 1]
Take(s, n) == SubSeq(s, 1, IF Len(s) < n THEN Len(s) ELSE n)

\* Faulty variant: a full page is taken for a sign of another one.
PagedWithoutExtra(S, limit) ==
    LET found == Take(NewestFirst(S), limit)
    IN  [rows |-> found,
         next |-> IF Len(found) = limit THEN EncodeCursor(found[limit]) ELSE None]

\* One row more than the page is fetched: it tells whether another page exists.
Paged(S, limit) ==
    LET found == Take(NewestFirst(S), limit + 1)
        hasMore == Len(found) > limit
    IN  [rows |-> Take(found, limit),
         next |-> IF hasMore THEN EncodeCursor(found[limit]) ELSE None]

ListInvoices(f, cursor, limit) ==
    Paged({r \in rows : MatchesInvoice(r, f) /\ After(cursor, r)}, limit)
ListWebhookDeliveries(f, cursor, limit) ==
    Paged({r \in rows : MatchesCommon(r, f) /\ After(cursor, r)}, limit)
List(f, cursor, limit) ==
    IF kind = "invoices" THEN ListInvoices(f, cursor, limit)
    ELSE ListWebhookDeliveries(f, cursor, limit)

IdsOf(s) == [i \in DOMAIN s |-> s[i].id]

\* What the filters say, in whole days and without a cursor: the reference the
\* queries are compared with.
Asked(row, f) ==
    /\ f.status \in {"all", row.status}
    /\ f.of \in {"all", row.of}
    /\ f.q = "" \/ f.q \in row.text
    /\ f.from = None \/ f.from <= row.at \div DAY
    /\ f.to = None \/ row.at \div DAY <= f.to
    /\ kind = "invoices" =>
         /\ f.min = None \/ f.min <= row.amount
         /\ f.max = None \/ row.amount <= f.max
\* Two deviations the properties leave room for: a cursor cannot tell apart the
\* rows of one millisecond, and the last fraction of a day is in no date range.
SharesMillisecond(row, S) == \E r \in S \ {row} : Floor(r.at) = Floor(row.at)
LastOfDay(row) == row.at % DAY > DAY - MS

-----------------------------------------------------------------------------
(* The filter bar.  The URL carries the keys that differ from their default. *)

BuildHref(f, page) ==
    [query |-> [k \in {x \in Keys : f[x] # Defaults[x]} |-> f[k]], page |-> page,
     i |-> 0, cursor |-> None, fresh |-> TRUE]
\* { ...base, ...over }
Spread(base, over) == [k \in DOMAIN base |-> IF k \in DOMAIN over THEN over[k] ELSE base[k]]
ReadQuery(query) == Spread(Defaults, query)

\* router.replace: a navigation still in flight is abandoned for the new one.
Replace(f, page) == nav' = BuildHref(f, page)
SearchPending == nav # None /\ ReadQuery(nav.query).q # view.filters.q

Gesture == gestures < MaxGestures /\ gestures' = gestures + 1

\* Faulty variant: no clearTimeout when the text is back at the filter's.
TypeKeepsTimer(v) ==
    /\ Gesture /\ v # searchInput /\ searchInput' = v
    /\ timer' = IF v = view.filters.q THEN timer ELSE [filters |-> view.filters, q |-> v]
    /\ last' = [q |-> v] /\ overtaken' = (nav # None) /\ discarded' = FALSE
    /\ UNCHANGED <<db, view, nav, csv, faults>>

Type(v) ==
    /\ Gesture
    /\ v # searchInput
    /\ searchInput' = v
    /\ timer' = IF v = view.filters.q THEN None
                ELSE [filters |-> view.filters, q |-> v]
    /\ last' = [q |-> v] /\ overtaken' = (nav # None) /\ discarded' = FALSE
    /\ UNCHANGED <<db, view, nav, csv, faults>>

DebounceEnds ==
    /\ timer # None
    /\ Replace([timer.filters EXCEPT !.q = timer.q], 0)
    /\ timer' = None
    /\ discarded' = FALSE
    /\ UNCHANGED <<db, view, searchInput, csv, last, overtaken, gestures, faults>>

UpdateFilters(overrides) ==
    /\ Gesture
    /\ Replace(Spread(view.filters, overrides), 0)
    /\ last' = overrides /\ overtaken' = (timer # None)
    /\ discarded' = (discarded \/ SearchPending)
    /\ UNCHANGED <<db, view, searchInput, timer, csv, faults>>

\* A select, the date range or, for invoices, an amount box: any key but the
\* debounced one.
BarKeys == IF kind = "invoices" THEN Keys ELSE Keys \ {"min", "max"}
ChooseFilter ==
    \/ \E k \in BarKeys \ {"q", "from", "to"} :
          \E v \in Values[k] \ {view.filters[k]} : UpdateFilters([x \in {k} |-> v])
    \/ \E from \in Values.from, to \in Values.to :
          /\ <<from, to>> # <<view.filters.from, view.filters.to>>
          /\ UpdateFilters([from |-> from, to |-> to])

ClearFilters == view.filters # Defaults /\ UpdateFilters(Defaults)

GoToPage ==
    /\ ~view.error
    /\ Gesture
    /\ \/ view.page > 0 /\ Replace(view.filters, view.page - 1)
       \/ view.more /\ Replace(view.filters, view.page + 1)
    /\ last' = <<>> /\ overtaken' = (timer # None)
    /\ discarded' = (discarded \/ SearchPending)
    /\ UNCHANGED <<db, view, searchInput, timer, csv, faults>>

\* A page arrives.  Only when its search text differs from the last one does the
\* box follow it, and a box that changes drops the debounce it had started.
Render(v) ==
    LET moved == v.filters.q # view.filters.q
    IN  /\ view' = v
        /\ nav' = None
        /\ searchInput' = IF moved THEN v.filters.q ELSE searchInput
        /\ timer' = IF searchInput' # searchInput THEN None ELSE timer
        /\ discarded' = (discarded /\ ~moved)
        /\ UNCHANGED <<db, csv, last, overtaken, gestures>>

\* Faulty variant: one page further than asked.
WalkOneTooFar ==
    /\ nav # None
    /\ LET f == ReadQuery(nav.query)
           result == List(f, nav.cursor, PAGE_SIZE)
       IN  IF nav.i <= nav.page /\ result.next # None
           THEN /\ nav' = [nav EXCEPT !.i = @ + 1, !.cursor = result.next]
                /\ UNCHANGED <<db, view, searchInput, timer, csv, user>>
           ELSE Render([filters |-> f, page |-> nav.i, rows |-> IdsOf(result.rows),
                        more |-> result.next # None, error |-> FALSE])
    /\ UNCHANGED faults

\* walkToPage: one query per step; a page beyond the data is clamped to the last.
WalkToPage ==
    /\ nav # None
    /\ LET f == ReadQuery(nav.query)
           result == List(f, nav.cursor, PAGE_SIZE)
       IN  IF nav.i < nav.page /\ result.next # None
           THEN /\ nav' = [nav EXCEPT !.i = @ + 1, !.cursor = result.next]
                /\ UNCHANGED <<db, view, searchInput, timer, csv, user>>
           ELSE Render([filters |-> f, page |-> nav.i, rows |-> IdsOf(result.rows),
                        more |-> result.next # None, error |-> FALSE])
    /\ UNCHANGED faults

WalkFails ==
    /\ nav # None
    /\ faults < MaxFaults /\ faults' = faults + 1
    /\ Render([filters |-> ReadQuery(nav.query), page |-> 0, rows |-> <<>>,
               more |-> FALSE, error |-> TRUE])

-----------------------------------------------------------------------------
(* Export CSV: the filters on view when the button is pressed, every page up *)
(* to CSV_MAX_PAGES.  "due" is what the file owes the merchant: the rows that *)
(* matched when the export began and have not stopped matching since.        *)

Exporting == csv # None /\ csv.state = "running"

ClickExport ==
    /\ ~Exporting
    /\ Gesture
    /\ csv' = [state |-> "running", filters |-> view.filters, pages |-> 0,
               cursor |-> None, out |-> <<>>, capped |-> FALSE,
               due |-> {r.id : r \in {x \in rows : Asked(x, view.filters)}}]
    /\ UNCHANGED <<db, bar, last, overtaken, discarded, faults>>

ExportRowsToCsv ==
    /\ Exporting
    /\ LET result == List(csv.filters, csv.cursor, CSV_PAGE_SIZE)
           more == result.next # None
           full == csv.pages + 1 = CSV_MAX_PAGES
       IN  csv' = [csv EXCEPT !.out = @ \o IdsOf(result.rows), !.pages = @ + 1,
                              !.cursor = result.next, !.capped = more /\ full,
                              !.state = IF more /\ ~full THEN "running" ELSE "done"]
    /\ UNCHANGED <<db, bar, user, faults>>

ExportFails ==
    /\ Exporting
    /\ faults < MaxFaults /\ faults' = faults + 1
    /\ csv' = None
    /\ UNCHANGED <<db, bar, user>>
-----------------------------------------------------------------------------
(* The other writers: new rows, a resent delivery's among them, and status    *)
(* changes by the poller or the deliverer.  now() is the time a transaction began, so a row may appear     *)
(* with a time a little before the newest one's.                              *)

Overlap == 1
Churned(S) ==
    /\ churn < MaxChurn /\ churn' = churn + 1
    /\ rows' = S
    /\ nav' = IF nav = None THEN None ELSE [nav EXCEPT !.fresh = FALSE]
    /\ csv' = IF csv = None THEN None
              ELSE [csv EXCEPT !.due = {r.id : r \in {x \in S : x.id \in @ /\ Asked(x, csv.filters)}}]
    /\ UNCHANGED <<kind, view, searchInput, timer, user, faults>>

Insert ==
    \E id \in Ids, at \in Times, like \in rows :
       /\ \A r \in rows : r.id # id /\ r.at <= at + Overlap
       /\ Churned(rows \cup {[like EXCEPT !.id = id, !.at = at, !.status = "pending"]})

ChangeStatus ==
    \E row \in rows, to \in Outcomes(kind) \cap Closed :
       /\ row.status = "pending"
       /\ Churned((rows \ {row}) \cup {[row EXCEPT !.status = to]})

Init ==
    /\ kind \in Kinds /\ rows \in Tables[kind]
    /\ view = LET first == List(Defaults, None, PAGE_SIZE)
              IN  [filters |-> Defaults, page |-> 0, rows |-> IdsOf(first.rows),
                   more |-> first.next # None, error |-> FALSE]
    /\ searchInput = "" /\ timer = None /\ nav = None /\ csv = None
    /\ last = <<>> /\ overtaken = FALSE /\ discarded = FALSE
    /\ gestures = 0 /\ churn = 0 /\ faults = 0

Next ==
    \/ \E v \in Values.q : Type(v)
    \/ DebounceEnds
    \/ ChooseFilter
    \/ ClearFilters
    \/ GoToPage
    \/ WalkToPage
    \/ WalkFails
    \/ ClickExport
    \/ ExportRowsToCsv
    \/ ExportFails
    \/ Insert
    \/ ChangeStatus

Spec == Init /\ [][Next]_vars

-----------------------------------------------------------------------------
(* Properties.                                                               *)

RowIds == {r.id : r \in rows}

\* Every variable has its type, and an id names one row.
TypeOK ==
    /\ kind \in Kinds
    /\ Cardinality(RowIds) = Cardinality(rows)
    /\ view.filters \in Filters /\ view.page \in Nat /\ view.rows \in Seq(RowIds)
    /\ view.more \in BOOLEAN /\ view.error \in BOOLEAN
    /\ searchInput \in Values.q
    /\ timer = None \/ (timer.filters \in Filters /\ timer.q \in Values.q)
    /\ nav = None \/ (ReadQuery(nav.query) \in Filters /\ nav.i <= nav.page)
    /\ csv = None \/ (csv.out \in Seq(RowIds) /\ csv.pages <= CSV_MAX_PAGES)
    /\ overtaken \in BOOLEAN /\ discarded \in BOOLEAN

\* A page that arrives is the slice of the filtered table the merchant asked for,
\* or its last slice when there is no such page, and Next is offered exactly when
\* rows follow: walking cursors agrees with counting rows.  (When no writer came
\* in between, and apart from the rows a cursor or a date cannot tell apart.)
ArrivesAsSlice ==
    (nav # None /\ nav.fresh /\ nav' = None /\ ~view'.error) =>
      LET S == {r \in rows : Asked(r, view'.filters)}
          all == IdsOf(NewestFirst(S))
          lastPage == IF Len(all) = 0 THEN 0 ELSE (Len(all) - 1) \div PAGE_SIZE
          page == IF nav.page < lastPage THEN nav.page ELSE lastPage
          end == (page + 1) * PAGE_SIZE
      IN  (\A r \in S : ~SharesMillisecond(r, S) /\ ~LastOfDay(r)) =>
            /\ view'.page = page
            /\ view'.rows = SubSeq(all, page * PAGE_SIZE + 1, IF end < Len(all) THEN end ELSE Len(all))
            /\ view'.more = (end < Len(all))
PageIsSlice == [][ArrivesAsSlice]_vars

\* A finished export leaves out nothing it owes, whatever was inserted or changed
\* while it ran: only what lies beyond its cap, rows of one millisecond, and the
\* last fraction of a day may be missing.
ExportMissesOnly ==
    (csv # None /\ csv.state = "done") =>
       \A r \in rows :
          \/ r.id \notin csv.due \/ r.id \in Range(csv.out)
          \/ SharesMillisecond(r, rows) \/ LastOfDay(r)
          \/ csv.capped /\ Len(csv.out) = CSV_MAX_PAGES * CSV_PAGE_SIZE

\* An export lists its rows newest first and none of them twice, across all its
\* pages and whatever was inserted between two of them.
ExportNewestFirst ==
    csv # None =>
       \A i, j \in DOMAIN csv.out : i < j =>
          \A a, b \in rows : (a.id = csv.out[i] /\ b.id = csv.out[j]) => Newer(a, b)

\* The file is the filtered table: what it must hold, and in which order.
ExportFaithful == ExportMissesOnly /\ ExportNewestFirst

Quiet == timer = None /\ nav = None

\* When the page comes to rest, the last thing the user set is set: neither a
\* debounce nor an abandoned navigation undid it.  (The code keeps it except in
\* two cases: a filter chosen during the debounce of a search, which fires with
\* the filters it closed over, and text typed while a page is on its way.)
LastGestureKept ==
    (Quiet /\ ~overtaken) => \A k \in DOMAIN last : view.filters[k] = last[k]

\* At rest the search box shows the text the rows are filtered by.  (Except after
\* a filter or page change has replaced the navigation a search had started.)
BoxShowsFilter == (Quiet /\ ~discarded) => searchInput = view.filters.q

\* At rest, the page is what the user asked for and says so.
RestsAsAsked == LastGestureKept /\ BoxShowsFilter

\* What cursor.ts says: two rows with the same creation time are not torn apart,
\* so a finished, uncut export holds both or neither of two rows it owes.
TiesStayTogether ==
    (csv # None /\ csv.state = "done" /\ ~csv.capped) =>
       \A a, b \in rows : (a.at = b.at /\ {a.id, b.id} \subseteq csv.due) =>
          (a.id \in Range(csv.out) <=> b.id \in Range(csv.out))
=============================================================================
