------------------------ MODULE DashboardTableProofs ------------------------
(***************************************************************************)
(* What DashboardTable and DashboardPanels promise of the tables, their    *)
(* exports, the filter bar, the health and the receipts, for tables of any *)
(* size, any page sizes, and any number of gestures, writers and failures. *)
(***************************************************************************)
EXTENDS DashboardPanels, FiniteSetTheorems, SequenceTheorems, WellFoundedInduction, TLAPS

-----------------------------------------------------------------------------
(* ORDER BY created_at DESC, id DESC                                       *)

\* A set of rows the database can order.
Listable(M) ==
    /\ IsFiniteSet(M)
    /\ \A r \in M : r.at \in Nat /\ r.id \in Nat
    /\ \A a, b \in M : a.id = b.id => a = b

LEMMA NewerIsOrder ==
    ASSUME NEW M, Listable(M), NEW a \in M, NEW b \in M
    PROVE  /\ ~Newer(a, a)
           /\ a # b => Newer(a, b) \/ Newer(b, a)
           /\ ~(Newer(a, b) /\ Newer(b, a))
           /\ \A c \in M : Newer(a, b) /\ Newer(b, c) => Newer(a, c)
BY DEF Listable, Newer

\* How many rows come before r.
Rank(M, r) == Cardinality({x \in M : Newer(x, r)})

LEMMA RankIs ==
    ASSUME NEW M, Listable(M), NEW r \in M
    PROVE  Rank(M, r) \in 0 .. Cardinality(M) - 1
<1> DEFINE T == {x \in M : Newer(x, r)}
<1>1. T \in SUBSET M /\ r \notin T /\ T # M
  BY NewerIsOrder
<1>2. IsFiniteSet(M)
  BY DEF Listable
<1> HIDE DEF T
<1>3. IsFiniteSet(T) /\ Cardinality(T) <= Cardinality(M) /\ Cardinality(T) # Cardinality(M)
  BY <1>1, <1>2, FS_Subset
<1>4. Cardinality(T) \in Nat /\ Cardinality(M) \in Nat
  BY <1>2, <1>3, FS_CardinalityType
<1>5. Cardinality(T) \in 0 .. Cardinality(M) - 1
  BY <1>3, <1>4
<1> QED
  BY <1>5 DEF Rank, T

LEMMA RankAscends ==
    ASSUME NEW M, Listable(M), NEW a \in M, NEW b \in M, Newer(a, b)
    PROVE  Rank(M, a) < Rank(M, b)
<1> DEFINE A == {x \in M : Newer(x, a)}
           B == {x \in M : Newer(x, b)}
<1>1. A \subseteq B /\ a \in B /\ a \notin A
  BY NewerIsOrder
<1>2. B \in SUBSET M /\ IsFiniteSet(M)
  BY DEF Listable
<1> HIDE DEF A, B
<1>3. IsFiniteSet(B)
  BY <1>2, FS_Subset
<1>4. Cardinality(A) <= Cardinality(B) /\ Cardinality(A) # Cardinality(B) /\ IsFiniteSet(A)
  BY <1>1, <1>3, FS_Subset
<1>5. Cardinality(A) \in Nat /\ Cardinality(B) \in Nat
  BY <1>3, <1>4, FS_CardinalityType
<1>6. Cardinality(A) < Cardinality(B)
  BY <1>4, <1>5
<1> QED
  BY <1>6 DEF Rank, A, B

\* Every place has one row, and every row one place.
LEMMA RankIsOnto ==
    ASSUME NEW M, Listable(M), NEW k \in 0 .. Cardinality(M) - 1
    PROVE  \E r \in M : Rank(M, r) = k
<1> DEFINE n == Cardinality(M)
           f == [r \in M |-> Rank(M, r)]
<1>1. IsFiniteSet(M) /\ n \in Nat
  BY FS_CardinalityType DEF Listable
<1>2. f \in [M -> 0 .. n - 1]
  BY RankIs
<1>3. \A a, b \in M : f[a] = f[b] => a = b
  <2> SUFFICES ASSUME NEW a \in M, NEW b \in M, a # b PROVE f[a] # f[b]
    OBVIOUS
  <2>1. Rank(M, a) \in Nat /\ Rank(M, b) \in Nat
    BY RankIs
  <2>2. Rank(M, a) < Rank(M, b) \/ Rank(M, b) < Rank(M, a)
    BY NewerIsOrder, RankAscends
  <2> QED
    BY <2>1, <2>2
<1>4. f \in Injection(M, 0 .. n - 1)
  BY <1>2, <1>3 DEF Injection, IsInjective
<1>5. PICK m \in Nat : m = n
  BY <1>1
<1>6. IsFiniteSet(0 .. m - 1) /\ Cardinality(0 .. m - 1) = m
  BY FS_Interval
<1> HIDE DEF f
<1>7. f \in Surjection(M, 0 .. n - 1)
  BY <1>4, <1>5, <1>6, FS_Injection
<1>8. PICK r \in M : f[r] = k
  BY <1>7 DEF Surjection
<1> QED
  BY <1>8 DEF f

LEMMA NewestFirstIs ==
    ASSUME NEW M, Listable(M)
    PROVE  LET s == NewestFirst(M)
           IN  /\ Cardinality(M) \in Nat /\ s \in Seq(M) /\ Len(s) = Cardinality(M)
               /\ \A i, j \in 1 .. Cardinality(M) : i < j => Newer(s[i], s[j])
               /\ \A r \in M : \E i \in 1 .. Cardinality(M) : s[i] = r
<1> DEFINE s == NewestFirst(M)
           n == Cardinality(M)
<1>1. n \in Nat
  BY FS_CardinalityType DEF Listable
<1>2. s = [i \in 1 .. n |-> CHOOSE r \in M : Rank(M, r) = i - 1]
  BY DEF NewestFirst, Rank
<1>3. ASSUME NEW i \in 1 .. n
      PROVE  s[i] \in M /\ Rank(M, s[i]) = i - 1
  <2>1. i - 1 \in 0 .. n - 1
    BY <1>1
  <2>2. \E r \in M : Rank(M, r) = i - 1
    BY <2>1, RankIsOnto
  <2> QED
    BY <1>2, <2>2
<1> HIDE DEF s
<1>4. s \in [1 .. n -> M]
  BY <1>2, <1>3
<1>5. s \in Seq(M) /\ Len(s) = n
  BY <1>1, <1>4
<1>6. ASSUME NEW i \in 1 .. n, NEW j \in 1 .. n, i < j
      PROVE  Newer(s[i], s[j])
  <2>1. Rank(M, s[i]) < Rank(M, s[j])
    BY <1>1, <1>3, <1>6
  <2>2. s[i] \in M /\ s[j] \in M /\ s[i] # s[j]
    BY <1>1, <1>3, <1>6
  <2>3. Newer(s[j], s[i]) => Rank(M, s[j]) < Rank(M, s[i])
    BY <2>2, RankAscends
  <2>4. Rank(M, s[i]) \in Nat /\ Rank(M, s[j]) \in Nat
    BY <2>2, RankIs
  <2> QED
    BY <2>1, <2>2, <2>3, <2>4, NewerIsOrder
<1>7. ASSUME NEW r \in M
      PROVE  \E i \in 1 .. n : s[i] = r
  <2>1. Rank(M, r) \in 0 .. n - 1
    BY RankIs
  <2>2. PICK i \in 1 .. n : i = Rank(M, r) + 1
    BY <1>1, <2>1
  <2>3. Rank(M, s[i]) = Rank(M, r) /\ s[i] \in M
    BY <1>1, <1>3, <2>1, <2>2
  <2>4. s[i] = r
    <3> SUFFICES ASSUME s[i] # r PROVE FALSE
      OBVIOUS
    <3>1. Rank(M, s[i]) < Rank(M, r) \/ Rank(M, r) < Rank(M, s[i])
      BY <2>3, NewerIsOrder, RankAscends
    <3> QED
      BY <2>1, <2>3, <3>1
  <2> QED
    BY <2>4
<1> QED
  BY <1>1, <1>5, <1>6, <1>7 DEF s

\* Rows listed newest first, all of them, are that list.
LEMMA NewestFirstIsOnly ==
    ASSUME NEW M, Listable(M), NEW m \in Nat, NEW t \in [1 .. m -> M],
           \A i, j \in 1 .. m : i < j => Newer(t[i], t[j]),
           \A r \in M : \E i \in 1 .. m : t[i] = r
    PROVE  m = Cardinality(M) /\ t = NewestFirst(M)
<1> DEFINE s == NewestFirst(M)
           n == Cardinality(M)
<1>1. /\ n \in Nat /\ s \in [1 .. n -> M]
      /\ \A i, j \in 1 .. n : i < j => Newer(s[i], s[j])
      /\ \A r \in M : \E i \in 1 .. n : s[i] = r
  <2>1. s \in Seq(M) /\ Len(s) = n /\ n \in Nat
    BY NewestFirstIs
  <2> HIDE DEF s, n
  <2>2. s \in [1 .. n -> M]
    BY <2>1
  <2> QED
    BY <2>1, <2>2, NewestFirstIs DEF s, n
<1>2. \A i, j \in 1 .. m : t[i] = t[j] => i = j
  <2> SUFFICES ASSUME NEW i \in 1 .. m, NEW j \in 1 .. m, i # j PROVE t[i] # t[j]
    OBVIOUS
  <2>1. i < j \/ j < i
    OBVIOUS
  <2> QED
    BY <2>1, NewerIsOrder
<1>3. IsFiniteSet(1 .. m) /\ Cardinality(1 .. m) = m
  BY FS_Interval
<1>4. t \in Bijection(1 .. m, M)
  BY <1>2 DEF Bijection, Injection, Surjection, IsInjective
<1>5. m = n
  BY <1>3, <1>4, FS_Bijection DEF ExistsBijection
<1>6. ASSUME NEW i \in 1 .. m
      PROVE  Rank(M, t[i]) = i - 1
  <2> DEFINE T == {x \in M : Newer(x, t[i])}
             g == [j \in 1 .. i - 1 |-> t[j]]
  <2>1. \A x \in T : \E j \in 1 .. i - 1 : t[j] = x
    <3> SUFFICES ASSUME NEW x \in T PROVE \E j \in 1 .. i - 1 : t[j] = x
      OBVIOUS
    <3>1. PICK j \in 1 .. m : t[j] = x
      OBVIOUS
    <3>2. ~(i < j) /\ i # j
      BY <3>1, NewerIsOrder
    <3> QED
      BY <3>1, <3>2
  <2>2. g \in [1 .. i - 1 -> T]
    OBVIOUS
  <2> HIDE DEF T
  <2>3. g \in Bijection(1 .. i - 1, T)
    BY <1>2, <2>1, <2>2 DEF Bijection, Injection, Surjection, IsInjective
  <2>4. IsFiniteSet(1 .. i - 1) /\ Cardinality(1 .. i - 1) = i - 1
    <3>1. PICK k \in Nat : k = i - 1
      OBVIOUS
    <3> QED
      BY <3>1, FS_Interval
  <2>5. Cardinality(T) = i - 1
    BY <2>3, <2>4, FS_Bijection DEF ExistsBijection
  <2> QED
    BY <2>5 DEF T, Rank
<1>7. ASSUME NEW i \in 1 .. m, NEW r \in M, Rank(M, r) = i - 1
      PROVE  r = t[i]
  <2> SUFFICES ASSUME r # t[i] PROVE FALSE
    OBVIOUS
  <2>1. Rank(M, r) < Rank(M, t[i]) \/ Rank(M, t[i]) < Rank(M, r)
    BY NewerIsOrder, RankAscends
  <2> QED
    BY <1>6, <1>7, <2>1
<1>8. s = [i \in 1 .. n |-> CHOOSE r \in M : Rank(M, r) = i - 1]
  BY DEF NewestFirst, Rank
<1>9. ASSUME NEW i \in 1 .. m
      PROVE  t[i] = (CHOOSE r \in M : Rank(M, r) = i - 1)
  BY <1>6, <1>7
<1> HIDE DEF s
<1>10. t = s
  BY <1>1, <1>5, <1>8, <1>9
<1> QED
  BY <1>5, <1>10 DEF s

-----------------------------------------------------------------------------
(* Pages and cursors                                                       *)

LEMMA TakeIs ==
    ASSUME NEW S, NEW s \in Seq(S), NEW n \in Nat
    PROVE  /\ Take(s, n) \in Seq(S) /\ Len(s) \in Nat
           /\ Len(Take(s, n)) = IF Len(s) < n THEN Len(s) ELSE n
           /\ \A i \in 1 .. Len(Take(s, n)) : Take(s, n)[i] = s[i]
BY DEF Take

LEMMA FloorIs ==
    ASSUME NEW at \in Nat
    PROVE  Floor(at) \in Nat /\ Floor(at) <= at /\ at < Floor(at) + MS /\ Floor(at) % MS = 0
BY DEF Floor, MS

LEMMA CursorIs ==
    ASSUME NEW row, row.at \in Nat, row.id \in Nat
    PROVE  /\ EncodeCursor(row) \in Cursor /\ EncodeCursor(row) # None
           /\ EncodeCursor(row).at = Floor(row.at) /\ EncodeCursor(row).id = row.id
BY FloorIs, NoneAssumption DEF EncodeCursor, Cursor

\* What lies after a cursor comes after the row it was made of, and what comes
\* after that row in another millisecond lies after the cursor.
LEMMA AfterIs ==
    ASSUME NEW edge, edge.at \in Nat, edge.id \in Nat, NEW row, row.at \in Nat, row.id \in Nat
    PROVE  /\ After(EncodeCursor(edge), row) => Newer(edge, row)
           /\ Newer(edge, row) /\ Floor(edge.at) # Floor(row.at) => After(EncodeCursor(edge), row)
<1>1. /\ Floor(edge.at) \in Nat /\ Floor(edge.at) <= edge.at
      /\ EncodeCursor(edge) # None
      /\ EncodeCursor(edge).at = Floor(edge.at) /\ EncodeCursor(edge).id = edge.id
  BY FloorIs, CursorIs
<1>2. After(EncodeCursor(edge), row) <=>
        row.at < Floor(edge.at) \/ (row.at = Floor(edge.at) /\ row.id < edge.id)
  BY <1>1 DEF After
<1>3. row.at < edge.at /\ Floor(edge.at) # Floor(row.at) => row.at < Floor(edge.at)
  BY DEF Floor, MS
<1> QED
  BY <1>1, <1>2, <1>3 DEF Newer

\* One page of M: the first rows of it, and a cursor when there are more.
LEMMA PagedIs ==
    ASSUME NEW M, Listable(M), NEW limit \in Nat \ {0}
    PROVE  LET page == Paged(M, limit)
               s == NewestFirst(M)
               n == Cardinality(M)
           IN  /\ n \in Nat /\ page.rows \in Seq(M) /\ s \in Seq(M) /\ Len(s) = n
               /\ Len(page.rows) = IF n < limit THEN n ELSE limit
               /\ \A i \in 1 .. Len(page.rows) : page.rows[i] = s[i]
               /\ page.next = IF n > limit THEN EncodeCursor(s[limit]) ELSE None
<1> DEFINE s == NewestFirst(M)
           n == Cardinality(M)
           found == Take(s, limit + 1)
<1>1. n \in Nat /\ s \in Seq(M) /\ Len(s) = n
  BY NewestFirstIs
<1>2. Paged(M, limit) = [rows |-> Take(found, limit),
                         next |-> IF Len(found) > limit THEN EncodeCursor(found[limit]) ELSE None]
  BY DEF Paged
<1> HIDE DEF s
<1>3. /\ found \in Seq(M) /\ Len(found) = (IF n < limit + 1 THEN n ELSE limit + 1)
      /\ \A i \in 1 .. Len(found) : found[i] = s[i]
  BY <1>1, TakeIs
<1> HIDE DEF found
<1>4. /\ Take(found, limit) \in Seq(M)
      /\ Len(Take(found, limit)) = (IF Len(found) < limit THEN Len(found) ELSE limit)
      /\ \A i \in 1 .. Len(Take(found, limit)) : Take(found, limit)[i] = found[i]
  BY <1>3, TakeIs
<1> DEFINE page == Paged(M, limit)
<1>5. page.rows = Take(found, limit) /\ page.next = IF Len(found) > limit THEN EncodeCursor(found[limit]) ELSE None
  BY <1>2
<1> HIDE DEF n, page
<1>6. /\ page.rows \in Seq(M)
      /\ Len(page.rows) = IF n < limit THEN n ELSE limit
      /\ \A i \in 1 .. Len(page.rows) : page.rows[i] = s[i]
  BY <1>1, <1>3, <1>4, <1>5
<1>7. page.next = IF n > limit THEN EncodeCursor(s[limit]) ELSE None
  BY <1>1, <1>3, <1>5
<1> QED
  BY <1>1, <1>6, <1>7 DEF s, n, page

\* What the walk and the export need of it.
IsPageOf(page, M, limit) ==
    /\ page.rows \in Seq(M) /\ Len(page.rows) \in 0 .. limit
    /\ page.next \in Cursor \cup {None}
    /\ \A i, j \in 1 .. Len(page.rows) : i < j => Newer(page.rows[i], page.rows[j])
    /\ page.next = None => \A r \in M : \E i \in 1 .. Len(page.rows) : page.rows[i] = r
    /\ page.next # None =>
         /\ Len(page.rows) = limit /\ page.next = EncodeCursor(page.rows[limit])
         /\ \A r \in M : \/ \E i \in 1 .. limit : page.rows[i] = r
                         \/ Newer(page.rows[limit], r)

LEMMA PagedFacts ==
    ASSUME NEW M, Listable(M), NEW limit \in Nat \ {0}
    PROVE  IsPageOf(Paged(M, limit), M, limit)
<1> DEFINE page == Paged(M, limit)
           s == NewestFirst(M)
           n == Cardinality(M)
<1>1. /\ n \in Nat /\ page.rows \in Seq(M) /\ s \in Seq(M) /\ Len(s) = n
      /\ Len(page.rows) = IF n < limit THEN n ELSE limit
      /\ \A i \in 1 .. Len(page.rows) : page.rows[i] = s[i]
      /\ page.next = IF n > limit THEN EncodeCursor(s[limit]) ELSE None
  BY PagedIs
<1>2. /\ \A i, j \in 1 .. n : i < j => Newer(s[i], s[j])
      /\ \A r \in M : \E i \in 1 .. n : s[i] = r
  BY NewestFirstIs
<1> HIDE DEF page, s, n
<1>3. ASSUME n > limit
      PROVE  page.next # None /\ page.next \in Cursor /\ page.next = EncodeCursor(page.rows[limit])
  <2>1. s[limit] \in M /\ page.rows[limit] = s[limit]
    BY <1>1, <1>3
  <2>2. s[limit].at \in Nat /\ s[limit].id \in Nat
    BY <2>1 DEF Listable
  <2> QED
    BY <1>1, <1>3, <2>1, <2>2, CursorIs
<1>4. Len(page.rows) \in 0 .. limit /\ Len(page.rows) <= n
  BY <1>1
<1>5. \A i, j \in 1 .. Len(page.rows) : i < j => Newer(page.rows[i], page.rows[j])
  BY <1>1, <1>2, <1>4
<1>6. page.next = None => \A r \in M : \E i \in 1 .. Len(page.rows) : page.rows[i] = r
  <2> SUFFICES ASSUME page.next = None, NEW r \in M PROVE \E i \in 1 .. Len(page.rows) : page.rows[i] = r
    OBVIOUS
  <2>1. Len(page.rows) = n
    BY <1>1, <1>3
  <2> QED
    BY <1>1, <1>2, <2>1
<1>7. page.next # None => n > limit
  BY <1>1
<1>8. ASSUME n > limit, NEW r \in M
      PROVE  (\E i \in 1 .. limit : page.rows[i] = r) \/ Newer(page.rows[limit], r)
  <2>1. PICK k \in 1 .. n : s[k] = r
    BY <1>2
  <2>2. Len(page.rows) = limit /\ limit \in 1 .. limit
    BY <1>1, <1>8
  <2>3. CASE k <= limit
    BY <1>1, <2>1, <2>2, <2>3
  <2>4. CASE k > limit
    <3>1. Newer(s[limit], s[k])
      BY <1>1, <1>2, <1>8, <2>4
    <3> QED
      BY <1>1, <2>1, <2>2, <3>1
  <2> QED
    BY <1>1, <2>3, <2>4
<1>9. n > limit => Len(page.rows) = limit
  BY <1>1
<1>10. page.next \in Cursor \cup {None}
  BY <1>1, <1>3
<1> QED
  BY <1>1, <1>3, <1>4, <1>5, <1>6, <1>7, <1>8, <1>9, <1>10 DEF page, IsPageOf

-----------------------------------------------------------------------------
(* The table and the queries                                               *)

\* The database: an id names one row.
RowsSound == kind \in Kinds /\ rows \subseteq Row(kind) /\ Listable(rows)

LEMMA RowIs ==
    ASSUME RowsSound, NEW r \in rows
    PROVE  r \in Row(kind) /\ r.id \in Nat /\ r.at \in Nat /\ r.amount \in Nat
BY DEF RowsSound, Row

LEMMA SubsetListable ==
    ASSUME RowsSound, NEW M \in SUBSET rows
    PROVE  Listable(M)
BY FS_Subset DEF RowsSound, Listable

\* What the queries ask for.
Matches(row, f) == IF kind = "invoices" THEN MatchesInvoice(row, f) ELSE MatchesCommon(row, f)
Matching(f, cursor) == {r \in rows : Matches(r, f) /\ After(cursor, r)}

LEMMA ListIs ==
    ASSUME NEW f, NEW cursor, NEW limit
    PROVE  List(f, cursor, limit) = Paged(Matching(f, cursor), limit)
BY DEF List, ListInvoices, ListWebhookDeliveries, Matching, Matches

\* Whole days against ticks: the last fraction of a day is all that differs.
LEMMA DaysAndTicks ==
    ASSUME NEW at \in Nat, NEW day \in Nat
    PROVE  /\ at >= ParseDateStart(day) <=> day <= at \div DAY
           /\ at <= ParseDateEnd(day) => at \div DAY <= day
           /\ at \div DAY <= day /\ ~(at % DAY > DAY - MS) => at <= ParseDateEnd(day)
<1> DEFINE d == at \div DAY
           m == at % DAY
<1>1. DAY \in Nat /\ DAY > 2
  BY SizesAssumption DEF MS
<1>2. d \in Nat /\ m \in Nat /\ m < DAY /\ at = DAY * d + m
  BY <1>1
<1> HIDE DEF d, m
<1>3. /\ day <= d => DAY * day <= DAY * d
      /\ d + 1 <= day => DAY * (d + 1) <= DAY * day
      /\ day + 1 <= d => DAY * (day + 1) <= DAY * d
      /\ d <= day => DAY * d <= DAY * day
  BY <1>1, <1>2
<1>4. DAY * (d + 1) = DAY * d + DAY /\ DAY * (day + 1) = DAY * day + DAY
  BY <1>1, <1>2
<1>5. PICK x \in Nat, y \in Nat : x = DAY * d /\ y = DAY * day
  BY <1>1, <1>2
<1>6. ParseDateStart(day) = y /\ ParseDateEnd(day) = y + DAY - 2
  BY <1>1, <1>4, <1>5 DEF ParseDateStart, ParseDateEnd, MS
<1>7. at = x + m
  BY <1>2, <1>5
<1>8. /\ day <= d => y <= x
      /\ d + 1 <= day => x + DAY <= y
      /\ day + 1 <= d => y + DAY <= x
      /\ d <= day => x <= y
  BY <1>3, <1>4, <1>5
<1>9. at >= ParseDateStart(day) <=> day <= d
  BY <1>1, <1>2, <1>6, <1>7, <1>8
<1>10. at <= ParseDateEnd(day) => d <= day
  BY <1>1, <1>2, <1>6, <1>7, <1>8
<1>11. d <= day /\ ~(m > DAY - 2) => at <= ParseDateEnd(day)
  BY <1>1, <1>2, <1>6, <1>7, <1>8
<1> QED
  BY <1>9, <1>10, <1>11 DEF d, m, MS

\* The queries find what was asked for, and miss only what a date cannot say.
LEMMA MatchesIsAsked ==
    ASSUME RowsSound, NEW f \in Filters, NEW r \in rows
    PROVE  /\ Matches(r, f) => Asked(r, f)
           /\ Asked(r, f) /\ ~LastOfDay(r) => Matches(r, f)
<1>1. r.at \in Nat /\ r.amount \in Nat
  BY RowIs
<1>2. f.from \in Nat \cup {None} /\ f.to \in Nat \cup {None} /\ f.min \in Nat \cup {None} /\ f.max \in Nat \cup {None}
  BY ValuesAssumption DEF Filters
<1>3. f.from # None => (r.at >= ParseDateStart(f.from) <=> f.from <= r.at \div DAY)
  BY <1>1, <1>2, DaysAndTicks
<1>4. f.to # None => (r.at <= ParseDateEnd(f.to) => r.at \div DAY <= f.to)
  BY <1>1, <1>2, DaysAndTicks
<1>5. f.to # None => (r.at \div DAY <= f.to /\ ~LastOfDay(r) => r.at <= ParseDateEnd(f.to))
  BY <1>1, <1>2, DaysAndTicks DEF LastOfDay
<1>6. /\ f.min # None => (r.amount >= f.min <=> f.min <= r.amount)
  BY <1>1, <1>2
<1> QED
  BY <1>3, <1>4, <1>5, <1>6 DEF Asked, Matches, MatchesInvoice, MatchesCommon

-----------------------------------------------------------------------------
(* Filters and the URL                                                     *)

LEMMA FiltersAre ==
    /\ Defaults \in Filters
    /\ \A f \in Filters : DOMAIN f = Keys /\ f = [k \in Keys |-> f[k]] /\ \A k \in Keys : f[k] \in Values[k]
    /\ \A f : f = [k \in Keys |-> f[k]] /\ (\A k \in Keys : f[k] \in Values[k]) => f \in Filters
BY ValuesAssumption DEF Filters, Keys

\* Filters and page survive the way through the URL.
LEMMA BuildHrefIs ==
    ASSUME NEW f \in Filters, NEW page \in Nat
    PROVE  /\ BuildHref(f, page) \in Navigation /\ BuildHref(f, page) # None
           /\ ReadQuery(BuildHref(f, page).query) = f
           /\ BuildHref(f, page).page = page /\ BuildHref(f, page).i = 0
           /\ BuildHref(f, page).cursor = None /\ BuildHref(f, page).fresh = TRUE
<1> DEFINE K == {x \in Keys : f[x] # Defaults[x]}
           query == [k \in K |-> f[k]]
<1>1. query \in Queries
  <2>1. K \in SUBSET Keys
    OBVIOUS
  <2> HIDE DEF K
  <2>2. \E L \in SUBSET Keys, g \in Filters : query = [k \in L |-> g[k]]
    BY <2>1
  <2> QED
    BY <2>2 DEF Queries
<1>2. BuildHref(f, page) = [query |-> query, page |-> page, i |-> 0, cursor |-> None, fresh |-> TRUE]
  BY DEF BuildHref
<1>3. DOMAIN Defaults = Keys /\ f = [k \in Keys |-> f[k]]
  BY FiltersAre
<1>4. ReadQuery(query) = f
  <2>1. ReadQuery(query) = [k \in Keys |-> IF k \in K THEN f[k] ELSE Defaults[k]]
    BY <1>3 DEF ReadQuery, Spread
  <2>2. \A k \in Keys : (IF k \in K THEN f[k] ELSE Defaults[k]) = f[k]
    OBVIOUS
  <2> QED
    BY <1>3, <2>1, <2>2
<1> HIDE DEF query
<1>5. BuildHref(f, page) \in Navigation
  BY <1>1, <1>2 DEF Navigation
<1>6. BuildHref(f, page) # None
  BY <1>5, NoneAssumption
<1>7. /\ BuildHref(f, page).query = query /\ BuildHref(f, page).page = page
      /\ BuildHref(f, page).i = 0 /\ BuildHref(f, page).cursor = None
      /\ BuildHref(f, page).fresh = TRUE
  BY <1>2
<1>8. ReadQuery(BuildHref(f, page).query) = f
  BY <1>4, <1>7
<1> QED
  BY <1>5, <1>6, <1>7, <1>8

LEMMA SpreadIs ==
    ASSUME NEW f \in Filters, NEW over, DOMAIN over \subseteq Keys,
           \A k \in DOMAIN over : over[k] \in Values[k]
    PROVE  /\ Spread(f, over) \in Filters
           /\ \A k \in DOMAIN over : Spread(f, over)[k] = over[k]
           /\ \A k \in Keys \ DOMAIN over : Spread(f, over)[k] = f[k]
<1> DEFINE g == Spread(f, over)
<1>1. g = [k \in Keys |-> IF k \in DOMAIN over THEN over[k] ELSE f[k]]
  BY FiltersAre DEF Spread
<1> HIDE DEF g
<1>2. \A k \in Keys : g[k] \in Values[k]
  BY <1>1, FiltersAre
<1>3. g = [k \in Keys |-> g[k]]
  BY <1>1
<1>4. g \in Filters
  BY <1>2, <1>3, FiltersAre
<1>5. /\ \A k \in DOMAIN over : g[k] = over[k]
      /\ \A k \in Keys \ DOMAIN over : g[k] = f[k]
  BY <1>1
<1> QED
  BY <1>4, <1>5 DEF g

-----------------------------------------------------------------------------
(* The other writers                                                       *)

WriterStep == Insert \/ ChangeStatus

\* A row keeps its id and its time; a new row has an id of its own.
KeysKept ==
    /\ \A r \in rows : \E x \in rows' : x.id = r.id /\ x.at = r.at
    /\ \A x \in rows' : x.id \in RowIds => \E r \in rows : x.id = r.id /\ x.at = r.at

LEMMA ChurnIs ==
    ASSUME RowsSound, WriterStep
    PROVE  RowsSound' /\ KeysKept
<1>1. IsFiniteSet(rows) /\ rows \subseteq Row(kind) /\ kind \in Kinds /\ kind' = kind
      /\ \A a, b \in rows : a.id = b.id => a = b
  BY DEF RowsSound, Listable, WriterStep, Insert, ChangeStatus, Churned
<1>2. CASE Insert
  <2>1. PICK id \in Ids, at \in Times, like \in rows :
          /\ \A r \in rows : r.id # id
          /\ rows' = rows \cup {[like EXCEPT !.id = id, !.at = at, !.status = "pending"]}
    BY <1>2 DEF Insert, Churned
  <2>2. PICK new : new = [like EXCEPT !.id = id, !.at = at, !.status = "pending"]
    OBVIOUS
  <2>3. new \in Row(kind) /\ new.id = id /\ id \in Nat
    <3>1. id \in Nat /\ at \in Nat /\ like \in Row(kind)
      BY <1>1, TablesAssumption
    <3> QED
      BY <2>2, <3>1 DEF Row
  <2>4. rows' = rows \cup {new}
    BY <2>1, <2>2
  <2>5. IsFiniteSet(rows')
    BY <1>1, <2>4, FS_AddElement
  <2>6. rows' \subseteq Row(kind)'
    BY <1>1, <2>3, <2>4 DEF Row
  <2>7. \A a, b \in rows' : a.id = b.id => a = b
    BY <1>1, <2>1, <2>3, <2>4
  <2>8. \A x \in rows' : x.id \in Nat /\ x.at \in Nat
    BY <2>6 DEF Row
  <2>9. RowsSound'
    BY <1>1, <2>5, <2>6, <2>7, <2>8 DEF RowsSound, Listable
  <2>10. id \notin RowIds
    BY <2>1 DEF RowIds
  <2> QED
    BY <2>3, <2>4, <2>9, <2>10 DEF KeysKept
<1>3. CASE ChangeStatus
  <2>1. PICK row \in rows, to \in Outcomes(kind) \cap Closed :
          rows' = (rows \ {row}) \cup {[row EXCEPT !.status = to]}
    BY <1>3 DEF ChangeStatus, Churned
  <2>2. PICK new : new = [row EXCEPT !.status = to]
    OBVIOUS
  <2>3. row \in Row(kind) /\ to \in {"pending"} \cup Outcomes(kind)
    BY <1>1
  <2>4. new \in Row(kind) /\ new.id = row.id /\ new.at = row.at
    BY <2>2, <2>3 DEF Row
  <2>5. rows' = (rows \ {row}) \cup {new}
    BY <2>1, <2>2
  <2>6. IsFiniteSet(rows')
    BY <1>1, <2>5, FS_AddElement, FS_RemoveElement
  <2>7. rows' \subseteq Row(kind)'
    BY <1>1, <2>4, <2>5 DEF Row
  <2>8. \A a, b \in rows' : a.id = b.id => a = b
    BY <1>1, <2>4, <2>5
  <2>9. \A x \in rows' : x.id \in Nat /\ x.at \in Nat
    BY <2>7 DEF Row
  <2>10. RowsSound'
    BY <1>1, <2>6, <2>7, <2>8, <2>9 DEF RowsSound, Listable
  <2>11. KeysKept
    BY <2>4, <2>5 DEF KeysKept
  <2> QED
    BY <2>10, <2>11
<1> QED
  BY <1>2, <1>3 DEF WriterStep

\* Which rows there are decides which ids there are.
LEMMA IdsKept ==
    ASSUME KeysKept
    PROVE  RowIds \subseteq RowIds'
BY DEF KeysKept, RowIds

\* What a query of the table returns.
LEMMA ResultIs ==
    ASSUME RowsSound, NEW f, NEW cursor, NEW limit \in Nat \ {0}
    PROVE  LET result == List(f, cursor, limit)
           IN  /\ result.rows \in Seq(rows) /\ result.next \in Cursor \cup {None}
               /\ IdsOf(result.rows) \in Seq(Nat) /\ IdsOf(result.rows) \in Seq(RowIds)
               /\ Len(IdsOf(result.rows)) = Len(result.rows)
               /\ \A i \in 1 .. Len(result.rows) : IdsOf(result.rows)[i] = result.rows[i].id
<1> DEFINE result == List(f, cursor, limit)
           M == Matching(f, cursor)
<1>1. M \subseteq rows
  BY DEF Matching
<1> HIDE DEF M
<1>2. Listable(M)
  BY <1>1, SubsetListable
<1>3. result = Paged(M, limit)
  BY ListIs DEF M
<1>4. result.rows \in Seq(M) /\ result.next \in Cursor \cup {None}
  BY <1>2, <1>3, PagedFacts DEF IsPageOf
<1> HIDE DEF result
<1>5. PICK s \in Seq(M) : s = result.rows
  BY <1>4
<1>6. \A i \in 1 .. Len(s) : s[i] \in rows /\ s[i].id \in Nat /\ s[i].id \in RowIds
  BY <1>1, <1>5, RowIs DEF RowIds
<1>7. s \in Seq(rows) /\ DOMAIN s = 1 .. Len(s) /\ Len(s) \in Nat
  BY <1>1
<1>8. IdsOf(s) = [i \in 1 .. Len(s) |-> s[i].id]
  BY <1>7 DEF IdsOf
<1>9. IdsOf(s) \in Seq(Nat) /\ IdsOf(s) \in Seq(RowIds) /\ Len(IdsOf(s)) = Len(s)
  BY <1>6, <1>7, <1>8
<1>10. \A i \in 1 .. Len(s) : IdsOf(s)[i] = s[i].id
  BY <1>8
<1> QED
  BY <1>4, <1>5, <1>7, <1>9, <1>10 DEF result

-----------------------------------------------------------------------------
(* Types                                                                   *)

View == [filters : Filters, page : Nat, rows : Seq(Nat), more : BOOLEAN, error : BOOLEAN]

BarTyped ==
    /\ view \in View /\ searchInput \in Values.q
    /\ timer \in Debounce \cup {None}
    /\ nav \in Navigation \cup {None}
    /\ nav # None => ReadQuery(nav.query) \in Filters /\ nav.i <= nav.page
    /\ overtaken \in BOOLEAN /\ discarded \in BOOLEAN
    /\ view.rows \in Seq(RowIds)

ExportTyped ==
    /\ csv \in Export \cup {None}
    /\ csv # None => csv.out \in Seq(RowIds) /\ csv.pages <= CSV_MAX_PAGES
    /\ Exporting => csv.pages < CSV_MAX_PAGES

TableTyped == RowsSound /\ BarTyped /\ ExportTyped

\* A filter that is chosen, and the whole bar cleared, are an update with values
\* of the bar.
Offered(over) == DOMAIN over \subseteq Keys /\ \A k \in DOMAIN over : over[k] \in Values[k]

LEMMA ChosenIsOffered ==
    ASSUME ChooseFilter \/ ClearFilters
    PROVE  \E over : Offered(over) /\ UpdateFilters(over)
<1>1. CASE ClearFilters
  <2>1. UpdateFilters(Defaults)
    BY <1>1 DEF ClearFilters
  <2>2. Offered(Defaults)
    BY FiltersAre DEF Offered
  <2> QED
    BY <2>1, <2>2
<1>2. CASE \E k \in BarKeys \ {"q", "from", "to"} :
              \E v \in Values[k] \ {view.filters[k]} : UpdateFilters([x \in {k} |-> v])
  <2>1. PICK k \in BarKeys : \E v \in Values[k] : UpdateFilters([x \in {k} |-> v])
    BY <1>2
  <2>2. PICK v \in Values[k] : UpdateFilters([x \in {k} |-> v])
    BY <2>1
  <2>3. k \in Keys
    BY DEF BarKeys
  <2>4. Offered([x \in {k} |-> v])
    BY <2>2, <2>3 DEF Offered
  <2> QED
    BY <2>2, <2>4
<1>3. CASE \E from \in Values.from, to \in Values.to : UpdateFilters([from |-> from, to |-> to])
  <2>1. PICK from \in Values.from, to \in Values.to : UpdateFilters([from |-> from, to |-> to])
    BY <1>3
  <2>2. Offered([from |-> from, to |-> to])
    BY DEF Offered, Keys
  <2> QED
    BY <2>1, <2>2
<1> QED
  BY <1>1, <1>2, <1>3 DEF ChooseFilter

\* Every navigation is one the bar can ask for.
Navigates(f, page) == f \in Filters /\ page \in Nat /\ nav' = BuildHref(f, page)

LEMMA NavigationTyped ==
    ASSUME NEW f, NEW page, Navigates(f, page)
    PROVE  /\ nav' \in Navigation /\ nav' # None /\ ReadQuery(nav'.query) = f
           /\ nav'.page = page /\ nav'.i = 0 /\ nav'.cursor = None /\ nav'.fresh = TRUE
           /\ nav'.i <= nav'.page
<1>1. f \in Filters /\ page \in Nat /\ nav' = BuildHref(f, page)
  BY DEF Navigates
<1>2. /\ nav' \in Navigation /\ nav' # None /\ ReadQuery(nav'.query) = f
      /\ nav'.page = page /\ nav'.i = 0 /\ nav'.cursor = None /\ nav'.fresh = TRUE
  BY <1>1, BuildHrefIs
<1>3. 0 <= page
  BY <1>1
<1> QED
  BY <1>2, <1>3

\* A page that arrives, or the error page in its place.
Rendered(f, v) ==
    /\ f \in Filters /\ v \in View /\ v.filters = f /\ v.rows \in Seq(RowIds)
    /\ Render(v) /\ UNCHANGED <<kind, rows>>

LEMMA FiltersEffect ==
    ASSUME TableTyped, NEW over, Offered(over), UpdateFilters(over)
    PROVE  Navigates(Spread(view.filters, over), 0)
BY SpreadIs DEF TableTyped, BarTyped, View, Offered, UpdateFilters, Navigates, Replace

LEMMA DebounceEffect ==
    ASSUME TableTyped, DebounceEnds
    PROVE  Navigates([timer.filters EXCEPT !.q = timer.q], 0)
<1>1. timer.filters \in Filters /\ timer.q \in Values.q
  BY DEF TableTyped, BarTyped, Debounce, DebounceEnds
<1>2. [timer.filters EXCEPT !.q = timer.q] \in Filters
  BY <1>1 DEF Filters
<1> QED
  BY <1>2 DEF DebounceEnds, Navigates, Replace

LEMMA PageEffect ==
    ASSUME TableTyped, GoToPage
    PROVE  \E page : Navigates(view.filters, page)
<1>1. view.filters \in Filters /\ view.page \in Nat
  BY DEF TableTyped, BarTyped, View
<1>2. CASE view.page > 0 /\ Replace(view.filters, view.page - 1)
  BY <1>1, <1>2 DEF Navigates, Replace
<1>3. CASE view.more /\ Replace(view.filters, view.page + 1)
  BY <1>1, <1>3 DEF Navigates, Replace
<1> QED
  BY <1>2, <1>3 DEF GoToPage

\* One query of a walk: to the next page, or to the end.
WalksOn ==
    LET result == List(ReadQuery(nav.query), nav.cursor, PAGE_SIZE)
    IN  /\ nav # None /\ nav.i < nav.page /\ result.next # None
        /\ nav' = [nav EXCEPT !.i = @ + 1, !.cursor = result.next]
        /\ UNCHANGED <<db, view, searchInput, timer, csv, user>>
Arrives ==
    LET f == ReadQuery(nav.query)
        result == List(f, nav.cursor, PAGE_SIZE)
    IN  /\ nav # None /\ ~(nav.i < nav.page /\ result.next # None)
        /\ Rendered(f, [filters |-> f, page |-> nav.i, rows |-> IdsOf(result.rows),
                        more |-> result.next # None, error |-> FALSE])

LEMMA WalkEffect ==
    ASSUME TableTyped, WalkToPage
    PROVE  WalksOn \/ Arrives
<1> DEFINE f == ReadQuery(nav.query)
           result == List(f, nav.cursor, PAGE_SIZE)
           v == [filters |-> f, page |-> nav.i, rows |-> IdsOf(result.rows),
                 more |-> result.next # None, error |-> FALSE]
<1>1. nav # None /\ f \in Filters /\ nav.i \in Nat
  BY DEF WalkToPage, TableTyped, BarTyped, Navigation
<1>2. IF nav.i < nav.page /\ result.next # None
      THEN /\ nav' = [nav EXCEPT !.i = @ + 1, !.cursor = result.next]
           /\ UNCHANGED <<db, view, searchInput, timer, csv, user>>
      ELSE Render(v)
  BY DEF WalkToPage
<1>3. CASE nav.i < nav.page /\ result.next # None
  BY <1>1, <1>2, <1>3 DEF WalksOn
<1>4. CASE ~(nav.i < nav.page /\ result.next # None)
  <2>1. Render(v)
    BY <1>2, <1>4
  <2>2. IdsOf(result.rows) \in Seq(Nat) /\ IdsOf(result.rows) \in Seq(RowIds)
    BY SizesAssumption, ResultIs DEF TableTyped
  <2> HIDE DEF result, f
  <2>3. v \in View /\ v.filters = f /\ v.rows = IdsOf(result.rows)
    BY <1>1, <2>2 DEF View
  <2>4. UNCHANGED <<kind, rows>>
    BY <2>1 DEF Render, db
  <2>5. Rendered(f, v)
    BY <1>1, <2>1, <2>2, <2>3, <2>4 DEF Rendered
  <2> QED
    BY <1>1, <1>4, <2>5 DEF Arrives, f, result
<1> QED
  BY <1>3, <1>4

LEMMA WalksOnIs ==
    ASSUME TableTyped, WalksOn
    PROVE  LET next == List(ReadQuery(nav.query), nav.cursor, PAGE_SIZE).next
           IN  /\ UNCHANGED <<db, view, searchInput, timer, csv, user>>
               /\ nav # None /\ nav \in Navigation /\ nav' # None /\ nav' \in Navigation
               /\ nav.i < nav.page /\ next \in Cursor
               /\ nav'.query = nav.query /\ nav'.i = nav.i + 1 /\ nav'.page = nav.page
               /\ nav'.cursor = next /\ nav'.fresh = nav.fresh
<1> DEFINE next == List(ReadQuery(nav.query), nav.cursor, PAGE_SIZE).next
<1>1. next \in Cursor \cup {None}
  BY SizesAssumption, ResultIs DEF TableTyped
<1>2. /\ nav # None /\ nav.i < nav.page /\ nav' = [nav EXCEPT !.i = @ + 1, !.cursor = next]
      /\ UNCHANGED <<db, view, searchInput, timer, csv, user>> /\ next # None
  BY DEF WalksOn
<1> HIDE DEF next
<1>3. nav \in Navigation /\ nav.i \in Nat /\ nav.page \in Nat
  BY <1>2 DEF TableTyped, BarTyped, Navigation
<1>4. PICK k \in Nat : k = nav.i + 1
  BY <1>3
<1> DEFINE n == [nav EXCEPT !.i = k, !.cursor = next]
<1>5. n \in Navigation /\ n.query = nav.query /\ n.i = k /\ n.page = nav.page
      /\ n.cursor = next /\ n.fresh = nav.fresh
  BY <1>1, <1>3, <1>4 DEF Navigation
<1>6. nav' = n
  BY <1>2, <1>4
<1> HIDE DEF n
<1>7. nav' # None
  BY <1>5, <1>6, NoneAssumption
<1> QED
  BY <1>1, <1>2, <1>3, <1>4, <1>5, <1>6, <1>7 DEF next

LEMMA FailEffect ==
    ASSUME TableTyped, WalkFails
    PROVE  /\ nav # None
           /\ Rendered(ReadQuery(nav.query), [filters |-> ReadQuery(nav.query), page |-> 0,
                                               rows |-> <<>>, more |-> FALSE, error |-> TRUE])
<1>1. nav # None /\ ReadQuery(nav.query) \in Filters
  BY DEF WalkFails, TableTyped, BarTyped
<1>2. <<>> \in Seq(Nat) /\ <<>> \in Seq(RowIds)
  OBVIOUS
<1> QED
  BY <1>1, <1>2 DEF WalkFails, Rendered, View, Render, db

\* The steps of the bar and of the export; what the panels do
\* beside them leaves the table alone.
BarStep ==
    \/ \E v \in Values.q : Type(v)
    \/ DebounceEnds \/ ChooseFilter \/ ClearFilters \/ GoToPage
    \/ WalkToPage \/ WalkFails
ExportStep == ClickExport \/ ExportRowsToCsv \/ ExportFails
TableRests == UNCHANGED <<kind, rows, bar, csv, last, overtaken, discarded>>

LEMMA StepIs ==
    ASSUME [NextPanels]_<<vars, receipt>>
    PROVE  BarStep \/ ExportStep \/ WriterStep \/ TableRests
<1>1. CASE TableStep
  BY <1>1 DEF TableStep, BarStep, ExportStep
<1>2. CASE Insert \/ ChangeStatus
  BY <1>2 DEF WriterStep
<1>3. CASE OpenReceipt
  BY <1>3 DEF OpenReceipt, TableRests, db
<1>4. CASE UNCHANGED vars
  BY <1>4 DEF vars, TableRests, db, user
<1>5. CASE CloseReceipt \/ GetInvoiceReceipt \/ ReceiptArrives
  BY <1>4, <1>5 DEF CloseReceipt, GetInvoiceReceipt, ReceiptArrives
<1>6. CASE ReceiptFails
  BY <1>6 DEF ReceiptFails, TableRests, db, user
<1> QED
  BY <1>1, <1>2, <1>3, <1>4, <1>5, <1>6 DEF NextPanels

LEMMA BarStepRests ==
    ASSUME TableTyped, BarStep
    PROVE  UNCHANGED <<kind, rows, csv>>
<1> USE DEF BarStep
<1>1. CASE ChooseFilter \/ ClearFilters
  BY <1>1, ChosenIsOffered DEF UpdateFilters, db
<1>2. CASE WalkToPage
  BY <1>2, WalkEffect DEF WalksOn, Arrives, Rendered, Render, db
<1>3. CASE WalkFails
  BY <1>3 DEF WalkFails, Render, db
<1> QED
  BY <1>1, <1>2, <1>3 DEF Type, DebounceEnds, GoToPage, db

\* Every step keeps the types; the bar, the export and the writers separately.
LEMMA BarStepTyped ==
    ASSUME TableTyped, BarStep
    PROVE  TableTyped'
<1> USE DEF BarStep
<1>1. UNCHANGED <<kind, rows, csv>>
  BY BarStepRests
<1>2. RowsSound' /\ ExportTyped' /\ RowIds' = RowIds
  BY <1>1 DEF TableTyped, RowsSound, ExportTyped, RowIds, Exporting
<1>3. /\ view \in View /\ view.filters \in Filters /\ searchInput \in Values.q /\ timer \in Debounce \cup {None}
      /\ nav \in Navigation \cup {None} /\ view.rows \in Seq(RowIds)
      /\ overtaken \in BOOLEAN /\ discarded \in BOOLEAN
      /\ nav # None => ReadQuery(nav.query) \in Filters /\ nav.i <= nav.page
  BY DEF TableTyped, BarTyped, View
<1>4. CASE \E v \in Values.q : Type(v)
  <2>1. PICK v \in Values.q : Type(v)
    BY <1>4
  <2>2. [filters |-> view.filters, q |-> v] \in Debounce
    BY <1>3 DEF Debounce
  <2>3. /\ searchInput' \in Values.q /\ timer' \in Debounce \cup {None}
        /\ UNCHANGED <<view, nav>> /\ overtaken' \in BOOLEAN /\ discarded' \in BOOLEAN
    BY <2>1, <2>2 DEF Type
  <2> QED
    BY <1>2, <1>3, <2>3 DEF TableTyped, BarTyped
<1>5. CASE DebounceEnds \/ ChooseFilter \/ ClearFilters \/ GoToPage
  <2>1. \E f, page : Navigates(f, page)
    BY <1>5, DebounceEffect, ChosenIsOffered, FiltersEffect, PageEffect
  <2>2. /\ nav' \in Navigation /\ nav' # None /\ ReadQuery(nav'.query) \in Filters
        /\ nav'.i <= nav'.page
    BY <2>1, NavigationTyped DEF Navigates
  <2>3. /\ UNCHANGED <<view, searchInput>> /\ timer' \in {timer, None}
        /\ overtaken' \in BOOLEAN /\ discarded' \in BOOLEAN
    <3>1. CASE DebounceEnds
      BY <1>3, <3>1 DEF DebounceEnds
    <3>2. CASE ChooseFilter \/ ClearFilters
      BY <1>3, <3>2, ChosenIsOffered DEF UpdateFilters
    <3>3. CASE GoToPage
      BY <1>3, <3>3 DEF GoToPage
    <3> QED
      BY <1>5, <3>1, <3>2, <3>3
  <2> QED
    BY <1>2, <1>3, <2>2, <2>3 DEF TableTyped, BarTyped
<1>6. CASE WalksOn
  <2>1. /\ nav' \in Navigation /\ nav'.query = nav.query /\ nav'.i = nav.i + 1 /\ nav'.page = nav.page
        /\ nav # None /\ nav.i < nav.page /\ nav \in Navigation
        /\ UNCHANGED <<view, searchInput, timer, overtaken, discarded>>
    BY <1>6, WalksOnIs DEF user
  <2>2. nav.i \in Nat /\ nav.page \in Nat
    BY <2>1 DEF Navigation
  <2>3. nav' \in Navigation /\ ReadQuery(nav'.query) \in Filters /\ nav'.i <= nav'.page
    BY <1>3, <2>1, <2>2
  <2> QED
    BY <1>2, <1>3, <2>1, <2>3 DEF TableTyped, BarTyped
<1>7. CASE \E f, v : Rendered(f, v)
  <2>1. PICK f, v : Rendered(f, v)
    BY <1>7
  <2>2. /\ view' = v /\ nav' = None /\ v \in View /\ v.rows \in Seq(RowIds)
        /\ searchInput' \in {v.filters.q, searchInput} /\ timer' \in {timer, None}
        /\ overtaken' = overtaken /\ discarded' \in BOOLEAN
    BY <1>3, <2>1 DEF Rendered, Render
  <2>3. v.filters.q \in Values.q
    BY <2>2 DEF View, Filters
  <2> QED
    BY <1>2, <1>3, <2>2, <2>3 DEF TableTyped, BarTyped
<1>8. WalkToPage => WalksOn \/ \E f, v : Rendered(f, v)
  BY WalkEffect DEF Arrives
<1>9. WalkFails => \E f, v : Rendered(f, v)
  BY FailEffect
<1> QED
  BY <1>4, <1>5, <1>6, <1>7, <1>8, <1>9

\* What a page of the export is.
LEMMA ExportPageIs ==
    ASSUME TableTyped, ExportRowsToCsv
    PROVE  LET page == List(csv.filters, csv.cursor, CSV_PAGE_SIZE)
           IN  /\ csv # None /\ csv \in Export /\ csv.state = "running"
               /\ csv.pages < CSV_MAX_PAGES /\ csv' # None /\ csv' \in Export
               /\ csv'.out = csv.out \o IdsOf(page.rows) /\ csv'.pages = csv.pages + 1
               /\ csv'.cursor = page.next /\ csv'.due = csv.due /\ csv'.filters = csv.filters
               /\ csv'.capped = (page.next # None /\ csv.pages + 1 = CSV_MAX_PAGES)
               /\ csv'.state = IF page.next # None /\ csv.pages + 1 # CSV_MAX_PAGES THEN "running" ELSE "done"
               /\ UNCHANGED <<kind, rows, bar>>
<1> DEFINE page == List(csv.filters, csv.cursor, CSV_PAGE_SIZE)
           ids == IdsOf(page.rows)
           next == page.next
           capped == next # None /\ csv.pages + 1 = CSV_MAX_PAGES
           state == IF next # None /\ csv.pages + 1 # CSV_MAX_PAGES THEN "running" ELSE "done"
<1>1. ids \in Seq(Nat) /\ next \in Cursor \cup {None}
  BY SizesAssumption, ResultIs DEF TableTyped
<1>2. /\ csv # None /\ csv \in Export /\ csv.state = "running" /\ csv.pages < CSV_MAX_PAGES
      /\ csv.pages \in Nat /\ csv.out \in Seq(Nat)
  BY DEF ExportRowsToCsv, TableTyped, ExportTyped, Exporting, Export
<1>3. /\ csv' = [csv EXCEPT !.out = csv.out \o ids, !.pages = csv.pages + 1, !.cursor = next,
                            !.capped = capped, !.state = state]
      /\ UNCHANGED <<kind, rows, bar>>
  BY DEF ExportRowsToCsv, db
<1>4. capped \in BOOLEAN /\ state \in {"running", "done"}
  OBVIOUS
<1> HIDE DEF ids, next, capped, state
<1>5. csv.out \o ids \in Seq(Nat) /\ csv.pages + 1 \in Nat
  BY <1>1, <1>2
<1>6. /\ csv' \in Export /\ csv'.out = csv.out \o ids /\ csv'.pages = csv.pages + 1
      /\ csv'.cursor = next /\ csv'.due = csv.due /\ csv'.filters = csv.filters
      /\ csv'.capped = capped /\ csv'.state = state
  BY <1>1, <1>2, <1>3, <1>4, <1>5 DEF Export
<1>7. csv' # None
  BY <1>6, NoneAssumption
<1> QED
  BY <1>2, <1>3, <1>6, <1>7 DEF page, ids, next, capped, state

LEMMA ExportStepTyped ==
    ASSUME TableTyped, ExportStep
    PROVE  TableTyped'
<1>1. UNCHANGED <<kind, rows, bar>> /\ UNCHANGED <<overtaken, discarded>>
  BY DEF ExportStep, ClickExport, ExportRowsToCsv, ExportFails, db, user
<1>2. RowsSound' /\ BarTyped' /\ RowIds' = RowIds
  BY <1>1 DEF TableTyped, RowsSound, BarTyped, RowIds, bar
<1>3. CASE ClickExport
  <2> DEFINE due == {r.id : r \in {x \in rows : Asked(x, view.filters)}}
  <2>1. view.filters \in Filters
    BY DEF TableTyped, BarTyped, View
  <2>2. due \subseteq Nat
    BY RowIs DEF TableTyped
  <2>3. csv' = [state |-> "running", filters |-> view.filters, pages |-> 0, cursor |-> None,
                out |-> <<>>, capped |-> FALSE, due |-> due]
    BY <1>3 DEF ClickExport
  <2> HIDE DEF due
  <2>4. csv' \in Export /\ csv'.out = <<>> /\ csv'.pages = 0
    BY <2>1, <2>2, <2>3 DEF Export
  <2>5. CSV_MAX_PAGES \in Nat /\ CSV_MAX_PAGES > 0
    BY SizesAssumption
  <2>6. ExportTyped'
    BY <2>4, <2>5 DEF ExportTyped
  <2> QED
    BY <1>2, <2>6 DEF TableTyped
<1>4. CASE ExportRowsToCsv
  <2> DEFINE ids == IdsOf(List(csv.filters, csv.cursor, CSV_PAGE_SIZE).rows)
  <2>1. /\ csv' \in Export /\ csv'.out = csv.out \o ids /\ csv'.pages = csv.pages + 1
        /\ csv'.state = "running" => csv.pages + 1 # CSV_MAX_PAGES
        /\ csv # None /\ csv \in Export /\ csv.pages < CSV_MAX_PAGES
    BY <1>4, ExportPageIs
  <2>2. ids \in Seq(RowIds) /\ csv.out \in Seq(RowIds) /\ csv.pages \in Nat /\ CSV_MAX_PAGES \in Nat
    BY <2>1, SizesAssumption, ResultIs DEF TableTyped, ExportTyped, Export
  <2> HIDE DEF ids
  <2>3. csv'.out \in Seq(RowIds)
    BY <2>1, <2>2
  <2>4. csv'.pages <= CSV_MAX_PAGES /\ (csv'.state = "running" => csv'.pages < CSV_MAX_PAGES)
    BY <2>1, <2>2
  <2>5. ExportTyped'
    BY <1>2, <2>1, <2>3, <2>4 DEF ExportTyped, Exporting
  <2> QED
    BY <1>2, <2>5 DEF TableTyped
<1>5. CASE ExportFails
  <2>1. ExportTyped'
    BY <1>5 DEF ExportFails, ExportTyped, Exporting
  <2> QED
    BY <1>2, <2>1 DEF TableTyped
<1> QED
  BY <1>3, <1>4, <1>5 DEF ExportStep

\* What a writer does to the browser: a page under way is not fresh any more, and
\* the file owes no row that does not match any more.
LEMMA ChurnEffect ==
    ASSUME TableTyped, WriterStep
    PROVE  /\ UNCHANGED <<kind, view, searchInput, timer, user>>
           /\ nav = None => nav' = None
           /\ nav # None =>
                /\ nav' \in Navigation /\ nav' # None /\ nav'.query = nav.query /\ nav'.i = nav.i
                /\ nav'.page = nav.page /\ ~nav'.fresh
           /\ csv = None => csv' = None
           /\ csv # None =>
                /\ csv' \in Export /\ csv' # None
                /\ csv'.state = csv.state /\ csv'.filters = csv.filters /\ csv'.pages = csv.pages
                /\ csv'.cursor = csv.cursor /\ csv'.out = csv.out /\ csv'.capped = csv.capped
                /\ csv'.due = {r.id : r \in {x \in rows' : x.id \in csv.due /\ Asked(x, csv.filters)}}
<1>1. PICK S : Churned(S)
  BY DEF WriterStep, Insert, ChangeStatus
<1> DEFINE due == {r.id : r \in {x \in S : x.id \in csv.due /\ Asked(x, csv.filters)}}
<1>2. /\ rows' = S /\ UNCHANGED <<kind, view, searchInput, timer, user>>
      /\ nav' = IF nav = None THEN None ELSE [nav EXCEPT !.fresh = FALSE]
      /\ csv' = IF csv = None THEN None ELSE [csv EXCEPT !.due = due]
  BY <1>1 DEF Churned
<1>3. due \subseteq Nat
  <2>1. \A r \in S : r.id \in Nat
    BY <1>2, ChurnIs DEF TableTyped, RowsSound, Listable
  <2> QED
    BY <2>1
<1>4. nav # None =>
        /\ nav' \in Navigation /\ nav'.query = nav.query /\ nav'.i = nav.i
        /\ nav'.page = nav.page /\ ~nav'.fresh
  BY <1>2 DEF TableTyped, BarTyped, Navigation
<1>5. due = {r.id : r \in {x \in rows' : x.id \in csv.due /\ Asked(x, csv.filters)}}
  BY <1>2
<1> HIDE DEF due
<1>6. csv # None =>
        /\ csv' \in Export
        /\ csv'.state = csv.state /\ csv'.filters = csv.filters /\ csv'.pages = csv.pages
        /\ csv'.cursor = csv.cursor /\ csv'.out = csv.out /\ csv'.capped = csv.capped
        /\ csv'.due = due
  BY <1>2, <1>3 DEF TableTyped, ExportTyped, Export
<1> QED
  BY <1>2, <1>4, <1>5, <1>6, NoneAssumption

LEMMA ChurnStepTyped ==
    ASSUME TableTyped, WriterStep
    PROVE  TableTyped'
<1>1. RowsSound' /\ RowIds \subseteq RowIds'
  BY ChurnIs, IdsKept DEF TableTyped
<1>2. view.rows \in Seq(RowIds') /\ (csv # None => csv.out \in Seq(RowIds'))
  <2>1. PICK T : T = RowIds'
    OBVIOUS
  <2>2. view.rows \in Seq(T) /\ (csv # None => csv.out \in Seq(T))
    BY <1>1, <2>1 DEF TableTyped, BarTyped, ExportTyped
  <2> QED
    BY <2>1, <2>2
<1>3. BarTyped'
  BY <1>2, ChurnEffect DEF TableTyped, BarTyped, user
<1>4. ExportTyped'
  BY <1>2, ChurnEffect DEF TableTyped, ExportTyped, Exporting
<1> QED
  BY <1>1, <1>3, <1>4 DEF TableTyped

LEMMA TypedInit == InitPanels => TableTyped
<1> SUFFICES ASSUME InitPanels PROVE TableTyped
  OBVIOUS
<1> DEFINE first == List(Defaults, None, PAGE_SIZE)
<1>1. /\ kind \in Kinds /\ rows \in Tables[kind]
      /\ view = [filters |-> Defaults, page |-> 0, rows |-> IdsOf(first.rows),
                 more |-> first.next # None, error |-> FALSE]
      /\ searchInput = "" /\ timer = None /\ nav = None /\ csv = None
      /\ overtaken = FALSE /\ discarded = FALSE
  BY DEF InitPanels, Init
<1>2. RowsSound
  <2>1. /\ IsFiniteSet(rows) /\ rows \subseteq Row(kind)
        /\ \A a, b \in rows : a.id = b.id => a = b
    BY <1>1, TablesAssumption
  <2>2. \A r \in rows : r.at \in Nat /\ r.id \in Nat
    BY <2>1 DEF Row
  <2> QED
    BY <1>1, <2>1, <2>2 DEF RowsSound, Listable
<1>3. IdsOf(first.rows) \in Seq(Nat) /\ IdsOf(first.rows) \in Seq(RowIds)
  BY <1>2, SizesAssumption, ResultIs
<1> HIDE DEF first
<1>4. Defaults \in Filters /\ "" \in Values.q
  BY FiltersAre DEF Filters, Defaults
<1>5. view \in View /\ view.rows = IdsOf(first.rows)
  BY <1>1, <1>3, <1>4 DEF View
<1>6. BarTyped
  BY <1>1, <1>3, <1>4, <1>5 DEF BarTyped
<1>7. ExportTyped
  BY <1>1 DEF ExportTyped, Exporting
<1> QED
  BY <1>2, <1>6, <1>7 DEF TableTyped

LEMMA TypedNext == TableTyped /\ [NextPanels]_<<vars, receipt>> => TableTyped'
<1> SUFFICES ASSUME TableTyped, [NextPanels]_<<vars, receipt>> PROVE TableTyped'
  OBVIOUS
<1>1. CASE TableRests
  BY <1>1 DEF TableRests, bar, TableTyped, RowsSound, BarTyped, ExportTyped, RowIds, Exporting
<1> QED
  BY <1>1, StepIs, BarStepTyped, ExportStepTyped, ChurnStepTyped

LEMMA TypedHolds == SpecPanels => []TableTyped
BY TypedInit, TypedNext, PTL DEF SpecPanels

\* Every variable of the table has its type, and an id names one row.
THEOREM TypeCorrect == SpecPanels => []TypeOK
<1>1. TableTyped => TypeOK
  <2> SUFFICES ASSUME TableTyped PROVE TypeOK
    OBVIOUS
  <2>1. IsFiniteSet(rows) /\ \A a, b \in rows : a.id = b.id => a = b
    BY DEF TableTyped, RowsSound, Listable
  <2> DEFINE f == [r \in rows |-> r.id]
  <2>2. f \in Bijection(rows, RowIds)
    BY <2>1 DEF Bijection, Injection, Surjection, IsInjective, RowIds
  <2>3. Cardinality(RowIds) = Cardinality(rows)
    BY <2>1, <2>2, FS_Bijection DEF ExistsBijection
  <2> QED
    BY <2>3 DEF TypeOK, TableTyped, RowsSound, BarTyped, ExportTyped, View, Debounce
<1> QED
  BY <1>1, TypedHolds, PTL

-----------------------------------------------------------------------------
(* The bar at rest                                                         *)

\* As long as nothing has overtaken the last gesture, it is what the debounce or
\* the navigation under way, or else the page, is about.
LastGestureSound ==
    ~overtaken =>
      /\ timer # None => nav = None /\ last = [q |-> timer.q]
      /\ timer = None /\ nav # None => \A k \in DOMAIN last : ReadQuery(nav.query)[k] = last[k]
      /\ timer = None /\ nav = None => \A k \in DOMAIN last : view.filters[k] = last[k]

\* A debounce is about the text in the box.  Otherwise the box is right, or about
\* to be set right by a page with another text.
BoxSound ==
    /\ timer # None => timer.q = searchInput
    /\ timer = None /\ ~discarded /\ (nav = None \/ ReadQuery(nav.query).q = view.filters.q) =>
         searchInput = view.filters.q

BarSound == LastGestureSound /\ BoxSound

LEMMA BarSoundInit == InitPanels => BarSound
<1> SUFFICES ASSUME InitPanels PROVE BarSound
  OBVIOUS
<1>1. timer = None /\ nav = None /\ last = <<>> /\ searchInput = ""
  BY DEF InitPanels, Init
<1>2. DOMAIN last = {}
  <2>1. last = <<>>
    BY <1>1
  <2> QED
    BY ONLY <2>1
<1>3. LastGestureSound
  BY <1>1, <1>2 DEF LastGestureSound
<1>4. view.filters.q = ""
  <2>1. \E page, r, m : view = [filters |-> Defaults, page |-> page, rows |-> r, more |-> m, error |-> FALSE]
    BY DEF InitPanels, Init
  <2>2. view.filters = Defaults
    BY <2>1
  <2>3. Defaults.q = ""
    BY DEF Defaults
  <2> QED
    BY ONLY <2>2, <2>3
<1>5. BoxSound
  BY <1>1, <1>4 DEF BoxSound
<1> QED
  BY <1>3, <1>5 DEF BarSound

LEMMA TypeKeeps ==
    ASSUME TableTyped, BarSound, NEW v \in Values.q, Type(v)
    PROVE  BarSound'
<1>1. view.filters \in Filters /\ timer \in Debounce \cup {None}
  BY DEF TableTyped, BarTyped, View
<1>2. [filters |-> view.filters, q |-> v] \in Debounce
  BY <1>1 DEF Debounce
<1>3. [filters |-> view.filters, q |-> v] # None
  BY <1>2, NoneAssumption
<1>4. /\ searchInput' = v /\ last' = [q |-> v] /\ overtaken' = (nav # None) /\ discarded' = FALSE
      /\ UNCHANGED <<view, nav>>
      /\ timer' = IF v = view.filters.q THEN None ELSE [filters |-> view.filters, q |-> v]
  BY DEF Type
<1>5. DOMAIN last' = {"q"} /\ last'["q"] = v
  BY <1>4
<1>6. LastGestureSound'
  <2>1. CASE v = view.filters.q
    <3>1. \A k \in DOMAIN last' : view'.filters[k] = last'[k]
      BY <1>4, <1>5, <2>1
    <3> QED
      BY <1>4, <2>1, <3>1 DEF LastGestureSound
  <2>2. CASE v # view.filters.q
    <3>1. timer' # None /\ timer'.q = v
      BY <1>3, <1>4, <2>2
    <3> QED
      BY <1>4, <3>1 DEF LastGestureSound
  <2> QED
    BY <2>1, <2>2
<1>7. BoxSound'
  BY <1>3, <1>4 DEF BoxSound
<1> QED
  BY <1>6, <1>7 DEF BarSound

LEMMA DebounceKeeps ==
    ASSUME TableTyped, BarSound, DebounceEnds
    PROVE  BarSound'
<1> DEFINE f == [timer.filters EXCEPT !.q = timer.q]
<1>1. Navigates(f, 0)
  BY DebounceEffect
<1>2. timer # None /\ timer \in Debounce
  BY DEF DebounceEnds, TableTyped, BarTyped
<1>3. f.q = timer.q
  BY <1>2 DEF Debounce, Filters
<1> HIDE DEF f
<1>4. nav' # None /\ ReadQuery(nav'.query) = f
  BY <1>1, NavigationTyped
<1>5. UNCHANGED <<view, searchInput, last, overtaken>> /\ timer' = None
  BY DEF DebounceEnds
<1>6. LastGestureSound'
  BY <1>2, <1>3, <1>4, <1>5 DEF BarSound, LastGestureSound
<1>7. BoxSound'
  BY <1>2, <1>3, <1>4, <1>5 DEF BarSound, BoxSound
<1> QED
  BY <1>6, <1>7 DEF BarSound

\* A filter or a page is asked for: the box is not right any more only when a
\* search under way is replaced.
LEMMA AskKeeps ==
    ASSUME TableTyped, BarSound, NEW f, NEW page, Navigates(f, page),
           UNCHANGED <<view, searchInput, timer>>,
           overtaken' = (timer # None), discarded' = (discarded \/ SearchPending),
           \A k \in DOMAIN last' : f[k] = last'[k]
    PROVE  BarSound'
<1>1. nav' # None /\ ReadQuery(nav'.query) = f
  BY NavigationTyped
<1>2. LastGestureSound'
  BY <1>1 DEF BarSound, LastGestureSound
<1>3. BoxSound'
  BY <1>1 DEF BarSound, BoxSound, SearchPending
<1> QED
  BY <1>2, <1>3 DEF BarSound

LEMMA UpdateKeeps ==
    ASSUME TableTyped, BarSound, NEW over, Offered(over), UpdateFilters(over)
    PROVE  BarSound'
<1> DEFINE f == Spread(view.filters, over)
<1>1. Navigates(f, 0)
  BY FiltersEffect
<1>2. view.filters \in Filters
  BY DEF TableTyped, BarTyped, View
<1>3. \A k \in DOMAIN over : f[k] = over[k]
  BY <1>2, SpreadIs DEF Offered
<1> HIDE DEF f
<1> QED
  BY <1>1, <1>3, AskKeeps DEF UpdateFilters

LEMMA GoToPageKeeps ==
    ASSUME TableTyped, BarSound, GoToPage
    PROVE  BarSound'
<1>1. PICK page : Navigates(view.filters, page)
  BY PageEffect
<1>2. /\ UNCHANGED <<view, searchInput, timer>> /\ last' = <<>>
      /\ overtaken' = (timer # None) /\ discarded' = (discarded \/ SearchPending)
  BY DEF GoToPage
<1>3. DOMAIN last' = {}
  BY <1>2
<1> QED
  BY <1>1, <1>2, <1>3, AskKeeps

LEMMA RenderKeeps ==
    ASSUME TableTyped, BarSound, nav # None, NEW v, Rendered(ReadQuery(nav.query), v)
    PROVE  BarSound'
<1> DEFINE moved == v.filters.q # view.filters.q
<1>1. /\ view' = v /\ v.filters = ReadQuery(nav.query) /\ nav' = None
      /\ searchInput' = (IF moved THEN v.filters.q ELSE searchInput)
      /\ timer' = (IF searchInput' # searchInput THEN None ELSE timer)
      /\ discarded' = (discarded /\ ~moved)
      /\ UNCHANGED <<last, overtaken>>
  BY DEF Rendered, Render
<1>2. LastGestureSound'
  BY <1>1 DEF BarSound, LastGestureSound
<1>3. BoxSound'
  BY <1>1 DEF BarSound, BoxSound
<1> QED
  BY <1>2, <1>3 DEF BarSound

LEMMA WalksOnKeeps ==
    ASSUME TableTyped, BarSound, WalksOn
    PROVE  BarSound'
<1>1. /\ nav # None /\ nav' # None /\ nav'.query = nav.query
      /\ UNCHANGED <<view, searchInput, timer, last, overtaken, discarded>>
  BY WalksOnIs DEF user
<1> QED
  BY <1>1 DEF BarSound, LastGestureSound, BoxSound

\* Neither an export nor a writer turns what the bar is about into something else.
LEMMA OthersKeep ==
    ASSUME BarSound, UNCHANGED <<view, searchInput, timer, last, overtaken, discarded>>,
           nav = None => nav' = None,
           nav # None => nav' # None /\ nav'.query = nav.query
    PROVE  BarSound'
<1>1. (nav' = None) = (nav = None) /\ (nav # None => nav'.query = nav.query)
  OBVIOUS
<1> QED
  BY <1>1 DEF BarSound, LastGestureSound, BoxSound

LEMMA BarSoundNext ==
    TableTyped /\ BarSound /\ [NextPanels]_<<vars, receipt>> => BarSound'
<1> SUFFICES ASSUME TableTyped, BarSound, [NextPanels]_<<vars, receipt>> PROVE BarSound'
  OBVIOUS
<1>1. CASE BarStep
  <2>1. CASE ChooseFilter \/ ClearFilters
    BY <2>1, ChosenIsOffered, UpdateKeeps
  <2>2. CASE WalkToPage
    <3>1. CASE WalksOn
      BY <3>1, WalksOnKeeps
    <3>2. CASE Arrives
      BY <3>2, RenderKeeps DEF Arrives
    <3> QED
      BY <2>2, <3>1, <3>2, WalkEffect
  <2>3. CASE WalkFails
    BY <2>3, FailEffect, RenderKeeps
  <2> QED
    BY <1>1, <2>1, <2>2, <2>3, TypeKeeps, DebounceKeeps, GoToPageKeeps DEF BarStep
<1>2. CASE ExportStep
  <2>1. UNCHANGED <<bar, last, overtaken, discarded>>
    BY <1>2 DEF ExportStep, ClickExport, ExportRowsToCsv, ExportFails, user
  <2> QED
    BY <2>1, OthersKeep DEF bar
<1>3. CASE WriterStep
  BY <1>3, ChurnEffect, OthersKeep DEF user
<1>4. CASE TableRests
  BY <1>4, OthersKeep DEF TableRests, bar
<1> QED
  BY <1>1, <1>2, <1>3, <1>4, StepIs

LEMMA BarSoundHolds == SpecPanels => []BarSound
BY BarSoundInit, BarSoundNext, TypedHolds, PTL DEF SpecPanels

\* At rest, the last thing the user set is set, and the box shows the filter:
\* whatever was typed, chosen, paged, abandoned or failed, and in which order.
THEOREM RestsAsAskedHolds == SpecPanels => []RestsAsAsked
<1>1. BarSound => RestsAsAsked
  BY DEF BarSound, LastGestureSound, BoxSound, RestsAsAsked, LastGestureKept, BoxShowsFilter, Quiet
<1> QED
  BY <1>1, BarSoundHolds, PTL

-----------------------------------------------------------------------------
(* The export                                                              *)

Excused(r) == SharesMillisecond(r, rows) \/ LastOfDay(r)

Ordered(out) ==
    \A i, j \in DOMAIN out : i < j =>
       \A a, b \in rows : (a.id = out[i] /\ b.id = out[j]) => Newer(a, b)

\* The cursor is that of the file's last row.
EndsAt(out, cursor) ==
    /\ cursor = None => out = <<>>
    /\ cursor # None =>
         \E l \in rows : out # <<>> /\ l.id = out[Len(out)] /\ cursor = EncodeCursor(l)

\* What the file owes is in it, excused, or still to come.
Owed(out, cursor, due) ==
    \A r \in rows : r.id \in due => r.id \in Range(out) \/ Excused(r) \/ After(cursor, r)

\* Between two pages the file is full pages.
ExportRunning ==
    /\ Len(csv.out) = csv.pages * CSV_PAGE_SIZE
    /\ EndsAt(csv.out, csv.cursor)
    /\ Owed(csv.out, csv.cursor, csv.due)

ExportSound ==
    /\ csv # None =>
         /\ csv.due \subseteq RowIds
         /\ \A r \in rows : r.id \in csv.due => Asked(r, csv.filters)
         /\ csv.state = "running" => ExportRunning
    /\ ExportMissesOnly
    /\ ExportNewestFirst

LEMMA AskedStays ==
    ASSUME kind' = kind
    PROVE  \A r, f : Asked(r, f)' <=> Asked(r, f)
BY DEF Asked

LEMMA ClickExportKeeps ==
    ASSUME TableTyped, ClickExport
    PROVE  ExportSound'
<1> DEFINE due == {r.id : r \in {x \in rows : Asked(x, view.filters)}}
<1>1. csv' = [state |-> "running", filters |-> view.filters, pages |-> 0,
              cursor |-> None, out |-> <<>>, capped |-> FALSE, due |-> due]
  BY DEF ClickExport
<1>2. UNCHANGED <<kind, rows>>
  BY DEF ClickExport, db
<1>3. due \subseteq RowIds
  BY DEF RowIds
<1>4. \A r \in rows : r.id \in due => Asked(r, view.filters)
  BY DEF TableTyped, RowsSound, Listable
<1> HIDE DEF due
<1>5. /\ csv'.due = due /\ csv'.filters = view.filters /\ csv'.cursor = None /\ csv'.out = <<>>
      /\ csv'.pages = 0 /\ csv'.state = "running"
  BY <1>1
<1>6. DOMAIN csv'.out = {} /\ Len(csv'.out) = 0
  <2>1. csv'.out = <<>>
    BY <1>5
  <2> QED
    BY ONLY <2>1
<1>7. 0 * CSV_PAGE_SIZE = 0
  BY SizesAssumption
<1>8. ExportRunning'
  BY <1>5, <1>6, <1>7 DEF ExportRunning, EndsAt, Owed, After
<1>10. PICK f : f = view.filters
  OBVIOUS
<1>11. RowIds' = RowIds /\ csv'.filters = f /\ \A r \in rows' : r.id \in csv'.due => Asked(r, f)'
  BY <1>2, <1>4, <1>5, <1>10, AskedStays DEF RowIds
<1>12. ExportMissesOnly' /\ ExportNewestFirst'
  BY <1>5, <1>6 DEF ExportMissesOnly, ExportNewestFirst
<1> QED
  BY <1>3, <1>5, <1>8, <1>11, <1>12 DEF ExportSound, Asked


LEMMA PlaceIs ==
    ASSUME NEW n \in Nat, NEW m \in Nat, NEW i \in 1 .. n + m, i > n
    PROVE  \E x \in 1 .. m : i = n + x
<1>1. i - n \in 1 .. m /\ i = n + (i - n)
  OBVIOUS
<1> QED
  BY <1>1

LEMMA JoinIs ==
    ASSUME NEW S, NEW s \in Seq(S), NEW t \in Seq(S)
    PROVE  LET both == s \o t
           IN  /\ both \in Seq(S) /\ Len(both) = Len(s) + Len(t) /\ DOMAIN both = 1 .. Len(both)
               /\ Len(s) \in Nat /\ Len(t) \in Nat
               /\ \A i \in 1 .. Len(s) : both[i] = s[i]
               /\ \A i \in 1 .. Len(t) : both[Len(s) + i] = t[i]
OBVIOUS

\* One page more: it extends the file in order, up to the next cursor.
LEMMA PageExtends ==
    ASSUME RowsSound, NEW f \in Filters, NEW cursor, NEW out \in Seq(RowIds), NEW due,
           \A r \in rows : r.id \in due => Asked(r, f),
           Ordered(out), EndsAt(out, cursor), Owed(out, cursor, due)
    PROVE  LET page == List(f, cursor, CSV_PAGE_SIZE)
               new == out \o IdsOf(page.rows)
           IN  /\ Ordered(new)
               /\ page.next # None =>
                    Len(new) = Len(out) + CSV_PAGE_SIZE /\ EndsAt(new, page.next) /\ Owed(new, page.next, due)
               /\ page.next = None => \A r \in rows : r.id \in due => r.id \in Range(new) \/ Excused(r)
<1> DEFINE page == List(f, cursor, CSV_PAGE_SIZE)
           M == Matching(f, cursor)
           s == page.rows
           ids == IdsOf(s)
           new == out \o ids
<1>1. M \subseteq rows /\ \A r \in M : After(cursor, r)
  BY DEF Matching
<1>2. \A r \in rows : r.id \in due /\ ~LastOfDay(r) /\ After(cursor, r) => r \in M
  BY MatchesIsAsked DEF Matching
<1>3. CSV_PAGE_SIZE \in Nat \ {0}
  BY SizesAssumption
<1>4. /\ ids \in Seq(RowIds) /\ Len(ids) = Len(s)
      /\ \A i \in 1 .. Len(s) : ids[i] = s[i].id
  BY <1>3, ResultIs
<1>5. page = Paged(M, CSV_PAGE_SIZE)
  BY ListIs
<1> HIDE DEF M, page
<1>6. Listable(M)
  BY <1>1, SubsetListable
<1>7. IsPageOf(page, M, CSV_PAGE_SIZE)
  BY <1>3, <1>5, <1>6, PagedFacts
<1> HIDE DEF ids
<1>8. /\ Len(new) = Len(out) + Len(s) /\ DOMAIN new = 1 .. Len(new)
      /\ Len(out) \in Nat /\ Len(s) \in Nat
      /\ \A i \in 1 .. Len(out) : new[i] = out[i]
      /\ \A i \in 1 .. Len(s) : new[Len(out) + i] = s[i].id
  <2>1. /\ Len(new) = Len(out) + Len(ids) /\ DOMAIN new = 1 .. Len(new)
        /\ Len(out) \in Nat /\ Len(ids) \in Nat
        /\ \A i \in 1 .. Len(out) : new[i] = out[i]
        /\ \A i \in 1 .. Len(ids) : new[Len(out) + i] = ids[i]
    <3>1. ids \in Seq(RowIds) /\ out \in Seq(RowIds)
      BY <1>4
    <3> QED
      BY ONLY <3>1, JoinIs
  <2> HIDE DEF new, s
  <2> QED
    BY <1>4, <2>1
<1>9. \A i \in 1 .. Len(s) : s[i] \in rows /\ After(cursor, s[i])
  BY <1>1, <1>7 DEF IsPageOf
<1> HIDE DEF s
<1>10. \A a, b \in rows : (a.id = b.id => a = b) /\ a.id \in Nat /\ a.at \in Nat
  BY DEF RowsSound, Listable
<1>11. Listable(rows)
  BY DEF RowsSound
<1>12. Ordered(new)
  <2> SUFFICES ASSUME NEW i \in 1 .. Len(new), NEW j \in 1 .. Len(new), i < j,
                      NEW a \in rows, NEW b \in rows, a.id = new[i], b.id = new[j]
               PROVE  Newer(a, b)
    BY <1>8 DEF Ordered
  <2> HIDE DEF new
  <2>1. CASE j <= Len(out)
    <3>1. i \in DOMAIN out /\ j \in DOMAIN out /\ a.id = out[i] /\ b.id = out[j]
      BY <1>8, <2>1
    <3> QED
      BY <3>1 DEF Ordered
  <2>2. CASE i > Len(out)
    <3>1. PICK x \in 1 .. Len(s), y \in 1 .. Len(s) : i = Len(out) + x /\ j = Len(out) + y
      <4>1. PICK n \in Nat, m \in Nat : n = Len(out) /\ m = Len(s)
        BY <1>8
      <4>2. i \in 1 .. n + m /\ j \in 1 .. n + m /\ i > n /\ j > n
        BY <1>8, <2>2, <4>1
      <4> QED
        BY <4>1, <4>2, PlaceIs
    <3>2. a.id = s[x].id /\ b.id = s[y].id
      BY <1>8, <3>1
    <3>3. a = s[x] /\ b = s[y]
      BY <1>9, <1>10, <3>2
    <3>4. x < y
      BY <1>8, <3>1
    <3> QED
      BY <1>7, <3>3, <3>4 DEF IsPageOf, s
  <2>3. CASE i <= Len(out) /\ j > Len(out)
    <3>1. PICK y \in 1 .. Len(s) : j = Len(out) + y
      <4>1. PICK n \in Nat, m \in Nat : n = Len(out) /\ m = Len(s)
        BY <1>8
      <4>2. j \in 1 .. n + m /\ j > n
        BY <1>8, <2>3, <4>1
      <4> QED
        BY <4>1, <4>2, PlaceIs
    <3>2. b = s[y] /\ After(cursor, b)
      BY <1>8, <1>9, <1>10, <3>1
    <3>3. Len(out) # 0 /\ out # <<>> /\ a.id = out[i] /\ i \in DOMAIN out /\ Len(out) \in DOMAIN out
      BY <1>8, <2>3
    <3>4. PICK l \in rows : l.id = out[Len(out)] /\ cursor = EncodeCursor(l)
      BY <3>3 DEF EndsAt
    <3>5. Newer(l, b)
      BY <1>10, <3>2, <3>4, AfterIs
    <3>6. CASE i = Len(out)
      BY <1>10, <3>3, <3>4, <3>5, <3>6
    <3>7. CASE i < Len(out)
      <4>1. Newer(a, l)
        BY <3>3, <3>4, <3>7 DEF Ordered
      <4> QED
        BY <1>11, <3>5, <4>1, NewerIsOrder
    <3> QED
      BY <1>8, <2>3, <3>6, <3>7
  <2> QED
    BY <1>8, <2>1, <2>2, <2>3
<1>13. /\ \A x \in Range(out) : x \in Range(new)
       /\ \A i \in 1 .. Len(s) : s[i].id \in Range(new)
  <2>1. \A i \in 1 .. Len(out) : i \in DOMAIN new
    BY <1>8
  <2>2. \A i \in 1 .. Len(s) : Len(out) + i \in DOMAIN new
    BY <1>8
  <2> HIDE DEF new
  <2>3. DOMAIN out = 1 .. Len(out)
    OBVIOUS
  <2> QED
    BY <1>8, <2>1, <2>2, <2>3 DEF Range
<1> HIDE DEF new
<1>14. ASSUME NEW r \in rows, r.id \in due, r.id \notin Range(new), ~Excused(r)
       PROVE  r \in M /\ \A i \in 1 .. Len(s) : s[i] # r
  <2>1. After(cursor, r) /\ ~LastOfDay(r)
    BY <1>13, <1>14 DEF Owed, Excused
  <2> QED
    BY <1>2, <1>13, <1>14, <2>1
<1>15. page.next = None => \A r \in rows : r.id \in due => r.id \in Range(new) \/ Excused(r)
  BY <1>7, <1>14 DEF IsPageOf, s
<1>16. ASSUME page.next # None
       PROVE  Len(new) = Len(out) + CSV_PAGE_SIZE /\ EndsAt(new, page.next) /\ Owed(new, page.next, due)
  <2> DEFINE l == s[CSV_PAGE_SIZE]
  <2>1. Len(s) = CSV_PAGE_SIZE /\ page.next = EncodeCursor(l)
    BY <1>7, <1>16 DEF IsPageOf, s
  <2>2. l \in rows /\ new[Len(new)] = l.id /\ Len(new) = Len(out) + CSV_PAGE_SIZE /\ Len(new) # 0
    BY <1>3, <1>8, <1>9, <2>1
  <2>3. new # <<>>
    BY <2>2
  <2>4. EndsAt(new, page.next)
    BY <1>16, <2>1, <2>2, <2>3 DEF EndsAt
  <2>5. ASSUME NEW r \in rows, r.id \in due, r.id \notin Range(new), ~Excused(r)
        PROVE  After(page.next, r)
    <3>1. r # l /\ Newer(l, r)
      <4>1. r \in M /\ r # l /\ ~\E i \in 1 .. CSV_PAGE_SIZE : s[i] = r
        BY <1>3, <1>14, <2>1, <2>5
      <4> QED
        BY <1>7, <1>16, <4>1 DEF IsPageOf, s
    <3>2. Floor(l.at) # Floor(r.at)
      BY <2>2, <2>5, <3>1 DEF Excused, SharesMillisecond
    <3> QED
      BY <1>10, <2>1, <2>2, <3>1, <3>2, AfterIs
  <2> HIDE DEF l
  <2>6. Owed(new, page.next, due)
    BY <2>5 DEF Owed
  <2> QED
    BY <2>2, <2>4, <2>6
<1> QED
  BY <1>12, <1>15, <1>16 DEF new, ids, s, page

LEMMA ExportRowsKeeps ==
    ASSUME TableTyped, ExportSound, ExportRowsToCsv
    PROVE  ExportSound'
<1> DEFINE page == List(csv.filters, csv.cursor, CSV_PAGE_SIZE)
           new == csv.out \o IdsOf(page.rows)
<1>1. /\ csv # None /\ csv \in Export /\ csv.state = "running" /\ csv' # None
      /\ csv'.out = new /\ csv'.pages = csv.pages + 1
      /\ csv'.cursor = page.next /\ csv'.due = csv.due /\ csv'.filters = csv.filters
      /\ csv'.capped = (page.next # None /\ csv.pages + 1 = CSV_MAX_PAGES)
      /\ csv'.state = IF page.next # None /\ csv.pages + 1 # CSV_MAX_PAGES THEN "running" ELSE "done"
      /\ UNCHANGED <<kind, rows>>
  BY ExportPageIs
<1>2. csv.filters \in Filters /\ csv.out \in Seq(RowIds) /\ csv.pages \in Nat /\ RowsSound
  BY <1>1 DEF TableTyped, ExportTyped, Export
<1>3. /\ csv.due \subseteq RowIds /\ \A r \in rows : r.id \in csv.due => Asked(r, csv.filters)
      /\ Len(csv.out) = csv.pages * CSV_PAGE_SIZE
      /\ EndsAt(csv.out, csv.cursor) /\ Owed(csv.out, csv.cursor, csv.due)
      /\ Ordered(csv.out)
  BY <1>1 DEF ExportSound, ExportRunning, ExportNewestFirst, Ordered
<1>4. /\ Ordered(new)
      /\ page.next # None =>
           Len(new) = Len(csv.out) + CSV_PAGE_SIZE /\ EndsAt(new, page.next) /\ Owed(new, page.next, csv.due)
      /\ page.next = None => \A r \in rows : r.id \in csv.due => r.id \in Range(new) \/ Excused(r)
  BY <1>2, <1>3, PageExtends
<1> HIDE DEF new, page
<1>5. PICK o, c, d, f : o = csv'.out /\ c = csv'.cursor /\ d = csv'.due /\ f = csv'.filters
  OBVIOUS
<1>6. page.next # None => Len(new) = (csv.pages + 1) * CSV_PAGE_SIZE
  <2>1. CSV_PAGE_SIZE \in Nat
    BY SizesAssumption
  <2>2. (csv.pages + 1) * CSV_PAGE_SIZE = csv.pages * CSV_PAGE_SIZE + CSV_PAGE_SIZE
    BY <1>2, <2>1
  <2> QED
    BY <1>3, <1>4, <2>2
<1>7. /\ Ordered(o)' /\ (page.next # None => EndsAt(o, c)' /\ Owed(o, c, d)')
  BY <1>1, <1>4, <1>5 DEF Ordered, EndsAt, Owed, Excused, SharesMillisecond
<1>8. csv'.state = "running" => ExportRunning'
  BY <1>1, <1>5, <1>6, <1>7 DEF ExportRunning
<1>9. ExportNewestFirst'
  BY <1>5, <1>7 DEF ExportNewestFirst, Ordered
<1>10. RowIds' = RowIds /\ csv'.due \subseteq RowIds /\ \A r \in rows' : r.id \in csv'.due => Asked(r, f)'
  BY <1>1, <1>3, <1>5, AskedStays DEF RowIds
<1>11. ExportMissesOnly'
  <2>1. CASE page.next = None
    BY <1>1, <1>4, <2>1 DEF ExportMissesOnly, Excused, SharesMillisecond
  <2>2. CASE page.next # None
    <3>1. csv'.state = "done" => csv'.capped /\ Len(csv'.out) = CSV_MAX_PAGES * CSV_PAGE_SIZE
      BY <1>1, <1>6, <2>2
    <3> QED
      BY <3>1 DEF ExportMissesOnly
  <2> QED
    BY <2>1, <2>2
<1> QED
  BY <1>5, <1>8, <1>9, <1>10, <1>11 DEF ExportSound, Asked

\* Writers: a row that is in the file, excused or still to come stays so.
LEMMA ChurnKeepsExport ==
    ASSUME TableTyped, ExportSound, WriterStep
    PROVE  ExportSound'
<1>1. RowsSound /\ RowsSound' /\ KeysKept /\ RowIds \subseteq RowIds' /\ kind' = kind
  BY ChurnIs, ChurnEffect, IdsKept DEF TableTyped
<1>2. CASE csv = None
  BY <1>2, ChurnEffect DEF ExportSound, ExportMissesOnly, ExportNewestFirst
<1>3. CASE csv # None
  <2>1. /\ csv' # None
        /\ csv'.state = csv.state /\ csv'.filters = csv.filters /\ csv'.pages = csv.pages
        /\ csv'.cursor = csv.cursor /\ csv'.out = csv.out /\ csv'.capped = csv.capped
        /\ csv'.due = {r.id : r \in {x \in rows' : x.id \in csv.due /\ Asked(x, csv.filters)}}
    BY <1>3, ChurnEffect
  <2>2. csv.out \in Seq(RowIds) /\ csv.due \subseteq RowIds
    BY <1>3 DEF TableTyped, ExportTyped, ExportSound
  <2>3. PICK o, c, d, e, f : o = csv.out /\ c = csv.cursor /\ d = csv.due /\ e = csv'.due /\ f = csv.filters
    OBVIOUS
  <2>4. \A x \in rows' : x.id \in RowIds => \E r \in rows : r.id = x.id /\ r.at = x.at
    BY <1>1 DEF KeysKept
  <2>5. \A r \in rows : Excused(r) => \A x \in rows' : x.id = r.id /\ x.at = r.at => Excused(x)'
    <3> SUFFICES ASSUME NEW r \in rows, NEW x \in rows', x.id = r.id, x.at = r.at, Excused(r)
                 PROVE  Excused(x)'
      OBVIOUS
    <3>1. CASE LastOfDay(r)
      BY <3>1 DEF Excused, LastOfDay
    <3>2. CASE SharesMillisecond(r, rows)
      <4>1. PICK s \in rows : s # r /\ Floor(s.at) = Floor(r.at)
        BY <3>2 DEF SharesMillisecond
      <4>2. PICK y \in rows' : y.id = s.id /\ y.at = s.at
        BY <1>1 DEF KeysKept
      <4>3. y # x
        BY <1>1, <4>1, <4>2 DEF RowsSound, Listable
      <4> QED
        BY <4>1, <4>2, <4>3 DEF Excused, SharesMillisecond
    <3> QED
      BY <3>1, <3>2 DEF Excused
  <2>6. Ordered(o) => Ordered(o)'
    <3> SUFFICES ASSUME Ordered(o), NEW i \in DOMAIN o, NEW j \in DOMAIN o, i < j,
                        NEW a \in rows', NEW b \in rows', a.id = o[i], b.id = o[j]
                 PROVE  Newer(a, b)
      BY DEF Ordered
    <3>1. a.id \in RowIds /\ b.id \in RowIds
      BY <2>2, <2>3
    <3>2. PICK p \in rows, q \in rows : p.id = a.id /\ p.at = a.at /\ q.id = b.id /\ q.at = b.at
      BY <2>4, <3>1
    <3> QED
      BY <3>2 DEF Ordered, Newer
  <2>7. EndsAt(o, c) => EndsAt(o, c)'
    BY <1>1 DEF EndsAt, KeysKept, EncodeCursor
  <2>8. \A x \in rows' : x.id \in e => x.id \in d /\ Asked(x, f)
    BY <1>1, <2>1, <2>3 DEF RowsSound, Listable
  <2>9. Owed(o, c, d) => Owed(o, c, e)'
    <3> SUFFICES ASSUME Owed(o, c, d), NEW x \in rows', x.id \in e, x.id \notin Range(o), ~Excused(x)'
                 PROVE  After(c, x)
      BY DEF Owed
    <3>1. PICK r \in rows : r.id = x.id /\ r.at = x.at
      BY <2>2, <2>3, <2>4, <2>8
    <3>2. After(c, r)
      BY <2>5, <2>8, <3>1 DEF Owed
    <3> QED
      BY <3>1, <3>2 DEF After
  <2>10. csv'.state = "running" => ExportRunning'
    BY <1>3, <2>1, <2>3, <2>7, <2>9 DEF ExportSound, ExportRunning
  <2>11. ExportNewestFirst'
    BY <1>3, <2>1, <2>3, <2>6 DEF ExportSound, ExportNewestFirst, Ordered
  <2>12. csv'.due \subseteq RowIds'
    BY <2>1 DEF RowIds
  <2>13. \A r \in rows' : r.id \in csv'.due => Asked(r, f)'
    BY <1>1, <2>3, <2>8, AskedStays
  <2>14. ExportMissesOnly'
    <3> SUFFICES ASSUME csv.state = "done", NEW x \in rows', x.id \in e, x.id \notin Range(o),
                        ~Excused(x)'
                 PROVE  csv.capped /\ Len(o) = CSV_MAX_PAGES * CSV_PAGE_SIZE
      BY <2>1, <2>3 DEF ExportMissesOnly, Excused
    <3>1. PICK r \in rows : r.id = x.id /\ r.at = x.at
      BY <2>2, <2>3, <2>4, <2>8
    <3>2. r.id \in csv.due /\ r.id \notin Range(csv.out) /\ ~Excused(r)
      BY <2>3, <2>5, <2>8, <3>1
    <3> QED
      BY <1>3, <2>3, <3>2 DEF ExportSound, ExportMissesOnly, Excused
  <2> QED
    BY <2>1, <2>3, <2>10, <2>11, <2>12, <2>13, <2>14 DEF ExportSound, Asked
<1> QED
  BY <1>2, <1>3

LEMMA ExportStays ==
    ASSUME ExportSound, UNCHANGED <<kind, rows, csv>>
    PROVE  ExportSound'
<1>1. ExportRunning => ExportRunning'
  BY DEF ExportRunning, EndsAt, Owed, Excused, SharesMillisecond
<1>2. ExportMissesOnly' /\ ExportNewestFirst'
  BY DEF ExportSound, ExportMissesOnly, ExportNewestFirst, SharesMillisecond
<1>3. RowIds' = RowIds /\ (csv # None => \A r \in rows : Asked(r, csv.filters) => Asked(r, csv.filters)')
  BY DEF RowIds, Asked
<1> QED
  BY <1>1, <1>2, <1>3 DEF ExportSound

LEMMA ExportSoundInit == InitPanels => ExportSound
BY DEF InitPanels, Init, ExportSound, ExportMissesOnly, ExportNewestFirst

LEMMA ExportSoundNext ==
    TableTyped /\ ExportSound /\ [NextPanels]_<<vars, receipt>> => ExportSound'
<1> SUFFICES ASSUME TableTyped, ExportSound, [NextPanels]_<<vars, receipt>> PROVE ExportSound'
  OBVIOUS
<1>1. CASE BarStep
  BY <1>1, BarStepRests, ExportStays
<1>2. CASE ExportStep
  <2>1. CASE ExportFails
    BY <2>1 DEF ExportFails, ExportSound, ExportMissesOnly, ExportNewestFirst
  <2> QED
    BY <1>2, <2>1, ClickExportKeeps, ExportRowsKeeps DEF ExportStep
<1>3. CASE WriterStep
  BY <1>3, ChurnKeepsExport
<1>4. CASE TableRests
  BY <1>4, ExportStays DEF TableRests
<1> QED
  BY <1>1, <1>2, <1>3, <1>4, StepIs

LEMMA ExportSoundHolds == SpecPanels => []ExportSound
BY ExportSoundInit, ExportSoundNext, TypedHolds, PTL DEF SpecPanels

\* A file holds what it owes, newest first and nothing twice, whatever is inserted
\* and changed between two of its pages.
THEOREM ExportFaithfulHolds == SpecPanels => []ExportFaithful
<1>1. ExportSound => ExportFaithful
  BY DEF ExportSound, ExportFaithful
<1> QED
  BY <1>1, ExportSoundHolds, PTL

-----------------------------------------------------------------------------
(* The walk to a page                                                      *)

AskedRows(f) == {r \in rows : Asked(r, f)}
\* What a cursor and a date can tell apart.
Plain(S) == \A r \in S : ~SharesMillisecond(r, S) /\ ~LastOfDay(r)

\* The cursor stands after the first k rows of S.
StandsAt(cursor, S, k) ==
    \/ k = 0 /\ cursor = None
    \/ k \in 1 .. Cardinality(S) - 1 /\ cursor = EncodeCursor(NewestFirst(S)[k])

\* What a walk has left to find is the rest of the list, and its next page is the
\* next slice of it.
LEMMA RestIs ==
    ASSUME RowsSound, NEW f \in Filters, Plain(AskedRows(f)), NEW cursor, NEW k \in Nat,
           StandsAt(cursor, AskedRows(f), k)
    PROVE  LET s == NewestFirst(AskedRows(f))
               n == Cardinality(AskedRows(f))
               M == Matching(f, cursor)
           IN  /\ k <= n /\ Cardinality(M) = n - k /\ Len(NewestFirst(M)) = n - k
               /\ \A j \in 1 .. n - k : NewestFirst(M)[j] = s[k + j]
<1> DEFINE S == AskedRows(f)
           s == NewestFirst(S)
           n == Cardinality(S)
           M == Matching(f, cursor)
           t == [j \in 1 .. n - k |-> s[k + j]]
<1>1. S \subseteq rows /\ M \subseteq rows
  BY DEF AskedRows, Matching
<1>2. \A r \in rows : r \in M <=> r \in S /\ After(cursor, r)
  BY MatchesIsAsked DEF AskedRows, Matching, Plain
<1>3. \A r \in S : ~SharesMillisecond(r, S)
  BY DEF Plain
<1>4. StandsAt(cursor, S, k)
  OBVIOUS
<1> HIDE DEF S, M
<1>5. Listable(S) /\ Listable(M)
  BY <1>1, SubsetListable
<1>6. /\ n \in Nat /\ s \in Seq(S) /\ Len(s) = n
      /\ \A i, j \in 1 .. n : i < j => Newer(s[i], s[j])
      /\ \A r \in S : \E i \in 1 .. n : s[i] = r
  BY <1>5, NewestFirstIs
<1> HIDE DEF s, n
<1>7. k <= n /\ n - k \in Nat
  BY <1>4, <1>6 DEF StandsAt, n
<1>8. \A i \in 1 .. n : s[i] \in S
  BY <1>6
<1>9. \A i, j \in 1 .. n : Newer(s[i], s[j]) => i < j
  <2> SUFFICES ASSUME NEW i \in 1 .. n, NEW j \in 1 .. n, Newer(s[i], s[j]), ~(i < j) PROVE FALSE
    OBVIOUS
  <2>1. i = j \/ j < i
    BY <1>6
  <2> QED
    BY <1>5, <1>6, <1>8, <2>1, NewerIsOrder
<1>10. \A j \in 1 .. n : After(cursor, s[j]) <=> j > k
  <2>1. CASE k = 0 /\ cursor = None
    BY <1>6, <2>1 DEF After
  <2>2. CASE k \in 1 .. n - 1 /\ cursor = EncodeCursor(s[k])
    <3> SUFFICES ASSUME NEW j \in 1 .. n PROVE After(cursor, s[j]) <=> j > k
      OBVIOUS
    <3>1. k \in 1 .. n /\ s[k] \in S /\ s[j] \in S
      BY <1>6, <1>8, <2>2
    <3>2. s[k].at \in Nat /\ s[k].id \in Nat /\ s[j].at \in Nat /\ s[j].id \in Nat
      BY <1>5, <3>1 DEF Listable
    <3>3. After(cursor, s[j]) => Newer(s[k], s[j])
      BY <2>2, <3>2, AfterIs
    <3>4. After(cursor, s[j]) => j > k
      BY <1>6, <1>9, <3>1, <3>3
    <3>5. ASSUME j > k
          PROVE  After(cursor, s[j])
      <4>1. Newer(s[k], s[j])
        BY <1>6, <3>1, <3>5
      <4>2. s[k] # s[j]
        BY <1>5, <3>1, <4>1, NewerIsOrder
      <4>3. Floor(s[k].at) # Floor(s[j].at)
        BY <1>3, <3>1, <4>2 DEF SharesMillisecond
      <4> QED
        BY <2>2, <3>2, <4>1, <4>3, AfterIs
    <3> QED
      BY <3>4, <3>5
  <2> QED
    BY <1>4, <2>1, <2>2 DEF StandsAt, s, n
<1>11. \A j \in 1 .. n - k : k + j \in 1 .. n /\ k + j > k
  BY <1>6, <1>7
<1>12. t \in [1 .. n - k -> M]
  BY <1>1, <1>2, <1>8, <1>10, <1>11
<1>13. \A i, j \in 1 .. n - k : i < j => Newer(t[i], t[j])
  <2> SUFFICES ASSUME NEW i \in 1 .. n - k, NEW j \in 1 .. n - k, i < j PROVE Newer(t[i], t[j])
    OBVIOUS
  <2>1. k + i < k + j /\ t[i] = s[k + i] /\ t[j] = s[k + j]
    BY <1>6, <1>7
  <2> QED
    BY <1>6, <1>11, <2>1
<1>14. \A r \in M : \E j \in 1 .. n - k : t[j] = r
  <2> SUFFICES ASSUME NEW r \in M PROVE \E j \in 1 .. n - k : t[j] = r
    OBVIOUS
  <2>1. r \in S /\ After(cursor, r)
    BY <1>1, <1>2
  <2>2. PICK i \in 1 .. n : s[i] = r
    BY <1>6, <2>1
  <2>3. i > k
    BY <1>10, <2>1, <2>2
  <2>4. i - k \in 1 .. n - k /\ k + (i - k) = i
    BY <1>6, <1>7, <2>3
  <2> QED
    BY <2>2, <2>4
<1> HIDE DEF t
<1>15. n - k = Cardinality(M) /\ t = NewestFirst(M)
  BY <1>5, <1>7, <1>12, <1>13, <1>14, NewestFirstIsOnly
<1>16. Len(NewestFirst(M)) = Cardinality(M)
  BY <1>5, NewestFirstIs
<1> QED
  BY <1>7, <1>15, <1>16 DEF t, s, n, S, M

\* One query of the walk: the slice that begins after k rows.
LEMMA SliceIs ==
    ASSUME RowsSound, NEW f \in Filters, Plain(AskedRows(f)), NEW cursor, NEW k \in Nat,
           StandsAt(cursor, AskedRows(f), k)
    PROVE  LET s == NewestFirst(AskedRows(f))
               n == Cardinality(AskedRows(f))
               page == List(f, cursor, PAGE_SIZE)
           IN  /\ n \in Nat /\ k <= n /\ Len(s) = n
               /\ Len(page.rows) = IF n < k + PAGE_SIZE THEN n - k ELSE PAGE_SIZE
               /\ \A j \in 1 .. Len(page.rows) : k + j \in 1 .. n /\ page.rows[j] = s[k + j]
               /\ page.next # None <=> n > k + PAGE_SIZE
               /\ page.next # None => page.next = EncodeCursor(s[k + PAGE_SIZE])
<1> DEFINE S == AskedRows(f)
           s == NewestFirst(S)
           n == Cardinality(S)
           M == Matching(f, cursor)
           u == NewestFirst(M)
           page == List(f, cursor, PAGE_SIZE)
<1>1. S \subseteq rows /\ M \subseteq rows
  BY DEF AskedRows, Matching
<1>2. page = Paged(M, PAGE_SIZE) /\ PAGE_SIZE \in Nat \ {0}
  BY ListIs, SizesAssumption
<1>3. /\ k <= n /\ Cardinality(M) = n - k
      /\ \A j \in 1 .. n - k : u[j] = s[k + j]
  BY RestIs
<1> HIDE DEF S, M, page
<1>4. Listable(S) /\ Listable(M)
  BY <1>1, SubsetListable
<1>5. n \in Nat /\ s \in Seq(S) /\ Len(s) = n
  BY <1>4, NewestFirstIs
<1>6. /\ Len(page.rows) = IF Cardinality(M) < PAGE_SIZE THEN Cardinality(M) ELSE PAGE_SIZE
      /\ \A i \in 1 .. Len(page.rows) : page.rows[i] = u[i]
      /\ page.next = IF Cardinality(M) > PAGE_SIZE THEN EncodeCursor(u[PAGE_SIZE]) ELSE None
      /\ u \in Seq(M) /\ Len(u) = Cardinality(M)
  BY <1>2, <1>4, PagedIs
<1>7. ASSUME Cardinality(M) > PAGE_SIZE
      PROVE  page.next # None
  <2>1. u[PAGE_SIZE] \in M
    BY <1>2, <1>6, <1>7
  <2> QED
    BY <1>4, <1>6, <1>7, <2>1, CursorIs DEF Listable
<1> HIDE DEF s, u, n
<1>8. PICK m \in Nat : m = Cardinality(M) /\ m = n - k
  BY <1>3, <1>5
<1>9. Len(page.rows) = (IF n < k + PAGE_SIZE THEN n - k ELSE PAGE_SIZE) /\ Len(page.rows) <= n - k
  BY <1>2, <1>5, <1>6, <1>8
<1>10. \A j \in 1 .. Len(page.rows) : k + j \in 1 .. n /\ page.rows[j] = s[k + j]
  BY <1>2, <1>3, <1>5, <1>6, <1>9
<1>11. page.next # None <=> n > k + PAGE_SIZE
  BY <1>2, <1>5, <1>6, <1>7, <1>8
<1>12. page.next # None => page.next = EncodeCursor(s[k + PAGE_SIZE])
  <2> SUFFICES ASSUME page.next # None PROVE page.next = EncodeCursor(s[k + PAGE_SIZE])
    OBVIOUS
  <2>1. n > k + PAGE_SIZE
    BY <1>11
  <2>2. PAGE_SIZE \in 1 .. n - k
    BY <1>2, <1>5, <2>1
  <2> QED
    BY <1>3, <1>6, <2>2
<1> QED
  BY <1>3, <1>5, <1>9, <1>10, <1>11, <1>12 DEF s, n, S, page

\* A walk nothing has overtaken has skipped whole pages of what it was asked for.
WalkSound ==
    (nav # None /\ nav.fresh /\ Plain(AskedRows(ReadQuery(nav.query)))) =>
       StandsAt(nav.cursor, AskedRows(ReadQuery(nav.query)), nav.i * PAGE_SIZE)

LEMMA WalkSoundNext ==
    TableTyped /\ WalkSound /\ [NextPanels]_<<vars, receipt>> => WalkSound'
<1> SUFFICES ASSUME TableTyped, WalkSound, [NextPanels]_<<vars, receipt>> PROVE WalkSound'
  OBVIOUS
<1>1. ASSUME UNCHANGED <<kind, rows, nav>>
      PROVE  WalkSound'
  <2>1. PICK g, S : nav # None => g = ReadQuery(nav.query) /\ S = AskedRows(g)
    OBVIOUS
  <2>2. nav # None => ReadQuery(nav'.query) = g /\ AskedRows(ReadQuery(nav.query))' = S
    BY <1>1, <2>1 DEF AskedRows, Asked
  <2> QED
    BY <1>1, <2>1, <2>2 DEF WalkSound
<1>2. ASSUME UNCHANGED <<kind, rows>>, NEW f, NEW page, Navigates(f, page)
      PROVE  WalkSound'
  <2>1. nav'.i = 0 /\ nav'.cursor = None
    BY <1>2, NavigationTyped
  <2>2. 0 * PAGE_SIZE = 0
    BY SizesAssumption
  <2> QED
    BY <2>1, <2>2 DEF WalkSound, StandsAt
<1>3. CASE BarStep
  <2>1. UNCHANGED <<kind, rows>>
    BY <1>3, BarStepRests
  <2>2. CASE \E v \in Values.q : Type(v)
    BY <1>1, <2>1, <2>2 DEF Type
  <2>3. CASE DebounceEnds \/ ChooseFilter \/ ClearFilters \/ GoToPage
    BY <1>2, <2>1, <2>3, DebounceEffect, ChosenIsOffered, FiltersEffect, PageEffect
  <2>4. CASE WalksOn
    <3> DEFINE f == ReadQuery(nav.query)
               S == AskedRows(f)
               k == nav.i * PAGE_SIZE
               next == List(f, nav.cursor, PAGE_SIZE).next
    <3>1. /\ nav # None /\ nav.i \in Nat /\ f \in Filters /\ PAGE_SIZE \in Nat /\ next # None
          /\ nav'.query = nav.query /\ nav'.i = nav.i + 1 /\ nav'.cursor = next /\ nav'.fresh = nav.fresh
      BY <2>4, WalksOnIs, SizesAssumption, NoneAssumption DEF TableTyped, BarTyped, Navigation
    <3>2. PICK g : g = f
      OBVIOUS
    <3>3. ReadQuery(nav'.query) = g /\ AskedRows(g)' = AskedRows(g)
          /\ Plain(AskedRows(g)') = Plain(AskedRows(g))
      BY <2>1, <3>1, <3>2 DEF AskedRows, Asked
    <3>4. ASSUME nav.fresh, Plain(S)
          PROVE  StandsAt(next, S, (nav.i + 1) * PAGE_SIZE)
      <4>1. k \in Nat /\ StandsAt(nav.cursor, S, k)
        BY <3>1, <3>4 DEF WalkSound
      <4> HIDE DEF f, k, next
      <4>2. /\ Cardinality(S) > k + PAGE_SIZE /\ Cardinality(S) \in Nat
            /\ next = EncodeCursor(NewestFirst(S)[k + PAGE_SIZE])
        BY <3>1, <3>4, <4>1, SliceIs DEF TableTyped, next
      <4>3. (nav.i + 1) * PAGE_SIZE = k + PAGE_SIZE
        BY <3>1 DEF k
      <4>4. k + PAGE_SIZE \in 1 .. Cardinality(S) - 1
        BY <3>1, <4>1, <4>2, SizesAssumption
      <4> QED
        BY <4>2, <4>3, <4>4 DEF StandsAt
    <3> HIDE DEF next
    <3> QED
      BY <3>1, <3>2, <3>3, <3>4 DEF WalkSound
  <2>5. CASE \E f, v : Rendered(f, v)
    BY <2>5 DEF Rendered, Render, WalkSound
  <2> QED
    BY <1>3, <2>2, <2>3, <2>4, <2>5, WalkEffect, FailEffect DEF BarStep, Arrives
<1>4. CASE ExportStep
  BY <1>1, <1>4 DEF ExportStep, ClickExport, ExportRowsToCsv, ExportFails, bar, db
<1>5. CASE WriterStep
  BY <1>5, ChurnEffect DEF WalkSound
<1>6. CASE TableRests
  BY <1>1, <1>6 DEF TableRests, bar
<1> QED
  BY <1>3, <1>4, <1>5, <1>6, StepIs

LEMMA WalkSoundHolds == SpecPanels => []WalkSound
<1>1. InitPanels => WalkSound
  BY DEF InitPanels, Init, WalkSound
<1> QED
  BY <1>1, WalkSoundNext, TypedHolds, PTL DEF SpecPanels

\* The last page of n rows, and when page i is it.
LEMMA LastPageIs ==
    ASSUME NEW L \in Nat \ {0}, NEW n \in Nat \ {0}, NEW i \in Nat
    PROVE  LET final == (n - 1) \div L
           IN  /\ final \in Nat
               /\ i * L < n => i <= final
               /\ n <= i * L + L => final <= i
<1> DEFINE final == (n - 1) \div L
<1>1. final \in Nat /\ L * final <= n - 1 /\ n - 1 < L * final + L
  <2>1. n - 1 \in Nat
    OBVIOUS
  <2> QED
    BY <2>1
<1> HIDE DEF final
<1>2. /\ final < i => L * (final + 1) <= L * i
      /\ i < final => L * (i + 1) <= L * final
  BY <1>1
<1>3. L * (final + 1) = L * final + L /\ L * (i + 1) = L * i + L /\ i * L = L * i
  BY <1>1
<1>4. PICK x \in Nat, y \in Nat : x = L * final /\ y = L * i
  BY <1>1
<1>5. /\ x <= n - 1 /\ n - 1 < x + L /\ i * L = y
      /\ final < i => x + L <= y
      /\ i < final => y + L <= x
  BY <1>1, <1>2, <1>3, <1>4
<1>6. (i * L < n => i <= final) /\ (n <= i * L + L => final <= i)
  BY <1>1, <1>5
<1> QED
  BY <1>1, <1>6 DEF final

LEMMA CutIs ==
    ASSUME NEW S, NEW s \in Seq(S), NEW k \in Nat, NEW m \in Nat, k + m <= Len(s)
    PROVE  LET t == SubSeq(s, k + 1, k + m)
           IN  t \in Seq(S) /\ Len(t) = m /\ \A j \in 1 .. m : t[j] = s[k + j]
<1>1. k + 1 \in 1 .. Len(s) + 1 /\ k + m \in k .. Len(s)
  OBVIOUS
<1>2. PICK a, b : a = k + 1 /\ b = k + m
  OBVIOUS
<1>3. SubSeq(s, a, b) \in Seq(S) /\ Len(SubSeq(s, a, b)) = (IF a <= b THEN b - a + 1 ELSE 0)
  BY <1>1, <1>2, SubSeqProperties
<1>4. \A j \in 1 .. m : SubSeq(s, a, b)[j] = s[a + j - 1] /\ a + j - 1 = k + j
  BY <1>1, <1>2, SubSeqProperties
<1> QED
  BY <1>2, <1>3, <1>4

LEMMA ArrivesIsSlice ==
    ASSUME TableTyped, WalkSound, Arrives
    PROVE  ArrivesAsSlice
<1> DEFINE f == ReadQuery(nav.query)
           S == AskedRows(f)
           s == NewestFirst(S)
           n == Cardinality(S)
           L == PAGE_SIZE
           k == nav.i * L
           result == List(f, nav.cursor, L)
           all == IdsOf(s)
<1> SUFFICES ASSUME nav.fresh, Plain(S)
             PROVE  LET lastPage == IF Len(all) = 0 THEN 0 ELSE (Len(all) - 1) \div L
                        page == IF nav.page < lastPage THEN nav.page ELSE lastPage
                        end == (page + 1) * L
                    IN  /\ view'.page = page
                        /\ view'.rows = SubSeq(all, page * L + 1, IF end < Len(all) THEN end ELSE Len(all))
                        /\ view'.more = (end < Len(all))
  <2>1. view'.filters = f
    BY DEF Arrives, Rendered, Render
  <2> QED
    BY <2>1 DEF ArrivesAsSlice, AskedRows, Plain
<1>1. /\ nav # None /\ f \in Filters /\ nav.i \in Nat /\ nav.page \in Nat /\ nav.i <= nav.page
      /\ L \in Nat /\ L \in Nat \ {0} /\ k \in Nat /\ RowsSound
  BY SizesAssumption DEF Arrives, TableTyped, BarTyped, Navigation
<1>2. /\ view'.page = nav.i /\ view'.rows = IdsOf(result.rows) /\ view'.more = (result.next # None)
      /\ ~(nav.i < nav.page /\ result.next # None)
  <2>1. view' = [filters |-> f, page |-> nav.i, rows |-> IdsOf(result.rows),
                 more |-> result.next # None, error |-> FALSE]
    BY DEF Arrives, Rendered, Render
  <2> QED
    BY <2>1 DEF Arrives
<1>3. StandsAt(nav.cursor, S, k)
  BY <1>1 DEF WalkSound
<1>4. /\ result.rows \in Seq(rows) /\ Len(IdsOf(result.rows)) = Len(result.rows)
      /\ \A i \in 1 .. Len(result.rows) : IdsOf(result.rows)[i] = result.rows[i].id
      /\ IdsOf(result.rows) \in Seq(Nat)
  BY <1>1, ResultIs
<1> HIDE DEF f, k
<1>5. /\ n \in Nat /\ k <= n /\ Len(s) = n
      /\ Len(result.rows) = (IF n < k + L THEN n - k ELSE L)
      /\ \A j \in 1 .. Len(result.rows) : k + j \in 1 .. n /\ result.rows[j] = s[k + j]
      /\ result.next # None <=> n > k + L
  BY <1>1, <1>3, SliceIs
<1> HIDE DEF result
<1>6. S \subseteq rows
  BY DEF AskedRows
<1> HIDE DEF S
<1>7. s \in Seq(S)
  BY <1>1, <1>6, SubsetListable, NewestFirstIs
<1> HIDE DEF s, n
<1>8. /\ Len(all) = n /\ DOMAIN all = 1 .. n /\ all \in Seq(Nat)
      /\ \A i \in 1 .. n : all[i] = s[i].id
  <2>1. DOMAIN s = 1 .. n /\ \A i \in 1 .. n : s[i] \in rows
    BY <1>5, <1>6, <1>7
  <2>2. \A i \in 1 .. n : s[i].id \in Nat
    BY <1>1, <2>1, RowIs
  <2>3. all = [i \in 1 .. n |-> s[i].id]
    BY <2>1 DEF IdsOf
  <2> QED
    BY <1>5, <2>2, <2>3
<1> HIDE DEF all, L
<1> DEFINE lastPage == IF n = 0 THEN 0 ELSE (n - 1) \div L
           page == IF nav.page < lastPage THEN nav.page ELSE lastPage
<1>9. k = nav.i * L /\ (nav.i > 0 => k > 0)
  BY <1>1 DEF k, L
<1>10. page = nav.i
  <2>1. CASE n = 0
    <3>1. k = 0 /\ lastPage = 0
      BY <1>1, <1>5, <2>1
    <3> QED
      BY <1>1, <1>9, <2>1, <3>1
  <2>2. CASE n # 0
    <3>1. k < n
      BY <1>1, <1>3, <1>5, <2>2 DEF StandsAt, n
    <3>2. /\ lastPage \in Nat /\ nav.i <= lastPage
          /\ n <= k + L => lastPage <= nav.i
      BY <1>1, <1>5, <1>9, <2>2, <3>1, LastPageIs
    <3> HIDE DEF lastPage
    <3>3. nav.i < nav.page => n <= k + L
      BY <1>1, <1>2, <1>5
    <3> QED
      BY <1>1, <3>2, <3>3
  <2> QED
    BY <2>1, <2>2
<1> HIDE DEF page
<1> DEFINE end == (page + 1) * L
           upto == IF end < n THEN end ELSE n
<1>11. end = k + L /\ page * L = k
  <2>1. (nav.i + 1) * L = nav.i * L + L
    BY <1>1
  <2> QED
    BY <1>9, <1>10, <2>1
<1>12. view'.more = (end < n)
  BY <1>1, <1>2, <1>5, <1>11
<1>13. view'.rows = SubSeq(all, page * L + 1, upto)
  <2>1. PICK m : m = Len(result.rows)
    OBVIOUS
  <2>2. m \in Nat /\ upto = k + m /\ upto <= n
    BY <1>1, <1>5, <1>11, <2>1
  <2> HIDE DEF upto
  <2>3. \A j \in 1 .. m : IdsOf(result.rows)[j] = all[k + j]
    <3>1. \A j \in 1 .. m : IdsOf(result.rows)[j] = s[k + j].id /\ all[k + j] = s[k + j].id
      BY <1>4, <1>5, <1>8, <2>1
    <3> QED
      BY <3>1
  <2>4. /\ SubSeq(all, k + 1, k + m) \in Seq(Nat) /\ Len(SubSeq(all, k + 1, k + m)) = m
        /\ \A j \in 1 .. m : SubSeq(all, k + 1, k + m)[j] = all[k + j]
    <3>1. k \in Nat /\ m \in Nat /\ k + m <= Len(all) /\ all \in Seq(Nat)
      BY <1>1, <1>8, <2>2
    <3> QED
      BY ONLY <3>1, CutIs
  <2>5. IdsOf(result.rows) = SubSeq(all, k + 1, k + m)
    <3>1. PICK u, v : u = IdsOf(result.rows) /\ v = SubSeq(all, k + 1, k + m)
      OBVIOUS
    <3>2. u \in Seq(Nat) /\ Len(u) = m
      BY <1>4, <2>1, <3>1
    <3>3. v \in Seq(Nat) /\ Len(v) = m
      BY <2>4, <3>1
    <3>4. \A j \in 1 .. m : u[j] = v[j]
      BY <2>3, <2>4, <3>1
    <3>5. u = v
      BY ONLY <3>2, <3>3, <3>4, SeqEqual
    <3> QED
      BY <3>1, <3>5
  <2> QED
    BY <1>2, <1>11, <2>2, <2>5
<1> QED
  BY <1>2, <1>8, <1>10, <1>12, <1>13 DEF page, lastPage, L

\* A page that arrives is the slice of the filtered table that was asked for, or
\* its last one, for tables and pages of any size.
THEOREM PageIsSliceHolds == SpecPanels => PageIsSlice
<1>1. ASSUME TableTyped, WalkSound, [NextPanels]_<<vars, receipt>>
      PROVE  [ArrivesAsSlice]_vars
  <2>1. CASE nav' = nav
    BY <2>1 DEF ArrivesAsSlice
  <2>2. CASE BarStep
    <3>1. CASE DebounceEnds \/ ChooseFilter \/ ClearFilters \/ GoToPage
      <4>1. \E f, page : Navigates(f, page)
        BY <1>1, <3>1, DebounceEffect, ChosenIsOffered, FiltersEffect, PageEffect
      <4> QED
        BY <4>1, NavigationTyped DEF ArrivesAsSlice
    <3>2. CASE WalksOn
      BY <1>1, <3>2, WalksOnIs DEF ArrivesAsSlice
    <3>3. CASE Arrives
      BY <1>1, <3>3, ArrivesIsSlice
    <3>4. CASE WalkFails
      <4>1. view' = [filters |-> ReadQuery(nav.query), page |-> 0, rows |-> <<>>, more |-> FALSE, error |-> TRUE]
        BY <3>4 DEF WalkFails, Render
      <4>2. view'.error
        BY <4>1
      <4> QED
        BY <4>2 DEF ArrivesAsSlice
    <3>5. CASE \E v \in Values.q : Type(v)
      BY <2>1, <3>5 DEF Type
    <3> QED
      BY <1>1, <2>2, <3>1, <3>2, <3>3, <3>4, <3>5, WalkEffect DEF BarStep
  <2>3. CASE ExportStep \/ TableRests
    BY <2>1, <2>3 DEF ExportStep, ClickExport, ExportRowsToCsv, ExportFails, TableRests, bar
  <2>4. CASE WriterStep
    BY <1>1, <2>4, ChurnEffect DEF ArrivesAsSlice
  <2> QED
    BY <1>1, <2>2, <2>3, <2>4, StepIs
<1> QED
  BY <1>1, TypedHolds, WalkSoundHolds, PTL DEF SpecPanels, PageIsSlice

-----------------------------------------------------------------------------
(* The health of the deliveries                                            *)

LEMMA LeastOf ==
    ASSUME NEW T, T \subseteq Nat, T # {}
    PROVE  \E x \in T : \A y \in T : x <= y
<1> DEFINE R == {s \in Nat \X Nat : s[1] < s[2]}
<1>1. IsWellFoundedOn(R, Nat)
  BY NatLessThanWellFounded DEF OpToRel
<1>2. \E x \in T : \A y \in T : ~(<<y, x>> \in R)
  <2> HIDE DEF R
  <2> QED
    BY <1>1, WFMin
<1>3. ASSUME NEW x \in Nat, NEW y \in Nat, <<y, x>> \notin R
      PROVE  x <= y
  <2>1. <<y, x>> \in Nat \X Nat /\ <<y, x>>[1] = y /\ <<y, x>>[2] = x
    OBVIOUS
  <2>2. ~(y < x)
    BY <1>3, <2>1
  <2> QED
    BY <2>2
<1> HIDE DEF R
<1> QED
  BY <1>2, <1>3

LEMMA ProductKeepsOrder ==
    ASSUME NEW x \in Nat, NEW y \in Nat, NEW z \in Nat, x <= y
    PROVE  z * x <= z * y
OBVIOUS

LEMMA PercentIs ==
    ASSUME NEW n \in Nat, NEW d \in Nat \ {0}
    PROVE  /\ Percent(n, d) \in Nat
           /\ 2 * (d * Percent(n, d)) <= 200 * n + d
           /\ 200 * n + d < 2 * (d * Percent(n, d)) + 2 * d
           /\ n <= d => Percent(n, d) <= 100
<1> DEFINE x == 200 * n + d
           y == 2 * d
           p == x \div y
<1>1. x \in Nat /\ y \in Nat \ {0}
  OBVIOUS
<1> HIDE DEF x, y
<1>2. p \in Nat /\ y * p <= x /\ x < y * p + y
  BY <1>1
<1>3. Percent(n, d) = p
  BY DEF Percent, x, y
<1> HIDE DEF p
<1>4. y * p = 2 * (d * p) /\ x = 200 * n + d /\ y = 2 * d
  BY <1>2 DEF x, y
<1>5. n <= d => p <= 100
  <2> SUFFICES ASSUME n <= d, ~(p <= 100) PROVE FALSE
    OBVIOUS
  <2>1. 101 <= p
    BY <1>2, <2>1
  <2>2. y * 101 <= y * p
    BY <1>1, <1>2, <2>1, ProductKeepsOrder
  <2> QED
    BY <1>2, <1>4, <2>2
<1> QED
  BY <1>2, <1>3, <1>4, <1>5

\* Percentages in order mean quotients in order, up to a percent.
LEMMA WorseIs ==
    ASSUME NEW a \in Nat, NEW b \in Nat \ {0}, NEW c \in Nat, NEW d \in Nat \ {0},
           Percent(a, b) <= Percent(c, d)
    PROVE  100 * a * d <= (100 * c + d) * b
<1> DEFINE p == Percent(a, b)
           q == Percent(c, d)
<1>1. /\ p \in Nat /\ q \in Nat /\ p <= q
      /\ 200 * a + b < 2 * (b * p) + 2 * b
      /\ 2 * (d * q) <= 200 * c + d
  BY PercentIs
<1> HIDE DEF p, q
<1>2. PICK u \in Nat, v \in Nat, w \in Nat : u = b * p /\ v = d * q /\ w = b * q
  BY <1>1
<1>3. u <= w
  BY <1>1, <1>2, ProductKeepsOrder
<1>4. 200 * a <= 2 * w + b /\ 2 * v <= 200 * c + d
  BY <1>1, <1>2, <1>3
<1>5. d * (200 * a) <= d * (2 * w + b)
  BY <1>2, <1>4, ProductKeepsOrder
<1>6. b * (2 * v) <= b * (200 * c + d)
  BY <1>2, <1>4, ProductKeepsOrder
<1>7. d * w = b * v
  <2>1. d * (b * q) = b * (d * q)
    BY <1>1
  <2> QED
    BY <1>2, <2>1
<1>8. d * (2 * w + b) = 2 * (b * v) + d * b
  BY <1>2, <1>7
<1>9. b * (2 * v) = 2 * (b * v) /\ b * (200 * c + d) = 200 * (b * c) + b * d
  BY <1>2
<1>10. d * (200 * a) = 200 * (a * d) /\ d * b = b * d
  OBVIOUS
<1>11. PICK ad \in Nat, bc \in Nat, bd \in Nat, bv \in Nat : ad = a * d /\ bc = b * c /\ bd = b * d /\ bv = b * v
  <2>1. a * d \in Nat /\ b * c \in Nat /\ b * d \in Nat /\ b * v \in Nat
    BY <1>2
  <2> QED
    BY <2>1
<1>12. 200 * ad <= 200 * bc + 2 * bd
  BY <1>5, <1>6, <1>8, <1>9, <1>10, <1>11
<1>13. 100 * a * d = 100 * ad /\ (100 * c + d) * b = 100 * bc + bd
  BY <1>11
<1> QED
  BY <1>11, <1>12, <1>13

\* Rows a query for the health can find.
Delivered(R) ==
    /\ IsFiniteSet(R)
    /\ \A r \in R : r.status \in {"pending", "success", "failed"} /\ r.of \in STRING \cup {None}

LEMMA CountsAre ==
    ASSUME NEW R, Delivered(R), NEW e
    PROVE  /\ Cardinality(ResolvedOf(R, e)) \in Nat /\ Cardinality(FailedOf(R, e)) \in Nat
           /\ Cardinality(FailedOf(R, e)) <= Cardinality(ResolvedOf(R, e))
           /\ e \in Failing(R) => Cardinality(ResolvedOf(R, e)) # 0
<1>1. FailedOf(R, e) \subseteq ResolvedOf(R, e) /\ ResolvedOf(R, e) \subseteq R
  BY DEF FailedOf, ResolvedOf, Resolved, Of
<1>2. IsFiniteSet(ResolvedOf(R, e)) /\ IsFiniteSet(FailedOf(R, e))
  BY <1>1, FS_Subset DEF Delivered
<1>3. e \in Failing(R) => ResolvedOf(R, e) # {}
  BY DEF Failing, ResolvedOf, Resolved, Of
<1> QED
  BY <1>1, <1>2, <1>3, FS_Subset, FS_CardinalityType, FS_EmptySet

\* Among endpoints with a failed delivery there is one that fails most.
LEMMA WorstExists ==
    ASSUME NEW R, Delivered(R), Failing(R) # {}
    PROVE  Worst(R) # {}
<1>1. \A e \in Failing(R) : FailurePct(R, e) \in 0 .. 100
  <2> SUFFICES ASSUME NEW e \in Failing(R) PROVE FailurePct(R, e) \in 0 .. 100
    OBVIOUS
  <2>1. PICK a, b : a = Cardinality(FailedOf(R, e)) /\ b = Cardinality(ResolvedOf(R, e))
    OBVIOUS
  <2>2. a \in Nat /\ b \in Nat \ {0} /\ a <= b /\ FailurePct(R, e) = Percent(a, b)
    BY <2>1, CountsAre DEF FailurePct
  <2>3. Percent(a, b) \in Nat /\ Percent(a, b) <= 100
    BY <2>2, PercentIs
  <2> QED
    BY <2>2, <2>3
<1> DEFINE T == {100 - FailurePct(R, e) : e \in Failing(R)}
<1>2. T \subseteq Nat /\ T # {}
  BY <1>1
<1>3. PICK x \in T : \A y \in T : x <= y
  <2> HIDE DEF T
  <2> QED
    BY <1>2, LeastOf
<1>4. PICK e \in Failing(R) : x = 100 - FailurePct(R, e)
  OBVIOUS
<1>5. \A f \in Failing(R) : FailurePct(R, f) <= FailurePct(R, e)
  <2> SUFFICES ASSUME NEW f \in Failing(R) PROVE FailurePct(R, f) <= FailurePct(R, e)
    OBVIOUS
  <2>1. x <= 100 - FailurePct(R, f)
    BY <1>3
  <2> QED
    BY <1>1, <1>4, <2>1
<1> QED
  BY <1>4, <1>5 DEF Worst

\* The health of the deliveries misleads nobody, whatever rows the query finds:
\* 100 % only when nothing failed that rounding could show, and an endpoint to look
\* at exactly when there is one, which then is one that fails most.
THEOREM HealthPointsAtWorstHolds ==
    ASSUME NEW R, Delivered(R)
    PROVE  HealthPointsAtWorst(R)
<1> SUFFICES ASSUME NEW h \in GetWebhookDeliveryHealth(R)
             PROVE  LET N(S) == Cardinality(S)
                        w == h.worstEndpoint
                    IN  /\ (h.successRatePct = None) = (\A r \in R : r.status = "pending")
                        /\ h.successRatePct = 100 => 200 * N(Of(R, "failed")) <= h.resolvedCount
                        /\ (w = None) = (\A r \in Of(R, "failed") : r.of = None)
                        /\ w # None => \A e \in Failing(R) :
                              100 * N(FailedOf(R, e)) * N(ResolvedOf(R, w))
                                <= (100 * N(FailedOf(R, w)) + N(ResolvedOf(R, w))) * N(ResolvedOf(R, e))
  BY DEF HealthPointsAtWorst
<1>1. PICK w : w \in (IF Failing(R) = {} THEN {None} ELSE Worst(R)) /\ h = Health(R, w)
  BY DEF GetWebhookDeliveryHealth
<1>2. PICK s, d : s = Cardinality(Of(R, "success")) /\ d = Cardinality(Resolved(R))
  OBVIOUS
<1>3. /\ h.successRatePct = IF Resolved(R) = {} THEN None ELSE Percent(s, d)
      /\ h.resolvedCount = d /\ h.worstEndpoint = w
  BY <1>1, <1>2 DEF Health
<1>4. /\ Resolved(R) = Of(R, "success") \cup Of(R, "failed")
      /\ Of(R, "success") \cap Of(R, "failed") = {}
      /\ Resolved(R) = {} <=> \A r \in R : r.status = "pending"
  BY DEF Resolved, Of, Delivered
<1>5. IsFiniteSet(Of(R, "success")) /\ IsFiniteSet(Of(R, "failed")) /\ IsFiniteSet(Resolved(R))
  <2>1. Of(R, "success") \subseteq R /\ Of(R, "failed") \subseteq R /\ Resolved(R) \subseteq R
    BY DEF Of, Resolved
  <2> QED
    BY <2>1, FS_Subset DEF Delivered
<1>6. PICK x \in Nat : x = Cardinality(Of(R, "failed"))
  BY <1>5, FS_CardinalityType
<1>7. s \in Nat /\ d \in Nat /\ d = s + x /\ (Resolved(R) # {} => d # 0)
  <2>1. s \in Nat /\ d \in Nat
    BY <1>2, <1>5, FS_CardinalityType
  <2>2. d = s + x - Cardinality({})
    BY <1>2, <1>4, <1>5, <1>6, FS_Union
  <2>3. Resolved(R) # {} => d # 0
    BY <1>2, <1>5, FS_EmptySet
  <2> QED
    BY <1>6, <2>1, <2>2, <2>3, FS_EmptySet
<1>8. /\ Resolved(R) # {} => h.successRatePct \in Nat /\ h.successRatePct # None
      /\ Resolved(R) # {} /\ h.successRatePct = 100 => 200 * x <= d
  <2> SUFFICES ASSUME Resolved(R) # {}
               PROVE  /\ h.successRatePct \in Nat /\ h.successRatePct # None
                      /\ h.successRatePct = 100 => 200 * x <= d
    OBVIOUS
  <2>1. PICK p : p = Percent(s, d)
    OBVIOUS
  <2>2. h.successRatePct = p /\ p \in Nat /\ 2 * (d * p) <= 200 * s + d
    BY <1>3, <1>7, <2>1, PercentIs
  <2>3. p = 100 => 200 * x <= d
    BY <1>6, <1>7, <2>2
  <2> QED
    BY <2>2, <2>3, NoneAssumption
<1>9. Failing(R) = {} <=> \A r \in Of(R, "failed") : r.of = None
  BY DEF Failing
<1>10. Failing(R) # {} => w \in Worst(R) /\ w \in Failing(R) /\ w # None
  BY <1>1, WorstExists DEF Worst, Failing
<1>11. Failing(R) = {} => w = None
  BY <1>1
<1>12. ASSUME w # None, NEW e \in Failing(R)
       PROVE  100 * Cardinality(FailedOf(R, e)) * Cardinality(ResolvedOf(R, w))
                <= (100 * Cardinality(FailedOf(R, w)) + Cardinality(ResolvedOf(R, w)))
                     * Cardinality(ResolvedOf(R, e))
  <2>1. PICK a, b, c, g : /\ a = Cardinality(FailedOf(R, e)) /\ b = Cardinality(ResolvedOf(R, e))
                          /\ c = Cardinality(FailedOf(R, w)) /\ g = Cardinality(ResolvedOf(R, w))
    OBVIOUS
  <2>2. w \in Failing(R) /\ FailurePct(R, e) <= FailurePct(R, w)
    BY <1>10, <1>12 DEF Worst
  <2>3. a \in Nat /\ b \in Nat \ {0} /\ FailurePct(R, e) = Percent(a, b)
    BY <1>12, <2>1, CountsAre DEF FailurePct
  <2>4. c \in Nat /\ g \in Nat \ {0} /\ FailurePct(R, w) = Percent(c, g)
    BY <2>1, <2>2, CountsAre DEF FailurePct
  <2>5. 100 * a * g <= (100 * c + g) * b
    BY <2>2, <2>3, <2>4, WorseIs
  <2> QED
    BY <2>1, <2>5
<1>13. (h.successRatePct = None) = (\A r \in R : r.status = "pending")
  BY <1>3, <1>4, <1>8
<1>14. h.successRatePct = 100 => 200 * Cardinality(Of(R, "failed")) <= h.resolvedCount
  <2>1. Resolved(R) = {} => h.successRatePct # 100
    BY <1>3, NoneAssumption
  <2> QED
    BY <1>3, <1>6, <1>8, <2>1
<1>15. (h.worstEndpoint = None) = (\A r \in Of(R, "failed") : r.of = None)
  BY <1>3, <1>9, <1>10, <1>11
<1> QED
  BY <1>3, <1>12, <1>13, <1>14, <1>15

-----------------------------------------------------------------------------
(* The Receipt drawer                                                      *)

Answer == [id : Nat, status : {"pending", "paid", "expired", "failed", "success"}]
Ask == [id : Nat, click : Nat, answer : Answer \cup {None}]
Drawer ==
    [open : Nat \cup {None}, click : Nat, loading : BOOLEAN, shown : Answer \cup {None},
     queue : Seq(Ask)]

\* An answer is about the invoice it was asked for; the one to the last click is
\* about the invoice the drawer is open for.
AskSound(q, r) ==
    /\ q.click <= r.click
    /\ q.answer # None => q.answer.id = q.id
    /\ r.open # None /\ q.click = r.click => q.id = r.open

ReceiptSound ==
    /\ receipt \in Drawer
    /\ \A i \in 1 .. Len(receipt.queue) : AskSound(receipt.queue[i], receipt)
    /\ \A i, j \in 1 .. Len(receipt.queue) :
         i < j => receipt.queue[i].click < receipt.queue[j].click
    /\ receipt.shown # None =>
         /\ receipt.open # None /\ receipt.shown.id = receipt.open /\ ~receipt.loading
         /\ \A i \in 1 .. Len(receipt.queue) : receipt.queue[i].click # receipt.click
    /\ receipt.open # None /\ receipt.loading =>
         \E i \in 1 .. Len(receipt.queue) : receipt.queue[i].click = receipt.click

LEMMA TailIs ==
    ASSUME NEW S, NEW s \in Seq(S), s # <<>>
    PROVE  /\ Tail(s) \in Seq(S) /\ Len(Tail(s)) = Len(s) - 1 /\ Len(s) \in Nat \ {0}
           /\ Head(s) = s[1] /\ s[1] \in S
           /\ \A i \in 1 .. Len(s) - 1 : Tail(s)[i] = s[i + 1] /\ i + 1 \in 1 .. Len(s)
OBVIOUS

LEMMA OpenKeeps ==
    ASSUME TableTyped, ReceiptSound, OpenReceipt
    PROVE  ReceiptSound'
<1>1. PICK id \in Range(view.rows) :
        receipt' = [receipt EXCEPT !.open = id, !.click = @ + 1, !.loading = TRUE,
                      !.queue = Append(@, [id |-> id, click |-> receipt.click + 1, answer |-> None])]
  BY DEF OpenReceipt
<1>2. id \in Nat
  <2>1. view.rows \in Seq(Nat)
    BY DEF TableTyped, BarTyped, View
  <2> QED
    BY <2>1 DEF Range
<1>3. receipt \in Drawer /\ receipt.open = None
  BY DEF ReceiptSound, OpenReceipt
<1>4. receipt.click \in Nat /\ receipt.queue \in Seq(Ask) /\ receipt.shown = None
  BY <1>3 DEF ReceiptSound, Drawer
<1>5. PICK c \in Nat : c = receipt.click + 1
  BY <1>4
<1>6. PICK q : q = [id |-> id, click |-> c, answer |-> None]
  OBVIOUS
<1>7. q \in Ask /\ q.id = id /\ q.click = c /\ q.answer = None
  BY <1>2, <1>6 DEF Ask
<1>8. PICK new : new = Append(receipt.queue, q)
  OBVIOUS
<1>9. /\ new \in Seq(Ask) /\ Len(new) = Len(receipt.queue) + 1 /\ new[Len(new)] = q
      /\ Len(receipt.queue) \in Nat
      /\ \A i \in 1 .. Len(receipt.queue) : new[i] = receipt.queue[i]
  BY <1>4, <1>7, <1>8
<1>10. receipt' = [receipt EXCEPT !.open = id, !.click = c, !.loading = TRUE, !.queue = new]
  BY <1>1, <1>5, <1>6, <1>8
<1>11. /\ receipt' \in Drawer /\ receipt'.open = id /\ receipt'.click = c /\ receipt'.loading = TRUE
       /\ receipt'.queue = new /\ receipt'.shown = None
  BY <1>2, <1>3, <1>4, <1>9, <1>10 DEF Drawer
<1>12. ASSUME NEW i \in 1 .. Len(new)
       PROVE  AskSound(new[i], receipt)'
  <2>1. CASE i = Len(new)
    BY <1>5, <1>7, <1>9, <1>11, <2>1 DEF AskSound
  <2>2. CASE i # Len(new)
    <3>1. i \in 1 .. Len(receipt.queue)
      BY <1>9, <2>2
    <3>2. AskSound(receipt.queue[i], receipt) /\ new[i] = receipt.queue[i] /\ new[i] \in Ask
      BY <1>9, <3>1 DEF ReceiptSound
    <3>3. new[i].click <= receipt.click /\ new[i].click # c /\ new[i].click <= c
      BY <1>4, <1>5, <3>2 DEF AskSound, Ask
    <3> QED
      BY <1>11, <3>2, <3>3 DEF AskSound
  <2> QED
    BY <2>1, <2>2
<1>13. Len(new) \in 1 .. Len(new) /\ new[Len(new)].click = c
  BY <1>7, <1>9
<1>14. ASSUME NEW i \in 1 .. Len(new), NEW j \in 1 .. Len(new), i < j
       PROVE  new[i].click < new[j].click
  <2>1. i \in 1 .. Len(receipt.queue) /\ new[i] = receipt.queue[i]
    BY <1>9, <1>14
  <2>2. CASE j = Len(new)
    <3>1. new[i].click \in Nat
      <4>1. new[i] \in Ask
        BY <1>9
      <4> QED
        BY <4>1 DEF Ask
    <3>2. new[i].click <= receipt.click
      BY <2>1 DEF ReceiptSound, AskSound
    <3> QED
      BY <1>4, <1>5, <1>13, <2>2, <3>1, <3>2
  <2>3. CASE j # Len(new)
    BY <1>9, <1>14, <2>1, <2>3 DEF ReceiptSound
  <2> QED
    BY <2>2, <2>3
<1> QED
  BY <1>11, <1>12, <1>13, <1>14 DEF ReceiptSound

LEMMA CloseKeeps ==
    ASSUME ReceiptSound, CloseReceipt
    PROVE  ReceiptSound'
<1>1. receipt' = [receipt EXCEPT !.open = None, !.shown = None] /\ receipt \in Drawer
  BY DEF ReceiptSound, CloseReceipt
<1>2. /\ receipt' \in Drawer /\ receipt'.open = None /\ receipt'.shown = None
      /\ receipt'.queue = receipt.queue /\ receipt'.click = receipt.click
  BY <1>1 DEF Drawer
<1> QED
  BY <1>2 DEF ReceiptSound, AskSound

LEMMA AnswerKeeps ==
    ASSUME TableTyped, ReceiptSound, GetInvoiceReceipt
    PROVE  ReceiptSound'
<1>1. /\ receipt \in Drawer /\ receipt.queue # <<>> /\ receipt.queue \in Seq(Ask)
  BY DEF ReceiptSound, GetInvoiceReceipt, Drawer
<1>2. PICK r \in rows : r.id = Head(receipt.queue).id
        /\ receipt' = [receipt EXCEPT !.queue[1].answer = [id |-> r.id, status |-> r.status]]
  BY DEF GetInvoiceReceipt
<1>3. PICK a : a = [id |-> r.id, status |-> r.status]
  OBVIOUS
<1>4. a \in Answer /\ a.id = r.id
  <2>1. r \in Row(kind)
    BY DEF TableTyped, RowsSound
  <2>2. r.id \in Nat /\ r.status \in {"pending", "paid", "expired", "failed", "success"}
    BY <2>1 DEF Row, Outcomes
  <2> QED
    BY <1>3, <2>2 DEF Answer
<1>5. PICK old : old = receipt.queue
  OBVIOUS
<1>6. PICK new : new = [old EXCEPT ![1].answer = a]
  OBVIOUS
<1>7. old \in Seq(Ask) /\ Len(old) \in Nat \ {0} /\ Head(old) = old[1] /\ old[1] \in Ask
  BY <1>1, <1>5, TailIs
<1>8. /\ new \in Seq(Ask) /\ Len(new) = Len(old) /\ new[1] = [old[1] EXCEPT !.answer = a]
      /\ \A i \in 2 .. Len(old) : new[i] = old[i]
  <2>1. [old[1] EXCEPT !.answer = a] \in Ask
    BY <1>4, <1>7 DEF Ask
  <2>2. new = [old EXCEPT ![1] = [old[1] EXCEPT !.answer = a]]
    BY <1>6
  <2> QED
    BY <1>7, <2>1, <2>2
<1>9. receipt' = [receipt EXCEPT !.queue = new]
  BY <1>1, <1>2, <1>3, <1>5, <1>6
<1>10. /\ receipt' \in Drawer /\ receipt'.queue = new /\ receipt'.open = receipt.open
       /\ receipt'.click = receipt.click /\ receipt'.loading = receipt.loading /\ receipt'.shown = receipt.shown
  BY <1>1, <1>8, <1>9 DEF Drawer
<1>11. new[1].click = old[1].click /\ new[1].id = old[1].id /\ new[1].answer = a
  BY <1>7, <1>8 DEF Ask
<1>12. \A i \in 1 .. Len(new) : AskSound(new[i], receipt)' /\ new[i].click = old[i].click
  <2> SUFFICES ASSUME NEW i \in 1 .. Len(new)
               PROVE  AskSound(new[i], receipt)' /\ new[i].click = old[i].click
    OBVIOUS
  <2>1. AskSound(old[i], receipt)
    BY <1>5, <1>8 DEF ReceiptSound
  <2>2. CASE i = 1
    BY <1>2, <1>4, <1>5, <1>7, <1>10, <1>11, <2>1, <2>2 DEF AskSound
  <2>3. CASE i # 1
    BY <1>7, <1>8, <1>10, <2>1, <2>3 DEF AskSound
  <2> QED
    BY <2>2, <2>3
<1> QED
  BY <1>5, <1>8, <1>10, <1>12 DEF ReceiptSound

\* An answer, or the news of a failure, leaves the queue.
LEMMA LeavesKeeps ==
    ASSUME ReceiptSound, ReceiptArrives \/ ReceiptFails
    PROVE  ReceiptSound'
<1>1. receipt \in Drawer /\ receipt.queue # <<>> /\ receipt.queue \in Seq(Ask)
  BY DEF ReceiptSound, ReceiptArrives, ReceiptFails, Drawer
<1>2. PICK old, new : old = receipt.queue /\ new = Tail(old)
  OBVIOUS
<1>3. /\ new \in Seq(Ask) /\ Len(new) = Len(old) - 1 /\ Len(old) \in Nat \ {0} /\ Head(old) = old[1]
      /\ old[1] \in Ask /\ \A i \in 1 .. Len(old) - 1 : new[i] = old[i + 1] /\ i + 1 \in 1 .. Len(old)
  BY <1>1, <1>2, TailIs
<1>4. /\ \A i \in 1 .. Len(old) : AskSound(old[i], receipt)
      /\ \A i, j \in 1 .. Len(old) : i < j => old[i].click < old[j].click
      /\ receipt.shown # None =>
           /\ receipt.open # None /\ receipt.shown.id = receipt.open /\ ~receipt.loading
           /\ \A i \in 1 .. Len(old) : old[i].click # receipt.click
      /\ receipt.open # None /\ receipt.loading =>
           \E i \in 1 .. Len(old) : old[i].click = receipt.click
  BY <1>2 DEF ReceiptSound
<1>5. ASSUME receipt.open # None, receipt.loading, old[1].click # receipt.click
      PROVE  \E i \in 1 .. Len(new) : new[i].click = receipt.click
  <2>1. PICK i \in 1 .. Len(old) : old[i].click = receipt.click
    BY <1>4, <1>5
  <2>2. i - 1 \in 1 .. Len(new) /\ (i - 1) + 1 = i
    <3>1. i # 1
      BY <1>5, <2>1
    <3>2. PICK m \in Nat \ {0}, n \in Nat : m = Len(old) /\ n = Len(new) /\ n = m - 1
      BY <1>3
    <3>3. i \in 1 .. m
      BY <3>2
    <3> QED
      BY <3>1, <3>2, <3>3
  <2>3. new[i - 1] = old[i]
    BY <1>3, <2>2
  <2> QED
    BY <2>1, <2>2, <2>3
<1>6. ASSUME receipt' \in Drawer, receipt'.queue = new, receipt'.open = receipt.open, receipt'.click = receipt.click
      PROVE  /\ \A i \in 1 .. Len(receipt'.queue) : AskSound(receipt'.queue[i], receipt')
             /\ \A i, j \in 1 .. Len(receipt'.queue) :
                  i < j => receipt'.queue[i].click < receipt'.queue[j].click
             /\ (\A i \in 1 .. Len(old) : old[i].click # receipt.click) =>
                  \A i \in 1 .. Len(receipt'.queue) : receipt'.queue[i].click # receipt'.click
  <2>1. \A i \in 1 .. Len(new) : AskSound(new[i], receipt')
    BY <1>3, <1>4, <1>6 DEF AskSound
  <2>2. \A i, j \in 1 .. Len(new) : i < j => new[i].click < new[j].click
    <3> SUFFICES ASSUME NEW i \in 1 .. Len(new), NEW j \in 1 .. Len(new), i < j
                 PROVE  new[i].click < new[j].click
      OBVIOUS
    <3>1. i + 1 \in 1 .. Len(old) /\ j + 1 \in 1 .. Len(old) /\ i + 1 < j + 1
      BY <1>3
    <3>2. new[i] = old[i + 1] /\ new[j] = old[j + 1]
      BY <1>3
    <3> QED
      BY <1>4, <3>1, <3>2
  <2>3. (\A i \in 1 .. Len(old) : old[i].click # receipt.click) =>
          \A i \in 1 .. Len(new) : new[i].click # receipt.click
    BY <1>3
  <2> QED
    BY <1>6, <2>1, <2>2, <2>3
<1>7. CASE ReceiptArrives /\ Cancelled(Head(receipt.queue))
  <2>1. receipt' = [receipt EXCEPT !.queue = new]
    BY <1>2, <1>7 DEF ReceiptArrives
  <2>2. /\ receipt' \in Drawer /\ receipt'.queue = new /\ receipt'.open = receipt.open
        /\ receipt'.click = receipt.click /\ receipt'.loading = receipt.loading /\ receipt'.shown = receipt.shown
    BY <1>1, <1>3, <2>1 DEF Drawer
  <2>3. receipt.open # None => old[1].click # receipt.click
    BY <1>2, <1>3, <1>7 DEF Cancelled
  <2> QED
    BY <1>4, <1>5, <1>6, <2>2, <2>3 DEF ReceiptSound
<1>8. CASE ReceiptArrives /\ ~Cancelled(Head(receipt.queue))
  <2>1. PICK a : a = Head(receipt.queue).answer
    OBVIOUS
  <2>2. a \in Answer \cup {None} /\ a # None /\ receipt.open # None /\ a.id = receipt.open
    BY <1>2, <1>3, <1>4, <1>8, <2>1 DEF ReceiptArrives, Cancelled, Ask, AskSound
  <2>3. receipt' = [receipt EXCEPT !.queue = new, !.loading = FALSE, !.shown = a]
    BY <1>2, <1>8, <2>1 DEF ReceiptArrives
  <2>4. /\ receipt' \in Drawer /\ receipt'.queue = new /\ receipt'.open = receipt.open
        /\ receipt'.click = receipt.click /\ receipt'.loading = FALSE /\ receipt'.shown = a
    BY <1>1, <1>3, <2>2, <2>3 DEF Drawer
  <2>5. \A i \in 1 .. Len(new) : new[i].click # receipt.click
    <3> SUFFICES ASSUME NEW i \in 1 .. Len(new) PROVE new[i].click # receipt.click
      OBVIOUS
    <3>1. 1 \in 1 .. Len(old) /\ i + 1 \in 1 .. Len(old) /\ 1 < i + 1 /\ new[i] = old[i + 1]
      BY <1>3
    <3>2. old[1].click < old[i + 1].click /\ old[1].click = receipt.click
      BY <1>2, <1>3, <1>4, <1>8, <3>1 DEF Cancelled
    <3>3. receipt.click \in Nat
      BY <1>1 DEF Drawer
    <3> QED
      BY <3>1, <3>2, <3>3
  <2> QED
    BY <1>6, <2>2, <2>4, <2>5 DEF ReceiptSound
<1>9. CASE ReceiptFails
  <2>1. PICK b : b = (Cancelled(Head(receipt.queue)) /\ receipt.loading)
    OBVIOUS
  <2>2. b \in BOOLEAN
    BY <2>1
  <2>3. receipt' = [receipt EXCEPT !.queue = new, !.loading = b]
    BY <1>2, <1>9, <2>1 DEF ReceiptFails
  <2>4. /\ receipt' \in Drawer /\ receipt'.queue = new /\ receipt'.open = receipt.open
        /\ receipt'.click = receipt.click /\ receipt'.loading = b /\ receipt'.shown = receipt.shown
    BY <1>1, <1>3, <2>2, <2>3 DEF Drawer
  <2>5. b /\ receipt.open # None => receipt.loading /\ old[1].click # receipt.click
    BY <1>2, <1>3, <2>1 DEF Cancelled
  <2>6. b => receipt.loading
    BY <2>1
  <2> QED
    BY <1>4, <1>5, <1>6, <2>4, <2>5, <2>6 DEF ReceiptSound
<1> QED
  BY <1>7, <1>8, <1>9

LEMMA ReceiptSoundInit == InitPanels => ReceiptSound
<1> SUFFICES ASSUME InitPanels PROVE ReceiptSound
  OBVIOUS
<1>1. receipt = [open |-> None, click |-> 0, loading |-> FALSE, shown |-> None, queue |-> <<>>]
  BY DEF InitPanels, NoReceipt
<1>2. receipt \in Drawer /\ receipt.open = None /\ receipt.shown = None /\ receipt.queue = <<>>
  BY <1>1 DEF Drawer
<1>3. Len(receipt.queue) = 0
  BY <1>2
<1> QED
  BY <1>2, <1>3 DEF ReceiptSound

LEMMA ReceiptSoundNext ==
    TableTyped /\ ReceiptSound /\ [NextPanels]_<<vars, receipt>> => ReceiptSound'
<1> SUFFICES ASSUME TableTyped, ReceiptSound, [NextPanels]_<<vars, receipt>> PROVE ReceiptSound'
  OBVIOUS
<1>1. CASE UNCHANGED receipt
  BY <1>1 DEF ReceiptSound
<1> QED
  BY <1>1, OpenKeeps, CloseKeeps, AnswerKeeps, LeavesKeeps DEF NextPanels

LEMMA ReceiptSoundHolds == SpecPanels => []ReceiptSound
BY ReceiptSoundInit, ReceiptSoundNext, TypedHolds, PTL DEF SpecPanels

\* A receipt on view is of the invoice and of the opening it was asked for, and a
\* spinner is turning only while its answer is still to come.
THEOREM ReceiptIsThisOneHolds == SpecPanels => []ReceiptIsThisOne
<1>1. ReceiptSound => ReceiptIsThisOne
  <2> SUFFICES ASSUME ReceiptSound PROVE ReceiptIsThisOne
    OBVIOUS
  <2>1. receipt.queue \in Seq(Ask)
    BY DEF ReceiptSound, Drawer
  <2>2. DOMAIN receipt.queue = 1 .. Len(receipt.queue)
    BY <2>1
  <2> QED
    BY <2>2 DEF ReceiptSound, ReceiptIsThisOne, Range
<1> QED
  BY <1>1, ReceiptSoundHolds, PTL
=============================================================================
