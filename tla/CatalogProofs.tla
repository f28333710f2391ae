---------------------------- MODULE CatalogProofs ---------------------------
(***************************************************************************)
(* The catalog: the staleness of the cached list, for any number of        *)
(* readers, keys and changes and for every TTL and read time; the pages of *)
(* the course list, for any catalog, relevance, page size and candidate    *)
(* window; and the screens around it, for any texts, courses and number of *)
(* inputs, with the answers they wait for in whatever order.               *)
(***************************************************************************)
EXTENDS CatalogCache, CourseList, SearchBox, CatalogDrawer, EnrollButton,
        SequenceTheorems, FiniteSetTheorems, WellFoundedInduction, TLAPS

-----------------------------------------------------------------------------
(* The inductive invariant *)

\* Version v of the list was not replaced before t.
Current(v, t) == v <= Version /\ (v < Version => changes[v + 1] >= t)

Request == [url : Urls, since : Nat, saw : Nat \cup {None}]
Entry == [version : Nat, expires : Nat]
Shown == [version : Nat, at : Nat]

CacheTypeOK ==
    /\ clock \in Nat
    /\ changes \in Seq(Nat)
    /\ store \in [Urls -> Entry \cup {None}]
    /\ reads \in [Readers -> Request \cup {Idle}]
    /\ shown \in Shown \cup {None}

\* Changes happened in order, in the past.
ChangesInOrder ==
    /\ \A i \in 1..Version : changes[i] <= clock
    /\ \A i, j \in 1..Version : i <= j => changes[i] <= changes[j]

\* A request is not older than the slowest, and what it saw was current when it came.
ReadsAreRecent ==
    \A r \in Readers : reads[r] # Idle =>
       /\ reads[r].since <= clock /\ clock <= reads[r].since + SlowestRead
       /\ reads[r].saw # None => Current(reads[r].saw, reads[r].since)

\* An entry was current when the slowest request that may have written it came.
EntriesAreRecent ==
    \A u \in Urls : store[u] # None =>
       /\ store[u].expires <= clock + TTL
       /\ Current(store[u].version, store[u].expires - TTL - SlowestRead)

ShownIsRecent ==
    shown # None => /\ shown.at <= clock
                    /\ Current(shown.version, shown.at - TTL - SlowestRead + 1)

CacheInv ==
    CacheTypeOK /\ ChangesInOrder /\ ReadsAreRecent /\ EntriesAreRecent /\ ShownIsRecent
-----------------------------------------------------------------------------
(* Its steps *)

LEMMA VersionTyped ==
    ASSUME CacheTypeOK
    PROVE  Version \in Nat /\ changes \in [1..Version -> Nat]
BY DEF CacheTypeOK, Version

\* What was current at t still is after a change that comes later.
LEMMA StillCurrent ==
    ASSUME CacheTypeOK, changes' = Append(changes, clock), NEW v \in Nat, NEW t \in Int,
           t <= clock, Current(v, t)
    PROVE  Current(v, t)'
<1>1. Version' = Version + 1 /\ \A i \in 1..Version : changes'[i] = changes[i]
      /\ changes'[Version + 1] = clock
  BY VersionTyped DEF CacheTypeOK, Version
<1>. QED
  BY <1>1, VersionTyped DEF Current, CacheTypeOK

\* A later value appended to an ordered list.
LEMMA OneMoreInOrder ==
    ASSUME NEW n \in Nat, NEW c \in Nat, NEW f, NEW g, g[n + 1] = c,
           \A k \in 1..n : f[k] \in Nat /\ f[k] <= c /\ g[k] = f[k],
           \A j, k \in 1..n : j <= k => f[j] <= f[k]
    PROVE  /\ \A k \in 1..(n + 1) : g[k] <= c
           /\ \A j, k \in 1..(n + 1) : j <= k => g[j] <= g[k]
<1>1. \A k \in 1..(n + 1) : k \in 1..n \/ k = n + 1
  OBVIOUS
<1>2. \A k \in 1..(n + 1) : g[k] \in Nat /\ g[k] <= c
  BY <1>1
<1>3. \A j, k \in 1..(n + 1) : j <= k /\ k # n + 1 => j \in 1..n /\ k \in 1..n
  OBVIOUS
<1>. QED
  BY <1>2, <1>3

\* A change of the numbers: what was current until now was so a moment ago.
LEMMA ChangeKeepsInv ==
    ASSUME CacheInv, changes' = Append(changes, clock), UNCHANGED <<clock, store, reads, shown>>
    PROVE  CacheInv'
<1>1. CacheTypeOK /\ Version \in Nat
  BY VersionTyped DEF CacheInv
<1>2. CacheTypeOK'
  BY <1>1 DEF CacheTypeOK
<1>3. Version' = Version + 1 /\ changes'[Version + 1] = clock
      /\ \A i \in 1..Version : changes'[i] = changes[i]
  BY <1>1 DEF CacheTypeOK, Version
<1>4. ChangesInOrder'
  <2>1. PICK n \in Nat : n = Version
    BY <1>1
  <2>2. PICK f, g : f = changes /\ g = changes'
    OBVIOUS
  <2>3. \A k \in 1..n : f[k] \in Nat /\ f[k] <= clock /\ g[k] = f[k]
    BY <1>1, <1>3, <2>1, <2>2, VersionTyped DEF CacheInv, ChangesInOrder
  <2>4. \A j, k \in 1..n : j <= k => f[j] <= f[k]
    BY <2>1, <2>2 DEF CacheInv, ChangesInOrder
  <2>5. clock \in Nat /\ g[n + 1] = clock
    BY <1>1, <1>3, <2>1, <2>2 DEF CacheTypeOK
  <2>6. /\ \A k \in 1..(n + 1) : g[k] <= clock
        /\ \A j, k \in 1..(n + 1) : j <= k => g[j] <= g[k]
    BY ONLY <2>1, <2>3, <2>4, <2>5, OneMoreInOrder
  <2>. QED
    BY <1>3, <2>1, <2>2, <2>6 DEF ChangesInOrder
<1>5. ReadsAreRecent'
  <2>. SUFFICES ASSUME NEW r \in Readers, reads[r] # Idle
                PROVE  /\ reads[r].since <= clock /\ clock <= reads[r].since + SlowestRead
                       /\ reads[r].saw # None => Current(reads[r].saw, reads[r].since)'
    BY DEF ReadsAreRecent
  <2>1. reads[r] \in Request
    BY <1>1 DEF CacheTypeOK
  <2>. QED
    BY <1>1, <2>1, StillCurrent DEF CacheInv, ReadsAreRecent, Request
<1>6. EntriesAreRecent'
  <2>. SUFFICES ASSUME NEW u \in Urls, store[u] # None
                PROVE  /\ store[u].expires <= clock + TTL
                       /\ Current(store[u].version, store[u].expires - TTL - SlowestRead)'
    BY DEF EntriesAreRecent
  <2>1. store[u] \in Entry
    BY <1>1 DEF CacheTypeOK
  <2>2. store[u].expires <= clock + TTL
        /\ Current(store[u].version, store[u].expires - TTL - SlowestRead)
    BY DEF CacheInv, EntriesAreRecent
  <2>. QED
    BY <1>1, <2>1, <2>2, StillCurrent, CacheAssumption DEF Entry, CacheTypeOK
<1>7. ShownIsRecent'
  <2>. SUFFICES ASSUME shown # None
                PROVE  /\ shown.at <= clock
                       /\ Current(shown.version, shown.at - TTL - SlowestRead + 1)'
    BY DEF ShownIsRecent
  <2>1. shown \in Shown
    BY <1>1 DEF CacheTypeOK
  <2>2. shown.at <= clock /\ Current(shown.version, shown.at - TTL - SlowestRead + 1)
    BY DEF CacheInv, ShownIsRecent
  <2>. QED
    BY <1>1, <2>1, <2>2, StillCurrent, CacheAssumption DEF Shown, CacheTypeOK
<1>. QED
  BY <1>2, <1>4, <1>5, <1>6, <1>7 DEF CacheInv

\* An answer of a version that was current late enough.
LEMMA ShowKeepsInv ==
    ASSUME CacheTypeOK, NEW v \in Nat, Current(v, clock - TTL - SlowestRead + 1), Show(v),
           UNCHANGED <<clock, changes>>
    PROVE  shown' \in Shown /\ ShownIsRecent'
BY DEF Show, Shown, ShownIsRecent, CacheTypeOK, Current, Version

\* A hit shows an entry that has not expired.
LEMMA HitKeepsInv ==
    ASSUME CacheInv, NEW r \in Readers, NEW u \in Urls, Hit(r, u)
    PROVE  CacheInv'
<1>. DEFINE v == store[u].version
<1>1. CacheTypeOK /\ store[u] \in Entry /\ Show(v) /\ clock < store[u].expires
      /\ UNCHANGED <<clock, changes, store, reads>>
  BY DEF CacheInv, Hit, Live, CacheTypeOK
<1>2. v \in Nat /\ Current(v, clock - TTL - SlowestRead + 1)
  <2>1. Current(v, store[u].expires - TTL - SlowestRead)
    BY DEF Hit, Live, CacheInv, EntriesAreRecent
  <2>. QED
    BY <1>1, <2>1, VersionTyped, CacheAssumption DEF Current, Entry, CacheTypeOK
<1>. HIDE DEF v
<1>3. shown' \in Shown /\ ShownIsRecent'
  BY <1>1, <1>2, ShowKeepsInv
<1>. QED
  BY <1>1, <1>3
  DEF CacheInv, CacheTypeOK, ChangesInOrder, ReadsAreRecent, EntriesAreRecent, Current, Version

\* A miss begins a request.
LEMMA MissKeepsInv ==
    ASSUME CacheInv, NEW r \in Readers, NEW u \in Urls, Miss(r, u)
    PROVE  CacheInv'
<1>. DEFINE q == [url |-> u, since |-> clock, saw |-> None]
<1>1. CacheTypeOK /\ UNCHANGED <<clock, changes, store, shown>>
  BY DEF CacheInv, Miss
<1>2. q \in Request
  BY <1>1 DEF Request, CacheTypeOK
<1>3. reads' \in [Readers -> Request \cup {Idle}]
      /\ \A p \in Readers : reads'[p] = IF p = r THEN q ELSE reads[p]
  BY <1>1, <1>2 DEF Miss, CacheTypeOK
<1>4. ReadsAreRecent'
  BY <1>1, <1>3, CacheAssumption DEF CacheInv, ReadsAreRecent, CacheTypeOK, Current, Version
<1>. QED
  BY <1>1, <1>3, <1>4
  DEF CacheInv, CacheTypeOK, ChangesInOrder, EntriesAreRecent, ShownIsRecent, Current, Version

\* The query of a request reads the numbers of that moment.
LEMMA QueryKeepsInv ==
    ASSUME CacheInv, NEW r \in Readers, Query(r)
    PROVE  CacheInv'
<1>. DEFINE q == [reads[r] EXCEPT !.saw = Version]
<1>1. CacheTypeOK /\ Version \in Nat /\ reads[r] \in Request
      /\ UNCHANGED <<clock, changes, store, shown>>
  BY VersionTyped DEF CacheInv, Query, CacheTypeOK
<1>2. q \in Request /\ q.since = reads[r].since /\ q.saw = Version
  BY <1>1 DEF Request
<1>3. reads' \in [Readers -> Request \cup {Idle}]
      /\ \A p \in Readers : reads'[p] = IF p = r THEN q ELSE reads[p]
  BY <1>1, <1>2 DEF Query, CacheTypeOK
<1>4. Current(Version, reads[r].since)
  BY <1>1 DEF Current
<1>5. ReadsAreRecent'
  BY <1>1, <1>2, <1>3, <1>4 DEF CacheInv, Query, ReadsAreRecent, Current, Version
<1>. QED
  BY <1>1, <1>3, <1>5
  DEF CacheInv, CacheTypeOK, ChangesInOrder, EntriesAreRecent, ShownIsRecent, Current, Version

\* An answer is stored for one TTL, or not at all.
LEMMA AnswerKeepsInv ==
    ASSUME CacheInv, NEW r \in Readers, Answer(r)
    PROVE  CacheInv'
<1>1. CacheTypeOK /\ reads[r] \in Request /\ Show(reads[r].saw) /\ UNCHANGED <<clock, changes>>
  BY DEF CacheInv, Answer, CacheTypeOK, Idle
<1>2. PICK v \in Nat : v = reads[r].saw
  BY <1>1 DEF Answer, Request
<1>3. Current(v, clock - SlowestRead)
  <2>1. Current(v, reads[r].since) /\ clock <= reads[r].since + SlowestRead
    BY <1>2 DEF Answer, CacheInv, ReadsAreRecent, Idle
  <2>. QED
    BY <1>1, <2>1, VersionTyped, CacheAssumption DEF Current, Request, CacheTypeOK
<1>4. Current(v, clock - TTL - SlowestRead + 1)
  BY <1>1, <1>3, VersionTyped, CacheAssumption DEF Current, CacheTypeOK
<1>5. shown' \in Shown /\ ShownIsRecent'
  BY <1>1, <1>2, <1>4, ShowKeepsInv
<1>6. reads' \in [Readers -> Request \cup {Idle}] /\ ReadsAreRecent'
  BY <1>1 DEF Answer, CacheInv, CacheTypeOK, ReadsAreRecent, Current, Version
<1>7. PICK e \in Entry : e = [version |-> v, expires |-> clock + TTL]
  <2>1. [version |-> v, expires |-> clock + TTL] \in Entry
    BY <1>1, CacheAssumption DEF Entry, CacheTypeOK
  <2>. QED
    BY <2>1
<1>8. /\ store' \in [Urls -> Entry \cup {None}]
      /\ \A u \in Urls : store'[u] = e \/ store'[u] = store[u]
  BY <1>1, <1>2, <1>7 DEF Answer, CacheTypeOK
<1>9. e.expires <= clock + TTL /\ Current(e.version, e.expires - TTL - SlowestRead)
  <2>1. e.version = v /\ e.expires = clock + TTL
        /\ e.expires - TTL - SlowestRead = clock - SlowestRead
    BY <1>1, <1>7, CacheAssumption DEF CacheTypeOK
  <2>. QED
    BY <1>1, <1>3, <2>1, CacheAssumption DEF CacheTypeOK
<1>10. EntriesAreRecent'
  BY <1>1, <1>8, <1>9 DEF CacheInv, EntriesAreRecent, Current, Version
<1>. QED
  BY <1>1, <1>5, <1>6, <1>8, <1>10 DEF CacheInv, CacheTypeOK, ChangesInOrder, Version

\* Time passes, but never beyond what the slowest request takes.
LEMMA PassKeepsInv ==
    ASSUME CacheInv, Pass
    PROVE  CacheInv'
<1>1. CacheTypeOK /\ clock' = clock + 1 /\ UNCHANGED <<changes, store, reads, shown>>
  BY DEF CacheInv, Pass
<1>2. \A r \in Readers : reads[r] # Idle => reads[r] \in Request
  BY <1>1 DEF CacheTypeOK
<1>3. ReadsAreRecent'
  BY <1>1, <1>2, CacheAssumption
  DEF CacheInv, Pass, ReadsAreRecent, Request, Current, Version, CacheTypeOK
<1>4. EntriesAreRecent'
  BY <1>1, CacheAssumption
  DEF CacheInv, EntriesAreRecent, Entry, Current, Version, CacheTypeOK
<1>5. ShownIsRecent'
  BY <1>1 DEF CacheInv, ShownIsRecent, Shown, Current, Version, CacheTypeOK
<1>6. ChangesInOrder'
  BY <1>1, VersionTyped DEF CacheInv, ChangesInOrder, Version, CacheTypeOK
<1>. QED
  BY <1>1, <1>3, <1>4, <1>5, <1>6 DEF CacheInv, CacheTypeOK

\* An eviction empties the store, or fails.
LEMMA InvalidateKeepsInv ==
    ASSUME CacheInv, UNCHANGED <<clock, changes, reads, shown>>,
           store' \in {store, [u \in Urls |-> None]}
    PROVE  CacheInv'
BY DEF CacheInv, CacheTypeOK, ChangesInOrder, ReadsAreRecent, EntriesAreRecent,
       ShownIsRecent, Current, Version

\* No answer shows numbers that were replaced longer ago than one TTL and the
\* slowest request, whatever reads, failed evictions and late stores come between.
THEOREM StalenessIsBounded == CacheSpec => []StalenessBounded
<1>1. CacheInit => CacheInv
  <2>. SUFFICES ASSUME CacheInit PROVE CacheInv
    OBVIOUS
  <2>1. CacheTypeOK /\ Version = 0
    BY DEF CacheInit, CacheTypeOK, Version
  <2>. QED
    BY <2>1 DEF CacheInit, CacheInv, ChangesInOrder, ReadsAreRecent, EntriesAreRecent,
                ShownIsRecent
<1>2. CacheInv /\ [CacheNext]_cacheVars => CacheInv'
  <2>. SUFFICES ASSUME CacheInv, [CacheNext]_cacheVars PROVE CacheInv'
    OBVIOUS
  <2>1. CASE SeatMovement \/ CapacityEdit
    BY <2>1, ChangeKeepsInv DEF SeatMovement, CapacityEdit
  <2>2. CASE Invalidate \/ UNCHANGED cacheVars
    BY <2>2, InvalidateKeepsInv DEF Invalidate, cacheVars
  <2>. QED
    BY <2>1, <2>2, HitKeepsInv, MissKeepsInv, QueryKeepsInv, AnswerKeepsInv, PassKeepsInv
    DEF CacheNext
<1>3. CacheInv => StalenessBounded
  <2>. SUFFICES ASSUME CacheInv, shown # None, shown.version < Version
                PROVE  shown.at - changes[shown.version + 1] < TTL + SlowestRead
    BY DEF StalenessBounded
  <2>1. shown \in Shown /\ Version \in Nat /\ changes \in [1..Version -> Nat]
    BY VersionTyped DEF CacheInv, CacheTypeOK
  <2>2. changes[shown.version + 1] >= shown.at - TTL - SlowestRead + 1
    BY DEF CacheInv, ShownIsRecent, Current
  <2>3. changes[shown.version + 1] \in Nat
    BY <2>1 DEF Shown
  <2>. QED
    BY <2>1, <2>2, <2>3, CacheAssumption DEF Shown
<1>. QED
  BY <1>1, <1>2, <1>3, PTL DEF CacheSpec
-----------------------------------------------------------------------------
(* Slices of an ordered set *)

\* The larger and the smaller of two numbers.
LEMMA TwoNumbers ==
    ASSUME NEW a \in Int, NEW b \in Int
    PROVE  /\ a <= b => Min({a, b}) = a /\ Max({a, b}) = b
           /\ b <= a => Min({a, b}) = b /\ Max({a, b}) = a
<1>1. ASSUME NEW m \in {a, b}, \A y \in {a, b} : m <= y PROVE Min({a, b}) = m
  <2>1. Min({a, b}) \in {a, b} /\ \A y \in {a, b} : Min({a, b}) <= y
    BY <1>1 DEF Min
  <2>. QED
    BY <1>1, <2>1
<1>2. ASSUME NEW m \in {a, b}, \A y \in {a, b} : m >= y PROVE Max({a, b}) = m
  <2>1. Max({a, b}) \in {a, b} /\ \A y \in {a, b} : Max({a, b}) >= y
    BY <1>2 DEF Max
  <2>. QED
    BY <1>2, <2>1
<1>3. a <= b => Min({a, b}) = a /\ Max({a, b}) = b
  BY <1>1, <1>2
<1>4. b <= a => Min({a, b}) = b /\ Max({a, b}) = a
  BY <1>1, <1>2
<1>. QED
  BY <1>3, <1>4

\* Of r rows in pages of lim, so many are on the first n pages.
Upto(n, lim, r) == IF n * lim <= r THEN n * lim ELSE r

\* More pages hold at least as many rows, and no page more than lim.
LEMMA PagesAdd ==
    ASSUME NEW n \in Nat \ {0}, NEW lim \in Nat \ {0}, NEW r \in Nat
    PROVE  /\ (n - 1) * lim \in Nat /\ n * lim = (n - 1) * lim + lim
           /\ Upto(n - 1, lim, r) \in 0..r /\ Upto(n, lim, r) \in Upto(n - 1, lim, r)..r
           /\ Upto(0, lim, r) = 0
<1>1. PICK m \in Nat : m = n - 1 /\ n = m + 1
  OBVIOUS
<1>2. m * lim \in Nat /\ (m + 1) * lim = m * lim + lim /\ 0 * lim = 0
  OBVIOUS
<1>3. PICK x : x = m * lim
  OBVIOUS
<1>4. x \in Nat /\ (n - 1) * lim = x /\ n * lim = x + lim /\ 0 * lim = 0
  BY <1>1, <1>2, <1>3
<1>. QED
  BY <1>4 DEF Upto

\* rows are those of page n of o, a list of members of S.
IsPage(rows, n, lim, r, o, S) ==
    /\ rows \in Seq(S) /\ Len(rows) = Upto(n, lim, r) - Upto(n - 1, lim, r)
    /\ \A j \in 1..Len(rows) : rows[j] = o[Upto(n - 1, lim, r) + j]

\* The slice of page n skips the rows of the pages before it.
LEMMA SliceRows ==
    ASSUME NEW S, NEW r \in Nat, NEW o \in [1..r -> S],
           NEW n \in Nat \ {0}, NEW lim \in Nat \ {0}, NEW skip, skip = (n - 1) * lim
    PROVE  IsPage(Slice(o, skip, lim), n, lim, r, o, S)
<1>1. PICK x \in Nat : x = skip /\ x = (n - 1) * lim /\ n * lim = x + lim
  BY PagesAdd
<1>2. Len(o) = r
  OBVIOUS
<1>3. PICK y : y = Min({x + lim, r})
  OBVIOUS
<1>4. y = (IF x + lim <= r THEN x + lim ELSE r)
  BY <1>3, TwoNumbers
<1>5. PICK s : s = SubSeq(o, x + 1, y)
  OBVIOUS
<1>6. Slice(o, skip, lim) = s
  BY <1>1, <1>2, <1>3, <1>5 DEF Slice
<1>7. Upto(n, lim, r) = y /\ Upto(n - 1, lim, r) = (IF x <= r THEN x ELSE r)
  BY <1>1, <1>4 DEF Upto
<1>8. \A i \in (x + 1)..y : o[i] \in S
  BY <1>4
<1>9. /\ s \in Seq(S) /\ Len(s) = (IF x + 1 <= y THEN y - (x + 1) + 1 ELSE 0)
      /\ \A i \in 1..(y - (x + 1) + 1) : s[i] = o[(x + 1) + i - 1]
  BY <1>4, <1>5, <1>8, SubSeqProperties
<1>10. Len(s) = Upto(n, lim, r) - Upto(n - 1, lim, r)
  BY <1>4, <1>7, <1>9
<1>11. ASSUME NEW j \in 1..Len(s) PROVE s[j] = o[Upto(n - 1, lim, r) + j]
  <2>1. j \in 1..(y - (x + 1) + 1) /\ x < r /\ (x + 1) + j - 1 = x + j
    BY <1>4, <1>9
  <2>. QED
    BY <1>7, <1>9, <2>1
<1>. QED
  BY ONLY <1>6, <1>9, <1>10, <1>11 DEF IsPage

\* A set of numbers that is not empty has a smallest.
LEMMA LeastExists ==
    ASSUME NEW S, S \subseteq Nat, S # {}
    PROVE  \E m \in S : \A q \in S : m <= q
<1>1. PICK m \in S : \A q \in S : <<q, m>> \notin OpToRel(<, Nat)
  BY WFMin, NatLessThanWellFounded
<1>2. \A a, b \in Nat : a < b => <<a, b>> \in OpToRel(<, Nat)
  BY DEF OpToRel
<1>3. ASSUME NEW q \in S PROVE m <= q
  <2>1. ~(q < m)
    BY <1>1, <1>2
  <2>. QED
    BY <2>1
<1>. QED
  BY <1>3

\* f[i] is the first i pages of w in one list.
Flat(f, w, k) == f = [i \in 1..k |-> IF i = 1 THEN w[i] ELSE f[i - 1] \o w[i]]

\* Any number of pages make one list.
LEMMA FlatExists ==
    ASSUME NEW w, NEW k \in Nat
    PROVE  \E f : Flat(f, w, k)
<1>. USE DEF Flat
<1>. DEFINE Good(m) == \E f : Flat(f, w, m)
            Bad == {m \in Nat : ~Good(m)}
<1>. SUFFICES ASSUME Bad # {} PROVE FALSE
  OBVIOUS
<1>1. PICK m \in Bad : \A q \in Bad : m <= q
  <2>1. Bad \subseteq Nat
    OBVIOUS
  <2>. HIDE DEF Bad
  <2>. QED
    BY <2>1, LeastExists
<1>2. m # 0
  <2>1. PICK f : f = [i \in 1..0 |-> i]
    OBVIOUS
  <2>2. f = [i \in 1..0 |-> IF i = 1 THEN w[i] ELSE f[i - 1] \o w[i]]
    BY <2>1
  <2>. QED
    BY <2>2
<1>3. m - 1 \in Nat /\ m \in Nat /\ m - 1 \notin Bad
  <2>1. m \in Nat /\ m - 1 \in Nat
    BY <1>2
  <2>. HIDE DEF Bad
  <2>. QED
    BY <1>1, <2>1
<1>4. PICK f : f = [i \in 1..(m - 1) |-> IF i = 1 THEN w[i] ELSE f[i - 1] \o w[i]]
  BY <1>3
<1>5. PICK h : h = [i \in 1..m |-> IF i = m THEN (IF m = 1 THEN w[m] ELSE f[m - 1] \o w[m]) ELSE f[i]]
  OBVIOUS
<1>6. h = [i \in 1..m |-> IF i = 1 THEN w[i] ELSE h[i - 1] \o w[i]]
  <2>1. ASSUME NEW n \in 1..m
        PROVE  h[n] = IF n = 1 THEN w[n] ELSE h[n - 1] \o w[n]
    <3>1. CASE n = m /\ m = 1
      BY <1>5, <3>1
    <3>2. CASE n = m /\ m # 1
      <4>1. h[m - 1] = f[m - 1]
        BY <1>3, <1>5, <3>2
      <4>. QED
        BY <1>5, <3>2, <4>1
    <3>3. CASE n # m /\ n # 1
      <4>1. n - 1 \in 1..m /\ n - 1 # m /\ n \in 1..(m - 1)
        BY <1>3, <3>3
      <4>2. h[n - 1] = f[n - 1] /\ h[n] = f[n]
        BY <1>5, <3>3, <4>1
      <4>. QED
        BY <1>4, <3>3, <4>1, <4>2
    <3>4. CASE n # m /\ n = 1
      BY <1>3, <1>4, <1>5, <3>4
    <3>. QED
      BY <3>1, <3>2, <3>3, <3>4
  <2>2. DOMAIN h = 1..m /\ h = [n \in 1..m |-> h[n]]
    BY <1>5
  <2>. QED
    BY <2>1, <2>2
<1>. QED
  BY <1>1, <1>6

\* o has, in one list, the rows that the pages w have.
Tells(o, w, lim, r) ==
    \A n \in 1..Len(w) : \A j \in 1..Len(w[n]) : w[n][j] = o[Upto(n - 1, lim, r) + j]

\* all has so many rows as the pages w hold, the rows of o if they have them.
OneList(all, w, lim, r, o, S) ==
    /\ all \in Seq(S) /\ Len(all) = Upto(Len(w), lim, r)
    /\ Tells(o, w, lim, r) => \A j \in 1..Len(all) : all[j] = o[j]

\* The pages in one list have as many rows as there are up to the last of them.
LEMMA FlattenRows ==
    ASSUME NEW S, NEW w \in Seq(Seq(S)), NEW lim \in Nat \ {0}, NEW r \in Nat, NEW o,
           \A n \in 1..Len(w) : Len(w[n]) = Upto(n, lim, r) - Upto(n - 1, lim, r)
    PROVE  OneList(FlattenSeq(w), w, lim, r, o, S)
<1>0. Len(w) \in Nat /\ \A n \in 1..Len(w) : w[n] \in Seq(S)
  OBVIOUS
<1>1. CASE Len(w) = 0
  <2>1. FlattenSeq(w) = w
    BY <1>1 DEF FlattenSeq
  <2>2. w = <<>>
    BY <1>1
  <2>3. Upto(0, lim, r) = 0
    BY PagesAdd DEF Upto
  <2>4. w \in Seq(S) /\ Len(w) = 0
    BY <2>2
  <2>. QED
    BY <1>1, <2>1, <2>3, <2>4 DEF OneList
<1>2. CASE Len(w) # 0
  <2>1. PICK f : FlattenSeq(w) = f[Len(w)] /\ Flat(f, w, Len(w))
    <3>. DEFINE c == CHOOSE f : Flat(f, w, Len(w))
    <3>1. FlattenSeq(w) = c[Len(w)]
      BY <1>2 DEF FlattenSeq, Flat
    <3>2. Flat(c, w, Len(w))
      BY <1>0, FlatExists
    <3>. QED
      BY <3>1, <3>2
  <2>2. \A n \in 1..Len(w) : f[n] = IF n = 1 THEN w[n] ELSE f[n - 1] \o w[n]
    BY <2>1 DEF Flat
  <2>. DEFINE Right(n) == /\ f[n] \in Seq(S) /\ Len(f[n]) = Upto(n, lim, r)
                          /\ Tells(o, w, lim, r) => \A j \in 1..Len(f[n]) : f[n][j] = o[j]
              Bad == {n \in 1..Len(w) : ~Right(n)}
  <2>3. Bad = {}
    <3>. SUFFICES ASSUME Bad # {} PROVE FALSE
      OBVIOUS
    <3>1. PICK m \in Bad : \A q \in Bad : m <= q
      <4>1. Bad \subseteq Nat
        OBVIOUS
      <4>. HIDE DEF Bad
      <4>. QED
        BY <4>1, LeastExists
    <3>2. /\ m \in 1..Len(w) /\ m \in Nat \ {0} /\ w[m] \in Seq(S)
          /\ Len(w[m]) = Upto(m, lim, r) - Upto(m - 1, lim, r)
      BY <1>0
    <3>3. /\ Upto(m - 1, lim, r) \in 0..r /\ Upto(m, lim, r) \in Upto(m - 1, lim, r)..r
          /\ Upto(0, lim, r) = 0
      BY <3>2, PagesAdd
    <3>4. Tells(o, w, lim, r) =>
             \A j \in 1..Len(w[m]) : w[m][j] = o[Upto(m - 1, lim, r) + j]
      BY <3>2 DEF Tells
    <3>5. CASE m = 1
      <4>1. f[m] = w[m]
        BY <2>2, <3>2, <3>5
      <4>2. Upto(m - 1, lim, r) = 0
        BY <3>3, <3>5
      <4>3. Right(m)
        BY <3>2, <3>3, <3>4, <4>1, <4>2
      <4>. QED
        BY <4>3
    <3>6. CASE m # 1
      <4>1. m - 1 \in 1..Len(w) /\ m - 1 < m
        BY <3>2, <3>6
      <4>2. Right(m - 1)
        <5>1. m - 1 \notin Bad
          <6>. HIDE DEF Bad
          <6>. QED
            BY <3>1, <3>2, <4>1
        <5>. HIDE DEF Right
        <5>. QED
          BY <4>1, <5>1
      <4>3. f[m] = f[m - 1] \o w[m]
        BY <2>2, <3>2, <3>6
      <4>4. PICK g, h, x : g = f[m - 1] /\ h = w[m] /\ x = g \o h
        OBVIOUS
      <4>5. /\ g \in Seq(S) /\ h \in Seq(S) /\ Len(g) = Upto(m - 1, lim, r)
            /\ Len(h) = Upto(m, lim, r) - Upto(m - 1, lim, r)
            /\ Tells(o, w, lim, r) => \A j \in 1..Len(g) : g[j] = o[j]
        BY <3>2, <4>2, <4>4
      <4>6. /\ x \in Seq(S) /\ Len(x) = Len(g) + Len(h) /\ Len(g) \in Nat /\ Len(h) \in Nat
            /\ \A j \in 1..Len(x) :
                  \/ j \in 1..Len(g) /\ x[j] = g[j]
                  \/ j - Len(g) \in 1..Len(h) /\ x[j] = h[j - Len(g)]
        <5>1. g \in Seq(S) /\ h \in Seq(S) /\ Len(g) \in Nat /\ Len(h) \in Nat
          BY <4>5
        <5>2. x \in Seq(S) /\ Len(x) = Len(g) + Len(h)
          BY ONLY <4>4, <5>1, ConcatProperties
        <5>3. \A j \in 1..(Len(g) + Len(h)) : x[j] = IF j <= Len(g) THEN g[j] ELSE h[j - Len(g)]
          BY ONLY <4>4, <5>1, ConcatProperties
        <5>4. ASSUME NEW j \in 1..Len(x)
              PROVE  \/ j \in 1..Len(g) /\ x[j] = g[j]
                     \/ j - Len(g) \in 1..Len(h) /\ x[j] = h[j - Len(g)]
          <6>1. CASE j <= Len(g)
            BY ONLY <5>1, <5>2, <5>3, <6>1, j \in 1..Len(x)
          <6>2. CASE j > Len(g)
            <7>1. j - Len(g) \in 1..Len(h)
              BY ONLY <5>1, <5>2, <6>2, j \in 1..Len(x)
            <7>. QED
              BY ONLY <5>1, <5>2, <5>3, <6>2, <7>1, j \in 1..Len(x)
          <6>. QED
            BY ONLY <5>1, <6>1, <6>2, j \in 1..Len(x)
        <5>. QED
          BY ONLY <5>1, <5>2, <5>4
      <4>7. Len(x) = Upto(m, lim, r)
        BY <3>3, <4>5, <4>6
      <4>8. ASSUME Tells(o, w, lim, r), NEW j \in 1..Len(x) PROVE x[j] = o[j]
        <5>1. CASE j \in 1..Len(g) /\ x[j] = g[j]
          BY <4>5, <4>8, <5>1
        <5>2. CASE j - Len(g) \in 1..Len(h) /\ x[j] = h[j - Len(g)]
          <6>1. h[j - Len(g)] = o[Upto(m - 1, lim, r) + (j - Len(g))]
            BY <3>4, <4>4, <4>8, <5>2
          <6>2. Upto(m - 1, lim, r) + (j - Len(g)) = j
            BY <4>5, <4>6
          <6>. QED
            BY <5>2, <6>1, <6>2
        <5>. QED
          BY <4>6, <5>1, <5>2
      <4>9. f[m] = x
        BY <4>3, <4>4
      <4>10. Right(m)
        BY <4>6, <4>7, <4>8, <4>9
      <4>. QED
        BY <4>10
    <3>. QED
      BY <3>5, <3>6
  <2>4. Right(Len(w))
    <3>. HIDE DEF Right
    <3>. QED
      BY <1>0, <1>2, <2>3
  <2>. QED
    BY <2>1, <2>4 DEF OneList
<1>. QED
  BY <1>1, <1>2
-----------------------------------------------------------------------------
(* Orders of a finite set *)

\* A list of a set has each member once.
LEMMA ListOfSet ==
    ASSUME NEW S, IsFiniteSet(S), NEW o \in SetToSeqs(S)
    PROVE  /\ Cardinality(S) \in Nat /\ Len(o) = Cardinality(S)
           /\ o \in [1..Cardinality(S) -> S]
           /\ \A i, j \in 1..Cardinality(S) : o[i] = o[j] => i = j
           /\ \A x \in S : \E i \in 1..Cardinality(S) : o[i] = x
<1>1. PICK r \in Nat : r = Cardinality(S)
  BY FS_CardinalityType
<1>2. o \in [1..r -> S] /\ \A i, j \in 1..r : i # j => o[i] # o[j]
  BY <1>1 DEF SetToSeqs
<1>3. Len(o) = r
  BY <1>1, <1>2
<1>4. \A x \in S : \E i \in 1..r : o[i] = x
  <2>1. o \in Injection(1..r, S)
    BY <1>2 DEF Injection, IsInjective
  <2>2. Cardinality(1..r) = r
    BY <1>1, FS_Interval
  <2>3. o \in Surjection(1..r, S)
    BY <1>1, <2>1, <2>2, FS_Injection
  <2>. QED
    BY <2>3 DEF Surjection
<1>. QED
  BY <1>1, <1>2, <1>3, <1>4

\* o lists S by key, from the lowest.
Ranked(o, S, key) ==
    /\ o \in SetToSeqs(S)
    /\ \A i, j \in 1..Len(o) : i < j => key[o[i]] <= key[o[j]]

\* Keys that differ leave one order.
LEMMA OneOrder ==
    ASSUME NEW S, IsFiniteSet(S), NEW key, \A x \in S : key[x] \in Int,
           \A x, y \in S : key[x] = key[y] => x = y,
           NEW a, Ranked(a, S, key), NEW b, Ranked(b, S, key)
    PROVE  \A i \in 1..Cardinality(S) : a[i] = b[i]
<1>1. PICK r \in Nat : r = Cardinality(S)
  BY FS_CardinalityType
<1>2. /\ a \in [1..r -> S] /\ Len(a) = r
      /\ \A i, j \in 1..r : a[i] = a[j] => i = j
      /\ \A x \in S : \E i \in 1..r : a[i] = x
      /\ \A i, j \in 1..r : i < j => key[a[i]] <= key[a[j]]
  BY <1>1, ListOfSet DEF Ranked
<1>3. /\ b \in [1..r -> S] /\ Len(b) = r
      /\ \A i, j \in 1..r : b[i] = b[j] => i = j
      /\ \A x \in S : \E i \in 1..r : b[i] = x
      /\ \A i, j \in 1..r : i < j => key[b[i]] <= key[b[j]]
  BY <1>1, ListOfSet DEF Ranked
<1>. DEFINE Bad == {i \in 1..r : a[i] # b[i]}
<1>. SUFFICES ASSUME Bad # {} PROVE FALSE
  BY <1>1
<1>4. PICK i \in Bad : \A q \in Bad : i <= q
  <2>1. Bad \subseteq Nat
    OBVIOUS
  <2>. HIDE DEF Bad
  <2>. QED
    BY <2>1, LeastExists
<1>5. i \in 1..r /\ a[i] # b[i] /\ a[i] \in S /\ b[i] \in S
  BY <1>2, <1>3
<1>6. ASSUME NEW j \in 1..r, j < i PROVE a[j] = b[j]
  <2>1. j \notin Bad
    <3>. HIDE DEF Bad
    <3>. QED
      BY <1>4, <1>5, <1>6
  <2>. QED
    BY <2>1
<1>7. PICK j \in 1..r : b[j] = a[i]
  BY <1>3, <1>5
<1>8. PICK k \in 1..r : a[k] = b[i]
  BY <1>2, <1>5
<1>9. j > i
  <2>1. j # i
    BY <1>5, <1>7
  <2>2. ~(j < i)
    <3>. SUFFICES ASSUME j < i PROVE FALSE
      OBVIOUS
    <3>1. a[j] = a[i]
      BY <1>6, <1>7
    <3>. QED
      BY <1>2, <1>5, <3>1
  <2>. QED
    BY <1>5, <2>1, <2>2
<1>10. k > i
  <2>1. k # i
    BY <1>5, <1>8
  <2>2. ~(k < i)
    <3>. SUFFICES ASSUME k < i PROVE FALSE
      OBVIOUS
    <3>1. b[k] = b[i]
      BY <1>6, <1>8
    <3>. QED
      BY <1>3, <1>5, <3>1
  <2>. QED
    BY <1>5, <2>1, <2>2
<1>11. key[b[i]] <= key[a[i]] /\ key[a[i]] <= key[b[i]]
  BY <1>2, <1>3, <1>5, <1>7, <1>8, <1>9, <1>10
<1>12. key[a[i]] = key[b[i]]
  BY <1>5, <1>11
<1>. QED
  BY <1>5, <1>12

\* The first w of a list are a set of their own, in the same order.
LEMMA FirstRows ==
    ASSUME NEW M, IsFiniteSet(M), NEW o \in SetToSeqs(M), NEW w \in Nat,
           NEW S, S = Range(Slice(o, 0, w)),
           NEW r, r = IF Cardinality(M) <= w THEN Cardinality(M) ELSE w
    PROVE  /\ S \subseteq M /\ IsFiniteSet(S) /\ Cardinality(S) = r /\ r \in Nat
           /\ Slice(o, 0, w) \in SetToSeqs(S)
           /\ r <= Cardinality(M) /\ Len(Slice(o, 0, w)) = r
           /\ \A i \in 1..r : Slice(o, 0, w)[i] = o[i]
<1>1. PICK n \in Nat : n = Cardinality(M)
  BY FS_CardinalityType
<1>2. /\ o \in [1..n -> M] /\ Len(o) = n
      /\ \A i, j \in 1..n : o[i] = o[j] => i = j
  BY <1>1, ListOfSet
<1>3. r \in Nat /\ r <= n
  BY <1>1
<1>4. PICK s : s = SubSeq(o, 1, r)
  OBVIOUS
<1>5. Slice(o, 0, w) = s
  <2>1. 0 + w = w
    OBVIOUS
  <2>2. Min({w, n}) = r
    BY <1>1, TwoNumbers
  <2>3. Slice(o, 0, w) = SubSeq(o, 0 + 1, Min({0 + w, Len(o)}))
    BY DEF Slice
  <2>4. 0 + 1 = 1 /\ Len(o) = n
    BY <1>2
  <2>. QED
    BY ONLY <1>4, <2>1, <2>2, <2>3, <2>4, Zenon
<1>6. \A i \in 1..r : o[i] \in M
  BY <1>2, <1>3
<1>7. /\ s \in Seq(M) /\ Len(s) = r
      /\ \A i \in 1..r : s[i] = o[i]
  <2>1. /\ s \in Seq(M) /\ Len(s) = (IF 1 <= r THEN r - 1 + 1 ELSE 0)
        /\ \A i \in 1..(r - 1 + 1) : s[i] = o[1 + i - 1]
    BY <1>3, <1>4, <1>6, SubSeqProperties
  <2>. QED
    BY <1>3, <2>1
<1>8. S = {s[i] : i \in 1..r} /\ S \subseteq M
  <2>1. DOMAIN s = 1..r
    BY <1>7
  <2>. QED
    BY <1>5, <1>6, <1>7, <2>1 DEF Range
<1>9. IsFiniteSet(S)
  BY <1>8, FS_Subset
<1>10. s \in [1..r -> S] /\ \A i, j \in 1..r : i # j => s[i] # s[j]
  <2>1. s \in [1..r -> S]
    <3>1. s \in [1..r -> M]
      BY <1>7
    <3>. QED
      BY <1>8, <3>1
  <2>. QED
    BY <1>2, <1>3, <1>7, <2>1
<1>11. Cardinality(S) = r
  <2>1. s \in Injection(1..r, S)
    BY <1>10 DEF Injection, IsInjective
  <2>2. s \in Surjection(1..r, S)
    <3>1. \A t \in S : \E i \in 1..r : s[i] = t
      BY <1>8
    <3>. QED
      BY <1>10, <3>1 DEF Surjection
  <2>3. Cardinality(1..r) = r
    <3>1. r \in Int /\ (IF 1 > r THEN 0 ELSE r - 1 + 1) = r
      BY ONLY <1>3
    <3>. QED
      BY ONLY <3>1, FS_Interval
  <2>. QED
    BY ONLY <1>9, <2>1, <2>2, <2>3, FS_Injection
<1>12. s \in SetToSeqs(S)
  BY <1>10, <1>11 DEF SetToSeqs
<1>. QED
  BY <1>1, <1>3, <1>5, <1>7, <1>8, <1>9, <1>11, <1>12
-----------------------------------------------------------------------------
(* Addresses, parameters and queries *)

\* What CatalogPage makes of an address.
ListParams ==
    [search : Searches \cup {NoSearch}, department : Departments \cup {None},
     page : Nat \ {0}, limit : PageSizes \cup {DefaultSize}, sortBy : Sorts]

\* The request for page n of a view.
PageOf(p, n) == ListCoursesQuery(SerializeCatalogParams([p EXCEPT !.page = n]))

\* Whatever an address says, it is parsed to parameters the page can use.
LEMMA AddressIsParsed ==
    ASSUME NEW a \in Saying(Int, Nat)
    PROVE  ParseCatalogParams(a) \in ListParams
<1>1. /\ a.search \in Searches \cup {None} /\ a.page \in Int \cup {None, Junk}
      /\ a.sortBy \in Sorts \cup {None, Junk}
  BY DEF Saying
<1>2. PICK s : s = IF a.search = None THEN NoSearch ELSE a.search
  OBVIOUS
<1>3. s \in Searches \cup {NoSearch}
  BY <1>1, <1>2
<1>4. (IF a.page \in {None, Junk} \/ a.page < 1 THEN 1 ELSE a.page) \in Nat \ {0}
  BY <1>1
<1>5. (IF a.sortBy \in Sorts THEN a.sortBy ELSE DefaultSort(s)) \in Sorts
  BY DEF DefaultSort, Sorts
<1>6. (IF a.limit \in PageSizes THEN a.limit ELSE DefaultSize) \in PageSizes \cup {DefaultSize}
  OBVIOUS
<1>7. (IF a.department \in Departments THEN a.department ELSE None) \in Departments \cup {None}
  OBVIOUS
<1>. QED
  BY ONLY <1>2, <1>3, <1>4, <1>5, <1>6, <1>7 DEF ParseCatalogParams, ListParams

\* The fields of a request, whatever the address left to the defaults.
LEMMA PageAsksFor ==
    ASSUME NEW p \in ListParams, NEW n \in Nat \ {0}
    PROVE  /\ PageOf(p, n).search = IF p.search = NoSearch THEN None ELSE p.search
           /\ PageOf(p, n).department = p.department /\ PageOf(p, n).page = n
           /\ PageOf(p, n).limit = p.limit /\ PageOf(p, n).sortBy = p.sortBy
<1>1. /\ p.search \in Searches \cup {NoSearch} /\ p.limit \in Nat \ {0} /\ p.sortBy \in Sorts
  BY CatalogAssumption DEF ListParams
<1>2. PICK k : k = [p EXCEPT !.page = n]
  OBVIOUS
<1>3. /\ k.search = p.search /\ k.department = p.department /\ k.page = n
      /\ k.limit = p.limit /\ k.sortBy = p.sortBy
  BY <1>2 DEF ListParams
<1>4. PICK a : a = SerializeCatalogParams(k)
  OBVIOUS
<1>5. /\ a.search = IF p.search # NoSearch THEN p.search ELSE None
      /\ a.department = p.department
      /\ a.page = IF n > 1 THEN n ELSE None
      /\ a.limit = IF p.limit # DefaultSize THEN p.limit ELSE None
      /\ a.sortBy = IF p.sortBy # DefaultSort(p.search) THEN p.sortBy ELSE None
  BY <1>3, <1>4 DEF SerializeCatalogParams
<1>6. PageOf(p, n) = ListCoursesQuery(a)
  BY <1>2, <1>4 DEF PageOf
<1>7. None \notin Int /\ None \notin Searches \cup {NoSearch} /\ None \notin Sorts
  BY CatalogAssumption
<1>8. PageOf(p, n).search = a.search /\ PageOf(p, n).department = a.department
  BY <1>6 DEF ListCoursesQuery
<1>9. PageOf(p, n).page = n
  BY <1>5, <1>6, <1>7 DEF ListCoursesQuery
<1>10. PageOf(p, n).limit = p.limit
  BY <1>1, <1>5, <1>6, <1>7 DEF ListCoursesQuery
<1>11. PageOf(p, n).sortBy = p.sortBy
  <2>1. PageOf(p, n).sortBy = IF a.sortBy # None THEN a.sortBy
                              ELSE IF a.search # None THEN "relevance" ELSE "code"
    BY <1>6 DEF ListCoursesQuery
  <2>. QED
    BY <1>1, <1>5, <1>7, <2>1 DEF DefaultSort
<1>. QED
  BY <1>5, <1>8, <1>9, <1>10, <1>11

\* An address that the page has written says the parameters it was written from.
LEMMA ParametersSurvive ==
    ASSUME NEW p \in ListParams
    PROVE  /\ SerializeCatalogParams(p) \in Saying(Int, Nat)
           /\ ParseCatalogParams(SerializeCatalogParams(p)) = p
<1>1. /\ p.search \in Searches \cup {NoSearch} /\ p.limit \in PageSizes \cup {DefaultSize}
      /\ p.sortBy \in Sorts /\ p.page \in Nat \ {0} /\ p.department \in Departments \cup {None}
      /\ p = [search |-> p.search, department |-> p.department, page |-> p.page,
              limit |-> p.limit, sortBy |-> p.sortBy]
  BY DEF ListParams
<1>2. /\ None \notin Int /\ Junk \notin Int /\ None \notin Searches \cup {NoSearch} /\ None \notin Sorts
      /\ PageSizes \subseteq Nat \ {0} /\ DefaultSize \in Nat \ {0}
  BY CatalogAssumption
<1>3. PICK a : a = SerializeCatalogParams(p)
  OBVIOUS
<1>4. /\ a = [search |-> a.search, department |-> a.department, page |-> a.page,
              limit |-> a.limit, sortBy |-> a.sortBy]
      /\ a.search = IF p.search # NoSearch THEN p.search ELSE None
      /\ a.department = p.department
      /\ a.page = IF p.page > 1 THEN p.page ELSE None
      /\ a.limit = IF p.limit # DefaultSize THEN p.limit ELSE None
      /\ a.sortBy = IF p.sortBy # DefaultSort(p.search) THEN p.sortBy ELSE None
  BY <1>3 DEF SerializeCatalogParams
<1>5. a \in Saying(Int, Nat)
  <2>1. /\ a.search \in Searches \cup {None} /\ a.department \in Departments \cup {None, Junk}
        /\ a.sortBy \in Sorts \cup {None, Junk}
    BY <1>1, <1>4
  <2>2. a.page \in Int \cup {None, Junk} /\ a.limit \in Nat \cup {None, Junk}
    BY <1>1, <1>2, <1>4
  <2>. QED
    BY ONLY <1>4, <2>1, <2>2 DEF Saying
<1>6. (IF a.search = None THEN NoSearch ELSE a.search) = p.search
  BY <1>1, <1>2, <1>4
<1>7. (IF a.department \in Departments THEN a.department ELSE None) = p.department
  BY <1>1, <1>4
<1>8. (IF a.page \in {None, Junk} \/ a.page < 1 THEN 1 ELSE a.page) = p.page
  BY <1>1, <1>2, <1>4
<1>9. (IF a.limit \in PageSizes THEN a.limit ELSE DefaultSize) = p.limit
  BY <1>1, <1>2, <1>4
<1>10. (IF a.sortBy \in Sorts THEN a.sortBy ELSE DefaultSort(p.search)) = p.sortBy
  BY <1>1, <1>2, <1>4
<1>11. ParseCatalogParams(a) = [search |-> p.search, department |-> p.department,
                                page |-> p.page, limit |-> p.limit, sortBy |-> p.sortBy]
  BY <1>6, <1>7, <1>8, <1>9, <1>10 DEF ParseCatalogParams
<1>. QED
  BY <1>1, <1>3, <1>5, <1>11

\* A page is searched when the view is, and its matches are what the view wants.
LEMMA WhatIsWanted ==
    ASSUME NEW p \in ListParams, NEW n \in Nat \ {0}
    PROVE  /\ Searching(PageOf(p, n)) <=> p.search \notin {NoSearch, Blank}
           /\ Wanted(p) \subseteq Catalog /\ IsFiniteSet(Wanted(p))
           /\ Matches(PageOf(p, n)) = Wanted(p)
           /\ Total(PageOf(p, n)) = Cardinality(Wanted(p))
<1>1. PICK q : q = PageOf(p, n)
  OBVIOUS
<1>2. /\ q.search = IF p.search = NoSearch THEN None ELSE p.search
      /\ q.department = p.department
  BY <1>1, PageAsksFor
<1>3. None \notin Searches \cup {NoSearch} /\ p.search \in Searches \cup {NoSearch}
  BY CatalogAssumption DEF ListParams
<1>4. Searching(q) <=> p.search \notin {NoSearch, Blank}
  BY <1>2, <1>3 DEF Searching
<1>5. Wanted(p) \subseteq Catalog /\ IsFiniteSet(Wanted(p))
  <2>1. Wanted(p) \subseteq Catalog
    BY DEF Wanted
  <2>. QED
    BY <2>1, CatalogAssumption, FS_Subset
<1>6. Matches(q) = Wanted(p)
  <2>1. CASE p.search \in {NoSearch, Blank}
    BY <1>2, <1>4, <2>1 DEF Matches, InDepartment, Wanted
  <2>2. CASE p.search \notin {NoSearch, Blank}
    BY <1>2, <1>4, <2>2 DEF Matches, InDepartment, Wanted
  <2>. QED
    BY <2>1, <2>2
<1>. QED
  BY <1>1, <1>4, <1>5, <1>6 DEF Total

\* The place that each course has in the order of a view.
KeyOf(p) == [c \in Catalog |-> Key(PageOf(p, 1), c)]

\* Every page of a view puts its rows in the order that the view asks for.
LEMMA KeysOrder ==
    ASSUME NEW p \in ListParams, NEW n \in Nat \ {0}
    PROVE  /\ \A c \in Catalog : Key(PageOf(p, n), c) = KeyOf(p)[c] /\ KeyOf(p)[c] \in Int
           /\ \A c, d \in Catalog : Before(p, c, d) <=> KeyOf(p)[c] < KeyOf(p)[d]
<1>1. ASSUME NEW m \in Nat \ {0}, NEW c \in Catalog
      PROVE  Key(PageOf(p, m), c) =
                IF p.search \notin {NoSearch, Blank} THEN -Relevance[p.search][c]
                ELSE IF p.sortBy = "title" THEN TitleRank[c]
                ELSE IF p.sortBy = "code" THEN c ELSE 0
  <2>1. /\ PageOf(p, m).search = IF p.search = NoSearch THEN None ELSE p.search
        /\ PageOf(p, m).sortBy = p.sortBy
        /\ Searching(PageOf(p, m)) <=> p.search \notin {NoSearch, Blank}
    BY PageAsksFor, WhatIsWanted
  <2>. QED
    BY <2>1 DEF Key
<1>2. /\ p.search \notin {NoSearch, Blank} => Relevance[p.search] \in [Catalog -> Nat]
      /\ TitleRank \in [Catalog -> Nat] /\ Catalog \subseteq Nat
  BY CatalogAssumption DEF ListParams
<1>3. 1 \in Nat \ {0}
  OBVIOUS
<1>4. \A c \in Catalog : KeyOf(p)[c] = Key(PageOf(p, 1), c)
  BY DEF KeyOf
<1>5. \A c \in Catalog : Key(PageOf(p, n), c) = KeyOf(p)[c]
  BY <1>1, <1>3, <1>4
<1>6. CASE p.search \notin {NoSearch, Blank}
  <2>1. \A c \in Catalog : KeyOf(p)[c] = -Relevance[p.search][c] /\ Relevance[p.search][c] \in Nat
    BY <1>1, <1>2, <1>3, <1>4, <1>6
  <2>2. \A c, d \in Catalog : Before(p, c, d) <=> Relevance[p.search][c] > Relevance[p.search][d]
    BY <1>6 DEF Before
  <2>. QED
    BY <1>5, <2>1, <2>2
<1>7. CASE p.search \in {NoSearch, Blank} /\ p.sortBy = "title"
  <2>1. \A c \in Catalog : KeyOf(p)[c] = TitleRank[c] /\ TitleRank[c] \in Nat
    BY <1>1, <1>2, <1>3, <1>4, <1>7
  <2>2. \A c, d \in Catalog : Before(p, c, d) <=> TitleRank[c] < TitleRank[d]
    BY <1>7 DEF Before
  <2>. QED
    BY <1>5, <2>1, <2>2
<1>8. CASE p.search \in {NoSearch, Blank} /\ p.sortBy # "title"
  <2>1. \A c \in Catalog : KeyOf(p)[c] = (IF p.sortBy = "code" THEN c ELSE 0) /\ c \in Nat
    BY <1>1, <1>2, <1>3, <1>4, <1>8
  <2>2. \A c, d \in Catalog : Before(p, c, d) <=> p.sortBy = "code" /\ c < d
    BY <1>8 DEF Before
  <2>. QED
    BY <1>5, <2>1, <2>2
<1>. QED
  BY <1>6, <1>7, <1>8

\* The orders of a page are those by that place.
LEMMA OrdersRank ==
    ASSUME NEW p \in ListParams, NEW n \in Nat \ {0}, NEW S \in SUBSET Catalog, NEW o
    PROVE  o \in Orders(PageOf(p, n), S) <=> Ranked(o, S, KeyOf(p))
<1>1. IsFiniteSet(S)
  BY CatalogAssumption, FS_Subset
<1>. SUFFICES ASSUME o \in SetToSeqs(S)
              PROVE  (\A i, j \in 1..Len(o) : i < j =>
                         Key(PageOf(p, n), o[i]) <= Key(PageOf(p, n), o[j])) <=>
                     (\A i, j \in 1..Len(o) : i < j => KeyOf(p)[o[i]] <= KeyOf(p)[o[j]])
  BY DEF Orders, Ranked
<1>2. \A i \in 1..Len(o) : o[i] \in Catalog
  BY <1>1, ListOfSet
<1>. QED
  BY <1>2, KeysOrder

\* So many rows a student can reach by paging.
Reached(p) ==
    Min({Cardinality(Wanted(p)),
         IF p.search \in {NoSearch, Blank} THEN Cardinality(Catalog) ELSE Window})

\* All of the courses that a view wants, or as many of a search as the candidate
\* window holds.
LEMMA ReachedIs ==
    ASSUME NEW p \in ListParams
    PROVE  /\ Reached(p) \in Nat /\ Cardinality(Wanted(p)) \in Nat
           /\ Reached(p) = IF p.search \in {NoSearch, Blank} \/ Cardinality(Wanted(p)) <= Window
                           THEN Cardinality(Wanted(p)) ELSE Window
<1>1. Wanted(p) \subseteq Catalog /\ IsFiniteSet(Wanted(p)) /\ IsFiniteSet(Catalog) /\ Window \in Nat
  <2>1. 1 \in Nat \ {0}
    OBVIOUS
  <2>. QED
    BY <2>1, WhatIsWanted, CatalogAssumption
<1>2. PICK w, c : w = Cardinality(Wanted(p)) /\ c = Cardinality(Catalog)
  OBVIOUS
<1>3. w \in Nat /\ c \in Nat /\ w <= c
  BY <1>1, <1>2, FS_CardinalityType, FS_Subset
<1>4. CASE p.search \in {NoSearch, Blank}
  <2>1. Reached(p) = Min({w, c})
    BY <1>2, <1>4 DEF Reached
  <2>. QED
    BY <1>2, <1>3, <1>4, <2>1, TwoNumbers
<1>5. CASE p.search \notin {NoSearch, Blank}
  <2>1. Reached(p) = Min({w, Window})
    BY <1>2, <1>5 DEF Reached
  <2>2. Min({w, Window}) = IF w <= Window THEN w ELSE Window
    BY <1>1, <1>3, TwoNumbers
  <2>. QED
    BY <1>1, <1>2, <1>3, <1>5, <2>1, <2>2
<1>. QED
  BY <1>4, <1>5

\* The rows of a page are a slice of an order of the candidates, who are the first
\* of an order of all that the view wants.
LEMMA PageIsSlice ==
    ASSUME NEW p \in ListParams, NEW n \in Nat \ {0}, NEW rows \in Slices(PageOf(p, n))
    PROVE  \E S \in SUBSET Wanted(p) : \E a, b, m :
              /\ Cardinality(S) = Reached(p)
              /\ Ranked(a, S, KeyOf(p)) /\ Ranked(b, S, KeyOf(p))
              /\ Ranked(m, Wanted(p), KeyOf(p))
              /\ \A i \in 1..Reached(p) : b[i] = m[i]
              /\ rows = Slice(a, (n - 1) * p.limit, p.limit)
<1>1. PICK q : q = PageOf(p, n)
  OBVIOUS
<1>2. /\ q.page = n /\ q.limit = p.limit
      /\ Searching(q) <=> p.search \notin {NoSearch, Blank}
      /\ Wanted(p) \subseteq Catalog /\ IsFiniteSet(Wanted(p)) /\ Matches(q) = Wanted(p)
  BY <1>1, PageAsksFor, WhatIsWanted
<1>3. PICK S \in Candidates(q) :
         rows \in {Slice(o, (q.page - 1) * q.limit, q.limit) : o \in Orders(q, S)}
  BY <1>1 DEF Slices
<1>4. PICK a \in Orders(q, S) : rows = Slice(a, (n - 1) * p.limit, p.limit)
  BY <1>2, <1>3
<1>5. CASE ~Searching(q)
  <2>1. S = Wanted(p)
    BY <1>2, <1>5 DEF Candidates
  <2>2. Ranked(a, S, KeyOf(p))
    BY <1>1, <1>2, <2>1, OrdersRank
  <2>3. Cardinality(S) = Reached(p)
    BY <1>2, <1>5, <2>1, ReachedIs
  <2>. QED
    BY <1>4, <2>1, <2>2, <2>3
<1>6. CASE Searching(q)
  <2>1. PICK m \in Orders(q, Wanted(p)) : S = Range(Slice(m, 0, Window))
    BY <1>2, <1>6 DEF Candidates
  <2>2. Ranked(m, Wanted(p), KeyOf(p))
    BY <1>1, <1>2, <2>1, OrdersRank
  <2>3. PICK b : b = Slice(m, 0, Window)
    OBVIOUS
  <2>4. /\ Window \in Nat /\ Reached(p) \in Nat /\ Cardinality(Wanted(p)) \in Nat
        /\ Reached(p) = IF Cardinality(Wanted(p)) <= Window
                        THEN Cardinality(Wanted(p)) ELSE Window
    BY <1>2, <1>6, ReachedIs, CatalogAssumption
  <2>5. /\ S \subseteq Wanted(p) /\ Cardinality(S) = Reached(p)
        /\ b \in SetToSeqs(S) /\ Len(b) = Reached(p)
        /\ Reached(p) <= Cardinality(Wanted(p))
        /\ \A i \in 1..Reached(p) : b[i] = m[i]
    <3>1. m \in SetToSeqs(Wanted(p))
      BY <2>2 DEF Ranked
    <3>. QED
      BY <1>2, <2>1, <2>3, <2>4, <3>1, FirstRows
  <2>6. Ranked(b, S, KeyOf(p))
    <3>1. Len(m) = Cardinality(Wanted(p))
      BY <1>2, <2>2, ListOfSet DEF Ranked
    <3>2. \A i, j \in 1..Reached(p) : i < j => KeyOf(p)[b[i]] <= KeyOf(p)[b[j]]
      BY <2>2, <2>4, <2>5, <3>1 DEF Ranked
    <3>. QED
      BY <2>5, <3>2 DEF Ranked
  <2>7. Ranked(a, S, KeyOf(p))
    BY <1>1, <1>2, <2>5, OrdersRank
  <2>. QED
    BY <1>4, <2>2, <2>5, <2>6, <2>7
<1>. QED
  BY <1>5, <1>6

\* Of a definite order, no two courses have the same place.
LEMMA PlacesDiffer ==
    ASSUME NEW p \in ListParams, Definite(p)
    PROVE  \A c, d \in Wanted(p) : KeyOf(p)[c] = KeyOf(p)[d] => c = d
<1>1. 1 \in Nat \ {0}
  OBVIOUS
<1>2. Wanted(p) \subseteq Catalog
  BY <1>1, WhatIsWanted
<1>. QED
  BY <1>1, <1>2, KeysOrder DEF Definite

\* A page has as many rows as are left for it, and of a definite order they are the
\* next of the one order that there is.
LEMMA RowsOfPage ==
    ASSUME NEW p \in ListParams, NEW n \in Nat \ {0}, NEW rows \in Slices(PageOf(p, n))
    PROVE  /\ rows \in Seq(Catalog)
           /\ Len(rows) = Upto(n, p.limit, Reached(p)) - Upto(n - 1, p.limit, Reached(p))
           /\ \E o : Ranked(o, Wanted(p), KeyOf(p))
           /\ Definite(p) =>
                \A o : Ranked(o, Wanted(p), KeyOf(p)) =>
                   \A j \in 1..Len(rows) : rows[j] = o[Upto(n - 1, p.limit, Reached(p)) + j]
<1>1. PICK S \in SUBSET Wanted(p) : \E a, b, m :
              /\ Cardinality(S) = Reached(p)
              /\ Ranked(a, S, KeyOf(p)) /\ Ranked(b, S, KeyOf(p))
              /\ Ranked(m, Wanted(p), KeyOf(p))
              /\ \A i \in 1..Reached(p) : b[i] = m[i]
              /\ rows = Slice(a, (n - 1) * p.limit, p.limit)
  BY PageIsSlice
<1>2. PICK a, b, m :
              /\ Cardinality(S) = Reached(p)
              /\ Ranked(a, S, KeyOf(p)) /\ Ranked(b, S, KeyOf(p))
              /\ Ranked(m, Wanted(p), KeyOf(p))
              /\ \A i \in 1..Reached(p) : b[i] = m[i]
              /\ rows = Slice(a, (n - 1) * p.limit, p.limit)
  BY <1>1
<1>3. PICK r, lim : r = Reached(p) /\ lim = p.limit
  OBVIOUS
<1>4. /\ r \in Nat /\ lim \in Nat \ {0} /\ Cardinality(Wanted(p)) \in Nat
      /\ r <= Cardinality(Wanted(p))
  <2>1. p.limit \in Nat \ {0}
    BY CatalogAssumption DEF ListParams
  <2>2. Window \in Nat
    BY CatalogAssumption
  <2>. QED
    BY <1>3, <2>1, <2>2, ReachedIs
<1>5. Wanted(p) \subseteq Catalog /\ IsFiniteSet(Wanted(p)) /\ IsFiniteSet(S)
  <2>1. 1 \in Nat \ {0}
    OBVIOUS
  <2>2. Wanted(p) \subseteq Catalog /\ IsFiniteSet(Wanted(p))
    BY <2>1, WhatIsWanted
  <2>. QED
    BY <1>1, <2>2, FS_Subset
<1>6. a \in [1..r -> S]
  BY <1>2, <1>3, <1>5, ListOfSet DEF Ranked
<1>7. /\ rows \in Seq(S) /\ Len(rows) = Upto(n, lim, r) - Upto(n - 1, lim, r)
      /\ \A j \in 1..Len(rows) : rows[j] = a[Upto(n - 1, lim, r) + j]
  <2>1. rows = Slice(a, (n - 1) * lim, lim)
    BY <1>2, <1>3
  <2>2. PICK skip : skip = (n - 1) * lim
    OBVIOUS
  <2>3. IsPage(Slice(a, skip, lim), n, lim, r, a, S)
    BY ONLY n \in Nat \ {0}, <1>4, <1>6, <2>2, SliceRows
  <2>. QED
    BY ONLY <2>1, <2>2, <2>3 DEF IsPage
<1>8. rows \in Seq(Catalog)
  BY <1>1, <1>5, <1>7
<1>9. Upto(n - 1, lim, r) \in 0..r /\ Upto(n, lim, r) \in 0..r
  BY <1>4, PagesAdd
<1>10. ASSUME Definite(p), NEW o, Ranked(o, Wanted(p), KeyOf(p)), NEW j \in 1..Len(rows)
       PROVE  rows[j] = o[Upto(n - 1, lim, r) + j]
  <2>1. Upto(n - 1, lim, r) + j \in 1..r
    BY <1>4, <1>7, <1>9
  <2>2. \A x \in Wanted(p) : KeyOf(p)[x] \in Int
    BY <1>5, KeysOrder
  <2>3. \A x, y \in Wanted(p) : KeyOf(p)[x] = KeyOf(p)[y] => x = y
    BY <1>10, PlacesDiffer
  <2>4. \A i \in 1..r : a[i] = b[i]
    BY <1>1, <1>2, <1>3, <1>5, <2>2, <2>3, OneOrder
  <2>5. \A i \in 1..Cardinality(Wanted(p)) : m[i] = o[i]
    BY <1>2, <1>5, <1>10, <2>2, <2>3, OneOrder
  <2>6. \A i \in 1..r : a[i] = o[i]
    BY <1>2, <1>3, <1>4, <2>4, <2>5
  <2>. QED
    BY <1>7, <2>1, <2>6
<1>. QED
  BY <1>2, <1>3, <1>7, <1>8, <1>10

\* So many pages of l hold w rows.
LEMMA CeilHolds ==
    ASSUME NEW w \in Nat, NEW l \in Nat \ {0}
    PROVE  CeilDiv(w, l) \in Nat /\ w <= CeilDiv(w, l) * l
<1>1. PICK a : a = w + l - 1
  OBVIOUS
<1>2. a \in Nat /\ CeilDiv(w, l) = a \div l
  BY <1>1 DEF CeilDiv
<1>3. a \div l \in Nat /\ a = l * (a \div l) + (a % l) /\ a % l \in 0..(l - 1)
  BY <1>2
<1>4. PICK d, e : d = a \div l /\ e = a % l
  OBVIOUS
<1>5. PICK x : x = d * l
  OBVIOUS
<1>6. x \in Int /\ a = x + e /\ e \in 0..(l - 1)
  BY <1>3, <1>4, <1>5
<1>7. w <= x
  BY <1>1, <1>6
<1>. QED
  BY <1>2, <1>3, <1>4, <1>5, <1>7

\* Every page of a view counts the same pages, and they are enough for the rows that
\* can be reached.
LEMMA PagesReach ==
    ASSUME NEW p \in ListParams, NEW n \in Nat \ {0}
    PROVE  /\ TotalPages(PageOf(p, n)) = TotalPages(PageOf(p, 1))
           /\ TotalPages(PageOf(p, n)) \in Nat
           /\ Total(PageOf(p, n)) > 0 => TotalPages(PageOf(p, n)) \in Nat \ {0}
           /\ Upto(TotalPages(PageOf(p, n)), p.limit, Reached(p)) = Reached(p)
<1>1. PICK w, l, r : w = Cardinality(Wanted(p)) /\ l = p.limit /\ r = Reached(p)
  OBVIOUS
<1>2. w \in Nat /\ l \in Nat \ {0} /\ r \in Nat /\ r <= w
  <2>1. p.limit \in Nat \ {0}
    BY CatalogAssumption DEF ListParams
  <2>2. Window \in Nat
    BY CatalogAssumption
  <2>. QED
    BY <1>1, <2>1, <2>2, ReachedIs
<1>3. PICK c : c = CeilDiv(w, l)
  OBVIOUS
<1>4. PICK t : t = IF p.search \notin {NoSearch, Blank} /\ w = 0 THEN 0 ELSE Max({1, c})
  OBVIOUS
<1>5. ASSUME NEW m \in Nat \ {0}
      PROVE  TotalPages(PageOf(p, m)) = t /\ Total(PageOf(p, m)) = w
  <2>1. /\ Searching(PageOf(p, m)) <=> p.search \notin {NoSearch, Blank}
        /\ Total(PageOf(p, m)) = w /\ PageOf(p, m).limit = l
    BY <1>1, PageAsksFor, WhatIsWanted
  <2>. QED
    BY <1>3, <1>4, <2>1 DEF TotalPages
<1>6. c \in Nat /\ w <= c * l
  BY <1>2, <1>3, CeilHolds
<1>7. Max({1, c}) = IF c <= 1 THEN 1 ELSE c
  BY <1>6, TwoNumbers
<1>8. t \in Nat /\ (w > 0 => t \in Nat \ {0}) /\ Upto(t, l, r) = r
  <2>1. CASE p.search \notin {NoSearch, Blank} /\ w = 0
    <3>1. t = 0 /\ r = 0
      BY <1>2, <1>4, <2>1
    <3>2. 0 * l = 0
      BY <1>2
    <3>. QED
      BY <2>1, <3>1, <3>2 DEF Upto
  <2>2. CASE ~(p.search \notin {NoSearch, Blank} /\ w = 0)
    <3>1. t = (IF c <= 1 THEN 1 ELSE c) /\ t \in Nat \ {0}
      BY <1>4, <1>6, <1>7, <2>2
    <3>2. w <= t * l
      <4>1. CASE c = 0
        BY <1>2, <1>6, <3>1, <4>1
      <4>2. CASE c # 0
        <5>1. t = c
          BY <1>6, <3>1, <4>2
        <5>. QED
          BY <1>6, <5>1
      <4>. QED
        BY <4>1, <4>2
    <3>3. PICK x : x = t * l
      OBVIOUS
    <3>4. x \in Int
      BY <1>2, <3>1, <3>3
    <3>. QED
      BY <1>2, <3>1, <3>2, <3>3, <3>4 DEF Upto
  <2>. QED
    BY <2>1, <2>2
<1>9. 1 \in Nat \ {0}
  OBVIOUS
<1>. QED
  BY <1>1, <1>5, <1>8, <1>9
-----------------------------------------------------------------------------
(* The walk through the pages *)

\* The pages opened in turn are pages of the view of the address, whatever its page,
\* and what is shown is of that view.
ListInv ==
    /\ walked \in Seq(Seq(Catalog))
    /\ address = None => view = None /\ walked = <<>>
    /\ address # None =>
         /\ address \in Saying(Int, Nat)
         /\ \A n \in 1..Len(walked) : walked[n] \in Slices(PageOf(ParseCatalogParams(address), n))
    /\ view # None =>
         /\ address # None /\ view.params = ParseCatalogParams(address)
         /\ view.total = Cardinality(Wanted(view.params))
         /\ view.totalPages = TotalPages(PageOf(view.params, 1))

\* Another page of a view asks for the same pages.
LEMMA PagesOfOneView ==
    ASSUME NEW p \in ListParams, NEW n \in Nat \ {0}
    PROVE  /\ [p EXCEPT !.page = n] \in ListParams
           /\ \A m \in Nat : PageOf([p EXCEPT !.page = n], m) = PageOf(p, m)
           /\ ListCoursesQuery(SerializeCatalogParams(p)) = PageOf(p, p.page)
           /\ p.page \in Nat \ {0}
<1>1. [p EXCEPT !.page = n] \in ListParams /\ p.page \in Nat \ {0}
  BY DEF ListParams
<1>2. \A m \in Nat : [[p EXCEPT !.page = n] EXCEPT !.page = m] = [p EXCEPT !.page = m]
  BY DEF ListParams
<1>3. [p EXCEPT !.page = p.page] = p
  BY DEF ListParams
<1>. QED
  BY <1>1, <1>2, <1>3 DEF PageOf

\* The address of another page of the view shown keeps the walk.
LEMMA OtherPage ==
    ASSUME ListInv, address # None, NEW n \in Nat \ {0},
           address' = SerializeCatalogParams([ParseCatalogParams(address) EXCEPT !.page = n]),
           view' = None, UNCHANGED walked
    PROVE  ListInv'
<1>1. PICK p \in ListParams : p = ParseCatalogParams(address)
  BY AddressIsParsed DEF ListInv
<1>2. PICK k : k = [p EXCEPT !.page = n]
  OBVIOUS
<1>3. k \in ListParams /\ \A m \in Nat : PageOf(k, m) = PageOf(p, m)
  BY <1>2, PagesOfOneView
<1>4. address' \in Saying(Int, Nat) /\ ParseCatalogParams(address') = k
  BY <1>1, <1>2, <1>3, ParametersSurvive
<1>5. address' # None
  BY <1>4, CatalogAssumption
<1>6. /\ walked \in Seq(Seq(Catalog))
      /\ \A m \in 1..Len(walked) : walked[m] \in Slices(PageOf(p, m))
  BY <1>1 DEF ListInv
<1>7. \A m \in 1..Len(walked) : walked[m] \in Slices(PageOf(k, m))
  BY <1>3, <1>6
<1>. QED
  BY <1>4, <1>5, <1>6, <1>7 DEF ListInv

\* No step takes the walk out of its view.
LEMMA ListStep ==
    ASSUME ListInv, [ListNext]_listVars
    PROVE  ListInv'
<1>1. CASE UNCHANGED listVars
  BY <1>1 DEF listVars, ListInv
<1>2. CASE Open
  <2>1. PICK a \in Addresses : address' = a
    BY <1>2 DEF Open
  <2>2. a \in Saying(Int, Nat)
    BY <2>1, CatalogAssumption DEF Addresses, Saying
  <2>3. walked = <<>> /\ walked' = walked /\ view' = None
    BY <1>2 DEF Open, ListInv
  <2>4. address' # None
    BY <2>1, <2>2, CatalogAssumption
  <2>. QED
    BY <2>1, <2>2, <2>3, <2>4 DEF ListInv
<1>3. CASE Render
  <2>1. PICK p \in ListParams : p = ParseCatalogParams(address)
    BY <1>3, AddressIsParsed DEF Render, ListInv
  <2>2. PICK q : q = PageOf(p, p.page)
    OBVIOUS
  <2>3. p.page \in Nat \ {0} /\ ListCoursesQuery(SerializeCatalogParams(p)) = q
    <3>1. 1 \in Nat \ {0}
      OBVIOUS
    <3>. QED
      BY <2>2, <3>1, PagesOfOneView
  <2>4. /\ TotalPages(q) = TotalPages(PageOf(p, 1)) /\ Total(q) = Cardinality(Wanted(p))
        /\ Total(q) > 0 => TotalPages(q) \in Nat \ {0}
    BY <2>2, <2>3, PagesReach, WhatIsWanted
  <2>5. CASE /\ Total(q) > 0 /\ p.page > TotalPages(q)
             /\ address' = SerializeCatalogParams([p EXCEPT !.page = TotalPages(q)])
             /\ UNCHANGED <<view, walked>>
    <3>1. view' = None /\ address # None
      BY <1>3, <2>5 DEF Render
    <3>. QED
      BY <2>1, <2>4, <2>5, <3>1, OtherPage
  <2>6. CASE /\ \E rows \in Slices(q) :
                    /\ view' = [params |-> p, rows |-> rows, total |-> Total(q),
                                totalPages |-> TotalPages(q)]
                    /\ walked' = IF p.page = Len(walked) + 1 THEN Append(walked, rows)
                                 ELSE walked
              /\ UNCHANGED address
    <3>1. PICK rows \in Slices(q) :
                    /\ view' = [params |-> p, rows |-> rows, total |-> Total(q),
                                totalPages |-> TotalPages(q)]
                    /\ walked' = IF p.page = Len(walked) + 1 THEN Append(walked, rows)
                                 ELSE walked
      BY <2>6
    <3>2. rows \in Seq(Catalog)
      BY <2>2, <2>3, RowsOfPage
    <3>3. /\ address # None /\ address' = address /\ address \in Saying(Int, Nat)
          /\ walked \in Seq(Seq(Catalog))
          /\ \A n \in 1..Len(walked) : walked[n] \in Slices(PageOf(p, n))
      BY <1>3, <2>1, <2>6 DEF Render, ListInv
    <3>4. /\ walked' \in Seq(Seq(Catalog))
          /\ \A n \in 1..Len(walked') : walked'[n] \in Slices(PageOf(p, n))
      <4>1. CASE p.page # Len(walked) + 1
        BY <3>1, <3>3, <4>1
      <4>2. CASE p.page = Len(walked) + 1
        <5>1. walked' = Append(walked, rows)
          BY <3>1, <4>2
        <5>2. /\ walked' \in Seq(Seq(Catalog)) /\ Len(walked') = Len(walked) + 1
              /\ walked'[Len(walked) + 1] = rows
              /\ \A n \in 1..Len(walked) : walked'[n] = walked[n]
          BY <3>2, <3>3, <5>1
        <5>3. ASSUME NEW n \in 1..Len(walked') PROVE walked'[n] \in Slices(PageOf(p, n))
          <6>1. CASE n \in 1..Len(walked)
            BY <3>3, <5>2, <6>1
          <6>2. CASE n = Len(walked) + 1
            BY <2>2, <4>2, <5>2, <6>2
          <6>. QED
            BY <3>3, <5>2, <6>1, <6>2
        <5>. QED
          BY <5>2, <5>3
      <4>. QED
        BY <4>1, <4>2
    <3>5. /\ view'.params = p /\ view'.total = Cardinality(Wanted(p))
          /\ view'.totalPages = TotalPages(PageOf(p, 1))
      BY <2>4, <3>1
    <3>. QED
      BY <2>1, <3>3, <3>4, <3>5 DEF ListInv
  <2>. QED
    BY <1>3, <2>1, <2>3, <2>5, <2>6 DEF Render
<1>4. CASE Follow
  <2>1. PICK p \in ListParams : p = ParseCatalogParams(address) /\ p = view.params
    BY <1>4, AddressIsParsed DEF Follow, ListInv
  <2>2. PICK to \in Links(view) : address' = SerializeCatalogParams([p EXCEPT !.page = to])
    BY <1>4, <2>1 DEF Follow
  <2>3. view.totalPages \in Nat
    <3>1. 1 \in Nat \ {0}
      OBVIOUS
    <3>. QED
      BY <1>4, <2>1, <3>1, PagesReach DEF Follow, ListInv
  <2>4. to \in Nat \ {0}
    <3>1. to \in 1..view.totalPages
      BY <2>2 DEF Links
    <3>. QED
      BY <2>3, <3>1
  <2>5. address # None /\ view' = None /\ walked' = walked
    BY <1>4 DEF Follow, ListInv
  <2>. QED
    BY <2>1, <2>2, <2>4, <2>5, OtherPage
<1>5. CASE Leave
  BY <1>5 DEF Leave, ListInv
<1>. QED
  BY <1>1, <1>2, <1>3, <1>4, <1>5 DEF ListNext

\* Pages that are all opened have the rows that can be reached, of a definite order
\* each once, and no course that the view wants comes before one shown.
LEMMA WalkShows ==
    ASSUME NEW p \in ListParams, NEW w \in Seq(Seq(Catalog)),
           \A n \in 1..Len(w) : w[n] \in Slices(PageOf(p, n)),
           Len(w) = TotalPages(PageOf(p, 1))
    PROVE  /\ Len(FlattenSeq(w)) = Reached(p)
           /\ Definite(p) =>
                 /\ IsInjective(FlattenSeq(w))
                 /\ Range(FlattenSeq(w)) \subseteq Wanted(p)
                 /\ \A i \in DOMAIN FlattenSeq(w), d \in Wanted(p) :
                       d \in Range(SubSeq(FlattenSeq(w), 1, i)) \/ Before(p, FlattenSeq(w)[i], d)
<1>1. PICK r, lim, all : r = Reached(p) /\ lim = p.limit /\ all = FlattenSeq(w)
  OBVIOUS
<1>2. PICK m : m = Cardinality(Wanted(p))
  OBVIOUS
<1>3. /\ r \in Nat /\ m \in Nat /\ r <= m /\ lim \in Nat \ {0}
      /\ Wanted(p) \subseteq Catalog /\ IsFiniteSet(Wanted(p))
      /\ Upto(Len(w), lim, r) = r
  <2>1. 1 \in Nat \ {0}
    OBVIOUS
  <2>2. lim \in Nat \ {0}
    BY <1>1, CatalogAssumption DEF ListParams
  <2>3. Window \in Nat
    BY CatalogAssumption
  <2>4. Upto(Len(w), lim, r) = r
    BY <1>1, <2>1, PagesReach
  <2>. QED
    BY <1>1, <1>2, <2>1, <2>2, <2>3, <2>4, ReachedIs, WhatIsWanted
<1>4. \A n \in 1..Len(w) : Len(w[n]) = Upto(n, lim, r) - Upto(n - 1, lim, r)
  BY <1>1, RowsOfPage
<1>5. \A o : OneList(all, w, lim, r, o, Catalog)
  BY <1>1, <1>3, <1>4, FlattenRows
<1>6. all \in Seq(Catalog) /\ Len(all) = r
  BY <1>3, <1>5 DEF OneList
<1>7. CASE r = 0 \/ ~Definite(p)
  <2>1. r = 0 => all = <<>>
    BY <1>6
  <2>2. r = 0 => /\ IsInjective(all) /\ Range(all) \subseteq Wanted(p) /\ DOMAIN all = {}
    BY <1>6, <2>1 DEF IsInjective, Range
  <2>. QED
    BY <1>1, <1>6, <1>7, <2>2
<1>8. CASE r # 0 /\ Definite(p)
  <2>1. PICK o : Ranked(o, Wanted(p), KeyOf(p))
    <3>1. Len(w) # 0
      <4>1. Upto(0, lim, r) = 0
        BY <1>3, PagesAdd DEF Upto
      <4>. QED
        BY <1>3, <1>8, <4>1
    <3>2. 1 \in 1..Len(w)
      BY <3>1
    <3>. QED
      BY <3>2, RowsOfPage
  <2>2. Tells(o, w, lim, r)
    <3>. SUFFICES ASSUME NEW n \in 1..Len(w), NEW j \in 1..Len(w[n])
                  PROVE  w[n][j] = o[Upto(n - 1, lim, r) + j]
      BY DEF Tells
    <3>1. n \in Nat \ {0} /\ w[n] \in Slices(PageOf(p, n))
      OBVIOUS
    <3>. QED
      BY <1>1, <1>8, <2>1, <3>1, RowsOfPage
  <2>3. \A j \in 1..r : all[j] = o[j]
    BY <1>5, <1>6, <2>2 DEF OneList
  <2>4. /\ o \in [1..m -> Wanted(p)]
        /\ \A i, j \in 1..m : o[i] = o[j] => i = j
        /\ \A x \in Wanted(p) : \E i \in 1..m : o[i] = x
        /\ \A i, j \in 1..m : i < j => KeyOf(p)[o[i]] <= KeyOf(p)[o[j]]
    <3>1. o \in SetToSeqs(Wanted(p))
      BY <2>1 DEF Ranked
    <3>2. /\ Len(o) = m /\ o \in [1..m -> Wanted(p)]
          /\ \A i, j \in 1..m : o[i] = o[j] => i = j
          /\ \A x \in Wanted(p) : \E i \in 1..m : o[i] = x
      BY ONLY <1>2, <1>3, <3>1, ListOfSet
    <3>. QED
      BY <2>1, <3>2 DEF Ranked
  <2>5. DOMAIN all = 1..r
    BY <1>6
  <2>6. IsInjective(all) /\ Range(all) \subseteq Wanted(p)
    BY <1>3, <2>3, <2>4, <2>5 DEF IsInjective, Range
  <2>7. ASSUME NEW i \in 1..r, NEW d \in Wanted(p), d \notin Range(SubSeq(all, 1, i))
        PROVE  Before(p, all[i], d)
    <3>1. PICK k \in 1..m : o[k] = d
      BY <2>4
    <3>2. k > i
      <4>. SUFFICES ASSUME k <= i PROVE FALSE
        BY <1>3
      <4>1. k \in 1..i /\ k \in 1..r /\ all[k] = d
        BY <1>3, <2>3, <3>1
      <4>2. PICK s : s = SubSeq(all, 1, i)
        OBVIOUS
      <4>3. Len(s) = i /\ s[k] = all[k] /\ DOMAIN s = 1..i
        <5>1. \A j \in 1..i : all[j] \in Catalog
          BY <1>6
        <5>2. /\ s \in Seq(Catalog) /\ Len(s) = (IF 1 <= i THEN i - 1 + 1 ELSE 0)
              /\ \A j \in 1..(i - 1 + 1) : s[j] = all[1 + j - 1]
          BY <1>3, <4>2, <5>1, SubSeqProperties
        <5>. QED
          BY <1>3, <4>1, <5>2
      <4>4. d \in Range(s)
        BY <4>1, <4>3 DEF Range
      <4>. QED
        BY <2>7, <4>2, <4>4
    <3>3. all[i] = o[i] /\ i \in 1..m /\ o[i] # d /\ o[i] \in Wanted(p)
      BY <1>3, <2>3, <2>4, <3>1, <3>2
    <3>4. KeyOf(p)[o[i]] <= KeyOf(p)[d]
      BY <2>4, <3>1, <3>2, <3>3
    <3>5. KeyOf(p)[o[i]] # KeyOf(p)[d]
      BY <1>8, <3>3, PlacesDiffer
    <3>6. /\ KeyOf(p)[o[i]] \in Int /\ KeyOf(p)[d] \in Int
          /\ Before(p, o[i], d) <=> KeyOf(p)[o[i]] < KeyOf(p)[d]
      <4>1. 1 \in Nat \ {0}
        OBVIOUS
      <4>. QED
        BY <1>3, <3>3, <4>1, KeysOrder
    <3>. QED
      BY <3>3, <3>4, <3>5, <3>6
  <2>. QED
    BY <1>1, <1>6, <2>5, <2>6, <2>7
<1>. QED
  BY <1>7, <1>8

\* The pages show every match: for any catalog, any relevance and titles, any sizes
\* of pages and of the candidate window, and any addresses, a student who opened
\* page 1 and followed the links to the last page has every course that matches
\* once, in order, as far as the candidates of a search reach.
THEOREM PagesCorrect == ListInit /\ [][ListNext]_listVars => []PagesShowEveryMatch
<1>1. ListInit => ListInv
  <2>1. <<>> \in Seq(Seq(Catalog)) /\ Len(<<>>) = 0
    OBVIOUS
  <2>. QED
    BY <2>1 DEF ListInit, ListInv
<1>2. ListInv /\ [ListNext]_listVars => ListInv'
  BY ListStep
<1>3. ListInv => PagesShowEveryMatch
  <2>. SUFFICES ASSUME ListInv, view # None
                PROVE  PagesShowEveryMatch
    BY DEF PagesShowEveryMatch
  <2>1. PICK p \in ListParams : p = view.params /\ p = ParseCatalogParams(address)
    BY AddressIsParsed DEF ListInv
  <2>2. /\ view.total = Cardinality(Wanted(p)) /\ walked \in Seq(Seq(Catalog))
        /\ \A n \in 1..Len(walked) : walked[n] \in Slices(PageOf(p, n))
        /\ view.totalPages = TotalPages(PageOf(p, 1))
    BY <2>1 DEF ListInv
  <2>. QED
    BY <2>1, <2>2, WalkShows DEF PagesShowEveryMatch, Reached
<1>. QED
  BY <1>1, <1>2, <1>3, PTL
-----------------------------------------------------------------------------
(* The search box *)

BoxTypeOK ==
    /\ page \in Params /\ box \in Texts /\ synced \in Texts
    /\ timer \in Debounce \cup {None} /\ load \in Params \cup {None}

\* The box stands for the page asked for unless a timer or a page with another
\* search is still to come, and the picker for its department.
BoxInv ==
    /\ BoxTypeOK
    /\ synced = page.search
    /\ timer # None => timer.search = box
    /\ ~undone =>
          /\ timer = None /\ (load = None \/ load.search = page.search) => box = page.search
          /\ wanted = Target.department

\* A load of page p, whichever number and order it is given.
LEMMA ApplyLoads ==
    ASSUME NEW p \in Params, Apply(p)
    PROVE  /\ load' \in Params /\ load' # None
           /\ load'.search = p.search /\ load'.department = p.department
<1>. DEFINE q == [p EXCEPT !.number = 1,
                           !.sortBy = IF p.search = "" /\ @ = "relevance" THEN "code" ELSE @]
<1>1. q \in Params /\ q.search = p.search /\ q.department = p.department
  BY DEF Params
<1>. QED
  BY <1>1, BoxAssumption DEF Apply

\* A request built on the page shown takes nothing back if that page still is the
\* one asked for.
LEMMA BuiltOnPage ==
    ASSUME BoxInv, NEW fields, Builds(page, fields), ~undone'
    PROVE  /\ ~undone
           /\ "search" \notin fields => load = None \/ load.search = page.search
           /\ "department" \notin fields => wanted = page.department
BY DEF Builds, BoxInv, Target

\* Typing sets the timer again.
LEMMA TypeKeepsBox ==
    ASSUME BoxInv, NEW s \in Texts, Type(s)
    PROVE  BoxInv'
<1>1. BoxTypeOK /\ UNCHANGED <<page, synced, load, wanted, undone>> /\ box' = s
  BY DEF BoxInv, Type
<1>2. CASE s = page.search
  BY <1>1, <1>2 DEF Type, BoxInv, BoxTypeOK, Target
<1>3. CASE s # page.search
  <2>. DEFINE d == [search |-> s, base |-> page]
  <2>1. timer' = d /\ d \in Debounce /\ d.search = s
    BY <1>1, <1>3 DEF Type, BoxTypeOK, Debounce
  <2>. HIDE DEF d
  <2>2. d # None
    BY <2>1, BoxAssumption
  <2>. QED
    BY <1>1, <2>1, <2>2 DEF BoxInv, BoxTypeOK, Target
<1>. QED
  BY <1>2, <1>3

\* The timer fires and pushes the address built from the page of its closure.
LEMMA FireKeepsBox ==
    ASSUME BoxInv, Fire
    PROVE  BoxInv'
<1>1. /\ BoxTypeOK /\ UNCHANGED <<page, box, synced, wanted>> /\ timer' = None
      /\ timer \in Debounce /\ timer.search = box
  BY DEF BoxInv, Fire, BoxTypeOK
<1>. DEFINE p == [timer.base EXCEPT !.search = timer.search]
<1>2. p \in Params /\ p.search = box /\ p.department = timer.base.department
  BY <1>1 DEF Debounce, Params
<1>3. load' \in Params /\ load' # None
      /\ load'.search = box /\ load'.department = timer.base.department
  <2>. HIDE DEF p
  <2>1. Apply(p)
    BY DEF Fire, p
  <2>. QED
    BY <1>2, <2>1, ApplyLoads
<1>4. ~undone' => ~undone /\ timer.base.department = Target.department
  BY DEF Fire, Builds
<1>. QED
  BY <1>1, <1>3, <1>4 DEF BoxInv, BoxTypeOK, Target

\* A request of the student's, built on the page shown.
LEMMA RequestKeepsBox ==
    ASSUME BoxInv, NEW p \in Params, load' = p, NEW fields, Builds(page, fields),
           "search" \notin fields,
           UNCHANGED <<page, box, synced, timer>>,
           wanted' = p.department \/ ("department" \notin fields /\ UNCHANGED wanted
                                       /\ p.department = page.department)
    PROVE  BoxInv'
<1>1. BoxTypeOK' /\ load' # None
  BY BoxAssumption DEF BoxInv, BoxTypeOK
<1>2. ASSUME ~undone'
      PROVE  /\ timer = None => box = page.search
             /\ wanted' = p.department
  BY <1>2, BuiltOnPage DEF BoxInv
<1>. QED
  BY <1>1, <1>2 DEF BoxInv, Target

\* A page that arrives replaces the box if its search is new.
LEMMA ArriveKeepsBox ==
    ASSUME BoxInv, Arrive
    PROVE  BoxInv'
<1>1. /\ BoxTypeOK /\ load \in Params /\ load' = None /\ page' = load
      /\ synced' = load.search /\ UNCHANGED <<wanted, undone>>
  BY DEF BoxInv, Arrive, BoxTypeOK
<1>2. load.search \in Texts
  BY <1>1 DEF Params
<1>3. CASE load.search # synced
  BY <1>1, <1>2, <1>3 DEF Arrive, BoxInv, BoxTypeOK, Target
<1>4. CASE load.search = synced
  BY <1>1, <1>2, <1>4 DEF Arrive, BoxInv, BoxTypeOK, Target
<1>. QED
  BY <1>3, <1>4

\* When nothing is on its way, the page shown has the search in the box and the
\* department picked last, unless a request was built on a page given up before.
THEOREM BoxCorrect == BoxSpec => []BoxFollowsPage
<1>1. BoxInit => BoxInv
  <2>1. /\ FrontPage \in Params /\ FrontPage.search = "" /\ FrontPage.department = None
        /\ "" \in Texts
    BY BoxAssumption DEF FrontPage, Params
  <2>. QED
    BY <2>1 DEF BoxInit, BoxInv, BoxTypeOK, Target
<1>2. BoxInv /\ [BoxNext]_boxVars => BoxInv'
  <2>. SUFFICES ASSUME BoxInv, [BoxNext]_boxVars PROVE BoxInv'
    OBVIOUS
  <2>1. ASSUME NEW p \in Params, Apply(p), p.search = page.search, NEW fields,
               Builds(page, fields), "search" \notin fields,
               UNCHANGED <<page, box, synced, timer>>,
               wanted' = p.department \/ ("department" \notin fields /\ UNCHANGED wanted
                                           /\ p.department = page.department)
        PROVE  BoxInv'
    BY <2>1, ApplyLoads, RequestKeepsBox
  <2>2. page \in Params
    BY DEF BoxInv, BoxTypeOK
  <2>3. ASSUME NEW d \in Chosen \cup {None}, Pick(d) PROVE BoxInv'
    <3>1. PICK p \in Params : p = [page EXCEPT !.department = d]
      BY <2>2 DEF Params
    <3>2. p.search = page.search /\ p.department = d
      BY <2>2, <3>1 DEF Params
    <3>. QED
      BY <2>1, <2>3, <3>1, <3>2 DEF Pick
  <2>4. ASSUME NEW by \in {"code", "relevance"}, PickSort(by) PROVE BoxInv'
    <3>1. PICK p \in Params : p = [page EXCEPT !.sortBy = by]
      BY <2>2 DEF Params
    <3>2. p.search = page.search /\ p.department = page.department
      BY <2>2, <3>1 DEF Params
    <3>. QED
      BY <2>1, <2>4, <3>1, <3>2 DEF PickSort
  <2>5. CASE TurnPage
    <3>1. PICK p \in Params : p = [page EXCEPT !.number = 3 - @]
      <4>1. page.number \in {1, 2} /\ 3 - page.number \in {1, 2}
        BY <2>2 DEF Params
      <4>2. [page EXCEPT !.number = 3 - page.number] \in Params
        BY <2>2, <4>1 DEF Params
      <4>. QED
        BY <4>2
    <3>2. p.search = page.search /\ p.department = page.department
      BY <2>2, <3>1 DEF Params
    <3>. QED
      BY <2>5, <3>1, <3>2, RequestKeepsBox DEF TurnPage
  <2>6. CASE ClearFilters
    <3>1. FrontPage \in Params /\ FrontPage.department = None
      BY BoxAssumption DEF FrontPage, Params
    <3>. QED
      BY <2>6, <3>1, RequestKeepsBox DEF ClearFilters
  <2>7. CASE UNCHANGED boxVars
    BY <2>7 DEF boxVars, BoxInv, BoxTypeOK, Target
  <2>. QED
    BY <2>3, <2>4, <2>5, <2>6, <2>7, TypeKeepsBox, FireKeepsBox, ArriveKeepsBox DEF BoxNext
<1>3. BoxInv => BoxFollowsPage
  BY DEF BoxInv, BoxFollowsPage, BoxAtRest, Target
<1>. QED
  BY <1>1, <1>2, <1>3, PTL DEF BoxSpec
-----------------------------------------------------------------------------
(* The course drawer *)

Fetch == [id : Nat, of : Courses, ignored : BOOLEAN]

\* A fetch that still counts is of the course selected; the preflight is open for
\* a course that was selected, and loses its details by a failed fetch only.
DrawerInv ==
    /\ selects \in Nat /\ listed \subseteq Courses /\ fetches \subseteq Fetch
    /\ \A f \in fetches : ~f.ignored => f.of = selected
    /\ ~Fetching => detail \in {selected, None}
    /\ opened # None => selected # None /\ (detail = None => refused)

\* A selection marks all fetches under way as ignored.
LEMMA IgnoredFetches ==
    ASSUME fetches \subseteq Fetch
    PROVE  \A f \in {[g EXCEPT !.ignored = TRUE] : g \in fetches} : f \in Fetch /\ f.ignored
BY DEF Fetch

\* Once the fetch for the course selected has answered, the drawer shows that
\* course or nothing; only a failed fetch leaves the preflight without details.
THEOREM DrawerCorrect == DrawerSpec => []DrawerShowsSelected
<1>1. DrawerInit => DrawerInv
  BY DEF DrawerInit, DrawerInv, Fetching
<1>2. DrawerInv /\ [DrawerNext]_drawerVars => DrawerInv'
  <2>. SUFFICES ASSUME DrawerInv, [DrawerNext]_drawerVars PROVE DrawerInv'
    OBVIOUS
  <2>. DEFINE dead == {[g EXCEPT !.ignored = TRUE] : g \in fetches}
  <2>1. \A f \in dead : f \in Fetch /\ f.ignored
    BY IgnoredFetches DEF DrawerInv
  <2>2. ASSUME NEW c \in Courses, Select(c) PROVE DrawerInv'
    <3>. DEFINE new == [id |-> selects, of |-> c, ignored |-> FALSE]
    <3>1. /\ fetches' = dead \cup {new} /\ selected' = c /\ selects' = selects + 1
          /\ opened = None /\ UNCHANGED <<listed, detail, opened, refused>>
      BY <2>2 DEF Select, Covered
    <3>2. new \in Fetch /\ new.of = c /\ ~new.ignored
      BY DEF DrawerInv, Fetch
    <3>. HIDE DEF new, dead
    <3>3. Fetching'
      BY <3>1, <3>2 DEF Fetching
    <3>. QED
      BY <2>1, <3>1, <3>2, <3>3 DEF DrawerInv
  <2>3. ASSUME NEW f \in fetches, DetailArrives(f) PROVE DrawerInv'
    <3>1. fetches' = fetches \ {f} /\ UNCHANGED <<listed, selected, selects, opened>>
      BY <2>3 DEF DetailArrives, Preflight
    <3>2. CASE f.ignored
      BY <2>3, <3>1, <3>2 DEF DetailArrives, DrawerInv, Fetching
    <3>3. CASE ~f.ignored
      <4>1. f.of = selected /\ detail' \in {f.of, None}
            /\ refused' = (refused \/ (detail' = None /\ Covered))
        BY <2>3, <3>3 DEF DetailArrives, DrawerInv
      <4>. QED
        BY <3>1, <4>1 DEF DrawerInv, Covered
    <3>. QED
      BY <3>2, <3>3
  <2>4. CASE OpenPreflight
    BY <2>4, DrawerAssumption DEF OpenPreflight, DrawerInv, Fetching, Rest, DrawerShown
  <2>5. CASE Submit \/ Close \/ Elapse \/ UNCHANGED drawerVars
    <3>1. UNCHANGED <<listed, selected, fetches, detail, refused, selects>>
          /\ opened' \in {opened, None}
      BY <2>5 DEF Submit, Close, Elapse, Rest, drawerVars
    <3>. QED
      BY <3>1 DEF DrawerInv, Fetching
  <2>6. CASE ListArrives
    <3>1. PICK L \in SUBSET Courses :
             /\ listed' = L
             /\ IF L = {} THEN selected' = None /\ detail' = None /\ fetches' = dead
                ELSE UNCHANGED <<selected, detail, fetches>>
             /\ IF selected \in L THEN UNCHANGED Preflight
                ELSE opened' = None /\ submitting' = FALSE /\ closings' = 0
      BY <2>6 DEF ListArrives
    <3>2. selects' \in Nat /\ refused' = refused
      BY <2>6 DEF ListArrives, DrawerInv
    <3>. HIDE DEF dead
    <3>3. CASE L = {}
      BY <2>1, <3>1, <3>2, <3>3 DEF DrawerInv, Fetching
    <3>4. CASE L # {}
      BY <3>1, <3>2, <3>4 DEF DrawerInv, Fetching, Preflight
    <3>. QED
      BY <3>3, <3>4
  <2>7. CASE Reset
    <3>1. fetches' = dead /\ selected' = None /\ detail' = None /\ opened' = None
          /\ UNCHANGED <<listed, selects>>
      BY <2>7 DEF Reset
    <3>. HIDE DEF dead
    <3>. QED
      BY <2>1, <3>1 DEF DrawerInv, Fetching
  <2>. QED
    BY <2>2, <2>3, <2>4, <2>5, <2>6, <2>7 DEF DrawerNext
<1>3. DrawerInv => DrawerShowsSelected
  BY DEF DrawerInv, DrawerShowsSelected, Crashed
<1>. QED
  BY <1>1, <1>2, <1>3, PTL DEF DrawerSpec
-----------------------------------------------------------------------------
(* The enroll button *)

PostStates == {"sent", "refused", "over"} \cup Active
NoneEnrolled(posted) == \A n \in 1..Len(posted) : posted[n] \notin Active

\* The page that is on its way, or else the one shown.
NextPage == IF arriving = <<>> THEN prop ELSE arriving[1]

ButtonTyped ==
    /\ row \in {None} \cup [status : Active, id : Nat] /\ joins \in Nat
    /\ posts \in Seq(PostStates) /\ asked \in Nat /\ unread \in BOOLEAN

\* The label is that of the page unless a refresh is outstanding; and the page to come
\* tells where the student stands, unless another refresh has been asked for, the row
\* was changed by others since it was read, or a POST that enrolled is not over.
ButtonInv ==
    /\ ~Refreshing => done = InitialDone(prop)
    /\ asked = 0 /\ ~unread /\ NoneEnrolled(posts) => NextPage = Standing

\* The variables keep their types; POSTs are over or go on one at a time.
LEMMA ButtonTypes == ButtonTyped /\ [ButtonNext]_buttonVars => ButtonTyped'
<1>. SUFFICES ASSUME ButtonTyped, [ButtonNext]_buttonVars PROVE ButtonTyped'
  OBVIOUS
<1>. USE DEF ButtonTyped
<1>1. ASSUME Join PROVE row' \in [status : Active, id : Nat] /\ joins' \in Nat
  BY <1>1 DEF Join
<1>2. ASSUME NEW n \in 1..Len(posts), NEW v \in PostStates, posts' = [posts EXCEPT ![n] = v]
      PROVE  posts' \in Seq(PostStates)
  BY <1>2
<1>3. CASE Elsewhere
  BY <1>1, <1>3 DEF Elsewhere, CoursePage, Active
<1>4. CASE Enroll
  BY <1>4 DEF Enroll, rowVars, PostStates
<1>5. ASSUME NEW n \in 1..Len(posts), Enrolled(n) PROVE ButtonTyped'
  <2>1. /\ UNCHANGED <<unread, asked>>
        /\ \/ UNCHANGED rowVars
           \/ row' \in [status : Active, id : Nat] /\ joins' \in Nat
    BY <1>1, <1>5 DEF Enrolled
  <2>2. PICK v \in PostStates : posts' = [posts EXCEPT ![n] = v]
    BY <1>1, <1>5 DEF Enrolled, PostStates
  <2>. QED
    BY <1>2, <2>1, <2>2 DEF rowVars
<1>6. ASSUME NEW n \in 1..Len(posts), ResultShown(n) PROVE ButtonTyped'
  <2>1. /\ UNCHANGED <<row, joins>> /\ posts' = [posts EXCEPT ![n] = "over"]
        /\ asked' = asked + 1 \/ UNCHANGED asked
        /\ UNCHANGED unread \/ unread' = (unread \/ posts[n] \in Active)
    BY <1>6 DEF ResultShown, Over, rowVars
  <2>2. posts' \in Seq(PostStates)
    BY <1>2, <2>1 DEF PostStates
  <2>3. unread' \in BOOLEAN
    BY <2>1
  <2>. QED
    BY <2>1, <2>2, <2>3
<1>7. CASE RefreshCourse \/ CourseRead \/ CourseRendered
  <2>1. /\ UNCHANGED <<row, joins, posts>> /\ unread' \in BOOLEAN
        /\ asked' = 1 \/ UNCHANGED asked \/ (asked > 0 /\ asked' = asked - 1)
    BY <1>7 DEF RefreshCourse, CourseRead, CourseRendered, rowVars
  <2>. QED
    BY <2>1
<1>8. CASE AskToDrop \/ Cancel \/ Drop \/ DropAnswered \/ RefreshMine \/ MineRendered
           \/ UNCHANGED buttonVars
  BY <1>8 DEF AskToDrop, Cancel, Drop, DropAnswered, RefreshMine, MineRendered, buttonVars,
              CoursePage, rowVars
<1>9. CASE Dropped
  BY <1>9 DEF Dropped, CoursePage
<1>. QED
  BY <1>3, <1>4, <1>5, <1>6, <1>7, <1>8, <1>9 DEF ButtonNext

\* A step that leaves the row, the page and the refreshes alone keeps the invariant,
\* if what it does to the POSTs makes the invariant promise no more.
LEMMA PostsOnly ==
    ASSUME ButtonInv, UNCHANGED <<row, completed, Button, asked, arriving>>,
           ~unread' /\ NoneEnrolled(posts') => ~unread /\ NoneEnrolled(posts)
    PROVE  ButtonInv'
BY DEF ButtonInv, Button, Refreshing, InitialDone, NextPage, Standing

\* What the buttons show of the enrolls that were answered and of the page they are on
\* is so, for any number of clicks, refreshes and changes made elsewhere.
THEOREM ButtonCorrect == ButtonSpec => []ButtonTellsStanding
<1>1. ButtonInit => ButtonTyped /\ ButtonInv
  <2>. SUFFICES ASSUME ButtonInit PROVE ButtonTyped /\ ButtonInv
    OBVIOUS
  <2>1. row \in {None} \cup [status : Active, id : Nat]
    BY DEF ButtonInit
  <2>2. /\ joins = 0 /\ unread = FALSE /\ prop = Standing /\ done = InitialDone(prop)
        /\ posts = <<>> /\ asked = 0 /\ arriving = <<>>
    BY DEF ButtonInit
  <2>3. posts \in Seq(PostStates)
    BY <2>2
  <2>4. ButtonTyped
    BY <2>1, <2>2, <2>3 DEF ButtonTyped
  <2>. QED
    BY <2>2, <2>4 DEF ButtonInv, NextPage
<1>2. ButtonTyped /\ ButtonInv /\ [ButtonNext]_buttonVars => ButtonInv'
  <2>. SUFFICES ASSUME ButtonTyped, ButtonInv, [ButtonNext]_buttonVars PROVE ButtonInv'
    OBVIOUS
  <2>. USE DEF ButtonTyped
  <2>1. CASE AskToDrop \/ Cancel \/ Drop \/ DropAnswered \/ RefreshMine \/ MineRendered
             \/ UNCHANGED buttonVars
    <3>1. UNCHANGED <<rowVars, unread, CoursePage>>
      BY <2>1 DEF AskToDrop, Cancel, Drop, DropAnswered, RefreshMine, MineRendered, buttonVars
    <3>. QED
      BY <3>1, PostsOnly DEF CoursePage, rowVars
  <2>2. CASE Elsewhere \/ Dropped
    <3>1. UNCHANGED CoursePage /\ (unread' = TRUE \/ UNCHANGED <<row, completed, unread>>)
      BY <2>2 DEF Elsewhere, Dropped
    <3>. QED
      BY <3>1 DEF ButtonInv, CoursePage, Button, Refreshing, InitialDone, NextPage, Standing,
                  NoneEnrolled
  <2>3. CASE Enroll
    <3>1. posts' = Append(posts, "sent") /\ UNCHANGED <<row, completed, unread, prop, done,
                                                       asked, arriving>>
      BY <2>3 DEF Enroll, rowVars
    <3>2. Len(posts') = Len(posts) + 1 /\ \A n \in 1..Len(posts) : posts'[n] = posts[n]
      BY <3>1
    <3>3. NoneEnrolled(posts') => NoneEnrolled(posts)
      BY <3>2 DEF NoneEnrolled
    <3>. QED
      BY <3>1, <3>3 DEF ButtonInv, Refreshing, InitialDone, NextPage, Standing
  <2>4. ASSUME NEW n \in 1..Len(posts), Enrolled(n) PROVE ButtonInv'
    <3>1. /\ UNCHANGED <<unread, Button, asked, arriving, completed>> /\ posts[n] = "sent"
          /\ Len(posts') = Len(posts)
          /\ \A k \in 1..Len(posts) : k # n => posts'[k] = posts[k]
          /\ posts'[n] \in Active \/ UNCHANGED row
      BY <2>4 DEF Enrolled, Join, rowVars
    <3>2. NoneEnrolled(posts') => NoneEnrolled(posts) /\ UNCHANGED row
      BY <3>1 DEF NoneEnrolled, Active
    <3>. QED
      BY <3>1, <3>2 DEF ButtonInv, Button, Refreshing, InitialDone, NextPage, Standing
  <2>5. ASSUME NEW n \in 1..Len(posts), ResultShown(n) PROVE ButtonInv'
    <3>1. /\ UNCHANGED <<row, completed, prop, arriving>>
          /\ Len(posts') = Len(posts)
          /\ \A k \in 1..Len(posts) : k # n => posts'[k] = posts[k]
          /\ \/ asked' = asked + 1
             \/ UNCHANGED <<asked, done>> /\ unread' = (unread \/ posts[n] \in Active)
      BY <2>5 DEF ResultShown, Over, rowVars
    <3>2. CASE asked' = asked + 1
      BY <3>1, <3>2 DEF ButtonInv, Refreshing
    <3>3. CASE UNCHANGED <<asked, done>> /\ unread' = (unread \/ posts[n] \in Active)
      <4>1. ~unread' /\ NoneEnrolled(posts') => ~unread /\ NoneEnrolled(posts)
        BY <3>1, <3>3 DEF NoneEnrolled
      <4>. QED
        BY <3>1, <3>3, <4>1 DEF ButtonInv, Refreshing, InitialDone, NextPage, Standing
    <3>. QED
      BY <3>1, <3>2, <3>3
  <2>6. CASE RefreshCourse
    BY <2>6 DEF RefreshCourse, ButtonInv, Refreshing
  <2>7. CASE CourseRead
    BY <2>7 DEF CourseRead, ButtonInv, Refreshing, NextPage, rowVars, Standing
  <2>8. CASE CourseRendered
    BY <2>8 DEF CourseRendered, Mounted, ButtonInv, Refreshing, NextPage, rowVars, Standing,
                InitialDone
  <2>. QED
    BY <2>1, <2>2, <2>3, <2>4, <2>5, <2>6, <2>7, <2>8 DEF ButtonNext
<1>3. ButtonTyped /\ ButtonInv => ButtonTellsStanding
  <2>. SUFFICES ASSUME ButtonTyped, ButtonInv, ~Refreshing
                PROVE  /\ done = InitialDone(prop)
                       /\ ~unread /\ NoneEnrolled(posts) => prop = Standing
    BY DEF ButtonTellsStanding, NoneEnrolled
  <2>1. asked = 0 /\ arriving = <<>>
    BY DEF ButtonTyped, Refreshing
  <2>. QED
    BY <2>1 DEF ButtonInv, NextPage
<1>. QED
  BY <1>1, <1>2, <1>3, ButtonTypes, PTL DEF ButtonSpec
=============================================================================
