----------------------------- MODULE CourseList -----------------------------
(* The paged course list, from the address in the browser to the rows on    *)
(* the page: parseCatalogParams and serializeCatalogParams,                 *)
(* CoursesService.listCourses, the redirect of CatalogPage and the links of *)
(* Pagination.  A student opens any address and follows the links.          *)
EXTENDS NoValue, Integers, Sequences, SequencesExt, FiniteSetsExt

CONSTANTS
    Catalog,        \* the courses, numbered in code order
    Departments,    \* the known departments
    DeptOf,         \* the department in a course's code
    TitleRank,      \* its place in title order
    Relevance,      \* ts_rank of a course for a search; 0: no match
    Searches, Blank,\* what may be typed; "   ", which trims to nothing
    Window,         \* FTS_CANDIDATE_WINDOW
    PageSizes, DefaultSize,
    FewPages,       \* up to so many pages are all linked
    Pages,          \* page numbers that may be typed
    Junk            \* a parameter that means nothing; one that is missing is None

NoSearch == ""
Sorts == {"code", "title", "relevance"}

\* What the parameters of an address may say.
Saying(pages, sizes) ==
    [search : Searches \cup {None}, department : Departments \cup {None, Junk},
     page : pages \cup {None, Junk}, limit : sizes \cup {None, Junk},
     sortBy : Sorts \cup {None, Junk}]
Addresses == Saying(Pages, PageSizes)

ASSUME CatalogAssumption ==
    /\ IsFiniteSet(Catalog) /\ Catalog \subseteq Nat
    /\ TitleRank \in [Catalog -> Nat]
    /\ \A s \in Searches \ {NoSearch, Blank} : Relevance[s] \in [Catalog -> Nat]
    /\ Window \in Nat /\ DefaultSize \in Nat \ {0} /\ PageSizes \subseteq Nat \ {0}
    /\ Pages \subseteq Int /\ {None, Junk} \cap Int = {}
    /\ None \notin Searches \cup {NoSearch} \cup Sorts \cup Saying(Int, Nat)

VARIABLES
    address,   \* the query string: what each parameter says
    view,      \* what CatalogPage rendered last
    walked     \* the rows of pages 1, 2, ... if they were opened in turn

listVars == <<address, view, walked>>

DefaultSort(search) == IF search # NoSearch THEN "relevance" ELSE "code"
CeilDiv(a, b) == (a + b - 1) \div b

\* An address says something or nothing about each parameter; what it says wrong
\* counts as nothing.
ParseCatalogParams(a) ==
    LET search == IF a.search = None THEN NoSearch ELSE a.search
    IN  [search |-> search,
         department |-> IF a.department \in Departments THEN a.department ELSE None,
         page |-> IF a.page \in {None, Junk} \/ a.page < 1 THEN 1 ELSE a.page,
         limit |-> IF a.limit \in PageSizes THEN a.limit ELSE DefaultSize,
         sortBy |-> IF a.sortBy \in Sorts THEN a.sortBy ELSE DefaultSort(search)]

SerializeCatalogParams(p) ==
    [search |-> IF p.search # NoSearch THEN p.search ELSE None,
     department |-> p.department,
     page |-> IF p.page > 1 THEN p.page ELSE None,
     limit |-> IF p.limit # DefaultSize THEN p.limit ELSE None,
     sortBy |-> IF p.sortBy # DefaultSort(p.search) THEN p.sortBy ELSE None]

\* The API's own defaults for what the address leaves out.
ListCoursesQuery(a) ==
    [search |-> a.search, department |-> a.department,
     page |-> IF a.page = None THEN 1 ELSE a.page,
     limit |-> IF a.limit = None THEN DefaultSize ELSE a.limit,
     sortBy |-> IF a.sortBy # None THEN a.sortBy
                ELSE IF a.search # None THEN "relevance" ELSE "code"]

Searching(q) == q.search \notin {None, Blank}
InDepartment(q) == {c \in Catalog : q.department \in {None, DeptOf[c]}}
Matches(q) ==
    IF Searching(q) THEN {c \in InDepartment(q) : Relevance[q.search][c] > 0}
    ELSE InDepartment(q)

\* The order of the rows: by code, by title, by falling relevance; what the query
\* leaves open, the database fills in as it likes.
Key(q, c) ==
    IF Searching(q) THEN -Relevance[q.search][c]
    ELSE IF q.sortBy = "title" THEN TitleRank[c]
    ELSE IF q.sortBy = "code" THEN c
    ELSE 0
Orders(q, S) ==
    {o \in SetToSeqs(S) : \A i, j \in 1..Len(o) : i < j => Key(q, o[i]) <= Key(q, o[j])}

Slice(o, skip, n) == SubSeq(o, skip + 1, Min({skip + n, Len(o)}))

\* The candidates of a search: the best of its matches, Window of them.
Candidates(q) ==
    IF Searching(q)
    THEN {Range(Slice(o, 0, Window)) : o \in Orders(q, Matches(q))}
    ELSE {Matches(q)}

\* Slice and total of one request.
Slices(q) ==
    UNION {{Slice(o, (q.page - 1) * q.limit, q.limit) : o \in Orders(q, S)} :
              S \in Candidates(q)}
TotalOfWindow(q) == Cardinality(CHOOSE S \in Candidates(q) : TRUE)
Total(q) == Cardinality(Matches(q))

TotalPages(q) ==
    IF Searching(q) /\ Total(q) = 0 THEN 0 ELSE Max({1, CeilDiv(Total(q), q.limit)})

\* The numbers Pagination links beside Prev and Next.
PageRange(current, total) ==
    IF total <= FewPages THEN 1..total
    ELSE {1, total} \cup Max({2, current - 1}) .. Min({total - 1, current + 1})
Links(v) ==
    IF v.total = 0 \/ v.totalPages <= 1 THEN {}
    ELSE LET here == v.params.page
         IN  {to \in PageRange(here, v.totalPages) \cup {here - 1, here + 1} :
                 to # here /\ to \in 1..v.totalPages}
-----------------------------------------------------------------------------
ListInit ==
    /\ address = None /\ view = None /\ walked = <<>>

\* A bookmark, a link from elsewhere, a typed address.
Open ==
    /\ address = None
    /\ \E a \in Addresses : address' = a
    /\ view' = None /\ UNCHANGED walked

\* CatalogPage: a page past the end is redirected to the last one.
Render ==
    /\ address # None /\ view = None
    /\ LET p == ParseCatalogParams(address)
           q == ListCoursesQuery(SerializeCatalogParams(p))
           past == Total(q) > 0 /\ p.page > TotalPages(q)
       IN  \/ /\ past
              /\ address' = SerializeCatalogParams([p EXCEPT !.page = TotalPages(q)])
              /\ UNCHANGED <<view, walked>>
           \/ /\ ~past
              /\ \E rows \in Slices(q) :
                    /\ view' = [params |-> p, rows |-> rows, total |-> Total(q),
                                totalPages |-> TotalPages(q)]
                    /\ walked' = IF p.page = Len(walked) + 1 THEN Append(walked, rows)
                                 ELSE walked
              /\ UNCHANGED address

Follow ==
    /\ view # None
    /\ \E to \in Links(view) :
          address' = SerializeCatalogParams([view.params EXCEPT !.page = to])
    /\ view' = None /\ UNCHANGED walked

\* The student leaves the list.
Leave ==
    /\ view # None
    /\ address' = None /\ view' = None /\ walked' = <<>>

ListNext == Open \/ Render \/ Follow \/ Leave

-----------------------------------------------------------------------------
\* What a view shows, by definition: the courses of its department that match its
\* search, whatever else the address says.
Wanted(p) ==
    {c \in Catalog : /\ p.department \in {None, DeptOf[c]}
                     /\ p.search \in {NoSearch, Blank} \/ Relevance[p.search][c] > 0}
\* The order that a view asks for.
Before(p, c, d) ==
    IF p.search \notin {NoSearch, Blank} THEN Relevance[p.search][c] > Relevance[p.search][d]
    ELSE IF p.sortBy = "title" THEN TitleRank[c] < TitleRank[d]
    ELSE p.sortBy = "code" /\ c < d
\* It leaves nothing open.
Definite(p) == \A c, d \in Wanted(p) : c # d => Before(p, c, d) \/ Before(p, d, c)

\* The pages show every match: a student who opens page 1 and follows the links to
\* the last page saw every course that matches once, in order, and the count the
\* page gives is theirs; of a search broader than the candidate window, the best
\* Window ones and the true count.  Where ties leave the order open, the pages only
\* have the right number of rows.
PagesShowEveryMatch ==
    view # None =>
       LET p == view.params
           all == FlattenSeq(walked)
           reached == Min({Cardinality(Wanted(p)),
                           IF p.search \in {NoSearch, Blank} THEN Cardinality(Catalog)
                           ELSE Window})
       IN  /\ view.total = Cardinality(Wanted(p))
           /\ Len(walked) = view.totalPages =>
                 /\ Len(all) = reached
                 /\ Definite(p) =>
                       /\ IsInjective(all)
                       /\ Range(all) \subseteq Wanted(p)
                       /\ \A i \in DOMAIN all, d \in Wanted(p) :
                             d \in Range(SubSeq(all, 1, i)) \/ Before(p, all[i], d)
=============================================================================
