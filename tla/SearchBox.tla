----------------------------- MODULE SearchBox ------------------------------
(* SearchControls: the search box of the course list, its debounce timer,   *)
(* the department picker, and the page loads (transitions) they start, each *)
(* built from the parameters of the page that was showing at the time.      *)
EXTENDS NoValue, Integers

CONSTANTS
    Texts,        \* what can be typed; "" is an empty box
    Chosen,       \* the departments that can be picked
    MaxInputs    \* bound: keystrokes, picks and links

\* The parameters of a page, and what the debounce timer holds.
Params == [search : Texts, department : Chosen \cup {None}, number : {1, 2},
           sortBy : {"code", "relevance"}]
Debounce == [search : Texts, base : Params]

ASSUME BoxAssumption == "" \in Texts /\ None \notin Params \cup Debounce

VARIABLES
    page,      \* initial: the parameters of the page shown
    box,       \* search
    synced,    \* syncedSearch
    timer,     \* debounce: what it applies, and the page of its closure
    load,      \* the page on its way; a later one replaces it
    wanted,    \* the department the student picked last
    undone,    \* a request was built on a page already given up
    inputs

boxVars == <<page, box, synced, timer, load, wanted, undone, inputs>>

FrontPage == [search |-> "", department |-> None, number |-> 1, sortBy |-> "code"]

BoxInit ==
    /\ page = FrontPage /\ box = "" /\ synced = "" /\ timer = None /\ load = None
    /\ wanted = None /\ undone = FALSE /\ inputs = 0

Input == inputs < MaxInputs /\ inputs' = inputs + 1

\* The page the student has asked for so far.
Target == IF load # None THEN load ELSE page

\* next, with page 1, and sorted by code when there is nothing to be relevant to.
Apply(p) ==
    load' = [p EXCEPT !.number = 1,
                      !.sortBy = IF p.search = "" /\ @ = "relevance" THEN "code" ELSE @]

\* A request that changes fields of base takes the others from it.
Builds(base, fields) ==
    undone' = (undone \/ \E f \in {"search", "department"} \ fields : base[f] # Target[f])

Type(s) ==
    /\ Input /\ s # box
    /\ box' = s
    /\ timer' = IF s = page.search THEN None ELSE [search |-> s, base |-> page]
    /\ UNCHANGED <<page, synced, load, wanted, undone>>

\* 300 ms later.
Fire ==
    /\ timer # None /\ timer' = None
    /\ Apply([timer.base EXCEPT !.search = timer.search])
    /\ Builds(timer.base, {"search"})
    /\ UNCHANGED <<page, box, synced, wanted, inputs>>

Pick(d) ==
    /\ Input /\ d # page.department
    /\ Apply([page EXCEPT !.department = d])
    /\ wanted' = d
    /\ Builds(page, {"department"})
    /\ UNCHANGED <<page, box, synced, timer>>

PickSort(by) ==
    /\ Input /\ by # page.sortBy
    /\ by = "relevance" => page.search # ""
    /\ Apply([page EXCEPT !.sortBy = by])
    /\ Builds(page, {})
    /\ UNCHANGED <<page, box, synced, timer, wanted>>

\* A link of Pagination.
TurnPage ==
    /\ Input
    /\ load' = [page EXCEPT !.number = 3 - @]
    /\ Builds(page, {})
    /\ UNCHANGED <<page, box, synced, timer, wanted>>

\* "Clear all filters", where nothing matched.
ClearFilters ==
    /\ Input
    /\ page.search # "" \/ page.department # None
    /\ load' = FrontPage /\ wanted' = None
    /\ Builds(page, {})
    /\ UNCHANGED <<page, box, synced, timer>>

\* The page arrives.  A new search on it replaces what the box says, and with it
\* the timer of a keystroke that the box no longer shows.
ArriveUnsynced ==
    /\ load # None /\ load' = None
    /\ page' = load
    /\ UNCHANGED <<box, synced, timer, wanted, undone, inputs>>
Arrive ==
    /\ load # None /\ load' = None
    /\ page' = load
    /\ synced' = load.search
    /\ IF load.search # synced
       THEN /\ box' = load.search
            /\ timer' = IF box = load.search THEN timer ELSE None
       ELSE UNCHANGED <<box, timer>>
    /\ UNCHANGED <<wanted, undone, inputs>>

BoxNext ==
    \/ \E s \in Texts : Type(s)
    \/ Fire
    \/ \E d \in Chosen \cup {None} : Pick(d)
    \/ \E by \in {"code", "relevance"} : PickSort(by)
    \/ TurnPage \/ ClearFilters \/ Arrive

BoxFairness == WF_boxVars(Fire) /\ WF_boxVars(Arrive)

BoxSpec == BoxInit /\ [][BoxNext]_boxVars /\ BoxFairness

BoxAtRest == timer = None /\ load = None
-----------------------------------------------------------------------------
\* When the box comes to rest, the list below it is the one it describes: the page
\* shown has the search in the box and the department picked last, whatever was
\* typed while pages were on their way, unless a request was built on a page
\* already given up and took that page's search or department back.
BoxFollowsPage ==
    BoxAtRest /\ ~undone => box = page.search /\ wanted = page.department
=============================================================================
