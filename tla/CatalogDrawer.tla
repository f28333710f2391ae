--------------------------- MODULE CatalogDrawer ----------------------------
(* CatalogWorkspace, its CourseDetailDrawer and the EnrollmentPreflight over *)
(* it: a course is selected, its details are fetched, a section of the      *)
(* details shown is opened, and the list behind them changes meanwhile.     *)
EXTENDS NoValue, Integers, FiniteSets

CONSTANTS
    Courses,
    Outlook,       \* course -> what the preflight finds out about it
    MaxSelects,    \* bound: selections and page loads
    MaxClosings    \* bound: submissions within 800 ms

ASSUME DrawerAssumption == None \notin Courses

VARIABLES
    listed,      \* the courses of the page
    selected,    \* selectedId
    fetches,     \* fetches under way
    detail,      \* detail: whose course details they are
    opened,      \* selectedSection: the course it is a section of
    submitting,
    closings,    \* 800 ms timers that will call onClose
    refused,     \* history: a fetch failed while the preflight was open
    selects

drawerVars ==
    <<listed, selected, fetches, detail, opened, submitting, closings, refused, selects>>

DrawerInit ==
    /\ listed = Courses
    /\ selected = None /\ fetches = {} /\ detail = None
    /\ opened = None /\ submitting = FALSE /\ closings = 0
    /\ refused = FALSE /\ selects = 0

\* Details of no course given to the preflight: detail!.prerequisites throws, and
\* the page's error card replaces everything.
Crashed == opened # None /\ detail = None
DrawerShown == selected \in listed /\ ~Crashed
Covered == opened # None          \* the overlay takes every click

Rest == <<listed, selected, fetches, detail>>
Preflight == <<opened, submitting, closings>>

\* The effect on selectedId: the fetch before is ignored from now on.
Select(c) ==
    /\ selects < MaxSelects /\ selects' = selects + 1
    /\ ~Covered /\ c \in listed /\ c # selected
    /\ selected' = c
    /\ fetches' = {[f EXCEPT !.ignored = TRUE] : f \in fetches}
                     \cup {[id |-> selects, of |-> c, ignored |-> FALSE]}
    \* A course that was off the page had no drawer: it comes up anew.
    /\ closings' = IF selected \in listed THEN closings ELSE 0
    /\ UNCHANGED <<listed, detail, opened, submitting, refused>>

\* setDetail(res), or setDetail(null) when the fetch fails.
DetailLands(f) ==
    /\ f \in fetches /\ ~Crashed
    /\ fetches' = fetches \ {f}
    /\ detail' \in {f.of, None}
    /\ refused' = (refused \/ (detail' = None /\ Covered))
    /\ UNCHANGED <<listed, selected, selects, Preflight>>
DetailArrives(f) ==
    /\ f \in fetches /\ ~Crashed
    /\ fetches' = fetches \ {f}
    /\ IF f.ignored THEN UNCHANGED <<detail, refused>>
       ELSE /\ detail' \in {f.of, None}
            /\ refused' = (refused \/ (detail' = None /\ Covered))
    /\ UNCHANGED <<listed, selected, selects, Preflight>>

\* A section of the details on show, whichever course they are of.
OpenPreflight ==
    /\ DrawerShown /\ ~Covered /\ detail # None
    /\ opened' = detail /\ submitting' = FALSE
    /\ UNCHANGED <<closings, refused, selects, Rest>>

\* The prerequisites are of the details, the credits of the course selected, the
\* hours and the seats of the section opened.
Barred == Outlook[detail].unprepared \/ Outlook[selected].tooMany \/ Outlook[opened].collides
CanEnroll == ~Barred /\ ~Outlook[opened].full
CanWaitlist == ~Barred /\ Outlook[opened].full /\ ~Outlook[opened].waitlistFull

\* handleAction: it only waits.
Submit ==
    /\ DrawerShown /\ Covered /\ ~submitting /\ closings < MaxClosings
    /\ CanEnroll \/ CanWaitlist
    /\ submitting' = TRUE /\ closings' = closings + 1
    /\ UNCHANGED <<opened, refused, selects, Rest>>

\* Cancel, or a click beside the preflight, which submitting does not disable.
Close ==
    /\ DrawerShown /\ Covered
    /\ opened' = None /\ submitting' = FALSE
    /\ UNCHANGED <<closings, refused, selects, Rest>>

\* setSubmitting(false) and onClose(), of the drawer and not of the preflight that
\* set the timer.
Elapse ==
    /\ closings > 0 /\ ~Crashed
    /\ closings' = closings - 1
    /\ opened' = None /\ submitting' = FALSE
    /\ UNCHANGED <<refused, selects, Rest>>

\* Another page of the list arrives.  A drawer whose course is gone is taken down
\* with its preflight; with no course left the whole workspace is.
ListArrives ==
    /\ selects < MaxSelects /\ selects' = selects + 1 /\ ~Crashed
    /\ \E L \in SUBSET Courses :
          /\ listed' = L
          /\ IF L = {}
             THEN /\ selected' = None /\ detail' = None
                  /\ fetches' = {[f EXCEPT !.ignored = TRUE] : f \in fetches}
             ELSE UNCHANGED <<selected, detail, fetches>>
          /\ IF selected \in L THEN UNCHANGED Preflight
             ELSE opened' = None /\ submitting' = FALSE /\ closings' = 0
    /\ UNCHANGED refused

\* "Try again" on the error card: the page is rendered afresh.
Reset ==
    /\ Crashed
    /\ selected' = None /\ detail' = None
    /\ fetches' = {[f EXCEPT !.ignored = TRUE] : f \in fetches}
    /\ opened' = None /\ submitting' = FALSE /\ closings' = 0
    /\ refused' = FALSE
    /\ UNCHANGED <<listed, selects>>

DrawerNext ==
    \/ \E c \in Courses : Select(c)
    \/ \E f \in fetches : DetailArrives(f)
    \/ OpenPreflight \/ Submit \/ Close \/ Elapse \/ ListArrives \/ Reset

DrawerFairness ==
    /\ WF_drawerVars(\E f \in fetches : DetailArrives(f))
    /\ WF_drawerVars(Elapse)

DrawerSpec == DrawerInit /\ [][DrawerNext]_drawerVars /\ DrawerFairness

Fetching == \E f \in fetches : ~f.ignored
\* Nothing under way, or the error card, which waits for the student.
DrawerAtRest == Crashed \/ (fetches = {} /\ ~submitting)
-----------------------------------------------------------------------------
\* The drawer shows its own course: once the fetch for the course selected has
\* answered, the details are that course's or there are none, in whatever order
\* the answers of earlier selections come; and the preflight is only ever without
\* details, which stops the page, when a fetch failed while it was open on the
\* details of the course before.
DrawerShowsSelected ==
    /\ ~Fetching => detail \in {selected, None}
    /\ Crashed => refused /\ selected # None
=============================================================================
