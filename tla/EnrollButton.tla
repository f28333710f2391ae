---------------------------- MODULE EnrollButton ----------------------------
(* EnrollButton on the course page and EnrollmentActions on the page of     *)
(* one's enrollments: what one section's buttons say to a student, while    *)
(* the API, another tab and the promotion worker change where the student   *)
(* stands.                                                                  *)
EXTENDS NoValue, Integers, Sequences

CONSTANTS
    MaxMoves      \* bound: changes made elsewhere, clicks and refreshes

VARIABLES
    row,           \* the student's active row in the section, if any
    completed,     \* whether the student also has a completed one
    joins,         \* rows made so far: each has an id of its own
    prop,          \* the standing in the page rendered last (viewerEnrollment)
    done,          \* the label that replaces the button
    posts,         \* the POSTs sent: on its way, its result, or over
    pending,       \* the one the mounted button waits for, 0 if none
    unread,        \* history: the row was changed by others since the page's last read
    asked,         \* refreshes of the course page that have not begun
    arriving,      \* what the one that has begun read, on its way
    card,          \* the row whose EnrollmentActions is on the other page
    dropping,      \* its state: idle, sure?, or the PATCH and its result
    mineAsked,     \* a refresh of that page is under way
    moves

rowVars == <<row, completed, joins>>
Button == <<prop, done, pending>>
CoursePage == <<Button, posts, asked, arriving>>
MyPage == <<card, dropping, mineAsked>>
buttonVars == <<rowVars, unread, CoursePage, MyPage, moves>>

Active == {"ENROLLED", "WAITLISTED"}

\* resolveViewerEnrollments: an active row comes before a completed one.
Standing == IF row # None THEN row.status ELSE IF completed THEN "COMPLETED" ELSE None
InitialDone(v) == IF v \in Active THEN v ELSE None

\* EnrollButton is mounted with what a page says.  syncedFrom is that too, and no
\* later render finds another one: the next page mounts a new button.
Mounted(v) == prop' = v /\ done' = InitialDone(v) /\ pending' = 0

ButtonInit ==
    /\ row \in {None} \cup [status : Active, id : {0}]
    /\ completed \in BOOLEAN /\ joins = 0 /\ unread = FALSE
    /\ prop = Standing /\ done = InitialDone(prop) /\ pending = 0
    /\ posts = <<>> /\ asked = 0 /\ arriving = <<>>
    /\ card = row /\ dropping = "idle" /\ mineAsked = FALSE
    /\ moves = 0

OneMove == moves < MaxMoves /\ moves' = moves + 1

Join ==
    /\ row = None /\ joins' = joins + 1
    /\ row' \in [status : Active, id : {joins'}]
    /\ UNCHANGED completed

\* Another tab enrolls or drops; the worker promotes; a POST given up for lost commits.
Elsewhere ==
    /\ OneMove /\ unread' = TRUE
    /\ \/ Join
       \/ row # None /\ row' = None /\ UNCHANGED <<completed, joins>>
       \/ /\ row # None /\ row.status = "WAITLISTED"
          /\ row' = [row EXCEPT !.status = "ENROLLED"] /\ UNCHANGED <<completed, joins>>
    /\ UNCHANGED <<CoursePage, MyPage>>

\* The button, which a label or a completed course replaces.  A button mounted while
\* the POST of the one before is out knows nothing of it.
Enroll ==
    /\ OneMove /\ pending = 0 /\ done = None /\ prop # "COMPLETED"
    /\ posts' = Append(posts, "sent") /\ pending' = Len(posts')
    /\ UNCHANGED <<rowVars, unread, prop, done, asked, arriving, MyPage>>

\* POST /enrollments makes a row, answers with the active one there is, or refuses,
\* which it may do in either case.
Enrolled(n) ==
    /\ posts[n] = "sent"
    /\ \/ Join /\ posts' = [posts EXCEPT ![n] = row'.status]
       \/ row # None /\ UNCHANGED rowVars /\ posts' = [posts EXCEPT ![n] = row.status]
       \/ UNCHANGED rowVars /\ posts' = [posts EXCEPT ![n] = "refused"]
    /\ UNCHANGED <<unread, Button, asked, arriving, MyPage, moves>>

\* A POST is over: its button, if still mounted, is enabled again.
Over(n) ==
    /\ posts' = [posts EXCEPT ![n] = "over"]
    /\ pending' = IF pending = n THEN 0 ELSE pending

\* An answer that comes after its button was unmounted is dropped.
ResultShownIfMounted(n) ==
    /\ posts[n] # "over" /\ Over(n)
    /\ IF posts[n] \in Active /\ pending = n
       THEN done' = posts[n] /\ asked' = asked + 1
       ELSE UNCHANGED <<done, asked>>
    /\ UNCHANGED <<rowVars, unread, prop, arriving, MyPage, moves>>

\* A result is shown by the button that asked for it, if it is still mounted, and the
\* page refreshed; an error, or an answer that was lost, is a toast.
ResultShown(n) ==
    /\ posts[n] # "over" /\ Over(n)
    /\ \/ /\ posts[n] \in Active /\ asked' = asked + 1
          /\ done' = IF pending = n THEN posts[n] ELSE done
          /\ UNCHANGED unread
       \/ unread' = (unread \/ posts[n] \in Active) /\ UNCHANGED <<done, asked>>
    /\ UNCHANGED <<rowVars, prop, arriving, MyPage, moves>>

\* Another button of the page refreshes it.
RefreshCourse ==
    /\ OneMove /\ asked = 0 /\ asked' = 1
    /\ UNCHANGED <<rowVars, unread, Button, posts, arriving, MyPage>>

\* The router refreshes one at a time: the page is read on the server, and arrives
\* later.
CourseRead ==
    /\ asked > 0 /\ arriving = <<>>
    /\ asked' = asked - 1 /\ arriving' = <<Standing>> /\ unread' = FALSE
    /\ UNCHANGED <<rowVars, Button, posts, MyPage, moves>>

\* SectionsTable makes its columns anew, so that the cells, functions rendered as
\* components, are other components: the old button is unmounted, a new one mounted.
CourseRendered ==
    /\ arriving # <<>> /\ arriving' = <<>>
    /\ Mounted(arriving[1])
    /\ UNCHANGED <<rowVars, unread, posts, asked, MyPage, moves>>

\* "Drop" or "Leave waitlist", and "Sure?".
AskToDrop ==
    /\ OneMove /\ card # None /\ dropping = "idle"
    /\ dropping' = "sure?"
    /\ UNCHANGED <<rowVars, unread, CoursePage, card, mineAsked>>
Cancel ==
    /\ dropping = "sure?" /\ dropping' = "idle"
    /\ UNCHANGED <<rowVars, unread, CoursePage, card, mineAsked, moves>>
Drop ==
    /\ dropping = "sure?" /\ dropping' = "sent"
    /\ UNCHANGED <<rowVars, unread, CoursePage, card, mineAsked, moves>>

\* PATCH /enrollments/:id/drop takes the row, whatever the button called it.
Dropped ==
    /\ dropping = "sent"
    /\ IF row # None /\ row.id = card.id
       THEN row' = None /\ unread' = TRUE /\ dropping' = "dropped"
       ELSE UNCHANGED <<row, unread>> /\ dropping' = "refused"
    /\ UNCHANGED <<completed, joins, CoursePage, card, mineAsked, moves>>

\* Success leaves "Working" to the refresh, which takes the card away.
DropAnswered ==
    /\ \/ /\ dropping = "dropped" /\ dropping' = "leaving"
          /\ mineAsked' = TRUE
       \/ /\ dropping \in {"sent", "dropped", "refused"} /\ dropping' = "idle"
          /\ UNCHANGED mineAsked
    /\ UNCHANGED <<rowVars, unread, CoursePage, card, moves>>

RefreshMine ==
    /\ OneMove /\ ~mineAsked /\ mineAsked' = TRUE
    /\ UNCHANGED <<rowVars, unread, CoursePage, card, dropping>>

\* Another row has a card of its own.
MineRendered ==
    /\ mineAsked /\ mineAsked' = FALSE
    /\ card' = row
    /\ dropping' = IF row # None /\ card # None /\ row.id = card.id THEN dropping ELSE "idle"
    /\ UNCHANGED <<rowVars, unread, CoursePage, moves>>

ButtonNext ==
    \/ \E n \in 1..Len(posts) : Enrolled(n) \/ ResultShown(n)
    \/ Elsewhere \/ Enroll \/ RefreshCourse \/ CourseRead \/ CourseRendered
    \/ AskToDrop \/ Cancel \/ Drop \/ Dropped \/ DropAnswered \/ RefreshMine \/ MineRendered

ButtonFairness ==
    /\ WF_buttonVars(\E n \in 1..Len(posts) : ResultShown(n))
    /\ WF_buttonVars(CourseRead) /\ WF_buttonVars(CourseRendered)
    /\ WF_buttonVars(DropAnswered) /\ WF_buttonVars(MineRendered)

ButtonSpec == ButtonInit /\ [][ButtonNext]_buttonVars /\ ButtonFairness

Refreshing == asked > 0 \/ arriving # <<>>
ButtonAtRest ==
    /\ \A n \in 1..Len(posts) : posts[n] = "over"
    /\ ~Refreshing /\ dropping \in {"idle", "sure?"}
-----------------------------------------------------------------------------
\* What the button says is so: once no refresh is outstanding the label is that of the
\* page, and the page knows of every enroll made with its buttons that was answered,
\* also by a POST whose button a refresh took away, or that was sent beside another.
\* Only what others did since the page was read it does not know.
ButtonTellsStanding ==
    ~Refreshing =>
       /\ done = InitialDone(prop)
       /\ ~unread /\ (\A n \in 1..Len(posts) : posts[n] \notin Active) => prop = Standing
=============================================================================
