------------------------------ MODULE Notices -------------------------------
(* What the student is told: the notifications page with its two buttons    *)
(* over NotificationsService, and the toasts in the corner of every page.   *)
EXTENDS NoValue, Integers, Sequences, SequencesExt, FiniteSets

CONSTANTS
    MaxNotices,    \* bound: notifications that come in
    MaxStamps,     \* bound: requests that mark something read
    PageLength,    \* list: the newest 50
    Buttons,       \* tabs of the page, each with a button pressed at a time
    AutoDismiss,   \* AUTO_DISMISS_MS, in ticks
    MaxToasts      \* bound

VARIABLES
    readAt,        \* one for each notification, in the order they came
    stamps,        \* times given so far
    list,          \* tab -> the rows and the count of its page
    pressed,       \* tab -> the request of its button, and how far it is
    renewing,      \* the tabs whose page is being refreshed
    toasts,        \* the stack, oldest first
    paused,        \* pointer or focus is on the stack
    age,           \* how long the timer has run
    pushed

noticeVars == <<readAt, stamps, list, pressed, renewing>>
toastVars == <<toasts, paused, age, pushed>>

Unread == {n \in DOMAIN readAt : readAt[n] = None}
\* findMany and count, one after the other.
Newest(len) == {n \in 1..len : n > len - PageLength}
NoRequest == [of |-> None, step |-> "idle", unread |-> FALSE]

NoticesInit ==
    /\ readAt = <<None>> /\ stamps = 0
    /\ list = [b \in Buttons |-> [rows |-> {1}, unread |-> {1}, count |-> 1]]
    /\ pressed = [b \in Buttons |-> NoRequest] /\ renewing = {}
ToastsInit == toasts = <<>> /\ paused = FALSE /\ age = 0 /\ pushed = 0

Notify ==
    /\ Len(readAt) < MaxNotices
    /\ readAt' = Append(readAt, None)
    /\ UNCHANGED <<stamps, list, pressed, renewing>>

Step(b, to) == pressed' = [pressed EXCEPT ![b].step = to]

\* "Mark read" of a row shown unread; "Mark all read" while the count is not 0.
Press(b) ==
    /\ pressed[b].step = "idle" /\ stamps < MaxStamps
    /\ \E n \in list[b].unread \cup {None} :
          /\ n = None => list[b].count > 0
          /\ pressed' = [pressed EXCEPT ![b] = [of |-> n, step |-> "sent", unread |-> FALSE]]
    /\ UNCHANGED <<readAt, stamps, list, renewing>>

\* markRead looks the row up, and stamps it by a second statement.
LookUp(b) ==
    /\ pressed[b].step = "sent" /\ pressed[b].of # None
    /\ pressed' = [pressed EXCEPT ![b].step = "found", ![b].unread = pressed[b].of \in Unread]
    /\ UNCHANGED <<readAt, stamps, list, renewing>>
Stamp(b) ==
    /\ pressed[b].step = "found"
    /\ IF pressed[b].unread
       THEN /\ readAt' = [readAt EXCEPT ![pressed[b].of] = stamps + 1]
            /\ stamps' = stamps + 1
       ELSE UNCHANGED <<readAt, stamps>>
    /\ Step(b, "done") /\ UNCHANGED <<list, renewing>>

\* markAllRead is one statement: every row unread now, on the page or not.
StampAll(b) ==
    /\ pressed[b].step = "sent" /\ pressed[b].of = None
    /\ readAt' = [n \in DOMAIN readAt |-> IF n \in Unread THEN stamps + 1 ELSE readAt[n]]
    /\ stamps' = stamps + 1
    /\ Step(b, "done") /\ UNCHANGED <<list, renewing>>

\* Success asks for a refresh, failure shows why; either way the button is back.
AnsweredFailing(b) ==
    /\ pressed[b].step = "done" /\ Step(b, "idle")
    /\ renewing' = renewing \cup {b}
    /\ UNCHANGED <<readAt, stamps, list>>
Answered(b) ==
    /\ pressed[b].step # "idle" /\ Step(b, "idle")
    /\ renewing' \in {renewing}
                         \cup (IF pressed[b].step = "done" THEN {renewing \cup {b}} ELSE {})
    /\ UNCHANGED <<readAt, stamps, list>>
Refreshed(b) ==
    /\ b \in renewing /\ renewing' = renewing \ {b}
    /\ LET rows == Newest(Len(readAt))
       IN  list' = [list EXCEPT ![b] = [rows |-> rows, unread |-> rows \cap Unread,
                                        count |-> Cardinality(Unread)]]
    /\ UNCHANGED <<readAt, stamps, pressed>>

NoticesNext ==
    \/ Notify
    \/ \E b \in Buttons : Press(b) \/ LookUp(b) \/ Stamp(b) \/ StampAll(b)
                          \/ Answered(b) \/ Refreshed(b)
-----------------------------------------------------------------------------
\* Every change of the stack starts the one timer afresh.
Push ==
    /\ pushed < MaxToasts /\ pushed' = pushed + 1
    /\ toasts' = Append(toasts, pushed) /\ age' = 0
    /\ UNCHANGED paused

Tick ==
    /\ toasts # <<>> /\ ~paused /\ age < AutoDismiss
    /\ age' = age + 1
    /\ UNCHANGED <<toasts, paused, pushed>>

Expire ==
    /\ toasts # <<>> /\ ~paused /\ age = AutoDismiss
    /\ toasts' = Tail(toasts) /\ age' = 0
    /\ UNCHANGED <<paused, pushed>>

\* The cross of a toast; the pointer or the focus that pressed it may be gone with
\* it, with or without an event that says so.
Dismiss ==
    /\ paused
    /\ \E i \in DOMAIN toasts : toasts' = RemoveAt(toasts, i)
    /\ paused' \in BOOLEAN /\ age' = 0
    /\ UNCHANGED pushed

Pause == toasts # <<>> /\ ~paused /\ paused' = TRUE /\ age' = 0 /\ UNCHANGED <<toasts, pushed>>
Resume == paused /\ paused' = FALSE /\ age' = 0 /\ UNCHANGED <<toasts, pushed>>

ToastsNext == Push \/ Tick \/ Expire \/ Dismiss \/ Pause \/ Resume
-----------------------------------------------------------------------------
NoticesFairness ==
    /\ \A b \in Buttons : /\ WF_noticeVars(Answered(b))
                          /\ WF_noticeVars(Refreshed(b))
    /\ WF_toastVars(Tick) /\ WF_toastVars(Expire)

NoticesAtRest(b) == b \notin renewing /\ pressed[b].step = "idle"
ToastsAtRest == paused \/ toasts = <<>>
=============================================================================
