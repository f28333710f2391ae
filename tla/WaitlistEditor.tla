--------------------------- MODULE WaitlistEditor ---------------------------
(* The waitlist page of an administrator: WaitlistReorder, which edits a    *)
(* copy of the list taken when it was mounted, and SectionSettings, which   *)
(* edits a copy of the two limits; each saves its whole copy.  Students     *)
(* join and leave, and other administrators save, all the while.            *)
EXTENDS NoValue, Integers, Sequences, SequencesExt

CONSTANTS
    Entries,       \* enrollments that may be on the list
    Limits,        \* capacities and waitlist caps
    MaxEvents     \* bound: changes made elsewhere, moves and saves

VARIABLES
    rows,          \* the waitlist, as the API keeps it
    limits,        \* capacity and waitlistCap of the section
    entries,       \* the list of the page rendered last
    order,         \* the editor's copy; None: no editor, the list is empty
    saving,        \* the list of a save under way
    stale,         \* "The waitlist changed since it was loaded."
    form,          \* the copy of SectionSettings
    refreshing,    \* a router.refresh under way
    reloaded,      \* history: the Refresh of a stale list has been answered
    events

editorVars ==
    <<rows, limits, entries, order, saving, stale, form, refreshing, reloaded, events>>

Event == events < MaxEvents /\ events' = events + 1

\* The page: mounted with an editor unless nobody waits.
EditorInit ==
    /\ \E S \in SUBSET Entries : rows \in SetToSeqs(S)
    /\ limits \in [capacity : Limits, waitlistCap : Limits]
    /\ entries = rows /\ order = IF rows = <<>> THEN None ELSE rows
    /\ form = limits
    /\ saving = None /\ stale = FALSE /\ refreshing = FALSE
    /\ reloaded = FALSE /\ events = 0

Page == <<entries, order, saving, stale, form, refreshing>>
Server == <<rows, limits>>

\* Students join and leave; somebody else saves an order or a limit.
ElsewhereList ==
    /\ Event /\ reloaded' = FALSE
    /\ \/ \E e \in Entries \ Range(rows) : rows' = Append(rows, e)
       \/ \E i \in DOMAIN rows : rows' = RemoveAt(rows, i)
       \/ \E i \in 1..(Len(rows) - 1) :
             rows' = [rows EXCEPT ![i] = rows[i + 1], ![i + 1] = rows[i]]
    /\ UNCHANGED <<limits, Page>>
ElsewhereLimits ==
    /\ Event
    /\ \E c \in Limits : limits' = [limits EXCEPT !.capacity = c]
    /\ UNCHANGED <<rows, reloaded, Page>>

\* The arrows of the rows, which a save under way does not disable.
Move(i, j) ==
    /\ order # None /\ Event
    /\ {i, j} \subseteq DOMAIN order /\ j = i + 1
    /\ order' = [order EXCEPT ![i] = order[j], ![j] = order[i]]
    /\ UNCHANGED <<Server, entries, saving, stale, form, refreshing, reloaded>>

Save ==
    /\ order # None /\ saving = None /\ Event
    /\ saving' = [list |-> order, result |-> "sent"]
    /\ stale' = FALSE
    /\ UNCHANGED <<Server, entries, order, form, refreshing, reloaded>>

\* WaitlistService.reorder.
Reorder ==
    /\ saving # None /\ saving.result = "sent"
    /\ IF Range(saving.list) = Range(rows)
       THEN rows' = saving.list /\ saving' = [saving EXCEPT !.result = "saved"]
       ELSE UNCHANGED rows /\ saving' = [saving EXCEPT !.result = "WAITLIST_CHANGED"]
    /\ reloaded' = FALSE
    /\ UNCHANGED <<limits, entries, order, stale, form, refreshing, events>>

\* The answer, or none; only a save that worked refreshes the page by itself.
SaveAnswered ==
    /\ saving # None
    /\ \E lost \in BOOLEAN :
          /\ saving.result = "sent" => lost
          /\ stale' = (order # None /\ ~lost /\ saving.result = "WAITLIST_CHANGED")
          /\ refreshing' = (refreshing \/ (~lost /\ saving.result = "saved"))
    /\ saving' = None
    /\ UNCHANGED <<Server, entries, order, form, reloaded, events>>

\* The Refresh beside the warning.
Refresh ==
    /\ order # None /\ stale /\ ~refreshing
    /\ refreshing' = TRUE
    /\ UNCHANGED <<Server, entries, order, saving, stale, form, reloaded, events>>

\* The page is rendered again: an editor that stays keeps its copy, one that was
\* not there starts from the new list.
RefreshAnswered ==
    /\ refreshing /\ refreshing' = FALSE
    /\ entries' = rows
    /\ reloaded' = stale
    /\ order' = IF rows = <<>> THEN None ELSE IF order = None THEN rows ELSE order
    /\ stale' = (stale /\ rows # <<>>)
    /\ UNCHANGED <<Server, saving, form, events>>

\* SectionSettings: both fields go out, the one nobody touched too.
SaveLimits ==
    /\ Event
    /\ \E l \in Limits : form' = [form EXCEPT !.waitlistCap = l] /\ limits' = form'
    /\ refreshing' = TRUE
    /\ UNCHANGED <<rows, entries, order, saving, stale, reloaded>>

EditorNext ==
    \/ ElsewhereList \/ ElsewhereLimits
    \/ \E i, j \in 1..Len(rows) + 1 : Move(i, j)
    \/ Save \/ Reorder \/ SaveAnswered \/ Refresh \/ RefreshAnswered \/ SaveLimits

EditorFairness ==
    WF_editorVars(Reorder) /\ WF_editorVars(SaveAnswered) /\ WF_editorVars(RefreshAnswered)

EditorSpec == EditorInit /\ [][EditorNext]_editorVars /\ EditorFairness

EditorAtRest == saving = None /\ ~refreshing
-----------------------------------------------------------------------------
\* Reload and try again: after the Refresh offered for a stale list, and until the
\* list changes once more, the editor holds the students who are waiting, so that
\* the next save is accepted.
ReloadBringsTheList == reloaded /\ order # None => Range(order) = Range(rows)
=============================================================================
