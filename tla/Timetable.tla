----------------------------- MODULE Timetable ------------------------------
(* Enrollment with the meeting times of its sections: which of them collide *)
(* is what the API's check says of their patterns.                          *)
EXTENDS Enrollment, TimeConflict

CONSTANTS
    Meeting,        \* the meeting pattern of each section
    FurtherMeetings \* patterns of sections of other terms

Collisions == {w \in Sections \X Sections : HasTimeConflict(Meeting[w[1]], Meeting[w[2]])}

ASSUME TimetableAssumption == Overlap = Collisions

\* No two active rows of a student have a minute of the week in common, by the
\* clock: what hasTimeConflict compares are minutes without morning or afternoon,
\* and the check is made against rows that swaps and promotions change.
NoOverlappingRows ==
    \A i, j \in Ids :
       /\ {enr[i].status, enr[j].status} \subseteq ActiveStatuses
       /\ enr[i].student = enr[j].student /\ enr[i].section # enr[j].section
       /\ ReadAlike(Meeting[enr[i].section]) /\ ReadAlike(Meeting[enr[j].section])
       => Meets(Meeting[enr[i].section]) \cap Meets(Meeting[enr[j].section]) = {}

\* What the profile page may show: three rows of patterns that the week has, or
\* fewer (Unsplit has no block).
Weeks ==
    LET patterns == {p \in {Meeting[s] : s \in Sections} \cup FurtherMeetings :
                        OnTheGrid(p) \/ p = Unsplit}
    IN  {<<p, q, r>> : p, q, r \in patterns}
Misread == {P \in Weeks : ~MarksCollisions(P)}

\* The week of the profile page marks a row as a conflict exactly when the API
\* would have refused it next to another row shown: its grouping and its columns
\* (which never hold two blocks at one time) agree with hasTimeConflict, though
\* they read the hours differently. For what a student holds at any time, alone or
\* beside rows that concurrent requests or other terms have added.
GridShowsCollisions ==
    \A u \in Students, P \in Misread :
       ~({Meeting[enr[i].section] : i \in Active(u)} \subseteq Range(P))
=============================================================================
