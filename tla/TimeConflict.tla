---------------------------- MODULE TimeConflict ----------------------------
(* When two meeting patterns collide: the API's check                       *)
(* (enrollment/time-conflict.ts, of which the web app keeps a copy), and    *)
(* the profile page's week (profile/schedule-grid.tsx), which reads the     *)
(* same patterns by the clock and marks the blocks that collide.            *)
(*                                                                          *)
(* A pattern such as "MWF 1:30-2:45" is the fields the parsers split it     *)
(* into; Unsplit is any text that does not split into them ("TBA", "").     *)
EXTENDS Integers, FiniteSets, SequencesExt

Letters == {"M", "T", "W", "R", "F", "S", "U"}
Weekdays == {"M", "T", "W", "R", "F"}
Unsplit == [days |-> {}, from |-> <<0, 0>>, to |-> <<0, 0>>]

\* Minutes, with the hour as it is written: no morning or afternoon.
ParseTime(raw) == raw[1] * 60 + raw[2]

\* A letter that is no day is skipped; a text that does not split has no slot.
ParseMeetingPattern(p) ==
    {[day |-> d, startMin |-> ParseTime(p.from), endMin |-> ParseTime(p.to)] :
        d \in p.days \cap Letters}

SlotsOverlap(a, b) == a.day = b.day /\ a.startMin < b.endMin /\ b.startMin < a.endMin

HasTimeConflict(p, q) ==
    \E a \in ParseMeetingPattern(p), b \in ParseMeetingPattern(q) : SlotsOverlap(a, b)
-----------------------------------------------------------------------------
(* The week of the profile page *)

\* "Assume classes don't start before 8 AM": an earlier hour is in the afternoon.
GridTime(raw) == (IF raw[1] < 8 THEN raw[1] + 12 ELSE raw[1]) * 60 + raw[2]

\* The blocks of day d, by starting time, for rows with the patterns P: a block
\* names its row. The week has no Saturday or Sunday.
DaySlots(P, d) ==
    LET slots == {[row |-> i, startMin |-> GridTime(P[i].from), endMin |-> GridTime(P[i].to)] :
                     i \in {j \in DOMAIN P : d \in P[j].days \cap Weekdays}}
    IN  CHOOSE o \in SetToSeqs(slots) :
           \A m, n \in DOMAIN o : m < n => o[m].startMin <= o[n].startMin

\* assignColumns: each slot goes into the first column whose last slot has
\* ended. A column is represented by the end of its last slot.
PlaceSlot(cols, slot) ==
    LET fits == {i \in DOMAIN cols : cols[i] <= slot.startMin}
    IN  IF fits = {} THEN Append(cols, slot.endMin)
        ELSE [cols EXCEPT ![CHOOSE i \in fits : \A j \in fits : i <= j] = slot.endMin]
Columns(group) ==
    LET cols[n \in 0..Len(group)] ==
            IF n = 0 THEN <<>> ELSE PlaceSlot(cols[n - 1], group[n])
    IN  cols[Len(group)]

LastEnd(end, slot) == slot.endMin
LaterEnd(end, slot) == IF slot.endMin > end THEN slot.endMin ELSE end

\* A slot that starts before all of the group so far has ended joins it.
JoinSlot(acc, slot) ==
    IF slot.startMin >= acc.end
    THEN [done |-> Append(acc.done, acc.group), group |-> <<slot>>, end |-> slot.endMin]
    ELSE [acc EXCEPT !.group = Append(@, slot), !.end = LaterEnd(@, slot)]
Groups(slots) ==
    LET acc[n \in 0..Len(slots)] ==
            IF n = 0 THEN [done |-> <<>>, group |-> <<>>, end |-> -1]
            ELSE JoinSlot(acc[n - 1], slots[n])
        all == acc[Len(slots)]
    IN  Append(all.done, all.group)

\* The rows with a block marked "Conflict" on day d: its group needs more than
\* one column.
Marked(P, d) ==
    LET groups == Range(Groups(DaySlots(P, d)))
    IN  UNION {{slot.row : slot \in Range(g)} : g \in {h \in groups : Len(Columns(h)) > 1}}

\* The week marks exactly the rows that the API would refuse next to another one.
MarksCollisions(P) ==
    \A i \in DOMAIN P :
       (\E d \in Weekdays : i \in Marked(P, d))
         <=> \E j \in DOMAIN P \ {i} : HasTimeConflict(P[i], P[j])
-----------------------------------------------------------------------------
(* The patterns that both read alike *)

\* Hours as on a clock; none crosses from those of the morning (8 to 12) into those
\* of the afternoon (1 to 7).
ReadAlike(p) ==
    /\ p.days \subseteq Letters
    /\ {p.from, p.to} \subseteq (1..12) \X (0..59)
    /\ p.from[1] < 8 <=> p.to[1] < 8
\* The week has a block for it, which ends after it starts.
OnTheGrid(p) == ReadAlike(p) /\ p.days \subseteq Weekdays /\ ParseTime(p.from) < ParseTime(p.to)

\* The minutes of the week in which a pattern meets, by the clock.
Meets(p) == {w \in p.days \X (0..1439) : GridTime(p.from) <= w[2] /\ w[2] < GridTime(p.to)}
=============================================================================
