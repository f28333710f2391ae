--------------------------- MODULE SeatAllocation ---------------------------
(***************************************************************************)
(* What seat allocation promises, with every operation one atomic step: a  *)
(* section seats at most as many enrollments as it has room for, a newcomer*)
(* waits only when no seat is free and then behind everyone, seats go to   *)
(* the head of the waitlist, and only an administrator changes its order.  *)
(* There are no counters, positions, locks, transactions or jobs here:     *)
(* Enrollment implements this module with them.                            *)
(***************************************************************************)
EXTENDS Naturals, FiniteSets

CONSTANTS Sections, Ids

VARIABLES
    room,       \* room[s]: seats of section s
    seated,     \* seated[s]: enrollments with a seat
    waiting,    \* waiting[s]: enrollments on the waitlist
    ahead,      \* pairs <<i, j>>: i is ahead of j on their waitlist
    gone        \* enrollments that were given up

abstractVars == <<room, seated, waiting, ahead, gone>>

Present(i) == i \in gone \/ \E s \in Sections : i \in seated[s] \cup waiting[s]
HasSeat(s) == Cardinality(seated[s]) < room[s]

Init ==
    /\ room \in [Sections -> Nat]
    /\ seated = [s \in Sections |-> {}]
    /\ waiting = [s \in Sections |-> {}]
    /\ ahead = {} /\ gone = {}

TakeSeat(i, s) ==
    /\ ~Present(i) /\ HasSeat(s)
    /\ seated' = [seated EXCEPT ![s] = @ \cup {i}]
    /\ UNCHANGED <<room, waiting, ahead, gone>>

Join(i, s) ==
    /\ ~Present(i) /\ ~HasSeat(s)
    /\ waiting' = [waiting EXCEPT ![s] = @ \cup {i}]
    /\ ahead' = ahead \cup (waiting[s] \X {i})
    /\ UNCHANGED <<room, seated, gone>>

\* The enrollments of G give up what they hold in section s.
GiveUp(G, s) ==
    /\ G # {} /\ G \subseteq seated[s] \cup waiting[s]
    /\ G \subseteq waiting[s] \/ Cardinality(G) = 1
    /\ seated' = [seated EXCEPT ![s] = @ \ G]
    /\ waiting' = [waiting EXCEPT ![s] = @ \ G]
    /\ ahead' = {p \in ahead : p[1] \notin G /\ p[2] \notin G}
    /\ gone' = gone \cup G
    /\ UNCHANGED room

\* i gives up what it holds in s, and the newcomer n takes a seat in r, at once.
Move(i, s, n, r) ==
    /\ s # r /\ i \in seated[s] \cup waiting[s]
    /\ ~Present(n) /\ HasSeat(r)
    /\ seated' = [seated EXCEPT ![s] = @ \ {i}, ![r] = @ \cup {n}]
    /\ waiting' = [waiting EXCEPT ![s] = @ \ {i}]
    /\ ahead' = {p \in ahead : i \notin {p[1], p[2]}}
    /\ gone' = gone \cup {i}
    /\ UNCHANGED room

\* The first of the waitlist take the free seats.
Promote(P, s) ==
    /\ P # {} /\ P \subseteq waiting[s]
    /\ \A i \in P, j \in waiting[s] \ P : <<i, j>> \in ahead
    /\ Cardinality(seated[s] \cup P) <= room[s]
    /\ seated' = [seated EXCEPT ![s] = @ \cup P]
    /\ waiting' = [waiting EXCEPT ![s] = @ \ P]
    /\ ahead' = {p \in ahead : p[1] \notin P /\ p[2] \notin P}
    /\ UNCHANGED <<room, gone>>

\* The waitlist of s takes another order; the others keep theirs.
Rearrange(s) ==
    /\ \E place \in [waiting[s] -> 1..Cardinality(waiting[s])] :
          /\ \A i, j \in waiting[s] : place[i] = place[j] => i = j
          /\ ahead' = (ahead \ (waiting[s] \X waiting[s]))
                        \cup {p \in waiting[s] \X waiting[s] : place[p[1]] < place[p[2]]}
    /\ UNCHANGED <<room, seated, waiting, gone>>

Resize(s) ==
    /\ room'[s] \in Nat /\ room'[s] >= Cardinality(seated[s])
    /\ room' = [room EXCEPT ![s] = room'[s]]
    /\ UNCHANGED <<seated, waiting, ahead, gone>>

Operation ==
    \E s \in Sections :
       \/ \E i \in Ids : TakeSeat(i, s) \/ Join(i, s)
       \/ \E G \in SUBSET (seated[s] \cup waiting[s]) : GiveUp(G, s)
       \/ \E i \in seated[s] \cup waiting[s], n \in Ids, r \in Sections : Move(i, s, n, r)
       \/ \E P \in SUBSET waiting[s] : Promote(P, s)
       \/ Rearrange(s)
       \/ Resize(s)

\* An operation that leaves everything as it was is no step.
Next == abstractVars' # abstractVars /\ Operation

Spec == Init /\ [][Next]_abstractVars
=============================================================================
