------------------------ MODULE EnrollmentStepProofs ------------------------
(***************************************************************************)
(* What one step of Enrollment may do to the rows: its action properties,  *)
(* its audit trail, the rules of registration, and that each step is one of*)
(* the promise SeatAllocation, from the inductive invariant of             *)
(* EnrollmentProofs.                                                       *)
(***************************************************************************)
EXTENDS EnrollmentProofs

-----------------------------------------------------------------------------
(* The effects of the commits on the Enrollment table, apart from who       *)
(* commits: every step but these leaves the rows and the capacities alone.  *)

\* An INSERT of a row n.
Inserted(n, u, s, status, pos) ==
    /\ n \in Ids /\ u \in Students /\ s \in Sections /\ enr[n] = Unused
    /\ enr'[n] = [student |-> u, section |-> s, status |-> status, pos |-> pos]
    /\ \A i \in Ids \ {n} : enr'[i] = enr[i]

ClosedRow(i) ==
    /\ enr'[i].student = enr[i].student /\ enr'[i].section = enr[i].section
    /\ enr'[i].status = "DROPPED" /\ enr'[i].pos = None

\* The rows of G, active in section s, are closed.
ClosedIn(G, s) ==
    /\ s \in Sections /\ G \subseteq Seated(s) \cup Waiting(s)
    /\ \A i \in G : ClosedRow(i)
    /\ \A i \in Ids \ G : enr'[i] = enr[i]

\* Row i of section s is closed and row n of the same student takes a seat in r.
Swapped(i, s, n, r) ==
    /\ s \in Sections /\ r \in Sections /\ r # s
    /\ i \in Seated(s) \cup Waiting(s) /\ n \in Ids /\ enr[n] = Unused
    /\ ClosedRow(i)
    /\ enr'[n] = [student |-> enr[i].student, section |-> r, status |-> "ENROLLED",
                  pos |-> None]
    /\ \A j \in Ids \ {i, n} : enr'[j] = enr[j]

\* The first of the waitlist of s, as many as there are seats, are enrolled.
Promoted(P, s) ==
    /\ s \in Sections /\ P \in HeadsOf(s, capacity[s] - enrolledCount[s])
    /\ \A i \in P : /\ enr'[i].student = enr[i].student /\ enr'[i].section = enr[i].section
                    /\ enr'[i].status = "ENROLLED" /\ enr'[i].pos = None
    /\ \A i \in Ids \ P : enr'[i] = enr[i]

\* The waitlist of s takes the places "place".
Reordered(s, place) ==
    /\ s \in Sections
    /\ place \in [Waiting(s) -> 1..Cardinality(Waiting(s))]
    /\ \A i, j \in Waiting(s) : place[i] = place[j] => i = j
    /\ \A i \in Waiting(s) :
          /\ enr'[i].student = enr[i].student /\ enr'[i].section = enr[i].section
          /\ enr'[i].status = enr[i].status /\ enr'[i].pos = place[i]
    /\ \A i \in Ids \ Waiting(s) : enr'[i] = enr[i]

\* The commits that write rows or a capacity.
Writes(t) ==
    \/ EnrollSeat(t) \/ EnrollWait(t) \/ Drop(t) \/ Swap(t)
    \/ Promote(t) \/ Reorder(t) \/ UpdateSection(t) \/ Expire(t)

\* No other step touches a row, a capacity, an audit row or a notice.
LEMMA OnlyWritersWrite ==
    ASSUME [Next]_vars, \A t \in Txns : ~Writes(t)
    PROVE  UNCHANGED <<enr, capacity, enrolledCount, waitlistCap, audit, notices>>
<1>. USE DEF tables
<1>1. ASSUME NEW t \in Clients, Request(t) PROVE UNCHANGED tables
  BY <1>1 DEF Request, BeginEnroll, BeginDrop, BeginSwap, BeginReorder, BeginUpdate
<1>2. ASSUME NEW t \in Workers, NEW s \in Sections, BeginPromote(t, s) \/ BeginExpire(t, s)
      PROVE  UNCHANGED tables
  BY <1>2 DEF BeginPromote, BeginExpire
<1>3. ASSUME NEW t \in Txns, AcquireLock(t) \/ Fault(t) PROVE UNCHANGED tables
  BY <1>3 DEF AcquireLock, Fault
<1>4. ASSUME NEW t \in Txns, Step(t) PROVE UNCHANGED tables
  BY <1>4 DEF Step, Writes, EnrollCheck, EnrollRefuse, SwapCheck, SwapRefuse, SwapHitsIndex,
              NoIdLeft, PromoteCheck, PromoteClosed, CompleteJob, ReorderCheck, UpdateCheck,
              ExpireCheck, Enqueue
<1>5. CASE Sweep \/ Tick \/ UNCHANGED vars \/ \E u \in Students : PlaceHold(u) \/ ReleaseHold(u)
  BY <1>5 DEF Sweep, Tick, PlaceHold, ReleaseHold, vars
<1>. QED
  BY <1>1, <1>2, <1>3, <1>4, <1>5 DEF Next

\* A row with an active status is in use.
LEMMA ActiveRow ==
    ASSUME TypeOK, NEW s \in Sections, NEW i \in Seated(s) \cup Waiting(s)
    PROVE  /\ i \in Ids /\ enr[i] \in Row /\ enr[i] # Unused /\ enr[i].section = s
           /\ enr[i].status \in ActiveStatuses
BY DEF Seated, Waiting, TypeOK, Unused, ActiveStatuses

\* What the UPDATE of a closing transition writes leaves the row its student and section.
LEMMA ClosedByUpdate ==
    ASSUME TypeOK, NEW i \in Ids, enr[i] \in Row, enr'[i] = Closing(enr[i])
    PROVE  ClosedRow(i)
BY DEF ClosedRow, Closing, Row

\* The commit of enroll with a free seat inserts one ENROLLED row.
LEMMA EnrollSeatEffect ==
    ASSUME IInv, NEW t \in Txns, EnrollSeat(t)
    PROVE  /\ \E n \in Ids : /\ Inserted(n, txn[t].student, txn[t].sec, "ENROLLED", None)
                             /\ Log(n, "CREATED", None)
           /\ enrolledCount[txn[t].sec] < capacity[txn[t].sec]
           /\ UNCHANGED <<capacity, notices>>
<1>1. /\ TypeOK /\ txn[t].sec \in Sections /\ txn[t].student \in Students
      /\ enrolledCount[txn[t].sec] < capacity[txn[t].sec]
  BY Begun DEF EnrollSeat, At, TxnInv, MatchesItsRow, ReadsTrue
<1>. QED
  BY <1>1 DEF EnrollSeat, Insert, Inserted, TypeOK

\* The commit of enroll without one inserts one row at the end of the list.
LEMMA EnrollWaitEffect ==
    ASSUME IInv, NEW t \in Txns, EnrollWait(t)
    PROVE  /\ \E n \in Ids : /\ Inserted(n, txn[t].student, txn[t].sec, "WAITLISTED", txn[t].num)
                             /\ Log(n, "WAITLISTED", None)
           /\ enrolledCount[txn[t].sec] >= capacity[txn[t].sec]
           /\ txn[t].num \in Nat /\ \A i \in Waiting(txn[t].sec) : enr[i].pos < txn[t].num
           /\ UNCHANGED <<capacity, notices>>
<1>1. /\ TypeOK /\ txn[t].sec \in Sections /\ txn[t].student \in Students
      /\ enrolledCount[txn[t].sec] >= capacity[txn[t].sec]
      /\ txn[t].num \in Nat /\ \A i \in Waiting(txn[t].sec) : enr[i].pos < txn[t].num
  BY Begun DEF EnrollWait, At, TxnInv, MatchesItsRow, ReadsTrue, Txn
<1>. QED
  BY <1>1 DEF EnrollWait, Insert, Inserted, TypeOK

\* The commit of drop closes one row, or none that is already closed.
LEMMA DropEffect ==
    ASSUME IInv, NEW t \in Txns, Drop(t)
    PROVE  /\ \/ UNCHANGED <<enr, audit>>
              \/ /\ ClosedIn({txn[t].id}, txn[t].sec)
                 /\ Log(txn[t].id, "DROPPED", None) \/ Log(txn[t].id, "WAITLIST_LEFT", None)
           /\ UNCHANGED <<capacity, notices>>
<1>. DEFINE i == txn[t].id
            s == txn[t].sec
<1>1. /\ TypeOK /\ s \in Sections /\ i \in Ids /\ enr[i].section = s /\ enr[i] \in Row
  BY Begun, NoneApart DEF Drop, At, TxnInv, MatchesItsRow, TypeOK, Unused
<1>2. CASE /\ StatusUnderLock(i) = "ENROLLED" \/ StatusUnderLock(i) = "WAITLISTED"
           /\ Close(i) /\ (Log(i, "DROPPED", None) \/ Log(i, "WAITLIST_LEFT", None))
  <2>1. enr'[i] = Closing(enr[i]) /\ \A j \in Ids \ {i} : enr'[j] = enr[j]
    BY <1>1, <1>2 DEF Close, TypeOK
  <2>2. i \in Seated(s) \cup Waiting(s)
    BY <1>1, <1>2 DEF StatusUnderLock, Seated, Waiting
  <2>. QED
    BY <1>1, <1>2, <2>1, <2>2, ClosedByUpdate DEF ClosedIn, Drop
<1>3. CASE UNCHANGED <<enr, audit>>
  BY <1>3 DEF Drop
<1>. QED
  BY <1>2, <1>3 DEF Drop

\* The commit of swap closes the source and inserts the target, or neither.
LEMMA SwapEffect ==
    ASSUME IInv, NEW t \in Txns, Swap(t)
    PROVE  /\ txn[t].id \in Ids /\ enr[txn[t].id].student = txn[t].student
           /\ \E n \in Ids : /\ Swapped(txn[t].id, txn[t].sec, n, txn[t].tgt)
                             /\ Log(n, "SWAPPED", txn[t].id)
           /\ enrolledCount[txn[t].tgt] < capacity[txn[t].tgt]
           /\ UNCHANGED <<capacity, notices>>
<1>. DEFINE i == txn[t].id
            s == txn[t].sec
            r == txn[t].tgt
<1>1. /\ TypeOK /\ s \in Sections /\ r \in Sections /\ r # s /\ i \in Ids
      /\ enr[i].student = txn[t].student /\ enr[i].section = s /\ enr[i] # Unused
      /\ enr[i].status = txn[t].was /\ enrolledCount[r] < capacity[r]
  BY Begun, NoneApart DEF Swap, At, TxnInv, MatchesItsRow, ReadsTrue, Unused
<1>2. PICK n \in Ids : /\ enr[n] = Unused
                      /\ enr' = [enr EXCEPT ![i] = Closing(@),
                                            ![n] = [student |-> txn[t].student, section |-> r,
                                                    status |-> "ENROLLED", pos |-> None]]
                      /\ Log(n, "SWAPPED", i)
  BY DEF Swap
<1>3. i # n /\ enr[i] \in Row
  BY <1>1, <1>2 DEF TypeOK
<1>4. enr'[i] = Closing(enr[i]) /\ txn[t].was \in ActiveStatuses
  BY <1>1, <1>2, <1>3, Begun DEF Swap, At, TxnInv, MatchesItsRow, TypeOK
<1>5. ClosedRow(i) /\ i \in Seated(s) \cup Waiting(s)
  BY <1>1, <1>3, <1>4, ClosedByUpdate DEF Seated, Waiting, ActiveStatuses
<1>6. Swapped(i, s, n, r)
  BY <1>1, <1>2, <1>3, <1>5 DEF Swapped, TypeOK
<1>. QED
  BY <1>1, <1>2, <1>6 DEF Swap

\* The expiry closes the waiting rows of its section.
LEMMA ExpireEffect ==
    ASSUME IInv, NEW t \in Txns, Expire(t)
    PROVE  /\ ClosedIn(Waiting(txn[t].sec), txn[t].sec)
           /\ LogAll(Waiting(txn[t].sec), "EXPIRED")
           /\ Notify(Waiting(txn[t].sec), "WAITLIST_EXPIRED")
           /\ UNCHANGED capacity
<1>1. /\ TypeOK /\ txn[t].sec \in Sections /\ txn[t].rows = Waiting(txn[t].sec)
  BY Begun DEF Expire, At, TxnInv, ReadsTrue
<1>2. \A i \in Waiting(txn[t].sec) : ClosedRow(i)
  BY <1>1, ActiveRow, ClosedByUpdate DEF Expire
<1>3. \A i \in Ids \ Waiting(txn[t].sec) : enr'[i] = enr[i]
  BY <1>1 DEF Expire
<1>. QED
  BY <1>1, <1>2, <1>3 DEF ClosedIn, Expire

\* runPromotion seats the heads of the list and leaves the others.
LEMMA PromoteEffect ==
    ASSUME IInv, NEW t \in Txns, Promote(t)
    PROVE  /\ \E P \in SUBSET Ids : /\ Promoted(P, txn[t].sec)
                                    /\ LogAll(P, "PROMOTED") /\ Notify(P, "WAITLIST_PROMOTED")
           /\ UNCHANGED capacity
<1>. DEFINE s == txn[t].sec
<1>1. TypeOK /\ s \in Sections /\ txn[t].num = enrolledCount[s]
  BY Begun DEF Promote, At, TxnInv, ReadsTrue
<1>2. PICK P \in HeadsOf(s, capacity[s] - txn[t].num) :
         /\ enr' = [i \in Ids |-> IF i \in P
                                    THEN [enr[i] EXCEPT !.status = "ENROLLED", !.pos = None]
                                    ELSE enr[i]]
         /\ LogAll(P, "PROMOTED") /\ Notify(P, "WAITLIST_PROMOTED")
  BY DEF Promote
<1>3. P \subseteq Waiting(s)
  BY DEF HeadsOf
<1>4. \A i \in P : i \in Ids /\ enr[i] \in Row
  BY <1>1, <1>3, ActiveRow
<1>5. Promoted(P, s)
  BY <1>1, <1>2, <1>4 DEF Promoted, Row
<1>. QED
  BY <1>2, <1>4, <1>5 DEF Promote

\* reorder changes positions of waiting rows and no status.
LEMMA ReorderEffect ==
    ASSUME IInv, NEW t \in Txns, Reorder(t)
    PROVE  /\ \E place : Reordered(txn[t].sec, place)
           /\ txn'[t] = Idle
           /\ UNCHANGED <<capacity, audit, notices>>
<1>. DEFINE s == txn[t].sec
<1>1. TypeOK /\ s \in Sections /\ txn[t].rows = Waiting(s)
  BY Begun DEF Reorder, At, TxnInv, ReadsTrue
<1>. DEFINE R == txn[t].rows
<1>2. PICK place \in [R -> 1..Cardinality(R)] :
         /\ \A i, j \in R : place[i] = place[j] => i = j
         /\ enr' = [i \in Ids |-> IF i \in R THEN [enr[i] EXCEPT !.pos = place[i]] ELSE enr[i]]
  BY DEF Reorder
<1>3. \A i \in Waiting(s) : i \in Ids /\ enr[i] \in Row
  BY <1>1, ActiveRow
<1>4. Reordered(s, place)
  <2>1. R = Waiting(s)
    BY <1>1
  <2>. HIDE DEF R
  <2>. QED
    BY <1>1, <1>2, <1>3, <2>1 DEF Reordered, Row
<1>5. txn'[t] = Idle
  BY <1>1 DEF Reorder, Finish, TypeOK
<1>. QED
  BY <1>4, <1>5 DEF Reorder

\* SectionsService.update writes no enrollment row.
LEMMA UpdateEffect ==
    ASSUME IInv, NEW t \in Txns, UpdateSection(t)
    PROVE  /\ txn[t].sec \in Sections
           /\ capacity' = [capacity EXCEPT ![txn[t].sec] = txn[t].num]
           /\ txn[t].num \in Nat /\ txn[t].num >= enrolledCount[txn[t].sec]
           /\ UNCHANGED <<enr, audit, notices>>
BY Begun DEF UpdateSection, At, TxnInv, MatchesItsRow, ReadsTrue
-----------------------------------------------------------------------------
(* Rows keep their identity *)

KeepsIdentity(i) ==
    /\ enr'[i].student = enr[i].student /\ enr'[i].section = enr[i].section
    /\ enr[i].status = "DROPPED" => enr'[i] = enr[i]
    /\ enr[i].status = "ENROLLED" => enr'[i].status # "WAITLISTED"

\* Every commit keeps each row with its student and section.
LEMMA WriterKeepsIdentity ==
    ASSUME IInv, NEW t \in Txns, Writes(t), NEW i \in Ids, enr[i] # Unused
    PROVE  KeepsIdentity(i)
<1>. USE DEF KeepsIdentity
<1>1. TypeOK
  BY DEF IInv
<1>2. CASE enr'[i] = enr[i]
  BY <1>2
<1>3. ASSUME NEW n, NEW u, NEW s, NEW status, NEW pos, Inserted(n, u, s, status, pos)
      PROVE  KeepsIdentity(i)
  BY <1>2, <1>3 DEF Inserted
<1>4. ASSUME NEW G, NEW s, ClosedIn(G, s) PROVE KeepsIdentity(i)
  BY <1>1, <1>2, <1>4, ActiveRow DEF ClosedIn, ClosedRow, ActiveStatuses
<1>5. ASSUME NEW j, NEW s, NEW n, NEW r, Swapped(j, s, n, r) PROVE KeepsIdentity(i)
  BY <1>1, <1>2, <1>5, ActiveRow DEF Swapped, ClosedRow, ActiveStatuses
<1>6. ASSUME NEW P, NEW s, Promoted(P, s) PROVE KeepsIdentity(i)
  <2>1. \A j \in P : enr[j].status = "WAITLISTED"
    BY <1>6 DEF Promoted, HeadsOf, Waiting
  <2>. QED
    BY <1>2, <1>6, <2>1 DEF Promoted
<1>7. ASSUME NEW s, NEW place, Reordered(s, place) PROVE KeepsIdentity(i)
  <2>1. \A j \in Waiting(s) : enr[j].status = "WAITLISTED"
    BY DEF Waiting
  <2>. QED
    BY <1>2, <1>7, <2>1 DEF Reordered
<1>. QED
  BY <1>2, <1>3, <1>4, <1>5, <1>6, <1>7, EnrollSeatEffect, EnrollWaitEffect, DropEffect,
     SwapEffect, PromoteEffect, ReorderEffect, UpdateEffect, ExpireEffect
  DEF Writes

\* A row never changes hands or section, a dropped row never comes back, and a
\* seat never turns into a place on the waitlist.
THEOREM IdentityKept == Spec => RowsKeepIdentity
<1>1. IInv /\ [Next]_vars => \A i \in Ids : enr[i] # Unused => KeepsIdentity(i)
  <2>. SUFFICES ASSUME IInv, [Next]_vars, NEW i \in Ids, enr[i] # Unused
                PROVE  KeepsIdentity(i)
    OBVIOUS
  <2>1. CASE \E t \in Txns : Writes(t)
    BY <2>1, WriterKeepsIdentity
  <2>2. CASE \A t \in Txns : ~Writes(t)
    BY <2>2, OnlyWritersWrite DEF KeepsIdentity
  <2>. QED
    BY <2>1, <2>2
<1>. QED
  BY <1>1, Invariance, PTL DEF Spec, RowsKeepIdentity, KeepsIdentity
-----------------------------------------------------------------------------
(* The order of the waitlist *)

\* The waitlists after a commit that writes rows other than by renumbering: who
\* keeps waiting keeps its row, and who joins is behind everyone.
KeepsOrder(s) ==
    /\ \A i \in Waiting(s) \cap Waiting(s)' : enr'[i] = enr[i]
    /\ \A j \in Waiting(s)' \ Waiting(s) : \A i \in Waiting(s) : enr[i].pos < enr'[j].pos
    /\ \A i, j \in Waiting(s)' \ Waiting(s) : i = j

\* assignPosition puts the newcomer behind everyone who waits.
LEMMA InsertKeepsOrder ==
    ASSUME IInv, NEW n, NEW u, NEW s, NEW status, NEW pos, Inserted(n, u, s, status, pos),
           status = "WAITLISTED" => \A i \in Waiting(s) : enr[i].pos < pos, NEW r \in Sections
    PROVE  KeepsOrder(r)
<1>1. \A q \in Sections : n \notin Waiting(q)
  BY NoneApart DEF Inserted, Waiting, Unused
<1>2. /\ enr'[n].section = s /\ enr'[n].status = status /\ enr'[n].pos = pos
      /\ \A i \in Ids \ {n} : enr'[i] = enr[i]
  BY DEF Inserted
<1>3. \A i \in Waiting(r)' : (i = n /\ r = s /\ status = "WAITLISTED") \/ i \in Waiting(r)
  BY <1>2 DEF Waiting
<1>4. \A i \in Waiting(r) : enr'[i] = enr[i]
  BY <1>1, <1>2 DEF Waiting
<1>. QED
  BY <1>1, <1>2, <1>3, <1>4 DEF KeepsOrder

\* Commits in which nobody joins a waitlist.
LEMMA LeavingKeepsOrder ==
    ASSUME \A i \in Ids : enr'[i] = enr[i] \/ enr'[i].status # "WAITLISTED", NEW s \in Sections
    PROVE  KeepsOrder(s)
<1>1. \A i \in Waiting(s)' : i \in Waiting(s) /\ enr'[i] = enr[i]
  BY DEF Waiting
<1>. QED
  BY <1>1 DEF KeepsOrder

\* Every commit but a reorder keeps the order of those who go on waiting.
LEMMA WriterKeepsOrder ==
    ASSUME IInv, NEW t \in Txns, Writes(t), ~Reorder(t), NEW s \in Sections
    PROVE  KeepsOrder(s)
<1>1. ASSUME NEW n, NEW u, NEW r, Inserted(n, u, r, "ENROLLED", None) PROVE KeepsOrder(s)
  BY <1>1, InsertKeepsOrder
<1>2. ASSUME NEW n, NEW u, NEW r, NEW pos, Inserted(n, u, r, "WAITLISTED", pos),
             \A i \in Waiting(r) : enr[i].pos < pos
      PROVE  KeepsOrder(s)
  BY <1>2, InsertKeepsOrder
<1>3. ASSUME NEW G, NEW r, ClosedIn(G, r) PROVE KeepsOrder(s)
  BY <1>3, LeavingKeepsOrder DEF ClosedIn, ClosedRow
<1>4. ASSUME NEW j, NEW q, NEW n, NEW r, Swapped(j, q, n, r) PROVE KeepsOrder(s)
  BY <1>4, LeavingKeepsOrder DEF Swapped, ClosedRow
<1>5. ASSUME NEW P, NEW r, Promoted(P, r) PROVE KeepsOrder(s)
  BY <1>5, LeavingKeepsOrder DEF Promoted
<1>6. CASE UNCHANGED enr
  BY <1>6, LeavingKeepsOrder
<1>. QED
  BY <1>1, <1>2, <1>3, <1>4, <1>5, <1>6, EnrollSeatEffect, EnrollWaitEffect, DropEffect,
     SwapEffect, PromoteEffect, UpdateEffect, ExpireEffect
  DEF Writes

\* Nobody overtakes on a waitlist, and a newcomer joins behind everyone, unless
\* an administrator reorders the list.
THEOREM NobodyOvertakes == Spec => NoOvertaking
<1>. DEFINE InOrder(s) ==
        \A j \in Waiting(s)' : \A i \in Waiting(s) \cap Waiting(s)' :
            (j \notin Waiting(s) \/ enr[i].pos < enr[j].pos) /\ i # j => enr'[i].pos < enr'[j].pos
<1>1. IInv /\ [Next]_vars => (~Reordering => \A s \in Sections : InOrder(s))
  <2>. SUFFICES ASSUME IInv, [Next]_vars, ~Reordering, NEW s \in Sections PROVE InOrder(s)
    OBVIOUS
  <2>1. KeepsOrder(s)
    <3>1. CASE \E t \in Txns : Writes(t) /\ ~Reorder(t)
      BY <3>1, WriterKeepsOrder
    <3>2. \A t \in Txns : ~Reorder(t)
      BY ReorderEffect DEF Reordering, Reorder
    <3>3. CASE \A t \in Txns : ~Writes(t)
      BY <3>3, OnlyWritersWrite, LeavingKeepsOrder
    <3>. QED
      BY <3>1, <3>2, <3>3
  <2>. QED
    BY <2>1 DEF KeepsOrder
<1>. QED
  BY <1>1, Invariance, PTL DEF Spec, NoOvertaking
\* A waiting student gets a seat only if everyone ahead gets one in the same
\* step: seats that free up go to the head of the waitlist.
THEOREM HeadsGoFirst == Spec => PromotionInOrder
<1>. DEFINE HeadsFirst(s) ==
        \A i, j \in Waiting(s) : i \in Seated(s)' /\ enr[j].pos < enr[i].pos => j \in Seated(s)'
<1>1. IInv /\ [Next]_vars => \A s \in Sections : HeadsFirst(s)
  <2>. SUFFICES ASSUME IInv, [Next]_vars, NEW s \in Sections,
                       NEW i \in Waiting(s), NEW j \in Waiting(s),
                       i \in Seated(s)', enr[j].pos < enr[i].pos
                PROVE  j \in Seated(s)'
    OBVIOUS
  <2>1. TypeOK /\ TablesInv
    BY DEF IInv
  <2>2. /\ i \in Ids /\ enr[i].section = s /\ enr[i].status = "WAITLISTED"
        /\ enr'[i].status = "ENROLLED"
    BY DEF Waiting, Seated
  <2>3. PICK t \in Txns : Writes(t)
    BY <2>2, OnlyWritersWrite
  <2>4. ASSUME NEW P, NEW r, Promoted(P, r) PROVE j \in Seated(s)'
    <3>1. P \subseteq Waiting(r) /\ \A k \in P, l \in Waiting(r) \ P : enr[k].pos <= enr[l].pos
      BY <2>4 DEF Promoted, HeadsOf
    <3>2. i \in P
      BY <2>2, <2>4 DEF Promoted
    <3>3. j \in Waiting(r)
      BY <2>2, <3>1, <3>2 DEF Waiting
    <3>4. enr[i].pos \in Nat /\ enr[j].pos \in Nat
      BY <2>1, WaitingTyped
    <3>5. j \in P
      BY <3>1, <3>2, <3>3, <3>4
    <3>. QED
      BY <2>4, <3>5 DEF Promoted, Waiting, Seated
  <2>5. ASSUME NEW n, NEW u, NEW r, NEW status, NEW pos, Inserted(n, u, r, status, pos)
        PROVE  FALSE
    <3>1. i # n
      BY <2>2, <2>5 DEF Inserted, Unused
    <3>. QED
      BY <2>2, <2>5, <3>1 DEF Inserted
  <2>6. ASSUME NEW G, NEW r, ClosedIn(G, r) PROVE FALSE
    BY <2>2, <2>6 DEF ClosedIn, ClosedRow
  <2>7. ASSUME NEW k, NEW q, NEW n, NEW r, Swapped(k, q, n, r) PROVE FALSE
    <3>1. i # n
      BY <2>2, <2>7 DEF Swapped, Unused
    <3>. QED
      BY <2>2, <2>7, <3>1 DEF Swapped, ClosedRow
  <2>8. ASSUME NEW r, NEW place, Reordered(r, place) PROVE FALSE
    BY <2>2, <2>8 DEF Reordered
  <2>9. ~UNCHANGED enr
    BY <2>2
  <2>. QED
    BY <2>3, <2>4, <2>5, <2>6, <2>7, <2>8, <2>9, EnrollSeatEffect, EnrollWaitEffect,
       DropEffect, SwapEffect, PromoteEffect, ReorderEffect, UpdateEffect, ExpireEffect
    DEF Writes
<1>. QED
  BY <1>1, Invariance, PTL DEF Spec, PromotionInOrder
-----------------------------------------------------------------------------
(* A swap is all or nothing *)

\* The actor of a step that writes rows is the only transaction that moves.
LEMMA OneMoves ==
    ASSUME IInv, NEW t \in Txns, Writes(t), NEW v \in Txns, txn'[v] # txn[v]
    PROVE  v = t
<1>1. Step(t)
  BY DEF Writes, Step
<1>2. Frame(t)
  BY <1>1, StepPreserves DEF Preserves
<1>. QED
  BY <1>2 DEF Frame

\* The transaction of a swap writes rows by Swap alone.
LEMMA SwapWritesBySwap ==
    ASSUME NEW t \in Txns, Writes(t), txn[t].op = "swap"
    PROVE  Swap(t)
BY DEF Writes, EnrollSeat, EnrollWait, Drop, Promote, Reorder, UpdateSection, Expire, At

\* A swap leaves its student with as many active rows as before.
LEMMA SwapTrades ==
    ASSUME TypeOK, TablesInv, NEW i, NEW s, NEW n, NEW r, Swapped(i, s, n, r),
           NEW u, u = enr[i].student
    PROVE  /\ Cardinality(Active(u)') = Cardinality(Active(u))
           /\ n \in Active(u)' \cap Seated(r)'
<1>. DEFINE A == Active(u)
<1>1. i \in Ids /\ enr[i] \in Row /\ i \in A /\ u \in Students /\ enr[i] # Unused
  BY ActiveRow DEF Swapped, Active, Row
<1>2. n \in Ids /\ n # i /\ n \notin A
  BY <1>1 DEF Swapped, Active, Unused, ActiveStatuses
<1>3. /\ enr'[n].student = u /\ enr'[n].section = r /\ enr'[n].status = "ENROLLED"
      /\ enr'[i].status = "DROPPED" /\ \A j \in Ids \ {i, n} : enr'[j] = enr[j]
  BY DEF Swapped, ClosedRow
<1>4. {j \in Ids : enr'[j].student = u /\ enr'[j].status \in ActiveStatuses} = (A \ {i}) \cup {n}
  BY <1>1, <1>2, <1>3 DEF Active, ActiveStatuses
<1>5. IsFiniteSet(A)
  <2>1. A \subseteq {j \in Ids : enr[j] # Unused}
    BY <1>1, NoneApart DEF Active, Unused
  <2>. QED
    BY <2>1, FS_Subset DEF TablesInv
<1>6. Cardinality((A \ {i}) \cup {n}) = Cardinality(A)
  <2>. HIDE DEF A
  <2>1. IsFiniteSet(A \ {i}) /\ Cardinality(A \ {i}) = Cardinality(A) - 1
    BY <1>1, <1>5, FS_RemoveElement
  <2>2. Cardinality((A \ {i}) \cup {n}) = Cardinality(A \ {i}) + 1
    BY <1>2, <2>1, FS_AddElement
  <2>. QED
    BY <1>5, <2>1, <2>2, FS_CardinalityType
<1>. QED
  BY <1>2, <1>3, <1>4, <1>6 DEF Active, Seated, ActiveStatuses

\* A swap gives up its source only by seating the same student in its target:
\* the step that changes the rows does both, and the student has as many active
\* rows as before.
THEOREM SwapAllOrNothing == Spec => SwapAtomic
<1>. DEFINE AllOrNothing ==
       \A t \in Txns, u \in Students, r \in Sections :
          /\ txn[t].op = "swap" /\ txn[t].student = u /\ txn[t].tgt = r
          /\ txn'[t] # txn[t] /\ enr' # enr
          => /\ Cardinality(Active(u)') = Cardinality(Active(u))
             /\ \E n \in Active(u)' \cap Seated(r)' : enr[n] = Unused
<1>1. IInv /\ [Next]_vars => AllOrNothing
  <2>. SUFFICES ASSUME IInv, [Next]_vars,
                       NEW t \in Txns, NEW u \in Students, NEW r \in Sections,
                       txn[t].op = "swap", txn[t].student = u, txn[t].tgt = r,
                       txn'[t] # txn[t], enr' # enr
                PROVE  /\ Cardinality(Active(u)') = Cardinality(Active(u))
                       /\ \E n \in Active(u)' \cap Seated(r)' : enr[n] = Unused
    OBVIOUS
  <2>1. Writes(t)
    BY OnlyWritersWrite, OneMoves
  <2>2. Swap(t)
    BY <2>1, SwapWritesBySwap
  <2>3. PICK n \in Ids : Swapped(txn[t].id, txn[t].sec, n, r)
    BY <2>2, SwapEffect
  <2>4. enr[txn[t].id].student = u
    BY <2>2, SwapEffect
  <2>5. TypeOK /\ TablesInv /\ enr[n] = Unused
    BY <2>3 DEF IInv, Swapped
  <2>. QED
    BY <2>3, <2>4, <2>5, SwapTrades
<1>. QED
  BY <1>1, Invariance, PTL DEF Spec, SwapAtomic
-----------------------------------------------------------------------------
(* The audit rows explain the status *)

\* The events of row i, replayed, end in its status; what has no event is unused,
\* and no swap took it either.
Explained(i) ==
    IF audit[i] = <<>> THEN enr[i] = Unused /\ SwappedInto(i) = {}
    ELSE LET last == StatusAfter[audit[i][Len(audit[i])].action]
         IN  IF SwappedInto(i) = {} THEN enr[i].status = last
             ELSE /\ last \in ActiveStatuses /\ enr[i].status = "DROPPED"
                  /\ \E n \in Ids : SwappedInto(i) = {n} /\ enr[n].student = enr[i].student
AuditInv == \A i \in Ids : Explained(i)

\* One event is appended to the trail of every row of R.
Recorded(R, action, from) ==
    /\ R \subseteq Ids
    /\ \A i \in R : audit'[i] = Append(audit[i], [action |-> action, from |-> from])
    /\ \A i \in Ids \ R : audit'[i] = audit[i]

\* recordEvent appends one event to the trail of one row.
LEMMA LogRecords ==
    ASSUME TypeOK, NEW n \in Ids, NEW action, NEW from, Log(n, action, from)
    PROVE  Recorded({n}, action, from)
BY DEF Log, Recorded, TypeOK

\* A loop of recordEvent appends one event to each row it is run over.
LEMMA LogAllRecords ==
    ASSUME TypeOK, NEW R \in SUBSET Ids, NEW action, LogAll(R, action)
    PROVE  Recorded(R, action, None)
BY DEF LogAll, Recorded

\* A trail with one more event explains the row's new status.
LEMMA RecordedEffect ==
    ASSUME TypeOK, NEW R, NEW action, NEW from, Recorded(R, action, from)
    PROVE  /\ \A i \in R : /\ audit'[i] # <<>>
                            /\ audit'[i][Len(audit'[i])].action = action
           /\ action # "SWAPPED" => \A j \in Ids : SwappedInto(j)' = SwappedInto(j)
           /\ action = "SWAPPED" =>
                 \A j \in Ids : SwappedInto(j)' = IF from = j THEN SwappedInto(j) \cup R
                                                             ELSE SwappedInto(j)
<1>. DEFINE e == [action |-> action, from |-> from]
            Names(n, j) == \E k \in 1..Len(audit[n]) :
                              audit[n][k].action = "SWAPPED" /\ audit[n][k].from = j
            NamesNext(n, j) == \E k \in 1..Len(audit'[n]) :
                              audit'[n][k].action = "SWAPPED" /\ audit'[n][k].from = j
<1>1. ASSUME NEW i \in R
      PROVE  /\ audit[i] \in Seq(AuditEvent) /\ Len(audit[i]) \in Nat
             /\ audit'[i] = Append(audit[i], e)
             /\ Len(audit'[i]) = Len(audit[i]) + 1 /\ audit'[i][Len(audit[i]) + 1] = e
             /\ \A k \in 1..Len(audit[i]) : audit'[i][k] = audit[i][k]
  <2>1. audit[i] \in Seq(AuditEvent)
    BY DEF TypeOK, Recorded
  <2>2. audit'[i] = Append(audit[i], e)
    BY DEF Recorded
  <2>. HIDE DEF e
  <2>. QED
    BY <2>1, <2>2
<1>2. e.action = action /\ e.from = from
  OBVIOUS
<1>. HIDE DEF e
<1>3. \A i \in R : audit'[i] # <<>> /\ audit'[i][Len(audit'[i])].action = action
  BY <1>1, <1>2
<1>4. ASSUME NEW n \in R, NEW j
      PROVE  NamesNext(n, j) <=> Names(n, j) \/ (action = "SWAPPED" /\ from = j)
  <2>1. ASSUME Names(n, j) PROVE NamesNext(n, j)
    <3>1. PICK k \in 1..Len(audit[n]) : audit[n][k].action = "SWAPPED" /\ audit[n][k].from = j
      BY <2>1
    <3>2. k \in 1..Len(audit'[n]) /\ audit'[n][k] = audit[n][k]
      BY <1>1, <3>1
    <3>. QED
      BY <3>1, <3>2
  <2>2. ASSUME action = "SWAPPED", from = j PROVE NamesNext(n, j)
    <3>1. Len(audit[n]) + 1 \in 1..Len(audit'[n]) /\ audit'[n][Len(audit[n]) + 1] = e
      BY <1>1
    <3>. QED
      BY <1>2, <2>2, <3>1
  <2>3. ASSUME NamesNext(n, j) PROVE Names(n, j) \/ (action = "SWAPPED" /\ from = j)
    <3>1. PICK k \in 1..Len(audit'[n]) :
             audit'[n][k].action = "SWAPPED" /\ audit'[n][k].from = j
      BY <2>3
    <3>2. CASE k = Len(audit[n]) + 1
      BY <1>1, <1>2, <3>1, <3>2
    <3>3. CASE k # Len(audit[n]) + 1
      <4>1. k \in 1..Len(audit[n]) /\ audit'[n][k] = audit[n][k]
        BY <1>1, <3>1, <3>3
      <4>. QED
        BY <3>1, <4>1
    <3>. QED
      BY <3>2, <3>3
  <2>. QED
    BY <2>1, <2>2, <2>3
<1>5. ASSUME NEW n \in Ids \ R, NEW j PROVE NamesNext(n, j) <=> Names(n, j)
  BY DEF Recorded
<1>6. \A j : SwappedInto(j) = {n \in Ids : Names(n, j)}
             /\ SwappedInto(j)' = {n \in Ids : NamesNext(n, j)}
  BY DEF SwappedInto
<1>7. R \subseteq Ids
  BY DEF Recorded
<1>. HIDE DEF Names, NamesNext
<1>8. ASSUME NEW j \in Ids
      PROVE  SwappedInto(j)' = IF action = "SWAPPED" /\ from = j THEN SwappedInto(j) \cup R
                                                                ELSE SwappedInto(j)
  <2>. DEFINE before == {n \in Ids : Names(n, j)}
              after == {n \in Ids : NamesNext(n, j)}
  <2>1. after = IF action = "SWAPPED" /\ from = j THEN before \cup R ELSE before
    BY <1>4, <1>5, <1>7
  <2>2. SwappedInto(j) = before /\ SwappedInto(j)' = after
    BY <1>6
  <2>. HIDE DEF before, after
  <2>. QED
    BY <2>1, <2>2
<1>. QED
  BY <1>3, <1>8

\* A row that a step does not touch stays explained.
LEMMA UntouchedExplained ==
    ASSUME IInv, AuditInv, NEW i \in Ids, audit'[i] = audit[i], enr'[i] = enr[i],
           SwappedInto(i)' = SwappedInto(i),
           \A m \in Ids : enr[m] # Unused => enr'[m].student = enr[m].student
    PROVE  Explained(i)'
<1>1. CASE enr[i] = Unused
  BY <1>1 DEF AuditInv, Explained, Unused
<1>2. CASE enr[i] # Unused
  <2>1. enr[i].student # None
    BY <1>2, NoneApart DEF IInv, TypeOK, Row
  <2>2. \A m \in Ids : enr[m].student = enr[i].student => enr[m] # Unused
    BY <2>1 DEF Unused
  <2>. QED
    BY <2>2 DEF AuditInv, Explained
<1>. QED
  BY <1>1, <1>2

\* A row whose transition is recorded is explained by it.
LEMMA RecordedExplained ==
    ASSUME NEW i \in Ids, audit'[i] # <<>>, SwappedInto(i)' = {},
           enr'[i].status = StatusAfter[audit'[i][Len(audit'[i])].action]
    PROVE  Explained(i)'
BY DEF Explained

\* Active rows and unused ids have not been swapped away.
LEMMA NotSwappedAway ==
    ASSUME AuditInv, NEW i \in Ids, enr[i] = Unused \/ enr[i].status \in ActiveStatuses
    PROVE  SwappedInto(i) = {}
BY DEF AuditInv, Explained, Unused, ActiveStatuses

\* Every commit audits each transition it makes.
LEMMA WriterExplains ==
    ASSUME IInv, AuditInv, NEW t \in Txns, Writes(t)
    PROVE  AuditInv'
<1>. SUFFICES ASSUME NEW i \in Ids PROVE Explained(i)'
  BY DEF AuditInv
<1>1. TypeOK
  BY DEF IInv
<1>2. \A m \in Ids : enr[m] # Unused => enr'[m].student = enr[m].student
  BY WriterKeepsIdentity DEF KeepsIdentity
<1>3. ASSUME NEW n \in Ids, NEW u, NEW s, NEW pos, NEW status, NEW action,
             Inserted(n, u, s, status, pos), Log(n, action, None),
             <<status, action>> \in {<<"ENROLLED", "CREATED">>, <<"WAITLISTED", "WAITLISTED">>}
      PROVE  Explained(i)'
  <2>1. Recorded({n}, action, None) /\ \A j \in Ids : SwappedInto(j)' = SwappedInto(j)
    BY <1>1, <1>3, LogRecords, RecordedEffect
  <2>2. CASE i = n
    <3>1. SwappedInto(i) = {}
      BY <1>3, <2>2, NotSwappedAway DEF Inserted
    <3>2. enr'[i].status = status
      BY <1>3, <2>2 DEF Inserted
    <3>3. audit'[i] # <<>> /\ audit'[i][Len(audit'[i])].action = action
      BY <1>1, <2>1, <2>2, RecordedEffect
    <3>. QED
      BY <1>3, <2>1, <3>1, <3>2, <3>3, RecordedExplained DEF StatusAfter
  <2>3. CASE i # n
    BY <1>2, <1>3, <2>1, <2>3, UntouchedExplained DEF Inserted, Recorded
  <2>. QED
    BY <2>2, <2>3
<1>4. ASSUME NEW R, NEW s, NEW action \in {"DROPPED", "WAITLIST_LEFT", "EXPIRED"},
             ClosedIn(R, s), Recorded(R, action, None)
      PROVE  Explained(i)'
  <2>1. \A j \in Ids : SwappedInto(j)' = SwappedInto(j)
    BY <1>1, <1>4, RecordedEffect
  <2>2. CASE i \in R
    <3>1. SwappedInto(i) = {}
      BY <1>1, <1>4, <2>2, ActiveRow, NotSwappedAway DEF ClosedIn
    <3>2. enr'[i].status = "DROPPED"
      BY <1>4, <2>2 DEF ClosedIn, ClosedRow
    <3>3. audit'[i] # <<>> /\ audit'[i][Len(audit'[i])].action = action
      BY <1>1, <1>4, <2>2, RecordedEffect
    <3>. QED
      BY <2>1, <3>1, <3>2, <3>3, RecordedExplained DEF StatusAfter
  <2>3. CASE i \notin R
    BY <1>2, <1>4, <2>1, <2>3, UntouchedExplained DEF ClosedIn, Recorded
  <2>. QED
    BY <2>2, <2>3
<1>5. ASSUME NEW P, NEW s, Promoted(P, s), Recorded(P, "PROMOTED", None)
      PROVE  Explained(i)'
  <2>1. \A j \in Ids : SwappedInto(j)' = SwappedInto(j)
    BY <1>1, <1>5, RecordedEffect
  <2>2. CASE i \in P
    <3>1. SwappedInto(i) = {}
      BY <1>5, <2>2, NotSwappedAway DEF Promoted, HeadsOf, Waiting, ActiveStatuses
    <3>2. enr'[i].status = "ENROLLED"
      BY <1>5, <2>2 DEF Promoted
    <3>3. audit'[i] # <<>> /\ audit'[i][Len(audit'[i])].action = "PROMOTED"
      BY <1>1, <1>5, <2>2, RecordedEffect
    <3>. QED
      BY <2>1, <3>1, <3>2, <3>3, RecordedExplained DEF StatusAfter
  <2>3. CASE i \notin P
    BY <1>2, <1>5, <2>1, <2>3, UntouchedExplained DEF Promoted, Recorded
  <2>. QED
    BY <2>2, <2>3
<1>6. ASSUME NEW j, NEW s, NEW n \in Ids, NEW r, Swapped(j, s, n, r), Log(n, "SWAPPED", j)
      PROVE  Explained(i)'
  <2>1. /\ Recorded({n}, "SWAPPED", j)
        /\ \A k \in Ids : SwappedInto(k)' = IF j = k THEN SwappedInto(k) \cup {n}
                                                     ELSE SwappedInto(k)
    BY <1>1, <1>6, LogRecords, RecordedEffect
  <2>2. /\ j \in Ids /\ enr[j] # Unused /\ enr[j].status \in ActiveStatuses /\ j # n
        /\ enr[n] = Unused
    BY <1>1, <1>6, ActiveRow DEF Swapped
  <2>3. SwappedInto(j) = {} /\ SwappedInto(n) = {}
    BY <2>2, NotSwappedAway
  <2>4. CASE i = n
    <3>1. enr'[i].status = "ENROLLED"
      BY <1>6, <2>4 DEF Swapped
    <3>2. audit'[i] # <<>> /\ audit'[i][Len(audit'[i])].action = "SWAPPED"
      BY <1>1, <2>1, <2>4, RecordedEffect
    <3>. QED
      BY <2>1, <2>2, <2>3, <2>4, <3>1, <3>2, RecordedExplained DEF StatusAfter
  <2>5. CASE i = j
    <3>1. audit'[i] = audit[i] /\ audit[i] # <<>>
          /\ StatusAfter[audit[i][Len(audit[i])].action] = enr[i].status
      BY <2>1, <2>2, <2>3, <2>5 DEF Recorded, AuditInv, Explained
    <3>2. enr'[i].status = "DROPPED" /\ enr'[n].student = enr'[i].student
      BY <1>6, <2>5 DEF Swapped, ClosedRow
    <3>3. SwappedInto(i)' = {n}
      BY <2>1, <2>3, <2>5
    <3>. QED
      BY <2>2, <2>5, <3>1, <3>2, <3>3 DEF Explained
  <2>6. CASE i \notin {j, n}
    BY <1>2, <1>6, <2>1, <2>6, UntouchedExplained DEF Swapped, Recorded
  <2>. QED
    BY <2>4, <2>5, <2>6
<1>7. ASSUME NEW s, NEW place, Reordered(s, place), UNCHANGED audit PROVE Explained(i)'
  <2>1. enr'[i].status = enr[i].status /\ enr'[i].student = enr[i].student
    BY <1>2, <1>7 DEF Reordered
  <2>2. i \in Waiting(s) => enr[i] # Unused
    BY DEF Waiting, Unused
  <2>3. SwappedInto(i)' = SwappedInto(i)
    BY <1>7 DEF SwappedInto
  <2>4. CASE i \in Waiting(s)
    <3>1. SwappedInto(i) = {}
      BY <2>4, NotSwappedAway DEF Waiting, ActiveStatuses
    <3>. QED
      BY <1>7, <2>1, <2>2, <2>3, <2>4, <3>1 DEF AuditInv, Explained
  <2>5. CASE i \notin Waiting(s)
    BY <1>2, <1>7, <2>3, <2>5, UntouchedExplained DEF Reordered
  <2>. QED
    BY <2>4, <2>5
<1>8. CASE UNCHANGED <<enr, audit>>
  <2>1. SwappedInto(i)' = SwappedInto(i)
    BY <1>8 DEF SwappedInto
  <2>. QED
    BY <1>2, <1>8, <2>1, UntouchedExplained
<1>9. CASE Drop(t)
  <2>1. CASE UNCHANGED <<enr, audit>>
    BY <1>8, <2>1
  <2>2. CASE /\ ClosedIn({txn[t].id}, txn[t].sec)
             /\ Log(txn[t].id, "DROPPED", None) \/ Log(txn[t].id, "WAITLIST_LEFT", None)
    <3>1. txn[t].id \in Ids
      BY <1>1, <2>2, ActiveRow DEF ClosedIn
    <3>. QED
      BY <1>1, <1>4, <2>2, <3>1, LogRecords
  <2>. QED
    BY <1>9, <2>1, <2>2, DropEffect
<1>10. CASE Expire(t)
  <2>1. Recorded(Waiting(txn[t].sec), "EXPIRED", None)
    BY <1>1, <1>10, ExpireEffect, LogAllRecords DEF Waiting
  <2>. QED
    BY <1>4, <1>10, <2>1, ExpireEffect
<1>11. CASE Promote(t)
  BY <1>1, <1>5, <1>11, PromoteEffect, LogAllRecords
<1>12. CASE EnrollSeat(t) \/ EnrollWait(t)
  BY <1>3, <1>12, EnrollSeatEffect, EnrollWaitEffect
<1>13. CASE Swap(t)
  BY <1>6, <1>13, SwapEffect
<1>14. CASE Reorder(t)
  BY <1>7, <1>14, ReorderEffect
<1>15. CASE UpdateSection(t)
  BY <1>8, <1>15, UpdateEffect
<1>. QED
  BY <1>9, <1>10, <1>11, <1>12, <1>13, <1>14, <1>15 DEF Writes

\* Every transition of a row is audited once, in the transaction that makes it:
\* the trail always ends in the status the row has.
THEOREM AuditCorrect == Spec => []AuditExplainsStatus
<1>1. Init => AuditInv
  BY DEF Init, AuditInv, Explained, SwappedInto
<1>2. IInv /\ AuditInv /\ [Next]_vars => AuditInv'
  <2>. SUFFICES ASSUME IInv, AuditInv, [Next]_vars PROVE AuditInv'
    OBVIOUS
  <2>1. CASE \E t \in Txns : Writes(t)
    BY <2>1, WriterExplains
  <2>2. CASE \A t \in Txns : ~Writes(t)
    <3>1. UNCHANGED <<enr, audit>>
      BY <2>2, OnlyWritersWrite
    <3>2. \A i : SwappedInto(i)' = SwappedInto(i)
      BY <3>1 DEF SwappedInto
    <3>. QED
      BY <3>1, <3>2 DEF AuditInv, Explained
  <2>. QED
    BY <2>1, <2>2
<1>3. AuditInv => AuditExplainsStatus
  BY DEF AuditInv, Explained, AuditExplainsStatus
<1>. QED
  BY <1>1, <1>2, <1>3, Invariance, PTL DEF Spec
-----------------------------------------------------------------------------
(* The notices match the audit rows *)

Own(trail) == {k \in 1..Len(trail) : trail[k].action \in DOMAIN NoticeOf}
\* event numbers the notices by the events of the trail that they are about.
Matches(event, trail, told) ==
    /\ event \in [1..Len(told) -> Own(trail)]
    /\ Own(trail) = {event[k] : k \in 1..Len(told)}
    /\ \A j, k \in 1..Len(told) : j < k => event[j] < event[k]
    /\ \A k \in 1..Len(told) : told[k] = NoticeOf[trail[event[k]].action]
Told(i) == \E event : Matches(event, audit[i], notices[i])

\* The property says of each row that its notices are those its trail owes.
LEMMA MatchesIffTold == NoticesMatchAudit <=> \A i \in Ids : Told(i)
<1>1. \A i \in Ids : OwnEvents(i) = Own(audit[i])
  BY DEF OwnEvents, Own
<1>2. NoticesMatchAudit <=> \A i \in Ids :
         \E event \in [1..Len(notices[i]) -> OwnEvents(i)] : Matches(event, audit[i], notices[i])
  BY <1>1 DEF NoticesMatchAudit, Matches
<1>3. \A i \in Ids : \A event : Matches(event, audit[i], notices[i]) =>
         event \in [1..Len(notices[i]) -> OwnEvents(i)]
  BY <1>1 DEF Matches
<1>. QED
  BY <1>2, <1>3, Zenon DEF Told

\* An event of the user's own making tells nobody anything.
LEMMA QuietEventTold ==
    ASSUME TypeOK, NEW i \in Ids, Told(i), notices'[i] = notices[i],
           NEW e, e.action \notin {"PROMOTED", "EXPIRED"},
           audit'[i] = audit[i] \/ audit'[i] = Append(audit[i], e)
    PROVE  Told(i)'
<1>1. CASE audit'[i] = audit[i]
  BY <1>1 DEF Told
<1>2. CASE audit'[i] = Append(audit[i], e)
  <2>1. /\ Len(audit[i]) \in Nat /\ Len(audit'[i]) = Len(audit[i]) + 1
        /\ audit'[i][Len(audit[i]) + 1] = e
        /\ \A k \in 1..Len(audit[i]) : audit'[i][k] = audit[i][k]
    BY <1>2 DEF TypeOK
  <2>2. DOMAIN NoticeOf = {"PROMOTED", "EXPIRED"}
    BY DEF NoticeOf
  <2>3. ASSUME NEW k
        PROVE  k \in Own(audit'[i]) <=> k \in Own(audit[i])
    <3>1. k \in 1..Len(audit'[i]) <=> k \in 1..Len(audit[i]) \/ k = Len(audit[i]) + 1
      BY <2>1
    <3>. QED
      BY <2>1, <2>2, <3>1 DEF Own
  <2>4. Own(audit'[i]) = Own(audit[i])
    <3>. DEFINE after == Own(audit'[i])
                before == Own(audit[i])
    <3>. HIDE DEF after, before
    <3>1. \A k : k \in after <=> k \in before
      BY <2>3 DEF after, before
    <3>2. after = before
      BY <3>1
    <3>. QED
      BY <3>2 DEF after, before
  <2>5. \A k \in Own(audit[i]) : audit'[i][k] = audit[i][k]
    BY <2>1 DEF Own
  <2>. QED
    <3>1. PICK event : Matches(event, audit[i], notices[i])
      BY DEF Told
    <3>2. \A k \in 1..Len(notices[i]) : event[k] \in Own(audit[i])
      BY <3>1 DEF Matches
    <3>3. \A k \in 1..Len(notices[i]) : audit'[i][event[k]] = audit[i][event[k]]
      BY <2>5, <3>2
    <3>4. Matches(event, audit'[i], notices'[i])
      BY <2>4, <3>1, <3>3 DEF Matches
    <3>. QED
      BY <3>4 DEF Told
<1>. QED
  BY <1>1, <1>2

\* A promotion or an expiry tells of itself.
LEMMA OwnEventTold ==
    ASSUME TypeOK, NEW i \in Ids, Told(i), NEW action \in {"PROMOTED", "EXPIRED"},
           audit'[i] = Append(audit[i], [action |-> action, from |-> None]),
           notices'[i] = Append(notices[i], NoticeOf[action])
    PROVE  Told(i)'
<1>. DEFINE e == [action |-> action, from |-> None]
            m == Len(audit[i])
            n == Len(notices[i])
<1>1. /\ m \in Nat /\ Len(audit'[i]) = m + 1 /\ audit'[i][m + 1].action = action
      /\ \A k \in 1..m : audit'[i][k] = audit[i][k]
  <2>1. /\ m \in Nat /\ Len(audit'[i]) = m + 1 /\ audit'[i][m + 1] = e
        /\ \A k \in 1..m : audit'[i][k] = audit[i][k]
    BY DEF TypeOK
  <2>. QED
    BY <2>1
<1>2. /\ n \in Nat /\ Len(notices'[i]) = n + 1 /\ notices'[i][n + 1] = NoticeOf[action]
      /\ \A k \in 1..n : notices'[i][k] = notices[i][k]
  <2>. DEFINE notice == NoticeOf[action]
  <2>. HIDE DEF notice
  <2>1. notices'[i] = Append(notices[i], notice)
    BY DEF notice
  <2>2. notices[i] \in Seq({"WAITLIST_PROMOTED", "WAITLIST_EXPIRED"})
    BY DEF TypeOK
  <2>3. /\ n \in Nat /\ Len(notices'[i]) = n + 1 /\ notices'[i][n + 1] = notice
        /\ \A k \in 1..n : notices'[i][k] = notices[i][k]
    BY <2>1, <2>2
  <2>. QED
    BY <2>3 DEF notice
<1>3. PICK event : Matches(event, audit[i], notices[i])
  BY DEF Told
<1>4. action \in DOMAIN NoticeOf
  BY DEF NoticeOf
<1>. HIDE DEF e, m, n
<1>5. ASSUME NEW k
      PROVE  k \in Own(audit'[i]) <=> k \in Own(audit[i]) \/ k = m + 1
  <2>1. k \in 1..Len(audit'[i]) <=> k \in 1..m \/ k = m + 1
    BY <1>1
  <2>. QED
    BY <1>1, <1>4, <2>1 DEF Own, m
<1>6. \A k \in Own(audit[i]) : k \in 1..m
  BY DEF Own, m
<1>. DEFINE event2 == [k \in 1..(n + 1) |-> IF k = n + 1 THEN m + 1 ELSE event[k]]
<1>7. /\ event2[n + 1] = m + 1 /\ \A k \in 1..n : event2[k] = event[k]
      /\ event2 \in [1..(n + 1) -> Own(audit'[i])] /\ DOMAIN event2 = 1..(n + 1)
  <2>1. \A k \in 1..(n + 1) : k = n + 1 \/ k \in 1..n
    BY <1>2
  <2>2. \A k \in 1..n : event[k] \in Own(audit[i])
    BY <1>3 DEF Matches, n
  <2>. QED
    BY <1>2, <1>5, <2>1, <2>2
<1>. HIDE DEF event2
<1>8. \A k : k \in 1..(n + 1) <=> k \in 1..n \/ k = n + 1
  BY <1>2
<1>9. Own(audit'[i]) = {event2[k] : k \in 1..(n + 1)}
  <2>1. \A k : k \in Own(audit[i]) <=> \E j \in 1..n : event[j] = k
    BY <1>3 DEF Matches, n
  <2>2. \A k : k \in Own(audit'[i]) <=> \E j \in 1..(n + 1) : event2[j] = k
    BY <1>5, <1>7, <1>8, <2>1
  <2>. DEFINE after == Own(audit'[i])
  <2>. HIDE DEF after
  <2>3. \A k : k \in after <=> \E j \in 1..(n + 1) : event2[j] = k
    BY <2>2 DEF after
  <2>4. after = {event2[k] : k \in 1..(n + 1)}
    BY <2>3
  <2>. QED
    BY <2>4 DEF after
<1>10. \A j, k \in 1..(n + 1) : j < k => event2[j] < event2[k]
  <2>. SUFFICES ASSUME NEW j \in 1..(n + 1), NEW k \in 1..(n + 1), j < k
                PROVE  event2[j] < event2[k]
    OBVIOUS
  <2>1. j \in 1..n
    BY <1>2
  <2>2. event[j] \in 1..m
    BY <1>3, <1>6, <2>1 DEF Matches, n
  <2>3. CASE k = n + 1
    BY <1>1, <1>7, <2>1, <2>2, <2>3
  <2>4. CASE k \in 1..n
    BY <1>3, <1>7, <2>1, <2>4 DEF Matches, n
  <2>. QED
    BY <1>8, <2>3, <2>4
<1>11. ASSUME NEW k \in 1..(n + 1)
       PROVE  notices'[i][k] = NoticeOf[audit'[i][event2[k]].action]
  <2>1. CASE k = n + 1
    BY <1>1, <1>2, <1>7, <2>1
  <2>2. CASE k \in 1..n
    <3>1. event2[k] = event[k] /\ event[k] \in 1..m
      BY <1>3, <1>6, <1>7, <2>2 DEF Matches, n
    <3>2. notices[i][k] = NoticeOf[audit[i][event[k]].action]
      BY <1>3, <2>2 DEF Matches, n
    <3>. QED
      BY <1>1, <1>2, <2>2, <3>1, <3>2
  <2>. QED
    BY <1>8, <2>1, <2>2
<1>12. Matches(event2, audit'[i], notices'[i])
  BY <1>2, <1>7, <1>9, <1>10, <1>11 DEF Matches
<1>. QED
  BY <1>12 DEF Told

\* Every commit writes the notices its transitions owe, and no others.
LEMMA WriterTells ==
    ASSUME IInv, NEW t \in Txns, Writes(t), NEW i \in Ids, Told(i)
    PROVE  Told(i)'
<1>1. TypeOK
  BY DEF IInv
<1>2. ASSUME NEW n \in Ids, NEW action, NEW from, Log(n, action, from), UNCHANGED notices,
             action \notin {"PROMOTED", "EXPIRED"}
      PROVE  Told(i)'
  <2>. DEFINE e == [action |-> action, from |-> from]
  <2>1. e.action = action
    OBVIOUS
  <2>2. audit'[i] = audit[i] \/ audit'[i] = Append(audit[i], e)
    BY <1>1, <1>2 DEF Log, TypeOK
  <2>. HIDE DEF e
  <2>. QED
    BY <1>1, <1>2, <2>1, <2>2, QuietEventTold
<1>3. ASSUME NEW R, NEW action \in {"PROMOTED", "EXPIRED"}, LogAll(R, action),
             Notify(R, NoticeOf[action])
      PROVE  Told(i)'
  <2>1. CASE i \in R
    <3>1. /\ audit'[i] = Append(audit[i], [action |-> action, from |-> None])
          /\ notices'[i] = Append(notices[i], NoticeOf[action])
      BY <1>3, <2>1, Zenon DEF LogAll, Notify
    <3>. QED
      BY <1>1, <3>1, OwnEventTold
  <2>2. CASE i \notin R
    <3>1. audit'[i] = audit[i] /\ notices'[i] = notices[i]
      BY <1>3, <2>2 DEF LogAll, Notify
    <3>. QED
      BY <3>1 DEF Told
  <2>. QED
    BY <2>1, <2>2
<1>4. ASSUME UNCHANGED <<audit, notices>> PROVE Told(i)'
  BY <1>4 DEF Told
<1>5. CASE EnrollSeat(t) \/ EnrollWait(t) \/ Swap(t)
  BY <1>2, <1>5, EnrollSeatEffect, EnrollWaitEffect, SwapEffect
<1>6. CASE Drop(t)
  <2>1. CASE UNCHANGED <<enr, audit>>
    BY <1>4, <1>6, <2>1, DropEffect
  <2>2. CASE /\ ClosedIn({txn[t].id}, txn[t].sec)
             /\ Log(txn[t].id, "DROPPED", None) \/ Log(txn[t].id, "WAITLIST_LEFT", None)
    <3>1. txn[t].id \in Ids
      BY <1>1, <2>2, ActiveRow DEF ClosedIn
    <3>. QED
      BY <1>2, <1>6, <2>2, <3>1, DropEffect
  <2>. QED
    BY <1>6, <2>1, <2>2, DropEffect
<1>7. CASE Promote(t)
  BY <1>3, <1>7, PromoteEffect DEF NoticeOf
<1>8. CASE Expire(t)
  BY <1>3, <1>8, ExpireEffect DEF NoticeOf
<1>9. CASE Reorder(t) \/ UpdateSection(t)
  BY <1>4, <1>9, ReorderEffect, UpdateEffect
<1>. QED
  BY <1>5, <1>6, <1>7, <1>8, <1>9 DEF Writes

\* Every promotion and every expiry is told to the student, once, and nothing
\* else is.
THEOREM NoticesCorrect == Spec => []NoticesMatchAudit
<1>1. Init => \A i \in Ids : Told(i)
  <2>. SUFFICES ASSUME Init, NEW i \in Ids PROVE Told(i)
    OBVIOUS
  <2>1. audit[i] = <<>> /\ notices[i] = <<>>
    BY DEF Init
  <2>2. Own(audit[i]) = {} /\ 1..Len(notices[i]) = {}
    BY <2>1 DEF Own
  <2>3. Matches([k \in {} |-> k], audit[i], notices[i])
    BY <2>2 DEF Matches
  <2>. QED
    BY <2>3 DEF Told
<1>2. IInv /\ (\A i \in Ids : Told(i)) /\ [Next]_vars => (\A i \in Ids : Told(i))'
  <2>. SUFFICES ASSUME IInv, [Next]_vars, NEW i \in Ids, Told(i) PROVE Told(i)'
    OBVIOUS
  <2>1. CASE \E t \in Txns : Writes(t)
    BY <2>1, WriterTells
  <2>2. CASE \A t \in Txns : ~Writes(t)
    BY <2>2, OnlyWritersWrite DEF Told
  <2>. QED
    BY <2>1, <2>2
<1>. QED
  BY <1>1, <1>2, MatchesIffTold, Invariance, PTL DEF Spec
-----------------------------------------------------------------------------
(* Sums over finite sets, as MapThenSumSet computes them: induction over the *)
(* set is the choice of a smallest set that would be a counterexample.       *)

\* Of a set of finite sets, one has no proper subset in it.
LEMMA SmallestSet ==
    ASSUME NEW S, IsFiniteSet(S), NEW Bad, Bad \subseteq SUBSET S, Bad # {}
    PROVE  \E U \in Bad : IsFiniteSet(U) /\ \A V : V \subseteq U /\ V # U => V \notin Bad
<1>1. Bad \subseteq FiniteSubsetsOf(S)
  BY FS_FiniteSubsetsOfFinite
<1>2. PICK U \in Bad : \A V \in Bad : <<V, U>> \notin StrictSubsetOrdering(S)
  BY <1>1, WFMin, FS_StrictSubsetOrderingWellFounded
<1>. QED
  BY <1>2, FS_Subset DEF StrictSubsetOrdering

AnyOf(s) == CHOOSE x \in s : TRUE
\* g is the function MapThenSumSet computes: it adds the weights w one at a time.
Sums(w, g, S) ==
    g = [s \in SUBSET S |-> IF s = {} THEN 0 ELSE w[AnyOf(s)] + g[s \ {AnyOf(s)}]]

LEMMA SumsAre ==
    ASSUME NEW w, NEW g, NEW S, Sums(w, g, S)
    PROVE  /\ g[{}] = 0
           /\ \A s \in SUBSET S : s # {} =>
                 /\ AnyOf(s) \in s /\ s \ {AnyOf(s)} \in SUBSET S
                 /\ g[s] = w[AnyOf(s)] + g[s \ {AnyOf(s)}]
<1>1. \A s \in SUBSET S : g[s] = IF s = {} THEN 0 ELSE w[AnyOf(s)] + g[s \ {AnyOf(s)}]
  BY Zenon DEF Sums
<1>2. \A s : s # {} => AnyOf(s) \in s
  BY DEF AnyOf
<1>. QED
  BY <1>1, <1>2

\* Two such functions agree where the weights do.
LEMMA SumsAgree ==
    ASSUME NEW w, NEW g, NEW S, Sums(w, g, S), NEW v, NEW h, NEW R, Sums(v, h, R),
           NEW T, T \subseteq S, T \subseteq R, IsFiniteSet(T), \A x \in T : w[x] = v[x]
    PROVE  g[T] = h[T]
<1>. DEFINE Bad == {U \in SUBSET T : g[U] # h[U]}
<1>. SUFFICES ASSUME Bad # {} PROVE FALSE
  BY DEF Bad
<1>1. PICK U \in Bad : \A V : V \subseteq U /\ V # U => V \notin Bad
  <2>1. Bad \subseteq SUBSET T
    OBVIOUS
  <2>. HIDE DEF Bad
  <2>. QED
    BY <2>1, SmallestSet
<1>2. U # {}
  <2>1. g[{}] = 0 /\ h[{}] = 0
    BY SumsAre, Zenon
  <2>. QED
    BY <1>1, <2>1
<1>. DEFINE c == AnyOf(U)
<1>3. c \in U /\ g[U] = w[c] + g[U \ {c}] /\ h[U] = v[c] + h[U \ {c}]
  <2>1. U \in SUBSET S /\ U \in SUBSET R
    BY <1>1
  <2>2. \A s \in SUBSET S : s # {} =>
           /\ AnyOf(s) \in s /\ s \ {AnyOf(s)} \in SUBSET S
           /\ g[s] = w[AnyOf(s)] + g[s \ {AnyOf(s)}]
    BY ONLY SumsAre, Sums(w, g, S)
  <2>3. \A s \in SUBSET R : s # {} =>
           /\ AnyOf(s) \in s /\ s \ {AnyOf(s)} \in SUBSET R
           /\ h[s] = v[AnyOf(s)] + h[s \ {AnyOf(s)}]
    BY ONLY SumsAre, Sums(v, h, R)
  <2>. QED
    BY <1>2, <2>1, <2>2, <2>3
<1>4. g[U \ {c}] = h[U \ {c}]
  BY <1>1, <1>3
<1>. QED
  BY <1>1, <1>3, <1>4

\* There is one, whatever the weights.
LEMMA SumsExist ==
    ASSUME NEW w, NEW S, IsFiniteSet(S)
    PROVE  \E g : Sums(w, g, S)
<1>. DEFINE Bad == {U \in SUBSET S : ~\E g : Sums(w, g, U)}
<1>. SUFFICES ASSUME Bad # {} PROVE FALSE
  BY DEF Bad
<1>1. PICK U \in Bad : IsFiniteSet(U) /\ \A V : V \subseteq U /\ V # U => V \notin Bad
  <2>1. Bad \subseteq SUBSET S
    OBVIOUS
  <2>. HIDE DEF Bad
  <2>. QED
    BY <2>1, SmallestSet
<1>. DEFINE Of(V) == CHOOSE h : Sums(w, h, V)
<1>2. \A V : V \subseteq U /\ V # U => Sums(w, Of(V), V) /\ IsFiniteSet(V)
  BY <1>1, FS_Subset
<1>. DEFINE g == [s \in SUBSET U |->
                    IF s = {} THEN 0 ELSE w[AnyOf(s)] + Of(s \ {AnyOf(s)})[s \ {AnyOf(s)}]]
<1>3. ASSUME NEW V, V \subseteq U, V # U PROVE g[V] = Of(V)[V]
  <2>. DEFINE h == Of(V)
  <2>1. Sums(w, h, V)
    BY <1>2, <1>3
  <2>. HIDE DEF h
  <2>2. CASE V = {}
    <3>1. h[V] = 0
      BY <2>1, <2>2, SumsAre
    <3>. QED
      BY <1>3, <2>2, <3>1 DEF h
  <2>3. CASE V # {}
    <3>. DEFINE c == AnyOf(V)
                W == V \ {c}
    <3>1. c \in V /\ h[V] = w[c] + h[W]
      BY <2>1, <2>3, SumsAre
    <3>2. W \subseteq U /\ W # U /\ W \subseteq V
      BY <1>3, <3>1
    <3>3. Sums(w, Of(W), W) /\ IsFiniteSet(W)
      BY <1>2, <3>2
    <3>4. Of(W)[W] = h[W]
      <4>. HIDE DEF Of, W
      <4>. QED
        BY <2>1, <3>2, <3>3, SumsAgree
    <3>5. g[V] = w[c] + Of(W)[W]
      BY <1>3, <2>3
    <3>. QED
      BY <3>1, <3>4, <3>5 DEF h
  <2>. QED
    BY <2>2, <2>3
<1>4. \A s \in SUBSET U : s # {} => AnyOf(s) \in s
  BY DEF AnyOf
<1>5. \A s \in SUBSET U : s # {} => g[s \ {AnyOf(s)}] = Of(s \ {AnyOf(s)})[s \ {AnyOf(s)}]
  <2>. SUFFICES ASSUME NEW s \in SUBSET U, s # {}
                PROVE  g[s \ {AnyOf(s)}] = Of(s \ {AnyOf(s)})[s \ {AnyOf(s)}]
    OBVIOUS
  <2>1. s \ {AnyOf(s)} \subseteq U /\ s \ {AnyOf(s)} # U
    BY <1>4
  <2>. HIDE DEF g, Of
  <2>. QED
    BY <1>3, <2>1
<1>6. Sums(w, g, U)
  <2>1. \A s \in SUBSET U : g[s] = IF s = {} THEN 0 ELSE w[AnyOf(s)] + g[s \ {AnyOf(s)}]
    <3>1. \A s \in SUBSET U :
             g[s] = IF s = {} THEN 0 ELSE w[AnyOf(s)] + Of(s \ {AnyOf(s)})[s \ {AnyOf(s)}]
      OBVIOUS
    <3>. HIDE DEF g, Of
    <3>. QED
      BY <1>5, <3>1
  <2>2. g = [s \in SUBSET U |-> g[s]]
    OBVIOUS
  <2>. HIDE DEF g
  <2>. QED
    BY <2>1, <2>2 DEF Sums
<1>. QED
  BY <1>1, <1>6

\* Sums of weights: numbers, in any order, and more for more.
LEMMA SumsAdd ==
    ASSUME NEW w, NEW g, NEW S, Sums(w, g, S), IsFiniteSet(S), \A x \in S : w[x] \in Nat
    PROVE  /\ \A T \in SUBSET S : g[T] \in Nat
           /\ \A T \in SUBSET S : \A x \in T : g[T] = w[x] + g[T \ {x}]
<1>0. /\ g[{}] = 0
      /\ \A T \in SUBSET S : T # {} =>
            /\ AnyOf(T) \in T /\ T \ {AnyOf(T)} \in SUBSET S
            /\ g[T] = w[AnyOf(T)] + g[T \ {AnyOf(T)}]
  BY SumsAre
<1>1. \A T \in SUBSET S : g[T] \in Nat
  <2>. DEFINE Bad == {T \in SUBSET S : g[T] \notin Nat}
  <2>. SUFFICES ASSUME Bad # {} PROVE FALSE
    BY DEF Bad
  <2>1. PICK U \in Bad : \A V : V \subseteq U /\ V # U => V \notin Bad
    <3>1. Bad \subseteq SUBSET S
      OBVIOUS
    <3>. HIDE DEF Bad
    <3>. QED
      BY <3>1, SmallestSet
  <2>2. U # {}
    <3>1. g[{}] \in Nat
      BY <1>0
    <3>. QED
      BY <3>1
  <2>3. AnyOf(U) \in U /\ g[U] = w[AnyOf(U)] + g[U \ {AnyOf(U)}]
    BY <1>0, <2>2
  <2>4. g[U \ {AnyOf(U)}] \in Nat
    BY <2>1, <2>3
  <2>. QED
    BY <2>1, <2>3, <2>4
<1>2. \A T \in SUBSET S : \A x \in T : g[T] = w[x] + g[T \ {x}]
  <2>. DEFINE Bad == {T \in SUBSET S : \E x \in T : g[T] # w[x] + g[T \ {x}]}
  <2>. SUFFICES ASSUME Bad # {} PROVE FALSE
    BY DEF Bad
  <2>1. PICK U \in Bad : \A V : V \subseteq U /\ V # U => V \notin Bad
    <3>1. Bad \subseteq SUBSET S
      OBVIOUS
    <3>. HIDE DEF Bad
    <3>. QED
      BY <3>1, SmallestSet
  <2>2. PICK x \in U : g[U] # w[x] + g[U \ {x}]
    BY <2>1
  <2>. DEFINE c == AnyOf(U)
  <2>3. c \in U /\ g[U] = w[c] + g[U \ {c}] /\ U \in SUBSET S
    BY <1>0, <2>2
  <2>. HIDE DEF c
  <2>4. c # x
    BY <2>2, <2>3
  <2>. DEFINE both == U \ {c, x}
  <2>5. (U \ {c}) \ {x} = both /\ (U \ {x}) \ {c} = both
    OBVIOUS
  <2>6. g[U \ {c}] = w[x] + g[both]
    <3>1. U \ {c} \notin Bad /\ x \in U \ {c} /\ U \ {c} \in SUBSET S
      BY <2>1, <2>3, <2>4
    <3>. QED
      BY <2>5, <3>1
  <2>7. g[U \ {x}] = w[c] + g[both]
    <3>1. U \ {x} \notin Bad /\ c \in U \ {x} /\ U \ {x} \in SUBSET S
      BY <2>1, <2>3, <2>4
    <3>. QED
      BY <2>5, <3>1
  <2>8. w[c] \in Nat /\ w[x] \in Nat /\ g[both] \in Nat
    BY <1>1, <2>3
  <2>. HIDE DEF both
  <2>. QED
    BY <2>2, <2>3, <2>6, <2>7, <2>8
<1>. QED
  BY <1>1, <1>2

LEMMA SumsGrow ==
    ASSUME NEW w, NEW g, NEW S, Sums(w, g, S), IsFiniteSet(S), \A x \in S : w[x] \in Nat,
           NEW R, R \subseteq S
    PROVE  g[R] <= g[S]
<1>0. /\ \A T \in SUBSET S : g[T] \in Nat
      /\ \A T \in SUBSET S : \A x \in T : g[T] = w[x] + g[T \ {x}]
  BY SumsAdd
<1>. DEFINE Bad == {T \in SUBSET S : R \subseteq T /\ ~(g[R] <= g[T])}
<1>. SUFFICES ASSUME Bad # {} PROVE FALSE
  BY DEF Bad
<1>1. PICK U \in Bad : \A V : V \subseteq U /\ V # U => V \notin Bad
  <2>1. Bad \subseteq SUBSET S
    OBVIOUS
  <2>. HIDE DEF Bad
  <2>. QED
    BY <2>1, SmallestSet
<1>2. U # R /\ R \subseteq U /\ U \subseteq S
  BY <1>0, <1>1
<1>3. PICK x \in U : x \notin R
  BY <1>2
<1>4. g[R] <= g[U \ {x}]
  BY <1>1, <1>2, <1>3
<1>5. g[U] = w[x] + g[U \ {x}] /\ w[x] \in Nat /\ g[U \ {x}] \in Nat /\ g[R] \in Nat /\ g[U] \in Nat
  BY <1>0, <1>2, <1>3
<1>6. ~(g[R] <= g[U])
  BY <1>1
<1>. QED
  BY <1>4, <1>5, <1>6

\* The credits of the rows S of the table e.
SpentBy(e, S) ==
    LET credits(i) == Credits[e[i].section]
    IN  MapThenSumSet(credits, S)
Weights(e) == [i \in Ids |-> Credits[e[i].section]]

LEMMA SpentIsSum ==
    ASSUME NEW e, NEW S, S \subseteq Ids, IsFiniteSet(S)
    PROVE  \E g : Sums(Weights(e), g, S) /\ SpentBy(e, S) = g[S]
<1>. DEFINE Spends(g) ==
        g = [s \in SUBSET S |->
               IF s = {} THEN 0
               ELSE Credits[e[CHOOSE x \in s : TRUE].section] + g[s \ {CHOOSE x \in s : TRUE}]]
<1>1. \A s \in SUBSET S : s # {} =>
         Weights(e)[AnyOf(s)] = Credits[e[CHOOSE x \in s : TRUE].section]
  BY DEF Weights, AnyOf
<1>2. \A g : Spends(g) <=> Sums(Weights(e), g, S)
  BY <1>1 DEF Sums, AnyOf
<1>3. PICK g : Sums(Weights(e), g, S)
  BY SumsExist
<1>4. \E h : Spends(h) /\ SpentBy(e, S) = h[S]
  <2>1. \E h : Spends(h)
    <3>. HIDE DEF Spends
    <3>. QED
      BY <1>2, <1>3
  <2>. QED
    BY <2>1 DEF SpentBy, MapThenSumSet, MapThenFoldSet
<1>. QED
  BY <1>2, <1>4

\* Fewer rows, in the sections they were in, cost no more.
LEMMA SpentLess ==
    ASSUME NEW e, NEW f, NEW S, S \subseteq Ids, IsFiniteSet(S), NEW R, R \subseteq S,
           \A i \in R : f[i].section = e[i].section,
           \A i \in S : e[i].section \in Sections
    PROVE  SpentBy(f, R) \in Nat /\ SpentBy(e, S) \in Nat /\ SpentBy(f, R) <= SpentBy(e, S)
<1>0. IsFiniteSet(R) /\ R \subseteq Ids
  BY FS_Subset
<1>1. PICK g : Sums(Weights(e), g, S) /\ SpentBy(e, S) = g[S]
  BY SpentIsSum
<1>2. PICK h : Sums(Weights(f), h, R) /\ SpentBy(f, R) = h[R]
  BY <1>0, SpentIsSum
<1>3. /\ \A i \in S : Weights(e)[i] \in Nat
      /\ \A i \in R : Weights(f)[i] = Weights(e)[i]
  BY ParametersAssumption DEF Weights
<1>4. h[R] = g[R]
  BY <1>0, <1>1, <1>2, <1>3, SumsAgree
<1>5. g[R] \in Nat /\ g[S] \in Nat
  BY <1>1, <1>3, SumsAdd
<1>6. g[R] <= g[S]
  BY <1>1, <1>3, SumsGrow
<1>. QED
  BY <1>1, <1>2, <1>4, <1>5, <1>6

\* One row more costs its section's credits.
LEMMA SpentMore ==
    ASSUME NEW e, NEW f, NEW S, S \subseteq Ids, IsFiniteSet(S), NEW n \in Ids, n \notin S,
           \A i \in S : f[i].section = e[i].section,
           \A i \in S : e[i].section \in Sections, f[n].section \in Sections
    PROVE  /\ SpentBy(f, S \cup {n}) = SpentBy(e, S) + Credits[f[n].section]
           /\ SpentBy(e, S) \in Nat
<1>. DEFINE T == S \cup {n}
<1>0. T \subseteq Ids /\ IsFiniteSet(T) /\ T \ {n} = S /\ n \in T /\ S \subseteq T
  BY FS_AddElement
<1>. HIDE DEF T
<1>1. PICK g : Sums(Weights(f), g, T) /\ SpentBy(f, T) = g[T]
  BY <1>0, SpentIsSum
<1>2. PICK h : Sums(Weights(e), h, S) /\ SpentBy(e, S) = h[S]
  BY SpentIsSum
<1>3. /\ \A i \in T : Weights(f)[i] \in Nat
      /\ \A i \in S : Weights(e)[i] = Weights(f)[i]
      /\ Weights(f)[n] = Credits[f[n].section]
  BY ParametersAssumption DEF Weights, T
<1>4. h[S] = g[S]
  BY <1>0, <1>1, <1>2, <1>3, SumsAgree
<1>5. g[T] = Weights(f)[n] + g[S] /\ g[S] \in Nat /\ Weights(f)[n] \in Nat
  <2>1. PICK w : w = Weights(f)
    OBVIOUS
  <2>2. Sums(w, g, T) /\ \A i \in T : w[i] \in Nat
    BY <1>1, <1>3, <2>1
  <2>3. /\ \A U \in SUBSET T : g[U] \in Nat
        /\ \A U \in SUBSET T : \A x \in U : g[U] = w[x] + g[U \ {x}]
    BY ONLY <1>0, <2>2, SumsAdd
  <2>4. T \in SUBSET T /\ S \in SUBSET T
    BY <1>0
  <2>. QED
    BY <1>0, <1>3, <2>1, <2>3, <2>4
<1>. QED
  BY <1>1, <1>2, <1>3, <1>4, <1>5 DEF T
-----------------------------------------------------------------------------
(* The registration rules, for students who wait for their answers *)

\* No student has two requests under way that may add a row.
Registers(t) == txn[t].op \in {"enroll", "swap"}
OneAtATime ==
    \A t, v \in Txns : Registers(t) /\ Registers(v) /\ txn[t].student = txn[v].student => t = v

\* The rows that count against the section a request wants, when it gets it.
Counted(t) ==
    {i \in Active(txn[t].student) : txn[t].op = "swap" => i # txn[t].id}
Wanted(t) == IF txn[t].op = "swap" THEN txn[t].tgt ELSE txn[t].sec

Fits(i, s) == CourseOf[enr[i].section] # CourseOf[s] /\ <<s, enr[i].section>> \notin Overlap
\* The eligibility checks are made against rows of other sections, whose locks
\* the request does not hold: what they found holds because nobody else adds one.
Affords(t) ==
    SpentBy(enr, Counted(t)) + Credits[Wanted(t)] <= CreditCap[txn[t].student]
FoundEligible(t) ==
    Registers(t) /\ txn[t].pc = "checked" =>
       Affords(t) /\ \A i \in Counted(t) : Fits(i, Wanted(t))

\* Two sections overlap when either is refused beside the other.
Apart(s, r) == CourseOf[s] # CourseOf[r] /\ (<<s, r>> \notin Overlap \/ <<r, s>> \notin Overlap)
RulesInv ==
    /\ \A u \in Students : \A i, j \in Active(u) :
          i # j => Apart(enr[i].section, enr[j].section)
    /\ \A u \in Students : SpentBy(enr, Active(u)) <= CreditCap[u]
    /\ \A t \in Txns : FoundEligible(t)

\* A student's active rows of different sections meet at different times.
NoOverlap ==
    \A u \in Students : \A i, j \in Active(u) :
       i # j => \/ <<enr[i].section, enr[j].section>> \notin Overlap
                \/ <<enr[j].section, enr[i].section>> \notin Overlap

\* A student's active rows are finitely many, each in a section.
LEMMA ActiveRows ==
    ASSUME IInv, NEW u
    PROVE  /\ Active(u) \subseteq Ids /\ IsFiniteSet(Active(u))
           /\ \A i \in Active(u) : enr[i].section \in Sections /\ enr[i] # Unused
<1>1. \A i \in Active(u) : enr[i] # Unused /\ i \in Ids
  BY DEF Active, Unused, ActiveStatuses
<1>2. IsFiniteSet(Active(u))
  <2>1. Active(u) \subseteq {i \in Ids : enr[i] # Unused}
    BY <1>1
  <2>. QED
    BY <2>1, FS_Subset DEF IInv, TablesInv
<1>3. \A i \in Active(u) : enr[i].section \in Sections
  BY <1>1 DEF IInv, TypeOK, Row
<1>. QED
  BY <1>1, <1>2, <1>3

\* A request that registers is of a student, for a section.
LEMMA WantsSection ==
    ASSUME IInv, NEW t \in Txns, Registers(t), txn[t].pc \in {"locked", "checked"}
    PROVE  /\ txn[t].student \in Students /\ Wanted(t) \in Sections
           /\ Credits[Wanted(t)] \in Nat /\ CreditCap[txn[t].student] \in Nat
<1>1. txn[t].student \in Students /\ Wanted(t) \in Sections
  BY Begun DEF TxnInv, MatchesItsRow, Registers, Wanted
<1>. QED
  BY <1>1, ParametersAssumption

\* The credit check adds up the rows it is given.
LEMMA CreditCheck ==
    ASSUME NEW u, NEW s, NEW S, FitsCredits(u, s, S)
    PROVE  SpentBy(enr, S) + Credits[s] <= CreditCap[u]
  BY DEF FitsCredits, SpentBy, MapThenSumSet, MapThenFoldSet

\* The checks of enroll and swap establish what their commit relies on; a swap
\* within a course needs no duplicate check, since its source was the only row.
LEMMA ChecksFindEligible ==
    ASSUME IInv, RulesInv, NEW t \in Txns, EnrollCheck(t) \/ SwapCheck(t)
    PROVE  FoundEligible(t)'
<1>1. /\ txn[t] \in Txn /\ TxnInv(t) /\ TypeOK /\ txn[t].sec \in Sections
      /\ UNCHANGED enr /\ Registers(t)
  BY Begun DEF EnrollCheck, SwapCheck, At, Registers, tables
<1>2. /\ txn'[t].op = txn[t].op /\ txn'[t].student = txn[t].student /\ txn'[t].id = txn[t].id
      /\ txn'[t].sec = txn[t].sec /\ txn'[t].tgt = txn[t].tgt
  BY <1>1 DEF EnrollCheck, SwapCheck, Checked, TypeOK, Txn
<1>3. Counted(t)' = Counted(t) /\ Wanted(t)' = Wanted(t)
  BY <1>1, <1>2 DEF Counted, Wanted, Active
<1>4. txn[t].student \in Students
  BY <1>1 DEF TxnInv, MatchesItsRow, Registers
<1>5. CASE EnrollCheck(t)
  <2>1. Wanted(t) = txn[t].sec /\ Counted(t) = Active(txn[t].student)
    BY <1>5 DEF EnrollCheck, At, Wanted, Counted
  <2>2. \A i \in Active(txn[t].student) : Fits(i, txn[t].sec)
    BY <1>5 DEF EnrollCheck, MayEnroll, Eligible, NotTwice, FitsSchedule, Fits
  <2>3. FitsCredits(txn[t].student, txn[t].sec, Active(txn[t].student))
    <3>1. Active(txn[t].student) \ ActiveIn(txn[t].student, txn[t].sec) = Active(txn[t].student)
      BY <1>5 DEF EnrollCheck, MayEnroll
    <3>. QED
      BY <1>5, <3>1 DEF EnrollCheck, MayEnroll, Eligible
  <2>4. Affords(t)
    BY <2>1, <2>3, CreditCheck DEF Affords
  <2>. QED
    BY <1>1, <1>2, <1>3, <2>1, <2>2, <2>4 DEF FoundEligible, Fits, Affords
<1>6. CASE SwapCheck(t)
  <2>1. /\ Wanted(t) = txn[t].tgt /\ txn[t].id \in Active(txn[t].student) /\ txn[t].op = "swap"
        /\ MaySwap(txn[t].student, txn[t].id, txn[t].tgt)
    BY <1>1, <1>6 DEF SwapCheck, SwapAllowed, At, Wanted, Active, TxnInv, MatchesItsRow
  <2>2. \A i \in Counted(t) : <<txn[t].tgt, enr[i].section>> \notin Overlap
    BY <2>1 DEF MaySwap, FitsSchedule, Counted
  <2>3. \A i \in Counted(t) : CourseOf[enr[i].section] # CourseOf[enr[txn[t].id].section]
    BY <1>4, <2>1 DEF RulesInv, Apart, Counted
  <2>4. \A i \in Counted(t) : CourseOf[enr[i].section] # CourseOf[txn[t].tgt]
    BY <2>1, <2>3 DEF MaySwap, NotTwice, Counted
  <2>5. FitsCredits(txn[t].student, txn[t].tgt, Counted(t))
    <3>1. Counted(t) = Active(txn[t].student) \ {txn[t].id}
      BY <2>1 DEF Counted
    <3>. QED
      BY <2>1, <3>1 DEF MaySwap
  <2>6. Affords(t)
    BY <2>1, <2>5, CreditCheck DEF Affords
  <2>. QED
    BY <1>1, <1>2, <1>3, <2>1, <2>2, <2>4, <2>6 DEF FoundEligible, Fits, Affords
<1>. QED
  BY <1>5, <1>6

\* A transaction that does not move, of a student whose rows are as before or fewer.
LEMMA StaysEligible ==
    ASSUME IInv, NEW v \in Txns, FoundEligible(v), txn'[v] = txn[v],
           \A i \in Active(txn[v].student)' :
              i \in Active(txn[v].student) /\ enr'[i].section = enr[i].section
    PROVE  FoundEligible(v)'
<1>1. /\ Registers(v)' = Registers(v) /\ Wanted(v)' = Wanted(v)
      /\ \A i \in Counted(v)' : i \in Counted(v) /\ enr'[i].section = enr[i].section
  BY DEF Registers, Wanted, Counted
<1>. SUFFICES ASSUME Registers(v), txn[v].pc = "checked" PROVE FoundEligible(v)'
  BY <1>1 DEF FoundEligible
<1>2. Affords(v) /\ \A i \in Counted(v) : Fits(i, Wanted(v))
  BY DEF FoundEligible
<1>3. Affords(v)'
  <2>1. /\ Counted(v) \subseteq Ids /\ IsFiniteSet(Counted(v)) /\ Counted(v)' \subseteq Counted(v)
        /\ \A i \in Counted(v) : enr[i].section \in Sections
    <3>1. Counted(v) \subseteq Active(txn[v].student)
      BY DEF Counted
    <3>. QED
      BY <1>1, <3>1, ActiveRows, FS_Subset
  <2>2. /\ SpentBy(enr', Counted(v)') \in Nat /\ SpentBy(enr, Counted(v)) \in Nat
        /\ SpentBy(enr', Counted(v)') <= SpentBy(enr, Counted(v))
    BY <1>1, <2>1, SpentLess
  <2>. QED
    BY <1>1, <1>2, <2>2, WantsSection DEF Affords
<1>. QED
  BY <1>1, <1>2, <1>3 DEF FoundEligible, Fits

\* A commit has nothing left to act on.
LEMMA WriterIsDone ==
    ASSUME IInv, NEW t \in Txns, Writes(t)
    PROVE  txn'[t].pc # "checked" /\ txn[t] \in Txn /\ TxnInv(t)
<1>1. txn[t].pc \in {"locked", "checked"}
  BY Zenon DEF Writes, EnrollSeat, EnrollWait, Drop, Swap, Promote, Reorder, UpdateSection,
     Expire, At
<1>2. txn[t] \in Txn /\ TxnInv(t) /\ TypeOK
  BY <1>1, Begun
<1>3. Finish(t) \/ FinishFreeing(t) \/ GoTo(t, "done") => txn'[t].pc # "checked"
  BY <1>2 DEF Finish, FinishFreeing, GoTo, TypeOK, Idle, Txn
<1>4. Finish(t) \/ FinishFreeing(t) \/ GoTo(t, "done")
  BY Zenon DEF Writes, EnrollSeat, EnrollWait, Drop, Swap, Promote, Reorder, UpdateSection, Expire
<1>5. txn'[t].pc # "checked"
  BY ONLY <1>3, <1>4
<1>. QED
  BY ONLY <1>2, <1>5

\* A student whose rows are as before or fewer still pays for them.
LEMMA FewerAfford ==
    ASSUME IInv, NEW u \in Students, SpentBy(enr, Active(u)) <= CreditCap[u],
           \A i \in Active(u)' : i \in Active(u) /\ enr'[i].section = enr[i].section
    PROVE  SpentBy(enr', Active(u)') <= CreditCap[u]
<1>1. /\ SpentBy(enr', Active(u)') \in Nat /\ SpentBy(enr, Active(u)) \in Nat
      /\ SpentBy(enr', Active(u)') <= SpentBy(enr, Active(u))
  BY ActiveRows, SpentLess
<1>. QED
  BY <1>1, ParametersAssumption

\* Commits that add no row: drops, promotions, renumberings, expiries.
LEMMA FewerKeepRules ==
    ASSUME IInv, RulesInv, NEW t \in Txns, txn'[t].pc # "checked",
           \A v \in Txns \ {t} : txn'[v] = txn[v],
           \A i \in Ids : enr'[i].status \in ActiveStatuses =>
              /\ enr[i].status \in ActiveStatuses
              /\ enr'[i].student = enr[i].student /\ enr'[i].section = enr[i].section
    PROVE  RulesInv'
<1>1. \A u : \A i \in Active(u)' : i \in Active(u) /\ enr'[i].section = enr[i].section
  BY DEF Active
<1>2. \A v \in Txns \ {t} : FoundEligible(v)'
  BY <1>1, StaysEligible DEF RulesInv
<1>3. ASSUME NEW u \in Students PROVE SpentBy(enr', Active(u)') <= CreditCap[u]
  BY <1>1, FewerAfford DEF RulesInv
<1>4. \A u \in Students : \A i, j \in Active(u)' : i # j => Apart(enr'[i].section, enr'[j].section)
  BY <1>1 DEF RulesInv
<1>. QED
  BY <1>2, <1>3, <1>4 DEF RulesInv, FoundEligible, Apart

\* Commits that add a row n in section s, which its request found eligible.
LEMMA NewRowKeepsRules ==
    ASSUME IInv, RulesInv, OneAtATime, NEW t \in Txns, txn'[t].pc # "checked", Registers(t),
           txn[t].pc = "checked", \A v \in Txns \ {t} : txn'[v] = txn[v],
           NEW s, s = Wanted(t), NEW n \in Ids, enr[n] = Unused, enr'[n].section = s,
           enr'[n].student = txn[t].student,
           \A i \in Ids \ {n} : enr'[i].status \in ActiveStatuses =>
              /\ enr[i].status \in ActiveStatuses /\ (txn[t].op = "swap" => i # txn[t].id)
              /\ enr'[i].student = enr[i].student /\ enr'[i].section = enr[i].section
    PROVE  RulesInv'
<1>0. PICK u : u = txn[t].student
  OBVIOUS
<1>a. Affords(t) /\ \A i \in Counted(t) : Fits(i, s)
  BY DEF RulesInv, FoundEligible
<1>1. \A i \in Active(u)' : i = n \/ (i \in Counted(t) /\ enr'[i].section = enr[i].section)
  BY <1>0 DEF Active, Counted
<1>2. \A w : w # u => \A i \in Active(w)' : i \in Active(w) /\ enr'[i].section = enr[i].section
  BY <1>0 DEF Active
<1>3. \A v \in Txns \ {t} : FoundEligible(v)'
  <2>. SUFFICES ASSUME NEW v \in Txns \ {t}, Registers(v) PROVE FoundEligible(v)'
    BY DEF FoundEligible, Registers
  <2>1. txn[v].student # u
    BY <1>0 DEF OneAtATime
  <2>. QED
    BY <1>2, <2>1, StaysEligible DEF RulesInv
<1>4. \A i \in Counted(t) : Apart(enr[i].section, s) /\ Apart(s, enr[i].section)
  BY <1>a DEF Fits, Apart
<1>5. \A w \in Students : \A i, j \in Active(w)' :
         i # j => Apart(enr'[i].section, enr'[j].section)
  <2>. SUFFICES ASSUME NEW w \in Students, NEW i \in Active(w)', NEW j \in Active(w)', i # j
                PROVE  Apart(enr'[i].section, enr'[j].section)
    OBVIOUS
  <2>1. CASE w # u
    BY <1>2, <2>1 DEF RulesInv
  <2>2. CASE w = u /\ (i = n \/ j = n)
    <3>1. CASE i = n
      BY <1>1, <1>4, <2>2, <3>1
    <3>2. CASE j = n
      BY <1>1, <1>4, <2>2, <3>2
    <3>. QED
      BY <2>2, <3>1, <3>2
  <2>3. CASE w = u /\ i # n /\ j # n
    <3>1. i \in Active(w) /\ j \in Active(w)
      BY <1>0, <1>1, <2>3 DEF Counted
    <3>. QED
      BY <1>1, <2>3, <3>1 DEF RulesInv
  <2>. QED
    BY <2>1, <2>2, <2>3
<1>6. \A w \in Students : SpentBy(enr', Active(w)') <= CreditCap[w]
  <2>. SUFFICES ASSUME NEW w \in Students PROVE SpentBy(enr', Active(w)') <= CreditCap[w]
    OBVIOUS
  <2>1. CASE w # u
    BY <1>2, <2>1, FewerAfford DEF RulesInv
  <2>2. CASE w = u
    <3>1. /\ Counted(t) \subseteq Ids /\ IsFiniteSet(Counted(t)) /\ n \notin Counted(t)
          /\ \A i \in Counted(t) : enr[i].section \in Sections
      <4>1. Counted(t) \subseteq Active(u)
        BY <1>0 DEF Counted
      <4>. QED
        BY <4>1, ActiveRows, FS_Subset
    <3>. DEFINE R == Active(w)' \ {n}
    <3>2. R \subseteq Counted(t) /\ \A i \in R : enr'[i].section = enr[i].section
      BY <1>1, <2>2
    <3>3. R \subseteq Ids /\ IsFiniteSet(R) /\ n \notin R /\ \A i \in R : enr[i].section \in Sections
      BY <3>1, <3>2, FS_Subset
    <3>4. Active(w)' = R \/ Active(w)' = R \cup {n}
      OBVIOUS
    <3>. HIDE DEF R
    <3>5. s \in Sections /\ Credits[s] \in Nat /\ CreditCap[u] \in Nat
      BY <1>0, WantsSection
    <3>6. /\ SpentBy(enr, R) \in Nat /\ SpentBy(enr, Counted(t)) \in Nat
          /\ SpentBy(enr, R) <= SpentBy(enr, Counted(t))
      BY <3>1, <3>2, SpentLess
    <3>7. SpentBy(enr', R) \in Nat /\ SpentBy(enr', R) <= SpentBy(enr, R)
      BY <3>2, <3>3, SpentLess
    <3>8. SpentBy(enr', R \cup {n}) = SpentBy(enr, R) + Credits[s]
      BY <3>2, <3>3, <3>5, SpentMore
    <3>9. SpentBy(enr, Counted(t)) + Credits[s] <= CreditCap[u]
      BY <1>0, <1>a DEF Affords
    <3>10. SpentBy(enr', R) <= CreditCap[u] /\ SpentBy(enr', R \cup {n}) <= CreditCap[u]
      BY ONLY <3>5, <3>6, <3>7, <3>8, <3>9
    <3>11. CASE Active(w)' = R
      BY <2>2, <3>10, <3>11
    <3>12. CASE Active(w)' = R \cup {n}
      BY <2>2, <3>10, <3>12
    <3>. QED
      BY <3>4, <3>11, <3>12
  <2>. QED
    BY <2>1, <2>2
<1>. QED
  BY <1>3, <1>5, <1>6 DEF RulesInv, FoundEligible, Apart

\* Every commit keeps the rules, if its student has no other request under way.
LEMMA WriterKeepsRules ==
    ASSUME IInv, RulesInv, OneAtATime, NEW t \in Txns, Writes(t),
           \A v \in Txns \ {t} : txn'[v] = txn[v]
    PROVE  RulesInv'
<1>1. txn'[t].pc # "checked" /\ txn[t] \in Txn /\ TxnInv(t) /\ TypeOK
  BY WriterIsDone DEF IInv
<1>2. \A i \in Ids : enr[i].status \in ActiveStatuses => enr[i] # Unused
  BY DEF ActiveStatuses, Unused
<1>3. CASE EnrollSeat(t) \/ EnrollWait(t)
  <2>1. PICK n \in Ids : \E status, pos :
           Inserted(n, txn[t].student, txn[t].sec, status, pos)
    BY <1>3, EnrollSeatEffect, EnrollWaitEffect
  <2>2. Registers(t) /\ txn[t].pc = "checked" /\ Wanted(t) = txn[t].sec /\ txn[t].op # "swap"
    BY <1>3 DEF EnrollSeat, EnrollWait, At, Registers, Wanted
  <2>4. /\ enr[n] = Unused /\ enr'[n].section = txn[t].sec /\ enr'[n].student = txn[t].student
        /\ \A i \in Ids \ {n} : enr'[i] = enr[i]
    BY <2>1 DEF Inserted
  <2>. QED
    BY ONLY <1>1, <2>2, <2>4, NewRowKeepsRules, IInv, RulesInv, OneAtATime, t \in Txns, n \in Ids,
       \A v \in Txns \ {t} : txn'[v] = txn[v]
<1>4. CASE Swap(t)
  <2>1. PICK n \in Ids : Swapped(txn[t].id, txn[t].sec, n, txn[t].tgt)
    BY <1>4, SwapEffect
  <2>2. Registers(t) /\ txn[t].pc = "checked" /\ Wanted(t) = txn[t].tgt
    BY <1>4 DEF Swap, At, Registers, Wanted
  <2>4. /\ enr[n] = Unused /\ enr'[n].section = txn[t].tgt /\ enr'[n].student = txn[t].student
        /\ enr'[txn[t].id].status = "DROPPED"
        /\ \A i \in Ids \ {n, txn[t].id} : enr'[i] = enr[i]
    BY <1>4, <2>1, SwapEffect DEF Swapped, ClosedRow
  <2>5. \A i \in Ids \ {n} : enr'[i].status \in ActiveStatuses => i # txn[t].id /\ enr'[i] = enr[i]
    BY <2>4 DEF ActiveStatuses
  <2>. QED
    BY ONLY <1>1, <2>2, <2>4, <2>5, NewRowKeepsRules, IInv, RulesInv, OneAtATime, t \in Txns,
       n \in Ids, \A v \in Txns \ {t} : txn'[v] = txn[v]
<1>5. CASE Drop(t) \/ Promote(t) \/ Reorder(t) \/ UpdateSection(t) \/ Expire(t)
  <2>. DEFINE Kept(i) == enr'[i].status \in ActiveStatuses =>
                            /\ enr[i].status \in ActiveStatuses
                            /\ enr'[i].student = enr[i].student
                            /\ enr'[i].section = enr[i].section
  <2>1. ASSUME NEW G, NEW s, ClosedIn(G, s), NEW i \in Ids PROVE Kept(i)
    BY <2>1 DEF ClosedIn, ClosedRow, ActiveStatuses
  <2>2. ASSUME NEW P, NEW s, Promoted(P, s), NEW i \in Ids PROVE Kept(i)
    BY <2>2 DEF Promoted, HeadsOf, Waiting, ActiveStatuses
  <2>3. ASSUME NEW s, NEW place, Reordered(s, place), NEW i \in Ids PROVE Kept(i)
    BY <2>3 DEF Reordered
  <2>4. ASSUME UNCHANGED enr, NEW i \in Ids PROVE Kept(i)
    BY <2>4
  <2>5. \A i \in Ids : Kept(i)
    <3>. HIDE DEF Kept
    <3>. QED
      BY <1>5, <2>1, <2>2, <2>3, <2>4, DropEffect, PromoteEffect, ReorderEffect, UpdateEffect,
         ExpireEffect
  <2>. QED
    BY <1>1, <2>5, FewerKeepRules
<1>. QED
  BY <1>3, <1>4, <1>5 DEF Writes

\* Of the steps that write no row, only the two checks rely on what they read.
LEMMA OnlyChecksRely ==
    ASSUME IInv, NEW t \in Txns, ~Writes(t), ~EnrollCheck(t), ~SwapCheck(t),
           \/ Request(t) \/ AcquireLock(t) \/ Step(t) \/ Fault(t)
           \/ \E s \in Sections : BeginPromote(t, s) \/ BeginExpire(t, s)
    PROVE  txn'[t] = txn[t] \/ ~(Registers(t)' /\ txn'[t].pc = "checked")
<1>1. TypeOK
  BY DEF IInv
<1>2. ASSUME NEW op, NEW u, NEW i, NEW s, NEW r, Begin(t, op, u, i, s, r)
      PROVE  txn'[t].pc # "checked"
  BY <1>1, <1>2 DEF Begin, TypeOK
<1>3. CASE Request(t) \/ \E s \in Sections : BeginPromote(t, s) \/ BeginExpire(t, s)
  BY <1>2, <1>3 DEF Request, BeginEnroll, BeginDrop, BeginSwap, BeginReorder, BeginUpdate,
                    BeginPromote, BeginExpire
<1>4. Finish(t) \/ GoTo(t, "locked") \/ GoTo(t, "done") \/ txn' = [txn EXCEPT ![t] = Idle]
         => txn'[t].pc # "checked"
  BY <1>1 DEF Finish, GoTo, TypeOK, Idle, Txn
<1>5. CASE AcquireLock(t)
  BY <1>4, <1>5 DEF AcquireLock
<1>6. CASE PromoteCheck(t) \/ ReorderCheck(t) \/ UpdateCheck(t) \/ ExpireCheck(t)
  <2>1. txn[t].op \in {"promote", "reorder", "update", "expire"} /\ txn[t].pc = "locked"
    BY ONLY <1>6 DEF PromoteCheck, ReorderCheck, UpdateCheck, ExpireCheck, At
  <2>2. Finish(t) \/ \E num, was, rows : Checked(t, num, was, rows)
    BY ONLY <1>6, Zenon DEF PromoteCheck, ReorderCheck, UpdateCheck, ExpireCheck
  <2>3. txn[t] \in Txn
    BY <2>1, Begun
  <2>4. ASSUME NEW num, NEW was, NEW rows, Checked(t, num, was, rows)
        PROVE  txn'[t].op = txn[t].op
    BY <1>1, <2>3, <2>4 DEF Checked, TypeOK, Txn
  <2>. QED
    BY <1>4, <2>1, <2>2, <2>4 DEF Registers
<1>7. CASE \/ EnrollRefuse(t) \/ SwapRefuse(t) \/ SwapHitsIndex(t) \/ NoIdLeft(t)
           \/ PromoteClosed(t) \/ CompleteJob(t) \/ Enqueue(t) \/ Fault(t)
  <2>1. Finish(t) \/ GoTo(t, "done") \/ txn' = [txn EXCEPT ![t] = Idle]
    BY ONLY <1>7, Zenon DEF EnrollRefuse, SwapRefuse, SwapHitsIndex, NoIdLeft, PromoteClosed, CompleteJob,
       Enqueue, Fault
  <2>. QED
    BY <1>4, <2>1
<1>. QED
  BY <1>3, <1>5, <1>6, <1>7 DEF Step, Writes

\* A step that writes no row: only the checks make a transaction rely on more.
LEMMA QuietKeepsRules ==
    ASSUME IInv, RulesInv, [Next]_vars, \A t \in Txns : ~Writes(t)
    PROVE  RulesInv'
<1>1. UNCHANGED enr
  BY OnlyWritersWrite
<1>2. \A u : Active(u)' = Active(u)
  BY <1>1 DEF Active
<1>3. ASSUME NEW t \in Txns, txn'[t] = txn[t] PROVE FoundEligible(t)'
  BY <1>1, <1>2, <1>3, StaysEligible DEF RulesInv, Active
<1>4. ASSUME NEW t \in Txns,
             \/ Request(t) \/ AcquireLock(t) \/ Step(t) \/ Fault(t)
             \/ \E s \in Sections : BeginPromote(t, s) \/ BeginExpire(t, s)
      PROVE  \A v \in Txns : FoundEligible(v)'
  <2>1. \A v \in Txns \ {t} : txn'[v] = txn[v]
    BY <1>4, BeginPreserves, StepPreserves DEF Preserves, Frame
  <2>2. CASE EnrollCheck(t) \/ SwapCheck(t)
    BY <1>3, <2>1, <2>2, ChecksFindEligible
  <2>3. CASE ~EnrollCheck(t) /\ ~SwapCheck(t)
    <3>1. txn'[t] = txn[t] \/ ~(Registers(t)' /\ txn'[t].pc = "checked")
      BY <1>4, <2>3, OnlyChecksRely
    <3>2. FoundEligible(t)'
      BY <1>3, <3>1 DEF FoundEligible
    <3>. QED
      BY <1>3, <2>1, <3>2
  <2>. QED
    BY <2>2, <2>3
<1>5. ASSUME \/ Sweep \/ Tick \/ UNCHANGED vars
             \/ \E u \in Students : PlaceHold(u) \/ ReleaseHold(u)
      PROVE  \A t \in Txns : FoundEligible(t)'
  <2>1. UNCHANGED txn
    BY <1>5 DEF Sweep, Tick, PlaceHold, ReleaseHold, vars
  <2>. QED
    BY <1>3, <2>1
<1>6. \A t \in Txns : FoundEligible(t)'
  BY <1>4, <1>5 DEF Next, Txns
<1>. QED
  BY <1>1, <1>2, <1>6 DEF RulesInv, Apart

\* At first nobody holds a row, and no rows cost nothing.
LEMMA InitRules == Init => RulesInv
<1>. SUFFICES ASSUME Init PROVE RulesInv
  OBVIOUS
<1>1. \A u : Active(u) = {}
  BY DEF Init, Active, ActiveStatuses, Unused
<1>2. SpentBy(enr, {}) = 0
  <2>1. PICK g : Sums(Weights(enr), g, {}) /\ SpentBy(enr, {}) = g[{}]
    BY FS_EmptySet, SpentIsSum
  <2>. QED
    BY <2>1 DEF Sums
<1>3. \A u \in Students : 0 <= CreditCap[u]
  BY ParametersAssumption
<1>. QED
  BY <1>1, <1>2, <1>3 DEF Init, RulesInv, FoundEligible, Idle

\* No step of the system breaks the rules.
LEMMA NextRules == IInv /\ RulesInv /\ OneAtATime /\ [Next]_vars => RulesInv'
<1>. SUFFICES ASSUME IInv, RulesInv, OneAtATime, [Next]_vars PROVE RulesInv'
  OBVIOUS
<1>1. ASSUME NEW t \in Txns, Writes(t) PROVE RulesInv'
  <2>1. Step(t)
    BY <1>1 DEF Writes, Step
  <2>. QED
    BY <1>1, <2>1, StepPreserves, WriterKeepsRules DEF Preserves, Frame
<1>. QED
  BY <1>1, QuietKeepsRules

\* What TLC checks for one client: a student whose enrolls and swaps do not overlap
\* never holds two sections of one course, whatever promotions, drops, expiries,
\* other students and faults do meanwhile.
THEOREM CourseRuleCorrect == Spec /\ []OneAtATime => []OneSectionPerCourse
<1>1. Init => RulesInv
  BY InitRules
<1>2. RulesInv /\ IInv => OneSectionPerCourse
  <2>. SUFFICES ASSUME RulesInv, IInv, NEW i \in Ids, NEW j \in Ids,
                       {enr[i].status, enr[j].status} \subseteq ActiveStatuses,
                       enr[i].student = enr[j].student,
                       CourseOf[enr[i].section] = CourseOf[enr[j].section]
                PROVE  i = j
    BY DEF OneSectionPerCourse
  <2>1. enr[i].student \in Students
    BY DEF IInv, TypeOK, Row, Unused, ActiveStatuses
  <2>. QED
    BY <2>1 DEF RulesInv, Active, Apart
<1>. QED
  BY <1>1, <1>2, NextRules, Invariance, PTL DEF Spec

\* And never two sections that the schedule check refuses beside each other.
THEOREM ScheduleCorrect == Spec /\ []OneAtATime => []NoOverlap
<1>1. Init => RulesInv
  BY InitRules
<1>2. RulesInv => NoOverlap
  BY DEF RulesInv, NoOverlap, Apart
<1>. QED
  BY <1>1, <1>2, NextRules, Invariance, PTL DEF Spec

\* And never more credits than the limit on that student.
THEOREM CreditCapCorrect == Spec /\ []OneAtATime => []WithinCreditCap
<1>1. RulesInv => WithinCreditCap
  BY DEF RulesInv, WithinCreditCap, SpentBy, MapThenSumSet, MapThenFoldSet
<1>. QED
  BY <1>1, InitRules, NextRules, Invariance, PTL DEF Spec
-----------------------------------------------------------------------------
(* The promise: Enrollment implements SeatAllocation.  The effect of every  *)
(* commit on the rows is one step of it, and every other step is a stutter. *)

\* The promise's variables, read off the tables.
SeatedIn == [s \in Sections |-> Seated(s)]
WaitingIn == [s \in Sections |-> Waiting(s)]
Ahead == {p \in Ids \X Ids : /\ enr[p[1]].status = "WAITLISTED"
                             /\ enr[p[2]].status = "WAITLISTED"
                             /\ enr[p[1]].section = enr[p[2]].section
                             /\ enr[p[1]].pos < enr[p[2]].pos}
Gone == {i \in Ids : enr[i].status = "DROPPED"}

\* An id no INSERT has used is in none of the abstract sets.
LEMMA UnusedAbsent ==
    ASSUME NEW n \in Ids, enr[n] = Unused
    PROVE  ~Promise!Present(n)
BY DEF Promise!Present, Unused, Seated, Waiting

\* The abstract seats of a section are its ENROLLED rows, counted.
LEMMA SameCardinality ==
    \A S : Promise!Cardinality(S) = Cardinality(S)
BY DEF Promise!Cardinality, Cardinality

\* The counter read under the lock shows a seat that is free in the promise too.
LEMMA FreeSeat ==
    ASSUME TablesInv, NEW s \in Sections
    PROVE  /\ enrolledCount[s] < capacity[s] <=> Promise!HasSeat(s)
           /\ Cardinality(Seated(s)) = enrolledCount[s]
BY SameCardinality DEF Promise!HasSeat, TablesInv, CounterMatchesRows

\* Rows that leave their waitlist leave the order, and no other pair does.
LEMMA AheadWithout ==
    ASSUME NEW G, \A i \in G : enr'[i].status # "WAITLISTED",
           \A i \in Ids \ G : \/ enr'[i] = enr[i]
                              \/ enr[i].status # "WAITLISTED" /\ enr'[i].status # "WAITLISTED"
    PROVE  Ahead' = {p \in Ahead : p[1] \notin G /\ p[2] \notin G}
<1>1. \A i, j \in Ids : <<i, j>> \in Ahead' <=> <<i, j>> \in Ahead /\ i \notin G /\ j \notin G
  BY DEF Ahead
<1>2. Ahead \subseteq Ids \X Ids /\ Ahead' \subseteq Ids \X Ids
  BY DEF Ahead
<1>. QED
  BY <1>1, <1>2

\* A commit that moves no waiting row leaves who is ahead of whom.
LEMMA AheadUnchanged ==
    ASSUME \A i \in Ids : \/ enr'[i] = enr[i]
                          \/ enr[i].status # "WAITLISTED" /\ enr'[i].status # "WAITLISTED"
    PROVE  Ahead' = Ahead
<1>1. \A i, j \in Ids : <<i, j>> \in Ahead' <=> <<i, j>> \in Ahead
  BY DEF Ahead
<1>2. Ahead \subseteq Ids \X Ids /\ Ahead' \subseteq Ids \X Ids
  BY DEF Ahead
<1>. QED
  BY <1>1, <1>2

\* A newcomer with a seat.
LEMMA SeatTaken ==
    ASSUME IInv, NEW n, NEW u, NEW s, Inserted(n, u, s, "ENROLLED", None),
           enrolledCount[s] < capacity[s], UNCHANGED capacity
    PROVE  Promise!Operation
<1>1. n \in Ids /\ s \in Sections /\ enr[n] = Unused
      /\ enr'[n].section = s /\ enr'[n].status = "ENROLLED"
      /\ \A i \in Ids \ {n} : enr'[i] = enr[i]
  BY DEF Inserted
<1>2. enr[n].status \notin {"ENROLLED", "WAITLISTED", "DROPPED"}
  BY <1>1 DEF Unused
<1>3. \A r \in Sections : Seated(r)' = IF r = s THEN Seated(r) \cup {n} ELSE Seated(r)
  BY <1>1, <1>2 DEF Seated
<1>4. \A r \in Sections : Waiting(r)' = Waiting(r)
  BY <1>1, <1>2 DEF Waiting
<1>5. SeatedIn' = [SeatedIn EXCEPT ![s] = @ \cup {n}] /\ WaitingIn' = WaitingIn
  BY <1>1, <1>3, <1>4 DEF SeatedIn, WaitingIn
<1>6. Gone' = Gone
  BY <1>1, <1>2 DEF Gone
<1>7. \A i \in Ids : \/ enr'[i] = enr[i]
                     \/ enr[i].status # "WAITLISTED" /\ enr'[i].status # "WAITLISTED"
  BY <1>1, <1>2
<1>8. Ahead' = Ahead
  BY <1>7, AheadUnchanged
<1>9. ~Promise!Present(n) /\ Promise!HasSeat(s)
  BY <1>1, UnusedAbsent, FreeSeat DEF IInv
<1>10. Promise!TakeSeat(n, s)
  BY <1>5, <1>6, <1>8, <1>9 DEF Promise!TakeSeat, SeatedIn, WaitingIn, Ahead, Gone
<1>. QED
  BY <1>1, <1>10 DEF Promise!Operation

\* A newcomer on the waitlist, behind everyone.
LEMMA QueueJoined ==
    ASSUME IInv, NEW n, NEW u, NEW s, NEW pos \in Nat, Inserted(n, u, s, "WAITLISTED", pos),
           \A i \in Waiting(s) : enr[i].pos < pos,
           enrolledCount[s] >= capacity[s], UNCHANGED capacity
    PROVE  Promise!Operation
<1>1. n \in Ids /\ s \in Sections /\ enr[n] = Unused
      /\ enr'[n].section = s /\ enr'[n].status = "WAITLISTED" /\ enr'[n].pos = pos
      /\ \A i \in Ids \ {n} : enr'[i] = enr[i]
  BY DEF Inserted
<1>2. enr[n].status \notin {"ENROLLED", "WAITLISTED", "DROPPED"}
  BY <1>1 DEF Unused
<1>3. \A r \in Sections : Waiting(r)' = IF r = s THEN Waiting(r) \cup {n} ELSE Waiting(r)
  BY <1>1, <1>2 DEF Waiting
<1>4. \A r \in Sections : Seated(r)' = Seated(r)
  BY <1>1, <1>2 DEF Seated
<1>5. SeatedIn' = SeatedIn /\ WaitingIn' = [WaitingIn EXCEPT ![s] = @ \cup {n}]
  BY <1>1, <1>3, <1>4 DEF SeatedIn, WaitingIn
<1>6. Gone' = Gone
  BY <1>1, <1>2 DEF Gone
<1>7. Ahead' = Ahead \cup (WaitingIn[s] \X {n})
  <2>1. WaitingIn[s] = Waiting(s) /\ \A i \in Waiting(s) : i \in Ids \ {n}
    BY <1>1, <1>2 DEF WaitingIn, Waiting
  <2>2. \A i, j \in Ids \ {n} : <<i, j>> \in Ahead' <=> <<i, j>> \in Ahead
    BY <1>1 DEF Ahead
  <2>3. \A i \in Ids : <<n, i>> \notin Ahead /\ <<i, n>> \notin Ahead
    BY <1>2 DEF Ahead
  <2>4. \A i \in Ids \ {n} : <<i, n>> \in Ahead' <=> i \in Waiting(s)
    BY <1>1 DEF Ahead, Waiting
  <2>5. \A i \in Ids \ {n} : <<n, i>> \notin Ahead'
    <3>. SUFFICES ASSUME NEW i \in Ids \ {n}, <<n, i>> \in Ahead' PROVE FALSE
      OBVIOUS
    <3>1. i \in Waiting(s) /\ pos < enr[i].pos
      BY <1>1 DEF Ahead, Waiting
    <3>2. enr[i].pos \in Nat /\ enr[i].pos < pos
      BY <1>1, <3>1, WaitingTyped DEF IInv
    <3>. QED
      BY <3>1, <3>2
  <2>6. <<n, n>> \notin Ahead'
    BY <1>1 DEF Ahead
  <2>7. Ahead \subseteq Ids \X Ids /\ Ahead' \subseteq Ids \X Ids
    BY DEF Ahead
  <2>8. \A i, j \in Ids : <<i, j>> \in Ahead' <=> <<i, j>> \in Ahead \/ (i \in Waiting(s) /\ j = n)
    BY <1>1, <2>1, <2>2, <2>3, <2>4, <2>5, <2>6
  <2>. QED
    BY <1>1, <2>1, <2>7, <2>8
<1>8. ~(enrolledCount[s] < capacity[s])
  BY <1>1 DEF IInv, TypeOK
<1>9. ~Promise!Present(n) /\ ~Promise!HasSeat(s)
  BY <1>1, <1>8, UnusedAbsent, FreeSeat DEF IInv
<1>10. Promise!Join(n, s)
  BY <1>5, <1>6, <1>7, <1>9 DEF Promise!Join, SeatedIn, WaitingIn, Ahead, Gone
<1>. QED
  BY <1>1, <1>10 DEF Promise!Operation

\* Rows of one section that are closed: one, or some of its waitlist.
LEMMA SeatsGivenUp ==
    ASSUME IInv, NEW G, NEW s, ClosedIn(G, s), G \subseteq Waiting(s) \/ \E i : G = {i},
           G # {}, UNCHANGED capacity
    PROVE  Promise!Operation
<1>1. /\ s \in Sections /\ G \subseteq Seated(s) \cup Waiting(s)
      /\ \A i \in G : enr'[i].status = "DROPPED"
      /\ \A i \in Ids \ G : enr'[i] = enr[i]
  BY DEF ClosedIn, ClosedRow
<1>2. \A i \in G : i \in Ids /\ enr[i].section = s /\ enr[i].status # "DROPPED"
  BY <1>1 DEF Seated, Waiting
<1>3. \A r \in Sections : Seated(r)' = IF r = s THEN Seated(r) \ G ELSE Seated(r)
  BY <1>1, <1>2 DEF Seated
<1>4. \A r \in Sections : Waiting(r)' = IF r = s THEN Waiting(r) \ G ELSE Waiting(r)
  BY <1>1, <1>2 DEF Waiting
<1>5. /\ SeatedIn' = [SeatedIn EXCEPT ![s] = @ \ G]
      /\ WaitingIn' = [WaitingIn EXCEPT ![s] = @ \ G]
  BY <1>1, <1>3, <1>4 DEF SeatedIn, WaitingIn
<1>6. Gone' = Gone \cup G
  BY <1>1, <1>2 DEF Gone
<1>7. Ahead' = {p \in Ahead : p[1] \notin G /\ p[2] \notin G}
  BY <1>1, AheadWithout
<1>8. SeatedIn[s] = Seated(s) /\ WaitingIn[s] = Waiting(s)
  BY <1>1 DEF SeatedIn, WaitingIn
<1>9. G \subseteq WaitingIn[s] \/ Promise!Cardinality(G) = 1
  BY <1>8, FS_Singleton, SameCardinality
<1>10. Promise!GiveUp(G, s)
  BY <1>1, <1>5, <1>6, <1>7, <1>8, <1>9
  DEF Promise!GiveUp, SeatedIn, WaitingIn, Ahead, Gone
<1>11. G \in SUBSET (SeatedIn[s] \cup WaitingIn[s])
  BY <1>1, <1>8
<1>. QED
  BY <1>1, <1>10, <1>11 DEF Promise!Operation, SeatedIn, WaitingIn

\* A row gives up what it holds and a newcomer takes a seat elsewhere.
LEMMA SeatMoved ==
    ASSUME IInv, NEW i, NEW s, NEW n, NEW r, Swapped(i, s, n, r),
           enrolledCount[r] < capacity[r], UNCHANGED capacity
    PROVE  Promise!Operation
<1>1. /\ s \in Sections /\ r \in Sections /\ r # s /\ i \in Seated(s) \cup Waiting(s)
      /\ n \in Ids /\ enr[n] = Unused
      /\ enr'[i].status = "DROPPED" /\ enr'[n].status = "ENROLLED" /\ enr'[n].section = r
      /\ \A j \in Ids \ {i, n} : enr'[j] = enr[j]
  BY DEF Swapped, ClosedRow
<1>2. /\ i \in Ids /\ enr[i].section = s /\ enr[i].status \in {"ENROLLED", "WAITLISTED"}
      /\ enr[n].status \notin {"ENROLLED", "WAITLISTED", "DROPPED"} /\ i # n
  BY <1>1 DEF Seated, Waiting, Unused
<1>3. \A q \in Sections : Seated(q)' = IF q = s THEN Seated(q) \ {i}
                                       ELSE IF q = r THEN Seated(q) \cup {n} ELSE Seated(q)
  BY <1>1, <1>2 DEF Seated
<1>4. \A q \in Sections : Waiting(q)' = IF q = s THEN Waiting(q) \ {i} ELSE Waiting(q)
  BY <1>1, <1>2 DEF Waiting
<1>5. /\ SeatedIn' = [SeatedIn EXCEPT ![s] = @ \ {i}, ![r] = @ \cup {n}]
      /\ WaitingIn' = [WaitingIn EXCEPT ![s] = @ \ {i}]
  BY <1>1, <1>3, <1>4 DEF SeatedIn, WaitingIn
<1>6. Gone' = Gone \cup {i}
  BY <1>1, <1>2 DEF Gone
<1>7. Ahead' = {p \in Ahead : p[1] \notin {i} /\ p[2] \notin {i}}
  <2>1. \A j \in Ids \ {i} :
           \/ enr'[j] = enr[j]
           \/ enr[j].status # "WAITLISTED" /\ enr'[j].status # "WAITLISTED"
    BY <1>1, <1>2
  <2>. QED
    BY <1>1, <2>1, AheadWithout
<1>8. Ahead' = {p \in Ahead : i \notin {p[1], p[2]}}
  BY <1>7
<1>9. ~Promise!Present(n) /\ Promise!HasSeat(r)
  BY <1>1, UnusedAbsent, FreeSeat DEF IInv
<1>10. i \in SeatedIn[s] \cup WaitingIn[s]
  BY <1>1 DEF SeatedIn, WaitingIn
<1>11. Promise!Move(i, s, n, r)
  BY <1>1, <1>5, <1>6, <1>8, <1>9, <1>10
  DEF Promise!Move, SeatedIn, WaitingIn, Ahead, Gone
<1>. QED
  BY <1>1, <1>10, <1>11 DEF Promise!Operation, SeatedIn, WaitingIn

\* The head of the waitlist takes free seats.
LEMMA HeadSeated ==
    ASSUME IInv, TablesInv', NEW P, NEW s, Promoted(P, s), P # {}, UNCHANGED capacity
    PROVE  Promise!Operation
<1>1. /\ s \in Sections /\ P \subseteq Waiting(s)
      /\ \A i \in P : enr'[i].status = "ENROLLED" /\ enr'[i].section = enr[i].section
      /\ \A i \in Ids \ P : enr'[i] = enr[i]
      /\ \A i \in P, j \in Waiting(s) \ P : enr[i].pos <= enr[j].pos
  BY DEF Promoted, HeadsOf
<1>2. \A i \in Waiting(s) : /\ i \in Ids /\ enr[i].section = s /\ enr[i].status = "WAITLISTED"
                            /\ enr[i].pos \in Nat
  BY <1>1, WaitingTyped DEF Waiting, IInv
<1>3. \A r \in Sections : Seated(r)' = IF r = s THEN Seated(r) \cup P ELSE Seated(r)
  BY <1>1, <1>2 DEF Seated
<1>4. \A r \in Sections : Waiting(r)' = IF r = s THEN Waiting(r) \ P ELSE Waiting(r)
  BY <1>1, <1>2 DEF Waiting
<1>5. /\ SeatedIn' = [SeatedIn EXCEPT ![s] = @ \cup P]
      /\ WaitingIn' = [WaitingIn EXCEPT ![s] = @ \ P]
      /\ SeatedIn[s] = Seated(s) /\ WaitingIn[s] = Waiting(s)
  BY <1>1, <1>3, <1>4 DEF SeatedIn, WaitingIn
<1>6. Gone' = Gone
  BY <1>1, <1>2 DEF Gone
<1>7. Ahead' = {p \in Ahead : p[1] \notin P /\ p[2] \notin P}
  BY <1>1, AheadWithout
<1>8. \A i \in P, j \in Waiting(s) \ P : <<i, j>> \in Ahead
  <2>1. \A i \in P, j \in Waiting(s) \ P : enr[i].pos # enr[j].pos
    BY <1>1 DEF IInv, TablesInv, WaitlistOrdered
  <2>2. \A i \in P, j \in Waiting(s) \ P : enr[i].pos < enr[j].pos
    BY <1>1, <1>2, <2>1
  <2>. QED
    BY <1>1, <1>2, <2>2 DEF Ahead
<1>9. Promise!Cardinality(SeatedIn[s] \cup P) <= capacity[s]
  BY <1>1, <1>3, <1>5, SameCardinality DEF TablesInv, CounterMatchesRows
<1>10. Promise!Promote(P, s)
  BY <1>1, <1>5, <1>6, <1>7, <1>8, <1>9
  DEF Promise!Promote, SeatedIn, WaitingIn, Ahead, Gone
<1>11. P \in SUBSET WaitingIn[s]
  BY <1>1, <1>5
<1>. QED
  BY <1>1, <1>10, <1>11 DEF Promise!Operation, SeatedIn, WaitingIn

\* The waitlist of a section takes another order.
LEMMA QueueRearranged ==
    ASSUME IInv, NEW s, NEW place, Reordered(s, place), UNCHANGED capacity
    PROVE  Promise!Operation
<1>. DEFINE W == Waiting(s)
<1>1. /\ s \in Sections /\ place \in [W -> 1..Cardinality(W)]
      /\ \A i, j \in W : place[i] = place[j] => i = j
      /\ \A i \in W : /\ enr'[i].section = enr[i].section /\ enr'[i].status = enr[i].status
                       /\ enr'[i].pos = place[i]
      /\ \A i \in Ids \ W : enr'[i] = enr[i]
  BY DEF Reordered
<1>2. \A i \in W : i \in Ids /\ enr[i].section = s /\ enr[i].status = "WAITLISTED"
  BY DEF Waiting
<1>3. \A i \in Ids : enr'[i].section = enr[i].section /\ enr'[i].status = enr[i].status
  BY <1>1
<1>4. /\ \A r \in Sections : Seated(r)' = Seated(r) /\ Waiting(r)' = Waiting(r)
      /\ Gone' = Gone
  BY <1>3 DEF Seated, Waiting, Gone
<1>5. SeatedIn' = SeatedIn /\ WaitingIn' = WaitingIn /\ WaitingIn[s] = W
  BY <1>1, <1>4 DEF SeatedIn, WaitingIn
<1>6. Ahead' = (Ahead \ (W \X W)) \cup {p \in W \X W : place[p[1]] < place[p[2]]}
  <2>1. \A i, j \in W : <<i, j>> \in Ahead' <=> place[i] < place[j]
    BY <1>1, <1>2 DEF Ahead
  <2>2. \A i, j \in Ids : i \notin W \/ j \notin W => (<<i, j>> \in Ahead' <=> <<i, j>> \in Ahead)
    <3>1. \A i \in W, j \in Ids \ W : <<i, j>> \notin Ahead /\ <<j, i>> \notin Ahead
                                    /\ <<i, j>> \notin Ahead' /\ <<j, i>> \notin Ahead'
      BY <1>1, <1>2 DEF Ahead, Waiting
    <3>2. \A i, j \in Ids \ W : <<i, j>> \in Ahead' <=> <<i, j>> \in Ahead
      BY <1>1 DEF Ahead
    <3>. QED
      BY <3>1, <3>2
  <2>3. Ahead \subseteq Ids \X Ids /\ Ahead' \subseteq Ids \X Ids /\ W \subseteq Ids
    BY <1>2 DEF Ahead
  <2>. HIDE DEF W
  <2>. QED
    BY <2>1, <2>2, <2>3
<1>7. Promise!Rearrange(s)
  BY <1>1, <1>4, <1>5, <1>6, SameCardinality
  DEF Promise!Rearrange, SeatedIn, WaitingIn, Ahead, Gone
<1>. QED
  BY <1>1, <1>7 DEF Promise!Operation

\* Nothing of the promise moves while rows and capacities stay.
LEMMA PromiseStutters ==
    ASSUME \A i \in Ids : enr'[i] = enr[i], UNCHANGED capacity
    PROVE  UNCHANGED Promise!abstractVars
<1>1. \A s \in Sections : Seated(s)' = Seated(s) /\ Waiting(s)' = Waiting(s)
  BY DEF Seated, Waiting
<1>2. SeatedIn' = SeatedIn /\ WaitingIn' = WaitingIn
  BY <1>1 DEF SeatedIn, WaitingIn
<1>3. Gone' = Gone
  BY DEF Gone
<1>4. Ahead' = Ahead
  BY AheadUnchanged
<1>. QED
  BY <1>2, <1>3, <1>4 DEF Promise!abstractVars, SeatedIn, WaitingIn, Ahead, Gone

\* A capacity changes, the rows stay.
LEMMA RoomResized ==
    ASSUME IInv, NEW s \in Sections, NEW c \in Nat, capacity' = [capacity EXCEPT ![s] = c],
           c >= enrolledCount[s], UNCHANGED enr
    PROVE  Promise!Operation
<1>1. /\ SeatedIn' = SeatedIn /\ WaitingIn' = WaitingIn /\ Ahead' = Ahead /\ Gone' = Gone
      /\ SeatedIn[s] = Seated(s)
  BY DEF SeatedIn, WaitingIn, Seated, Waiting, Ahead, Gone
<1>2. capacity'[s] = c
  BY DEF IInv, TypeOK
<1>3. capacity'[s] >= Promise!Cardinality(SeatedIn[s])
  <2>1. Cardinality(SeatedIn[s]) = enrolledCount[s] /\ enrolledCount[s] \in Nat
    BY <1>1, FreeSeat DEF IInv, TypeOK
  <2>. QED
    BY <1>2, <2>1, SameCardinality
<1>4. Promise!Resize(s)
  BY <1>1, <1>2, <1>3 DEF Promise!Resize, SeatedIn, WaitingIn, Ahead, Gone
<1>. QED
  BY <1>4 DEF Promise!Operation

\* Each commit takes one step of the promise, or none.
LEMMA WriterKeepsPromise ==
    ASSUME IInv, IInv', NEW t \in Txns, Writes(t)
    PROVE  [Promise!Operation]_(Promise!abstractVars)
<1>1. CASE EnrollSeat(t)
  BY <1>1, EnrollSeatEffect, SeatTaken
<1>2. CASE EnrollWait(t)
  BY <1>2, EnrollWaitEffect, QueueJoined
<1>3. ASSUME NEW i, NEW s, ClosedIn({i}, s), UNCHANGED capacity PROVE Promise!Operation
  <2>. DEFINE G == {i}
  <2>1. ClosedIn(G, s) /\ G # {} /\ \E j : G = {j}
    BY <1>3
  <2>. HIDE DEF G
  <2>. QED
    BY <1>3, <2>1, SeatsGivenUp
<1>4. CASE Drop(t)
  <2>1. UNCHANGED capacity
    BY <1>4, DropEffect
  <2>2. CASE UNCHANGED enr
    BY <2>1, <2>2, PromiseStutters
  <2>3. CASE ClosedIn({txn[t].id}, txn[t].sec)
    BY <1>3, <2>1, <2>3
  <2>. QED
    BY <1>4, <2>2, <2>3, DropEffect
<1>5. CASE Swap(t)
  BY <1>5, SwapEffect, SeatMoved
<1>6. CASE Promote(t)
  <2>1. PICK P \in SUBSET Ids : Promoted(P, txn[t].sec)
    BY <1>6, PromoteEffect
  <2>2. UNCHANGED capacity
    BY <1>6, PromoteEffect
  <2>3. CASE P = {}
    <3>1. \A i \in Ids : enr'[i] = enr[i]
      BY <2>1, <2>3 DEF Promoted
    <3>. QED
      BY <2>2, <3>1, PromiseStutters
  <2>4. CASE P # {}
    BY <2>1, <2>2, <2>4, HeadSeated DEF IInv
  <2>. QED
    BY <2>3, <2>4
<1>7. CASE Reorder(t)
  BY <1>7, ReorderEffect, QueueRearranged
<1>8. CASE UpdateSection(t)
  BY <1>8, UpdateEffect, RoomResized
<1>9. CASE Expire(t)
  <2>. DEFINE s == txn[t].sec
              G == Waiting(s)
  <2>1. ClosedIn(G, s) /\ UNCHANGED capacity
    BY <1>9, ExpireEffect
  <2>2. CASE G = {}
    <3>1. \A i \in Ids : enr'[i] = enr[i]
      BY <2>1, <2>2 DEF ClosedIn
    <3>. QED
      BY <2>1, <3>1, PromiseStutters
  <2>3. CASE G # {}
    <3>1. Promise!Operation
      BY <2>1, <2>3, SeatsGivenUp
    <3>. QED
      BY <3>1
  <2>. QED
    BY <2>2, <2>3
<1>. QED
  BY <1>1, <1>2, <1>4, <1>5, <1>6, <1>7, <1>8, <1>9 DEF Writes

\* Seat allocation is what it promises, for any number of sections, requests,
\* workers and faults: no commit seats, queues, moves or closes rows otherwise
\* than one step of SeatAllocation does.
THEOREM PromiseKept == Spec => ImplementsPromise
<1>1. Init => Promise!Init
  <2>. SUFFICES ASSUME Init PROVE Promise!Init
    OBVIOUS
  <2>1. \A i \in Ids : enr[i].status = "UNUSED"
    BY DEF Init, Unused
  <2>2. \A s \in Sections : Seated(s) = {} /\ Waiting(s) = {}
    BY <2>1 DEF Seated, Waiting
  <2>3. Ahead = {} /\ Gone = {}
    BY <2>1 DEF Ahead, Gone
  <2>4. capacity \in [Sections -> Nat]
    BY ParametersAssumption DEF Init
  <2>. QED
    BY <2>2, <2>3, <2>4 DEF Promise!Init, Ahead, Gone
<1>2. IInv /\ IInv' /\ [Next]_vars => [Promise!Next]_(Promise!abstractVars)
  <2>. SUFFICES ASSUME IInv, IInv', [Next]_vars PROVE [Promise!Next]_(Promise!abstractVars)
    OBVIOUS
  <2>1. CASE \E t \in Txns : Writes(t)
    BY <2>1, WriterKeepsPromise DEF Promise!Next
  <2>2. CASE \A t \in Txns : ~Writes(t)
    BY <2>2, OnlyWritersWrite, PromiseStutters
  <2>. QED
    BY <2>1, <2>2
<1>. QED
  BY <1>1, <1>2, Invariance, PTL DEF Spec, ImplementsPromise, Promise!Spec
=============================================================================
