----------------------------- MODULE ViewsProofs -----------------------------
(***************************************************************************)
(* What is read from the rows: the place of those who wait, which every    *)
(* reader is shown alike; the minutes of the week in which a student's     *)
(* sections meet, no two of them together; and the profile page's week,    *)
(* which marks the rows that the API would refuse beside one another.      *)
(*                                                                         *)
(* Definitions that recurse over a sequence are reasoned about by the      *)
(* shortest prefix of which a statement is false.                          *)
(***************************************************************************)
EXTENDS EnrollmentStepProofs, Views, Timetable

-----------------------------------------------------------------------------
(* Sorting a finite set *)

\* o lists U by key, from the lowest.
Sorts(o, U, key) ==
    /\ o \in SetToSeqs(U)
    /\ \A m, n \in DOMAIN o : m < n => key[o[m]] <= key[o[n]]

\* ORDER BY has an answer, also when keys are equal.
LEMMA SortExists ==
    ASSUME NEW S, IsFiniteSet(S), NEW key, \A x \in S : key[x] \in Nat
    PROVE  \E o : Sorts(o, S, key)
<1>. DEFINE Bad == {U \in SUBSET S : ~\E o : Sorts(o, U, key)}
<1>. SUFFICES ASSUME Bad # {} PROVE FALSE
  BY DEF Bad
<1>1. PICK U \in Bad : IsFiniteSet(U) /\ \A V : V \subseteq U /\ V # U => V \notin Bad
  <2>1. Bad \subseteq SUBSET S
    OBVIOUS
  <2>. HIDE DEF Bad
  <2>. QED
    BY <2>1, SmallestSet
<1>2. U # {}
  <2>. DEFINE e == [k \in 1..0 |-> k]
  <2>1. e \in SetToSeqs({}) /\ \A i, j \in DOMAIN e : i < j => key[e[i]] <= key[e[j]]
    BY FS_EmptySet DEF SetToSeqs
  <2>. HIDE DEF e
  <2>. QED
    BY <1>1, <2>1 DEF Sorts
<1>3. PICK m \in U : \A x \in U : key[x] <= key[m]
  <2>. DEFINE K == {key[x] : x \in U}
              f == [x \in U |-> key[x]]
  <2>1. f \in Surjection(U, K)
    <3>1. f \in [U -> K] /\ \A t \in K : \E x \in U : f[x] = t
      OBVIOUS
    <3>. HIDE DEF f, K
    <3>. QED
      BY <3>1 DEF Surjection
  <2>2. IsFiniteSet(K)
    BY ONLY <1>1, <2>1, FS_Surjection
  <2>3. K \subseteq Nat /\ K # {}
    BY <1>1, <1>2
  <2>4. PICK k \in K : \A q \in K : q <= k
    <3>. HIDE DEF K
    <3>. QED
      BY <2>2, <2>3, LargestExists
  <2>. QED
    BY <2>4
<1>4. PICK V : V = U \ {m}
  OBVIOUS
<1>5. PICK o : Sorts(o, V, key)
  BY <1>1, <1>4
<1>. HIDE DEF Bad
<1>6. PICK c \in Nat : c = Cardinality(V) /\ Cardinality(U) = c + 1
  <2>1. IsFiniteSet(V) /\ Cardinality(V) = Cardinality(U) - 1
    BY <1>1, <1>3, <1>4, FS_RemoveElement
  <2>2. Cardinality(V) \in Nat /\ Cardinality(U) \in Nat
    BY <1>1, <2>1, FS_CardinalityType
  <2>. QED
    BY <2>1, <2>2
<1>7. /\ o \in [1..c -> V] /\ \A i, j \in 1..c : i # j => o[i] # o[j]
      /\ \A i, j \in 1..c : i < j => key[o[i]] <= key[o[j]]
  BY <1>5, <1>6 DEF Sorts, SetToSeqs
<1>8. PICK p : p = [k \in 1..(c + 1) |-> IF k = c + 1 THEN m ELSE o[k]]
  OBVIOUS
<1>9. \A i \in 1..(c + 1) : (i = c + 1 /\ p[i] = m) \/ (i \in 1..c /\ p[i] = o[i])
  BY <1>8
<1>10. \A i \in 1..c : o[i] \in U /\ o[i] # m
  BY <1>4, <1>7
<1>11. p \in [1..(c + 1) -> U] /\ DOMAIN p = 1..(c + 1)
  BY <1>8, <1>10
<1>12. \A i, j \in 1..(c + 1) : i # j => p[i] # p[j]
  BY <1>7, <1>9, <1>10
<1>13. p \in SetToSeqs(U)
  BY <1>6, <1>11, <1>12 DEF SetToSeqs
<1>14. \A i, j \in DOMAIN p : i < j => key[p[i]] <= key[p[j]]
  <2>. SUFFICES ASSUME NEW i \in 1..(c + 1), NEW j \in 1..(c + 1), i < j
                PROVE  key[p[i]] <= key[p[j]]
    BY <1>11
  <2>1. i \in 1..c /\ p[i] = o[i] /\ o[i] \in U
    BY <1>9, <1>10
  <2>. QED
    BY <1>3, <1>7, <1>9, <2>1
<1>. QED
  BY <1>1, <1>13, <1>14 DEF Sorts, Bad
-----------------------------------------------------------------------------
(* The places of those who wait *)

\* Those who wait for a section are finitely many, each at a position of its own.
LEMMA WaitingRows ==
    ASSUME IInv, NEW s
    PROVE  /\ Waiting(s) \subseteq Ids /\ IsFiniteSet(Waiting(s))
           /\ \A i \in Waiting(s) : enr[i] \in Row /\ enr[i].pos \in Nat
           /\ s \in Sections => \A i, j \in Waiting(s) : enr[i].pos = enr[j].pos => i = j
<1>1. \A i \in Waiting(s) : enr[i] # Unused /\ i \in Ids /\ enr[i].status = "WAITLISTED"
  BY DEF Waiting, Unused
<1>2. IsFiniteSet(Waiting(s))
  <2>1. Waiting(s) \subseteq {i \in Ids : enr[i] # Unused}
    BY <1>1
  <2>. QED
    BY <2>1, FS_Subset DEF IInv, TablesInv
<1>3. \A i \in Waiting(s) : enr[i] \in Row
  BY <1>1 DEF IInv, TypeOK
<1>4. \A i \in Waiting(s) : enr[i].pos \in Nat
  BY <1>1, <1>3 DEF IInv, TablesInv, WaitlistOrdered, Row
<1>. QED
  BY <1>1, <1>2, <1>3, <1>4 DEF IInv, TablesInv, WaitlistOrdered

\* The list of a section has each waiting row once, in the order of the positions.
LEMMA ListIsOrdered ==
    ASSUME IInv, NEW s \in Sections
    PROVE  /\ Cardinality(Waiting(s)) \in Nat
           /\ ListForSection(s) \in [1..Cardinality(Waiting(s)) -> Waiting(s)]
           /\ \A m, n \in 1..Cardinality(Waiting(s)) :
                 m < n => enr[ListForSection(s)[m]].pos < enr[ListForSection(s)[n]].pos
           /\ \A i \in Waiting(s) :
                 \E n \in 1..Cardinality(Waiting(s)) : ListForSection(s)[n] = i
<1>1. PICK W : W = Waiting(s)
  OBVIOUS
<1>2. /\ IsFiniteSet(W) /\ \A i \in W : enr[i].pos \in Nat
      /\ \A i, j \in W : enr[i].pos = enr[j].pos => i = j
  BY <1>1, WaitingRows
<1>3. PICK key : key = [i \in W |-> enr[i].pos]
  OBVIOUS
<1>4. \E o \in SetToSeqs(W) : \A m, n \in DOMAIN o : m < n => enr[o[m]].pos <= enr[o[n]].pos
  <2>1. PICK o : Sorts(o, W, key)
    BY <1>2, <1>3, SortExists
  <2>2. \A m \in DOMAIN o : o[m] \in W
    BY <2>1 DEF Sorts, SetToSeqs
  <2>. QED
    BY <1>3, <2>1, <2>2 DEF Sorts
<1>5. PICK o : o = ListForSection(s)
  OBVIOUS
<1>6. o \in SetToSeqs(W) /\ \A m, n \in DOMAIN o : m < n => enr[o[m]].pos <= enr[o[n]].pos
  BY <1>1, <1>4, <1>5 DEF ListForSection, ByPosition
<1>7. PICK c \in Nat : c = Cardinality(W)
  BY <1>2, FS_CardinalityType
<1>8. o \in [1..c -> W] /\ \A m, n \in 1..c : m # n => o[m] # o[n]
  BY <1>6, <1>7 DEF SetToSeqs
<1>9. \A m, n \in 1..c : m < n => enr[o[m]].pos < enr[o[n]].pos
  <2>1. \A m \in 1..c : o[m] \in W /\ enr[o[m]].pos \in Nat
    BY <1>2, <1>8
  <2>. QED
    BY <1>2, <1>6, <1>8, <2>1
<1>10. \A i \in W : \E n \in 1..c : o[n] = i
  <2>1. o \in Injection(1..c, W)
    BY <1>8 DEF Injection, IsInjective
  <2>2. Cardinality(1..c) = c
    BY FS_Interval
  <2>3. o \in Surjection(1..c, W)
    BY <1>2, <1>7, <2>1, <2>2, FS_Injection
  <2>. QED
    BY <2>3 DEF Surjection
<1>. QED
  BY <1>1, <1>5, <1>7, <1>8, <1>9, <1>10

\* Counting the positions up to a row's gives its place in the list.
LEMMA CountIsPlace ==
    ASSUME IInv, NEW s \in Sections, NEW n \in 1..Cardinality(Waiting(s))
    PROVE  ComputeRank(s, enr[ListForSection(s)[n]].pos) = n
<1>1. PICK W : W = Waiting(s)
  OBVIOUS
<1>2. PICK o : o = ListForSection(s)
  OBVIOUS
<1>3. PICK c \in Nat : c = Cardinality(Waiting(s))
  BY ListIsOrdered
<1>4. /\ o \in [1..c -> W] /\ n \in 1..c
      /\ \A k, m \in 1..c : k < m => enr[o[k]].pos < enr[o[m]].pos
      /\ \A i \in W : \E k \in 1..c : o[k] = i
  BY <1>1, <1>2, <1>3, ListIsOrdered
<1>5. PICK p : p = enr[o[n]].pos
  OBVIOUS
<1>6. PICK T : T = {i \in W : enr[i].pos <= p}
  OBVIOUS
<1>7. \A k \in 1..c : enr[o[k]].pos \in Nat /\ (k <= n <=> enr[o[k]].pos <= p)
  <2>1. \A k \in 1..c : enr[o[k]].pos \in Nat
    BY <1>1, <1>4, WaitingRows
  <2>. QED
    BY <1>4, <1>5, <2>1
<1>8. PICK f : f = [k \in 1..n |-> o[k]]
  OBVIOUS
<1>9. f \in [1..n -> T] /\ \A i \in T : \E k \in 1..n : f[k] = i
  BY <1>4, <1>6, <1>7, <1>8
<1>10. \A k, m \in 1..n : f[k] = f[m] => k = m
  <2>1. \A k, m \in 1..c : o[k] = o[m] => k = m
    BY <1>4, <1>7
  <2>. QED
    BY <1>4, <1>8, <2>1
<1>11. f \in Bijection(1..n, T)
  BY <1>9, <1>10 DEF Bijection, Injection, Surjection, IsInjective
<1>12. Cardinality(T) = n
  BY <1>4, <1>11, FS_CountingElements DEF ExistsBijection
<1>. QED
  BY <1>1, <1>2, <1>5, <1>6, <1>12 DEF ComputeRank

\* row_number() gives a waiting row its place in the list, whatever other rows the
\* query is about.
LEMMA NumberIsPlace ==
    ASSUME IInv, NEW s \in Sections, NEW n \in 1..Cardinality(Waiting(s)),
           NEW R, ListForSection(s)[n] \in R
    PROVE  DOMAIN ComputeRanks(R) = R /\ ComputeRanks(R)[ListForSection(s)[n]] = n
<1>1. PICK o : o = ListForSection(s)
  OBVIOUS
<1>2. PICK c \in Nat : c = Cardinality(Waiting(s))
  BY ListIsOrdered
<1>3. /\ o \in [1..c -> Waiting(s)] /\ n \in 1..c
      /\ \A k, m \in 1..c : k < m => enr[o[k]].pos < enr[o[m]].pos
  BY <1>1, <1>2, ListIsOrdered
<1>4. enr[o[n]].section = s /\ o[n] \in R /\ DOMAIN o = 1..c
  BY <1>1, <1>3 DEF Waiting
<1>5. \A k \in 1..c : enr[o[k]].pos = enr[o[n]].pos <=> k = n
  <2>1. \A k \in 1..c : enr[o[k]].pos \in Nat
    BY <1>3, WaitingRows
  <2>. QED
    BY <1>3, <2>1
<1>6. {k \in DOMAIN o : enr[o[k]].pos = enr[o[n]].pos} = {n}
  BY <1>3, <1>4, <1>5
<1>7. (CHOOSE k \in {n} : \A m \in {n} : m <= k) = n
  BY <1>3
<1>. QED
  BY <1>1, <1>4, <1>6, <1>7 DEF ComputeRanks, ListForSection

\* A row of the list is a waiting row of a student, and that student's only active
\* row of the section.
LEMMA ListedRow ==
    ASSUME IInv, NEW s \in Sections, NEW n \in 1..Cardinality(Waiting(s)),
           NEW i, i = ListForSection(s)[n]
    PROVE  /\ i \in Ids /\ enr[i] # Unused /\ enr[i].section = s /\ enr[i].status = "WAITLISTED"
           /\ enr[i].student \in Students
           /\ ActiveIn(enr[i].student, s) = {i} /\ i \notin Seated(s)
<1>1. i \in Waiting(s)
  BY ListIsOrdered
<1>2. /\ i \in Ids /\ enr[i] # Unused /\ enr[i].section = s /\ enr[i].status = "WAITLISTED"
      /\ enr[i].student \in Students
  BY <1>1, WaitingRows DEF Waiting, Unused, Row
<1>3. i \in ActiveIn(enr[i].student, s)
  BY <1>2 DEF ActiveIn, Active, ActiveStatuses
<1>4. ActiveIn(enr[i].student, s) = {i}
  BY <1>2, <1>3 DEF IInv, TablesInv, OneActiveRow
<1>. QED
  BY <1>2, <1>4 DEF Seated

\* The student's own list shows the place.
LEMMA OwnListShowsPlace ==
    ASSUME IInv, NEW s \in Sections, NEW n \in 1..Cardinality(Waiting(s)),
           NEW i, i = ListForSection(s)[n]
    PROVE  ListMine(enr[i].student)[i].rank = n
<1>1. PICK u : u = enr[i].student
  OBVIOUS
<1>2. PICK rows : rows = {j \in Ids : enr[j] # Unused /\ enr[j].student = u}
  OBVIOUS
<1>3. PICK R : R = {j \in rows : enr[j].status = "WAITLISTED"}
  OBVIOUS
<1>4. i \in rows /\ i \in R
  BY <1>1, <1>2, <1>3, ListedRow
<1>5. DOMAIN ComputeRanks(R) = R /\ ComputeRanks(R)[i] = n
  BY <1>4, NumberIsPlace
<1>6. ListMine(u) =
        [j \in rows |-> [status |-> enr[j].status,
                         rank |-> IF j \in DOMAIN ComputeRanks(R) THEN ComputeRanks(R)[j]
                                  ELSE None]]
  BY <1>2, <1>3 DEF ListMine
<1>. QED
  BY <1>1, <1>4, <1>5, <1>6

\* The page of the course shows the place and how many wait.
LEMMA CoursePageShowsPlace ==
    ASSUME IInv, NEW s \in Sections, NEW n \in 1..Cardinality(Waiting(s)),
           NEW i, i = ListForSection(s)[n]
    PROVE  /\ GetCourse(CourseOf[s], enr[i].student)[s].viewerEnrollment.rank = n
           /\ GetCourse(CourseOf[s], enr[i].student)[s].waitlistCount = Cardinality(Waiting(s))
<1>1. PICK u : u = enr[i].student
  OBVIOUS
<1>2. PICK S : S = {r \in Sections : CourseOf[r] = CourseOf[s]}
  OBVIOUS
<1>3. PICK best : best = UNION {Best(u, r) : r \in S}
  OBVIOUS
<1>4. Best(u, s) = {i}
  BY <1>1, ListedRow DEF Best
<1>5. \A r : \A j \in Best(u, r) : enr[j].section = r
  BY DEF Best, ActiveIn
<1>6. i \in best /\ enr[i].section = s /\ \A j \in best : enr[j].section = s => j = i
  BY <1>2, <1>3, <1>4, <1>5, ListedRow
<1>7. PICK R : R = {j \in best : enr[j].status = "WAITLISTED"}
  OBVIOUS
<1>8. DOMAIN ComputeRanks(R) = R /\ ComputeRanks(R)[i] = n /\ i \in R
  BY <1>6, <1>7, ListedRow, NumberIsPlace
<1>9. PICK viewer : viewer = ResolveViewerEnrollments(u, S)
  OBVIOUS
<1>10. s \in DOMAIN viewer /\ viewer[s].rank = n
  <2>1. (CHOOSE j \in best : enr[j].section = s) = i
    BY <1>6
  <2>2. viewer =
          [r \in {enr[j].section : j \in best} |->
             [id |-> CHOOSE j \in best : enr[j].section = r,
              status |-> enr[CHOOSE j \in best : enr[j].section = r].status,
              rank |-> IF (CHOOSE j \in best : enr[j].section = r) \in DOMAIN ComputeRanks(R)
                       THEN ComputeRanks(R)[CHOOSE j \in best : enr[j].section = r]
                       ELSE None]]
    BY <1>3, <1>7, <1>9 DEF ResolveViewerEnrollments
  <2>. QED
    BY <1>6, <1>8, <2>1, <2>2
<1>11. GetCourse(CourseOf[s], u) =
         [r \in S |->
            [seatsAvailable |-> IF Free(r) > 0 THEN Free(r) ELSE 0,
             waitlistCount |-> Cardinality(Waiting(r)),
             viewerEnrollment |-> IF r \in DOMAIN viewer THEN viewer[r] ELSE None]]
  BY <1>2, <1>9 DEF GetCourse
<1>. QED
  BY <1>1, <1>2, <1>10, <1>11

\* What the guards of the route make of a request for a used row.
LEMMA GuardsAnswer ==
    ASSUME NEW i, enr[i] # Unused, enr[i].student # None
    PROVE  /\ \A user : GetOne(user, i) =
                 IF ~RolesGuard(user, {"STUDENT", "ADVISOR", "ADMIN"}) THEN "forbidden"
                 ELSE IF EnrollmentOwnershipGuard(user, i) # "pass"
                      THEN EnrollmentOwnershipGuard(user, i) ELSE FindOne(i)
           /\ \A u : EnrollmentOwnershipGuard(Student(u), i) =
                        IF enr[i].student = u THEN "pass" ELSE "forbidden"
           /\ \A Q : EnrollmentOwnershipGuard(Advisor(Q), i) =
                        IF enr[i].student \in Q THEN "pass" ELSE "not found"
           /\ EnrollmentOwnershipGuard(Admin, i) = "pass"
           /\ \A u : RolesGuard(Student(u), {"STUDENT", "ADVISOR", "ADMIN"})
           /\ \A Q : RolesGuard(Advisor(Q), {"STUDENT", "ADVISOR", "ADMIN"})
           /\ RolesGuard(Admin, {"STUDENT", "ADVISOR", "ADMIN"})
<1>1. \A user : GetOne(user, i) =
         IF ~RolesGuard(user, {"STUDENT", "ADVISOR", "ADMIN"}) THEN "forbidden"
         ELSE IF EnrollmentOwnershipGuard(user, i) # "pass"
              THEN EnrollmentOwnershipGuard(user, i) ELSE FindOne(i)
  BY DEF GetOne
<1>2. ASSUME NEW u PROVE EnrollmentOwnershipGuard(Student(u), i) =
                            IF enr[i].student = u THEN "pass" ELSE "forbidden"
  BY DEF EnrollmentOwnershipGuard, Student
<1>3. ASSUME NEW Q PROVE EnrollmentOwnershipGuard(Advisor(Q), i) =
                            IF enr[i].student \in Q THEN "pass" ELSE "not found"
  BY DEF EnrollmentOwnershipGuard, Advisor
<1>4. EnrollmentOwnershipGuard(Admin, i) = "pass"
  BY DEF EnrollmentOwnershipGuard, Admin
<1>5. /\ \A u : RolesGuard(Student(u), {"STUDENT", "ADVISOR", "ADMIN"})
      /\ \A Q : RolesGuard(Advisor(Q), {"STUDENT", "ADVISOR", "ADMIN"})
      /\ RolesGuard(Admin, {"STUDENT", "ADVISOR", "ADMIN"})
  BY DEF RolesGuard, Student, Advisor, Admin
<1>. QED
  BY <1>1, <1>2, <1>3, <1>4, <1>5

\* The row itself shows the place to whoever may see it: its student, an advisor of
\* the student, an administrator.
LEMMA ReadersSeePlace ==
    ASSUME IInv, NEW s \in Sections, NEW n \in 1..Cardinality(Waiting(s)),
           NEW i, i = ListForSection(s)[n]
    PROVE  /\ GetOne(Student(enr[i].student), i).rank = n
           /\ GetOne(Advisor(Students), i).rank = n
           /\ GetOne(Admin, i).rank = n
<1>1. FindOne(i).rank = n
  BY ListedRow, CountIsPlace DEF FindOne
<1>2. enr[i] # Unused /\ enr[i].student \in Students /\ enr[i].student # None
  BY ListedRow, NoneApart
<1>. QED
  BY <1>1, <1>2, GuardsAnswer

\* Another student is refused, and another advisor is not told that the row exists.
LEMMA OthersAreRefused ==
    ASSUME IInv, NEW s \in Sections, NEW n \in 1..Cardinality(Waiting(s)),
           NEW i, i = ListForSection(s)[n]
    PROVE  /\ \A w \in Students \ {enr[i].student} : GetOne(Student(w), i) = "forbidden"
           /\ GetOne(Advisor({}), i) = "not found"
<1>1. enr[i] # Unused /\ enr[i].student \in Students /\ enr[i].student # None
  BY ListedRow, NoneApart
<1>2. \A w \in Students \ {enr[i].student} : GetOne(Student(w), i) = "forbidden"
  <2>. SUFFICES ASSUME NEW w \in Students \ {enr[i].student}
                PROVE  GetOne(Student(w), i) = "forbidden"
    OBVIOUS
  <2>1. EnrollmentOwnershipGuard(Student(w), i) = "forbidden"
    BY <1>1, GuardsAnswer
  <2>. QED
    BY <1>1, <2>1, GuardsAnswer
<1>3. GetOne(Advisor({}), i) = "not found"
  <2>1. EnrollmentOwnershipGuard(Advisor({}), i) = "not found"
    BY <1>1, GuardsAnswer
  <2>. QED
    BY <1>1, <2>1, GuardsAnswer
<1>. QED
  BY <1>2, <1>3

\* What TLC checks for three waiting students: whoever asks for the place of a
\* waiting row, by whatever route, gets its place in the staff's list, for any number
\* of sections, students and rows.
THEOREM RanksCorrect == Spec => []RanksAgree
<1>1. IInv => RanksAgree
  <2>. SUFFICES ASSUME IInv, NEW s \in Sections, NEW n \in DOMAIN ListForSection(s),
                       NEW i, i = ListForSection(s)[n]
                PROVE  ShownAt(i, s, n)
    BY DEF RanksAgree
  <2>1. /\ n \in 1..Cardinality(Waiting(s))
        /\ Len(ListForSection(s)) = Cardinality(Waiting(s))
    BY ListIsOrdered
  <2>2. ListMine(enr[i].student)[i].rank = n
    BY <2>1, OwnListShowsPlace
  <2>3. /\ GetCourse(CourseOf[s], enr[i].student)[s].viewerEnrollment.rank = n
        /\ GetCourse(CourseOf[s], enr[i].student)[s].waitlistCount = Cardinality(Waiting(s))
    BY <2>1, CoursePageShowsPlace
  <2>4. /\ GetOne(Student(enr[i].student), i).rank = n
        /\ GetOne(Advisor(Students), i).rank = n
        /\ GetOne(Admin, i).rank = n
    BY <2>1, ReadersSeePlace
  <2>5. /\ \A w \in Students \ {enr[i].student} : GetOne(Student(w), i) = "forbidden"
        /\ GetOne(Advisor({}), i) = "not found"
    BY <2>1, OthersAreRefused
  <2>. QED
    BY <2>1, <2>2, <2>3, <2>4, <2>5, Zenon DEF ShownAt
<1>. QED
  BY <1>1, Invariance, PTL
-----------------------------------------------------------------------------
(* Meeting times *)

\* A written time and the same time by the clock.
LEMMA ClockTimes ==
    ASSUME NEW x \in (1..12) \X (0..59)
    PROVE  /\ ParseTime(x) \in Nat /\ 60 <= ParseTime(x) /\ ParseTime(x) < 780
           /\ x[1] < 8 => ParseTime(x) < 480 /\ GridTime(x) = ParseTime(x) + 720
           /\ x[1] >= 8 => GridTime(x) = ParseTime(x)
<1>1. x[1] \in 1..12 /\ x[2] \in 0..59
  OBVIOUS
<1>. QED
  BY <1>1 DEF ParseTime, GridTime

\* Patterns that meet at one minute collide for the API's check.
LEMMA MeetingCollides ==
    ASSUME NEW p, NEW q, ReadAlike(p), ReadAlike(q), Meets(p) \cap Meets(q) # {}
    PROVE  HasTimeConflict(p, q)
<1>1. PICK w : w \in Meets(p) /\ w \in Meets(q)
  OBVIOUS
<1>. DEFINE d == w[1]
            m == w[2]
<1>2. /\ d \in p.days /\ d \in q.days /\ m \in 0..1439
      /\ GridTime(p.from) <= m /\ m < GridTime(p.to)
      /\ GridTime(q.from) <= m /\ m < GridTime(q.to)
  BY <1>1 DEF Meets
<1>3. /\ {p.from, p.to, q.from, q.to} \subseteq (1..12) \X (0..59)
      /\ d \in Letters
      /\ p.from[1] < 8 <=> p.to[1] < 8
      /\ q.from[1] < 8 <=> q.to[1] < 8
  BY <1>2 DEF ReadAlike
<1>4. PICK a, b, e, f : /\ a = p.from /\ b = p.to /\ e = q.from /\ f = q.to
  OBVIOUS
<1>5. /\ a[1] \in 1..12 /\ b[1] \in 1..12 /\ e[1] \in 1..12 /\ f[1] \in 1..12
  BY <1>3, <1>4
<1>6. ParseTime(a) < ParseTime(f) /\ ParseTime(e) < ParseTime(b)
  <2>1. /\ GridTime(a) <= m /\ m < GridTime(b) /\ GridTime(e) <= m /\ m < GridTime(f)
        /\ m \in Nat
        /\ a[1] < 8 <=> b[1] < 8
        /\ e[1] < 8 <=> f[1] < 8
    <3>1. m \in Nat
      <4>. HIDE DEF m
      <4>. QED
        BY ONLY <1>2
    <3>. HIDE DEF m
    <3>2. GridTime(a) <= m /\ m < GridTime(b) /\ GridTime(e) <= m /\ m < GridTime(f)
      BY ONLY <1>2, <1>4
    <3>3. (a[1] < 8 <=> b[1] < 8) /\ (e[1] < 8 <=> f[1] < 8)
      BY ONLY <1>3, <1>4
    <3>. QED
      BY ONLY <3>1, <3>2, <3>3
  <2>2. /\ a \in (1..12) \X (0..59) /\ b \in (1..12) \X (0..59)
        /\ e \in (1..12) \X (0..59) /\ f \in (1..12) \X (0..59)
    BY <1>3, <1>4
  <2>. DEFINE Early(k) == k \in Nat /\ 60 <= k /\ k < 780
  <2>3. Early(ParseTime(a)) /\ Early(ParseTime(b)) /\ Early(ParseTime(e)) /\ Early(ParseTime(f))
    <3>1. Early(ParseTime(a))
      BY <2>2, ClockTimes
    <3>2. Early(ParseTime(b))
      BY <2>2, ClockTimes
    <3>3. Early(ParseTime(e))
      BY <2>2, ClockTimes
    <3>4. Early(ParseTime(f))
      BY <2>2, ClockTimes
    <3>. QED
      BY <3>1, <3>2, <3>3, <3>4
  <2>4. CASE a[1] < 8
    <3>1. GridTime(a) = ParseTime(a) + 720 /\ GridTime(b) = ParseTime(b) + 720
      BY <2>1, <2>2, <2>4, ClockTimes
    <3>2. e[1] < 8
      <4>. SUFFICES ASSUME e[1] >= 8 PROVE FALSE
        BY <1>5
      <4>1. f[1] >= 8
        BY <2>1, <1>5
      <4>2. GridTime(e) = ParseTime(e) /\ GridTime(f) = ParseTime(f)
        BY <2>2, <4>1, ClockTimes
      <4>. QED
        BY <2>1, <2>3, <3>1, <4>2
    <3>3. GridTime(e) = ParseTime(e) + 720 /\ GridTime(f) = ParseTime(f) + 720
      BY <2>1, <2>2, <3>2, ClockTimes
    <3>. QED
      BY <2>1, <2>3, <3>1, <3>3
  <2>5. CASE a[1] >= 8
    <3>1. b[1] >= 8
      BY <2>1, <2>5, <1>5
    <3>2. GridTime(a) = ParseTime(a) /\ GridTime(b) = ParseTime(b)
      BY <2>2, <2>5, <3>1, ClockTimes
    <3>3. e[1] >= 8
      <4>. SUFFICES ASSUME e[1] < 8 PROVE FALSE
        BY <1>5
      <4>1. GridTime(e) = ParseTime(e) + 720 /\ GridTime(f) = ParseTime(f) + 720
        BY <2>1, <2>2, ClockTimes
      <4>. QED
        BY <2>1, <2>3, <3>2, <4>1
    <3>4. f[1] >= 8
      BY <2>1, <3>3, <1>5
    <3>5. GridTime(e) = ParseTime(e) /\ GridTime(f) = ParseTime(f)
      BY <2>2, <3>3, <3>4, ClockTimes
    <3>. QED
      BY <2>1, <2>3, <3>2, <3>5
  <2>. QED
    BY <2>4, <2>5, <1>5
<1>7. /\ [day |-> d, startMin |-> ParseTime(a), endMin |-> ParseTime(b)] \in ParseMeetingPattern(p)
      /\ [day |-> d, startMin |-> ParseTime(e), endMin |-> ParseTime(f)] \in ParseMeetingPattern(q)
  BY <1>2, <1>3, <1>4 DEF ParseMeetingPattern
<1>. QED
  BY <1>6, <1>7 DEF HasTimeConflict, SlotsOverlap

\* It does not matter which of two patterns the check is given first.
LEMMA ConflictIsMutual ==
    ASSUME NEW p, NEW q, HasTimeConflict(p, q)
    PROVE  HasTimeConflict(q, p)
BY DEF HasTimeConflict, SlotsOverlap

\* No two active rows of a student share a minute of the week, by the clock, when
\* their patterns are ones that both read alike: hasTimeConflict compares minutes
\* of the written hours, and the check is made in enroll, swap and at a promotion.
THEOREM MeetingTimesCorrect == Spec /\ []OneAtATime => []NoOverlappingRows
<1>1. IInv /\ NoOverlap => NoOverlappingRows
  <2>. SUFFICES ASSUME IInv, NoOverlap, NEW i \in Ids, NEW j \in Ids,
                       {enr[i].status, enr[j].status} \subseteq ActiveStatuses,
                       enr[i].student = enr[j].student, enr[i].section # enr[j].section,
                       ReadAlike(Meeting[enr[i].section]), ReadAlike(Meeting[enr[j].section]),
                       Meets(Meeting[enr[i].section]) \cap Meets(Meeting[enr[j].section]) # {}
                PROVE  FALSE
    BY DEF NoOverlappingRows
  <2>1. HasTimeConflict(Meeting[enr[i].section], Meeting[enr[j].section])
    BY MeetingCollides
  <2>2. HasTimeConflict(Meeting[enr[j].section], Meeting[enr[i].section])
    BY <2>1, ConflictIsMutual
  <2>3. PICK u : u = enr[i].student
    OBVIOUS
  <2>4. u \in Students /\ enr[i].section \in Sections /\ enr[j].section \in Sections
    <3>1. enr[i] \in Row /\ enr[j] \in Row
      BY DEF IInv, TypeOK, Unused, ActiveStatuses
    <3>. QED
      BY <3>1, <2>3 DEF Row
  <2>5. i \in Active(u) /\ j \in Active(u)
    BY <2>3 DEF Active
  <2>6. /\ <<enr[i].section, enr[j].section>> \in Overlap
        /\ <<enr[j].section, enr[i].section>> \in Overlap
    BY <2>1, <2>2, <2>4, TimetableAssumption DEF Collisions
  <2>. QED
    BY <2>4, <2>5, <2>6 DEF NoOverlap
<1>. QED
  BY <1>1, Invariance, ScheduleCorrect, PTL
-----------------------------------------------------------------------------
(* The blocks of a day: columns and groups *)

\* A set of numbers that is not empty has a smallest.
LEMMA LeastExists ==
    ASSUME NEW S, S \subseteq Nat, S # {}
    PROVE  \E m \in S : \A q \in S : m <= q
<1>1. PICK n \in S : TRUE
  OBVIOUS
<1>2. PICK F : F = {k \in 0..n : n - k \in S}
  OBVIOUS
<1>3. F \subseteq Nat /\ 0 \in F
  BY <1>1, <1>2
<1>4. IsFiniteSet(F)
  <2>1. F \subseteq 0..n
    BY <1>2
  <2>2. IsFiniteSet(0..n)
    BY <1>1, FS_Interval
  <2>. QED
    BY <2>1, <2>2, FS_Subset
<1>5. PICK k \in F : \A q \in F : q <= k
  BY <1>3, <1>4, LargestExists
<1>6. n - k \in S /\ n \in Nat /\ k \in 0..n
  BY <1>1, <1>2, <1>5
<1>7. ASSUME NEW q \in S PROVE n - k <= q
  <2>1. q \in Nat
    OBVIOUS
  <2>2. q <= n => n - q \in F
    BY <1>1, <1>2, <2>1
  <2>. QED
    BY <1>5, <1>6, <2>1, <2>2
<1>. QED
  BY <1>6, <1>7

Slot == [row : Nat, startMin : Nat, endMin : Nat]

\* The recursion of assignColumns has an answer at every place of a list.
LEMMA ColumnsExist ==
    ASSUME NEW g, NEW k \in Nat
    PROVE  \E f : f = [n \in 0..k |-> IF n = 0 THEN <<>> ELSE PlaceSlot(f[n - 1], g[n])]
<1>. DEFINE Good(m) == \E f : f = [n \in 0..m |-> IF n = 0 THEN <<>> ELSE PlaceSlot(f[n - 1], g[n])]
            Bad == {m \in Nat : ~Good(m)}
<1>. SUFFICES ASSUME Bad # {} PROVE FALSE
  OBVIOUS
<1>1. PICK m \in Bad : \A q \in Bad : m <= q
  <2>. HIDE DEF Bad
  <2>1. Bad \subseteq Nat
    BY DEF Bad
  <2>. QED
    BY <2>1, LeastExists
<1>2. m # 0
  <2>1. PICK f : f = [n \in 0..0 |-> <<>>]
    OBVIOUS
  <2>2. f = [n \in 0..0 |-> IF n = 0 THEN <<>> ELSE PlaceSlot(f[n - 1], g[n])]
    BY <2>1
  <2>. QED
    BY <2>2
<1>3. m - 1 \in Nat /\ m \in Nat /\ m - 1 \notin Bad
  BY <1>1, <1>2
<1>4. PICK f : f = [n \in 0..(m - 1) |-> IF n = 0 THEN <<>> ELSE PlaceSlot(f[n - 1], g[n])]
  BY <1>3
<1>5. PICK h : h = [n \in 0..m |-> IF n = m THEN PlaceSlot(f[m - 1], g[m]) ELSE f[n]]
  OBVIOUS
<1>6. h = [n \in 0..m |-> IF n = 0 THEN <<>> ELSE PlaceSlot(h[n - 1], g[n])]
  <2>1. ASSUME NEW n \in 0..m
        PROVE  h[n] = IF n = 0 THEN <<>> ELSE PlaceSlot(h[n - 1], g[n])
    <3>1. CASE n = m
      <4>1. h[m - 1] = f[m - 1]
        BY <1>3, <1>5
      <4>. QED
        BY <1>2, <1>3, <1>5, <3>1, <4>1
    <3>2. CASE n # m /\ n # 0
      <4>1. n - 1 \in 0..m /\ n - 1 # m /\ n \in 0..(m - 1)
        BY <1>3, <3>2
      <4>2. h[n - 1] = f[n - 1] /\ h[n] = f[n]
        BY <1>5, <3>2, <4>1
      <4>. QED
        BY <1>4, <3>2, <4>1, <4>2
    <3>3. CASE n # m /\ n = 0
      BY <1>3, <1>4, <1>5, <3>3
    <3>. QED
      BY <3>1, <3>2, <3>3
  <2>2. DOMAIN h = 0..m /\ h = [n \in 0..m |-> h[n]]
    BY <1>5
  <2>. QED
    BY <2>1, <2>2
<1>. QED
  BY <1>1, <1>6

\* A slot goes into one of the columns, or opens one.
LEMMA PlaceKeepsColumns ==
    ASSUME NEW cols \in Seq(Nat), NEW slot \in Slot
    PROVE  /\ PlaceSlot(cols, slot) \in Seq(Nat)
           /\ Len(PlaceSlot(cols, slot)) >= Len(cols)
<1>. DEFINE fits == {i \in DOMAIN cols : cols[i] <= slot.startMin}
            first == CHOOSE i \in fits : \A j \in fits : i <= j
<1>0. slot.endMin \in Nat /\ Len(cols) \in Nat
  BY DEF Slot
<1>1. CASE fits = {}
  <2>1. PlaceSlot(cols, slot) = Append(cols, slot.endMin)
    BY <1>1 DEF PlaceSlot
  <2>. QED
    BY <1>0, <2>1
<1>2. CASE fits # {}
  <2>1. PlaceSlot(cols, slot) = [cols EXCEPT ![first] = slot.endMin]
    BY <1>2 DEF PlaceSlot
  <2>2. cols \in [1..Len(cols) -> Nat]
    OBVIOUS
  <2>. HIDE DEF first
  <2>3. PICK h : h = [cols EXCEPT ![first] = slot.endMin]
    OBVIOUS
  <2>4. h \in [1..Len(cols) -> Nat]
    BY <1>0, <2>2, <2>3
  <2>5. h \in Seq(Nat) /\ Len(h) = Len(cols)
    BY <1>0, <2>4
  <2>. QED
    BY <1>0, <2>1, <2>3, <2>5
<1>. QED
  BY <1>1, <1>2

\* A group of one block has one column; a second block that starts before the first
\* has ended has a column of its own, and no later block takes it away.
LEMMA ColumnsOfGroup ==
    ASSUME NEW g \in Seq(Slot)
    PROVE  /\ Len(g) = 0 => Len(Columns(g)) = 0
           /\ Len(g) = 1 => Len(Columns(g)) = 1
           /\ Len(g) > 1 /\ g[2].startMin < g[1].endMin => Len(Columns(g)) > 1
<1>. DEFINE RHS(f) == [n \in 0..Len(g) |-> IF n = 0 THEN <<>> ELSE PlaceSlot(f[n - 1], g[n])]
<1>0. Len(g) \in Nat /\ \A n \in 1..Len(g) : g[n] \in Slot
  OBVIOUS
<1>1. PICK cols : Columns(g) = cols[Len(g)] /\ cols = RHS(cols)
  <2>. DEFINE c == CHOOSE f : f = RHS(f)
  <2>1. Columns(g) = c[Len(g)]
    BY DEF Columns
  <2>2. \E f : f = RHS(f)
    BY <1>0, ColumnsExist
  <2>3. c = RHS(c)
    <3>. HIDE DEF RHS
    <3>. QED
      BY <2>2
  <2>. QED
    BY <2>1, <2>3
<1>2. cols[0] = <<>> /\ \A n \in 1..Len(g) : cols[n] = PlaceSlot(cols[n - 1], g[n])
  BY <1>0, <1>1
<1>. HIDE DEF RHS
<1>3. ASSUME NEW n \in 0..Len(g) PROVE cols[n] \in Seq(Nat)
  <2>. DEFINE Bad == {m \in 0..Len(g) : cols[m] \notin Seq(Nat)}
  <2>. SUFFICES ASSUME Bad # {} PROVE FALSE
    OBVIOUS
  <2>1. PICK m \in Bad : \A q \in Bad : m <= q
    <3>1. Bad \subseteq Nat
      OBVIOUS
    <3>. HIDE DEF Bad
    <3>. QED
      BY <3>1, LeastExists
  <2>2. m # 0
    <3>1. cols[0] \in Seq(Nat)
      BY <1>2
    <3>2. cols[m] \notin Seq(Nat)
      OBVIOUS
    <3>. QED
      BY ONLY <3>1, <3>2
  <2>3. m - 1 \in 0..Len(g) /\ m \in 1..Len(g) /\ cols[m - 1] \in Seq(Nat)
    BY <1>0, <2>1, <2>2
  <2>4. PlaceSlot(cols[m - 1], g[m]) \in Seq(Nat)
    BY <1>0, <2>3, PlaceKeepsColumns
  <2>5. cols[m] = PlaceSlot(cols[m - 1], g[m])
    BY <1>2, <2>3
  <2>. QED
    BY <2>1, <2>4, <2>5
<1>4. Len(g) > 0 => cols[1] = <<g[1].endMin>>
  <2>. SUFFICES ASSUME Len(g) > 0 PROVE cols[1] = <<g[1].endMin>>
    OBVIOUS
  <2>1. cols[1] = PlaceSlot(<<>>, g[1])
    BY <1>0, <1>2
  <2>2. PlaceSlot(<<>>, g[1]) = Append(<<>>, g[1].endMin)
    <3>1. {i \in DOMAIN <<>> : <<>>[i] <= g[1].startMin} = {}
      OBVIOUS
    <3>. QED
      BY <3>1 DEF PlaceSlot
  <2>. QED
    BY <2>1, <2>2
<1>5. ASSUME Len(g) > 1, g[2].startMin < g[1].endMin
      PROVE  Len(cols[2]) = 2
  <2>1. cols[2] = PlaceSlot(<<g[1].endMin>>, g[2]) /\ g[1] \in Slot /\ g[2] \in Slot
    BY <1>0, <1>2, <1>4, <1>5
  <2>2. PICK c : c = <<g[1].endMin>>
    OBVIOUS
  <2>3. DOMAIN c = {1} /\ c[1] = g[1].endMin /\ Len(c) = 1 /\ c \in Seq(Nat)
    BY <2>1, <2>2 DEF Slot
  <2>4. {i \in DOMAIN c : c[i] <= g[2].startMin} = {}
    BY <1>5, <2>1, <2>3 DEF Slot
  <2>5. PlaceSlot(c, g[2]) = Append(c, g[2].endMin)
    BY <2>4 DEF PlaceSlot
  <2>. QED
    BY <2>1, <2>2, <2>3, <2>5
<1>6. ASSUME Len(g) > 1, g[2].startMin < g[1].endMin, NEW n \in 2..Len(g)
      PROVE  Len(cols[n]) > 1
  <2>. DEFINE Bad == {m \in 2..Len(g) : ~(Len(cols[m]) > 1)}
  <2>. SUFFICES ASSUME Bad # {} PROVE FALSE
    OBVIOUS
  <2>1. PICK m \in Bad : \A q \in Bad : m <= q
    <3>1. Bad \subseteq Nat
      OBVIOUS
    <3>. HIDE DEF Bad
    <3>. QED
      BY <3>1, LeastExists
  <2>2. m # 2
    <3>1. Len(cols[2]) > 1
      <4>1. Len(cols[2]) = 2
        BY ONLY <1>5, <1>6
      <4>. QED
        BY ONLY <4>1
    <3>2. ~(Len(cols[m]) > 1)
      OBVIOUS
    <3>. QED
      BY ONLY <3>1, <3>2
  <2>3. m - 1 \in 2..Len(g) /\ m \in 1..Len(g) /\ Len(cols[m - 1]) > 1 /\ cols[m - 1] \in Seq(Nat)
    BY <1>0, <1>3, <2>1, <2>2
  <2>4. PICK c, d : c = cols[m - 1] /\ d = PlaceSlot(c, g[m])
    OBVIOUS
  <2>5. Len(d) >= Len(c) /\ d \in Seq(Nat) /\ Len(c) > 1 /\ c \in Seq(Nat)
    BY <1>0, <2>3, <2>4, PlaceKeepsColumns
  <2>6. cols[m] = d
    BY <1>2, <2>3, <2>4
  <2>7. Len(cols[m]) > 1
    BY <2>5, <2>6
  <2>. QED
    BY <2>1, <2>7
<1>7. Len(g) = 1 => Len(cols[1]) = 1
  BY <1>4
<1>8. Len(g) > 1 /\ g[2].startMin < g[1].endMin => Len(cols[Len(g)]) > 1
  BY <1>0, <1>6
<1>. QED
  BY <1>1, <1>2, <1>7, <1>8

\* f[n] is what the grouping has built, from e, of the first n slots of o.
Joined(f, e, o, k) == f = [n \in 0..k |-> IF n = 0 THEN e ELSE JoinSlot(f[n - 1], o[n])]

\* The recursion of the grouping has an answer at every place of a list.
LEMMA GroupsExist ==
    ASSUME NEW o, NEW e, NEW k \in Nat
    PROVE  \E f : Joined(f, e, o, k)
<1>. USE DEF Joined
<1>. DEFINE Good(m) == \E f : f = [n \in 0..m |-> IF n = 0 THEN e ELSE JoinSlot(f[n - 1], o[n])]
            Bad == {m \in Nat : ~Good(m)}
<1>. SUFFICES ASSUME Bad # {} PROVE FALSE
  OBVIOUS
<1>1. PICK m \in Bad : \A q \in Bad : m <= q
  <2>. HIDE DEF Bad
  <2>1. Bad \subseteq Nat
    BY DEF Bad
  <2>. QED
    BY <2>1, LeastExists
<1>2. m # 0
  <2>1. PICK f : f = [n \in 0..0 |-> e]
    OBVIOUS
  <2>2. f = [n \in 0..0 |-> IF n = 0 THEN e ELSE JoinSlot(f[n - 1], o[n])]
    BY <2>1
  <2>. QED
    BY <2>2
<1>3. m - 1 \in Nat /\ m \in Nat /\ m - 1 \notin Bad
  BY <1>1, <1>2
<1>4. PICK f : f = [n \in 0..(m - 1) |-> IF n = 0 THEN e ELSE JoinSlot(f[n - 1], o[n])]
  BY <1>3
<1>5. PICK h : h = [n \in 0..m |-> IF n = m THEN JoinSlot(f[m - 1], o[m]) ELSE f[n]]
  OBVIOUS
<1>6. h = [n \in 0..m |-> IF n = 0 THEN e ELSE JoinSlot(h[n - 1], o[n])]
  <2>1. ASSUME NEW n \in 0..m
        PROVE  h[n] = IF n = 0 THEN e ELSE JoinSlot(h[n - 1], o[n])
    <3>1. CASE n = m
      <4>1. h[m - 1] = f[m - 1]
        BY <1>3, <1>5
      <4>. QED
        BY <1>2, <1>3, <1>5, <3>1, <4>1
    <3>2. CASE n # m /\ n # 0
      <4>1. n - 1 \in 0..m /\ n - 1 # m /\ n \in 0..(m - 1)
        BY <1>3, <3>2
      <4>2. h[n - 1] = f[n - 1] /\ h[n] = f[n]
        BY <1>5, <3>2, <4>1
      <4>. QED
        BY <1>4, <3>2, <4>1, <4>2
    <3>3. CASE n # m /\ n = 0
      BY <1>3, <1>4, <1>5, <3>3
    <3>. QED
      BY <3>1, <3>2, <3>3
  <2>2. DOMAIN h = 0..m /\ h = [n \in 0..m |-> h[n]]
    BY <1>5
  <2>. QED
    BY <2>1, <2>2
<1>. QED
  BY <1>1, <1>6

\* The blocks of a day by starting time; each ends after it starts.
InOrder(o) ==
    /\ o \in Seq(Slot)
    /\ \A n \in 1..Len(o) : o[n].startMin < o[n].endMin
    /\ \A m, n \in 1..Len(o) : m < n => o[m].startMin <= o[n].startMin

\* A block of a day ends after it starts, at whole minutes.
LEMMA BlockOfDay ==
    ASSUME NEW o, InOrder(o), NEW k \in 1..Len(o)
    PROVE  /\ Len(o) \in Nat /\ o[k] \in Slot
           /\ o[k].row \in Nat /\ o[k].startMin \in Nat /\ o[k].endMin \in Nat
           /\ o[k].startMin < o[k].endMin
<1>1. o \in Seq(Slot) /\ o[k].startMin < o[k].endMin
  BY DEF InOrder
<1>2. o[k] \in Slot /\ Len(o) \in Nat
  BY <1>1
<1>. QED
  BY <1>1, <1>2 DEF Slot

\* g is the list of the blocks x to y.
Spans(g, o, x, y) ==
    /\ y \in 1..Len(o) /\ x \in 1..y
    /\ g \in Seq(Slot) /\ Len(g) = y - x + 1
    /\ \A i \in 1..Len(g) : g[i] = o[x + i - 1]

\* Each of the blocks x to y but the first starts before an earlier one has ended.
Chained(o, x, y) == \A j \in (x + 1)..y : \E i \in x..(j - 1) : o[j].startMin < o[i].endMin

\* The first x blocks have ended when block k starts.
EndedBefore(o, x, k) == \A i \in 1..x : o[i].endMin <= o[k].startMin

\* g is a group of its own: chained, and apart from the blocks before and after it.
Whole(g, o, x, y) ==
    /\ Spans(g, o, x, y) /\ Chained(o, x, y)
    /\ EndedBefore(o, x - 1, x)
    /\ y < Len(o) => EndedBefore(o, y, y + 1)

\* After n blocks: those before b are in finished groups, the others in the open one.
Grouped(o, a, n, b) ==
    /\ Spans(a.group, o, b, n) /\ Chained(o, b, n) /\ EndedBefore(o, b - 1, b)
    /\ a.end \in Nat /\ \A i \in 1..n : o[i].endMin <= a.end
    /\ \E i \in b..n : o[i].endMin = a.end
    /\ \A i \in 1..(b - 1) : \E k \in 1..Len(a.done) : \E x, y \in 1..Len(o) :
          Whole(a.done[k], o, x, y) /\ i \in x..y
GroupsInv(o, a, n) ==
    /\ a \in [done : Seq(Seq(Slot)), group : Seq(Slot), end : Int]
    /\ \A k \in 1..Len(a.done) :
          Len(a.done[k]) = 0 \/ \E x, y \in 1..Len(o) : Whole(a.done[k], o, x, y)
    /\ n = 0 => Len(a.group) = 0 /\ a.end < 0
    /\ n > 0 => \E b \in 1..n : Grouped(o, a, n, b)

\* A slot that starts when all before it have ended closes the group and opens one.
LEMMA SlotOpensGroup ==
    ASSUME NEW o, InOrder(o), NEW n \in Nat, n < Len(o), NEW a, GroupsInv(o, a, n),
           o[n + 1].startMin >= a.end
    PROVE  GroupsInv(o, JoinSlot(a, o[n + 1]), n + 1)
<1>. DEFINE slot == o[n + 1]
            c == JoinSlot(a, slot)
<1>1. /\ n + 1 \in 1..Len(o) /\ Len(o) \in Nat
      /\ slot \in Slot /\ slot.startMin \in Nat /\ slot.endMin \in Nat
      /\ slot.startMin < slot.endMin
  <2>1. n + 1 \in 1..Len(o)
    BY DEF InOrder
  <2>. QED
    BY <2>1, BlockOfDay
<1>2. /\ a.done \in Seq(Seq(Slot)) /\ a.group \in Seq(Slot) /\ a.end \in Int
  BY DEF GroupsInv
<1>3. /\ c.done = Append(a.done, a.group) /\ c.group = <<slot>> /\ c.end = slot.endMin
      /\ c = [done |-> c.done, group |-> c.group, end |-> c.end]
  BY DEF JoinSlot
<1>4. c \in [done : Seq(Seq(Slot)), group : Seq(Slot), end : Int]
  <2>1. Append(a.done, a.group) \in Seq(Seq(Slot)) /\ <<slot>> \in Seq(Slot) /\ slot.endMin \in Int
    BY <1>1, <1>2
  <2>. HIDE DEF c
  <2>. QED
    BY ONLY <1>3, <2>1
<1>5. /\ Len(c.done) = Len(a.done) + 1 /\ Len(a.done) \in Nat
      /\ c.done[Len(a.done) + 1] = a.group
      /\ \A k \in 1..Len(a.done) : c.done[k] = a.done[k]
  BY <1>2, <1>3
<1>. HIDE DEF slot, c
<1>6. EndedBefore(o, n, n + 1)
  <2>1. CASE n = 0
    BY <2>1 DEF EndedBefore
  <2>2. CASE n > 0
    <3>1. \A i \in 1..n : o[i].endMin <= a.end
      BY <2>2 DEF GroupsInv, Grouped
    <3>2. \A i \in 1..n : o[i].endMin \in Nat
      BY <1>1, BlockOfDay
    <3>. QED
      BY <1>1, <1>2, <3>1, <3>2 DEF EndedBefore, slot
  <2>. QED
    BY <2>1, <2>2
<1>7. n > 0 => \E b \in 1..n : Whole(a.group, o, b, n) /\ Grouped(o, a, n, b)
  BY <1>1, <1>6 DEF GroupsInv, Grouped, Whole
<1>8. \A k \in 1..Len(c.done) :
          Len(c.done[k]) = 0 \/ \E x, y \in 1..Len(o) : Whole(c.done[k], o, x, y)
  <2>. SUFFICES ASSUME NEW k \in 1..Len(c.done)
                PROVE  Len(c.done[k]) = 0 \/ \E x, y \in 1..Len(o) : Whole(c.done[k], o, x, y)
    OBVIOUS
  <2>1. CASE k \in 1..Len(a.done)
    BY <1>5, <2>1 DEF GroupsInv
  <2>2. CASE k = Len(a.done) + 1 /\ n = 0
    BY <1>5, <2>2 DEF GroupsInv
  <2>3. CASE k = Len(a.done) + 1 /\ n > 0
    <3>1. PICK b \in 1..n : Whole(a.group, o, b, n)
      BY <1>7, <2>3
    <3>2. b \in 1..Len(o) /\ n \in 1..Len(o)
      BY <1>1
    <3>. QED
      BY <1>5, <2>3, <3>1, <3>2
  <2>. QED
    BY <1>5, <2>1, <2>2, <2>3
<1>9. Grouped(o, c, n + 1, n + 1)
  <2>1. Spans(c.group, o, n + 1, n + 1)
    <3>1. PICK e, g : e = slot /\ g = <<e>>
      OBVIOUS
    <3>2. g \in Seq(Slot) /\ Len(g) = 1 /\ g[1] = e /\ \A i \in 1..Len(g) : i = 1
      BY <1>1, <3>1
    <3>3. \A i \in 1..Len(g) : g[i] = o[n + 1 + i - 1]
      BY <3>1, <3>2 DEF slot
    <3>. QED
      BY <1>1, <1>3, <3>1, <3>2, <3>3 DEF Spans
  <2>2. Chained(o, n + 1, n + 1)
    BY DEF Chained
  <2>3. EndedBefore(o, (n + 1) - 1, n + 1)
    BY <1>6
  <2>4. \A i \in 1..(n + 1) : o[i].endMin <= c.end
    <3>. SUFFICES ASSUME NEW i \in 1..(n + 1) PROVE o[i].endMin <= c.end
      OBVIOUS
    <3>1. CASE i = n + 1
      BY <1>1, <1>3, <3>1 DEF slot
    <3>2. CASE i \in 1..n
      <4>1. o[i].endMin <= slot.startMin
        BY <1>6, <3>2 DEF EndedBefore, slot
      <4>2. o[i].endMin \in Nat
        BY <1>1, <3>2, BlockOfDay
      <4>. QED
        BY <1>1, <1>3, <4>1, <4>2
    <3>. QED
      BY <3>1, <3>2
  <2>5. ASSUME NEW i \in 1..n
        PROVE  \E k \in 1..Len(c.done) : \E x, y \in 1..Len(o) :
                  Whole(c.done[k], o, x, y) /\ i \in x..y
    <3>1. PICK b \in 1..n : Whole(a.group, o, b, n) /\ Grouped(o, a, n, b)
      BY <1>7
    <3>2. CASE i \in b..n
      <4>1. b \in 1..Len(o) /\ n \in 1..Len(o)
        BY <1>1
      <4>2. Len(a.done) + 1 \in 1..Len(c.done)
        BY <1>5
      <4>. QED
        BY <1>5, <3>1, <3>2, <4>1, <4>2
    <3>3. CASE i \in 1..(b - 1)
      <4>1. PICK k \in 1..Len(a.done) : \E x, y \in 1..Len(o) :
                  Whole(a.done[k], o, x, y) /\ i \in x..y
        BY <3>1, <3>3 DEF Grouped
      <4>2. k \in 1..Len(c.done) /\ c.done[k] = a.done[k]
        BY <1>5
      <4>. QED
        BY <4>1, <4>2
    <3>. QED
      BY <3>2, <3>3
  <2>6. \E i \in (n + 1)..(n + 1) : o[i].endMin = c.end
    BY <1>3 DEF slot
  <2>7. c.end \in Nat
    BY <1>1, <1>3 DEF slot
  <2>8. (n + 1) - 1 = n
    OBVIOUS
  <2>. QED
    BY ONLY <2>1, <2>2, <2>3, <2>4, <2>5, <2>6, <2>7, <2>8 DEF Grouped
<1>. QED
  BY <1>4, <1>8, <1>9 DEF GroupsInv, c, slot

\* A slot that starts before the open group has ended joins it.
LEMMA SlotJoinsGroup ==
    ASSUME NEW o, InOrder(o), NEW n \in Nat, n < Len(o), NEW a, GroupsInv(o, a, n),
           o[n + 1].startMin < a.end
    PROVE  GroupsInv(o, JoinSlot(a, o[n + 1]), n + 1)
<1>. DEFINE slot == o[n + 1]
            c == JoinSlot(a, slot)
<1>1. /\ n + 1 \in 1..Len(o) /\ Len(o) \in Nat
      /\ slot \in Slot /\ slot.startMin \in Nat /\ slot.endMin \in Nat
      /\ slot.startMin < slot.endMin
  <2>1. n + 1 \in 1..Len(o)
    BY DEF InOrder
  <2>. QED
    BY <2>1, BlockOfDay
<1>2. /\ a \in [done : Seq(Seq(Slot)), group : Seq(Slot), end : Int]
      /\ a.done \in Seq(Seq(Slot)) /\ a.group \in Seq(Slot) /\ a.end \in Int
  BY DEF GroupsInv
<1>3. n > 0
  BY <1>1, <1>2 DEF GroupsInv
<1>4. PICK b \in 1..n : Grouped(o, a, n, b)
  BY <1>3 DEF GroupsInv
<1>5. /\ c.done = a.done /\ c.group = Append(a.group, slot) /\ c.end = LaterEnd(a.end, slot)
      /\ c \in [done : Seq(Seq(Slot)), group : Seq(Slot), end : Int]
  <2>1. ~(slot.startMin >= a.end)
    BY <1>1, <1>2
  <2>2. c = [a EXCEPT !.group = Append(a.group, slot), !.end = LaterEnd(a.end, slot)]
    BY <2>1 DEF JoinSlot
  <2>3. Append(a.group, slot) \in Seq(Slot) /\ LaterEnd(a.end, slot) \in Int
    BY <1>1, <1>2 DEF LaterEnd
  <2>. HIDE DEF c, slot
  <2>. QED
    BY ONLY <1>2, <2>2, <2>3
<1>6. /\ LaterEnd(a.end, slot) \in {a.end, slot.endMin}
      /\ a.end <= LaterEnd(a.end, slot) /\ slot.endMin <= LaterEnd(a.end, slot)
  BY <1>1, <1>2 DEF LaterEnd
<1>. HIDE DEF c
<1>7. Spans(c.group, o, b, n + 1)
  <2>1. /\ b \in 1..n /\ Len(a.group) = n - b + 1
        /\ \A i \in 1..Len(a.group) : a.group[i] = o[b + i - 1]
    BY <1>4 DEF Grouped, Spans
  <2>2. PICK g, h, e : g = a.group /\ e = slot /\ h = Append(g, e)
    OBVIOUS
  <2>3. /\ h \in Seq(Slot) /\ Len(h) = Len(g) + 1 /\ h[Len(g) + 1] = e /\ Len(g) \in Nat
        /\ \A i \in 1..Len(g) : h[i] = g[i]
    BY <1>1, <1>2, <2>2
  <2>4. \A i \in 1..Len(h) : h[i] = o[b + i - 1]
    <3>. SUFFICES ASSUME NEW i \in 1..Len(h) PROVE h[i] = o[b + i - 1]
      OBVIOUS
    <3>1. CASE i \in 1..Len(g)
      BY <2>1, <2>2, <2>3, <3>1
    <3>2. CASE i = Len(g) + 1
      <4>1. b + i - 1 = n + 1
        BY <2>1, <2>2, <3>2
      <4>. QED
        BY <2>2, <2>3, <3>2, <4>1
    <3>. QED
      BY <2>3, <3>1, <3>2
  <2>5. b \in 1..(n + 1) /\ Len(h) = (n + 1) - b + 1
    BY <2>1, <2>2, <2>3
  <2>. QED
    BY <1>1, <1>5, <2>2, <2>3, <2>4, <2>5 DEF Spans
<1>8. Chained(o, b, n + 1)
  <2>. SUFFICES ASSUME NEW j \in (b + 1)..(n + 1)
                PROVE  \E i \in b..(j - 1) : o[j].startMin < o[i].endMin
    BY DEF Chained
  <2>1. CASE j \in (b + 1)..n
    BY <1>4, <2>1 DEF Grouped, Chained
  <2>2. CASE j = n + 1
    <3>1. PICK i \in b..n : o[i].endMin = a.end
      BY <1>4 DEF Grouped
    <3>. QED
      BY <2>2, <3>1
  <2>. QED
    BY <2>1, <2>2
<1>9. EndedBefore(o, b - 1, b)
  BY <1>4 DEF Grouped
<1>10. c.end \in Nat /\ \A i \in 1..(n + 1) : o[i].endMin <= c.end
  <2>1. a.end \in Nat /\ \A i \in 1..n : o[i].endMin <= a.end
    BY <1>4 DEF Grouped
  <2>2. c.end \in Nat /\ a.end <= c.end /\ slot.endMin <= c.end
    BY <1>1, <1>5, <1>6, <2>1
  <2>. SUFFICES ASSUME NEW i \in 1..(n + 1) PROVE o[i].endMin <= c.end
    BY <2>2
  <2>3. CASE i = n + 1
    BY <2>2, <2>3
  <2>4. CASE i \in 1..n
    <3>1. o[i].endMin \in Nat
      BY <1>1, <2>4, BlockOfDay
    <3>. QED
      BY <2>1, <2>2, <2>4, <3>1
  <2>. QED
    BY <2>3, <2>4
<1>11. \E i \in b..(n + 1) : o[i].endMin = c.end
  <2>1. PICK i \in b..n : o[i].endMin = a.end
    BY <1>4 DEF Grouped
  <2>. QED
    BY <1>5, <1>6, <2>1
<1>12. \A i \in 1..(b - 1) : \E k \in 1..Len(c.done) : \E x, y \in 1..Len(o) :
          Whole(c.done[k], o, x, y) /\ i \in x..y
  BY <1>4, <1>5 DEF Grouped
<1>13. Grouped(o, c, n + 1, b)
  BY <1>7, <1>8, <1>9, <1>10, <1>11, <1>12 DEF Grouped
<1>14. \A k \in 1..Len(c.done) :
          Len(c.done[k]) = 0 \/ \E x, y \in 1..Len(o) : Whole(c.done[k], o, x, y)
  BY <1>5 DEF GroupsInv
<1>. QED
  BY <1>5, <1>13, <1>14 DEF GroupsInv, c

\* Every block of a day is in a group, and every group is a stretch of the day that
\* is chained and apart from the rest.
LEMMA DayIsGrouped ==
    ASSUME NEW o, InOrder(o)
    PROVE  /\ \A g \in Range(Groups(o)) :
                 /\ g \in Seq(Slot)
                 /\ Len(g) = 0 \/ \E x, y \in 1..Len(o) : Whole(g, o, x, y)
           /\ \A n \in 1..Len(o) : \E g \in Range(Groups(o)) : \E x, y \in 1..Len(o) :
                 Whole(g, o, x, y) /\ n \in x..y
<1>. DEFINE e == [done |-> <<>>, group |-> <<>>, end |-> -1]
            RHS(f) == [n \in 0..Len(o) |-> IF n = 0 THEN e ELSE JoinSlot(f[n - 1], o[n])]
<1>0. Len(o) \in Nat
  BY DEF InOrder
<1>1. PICK acc : /\ Groups(o) = Append(acc[Len(o)].done, acc[Len(o)].group)
                 /\ acc = RHS(acc)
  <2>. DEFINE c == CHOOSE f : f = RHS(f)
  <2>1. Groups(o) = Append(c[Len(o)].done, c[Len(o)].group)
    BY DEF Groups
  <2>2. \E f : f = RHS(f)
    <3>. HIDE DEF e
    <3>1. \E f : Joined(f, e, o, Len(o))
      BY <1>0, GroupsExist
    <3>. QED
      BY <3>1 DEF Joined
  <2>3. c = RHS(c)
    <3>. HIDE DEF RHS
    <3>. QED
      BY <2>2
  <2>. HIDE DEF RHS, c
  <2>. QED
    BY <2>1, <2>3
<1>2. acc[0] = e /\ \A n \in 1..Len(o) : acc[n] = JoinSlot(acc[n - 1], o[n])
  BY <1>0, <1>1
<1>. HIDE DEF RHS
<1>3. GroupsInv(o, acc[0], 0)
  <2>1. e \in [done : Seq(Seq(Slot)), group : Seq(Slot), end : Int]
    OBVIOUS
  <2>2. Len(e.done) = 0 /\ Len(e.group) = 0 /\ e.end < 0
    OBVIOUS
  <2>. HIDE DEF e
  <2>. QED
    BY <1>2, <2>1, <2>2 DEF GroupsInv
<1>4. ASSUME NEW n \in 0..Len(o) PROVE GroupsInv(o, acc[n], n)
  <2>. DEFINE Bad == {m \in 0..Len(o) : ~GroupsInv(o, acc[m], m)}
  <2>. SUFFICES ASSUME Bad # {} PROVE FALSE
    OBVIOUS
  <2>1. PICK m \in Bad : \A q \in Bad : m <= q
    <3>1. Bad \subseteq Nat
      OBVIOUS
    <3>. HIDE DEF Bad
    <3>. QED
      BY <3>1, LeastExists
  <2>2. m # 0
    BY <1>3, <2>1
  <2>3. PICK k \in Nat : k = m - 1 /\ k < Len(o) /\ m = k + 1 /\ m \in 1..Len(o)
    BY <1>0, <2>1, <2>2
  <2>4. GroupsInv(o, acc[k], k)
    BY <1>0, <2>1, <2>3
  <2>5. acc[k].end \in Int /\ o[k + 1].startMin \in Nat
    <3>1. o[k + 1].startMin \in Nat
      BY <2>3, BlockOfDay
    <3>. QED
      BY <2>4, <3>1 DEF GroupsInv
  <2>6. GroupsInv(o, JoinSlot(acc[k], o[k + 1]), k + 1)
    <3>1. CASE o[k + 1].startMin >= acc[k].end
      BY <2>3, <2>4, <3>1, SlotOpensGroup
    <3>2. CASE o[k + 1].startMin < acc[k].end
      BY <2>3, <2>4, <3>2, SlotJoinsGroup
    <3>. QED
      BY <2>5, <3>1, <3>2
  <2>7. acc[m] = JoinSlot(acc[k], o[k + 1])
    BY <1>2, <2>3
  <2>8. GroupsInv(o, acc[m], m)
    BY <2>3, <2>6, <2>7
  <2>. QED
    BY <2>1, <2>8
<1>5. PICK a, s : a = acc[Len(o)] /\ s = Append(a.done, a.group)
  OBVIOUS
<1>6. GroupsInv(o, a, Len(o))
  BY <1>0, <1>4, <1>5
<1>7. /\ a.done \in Seq(Seq(Slot)) /\ a.group \in Seq(Slot)
  BY <1>6 DEF GroupsInv
<1>8. /\ DOMAIN s = 1..(Len(a.done) + 1) /\ Len(a.done) \in Nat
      /\ s[Len(a.done) + 1] = a.group /\ \A k \in 1..Len(a.done) : s[k] = a.done[k]
  BY <1>5, <1>7
<1>9. Groups(o) = s
  BY <1>1, <1>5
<1>10. /\ a.group \in Range(s)
       /\ \A k \in 1..Len(a.done) : a.done[k] \in Range(s)
       /\ \A g \in Range(s) : g = a.group \/ \E k \in 1..Len(a.done) : g = a.done[k]
  <2>1. Range(s) = {s[k] : k \in 1..(Len(a.done) + 1)}
    BY <1>8 DEF Range
  <2>2. \A k \in 1..(Len(a.done) + 1) : k = Len(a.done) + 1 \/ k \in 1..Len(a.done)
    BY <1>8
  <2>3. Len(a.done) + 1 \in 1..(Len(a.done) + 1) /\ 1..Len(a.done) \subseteq 1..(Len(a.done) + 1)
    BY <1>8
  <2>. QED
    BY <1>8, <2>1, <2>2, <2>3
<1>11. Len(o) > 0 => \E b \in 1..Len(o) : Grouped(o, a, Len(o), b) /\ Whole(a.group, o, b, Len(o))
  <2>. SUFFICES ASSUME Len(o) > 0
                PROVE  \E b \in 1..Len(o) : Grouped(o, a, Len(o), b) /\ Whole(a.group, o, b, Len(o))
    OBVIOUS
  <2>1. PICK b \in 1..Len(o) : Grouped(o, a, Len(o), b)
    BY <1>6 DEF GroupsInv
  <2>2. Whole(a.group, o, b, Len(o))
    BY <1>0, <2>1 DEF Grouped, Whole
  <2>. QED
    BY <2>1, <2>2
<1>12. ASSUME NEW g \in Range(s)
       PROVE  /\ g \in Seq(Slot)
              /\ Len(g) = 0 \/ \E x, y \in 1..Len(o) : Whole(g, o, x, y)
  <2>1. CASE g = a.group
    BY <1>0, <1>6, <1>7, <1>11, <2>1 DEF GroupsInv
  <2>2. ASSUME NEW k \in 1..Len(a.done), g = a.done[k]
        PROVE  /\ g \in Seq(Slot)
               /\ Len(g) = 0 \/ \E x, y \in 1..Len(o) : Whole(g, o, x, y)
    <3>1. a.done[k] \in Seq(Slot)
      BY <1>7
    <3>. QED
      BY <1>6, <2>2, <3>1 DEF GroupsInv
  <2>. QED
    BY <1>10, <2>1, <2>2
<1>13. ASSUME NEW n \in 1..Len(o)
       PROVE  \E g \in Range(s) : \E x, y \in 1..Len(o) : Whole(g, o, x, y) /\ n \in x..y
  <2>1. PICK b \in 1..Len(o) : Grouped(o, a, Len(o), b) /\ Whole(a.group, o, b, Len(o))
    BY <1>0, <1>11
  <2>2. CASE n \in b..Len(o)
    BY <1>0, <1>10, <2>1, <2>2
  <2>3. CASE n \in 1..(b - 1)
    BY <1>10, <2>1, <2>3 DEF Grouped
  <2>. QED
    BY <2>2, <2>3
<1>. QED
  BY <1>9, <1>12, <1>13

\* Two blocks have a minute in common.
Cross(a, b) == a.startMin < b.endMin /\ b.startMin < a.endMin

\* A block is in a group of several columns exactly when it crosses another one.
LEMMA SeveralColumns ==
    ASSUME NEW o, InOrder(o), NEW n \in 1..Len(o),
           \A i, j \in 1..Len(o) : o[i] = o[j] => i = j
    PROVE  (\E g \in Range(Groups(o)) : Len(Columns(g)) > 1 /\ o[n] \in Range(g))
             <=> \E m \in 1..Len(o) \ {n} : Cross(o[n], o[m])
<1>0. /\ Len(o) \in Nat
      /\ \A k \in 1..Len(o) : /\ o[k].startMin \in Nat /\ o[k].endMin \in Nat
                              /\ o[k].startMin < o[k].endMin
      /\ \A i, j \in 1..Len(o) : i < j => o[i].startMin <= o[j].startMin
  <2>1. Len(o) \in Nat
    BY DEF InOrder
  <2>2. \A i, j \in 1..Len(o) : i < j => o[i].startMin <= o[j].startMin
    BY DEF InOrder
  <2>. QED
    BY <2>1, <2>2, BlockOfDay
<1>1. ASSUME NEW g, NEW x \in 1..Len(o), NEW y \in 1..Len(o), Whole(g, o, x, y)
      PROVE  /\ g \in Seq(Slot) /\ x <= y
             /\ o[n] \in Range(g) <=> n \in x..y
             /\ Len(Columns(g)) > 1 <=> x < y
  <2>1. /\ g \in Seq(Slot) /\ x <= y /\ Len(g) = y - x + 1
        /\ \A i \in 1..Len(g) : g[i] = o[x + i - 1]
    BY <1>1 DEF Whole, Spans
  <2>2. ASSUME o[n] \in Range(g) PROVE n \in x..y
    <3>1. PICK i \in 1..Len(g) : g[i] = o[n]
      <4>1. PICK i \in DOMAIN g : g[i] = o[n]
        BY <2>2 DEF Range
      <4>2. DOMAIN g = 1..Len(g)
        BY <2>1
      <4>. QED
        BY <4>1, <4>2
    <3>2. x + i - 1 \in 1..Len(o) /\ x + i - 1 \in x..y
      BY <1>0, <2>1
    <3>3. o[x + i - 1] = o[n]
      BY <2>1, <3>1
    <3>. QED
      BY <3>2, <3>3
  <2>3. ASSUME n \in x..y PROVE o[n] \in Range(g)
    <3>1. n - x + 1 \in 1..Len(g) /\ x + (n - x + 1) - 1 = n
      BY <2>1, <2>3
    <3>2. g[n - x + 1] = o[n]
      BY <2>1, <3>1
    <3>3. n - x + 1 \in DOMAIN g
      BY <2>1, <3>1
    <3>. QED
      BY <3>2, <3>3 DEF Range
  <2>4. CASE x < y
    <3>1. \E i \in x..((x + 1) - 1) : o[x + 1].startMin < o[i].endMin
      <4>1. x + 1 \in (x + 1)..y
        BY <2>4
      <4>2. Chained(o, x, y)
        BY <1>1 DEF Whole
      <4>. QED
        BY <4>1, <4>2 DEF Chained
    <3>2. o[x + 1].startMin < o[x].endMin
      <4>1. \A i \in x..((x + 1) - 1) : i = x
        OBVIOUS
      <4>. QED
        BY <3>1, <4>1
    <3>3. g[1] = o[x] /\ g[2] = o[x + 1] /\ Len(g) > 1
      <4>1. 1 \in 1..Len(g) /\ 2 \in 1..Len(g) /\ x + 1 - 1 = x /\ x + 2 - 1 = x + 1
        BY <2>1, <2>4
      <4>2. g[1] = o[x + 1 - 1] /\ g[2] = o[x + 2 - 1]
        BY <2>1, <4>1
      <4>. QED
        BY <4>1, <4>2
    <3>. QED
      BY <2>1, <2>2, <2>3, <2>4, <3>2, <3>3, ColumnsOfGroup
  <2>5. CASE x = y
    <3>1. Len(g) = 1
      BY <2>1, <2>5
    <3>2. Len(Columns(g)) = 1
      BY <2>1, <3>1, ColumnsOfGroup
    <3>. QED
      BY <2>1, <2>2, <2>3, <2>5, <3>2
  <2>. QED
    BY <2>1, <2>4, <2>5
<1>2. ASSUME NEW g \in Range(Groups(o)), Len(Columns(g)) > 1, o[n] \in Range(g)
      PROVE  \E m \in 1..Len(o) \ {n} : Cross(o[n], o[m])
  <2>1. PICK x, y \in 1..Len(o) : Whole(g, o, x, y)
    <3>1. Len(g) # 0
      <4>. SUFFICES ASSUME Len(g) = 0 PROVE FALSE
        OBVIOUS
      <4>1. DOMAIN g # {}
        BY <1>2 DEF Range
      <4>2. g \in Seq(Slot)
        OBVIOUS
      <4>. QED
        BY <4>1, <4>2
    <3>. QED
      BY <3>1, DayIsGrouped
  <2>2. n \in x..y /\ x < y
    BY <1>1, <1>2, <2>1
  <2>3. Chained(o, x, y)
    BY <2>1 DEF Whole
  <2>4. CASE n > x
    <3>1. PICK i \in x..(n - 1) : o[n].startMin < o[i].endMin
      BY <2>2, <2>3, <2>4 DEF Chained
    <3>2. i \in 1..Len(o) /\ i < n
      BY <1>0, <2>2
    <3>3. o[i].startMin <= o[n].startMin /\ o[n].startMin < o[n].endMin
      BY <1>0, <3>2
    <3>4. o[i].startMin < o[n].endMin
      BY <1>0, <3>2, <3>3
    <3>. QED
      BY <3>1, <3>2, <3>4 DEF Cross
  <2>5. CASE n = x
    <3>1. n + 1 \in 1..Len(o) /\ n + 1 \in (x + 1)..y
      BY <1>0, <2>2, <2>5
    <3>2. PICK i \in x..((n + 1) - 1) : o[n + 1].startMin < o[i].endMin
      BY <2>3, <3>1 DEF Chained
    <3>3. i = n
      BY <2>5
    <3>4. o[n].startMin <= o[n + 1].startMin /\ o[n + 1].startMin < o[n + 1].endMin
      BY <1>0, <3>1
    <3>5. o[n].startMin < o[n + 1].endMin
      BY <1>0, <3>1, <3>4
    <3>6. n + 1 \in 1..Len(o) \ {n}
      BY <3>1
    <3>7. o[n + 1].startMin < o[n].endMin
      BY <3>2, <3>3
    <3>. QED
      BY <3>5, <3>6, <3>7 DEF Cross
  <2>. QED
    BY <2>2, <2>4, <2>5
<1>3. ASSUME NEW m \in 1..Len(o), m # n, Cross(o[n], o[m])
      PROVE  \E g \in Range(Groups(o)) : Len(Columns(g)) > 1 /\ o[n] \in Range(g)
  <2>1. PICK g \in Range(Groups(o)) : \E x, y \in 1..Len(o) : Whole(g, o, x, y) /\ n \in x..y
    BY DayIsGrouped
  <2>2. PICK x, y \in 1..Len(o) : Whole(g, o, x, y) /\ n \in x..y
    BY <2>1
  <2>3. /\ EndedBefore(o, x - 1, x)
        /\ y < Len(o) => EndedBefore(o, y, y + 1)
    BY <2>2 DEF Whole
  <2>4. o[n].startMin < o[m].endMin /\ o[m].startMin < o[n].endMin
    BY <1>3 DEF Cross
  <2>5. ~(m < x)
    <3>. SUFFICES ASSUME m < x PROVE FALSE
      OBVIOUS
    <3>1. o[m].endMin <= o[x].startMin
      BY <2>3 DEF EndedBefore
    <3>2. o[x].startMin <= o[n].startMin
      <4>1. x = n \/ x < n
        BY <2>2
      <4>. QED
        BY <1>0, <4>1
    <3>. QED
      BY <1>0, <2>4, <3>1, <3>2
  <2>6. ~(m > y)
    <3>. SUFFICES ASSUME m > y PROVE FALSE
      OBVIOUS
    <3>1. y + 1 \in 1..Len(o) /\ y < Len(o)
      BY <1>0
    <3>2. o[n].endMin <= o[y + 1].startMin
      BY <2>2, <2>3, <3>1 DEF EndedBefore
    <3>3. o[y + 1].startMin <= o[m].startMin
      <4>1. y + 1 = m \/ y + 1 < m
        OBVIOUS
      <4>. QED
        BY <1>0, <3>1, <4>1
    <3>. QED
      BY <1>0, <2>4, <3>1, <3>2, <3>3
  <2>7. x < y
    BY <1>3, <2>2, <2>5, <2>6
  <2>. QED
    BY <1>1, <2>2, <2>7
<1>. QED
  BY <1>2, <1>3
-----------------------------------------------------------------------------
(* The week of the profile page *)

\* Rows of patterns that the week has.
Shown(P, k) ==
    /\ k \in Nat /\ DOMAIN P = 1..k
    /\ \A i \in 1..k : OnTheGrid(P[i]) \/ P[i] = Unsplit

\* The block of row i, on each of its days.
Block(P, i) == [row |-> i, startMin |-> GridTime(P[i].from), endMin |-> GridTime(P[i].to)]

\* A block ends after it starts.
LEMMA BlockIsSlot ==
    ASSUME NEW P, NEW k, Shown(P, k), NEW i \in 1..k, P[i].days # {}
    PROVE  /\ OnTheGrid(P[i]) /\ Block(P, i) \in Slot
           /\ Block(P, i).startMin < Block(P, i).endMin
<1>1. OnTheGrid(P[i])
  BY DEF Shown, Unsplit
<1>2. PICK a, b : a = P[i].from /\ b = P[i].to
  OBVIOUS
<1>3. /\ a \in (1..12) \X (0..59) /\ b \in (1..12) \X (0..59)
      /\ a[1] < 8 <=> b[1] < 8
      /\ ParseTime(a) < ParseTime(b)
  BY <1>1, <1>2 DEF OnTheGrid, ReadAlike
<1>4. a[1] \in 1..12 /\ b[1] \in 1..12
  BY <1>3
<1>5. /\ ParseTime(a) \in Nat /\ ParseTime(b) \in Nat
  BY <1>3, ClockTimes
<1>6. GridTime(a) \in Nat /\ GridTime(b) \in Nat /\ GridTime(a) < GridTime(b)
  <2>1. CASE a[1] < 8
    <3>1. GridTime(a) = ParseTime(a) + 720 /\ GridTime(b) = ParseTime(b) + 720
      BY <1>3, <2>1, ClockTimes
    <3>. QED
      BY <1>3, <1>5, <3>1
  <2>2. CASE a[1] >= 8
    <3>1. b[1] >= 8
      BY <1>3, <1>4, <2>2
    <3>2. GridTime(a) = ParseTime(a) /\ GridTime(b) = ParseTime(b)
      BY <1>3, <2>2, <3>1, ClockTimes
    <3>. QED
      BY <1>3, <1>5, <3>2
  <2>. QED
    BY <1>4, <2>1, <2>2
<1>7. i \in Nat
  BY DEF Shown
<1>. QED
  BY <1>1, <1>2, <1>6, <1>7 DEF Block, Slot

\* The blocks of a day: one for each row that meets then, in order.
LEMMA DayHasBlocks ==
    ASSUME NEW P, NEW k, Shown(P, k), NEW d \in Weekdays
    PROVE  /\ InOrder(DaySlots(P, d))
           /\ \A m, n \in 1..Len(DaySlots(P, d)) : DaySlots(P, d)[m] = DaySlots(P, d)[n] => m = n
           /\ \A n \in 1..Len(DaySlots(P, d)) : \E i \in 1..k :
                 d \in P[i].days /\ DaySlots(P, d)[n] = Block(P, i)
           /\ \A i \in 1..k : d \in P[i].days =>
                 \E n \in 1..Len(DaySlots(P, d)) : DaySlots(P, d)[n] = Block(P, i)
<1>1. PICK I : I = {j \in 1..k : d \in P[j].days}
  OBVIOUS
<1>2. PICK S : S = {Block(P, i) : i \in I}
  OBVIOUS
<1>3. \A i \in I : Block(P, i) \in Slot /\ Block(P, i).startMin < Block(P, i).endMin
  BY <1>1, BlockIsSlot
<1>4. \A x \in S : x \in Slot /\ x.startMin < x.endMin
  BY <1>2, <1>3
<1>5. IsFiniteSet(S)
  <2>1. IsFiniteSet(I)
    <3>1. I \subseteq 1..k /\ IsFiniteSet(1..k)
      BY <1>1, FS_Interval DEF Shown
    <3>. QED
      BY <3>1, FS_Subset
  <2>2. PICK f : f = [i \in I |-> Block(P, i)]
    OBVIOUS
  <2>3. f \in Surjection(I, S)
    BY <1>2, <2>2 DEF Surjection
  <2>. QED
    BY <2>1, <2>3, FS_Surjection
<1>6. PICK key : key = [x \in S |-> x.startMin]
  OBVIOUS
<1>7. \A x \in S : key[x] \in Nat /\ key[x] = x.startMin
  BY <1>4, <1>6 DEF Slot
<1>8. \E o \in SetToSeqs(S) : \A m, n \in DOMAIN o : m < n => o[m].startMin <= o[n].startMin
  <2>1. PICK o : Sorts(o, S, key)
    BY <1>5, <1>7, SortExists
  <2>2. \A m \in DOMAIN o : o[m] \in S
    BY <2>1 DEF Sorts, SetToSeqs
  <2>. QED
    BY <1>7, <2>1, <2>2 DEF Sorts
<1>9. DaySlots(P, d) = CHOOSE o \in SetToSeqs(S) :
                          \A m, n \in DOMAIN o : m < n => o[m].startMin <= o[n].startMin
  <2>1. I = {j \in DOMAIN P : d \in P[j].days \cap Weekdays}
    BY <1>1 DEF Shown
  <2>. QED
    BY <1>2, <2>1 DEF DaySlots, Block
<1>10. PICK o : o = DaySlots(P, d)
  OBVIOUS
<1>11. o \in SetToSeqs(S) /\ \A m, n \in DOMAIN o : m < n => o[m].startMin <= o[n].startMin
  BY <1>8, <1>9, <1>10
<1>12. PICK c \in Nat : c = Cardinality(S)
  BY <1>5, FS_CardinalityType
<1>13. o \in [1..c -> S] /\ \A m, n \in 1..c : m # n => o[m] # o[n]
  BY <1>11, <1>12 DEF SetToSeqs
<1>14. DOMAIN o = 1..c /\ Len(o) = c /\ o \in Seq(Slot)
  <2>1. o \in [1..c -> Slot]
    BY <1>4, <1>13
  <2>. QED
    BY <1>12, <2>1
<1>15. \A x \in S : \E n \in 1..c : o[n] = x
  <2>1. o \in Injection(1..c, S)
    BY <1>13 DEF Injection, IsInjective
  <2>2. Cardinality(1..c) = c
    BY FS_Interval
  <2>3. o \in Surjection(1..c, S)
    BY <1>5, <1>12, <2>1, <2>2, FS_Injection
  <2>. QED
    BY <2>3 DEF Surjection
<1>16. InOrder(o)
  <2>1. \A n \in 1..Len(o) : o[n].startMin < o[n].endMin
    BY <1>4, <1>13, <1>14
  <2>. QED
    BY <1>11, <1>14, <2>1 DEF InOrder
<1>17. \A n \in 1..Len(o) : \E i \in 1..k : d \in P[i].days /\ o[n] = Block(P, i)
  <2>. SUFFICES ASSUME NEW n \in 1..Len(o)
                PROVE  \E i \in 1..k : d \in P[i].days /\ o[n] = Block(P, i)
    OBVIOUS
  <2>1. o[n] \in S
    BY <1>13, <1>14
  <2>. QED
    BY <1>1, <1>2, <2>1
<1>18. ASSUME NEW i \in 1..k, d \in P[i].days
       PROVE  \E n \in 1..Len(o) : o[n] = Block(P, i)
  <2>1. Block(P, i) \in S
    BY <1>1, <1>2, <1>18
  <2>. QED
    BY <1>14, <1>15, <2>1
<1>. QED
  BY <1>10, <1>13, <1>14, <1>16, <1>17, <1>18

\* A row is marked on a day exactly when its block crosses another one.
LEMMA RowMarked ==
    ASSUME NEW P, NEW k, Shown(P, k), NEW d \in Weekdays, NEW i \in 1..k
    PROVE  i \in Marked(P, d)
             <=> /\ d \in P[i].days
                 /\ \E j \in 1..k \ {i} : d \in P[j].days /\ Cross(Block(P, i), Block(P, j))
<1>1. PICK o : o = DaySlots(P, d)
  OBVIOUS
<1>2. /\ InOrder(o) /\ \A m, n \in 1..Len(o) : o[m] = o[n] => m = n
      /\ \A n \in 1..Len(o) : \E j \in 1..k : d \in P[j].days /\ o[n] = Block(P, j)
      /\ \A j \in 1..k : d \in P[j].days => \E n \in 1..Len(o) : o[n] = Block(P, j)
  <2>1. InOrder(o)
    BY <1>1, DayHasBlocks
  <2>2. \A m, n \in 1..Len(o) : o[m] = o[n] => m = n
    BY <1>1, DayHasBlocks
  <2>3. \A n \in 1..Len(o) : \E j \in 1..k : d \in P[j].days /\ o[n] = Block(P, j)
    BY <1>1, DayHasBlocks
  <2>4. ASSUME NEW j \in 1..k, d \in P[j].days
        PROVE  \E n \in 1..Len(o) : o[n] = Block(P, j)
    BY <1>1, <2>4, DayHasBlocks
  <2>. QED
    BY <2>1, <2>2, <2>3, <2>4
<1>3. \A j : Block(P, j).row = j
  BY DEF Block
<1>4. PICK G : G = Range(Groups(o))
  OBVIOUS
<1>5. i \in Marked(P, d) <=> \E g \in G : Len(Columns(g)) > 1 /\ \E x \in Range(g) : x.row = i
  <2>1. PICK H : H = {h \in G : Len(Columns(h)) > 1}
    OBVIOUS
  <2>2. Marked(P, d) = UNION {{x.row : x \in Range(g)} : g \in H}
    BY <1>1, <1>4, <2>1 DEF Marked
  <2>3. i \in Marked(P, d) <=> \E g \in H : \E x \in Range(g) : x.row = i
    BY <2>2
  <2>. QED
    BY <2>1, <2>3
<1>6. ASSUME NEW g \in G, NEW x \in Range(g) PROVE \E n \in 1..Len(o) : x = o[n]
  <2>1. Len(g) = 0 \/ \E a, b \in 1..Len(o) : Whole(g, o, a, b)
    BY <1>2, <1>4, DayIsGrouped
  <2>2. CASE Len(g) = 0
    <3>1. g \in Seq(Slot)
      BY <1>2, <1>4, DayIsGrouped
    <3>. QED
      BY <2>2, <3>1 DEF Range
  <2>3. ASSUME NEW a \in 1..Len(o), NEW b \in 1..Len(o), Whole(g, o, a, b)
        PROVE  \E n \in 1..Len(o) : x = o[n]
    <3>1. /\ g \in Seq(Slot) /\ Len(g) = b - a + 1 /\ a <= b
          /\ \A m \in 1..Len(g) : g[m] = o[a + m - 1]
      BY <2>3 DEF Whole, Spans
    <3>2. PICK m \in DOMAIN g : x = g[m]
      BY DEF Range
    <3>3. m \in 1..Len(g)
      BY <3>1
    <3>4. a + m - 1 \in 1..Len(o)
      <4>1. Len(o) \in Nat /\ Len(g) \in Nat
        BY <1>2, <3>1 DEF InOrder
      <4>. QED
        BY <3>1, <3>3, <4>1
    <3>. QED
      BY <3>1, <3>2, <3>3, <3>4
  <2>. QED
    BY <2>1, <2>2, <2>3
<1>7. ASSUME d \in P[i].days
      PROVE  i \in Marked(P, d)
               <=> \E j \in 1..k \ {i} : d \in P[j].days /\ Cross(Block(P, i), Block(P, j))
  <2>1. PICK n \in 1..Len(o) : o[n] = Block(P, i)
    BY <1>2, <1>7
  <2>2. ASSUME NEW g \in G, NEW x \in Range(g), x.row = i PROVE x = o[n]
    <3>1. PICK m \in 1..Len(o) : x = o[m]
      BY <1>6
    <3>2. PICK j \in 1..k : o[m] = Block(P, j)
      BY <1>2
    <3>3. j = i
      BY <1>3, <2>2, <3>1, <3>2
    <3>. QED
      BY <2>1, <3>1, <3>2, <3>3
  <2>3. o[n].row = i
    BY <1>3, <2>1
  <2>4. i \in Marked(P, d) <=> \E g \in G : Len(Columns(g)) > 1 /\ o[n] \in Range(g)
    BY <1>5, <2>2, <2>3
  <2>5. i \in Marked(P, d) <=> \E m \in 1..Len(o) \ {n} : Cross(o[n], o[m])
    BY <1>2, <1>4, <2>4, SeveralColumns
  <2>6. ASSUME NEW m \in 1..Len(o) \ {n}, Cross(o[n], o[m])
        PROVE  \E j \in 1..k \ {i} : d \in P[j].days /\ Cross(Block(P, i), Block(P, j))
    <3>1. PICK j \in 1..k : d \in P[j].days /\ o[m] = Block(P, j)
      BY <1>2
    <3>2. j # i
      BY <1>2, <2>1, <3>1
    <3>. QED
      BY <2>1, <2>6, <3>1, <3>2
  <2>7. ASSUME NEW j \in 1..k \ {i}, d \in P[j].days, Cross(Block(P, i), Block(P, j))
        PROVE  \E m \in 1..Len(o) \ {n} : Cross(o[n], o[m])
    <3>1. PICK m \in 1..Len(o) : o[m] = Block(P, j)
      BY <1>2, <2>7
    <3>2. m # n
      BY <1>3, <2>1, <3>1
    <3>. QED
      BY <2>1, <2>7, <3>1, <3>2
  <2>. QED
    BY <2>5, <2>6, <2>7
<1>8. ASSUME i \in Marked(P, d) PROVE d \in P[i].days
  <2>0. PICK g \in G : \E x \in Range(g) : x.row = i
    BY <1>5, <1>8
  <2>1. PICK x \in Range(g) : x.row = i
    BY <2>0
  <2>2. PICK n \in 1..Len(o) : x = o[n]
    BY <1>6, <2>1
  <2>3. PICK j \in 1..k : d \in P[j].days /\ o[n] = Block(P, j)
    BY <1>2
  <2>. QED
    BY <1>3, <2>1, <2>2, <2>3
<1>. QED
  BY <1>7, <1>8

\* Two written times are in the same order by the clock, between patterns that do not
\* cross noon: those of the afternoon hours come first as written and meet nothing
\* of the morning.
LEMMA ConflictByTheClock ==
    ASSUME NEW p, NEW q, OnTheGrid(p), OnTheGrid(q)
    PROVE  HasTimeConflict(p, q)
             <=> /\ p.days \cap q.days # {}
                 /\ GridTime(p.from) < GridTime(q.to) /\ GridTime(q.from) < GridTime(p.to)
<1>1. PICK a, b, e, f : a = p.from /\ b = p.to /\ e = q.from /\ f = q.to
  OBVIOUS
<1>2. /\ a \in (1..12) \X (0..59) /\ b \in (1..12) \X (0..59)
      /\ e \in (1..12) \X (0..59) /\ f \in (1..12) \X (0..59)
  BY <1>1 DEF OnTheGrid, ReadAlike
<1>3. /\ a[1] < 8 <=> b[1] < 8
      /\ e[1] < 8 <=> f[1] < 8
      /\ p.days \subseteq Letters /\ q.days \subseteq Letters
  BY <1>1 DEF OnTheGrid, ReadAlike
<1>4. a[1] \in 1..12 /\ b[1] \in 1..12 /\ e[1] \in 1..12 /\ f[1] \in 1..12
  BY <1>2
<1>5. HasTimeConflict(p, q)
        <=> /\ p.days \cap q.days # {}
            /\ ParseTime(a) < ParseTime(f) /\ ParseTime(e) < ParseTime(b)
  <2>1. \A d : d \in p.days =>
           [day |-> d, startMin |-> ParseTime(a), endMin |-> ParseTime(b)] \in ParseMeetingPattern(p)
    BY <1>1, <1>3 DEF ParseMeetingPattern
  <2>2. \A d : d \in q.days =>
           [day |-> d, startMin |-> ParseTime(e), endMin |-> ParseTime(f)] \in ParseMeetingPattern(q)
    BY <1>1, <1>3 DEF ParseMeetingPattern
  <2>3. \A x \in ParseMeetingPattern(p) :
           x.day \in p.days /\ x.startMin = ParseTime(a) /\ x.endMin = ParseTime(b)
    BY <1>1 DEF ParseMeetingPattern
  <2>4. \A x \in ParseMeetingPattern(q) :
           x.day \in q.days /\ x.startMin = ParseTime(e) /\ x.endMin = ParseTime(f)
    BY <1>1 DEF ParseMeetingPattern
  <2>5. ASSUME HasTimeConflict(p, q)
        PROVE  /\ p.days \cap q.days # {}
               /\ ParseTime(a) < ParseTime(f) /\ ParseTime(e) < ParseTime(b)
    BY <2>3, <2>4, <2>5 DEF HasTimeConflict, SlotsOverlap
  <2>6. ASSUME p.days \cap q.days # {},
               ParseTime(a) < ParseTime(f), ParseTime(e) < ParseTime(b)
        PROVE  HasTimeConflict(p, q)
    <3>1. PICK d : d \in p.days /\ d \in q.days
      BY <2>6
    <3>2. PICK x \in ParseMeetingPattern(p) :
             x.day = d /\ x.startMin = ParseTime(a) /\ x.endMin = ParseTime(b)
      <4>1. PICK w : w = [day |-> d, startMin |-> ParseTime(a), endMin |-> ParseTime(b)]
        OBVIOUS
      <4>2. w \in ParseMeetingPattern(p)
        BY <2>1, <3>1, <4>1
      <4>3. w.day = d /\ w.startMin = ParseTime(a) /\ w.endMin = ParseTime(b)
        BY ONLY <4>1
      <4>. QED
        BY <4>2, <4>3
    <3>3. PICK y \in ParseMeetingPattern(q) :
             y.day = d /\ y.startMin = ParseTime(e) /\ y.endMin = ParseTime(f)
      <4>1. PICK w : w = [day |-> d, startMin |-> ParseTime(e), endMin |-> ParseTime(f)]
        OBVIOUS
      <4>2. w \in ParseMeetingPattern(q)
        BY <2>2, <3>1, <4>1
      <4>3. w.day = d /\ w.startMin = ParseTime(e) /\ w.endMin = ParseTime(f)
        BY ONLY <4>1
      <4>. QED
        BY <4>2, <4>3
    <3>. QED
      BY <2>6, <3>2, <3>3 DEF HasTimeConflict, SlotsOverlap
  <2>. QED
    BY <2>5, <2>6
<1>6. /\ ParseTime(a) \in Nat /\ ParseTime(a) < 780 /\ ParseTime(b) \in Nat /\ ParseTime(b) < 780
      /\ ParseTime(e) \in Nat /\ ParseTime(e) < 780 /\ ParseTime(f) \in Nat /\ ParseTime(f) < 780
      /\ 60 <= ParseTime(a) /\ 60 <= ParseTime(e)
  BY <1>2, ClockTimes
<1>7. \A x \in (1..12) \X (0..59) :
         /\ x[1] < 8 => ParseTime(x) < 480 /\ GridTime(x) = ParseTime(x) + 720
         /\ x[1] >= 8 => GridTime(x) = ParseTime(x) /\ ParseTime(x) >= 480
  <2>. SUFFICES ASSUME NEW x \in (1..12) \X (0..59)
                PROVE  /\ x[1] < 8 => ParseTime(x) < 480 /\ GridTime(x) = ParseTime(x) + 720
                       /\ x[1] >= 8 => GridTime(x) = ParseTime(x) /\ ParseTime(x) >= 480
    OBVIOUS
  <2>1. x[1] \in 1..12 /\ x[2] \in 0..59
    OBVIOUS
  <2>2. x[1] >= 8 => ParseTime(x) >= 480
    BY <2>1 DEF ParseTime
  <2>. QED
    BY <2>2, ClockTimes
<1>8. CASE a[1] < 8
  <2>1. ParseTime(b) < 480 /\ GridTime(a) = ParseTime(a) + 720 /\ GridTime(b) = ParseTime(b) + 720
    BY <1>2, <1>3, <1>7, <1>8
  <2>2. CASE e[1] < 8
    <3>1. GridTime(e) = ParseTime(e) + 720 /\ GridTime(f) = ParseTime(f) + 720
      BY <1>2, <1>3, <1>7, <2>2
    <3>2. /\ GridTime(a) < GridTime(f) <=> ParseTime(a) < ParseTime(f)
          /\ GridTime(e) < GridTime(b) <=> ParseTime(e) < ParseTime(b)
      BY <1>6, <2>1, <3>1
    <3>. QED
      BY <1>1, <1>5, <3>2, Zenon
  <2>3. CASE e[1] >= 8
    <3>1. f[1] >= 8
      BY <1>3, <1>4, <2>3
    <3>2. /\ ParseTime(e) >= 480 /\ GridTime(f) = ParseTime(f)
      BY <1>2, <1>7, <2>3, <3>1
    <3>3. ~(ParseTime(e) < ParseTime(b)) /\ ~(GridTime(a) < GridTime(f))
      BY <1>6, <2>1, <3>2
    <3>. QED
      BY <1>1, <1>5, <3>3, Zenon
  <2>. QED
    BY <1>4, <2>2, <2>3
<1>9. CASE a[1] >= 8
  <2>1. b[1] >= 8
    BY <1>3, <1>4, <1>9
  <2>2. ParseTime(a) >= 480 /\ GridTime(a) = ParseTime(a) /\ GridTime(b) = ParseTime(b)
    BY <1>2, <1>7, <1>9, <2>1
  <2>3. CASE e[1] < 8
    <3>1. ParseTime(f) < 480 /\ GridTime(e) = ParseTime(e) + 720
      BY <1>2, <1>3, <1>7, <2>3
    <3>2. ~(ParseTime(a) < ParseTime(f)) /\ ~(GridTime(e) < GridTime(b))
      BY <1>6, <2>2, <3>1
    <3>. QED
      BY <1>1, <1>5, <3>2, Zenon
  <2>4. CASE e[1] >= 8
    <3>1. f[1] >= 8
      BY <1>3, <1>4, <2>4
    <3>2. GridTime(e) = ParseTime(e) /\ GridTime(f) = ParseTime(f)
      BY <1>2, <1>7, <2>4, <3>1
    <3>3. /\ GridTime(a) < GridTime(f) <=> ParseTime(a) < ParseTime(f)
          /\ GridTime(e) < GridTime(b) <=> ParseTime(e) < ParseTime(b)
      BY <2>2, <3>2, Zenon
    <3>. QED
      BY <1>1, <1>5, <3>3, Zenon
  <2>. QED
    BY <1>4, <2>3, <2>4
<1>. QED
  BY <1>4, <1>8, <1>9

\* The week marks exactly the rows that the API would have refused next to another one
\* shown, for any number of rows with any patterns that fit on it: grouping the
\* blocks and giving them columns finds the overlaps that hasTimeConflict finds.
THEOREM WeekMarksCollisions ==
    ASSUME NEW P, NEW k, Shown(P, k)
    PROVE  MarksCollisions(P)
<1>. SUFFICES ASSUME NEW i \in 1..k
              PROVE  (\E d \in Weekdays : i \in Marked(P, d))
                       <=> \E j \in 1..k \ {i} : HasTimeConflict(P[i], P[j])
  BY DEF MarksCollisions, Shown
<1>1. \A j \in 1..k : OnTheGrid(P[j]) \/ P[j] = Unsplit
  BY DEF Shown
<1>2. ASSUME NEW d \in Weekdays, i \in Marked(P, d)
      PROVE  \E j \in 1..k \ {i} : HasTimeConflict(P[i], P[j])
  <2>1. d \in P[i].days
    BY <1>2, RowMarked
  <2>2. PICK j \in 1..k \ {i} : d \in P[j].days /\ Cross(Block(P, i), Block(P, j))
    BY <1>2, RowMarked
  <2>3. OnTheGrid(P[i]) /\ OnTheGrid(P[j])
    BY <1>1, <2>1, <2>2 DEF Unsplit
  <2>4. GridTime(P[i].from) < GridTime(P[j].to) /\ GridTime(P[j].from) < GridTime(P[i].to)
    BY <2>2 DEF Cross, Block
  <2>. QED
    BY <2>1, <2>2, <2>3, <2>4, ConflictByTheClock
<1>3. ASSUME NEW j \in 1..k \ {i}, HasTimeConflict(P[i], P[j])
      PROVE  \E d \in Weekdays : i \in Marked(P, d)
  <2>1. P[i].days # {} /\ P[j].days # {}
    BY <1>3 DEF HasTimeConflict, ParseMeetingPattern
  <2>2. OnTheGrid(P[i]) /\ OnTheGrid(P[j])
    BY <1>1, <2>1 DEF Unsplit
  <2>3. PICK d : d \in P[i].days /\ d \in P[j].days
    BY <1>3, <2>2, ConflictByTheClock
  <2>4. GridTime(P[i].from) < GridTime(P[j].to) /\ GridTime(P[j].from) < GridTime(P[i].to)
    BY <1>3, <2>2, ConflictByTheClock
  <2>5. Cross(Block(P, i), Block(P, j))
    BY <2>4 DEF Cross, Block
  <2>6. d \in Weekdays
    BY <2>2, <2>3 DEF OnTheGrid
  <2>. QED
    BY <2>3, <2>5, <2>6, RowMarked
<1>. QED
  BY <1>2, <1>3

\* What a student holds is never shown with a mark missing, or with one too many.
THEOREM GridCorrect == Spec => []GridShowsCollisions
<1>1. Misread = {}
  <2>. SUFFICES ASSUME NEW P \in Weeks PROVE MarksCollisions(P)
    BY DEF Misread
  <2>1. DOMAIN P = 1..3 /\ \A i \in 1..3 : OnTheGrid(P[i]) \/ P[i] = Unsplit
    BY DEF Weeks
  <2>2. Shown(P, 3)
    BY <2>1 DEF Shown
  <2>. QED
    BY <2>2, WeekMarksCollisions
<1>2. GridShowsCollisions
  BY <1>1 DEF GridShowsCollisions
<1>. QED
  BY <1>2, PTL
=============================================================================
