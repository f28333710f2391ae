------------------------------- MODULE Views -------------------------------
(* What a request reads from the tables of Enrollment: the place of a       *)
(* waiting student, which the API computes in three ways, behind the guards *)
(* of the route (auth/guards/). Each operator is the answer given from one  *)
(* committed state.                                                         *)
EXTENDS Enrollment, SequencesExt

\* How many of the section's waiting rows stand at position p or before it.
RankBefore(s, p) == Cardinality({i \in Waiting(s) : enr[i].pos < p})
ComputeRank(s, p) == Cardinality({i \in Waiting(s) : enr[i].pos <= p})

\* ORDER BY waitlistPosition.
ByPosition(S) ==
    CHOOSE o \in SetToSeqs(S) :
       \A m, n \in DOMAIN o : m < n => enr[o[m]].pos <= enr[o[n]].pos

\* row_number() over each section, looked up by section and position; rows that
\* shared a position would share the last of their numbers.
ComputeRanks(R) ==
    LET numbers(i) == LET seq == ByPosition(Waiting(enr[i].section))
                      IN  {n \in DOMAIN seq : enr[seq[n]].pos = enr[i].pos}
    IN  [i \in R |-> CHOOSE n \in numbers(i) : \A k \in numbers(i) : k <= n]

\* The staff's list of one section: the rows in order, numbered on reading.
ListForSection(s) == ByPosition(Waiting(s))

\* A student's own rows; the waiting ones with their rank.
ListMine(u) ==
    LET rows == {i \in Ids : enr[i] # Unused /\ enr[i].student = u}
        ranks == ComputeRanks({i \in rows : enr[i].status = "WAITLISTED"})
    IN  [i \in rows |-> [status |-> enr[i].status,
                         rank |-> IF i \in DOMAIN ranks THEN ranks[i] ELSE None]]

FindOne(i) ==
    LET s == enr[i].section
    IN  [status |-> enr[i].status, section |-> s,
         rank |-> IF enr[i].status = "WAITLISTED" THEN ComputeRank(s, enr[i].pos) ELSE None]

\* The sections of a course as its page shows them to student u: what is free, how
\* many wait, and the student's own row, an enrolled one before a waiting one.
Best(u, s) ==
    LET rows == ActiveIn(u, s)
    IN  IF rows \cap Seated(s) # {} THEN rows \cap Seated(s) ELSE rows
ResolveViewerEnrollments(u, S) ==
    LET best == UNION {Best(u, s) : s \in S}
        ranks == ComputeRanks({i \in best : enr[i].status = "WAITLISTED"})
    IN  [s \in {enr[i].section : i \in best} |->
            LET i == CHOOSE j \in best : enr[j].section = s
            IN  [id |-> i, status |-> enr[i].status,
                 rank |-> IF i \in DOMAIN ranks THEN ranks[i] ELSE None]]
GetCourse(c, u) ==
    LET S == {s \in Sections : CourseOf[s] = c}
        viewer == ResolveViewerEnrollments(u, S)
    IN  [s \in S |->
            [seatsAvailable |-> IF Free(s) > 0 THEN Free(s) ELSE 0,
             waitlistCount |-> Cardinality(Waiting(s)),
             viewerEnrollment |-> IF s \in DOMAIN viewer THEN viewer[s] ELSE None]]

RolesGuard(user, required) == user.roles \cap required # {}

\* A malformed id, an absent row and another advisor's student answer alike.
EnrollmentOwnershipGuard(user, i) ==
    IF "ADMIN" \in user.roles THEN "pass"
    ELSE IF enr[i] = Unused THEN "not found"
    ELSE IF enr[i].student = user.sub THEN "pass"
    ELSE IF "ADVISOR" \notin user.roles THEN "forbidden"
    ELSE IF enr[i].student \in user.advisees THEN "pass" ELSE "not found"

\* GET /enrollments/:id, refused or answered; ADMIN passes the guard and finds
\* no row only in the service.
GetOne(user, i) ==
    IF ~RolesGuard(user, {"STUDENT", "ADVISOR", "ADMIN"}) THEN "forbidden"
    ELSE LET guard == EnrollmentOwnershipGuard(user, i)
         IN  IF guard # "pass" THEN guard
             ELSE IF enr[i] = Unused THEN "not found" ELSE FindOne(i)
-----------------------------------------------------------------------------
\* The readers of a row: its student, an advisor of every student and of none,
\* an administrator.
Student(u) == [roles |-> {"STUDENT"}, sub |-> u, advisees |-> {}]
Advisor(R) == [roles |-> {"ADVISOR"}, sub |-> None, advisees |-> R]
Admin == [roles |-> {"ADMIN"}, sub |-> None, advisees |-> {}]

\* Row i is shown at place n of the waitlist of s, to everybody who may see it.
ShownAt(i, s, n) ==
    LET u == enr[i].student
        shown == GetCourse(CourseOf[s], u)[s]
    IN  /\ ListMine(u)[i].rank = n
        /\ shown.viewerEnrollment.rank = n /\ shown.waitlistCount = Len(ListForSection(s))
        /\ \A user \in {Student(u), Advisor(Students), Admin} : GetOne(user, i).rank = n
        /\ \A w \in Students \ {u} : GetOne(Student(w), i) = "forbidden"
        /\ GetOne(Advisor({}), i) = "not found"

\* The place shown to a waiting student (their list, their row, the page of the
\* course), to their advisor and to an administrator is one number, the row's place
\* in the list the staff reorder; 1 is next, and no number is missing. It needs
\* positions that are distinct at every step of enrolls, drops, swaps, promotions
\* and reorders (computeRank, computeRanks and listForSection count in three ways).
RanksAgree ==
    \A s \in Sections : \A n \in DOMAIN ListForSection(s) : ShownAt(ListForSection(s)[n], s, n)
=============================================================================
