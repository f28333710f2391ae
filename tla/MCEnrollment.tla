---------------------------- MODULE MCEnrollment ----------------------------
(* Instances of Enrollment for TLC: values for its function constants. *)
EXTENDS Enrollment, TLC

OneCourse == [s \in Sections |-> 1]
CoursePerSection == [s \in Sections |-> s]
ThreeCredits == [s \in Sections |-> 3]
NoOverlap == {}
EveryoneQualified == [s \in Sections |-> Students]
CapOfSix == [u \in Students |-> 6]
OpenToAll == [u \in Students |-> 0]
\* Sections 1 and 2 are of one course.
PairedCourses == [s \in Sections |-> IF s = 1 THEN 2 ELSE s]
OneSeat == [s \in Sections |-> 1]
OneAndTwoSeats == [s \in Sections |-> IF s = 1 THEN 1 ELSE 2]

\* Seats move and slots are interchangeable: ids, students and slots may be
\* permuted (no constant above tells them apart).
Interchangeable ==
    Permutations(Ids) \cup Permutations(Students)
      \cup Permutations(Clients) \cup Permutations(Workers)

\* Row ids are used in order: which unused one an INSERT gets is immaterial.
IdsInOrder ==
    \A i, j \in Ids : /\ enr[i] = Unused /\ enr'[i] # Unused
                      /\ j < i
                      => enr[j] # Unused
=============================================================================
