---------------------------- MODULE MCContended ----------------------------
(* One section under contention, for TLC.  A resident takes the first seat  *)
(* and keeps it, so that everybody else meets a section that is full until  *)
(* its capacity grows.                                                      *)
EXTENDS MCEnrollment, Views

CONSTANTS Resident, ResidentRow

ASSUME ResidentAssumption == Resident \in Students /\ ResidentRow \in Ids

Others ==
    Permutations(Ids \ {ResidentRow}) \cup Permutations(Students \ {Resident})
      \cup Permutations(Clients)

\* Requests are the resident's while its row is unused, and the others' after it.
ResidentStays ==
    /\ \A t \in Clients : txn[t] = Idle /\ txn'[t] # Idle =>
          (txn'[t].student = Resident <=> enr[ResidentRow] = Unused)
    /\ \A i \in Ids : enr[i] = Unused /\ enr'[i] # Unused =>
          (enr'[i].student = Resident <=> i = ResidentRow)
=============================================================================
