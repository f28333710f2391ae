----------------------------- MODULE SeedProofs -----------------------------
(***************************************************************************)
(* The seed script gets through its wipe on any database whose foreign keys*)
(* hold, and leaves counters and waitlists that agree with the rows, for   *)
(* any roster and capacities, wherever earlier runs died.                  *)
(***************************************************************************)
EXTENDS Seed, SequenceTheorems, FiniteSetTheorems, TLAPS

-----------------------------------------------------------------------------
(* The script, statement by statement *)

Names == Tables \cup {"organic", "hot", "selfDrop", "expire", "patch", "notify"}
Statement == [op : {"wipe", "fill", "pass"}, on : Names]
Filled == TermRows \o CatalogRows \o SectionRows \o PeopleRows \o HoldRows \o TranscriptRows

\* What the script fills, in order.
LEMMA FilledIs ==
    /\ Filled \in Seq(Names) /\ Len(Filled) = 11
    /\ Filled[1] = "term" /\ Filled[2] = "registrationWindow" /\ Filled[3] = "term"
    /\ Filled[4] = "course" /\ Filled[5] = "coursePrerequisite" /\ Filled[6] = "section"
    /\ Filled[7] = "user" /\ Filled[8] = "advisorHold" /\ Filled[9] = "overloadApproval"
    /\ Filled[10] = "section" /\ Filled[11] = "enrollment"
<1>. DEFINE A == TermRows \o CatalogRows
<1>. DEFINE B == A \o SectionRows
<1>. DEFINE C == B \o PeopleRows
<1>. DEFINE D == C \o HoldRows
<1>. HIDE DEF A, B, C, D
<1>1. /\ TermRows \in Seq(Names) /\ CatalogRows \in Seq(Names) /\ SectionRows \in Seq(Names)
      /\ PeopleRows \in Seq(Names) /\ HoldRows \in Seq(Names) /\ TranscriptRows \in Seq(Names)
      /\ Len(TermRows) = 3 /\ Len(CatalogRows) = 2 /\ Len(SectionRows) = 1
      /\ Len(PeopleRows) = 1 /\ Len(HoldRows) = 2 /\ Len(TranscriptRows) = 2
  BY DEF TermRows, CatalogRows, SectionRows, PeopleRows, HoldRows, TranscriptRows, Names, Tables, References
<1>2. /\ A \in Seq(Names) /\ Len(A) = 5
      /\ \A k \in 1..5 : A[k] = IF k <= 3 THEN TermRows[k] ELSE CatalogRows[k - 3]
  <2>0. TermRows \in Seq(Names) /\ CatalogRows \in Seq(Names)
    BY <1>1
  <2>1. /\ TermRows \o CatalogRows \in Seq(Names) /\ Len(TermRows \o CatalogRows) = Len(TermRows) + Len(CatalogRows)
        /\ \A k \in 1..(Len(TermRows) + Len(CatalogRows)) :
              (TermRows \o CatalogRows)[k] = IF k <= Len(TermRows) THEN TermRows[k] ELSE CatalogRows[k - Len(TermRows)]
    BY <2>0, ConcatProperties, Zenon
  <2>2. Len(TermRows) = 3 /\ Len(CatalogRows) = 2 /\ TermRows \o CatalogRows = A
    BY <1>1 DEF A
  <2>. HIDE DEF A
  <2>. QED
    BY ONLY <2>1, <2>2
<1>3. /\ B \in Seq(Names) /\ Len(B) = 6
      /\ \A k \in 1..6 : B[k] = IF k <= 5 THEN A[k] ELSE SectionRows[k - 5]
  <2>0. A \in Seq(Names) /\ SectionRows \in Seq(Names)
    BY <1>1, <1>2
  <2>1. /\ A \o SectionRows \in Seq(Names) /\ Len(A \o SectionRows) = Len(A) + Len(SectionRows)
        /\ \A k \in 1..(Len(A) + Len(SectionRows)) :
              (A \o SectionRows)[k] = IF k <= Len(A) THEN A[k] ELSE SectionRows[k - Len(A)]
    BY <2>0, ConcatProperties, Zenon
  <2>2. Len(A) = 5 /\ Len(SectionRows) = 1 /\ A \o SectionRows = B
    BY <1>1, <1>2 DEF B
  <2>. HIDE DEF B
  <2>. QED
    BY ONLY <2>1, <2>2
<1>4. /\ C \in Seq(Names) /\ Len(C) = 7
      /\ \A k \in 1..7 : C[k] = IF k <= 6 THEN B[k] ELSE PeopleRows[k - 6]
  <2>0. B \in Seq(Names) /\ PeopleRows \in Seq(Names)
    BY <1>1, <1>3
  <2>1. /\ B \o PeopleRows \in Seq(Names) /\ Len(B \o PeopleRows) = Len(B) + Len(PeopleRows)
        /\ \A k \in 1..(Len(B) + Len(PeopleRows)) :
              (B \o PeopleRows)[k] = IF k <= Len(B) THEN B[k] ELSE PeopleRows[k - Len(B)]
    BY <2>0, ConcatProperties, Zenon
  <2>2. Len(B) = 6 /\ Len(PeopleRows) = 1 /\ B \o PeopleRows = C
    BY <1>1, <1>3 DEF C
  <2>. HIDE DEF C
  <2>. QED
    BY ONLY <2>1, <2>2
<1>5. /\ D \in Seq(Names) /\ Len(D) = 9
      /\ \A k \in 1..9 : D[k] = IF k <= 7 THEN C[k] ELSE HoldRows[k - 7]
  <2>0. C \in Seq(Names) /\ HoldRows \in Seq(Names)
    BY <1>1, <1>4
  <2>1. /\ C \o HoldRows \in Seq(Names) /\ Len(C \o HoldRows) = Len(C) + Len(HoldRows)
        /\ \A k \in 1..(Len(C) + Len(HoldRows)) :
              (C \o HoldRows)[k] = IF k <= Len(C) THEN C[k] ELSE HoldRows[k - Len(C)]
    BY <2>0, ConcatProperties, Zenon
  <2>2. Len(C) = 7 /\ Len(HoldRows) = 2 /\ C \o HoldRows = D
    BY <1>1, <1>4 DEF D
  <2>. HIDE DEF D
  <2>. QED
    BY ONLY <2>1, <2>2
<1>6. Filled = D \o TranscriptRows
  BY DEF Filled, A, B, C, D
<1>7. /\ Filled \in Seq(Names) /\ Len(Filled) = 11
      /\ \A k \in 1..11 : Filled[k] = IF k <= 9 THEN D[k] ELSE TranscriptRows[k - 9]
  <2>0. D \in Seq(Names) /\ TranscriptRows \in Seq(Names)
    BY <1>1, <1>5
  <2>1. /\ D \o TranscriptRows \in Seq(Names) /\ Len(D \o TranscriptRows) = Len(D) + Len(TranscriptRows)
        /\ \A k \in 1..(Len(D) + Len(TranscriptRows)) :
              (D \o TranscriptRows)[k] = IF k <= Len(D) THEN D[k] ELSE TranscriptRows[k - Len(D)]
    BY <2>0, ConcatProperties, Zenon
  <2>2. Len(D) = 9 /\ Len(TranscriptRows) = 2 /\ D \o TranscriptRows = Filled
    BY <1>1, <1>5, <1>6
  <2>. QED
    BY ONLY <2>1, <2>2
<1>8. /\ D[1] = "term" /\ D[2] = "registrationWindow" /\ D[3] = "term"
      /\ D[4] = "course" /\ D[5] = "coursePrerequisite" /\ D[6] = "section"
      /\ D[7] = "user" /\ D[8] = "advisorHold" /\ D[9] = "overloadApproval"
  <2>1. /\ TermRows[1] = "term" /\ TermRows[2] = "registrationWindow" /\ TermRows[3] = "term"
        /\ CatalogRows[1] = "course" /\ CatalogRows[2] = "coursePrerequisite"
        /\ SectionRows[1] = "section" /\ PeopleRows[1] = "user"
        /\ HoldRows[1] = "advisorHold" /\ HoldRows[2] = "overloadApproval"
    BY DEF TermRows, CatalogRows, SectionRows, PeopleRows, HoldRows
  <2>2. A[1] = "term" /\ A[2] = "registrationWindow" /\ A[3] = "term"
        /\ A[4] = "course" /\ A[5] = "coursePrerequisite"
    BY ONLY <1>2, <2>1
  <2>3. /\ D[1] = A[1] /\ D[2] = A[2] /\ D[3] = A[3] /\ D[4] = A[4] /\ D[5] = A[5]
        /\ D[6] = SectionRows[1] /\ D[7] = PeopleRows[1] /\ D[8] = HoldRows[1] /\ D[9] = HoldRows[2]
    BY ONLY <1>3, <1>4, <1>5
  <2>. QED
    BY <2>1, <2>2, <2>3
<1>9. TranscriptRows[1] = "section" /\ TranscriptRows[2] = "enrollment"
  BY DEF TranscriptRows
<1>. QED
  BY ONLY <1>7, <1>8, <1>9

\* Statements of one kind.
LEMMA StatementsAre ==
    ASSUME NEW op \in {"wipe", "fill", "pass"}, NEW names \in Seq(Names)
    PROVE  /\ Statements(op, names) \in Seq(Statement)
           /\ Len(Statements(op, names)) = Len(names)
           /\ \A k \in 1..Len(names) : Statements(op, names)[k] = [op |-> op, on |-> names[k]]
<1>1. Len(names) \in Nat /\ DOMAIN names = 1..Len(names) /\ \A k \in 1..Len(names) : names[k] \in Names
  BY LenProperties, ElementOfSeq
<1>. DEFINE list == Statements(op, names)
            n == Len(names)
<1>2. list \in [1..n -> Statement]
  BY <1>1 DEF Statements, Statement
<1>3. DOMAIN list = 1..n /\ \A k \in 1..n : list[k] = [op |-> op, on |-> names[k]]
  BY <1>1 DEF Statements
<1>. HIDE DEF list
<1>4. list \in Seq(Statement)
  <2>1. n \in Nat
    BY <1>1
  <2>. HIDE DEF n
  <2>. QED
    BY ONLY <1>2, <2>1, SeqDef
<1>5. Len(list) = n
  <2>1. n \in Nat
    BY <1>1
  <2>. HIDE DEF n
  <2>2. DOMAIN list = 1..Len(list) /\ Len(list) \in Nat
    BY ONLY <1>4, LenProperties
  <2>. QED
    BY ONLY <1>3, <2>1, <2>2
<1>. QED
  BY <1>3, <1>4, <1>5 DEF list

\* Ten statements wipe, eleven fill, six walk over the enrollments.
LEMMA MainIs ==
    /\ \A k \in 1..10 : Main[k] = [op |-> "wipe", on |-> Wiped[k]]
    /\ \A k \in 11..21 : Main[k] = [op |-> "fill", on |-> Filled[k - 10]]
    /\ \A k \in 22..27 : Main[k] = [op |-> "pass", on |-> Passes[k - 21]]
<1>. DEFINE W == Statements("wipe", Wiped)
<1>. DEFINE F == Statements("fill", Filled)
<1>. DEFINE P == Statements("pass", Passes)
<1>. DEFINE H == W \o F
<1>. HIDE DEF H
<1>1. Wiped \in Seq(Names) /\ Len(Wiped) = 10 /\ Passes \in Seq(Names) /\ Len(Passes) = 6
  BY DEF Wiped, Passes, Names, Tables, References
<1>2. /\ W \in Seq(Statement) /\ Len(W) = 10
      /\ \A k \in 1..10 : W[k] = [op |-> "wipe", on |-> Wiped[k]]
  BY <1>1, StatementsAre
<1>3. /\ F \in Seq(Statement) /\ Len(F) = 11
      /\ \A k \in 1..11 : F[k] = [op |-> "fill", on |-> Filled[k]]
  BY FilledIs, StatementsAre
<1>4. /\ P \in Seq(Statement) /\ Len(P) = 6
      /\ \A k \in 1..6 : P[k] = [op |-> "pass", on |-> Passes[k]]
  BY <1>1, StatementsAre
<1>. HIDE DEF W, F, P
<1>5. /\ H \in Seq(Statement) /\ Len(H) = 21
      /\ \A k \in 1..21 : H[k] = IF k <= 10 THEN W[k] ELSE F[k - 10]
  <2>0. W \in Seq(Statement) /\ F \in Seq(Statement)
    BY <1>2, <1>3
  <2>1. /\ W \o F \in Seq(Statement) /\ Len(W \o F) = Len(W) + Len(F)
        /\ \A k \in 1..(Len(W) + Len(F)) :
              (W \o F)[k] = IF k <= Len(W) THEN W[k] ELSE F[k - Len(W)]
    BY <2>0, ConcatProperties, Zenon
  <2>2. Len(W) = 10 /\ Len(F) = 11 /\ W \o F = H
    BY <1>2, <1>3 DEF H
  <2>. HIDE DEF H
  <2>. QED
    BY ONLY <2>1, <2>2
<1>6. H \o P = Main
  BY DEF Main, Filled, H, W, F, P
<1>7. /\ Main \in Seq(Statement) /\ Len(Main) = 27
      /\ \A k \in 1..27 : Main[k] = IF k <= 21 THEN H[k] ELSE P[k - 21]
  <2>0. H \in Seq(Statement) /\ P \in Seq(Statement)
    BY <1>4, <1>5
  <2>1. /\ H \o P \in Seq(Statement) /\ Len(H \o P) = Len(H) + Len(P)
        /\ \A k \in 1..(Len(H) + Len(P)) :
              (H \o P)[k] = IF k <= Len(H) THEN H[k] ELSE P[k - Len(H)]
    BY <2>0, ConcatProperties, Zenon
  <2>2. Len(H) = 21 /\ Len(P) = 6 /\ H \o P = Main
    BY <1>4, <1>5, <1>6
  <2>. QED
    BY ONLY <2>1, <2>2
<1>8. \A k \in 1..10 : Main[k] = W[k]
  <2>. SUFFICES ASSUME NEW k \in 1..10 PROVE Main[k] = W[k]
    OBVIOUS
  <2>1. k \in 1..27 /\ k <= 21 /\ k \in 1..21 /\ k <= 10
    OBVIOUS
  <2>2. Main[k] = H[k]
    BY ONLY <1>7, <2>1, Zenon
  <2>3. H[k] = W[k]
    BY ONLY <1>5, <2>1, Zenon
  <2>. QED
    BY <2>2, <2>3
<1>9. \A k \in 11..21 : Main[k] = F[k - 10] /\ k - 10 \in 1..11
  <2>. SUFFICES ASSUME NEW k \in 11..21 PROVE Main[k] = F[k - 10] /\ k - 10 \in 1..11
    OBVIOUS
  <2>1. k \in 1..27 /\ k <= 21 /\ k \in 1..21 /\ ~(k <= 10) /\ k - 10 \in 1..11
    OBVIOUS
  <2>2. Main[k] = H[k]
    BY ONLY <1>7, <2>1, Zenon
  <2>3. H[k] = F[k - 10]
    BY ONLY <1>5, <2>1, Zenon
  <2>. QED
    BY <2>1, <2>2, <2>3
<1>10. \A k \in 22..27 : Main[k] = P[k - 21] /\ k - 21 \in 1..6
  <2>. SUFFICES ASSUME NEW k \in 22..27 PROVE Main[k] = P[k - 21] /\ k - 21 \in 1..6
    OBVIOUS
  <2>1. k \in 1..27 /\ ~(k <= 21) /\ k - 21 \in 1..6
    OBVIOUS
  <2>2. Main[k] = P[k - 21]
    BY ONLY <1>7, <2>1, Zenon
  <2>. QED
    BY <2>1, <2>2
<1>. QED
  BY ONLY <1>2, <1>3, <1>4, <1>8, <1>9, <1>10, Zenon

\* Where a run is tells what it does next.
LEMMA StatementAt ==
    ASSUME NEW k \in 1..27
    PROVE  /\ Main[k].op = "wipe" <=> k <= 10
           /\ Main[k].op = "fill" <=> k \in 11..21
           /\ Main[k].op = "pass" <=> k >= 22
           /\ k <= 10 => Main[k].on = Wiped[k]
           /\ k \in 11..21 => Main[k].on = Filled[k - 10]
           /\ k >= 22 => Main[k].on = Passes[k - 21]
<1>1. CASE k \in 1..10
  <2>1. Main[k] = [op |-> "wipe", on |-> Wiped[k]]
    BY <1>1, MainIs
  <2>. QED
    BY <1>1, <2>1
<1>2. CASE k \in 11..21
  <2>1. Main[k] = [op |-> "fill", on |-> Filled[k - 10]]
    BY <1>2, MainIs
  <2>. QED
    BY <1>2, <2>1
<1>3. CASE k \in 22..27
  <2>1. Main[k] = [op |-> "pass", on |-> Passes[k - 21]]
    BY <1>3, MainIs
  <2>. QED
    BY <1>3, <2>1
<1>. QED
  BY <1>1, <1>2, <1>3

\* The passes over the enrollments, by name.
LEMMA PassAt ==
    ASSUME at \in 0..27
    PROVE  /\ InPass("organic") <=> at = 22
           /\ InPass("hot") <=> at = 23
           /\ InPass("selfDrop") <=> at = 24
           /\ InPass("expire") <=> at = 25
           /\ InPass("patch") <=> at = 26
           /\ InPass("notify") <=> at = 27
<1>1. /\ Passes[1] = "organic" /\ Passes[2] = "hot" /\ Passes[3] = "selfDrop"
      /\ Passes[4] = "expire" /\ Passes[5] = "patch" /\ Passes[6] = "notify"
  BY DEF Passes
<1>2. CASE at < 22
  BY <1>2, StatementAt DEF InPass, Doing, Seeding
<1>3. CASE at \in {22, 23, 24, 25, 26, 27}
  <2>1. at \in 1..27 /\ at > 0 /\ Main[at].op = "pass" /\ Main[at].on = Passes[at - 21]
    BY <1>3, StatementAt
  <2>. QED
    BY <1>1, <1>3, <2>1 DEF InPass, Doing, Seeding
<1>. QED
  BY <1>2, <1>3

-----------------------------------------------------------------------------
(* The wipe and the fill *)

\* What is wiped stays wiped until the fill begins, and what is filled stays.
TablesInv ==
    /\ at \in 0..27 /\ filled \subseteq Tables
    /\ \A k \in 1..10 : k < at /\ at <= 10 => Wiped[k] \notin filled
    /\ \A k \in 11..21 : k < at => Filled[k - 10] \in filled

\* No statement of the wipe or the fill is refused by a foreign key.
LEMMA NothingRefuses ==
    ASSUME TablesInv PROVE WipeNeverBlocked
<1>1. ASSUME Doing("wipe") PROVE ~Blocked(Main[at].on)
  <2>1. at \in 1..10 /\ Main[at].on = Wiped[at]
    BY <1>1, StatementAt DEF TablesInv, Doing, Seeding
  <2>2. \A k \in 1..10 : k < at => Wiped[k] \notin filled
    BY <2>1 DEF TablesInv
  <2>3. \A u \in Tables : Wiped[at] \in References[u] => \E k \in 1..10 : k < at /\ Wiped[k] = u
    BY <2>1 DEF Wiped, References, Tables
  <2>. QED
    BY <2>1, <2>2, <2>3 DEF Blocked, TablesInv
<1>2. ASSUME Doing("fill") PROVE References[Main[at].on] \subseteq filled
  <2>1. at \in 11..21 /\ Main[at].on = Filled[at - 10]
    BY <1>2, StatementAt DEF TablesInv, Doing, Seeding
  <2>2. /\ at > 11 => Filled[1] \in filled
        /\ at > 14 => Filled[4] \in filled
        /\ at > 16 => Filled[6] \in filled
        /\ at > 17 => Filled[7] \in filled
    BY <2>1 DEF TablesInv
  <2>3. at \in {11, 12, 13, 14, 15, 16, 17, 18, 19, 20, 21}
    BY <2>1
  <2>. QED
    BY <2>1, <2>2, <2>3, FilledIs DEF References
<1>. QED
  BY <1>1, <1>2 DEF WipeNeverBlocked

LEMMA TablesInit ==
    ASSUME SeedInit PROVE TablesInv
BY DEF SeedInit, TablesInv

\* A run deletes ten tables and fills them again, in its order.
LEMMA TablesStep ==
    ASSUME TablesInv, [SeedNext]_seedVars PROVE TablesInv'
<1>1. ASSUME UNCHANGED <<at, filled>> PROVE TablesInv'
  BY <1>1 DEF TablesInv
<1>2. ASSUME at' = 0 \/ at' = 1, filled' \subseteq filled \cup {"notification"} PROVE TablesInv'
  BY <1>2 DEF TablesInv, Tables, References
<1>3. ASSUME at \in 22..26, at' \in {at, at + 1}, UNCHANGED filled PROVE TablesInv'
  BY <1>3 DEF TablesInv
<1>4. CASE Wipe
  <2>1. at \in 1..10 /\ Main[at].on = Wiped[at]
    BY <1>4, StatementAt DEF TablesInv, Doing, Seeding, Wipe
  <2>2. at' = at + 1 /\ filled' \subseteq filled /\ Wiped[at] \notin filled'
    BY <1>4, <2>1 DEF Wipe, NextStatement
  <2>. QED
    BY <2>1, <2>2 DEF TablesInv
<1>5. CASE Fill
  <2>1. at \in 11..21 /\ Main[at].on = Filled[at - 10]
    BY <1>5, StatementAt DEF TablesInv, Doing, Seeding, Fill
  <2>2. at' = at + 1 /\ filled' = filled \cup {Filled[at - 10]}
    BY <1>5, <2>1 DEF Fill, NextStatement
  <2>3. at \in {11, 12, 13, 14, 15, 16, 17, 18, 19, 20, 21}
    BY <2>1
  <2>4. Filled[at - 10] \in Tables
    BY <2>3, FilledIs DEF Tables, References
  <2>. QED
    BY <2>1, <2>2, <2>4 DEF TablesInv
<1>6. CASE Organic \/ HotSection \/ SelfDrop \/ ExpireRows \/ Patch
  <2>1. at \in 22..26
    BY <1>6, PassAt DEF TablesInv, Organic, HotSection, SelfDrop, ExpireRows, Patch
  <2>2. at' \in {at, at + 1} /\ UNCHANGED filled
    BY <1>6 DEF Organic, HotSection, SelfDrop, ExpireRows, Patch, NextStatement
  <2>. QED
    BY <1>3, <2>1, <2>2
<1>7. CASE StartSeed \/ NotifySeeded \/ Die
  BY <1>2, <1>7 DEF StartSeed, NotifySeeded, Die
<1>. QED
  BY <1>1, <1>4, <1>5, <1>6, <1>7 DEF SeedNext, seedVars

\* Neither the wipe nor the fill is stopped by a row that refers to another: for
\* any database whose foreign keys hold, wherever earlier runs died.
THEOREM WipeCorrect == SeedSpec => []WipeNeverBlocked
<1>1. SeedInit => TablesInv
  BY TablesInit
<1>2. TablesInv /\ [SeedNext]_seedVars => TablesInv'
  BY TablesStep
<1>3. TablesInv => WipeNeverBlocked
  BY NothingRefuses
<1>. QED
  BY <1>1, <1>2, <1>3, PTL DEF SeedSpec

-----------------------------------------------------------------------------
(* The rows and the two maps of the script *)

EnrolledOf(rows, s) == {e \in rows : e.section = s /\ e.status = "ENROLLED"}
IsRow(e) ==
    e \in [student : {e.student}, section : SectionsOf,
           status : {"ENROLLED", "WAITLISTED", "DROPPED"}, position : {e.position}]
Counts == [SectionsOf -> Nat]

\* The script's maps describe the rows it has made: one counts the enrolled, never
\* above capacity, the other bounds the positions, which differ.
Sound(rows, enrolled, waiting) ==
    /\ IsFiniteSet(rows) /\ \A e \in rows : IsRow(e)
    /\ enrolled \in Counts /\ waiting \in Counts
    /\ \A s \in SectionsOf :
          enrolled[s] = Cardinality(EnrolledOf(rows, s)) /\ enrolled[s] <= Seats[s]
    /\ \A e, f \in rows : e # f /\ e.section = f.section => e.student # f.student
    /\ \A e \in rows : e.status = "WAITLISTED" =>
          e.position \in Nat /\ e.position <= waiting[e.section]
    /\ \A e, f \in rows :
          /\ e # f /\ e.section = f.section
          /\ e.status = "WAITLISTED" /\ f.status = "WAITLISTED"
          => e.position # f.position

\* An empty table, and maps that count nothing.
LEMMA NothingSound == Sound({}, NoCounts, NoCounts)
<1>1. \A s \in SectionsOf : EnrolledOf({}, s) = {}
  BY DEF EnrolledOf
<1>2. NoCounts \in Counts /\ \A s \in SectionsOf : NoCounts[s] = 0 /\ 0 <= Seats[s]
  BY SeedAssumption DEF NoCounts, Counts, SectionsOf
<1>. QED
  BY <1>1, <1>2, FS_EmptySet DEF Sound

\* A new row of a student without one there: in the section, or behind its line.
LEMMA InsertSound ==
    ASSUME NEW rows, NEW enrolled, NEW waiting, Sound(rows, enrolled, waiting),
           NEW u, NEW s \in SectionsOf, \A e \in rows : ~(e.student = u /\ e.section = s)
    PROVE  /\ enrolled[s] < Seats[s] =>
                Sound(rows \cup {[student |-> u, section |-> s, status |-> "ENROLLED",
                                  position |-> None]},
                      [enrolled EXCEPT ![s] = @ + 1], waiting)
           /\ enrolled[s] >= Seats[s] =>
                Sound(rows \cup {[student |-> u, section |-> s, status |-> "WAITLISTED",
                                  position |-> waiting[s] + 1]},
                      enrolled, [waiting EXCEPT ![s] = @ + 1])
<1>0. /\ IsFiniteSet(rows) /\ enrolled \in Counts /\ waiting \in Counts
      /\ enrolled[s] \in Nat /\ waiting[s] \in Nat /\ Seats[s] \in Nat
      /\ \A z \in SectionsOf : IsFiniteSet(EnrolledOf(rows, z))
  BY SeedAssumption, FS_Subset DEF Sound, Counts, SectionsOf, EnrolledOf
<1>1. ASSUME enrolled[s] < Seats[s]
      PROVE  Sound(rows \cup {[student |-> u, section |-> s, status |-> "ENROLLED",
                               position |-> None]},
                   [enrolled EXCEPT ![s] = @ + 1], waiting)
  <2>. DEFINE row == [student |-> u, section |-> s, status |-> "ENROLLED", position |-> None]
  <2>. DEFINE more == rows \cup {row}
  <2>. DEFINE counted == [enrolled EXCEPT ![s] = @ + 1]
  <2>1. IsFiniteSet(more)
    BY <1>0, FS_AddElement
  <2>2. IsRow(row) /\ row \notin rows
    BY DEF IsRow
  <2>3. counted \in Counts
    BY <1>0 DEF Counts
  <2>4. EnrolledOf(more, s) = EnrolledOf(rows, s) \cup {row} /\ row \notin EnrolledOf(rows, s)
    BY <2>2 DEF EnrolledOf
  <2>5. \A z \in SectionsOf : z # s => EnrolledOf(more, z) = EnrolledOf(rows, z)
    BY DEF EnrolledOf
  <2>6. Cardinality(EnrolledOf(more, s)) = enrolled[s] + 1
    <3>1. IsFiniteSet(EnrolledOf(rows, s)) /\ enrolled[s] = Cardinality(EnrolledOf(rows, s))
      BY <1>0 DEF Sound
    <3>. QED
      BY <2>4, <3>1, FS_AddElement
  <2>7. counted[s] = enrolled[s] + 1 /\ \A z \in SectionsOf : z # s => counted[z] = enrolled[z]
    BY <1>0 DEF Counts
  <2>8. \A z \in SectionsOf :
           counted[z] = Cardinality(EnrolledOf(more, z)) /\ counted[z] <= Seats[z]
    BY <1>0, <1>1, <2>5, <2>6, <2>7 DEF Sound
  <2>9. \A e \in more : e = row \/ e \in rows
    OBVIOUS
  <2>10. row.student = u /\ row.section = s /\ row.status = "ENROLLED"
    OBVIOUS
  <2>. HIDE DEF row, more, counted
  <2>11. \A e, f \in more : e # f /\ e.section = f.section => e.student # f.student
    BY <2>9, <2>10 DEF Sound
  <2>12. \A e \in more : e.status = "WAITLISTED" => e \in rows
    BY <2>9, <2>10
  <2>13. Sound(more, counted, waiting)
    BY <2>1, <2>2, <2>3, <2>8, <2>9, <2>11, <2>12 DEF Sound
  <2>. QED
    BY <2>13 DEF row, more, counted
<1>2. ASSUME enrolled[s] >= Seats[s]
      PROVE  Sound(rows \cup {[student |-> u, section |-> s, status |-> "WAITLISTED",
                               position |-> waiting[s] + 1]},
                   enrolled, [waiting EXCEPT ![s] = @ + 1])
  <2>. DEFINE row == [student |-> u, section |-> s, status |-> "WAITLISTED",
                      position |-> waiting[s] + 1]
  <2>. DEFINE more == rows \cup {row}
  <2>. DEFINE counted == [waiting EXCEPT ![s] = @ + 1]
  <2>1. IsFiniteSet(more)
    BY <1>0, FS_AddElement
  <2>2. IsRow(row)
    BY DEF IsRow
  <2>3. counted \in Counts
    BY <1>0 DEF Counts
  <2>4. \A z \in SectionsOf : EnrolledOf(more, z) = EnrolledOf(rows, z)
    BY DEF EnrolledOf
  <2>5. counted[s] = waiting[s] + 1 /\ \A z \in SectionsOf : z # s => counted[z] = waiting[z]
    BY <1>0 DEF Counts
  <2>6. \A z \in SectionsOf : waiting[z] \in Nat
    BY <1>0 DEF Counts
  <2>9. \A e \in more : e = row \/ e \in rows
    OBVIOUS
  <2>10. row.student = u /\ row.section = s /\ row.position = waiting[s] + 1
    OBVIOUS
  <2>. HIDE DEF row, more, counted
  <2>11. \A e, f \in more : e # f /\ e.section = f.section => e.student # f.student
    BY <2>9, <2>10 DEF Sound
  <2>12. \A e \in more : e.status = "WAITLISTED" =>
            e.position \in Nat /\ e.position <= counted[e.section]
    <3>. SUFFICES ASSUME NEW e \in more, e.status = "WAITLISTED"
                  PROVE  e.position \in Nat /\ e.position <= counted[e.section]
      OBVIOUS
    <3>1. CASE e = row
      BY <1>0, <2>5, <2>10, <3>1
    <3>2. CASE e \in rows
      <4>1. e.section \in SectionsOf /\ e.position \in Nat /\ e.position <= waiting[e.section]
        BY <3>2 DEF Sound, IsRow
      <4>. QED
        BY <2>5, <2>6, <4>1
    <3>. QED
      BY <2>9, <3>1, <3>2
  <2>13. \A e \in rows : e.status = "WAITLISTED" /\ e.section = s => e.position # row.position
    <3>. SUFFICES ASSUME NEW e \in rows, e.status = "WAITLISTED", e.section = s
                  PROVE  e.position # waiting[s] + 1
      BY <2>10
    <3>1. e.position \in Nat /\ e.position <= waiting[s]
      BY DEF Sound
    <3>. QED
      BY <1>0, <3>1
  <2>14. \A e, f \in more :
            /\ e # f /\ e.section = f.section
            /\ e.status = "WAITLISTED" /\ f.status = "WAITLISTED"
            => e.position # f.position
    BY <2>9, <2>10, <2>13 DEF Sound
  <2>15. \A z \in SectionsOf :
            enrolled[z] = Cardinality(EnrolledOf(more, z)) /\ enrolled[z] <= Seats[z]
    BY <2>4 DEF Sound
  <2>16. Sound(more, enrolled, counted)
    BY <1>0, <2>1, <2>2, <2>3, <2>9, <2>11, <2>12, <2>14, <2>15 DEF Sound
  <2>. QED
    BY <2>16 DEF row, more, counted
<1>. QED
  BY <1>1, <1>2

\* A row that is dropped: out of the count if it was enrolled.
LEMMA DropSound ==
    ASSUME NEW rows, NEW enrolled, NEW waiting, Sound(rows, enrolled, waiting),
           NEW e \in rows, NEW left,
           left = (rows \ {e}) \cup {[e EXCEPT !.status = "DROPPED", !.position = None]}
    PROVE  /\ e.status = "ENROLLED" =>
                Sound(left, [enrolled EXCEPT ![e.section] = @ - 1], waiting)
           /\ e.status = "WAITLISTED" => Sound(left, enrolled, waiting)
<1>. DEFINE row == [e EXCEPT !.status = "DROPPED", !.position = None]
<1>. DEFINE s == e.section
<1>0. /\ IsFiniteSet(rows) /\ enrolled \in Counts /\ waiting \in Counts
      /\ s \in SectionsOf /\ enrolled[s] \in Nat
      /\ \A z \in SectionsOf : IsFiniteSet(EnrolledOf(rows, z))
  BY FS_Subset DEF Sound, Counts, EnrolledOf, IsRow
<1>1. /\ row.student = e.student /\ row.section = e.section /\ row.status = "DROPPED"
      /\ IsRow(row)
  <2>1. IsRow(e)
    BY DEF Sound
  <2>2. row \in [student : {e.student}, section : SectionsOf, status : {"DROPPED"},
                 position : {None}]
    BY <2>1 DEF IsRow
  <2>. HIDE DEF row
  <2>3. row.student = e.student /\ row.status = "DROPPED" /\ row.position = None
    BY <2>2
  <2>4. row.section = e.section
    BY <2>1 DEF IsRow, row
  <2>. QED
    BY <2>2, <2>3, <2>4 DEF IsRow
<1>. HIDE DEF row
<1>2. left = (rows \ {e}) \cup {row}
  BY DEF row
<1>3. \A f \in left : f = row \/ (f \in rows /\ f # e)
  BY <1>2
<1>4. IsFiniteSet(left) /\ \A f \in left : IsRow(f)
  <2>1. IsFiniteSet(rows \ {e})
    BY <1>0, FS_Subset
  <2>2. IsFiniteSet(left)
    BY <1>2, <2>1, FS_AddElement
  <2>. QED
    BY <1>1, <1>3, <2>2 DEF Sound
<1>5. \A f, g \in left : f # g /\ f.section = g.section => f.student # g.student
  BY <1>1, <1>3 DEF Sound
<1>6. \A f \in left : f.status = "WAITLISTED" => f \in rows
  BY <1>1, <1>3
<1>7. \A z \in SectionsOf : EnrolledOf(left, z) = EnrolledOf(rows, z) \ {e}
  BY <1>1, <1>2 DEF EnrolledOf
<1>8. ASSUME e.status = "ENROLLED"
      PROVE  Sound(left, [enrolled EXCEPT ![s] = @ - 1], waiting)
  <2>. DEFINE counted == [enrolled EXCEPT ![s] = @ - 1]
  <2>1. e \in EnrolledOf(rows, s)
    BY <1>8 DEF EnrolledOf
  <2>2. /\ Cardinality(EnrolledOf(left, s)) = enrolled[s] - 1
        /\ Cardinality(EnrolledOf(left, s)) \in Nat
    <3>. HIDE DEF s
    <3>1. IsFiniteSet(EnrolledOf(rows, s)) /\ EnrolledOf(left, s) = EnrolledOf(rows, s) \ {e}
      BY <1>0, <1>7
    <3>2. /\ IsFiniteSet(EnrolledOf(left, s))
          /\ Cardinality(EnrolledOf(left, s)) = Cardinality(EnrolledOf(rows, s)) - 1
      BY <2>1, <3>1, FS_RemoveElement
    <3>. QED
      BY <1>0, <3>2, FS_CardinalityType DEF Sound
  <2>3. \A z \in SectionsOf : z # s => EnrolledOf(left, z) = EnrolledOf(rows, z)
    BY <1>7 DEF EnrolledOf
  <2>4. counted \in Counts
    BY <1>0, <2>2 DEF Counts
  <2>5. counted[s] = enrolled[s] - 1 /\ \A z \in SectionsOf : z # s => counted[z] = enrolled[z]
    BY <1>0 DEF Counts
  <2>6. \A z \in SectionsOf : Seats[z] \in Nat
    BY SeedAssumption DEF SectionsOf
  <2>. HIDE DEF s, counted
  <2>7. \A z \in SectionsOf :
           counted[z] = Cardinality(EnrolledOf(left, z)) /\ counted[z] <= Seats[z]
    BY <1>0, <2>2, <2>3, <2>5, <2>6 DEF Sound
  <2>8. Sound(left, counted, waiting)
    BY <1>0, <1>4, <1>5, <1>6, <2>4, <2>7 DEF Sound
  <2>. QED
    BY <2>8 DEF counted
<1>9. ASSUME e.status = "WAITLISTED" PROVE Sound(left, enrolled, waiting)
  <2>1. \A z \in SectionsOf : EnrolledOf(left, z) = EnrolledOf(rows, z)
    BY <1>7, <1>9 DEF EnrolledOf
  <2>. QED
    BY <1>0, <1>4, <1>5, <1>6, <2>1 DEF Sound
<1>. QED
  BY <1>8, <1>9

-----------------------------------------------------------------------------
(* The script's invariant *)

SeedInv ==
    /\ TablesInv
    /\ counter \in Counts /\ enrolledCounts \in Counts /\ waitlistCounts \in Counts
    /\ picking = [who |-> picking.who, where |-> picking.where]
    /\ picking.where \in Seq(SectionsOf)
    /\ at \in 1..21 => enrolledCounts = NoCounts /\ waitlistCounts = NoCounts
    /\ at \in 3..21 => falls = {}
    /\ at >= 3 \/ finished => Sound(falls, enrolledCounts, waitlistCounts)
    /\ at = 27 \/ finished => counter = enrolledCounts
    /\ finished => at = 0

LEMMA SeedInvInit ==
    ASSUME SeedInit PROVE SeedInv
<1>1. NoCounts \in Counts
  BY DEF NoCounts, Counts
<1>2. /\ picking = [who |-> picking.who, where |-> picking.where]
      /\ picking.where \in Seq(SectionsOf)
  BY DEF SeedInit, NobodyLeft
<1>3. /\ at = 0 /\ ~finished /\ counter = NoCounts /\ enrolledCounts = NoCounts
      /\ waitlistCounts = NoCounts
  BY DEF SeedInit
<1>4. TablesInv
  BY TablesInit
<1>. QED
  BY <1>1, <1>2, <1>3, <1>4 DEF SeedInv

\* What a run may do next, by the statement it is at.
LEMMA SeedInvStep ==
    ASSUME SeedInv, [SeedNext]_seedVars PROVE SeedInv'
<1>h. Hot \in Seq(SectionsOf)
  BY SeedAssumption DEF SectionsOf
<1>t. TablesInv
  BY DEF SeedInv
<1>0. TablesInv'
  BY <1>t, TablesStep
<1>a. at \in 0..27
  BY <1>t DEF TablesInv
<1>1. CASE StartSeed
  <2>1. NoCounts \in Counts /\ <<>> \in Seq(SectionsOf)
    BY DEF NoCounts, Counts
  <2>. QED
    BY <1>0, <1>1, <2>1 DEF StartSeed, SeedInv
<1>2. CASE Wipe
  <2>1. at \in 1..10 /\ Main[at].on = Wiped[at]
    BY <1>a, <1>2, StatementAt DEF Doing, Seeding, Wipe
  <2>2. /\ at' = at + 1 /\ ~finished
        /\ UNCHANGED <<enrolledCounts, waitlistCounts, picking, finished>>
    BY <1>2, <2>1 DEF Wipe, NextStatement, Memory, SeedInv
  <2>3. at = 2 => falls' = {}
    BY <1>2, <2>1 DEF Wipe, Wiped
  <2>4. at >= 3 => falls' = {}
    BY <1>2, <2>1 DEF Wipe, SeedInv
  <2>5. counter' \in Counts
    <3>1. NoCounts \in Counts /\ counter \in Counts
      BY DEF SeedInv, NoCounts, Counts
    <3>2. counter' = NoCounts \/ counter' = counter
      BY <1>2 DEF Wipe
    <3>. QED
      BY <3>1, <3>2
  <2>6. enrolledCounts' = NoCounts /\ waitlistCounts' = NoCounts
    BY <2>1, <2>2 DEF SeedInv
  <2>7. at' \in 2..11 /\ (at' >= 3 => falls' = {})
    BY <2>1, <2>2, <2>3, <2>4
  <2>8. /\ enrolledCounts' \in Counts /\ waitlistCounts' \in Counts
        /\ picking' = [who |-> picking'.who, where |-> picking'.where]
        /\ picking'.where \in Seq(SectionsOf) /\ ~finished'
    BY <2>2 DEF SeedInv
  <2>9. at' # 27 /\ (at' \in 3..21 => at' >= 3)
    BY <2>7
  <2>. QED
    BY <1>0, <2>5, <2>6, <2>7, <2>8, <2>9, NothingSound, Zenon DEF SeedInv
<1>3. CASE Fill
  <2>1. at \in 11..21
    BY <1>a, <1>3, StatementAt DEF Doing, Seeding, Fill
  <2>2. /\ at' = at + 1 /\ ~finished
        /\ UNCHANGED <<enrolledCounts, waitlistCounts, picking, finished, falls, counter>>
    BY <1>3, <2>1 DEF Fill, NextStatement, Memory, SeedInv
  <2>. QED
    BY <1>0, <2>1, <2>2 DEF SeedInv
<1>4. ASSUME at \in {22, 23}, at' \in {at, at + 1}, UNCHANGED <<counter, finished>>,
             Sound(falls, enrolledCounts, waitlistCounts)',
             picking' = [who |-> picking'.who, where |-> picking'.where],
             picking'.where \in Seq(SectionsOf)
      PROVE  SeedInv'
  <2>1. enrolledCounts' \in Counts /\ waitlistCounts' \in Counts
    BY <1>4 DEF Sound
  <2>2. /\ ~finished' /\ counter' \in Counts
        /\ picking' = [who |-> picking'.who, where |-> picking'.where]
        /\ picking'.where \in Seq(SectionsOf)
    BY <1>4 DEF SeedInv
  <2>3. ~(at' \in 1..21) /\ ~(at' \in 3..21) /\ at' # 27
    <3>1. at \in {22, 23} /\ at' \in {at, at + 1}
      BY <1>4, Zenon
    <3>. QED
      BY ONLY <3>1
  <2>. QED
    BY <1>0, <1>4, <2>1, <2>2, <2>3, Zenon DEF SeedInv
<1>5. ASSUME NEW u, NEW s \in SectionsOf, ~Has(u, s), Insert(u, s), at \in {22, 23}
      PROVE  Sound(falls, enrolledCounts, waitlistCounts)'
  <2>1. Sound(falls, enrolledCounts, waitlistCounts)
    BY <1>5 DEF SeedInv
  <2>2. enrolledCounts[s] \in Nat /\ Seats[s] \in Nat
    BY SeedAssumption DEF SeedInv, Counts, SectionsOf
  <2>3. \A e \in falls : ~(e.student = u /\ e.section = s)
    BY <1>5 DEF Has
  <2>4. CASE enrolledCounts[s] < Seats[s]
    <3>1. /\ falls' = falls \cup {[student |-> u, section |-> s, status |-> "ENROLLED",
                                   position |-> None]}
          /\ enrolledCounts' = [enrolledCounts EXCEPT ![s] = @ + 1]
          /\ waitlistCounts' = waitlistCounts
      BY <1>5, <2>2, <2>4 DEF Insert
    <3>. QED
      BY <2>1, <2>3, <2>4, <3>1, InsertSound
  <2>5. CASE enrolledCounts[s] >= Seats[s]
    <3>1. /\ falls' = falls \cup {[student |-> u, section |-> s, status |-> "WAITLISTED",
                                   position |-> waitlistCounts[s] + 1]}
          /\ waitlistCounts' = [waitlistCounts EXCEPT ![s] = @ + 1]
          /\ enrolledCounts' = enrolledCounts
      BY <1>5, <2>5 DEF Insert
    <3>. QED
      BY <2>1, <2>3, <2>5, <3>1, InsertSound
  <2>. QED
    BY <2>2, <2>4, <2>5
<1>6. CASE Organic
  <2>1. at = 22 /\ UNCHANGED <<counter, finished>>
    BY <1>a, <1>6, PassAt DEF Organic
  <2>2. Sound(falls, enrolledCounts, waitlistCounts)
    BY <2>1 DEF SeedInv
  <2>3. at' \in {at, at + 1}
    BY <1>6, <2>1 DEF Organic, NextStatement
  <2>4. Sound(falls, enrolledCounts, waitlistCounts)'
    <3>1. CASE UNCHANGED <<falls, enrolledCounts, waitlistCounts>>
      BY <2>2, <3>1
    <3>2. CASE \E u : \E s \in SectionsOf : ~Has(u, s) /\ Insert(u, s)
      BY <1>5, <2>1, <3>2
    <3>. QED
      BY <1>6, <3>1, <3>2 DEF Organic
  <2>5. /\ picking' = [who |-> picking'.who, where |-> picking'.where]
        /\ picking'.where \in Seq(SectionsOf)
    <3>1. CASE UNCHANGED picking
      BY <3>1 DEF SeedInv
    <3>2. CASE \E o : picking' = [who |-> o, where |-> Hot]
      BY <1>h, <3>2
    <3>3. CASE picking' = [picking EXCEPT !.who = Tail(@)]
      BY <3>3 DEF SeedInv
    <3>. QED
      BY <1>6, <3>1, <3>2, <3>3 DEF Organic
  <2>. QED
    BY <1>4, <2>1, <2>3, <2>4, <2>5
<1>7. CASE HotSection
  <2>1. at = 23 /\ UNCHANGED <<counter, finished>>
    BY <1>a, <1>7, PassAt DEF HotSection
  <2>2. Sound(falls, enrolledCounts, waitlistCounts)
    BY <2>1 DEF SeedInv
  <2>3. at' \in {at, at + 1}
    BY <1>7, <2>1 DEF HotSection, NextStatement
  <2>4. picking.where # <<>> =>
           Head(picking.where) \in SectionsOf /\ Tail(picking.where) \in Seq(SectionsOf)
    BY HeadTailProperties DEF SeedInv
  <2>5. Sound(falls, enrolledCounts, waitlistCounts)'
    <3>1. CASE UNCHANGED <<falls, enrolledCounts, waitlistCounts>>
      BY <2>2, <3>1
    <3>2. CASE \E u : \E s \in SectionsOf : ~Has(u, s) /\ Insert(u, s)
      BY <1>5, <2>1, <3>2
    <3>. QED
      BY <1>7, <2>4, <3>1, <3>2 DEF HotSection
  <2>6. /\ picking' = [who |-> picking'.who, where |-> picking'.where]
        /\ picking'.where \in Seq(SectionsOf)
    <3>1. CASE picking' = NobodyLeft
      BY <3>1 DEF NobodyLeft
    <3>2. CASE picking.where # <<>> /\ \E o : picking' = [who |-> o, where |-> Tail(picking.where)]
      BY <2>4, <3>2
    <3>3. CASE picking' = [picking EXCEPT !.who = Tail(@)]
      BY <3>3 DEF SeedInv
    <3>. QED
      BY <1>7, <3>1, <3>2, <3>3 DEF HotSection
  <2>. QED
    BY <1>4, <2>1, <2>3, <2>5, <2>6
<1>8. ASSUME at \in {24, 25}, at' \in {at, at + 1}, UNCHANGED <<counter, finished, picking>>,
             Sound(falls, enrolledCounts, waitlistCounts)'
      PROVE  SeedInv'
  <2>1. enrolledCounts' \in Counts /\ waitlistCounts' \in Counts
    BY <1>8 DEF Sound
  <2>2. /\ ~finished' /\ counter' \in Counts
        /\ picking' = [who |-> picking'.who, where |-> picking'.where]
        /\ picking'.where \in Seq(SectionsOf)
    BY <1>8 DEF SeedInv
  <2>3. ~(at' \in 1..21) /\ ~(at' \in 3..21) /\ at' # 27
    BY <1>8
  <2>. QED
    BY <1>0, <1>8, <2>1, <2>2, <2>3, Zenon DEF SeedInv
<1>9. CASE SelfDrop
  <2>1. at = 24 /\ UNCHANGED <<counter, finished, picking, waitlistCounts>>
    BY <1>a, <1>9, PassAt DEF SelfDrop
  <2>2. Sound(falls, enrolledCounts, waitlistCounts)
    BY <2>1 DEF SeedInv
  <2>3. at' \in {at, at + 1}
    BY <1>9, <2>1 DEF SelfDrop, NextStatement
  <2>4. ASSUME NEW e \in falls, e.status = "ENROLLED", SelfDropOf(e)
        PROVE  Sound(falls, enrolledCounts, waitlistCounts)'
    BY <2>1, <2>2, <2>4, DropSound DEF SelfDropOf, DropRow
  <2>5. Sound(falls, enrolledCounts, waitlistCounts)'
    BY <1>9, <2>1, <2>2, <2>4 DEF SelfDrop
  <2>. QED
    BY <1>8, <2>1, <2>3, <2>5
<1>10. CASE ExpireRows
  <2>1. at = 25 /\ UNCHANGED <<counter, finished, picking, waitlistCounts, enrolledCounts>>
    BY <1>a, <1>10, PassAt DEF ExpireRows, Memory
  <2>2. Sound(falls, enrolledCounts, waitlistCounts)
    BY <2>1 DEF SeedInv
  <2>3. at' \in {at, at + 1}
    BY <1>10, <2>1 DEF ExpireRows, NextStatement
  <2>4. ASSUME NEW e \in falls, e.status = "WAITLISTED", DropRow(e)
        PROVE  Sound(falls, enrolledCounts, waitlistCounts)'
    BY <2>1, <2>2, <2>4, DropSound DEF DropRow
  <2>5. Sound(falls, enrolledCounts, waitlistCounts)'
    BY <1>10, <2>1, <2>2, <2>4 DEF ExpireRows
  <2>. QED
    BY <1>8, <2>1, <2>3, <2>5
<1>11. CASE Patch
  <2>1. at = 26 /\ UNCHANGED <<falls, enrolledCounts, waitlistCounts, picking, finished>>
    BY <1>a, <1>11, PassAt DEF Patch, Memory
  <2>2. Sound(falls, enrolledCounts, waitlistCounts)' /\ ~finished
    BY <2>1 DEF SeedInv
  <2>3. CASE at' = at + 1 /\ UNCHANGED counter /\ {s \in SectionsOf : counter[s] # enrolledCounts[s]} = {}
    <3>1. counter = enrolledCounts
      BY <2>3 DEF SeedInv, Counts
    <3>. QED
      BY <1>0, <2>1, <2>2, <2>3, <3>1 DEF SeedInv
  <2>4. CASE /\ at' = at
             /\ \E s \in SectionsOf : counter' = [counter EXCEPT ![s] = enrolledCounts[s]]
    <3>1. counter' \in Counts
      BY <2>4 DEF SeedInv, Counts
    <3>. QED
      BY <1>0, <2>1, <2>2, <2>4, <3>1 DEF SeedInv
  <2>. QED
    BY <1>11, <2>3, <2>4 DEF Patch, NextStatement
<1>12. CASE NotifySeeded
  <2>1. at = 27 /\ UNCHANGED <<falls, enrolledCounts, waitlistCounts, picking, counter>>
    BY <1>a, <1>12, PassAt DEF NotifySeeded, Memory
  <2>. QED
    BY <1>0, <1>12, <2>1 DEF NotifySeeded, SeedInv
<1>13. CASE Die
  BY <1>0, <1>13 DEF Die, Seeding, Memory, SeedInv
<1>14. CASE UNCHANGED seedVars
  BY <1>0, <1>14 DEF seedVars, SeedInv
<1>. QED
  BY <1>1, <1>2, <1>3, <1>6, <1>7, <1>9, <1>10, <1>11, <1>12, <1>13, <1>14 DEF SeedNext

\* When the script is done its tables are sound: every enrolledCount is the number
\* of enrolled rows and within capacity, a student has one row per section and no
\* two wait at one position, whatever was drawn and wherever earlier runs died.
THEOREM SeedCorrect == SeedSpec => []SeededTablesSound
<1>1. SeedInit => SeedInv
  BY SeedInvInit
<1>2. SeedInv /\ [SeedNext]_seedVars => SeedInv'
  BY SeedInvStep
<1>3. SeedInv => SeededTablesSound
  BY DEF SeedInv, Sound, EnrolledOf, SeededTablesSound
<1>. QED
  BY <1>1, <1>2, <1>3, PTL DEF SeedSpec
=============================================================================
