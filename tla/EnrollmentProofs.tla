--------------------------- MODULE EnrollmentProofs ---------------------------
(***************************************************************************)
(* Proofs about Enrollment, for every value of its constants.              *)
(***************************************************************************)
EXTENDS Enrollment, FiniteSetTheorems, WellFoundedInduction, TLAPS

-----------------------------------------------------------------------------
(* Finite sets of numbers *)

NoLargest(F) == {U \in FiniteSubsetsOf(F) : U # {} /\ ~\E m \in U : \A q \in U : q <= m}

\* assignPosition reads the largest position of a waitlist: there is one.
LEMMA LargestExists ==
    ASSUME NEW F, F \subseteq Nat, IsFiniteSet(F), F # {}
    PROVE  \E m \in F : \A q \in F : q <= m
<1>. SUFFICES ASSUME NoLargest(F) # {} PROVE FALSE
  BY FS_Subset DEF NoLargest, FiniteSubsetsOf
<1>1. PICK U \in NoLargest(F) :
         \A V \in NoLargest(F) : <<V, U>> \notin StrictSubsetOrdering(F)
  <2>1. NoLargest(F) \subseteq FiniteSubsetsOf(F)
    BY DEF NoLargest
  <2>. QED
    BY <2>1, WFMin, FS_StrictSubsetOrderingWellFounded
<1>2. PICK x \in U : TRUE
  BY DEF NoLargest
<1>. DEFINE V == U \ {x}
<1>3. U \subseteq Nat /\ IsFiniteSet(U) /\ U \subseteq F
  BY DEF NoLargest, FiniteSubsetsOf
<1>4. V \notin NoLargest(F)
  BY <1>1, <1>2, <1>3 DEF StrictSubsetOrdering, NoLargest, FiniteSubsetsOf
<1>5. IsFiniteSet(V) /\ V \subseteq F
  BY <1>3, FS_RemoveElement
<1>6. CASE V = {}
  <2>1. \A q \in U : q <= x
    BY <1>2, <1>3, <1>6
  <2>. QED
    BY <2>1, <1>2, <1>1 DEF NoLargest
<1>7. CASE V # {}
  <2>1. PICK m \in V : \A q \in V : q <= m
    BY <1>4, <1>5, <1>7 DEF NoLargest, FiniteSubsetsOf
  <2>2. \E k \in U : \A q \in U : q <= k
    BY <2>1, <1>2, <1>3
  <2>. QED
    BY <2>2, <1>1 DEF NoLargest
<1>. QED
  BY <1>6, <1>7
-----------------------------------------------------------------------------
(* The inductive invariant *)

\* What is true of the rows and counters in every committed state.
TablesInv ==
    /\ IsFiniteSet({i \in Ids : enr[i] # Unused})
    /\ CounterMatchesRows
    /\ \A s \in Sections : enrolledCount[s] <= capacity[s]
    /\ WaitlistOrdered
    /\ OneActiveRow

\* The request of transaction t names a row of its student and section.
MatchesItsRow(t) ==
    /\ txn[t].op = "swap" => txn[t].tgt \in Sections /\ txn[t].tgt # txn[t].sec
    /\ txn[t].op # "swap" => txn[t].tgt = None
    /\ txn[t].op \in {"enroll", "drop", "swap"} => txn[t].student \in Students
    /\ txn[t].op \in {"drop", "swap"} =>
          /\ txn[t].id \in Ids
          /\ enr[txn[t].id].student = txn[t].student
          /\ enr[txn[t].id].section = txn[t].sec
    /\ txn[t].op = "update" /\ txn[t].pc = "checked" => txn[t].num \in Nat
    /\ txn[t].op = "swap" /\ txn[t].pc = "checked" => txn[t].was \in ActiveStatuses

\* A transaction that has read under its locks holds the lock of every section it
\* is about to change.
HoldsItsLocks(t) ==
    txn[t].pc \in {"locked", "checked"} => \A s \in Needs(t) : lock[s] = t

TxnInv(t) == MatchesItsRow(t) /\ HoldsItsLocks(t) /\ ReadsTrue(t)

IInv == TypeOK /\ TablesInv /\ \A t \in Txns : TxnInv(t)

\* A step of transaction t leaves alone the other transactions, their locks,
\* and every section it has not locked; a row keeps its student and section.
Frame(t) ==
    /\ \A u \in Txns \ {t} : txn'[u] = txn[u]
    /\ \A s \in Sections : lock[s] \notin {t, None} => lock'[s] = lock[s]
    /\ \A s \in Sections : lock[s] # t =>
          /\ capacity'[s] = capacity[s] /\ enrolledCount'[s] = enrolledCount[s]
          /\ \A i \in Ids : s \in {enr[i].section, enr'[i].section} => enr'[i] = enr[i]
    /\ \A i \in Ids : enr[i] # Unused =>
          enr'[i].student = enr[i].student /\ enr'[i].section = enr[i].section

\* The constants the proofs need: None is not an id, a student or a section.
LEMMA NoneApart ==
    None \notin Sections /\ None \notin Ids /\ None \notin Students /\ None \notin Txns
      /\ None \notin Nat
BY ParametersAssumption, SectionsAssumption

LEMMA SameRows ==
    ASSUME NEW t \in Txns, Frame(t), NEW s \in Sections, lock[s] # t
    PROVE  /\ Waiting(s)' = Waiting(s) /\ Seated(s)' = Seated(s)
           /\ \A u \in Students : ActiveIn(u, s)' = ActiveIn(u, s)
           /\ \A i \in Waiting(s) : enr'[i] = enr[i]
BY DEF Frame, Waiting, Seated, ActiveIn, Active

\* What another transaction has read is not disturbed by a step of t.
LEMMA OthersUndisturbed ==
    ASSUME IInv, NEW t \in Txns, Frame(t), NEW u \in Txns, u # t
    PROVE  TxnInv(u)'
<1>1. txn'[u] = txn[u] /\ Needs(u)' = Needs(u)
  BY DEF Frame, Needs
<1>2. CASE txn[u] = Idle
  BY <1>1, <1>2 DEF Idle, TxnInv, MatchesItsRow, HoldsItsLocks, ReadsTrue
<1>3. CASE txn[u] # Idle
  <2>1. txn[u] \in Txn /\ TxnInv(u)
    BY <1>3 DEF IInv, TypeOK
  <2>2. MatchesItsRow(u)'
    <3>1. \A i \in Ids : enr[i].student \in Students => enr[i] # Unused
      BY NoneApart DEF Unused
    <3>. QED
      BY <1>1, <2>1, <3>1 DEF Frame, TxnInv, MatchesItsRow
  <2>3. HoldsItsLocks(u)'
    <3>1. Needs(u) \subseteq Sections
      BY <2>1 DEF Needs, Txn
    <3>. QED
      BY <1>1, <2>1, <3>1, NoneApart DEF Frame, TxnInv, HoldsItsLocks
  <2>4. ReadsTrue(u)'
    <3>. SUFFICES ASSUME txn[u].pc = "checked" PROVE ReadsTrue(u)'
      BY <1>1 DEF ReadsTrue
    <3>. DEFINE s == txn[u].sec
                r == txn[u].tgt
    <3>1. s \in Sections /\ lock[s] = u
      BY <2>1, NoneApart DEF Txn, TxnInv, HoldsItsLocks, Needs
    <3>2. capacity'[s] = capacity[s] /\ enrolledCount'[s] = enrolledCount[s]
          /\ Waiting(s)' = Waiting(s) /\ \A i \in Waiting(s) : enr'[i] = enr[i]
      BY <3>1, SameRows DEF Frame
    <3>3. CASE txn[u].op = "swap"
      <4>1. r \in Sections /\ lock[r] = u
        BY <2>1, <3>3, NoneApart DEF TxnInv, MatchesItsRow, HoldsItsLocks, Needs
      <4>2. capacity'[r] = capacity[r] /\ enrolledCount'[r] = enrolledCount[r]
        BY <4>1 DEF Frame
      <4>3. enr'[txn[u].id] = enr[txn[u].id]
        BY <2>1, <3>1, <3>3 DEF Frame, TxnInv, MatchesItsRow
      <4>. QED
        BY <1>1, <2>1, <3>3, <4>2, <4>3 DEF TxnInv, ReadsTrue
    <3>4. CASE txn[u].op = "enroll"
      <4>1. ActiveIn(txn[u].student, s)' = ActiveIn(txn[u].student, s)
        BY <1>1, <2>1, <3>1, <3>4, SameRows DEF TxnInv, MatchesItsRow
      <4>. QED
        BY <1>1, <2>1, <3>2, <3>4, <4>1 DEF TxnInv, ReadsTrue
    <3>. QED
      BY <1>1, <2>1, <3>2, <3>3, <3>4 DEF TxnInv, ReadsTrue
  <2>. QED
    BY <2>2, <2>3, <2>4 DEF TxnInv
<1>. QED
  BY <1>2, <1>3
-----------------------------------------------------------------------------
(* The steps transactions are made of *)

\* What each action of transaction t has to establish.
Preserves(t) == TypeOK' /\ Frame(t) /\ TablesInv' /\ TxnInv(t)'

LEMMA PreservesIInv ==
    ASSUME IInv, NEW t \in Txns, Preserves(t)
    PROVE  IInv'
BY OthersUndisturbed DEF Preserves, IInv

\* A step of t that writes no row and no counter.
LEMMA QuietStep ==
    ASSUME IInv, NEW t \in Txns, UNCHANGED <<enr, capacity, enrolledCount>>,
           \A u \in Txns \ {t} : txn'[u] = txn[u],
           \A s \in Sections : lock[s] \notin {t, None} => lock'[s] = lock[s]
    PROVE  Frame(t) /\ TablesInv'
<1>1. Frame(t)
  BY DEF Frame
<1>2. \A s \in Sections : Waiting(s)' = Waiting(s) /\ Seated(s)' = Seated(s)
         /\ \A u \in Students : ActiveIn(u, s)' = ActiveIn(u, s)
  BY DEF Waiting, Seated, ActiveIn, Active
<1>. QED
  BY <1>1, <1>2 DEF IInv, TablesInv, CounterMatchesRows, WaitlistOrdered, OneActiveRow

LEMMA IdleInv ==
    ASSUME NEW t \in Txns, txn'[t] = Idle
    PROVE  TxnInv(t)'
BY DEF Idle, TxnInv, MatchesItsRow, HoldsItsLocks, ReadsTrue

LEMMA FinishStep ==
    ASSUME TypeOK, NEW t \in Txns, Finish(t)
    PROVE  /\ txn' \in [Txns -> Txn \cup {Idle}] /\ lock' \in [Sections -> Txns \cup {None}]
           /\ \A u \in Txns \ {t} : txn'[u] = txn[u]
           /\ \A s \in Sections : lock[s] \notin {t, None} => lock'[s] = lock[s]
           /\ TxnInv(t)'
<1>1. txn'[t] = Idle
  BY DEF Finish, TypeOK
<1>. QED
  BY <1>1, IdleInv DEF Finish, Release, TypeOK

LEMMA BeginStep ==
    ASSUME TypeOK, NEW t \in Txns, NEW op \in Ops, NEW u \in Students \cup {None},
           NEW i \in Ids \cup {None}, NEW s \in Sections, NEW r \in Sections \cup {None},
           Begin(t, op, u, i, s, r), UNCHANGED <<enr, lock>>,
           op = "swap" => r \in Sections /\ r # s, op # "swap" => r = None,
           op \in {"enroll", "drop", "swap"} => u \in Students,
           op \in {"drop", "swap"} =>
              i \in Ids /\ enr[i].student = u /\ enr[i].section = s
    PROVE  /\ txn' \in [Txns -> Txn \cup {Idle}]
           /\ \A v \in Txns \ {t} : txn'[v] = txn[v]
           /\ TxnInv(t)'
<1>. DEFINE new == [op |-> op, pc |-> "begun", student |-> u, id |-> i, sec |-> s, tgt |-> r,
                    num |-> None, was |-> None, rows |-> {}]
<1>1. txn' = [txn EXCEPT ![t] = new]
  BY DEF Begin
<1>2. new \in Txn
  BY DEF Txn
<1>3. txn' \in [Txns -> Txn \cup {Idle}] /\ txn'[t] = new
      /\ \A v \in Txns \ {t} : txn'[v] = txn[v]
  BY <1>1, <1>2 DEF TypeOK
<1>4. MatchesItsRow(t)'
  BY <1>3 DEF MatchesItsRow
<1>. QED
  BY <1>3, <1>4 DEF TxnInv, HoldsItsLocks, ReadsTrue

\* A transaction that goes on keeps its request, and its rows keep theirs.
LEMMA SameRequest ==
    ASSUME TypeOK, NEW t \in Txns, txn[t] \in Txn, MatchesItsRow(t), Frame(t),
           \A f \in {"op", "student", "id", "sec", "tgt"} : txn'[t][f] = txn[t][f],
           txn[t].op = "update" /\ txn'[t].pc = "checked" => txn'[t].num \in Nat,
           txn[t].op = "swap" /\ txn'[t].pc = "checked" => txn'[t].was \in ActiveStatuses
    PROVE  MatchesItsRow(t)'
<1>1. /\ txn'[t].op = txn[t].op /\ txn'[t].student = txn[t].student
      /\ txn'[t].id = txn[t].id /\ txn'[t].sec = txn[t].sec /\ txn'[t].tgt = txn[t].tgt
  OBVIOUS
<1>2. \A i \in Ids : enr[i].student \in Students => enr[i] # Unused
  BY NoneApart DEF Unused
<1>. QED
  BY <1>1, <1>2 DEF Frame, MatchesItsRow

LEMMA GoToStep ==
    ASSUME TypeOK, NEW t \in Txns, txn[t] \in Txn, MatchesItsRow(t), Frame(t),
           NEW pc \in {"enqueue", "done"}, GoTo(t, pc)
    PROVE  txn' \in [Txns -> Txn \cup {Idle}] /\ TxnInv(t)'
<1>1. txn'[t] = [txn[t] EXCEPT !.pc = pc]
  BY DEF GoTo, TypeOK
<1>2. txn'[t] \in Txn
  BY <1>1 DEF Txn
<1>3. MatchesItsRow(t)'
  BY <1>1, SameRequest DEF Txn
<1>4. HoldsItsLocks(t)' /\ ReadsTrue(t)'
  BY <1>1 DEF HoldsItsLocks, ReadsTrue, Txn
<1>. QED
  BY <1>2, <1>3, <1>4 DEF TxnInv, GoTo, TypeOK
-----------------------------------------------------------------------------
(* The queue, and the positions of a waitlist *)

LEMMA QueueTyped ==
    ASSUME QueueTypeOK, NEW s \in Sections, NEW S \in SUBSET Sections,
           \/ Add(S) \/ Take(s) \/ Complete(s) \/ FailAttempt(s) \/ UNCHANGED queueVars
    PROVE  QueueTypeOK'
<1>1. CASE Add(S)
  BY <1>1 DEF Add, QueueTypeOK, JobStates
<1>2. CASE Take(s)
  BY <1>2 DEF Take, QueueTypeOK, JobStates
<1>3. CASE Complete(s)
  BY <1>3 DEF Complete, QueueTypeOK, JobStates
<1>4. CASE FailAttempt(s)
  <2>1. CASE tries[s] + 1 < Attempts
    BY <1>4, <2>1 DEF FailAttempt, QueueTypeOK, JobStates
  <2>2. CASE ~(tries[s] + 1 < Attempts)
    <3>1. failed' \in Seq(Sections)
      <4>1. CASE Len(failed) = KeepFailed
        <5>1. failed # <<>>
          BY <4>1, QueueAssumption
        <5>2. Tail(failed) \in Seq(Sections)
          BY <5>1 DEF QueueTypeOK
        <5>. QED
          BY <1>4, <2>2, <4>1, <5>2 DEF FailAttempt
      <4>2. CASE Len(failed) # KeepFailed
        <5>1. failed' = Append(failed, s)
          BY <1>4, <2>2, <4>2, Zenon DEF FailAttempt
        <5>. QED
          BY <5>1 DEF QueueTypeOK
      <4>. QED
        BY <4>1, <4>2
    <3>. QED
      BY <1>4, <2>2, <3>1 DEF FailAttempt, QueueTypeOK, JobStates
  <2>. QED
    BY <2>1, <2>2
<1>5. CASE UNCHANGED queueVars
  BY <1>5 DEF queueVars, QueueTypeOK
<1>. QED
  BY <1>1, <1>2, <1>3, <1>4, <1>5

\* The rows of a section are finitely many: only used ids have rows.
LEMMA FiniteSection ==
    ASSUME TypeOK, TablesInv, NEW s \in Sections
    PROVE  /\ IsFiniteSet(Waiting(s)) /\ IsFiniteSet(Seated(s))
           /\ Cardinality(Waiting(s)) \in Nat /\ Cardinality(Seated(s)) \in Nat
<1>. DEFINE used == {i \in Ids : enr[i] # Unused}
<1>1. Waiting(s) \subseteq used /\ Seated(s) \subseteq used
  BY NoneApart DEF Waiting, Seated, Unused
<1>2. IsFiniteSet(used)
  BY DEF TablesInv
<1>3. IsFiniteSet(Waiting(s)) /\ IsFiniteSet(Seated(s))
  BY <1>1, <1>2, FS_Subset
<1>. QED
  BY <1>3, FS_CardinalityType

LEMMA WaitingTyped ==
    ASSUME TypeOK, TablesInv, NEW s \in Sections, NEW i \in Waiting(s)
    PROVE  i \in Ids /\ enr[i] \in Row /\ enr[i].pos \in Nat
<1>1. i \in Ids /\ enr[i] # Unused /\ enr[i].pos # None
  BY NoneApart DEF Waiting, Unused, TablesInv, WaitlistOrdered
<1>. QED
  BY <1>1 DEF TypeOK, Row

\* assignPosition returns a position behind everyone who waits.
LEMMA NextPositionBehindAll ==
    ASSUME TypeOK, TablesInv, NEW s \in Sections
    PROVE  NextPosition(s) \in Nat /\ \A i \in Waiting(s) : enr[i].pos < NextPosition(s)
<1>. DEFINE used == {enr[i].pos : i \in Waiting(s)}
<1>1. CASE used = {}
  BY <1>1 DEF NextPosition
<1>2. CASE used # {}
  <2>1. used \subseteq Nat
    BY WaitingTyped
  <2>2. IsFiniteSet(used)
    <3>. DEFINE f == [i \in Waiting(s) |-> enr[i].pos]
    <3>1. f \in Surjection(Waiting(s), used)
      BY DEF Surjection
    <3>2. IsFiniteSet(Waiting(s))
      BY FiniteSection
    <3>. HIDE DEF f, used
    <3>. QED
      BY <3>1, <3>2, FS_Surjection
  <2>3. \E p \in used : \A q \in used : q <= p
    BY <1>2, <2>1, <2>2, LargestExists
  <2>. DEFINE top == CHOOSE p \in used : \A q \in used : q <= p
  <2>4. top \in used /\ \A q \in used : q <= top
    BY <2>3
  <2>5. NextPosition(s) = top + 1
    BY <1>2 DEF NextPosition
  <2>6. \A i \in Waiting(s) : enr[i].pos \in used
    OBVIOUS
  <2>7. top \in Nat
    BY <2>1, <2>4, Zenon
  <2>8. \A i \in Waiting(s) : enr[i].pos \in Nat /\ enr[i].pos <= top
    BY <2>1, <2>4, <2>6, Zenon
  <2>. HIDE DEF used, top
  <2>. QED
    BY <2>5, <2>7, <2>8
<1>. QED
  BY <1>1, <1>2
-----------------------------------------------------------------------------
(* The actions that write no row: beginnings, locks, checks, refusals *)

LEMMA QuietPreserves ==
    ASSUME IInv, NEW t \in Txns, UNCHANGED <<now, held, tables>>,
           txn' \in [Txns -> Txn \cup {Idle}], lock' \in [Sections -> Txns \cup {None}],
           \A u \in Txns \ {t} : txn'[u] = txn[u],
           \A s \in Sections : lock[s] \notin {t, None} => lock'[s] = lock[s],
           faults' \in 0..MaxFaults, QueueTypeOK', TxnInv(t)'
    PROVE  Preserves(t)
<1>1. UNCHANGED <<enr, capacity, enrolledCount, waitlistCap, audit, notices>>
  BY DEF tables
<1>2. TypeOK'
  BY <1>1 DEF IInv, TypeOK
<1>3. Frame(t) /\ TablesInv'
  BY <1>1, QuietStep
<1>. QED
  BY <1>2, <1>3 DEF Preserves

LEMMA BeginPreserves ==
    ASSUME IInv, NEW t \in Txns,
           \/ Request(t)
           \/ \E s \in Sections : BeginPromote(t, s) \/ BeginExpire(t, s)
    PROVE  Preserves(t)
<1>. DEFINE Started ==
               /\ txn' \in [Txns -> Txn \cup {Idle}]
               /\ \A v \in Txns \ {t} : txn'[v] = txn[v]
               /\ TxnInv(t)'
            Rest == UNCHANGED <<now, held, tables, lock, faults>>
<1>1. TypeOK /\ UNCHANGED <<now, held, tables, lock, faults>> /\ QueueTypeOK'
  <2>1. TypeOK /\ QueueTypeOK
    BY DEF IInv, TypeOK
  <2>2. CASE Request(t)
    <3>1. Rest /\ UNCHANGED queueVars
      BY <2>2 DEF Request, BeginEnroll, BeginDrop, BeginSwap, BeginReorder, BeginUpdate
    <3>. QED
      BY <2>1, <3>1 DEF queueVars, QueueTypeOK
  <2>3. ASSUME NEW s \in Sections, BeginPromote(t, s) PROVE Rest /\ QueueTypeOK'
    BY <2>1, <2>3, QueueTyped DEF BeginPromote
  <2>4. ASSUME NEW s \in Sections, BeginExpire(t, s) PROVE Rest /\ QueueTypeOK'
    BY <2>1, <2>4 DEF BeginExpire, queueVars, QueueTypeOK
  <2>. QED
    BY <2>1, <2>2, <2>3, <2>4
<1>2. Started
  <2>. USE <1>1 DEF tables
  <2>0. \A i \in Ids : enr[i] # Unused => enr[i] \in Row
    BY DEF TypeOK
  <2>1. ASSUME NEW u \in Students, NEW s \in Sections, BeginEnroll(t, u, s) PROVE Started
    <3>1. Begin(t, "enroll", u, None, s, None)
      BY <2>1 DEF BeginEnroll
    <3>. QED
      BY <3>1, BeginStep DEF Ops
  <2>2. ASSUME NEW i \in Ids, BeginDrop(t, i) PROVE Started
    <3>1. Begin(t, "drop", enr[i].student, i, enr[i].section, None) /\ enr[i] # Unused
      BY <2>2 DEF BeginDrop
    <3>2. enr[i].student \in Students /\ enr[i].section \in Sections
      BY <2>0, <3>1 DEF Row
    <3>. QED
      BY <3>1, <3>2, BeginStep DEF Ops
  <2>3. ASSUME NEW i \in Ids, NEW r \in Sections, BeginSwap(t, i, r) PROVE Started
    <3>1. /\ Begin(t, "swap", enr[i].student, i, enr[i].section, r)
          /\ enr[i] # Unused /\ enr[i].section # r
      BY <2>3 DEF BeginSwap, ActiveStatuses, Unused
    <3>2. enr[i].student \in Students /\ enr[i].section \in Sections
      BY <2>0, <3>1 DEF Row
    <3>. QED
      BY <3>1, <3>2, BeginStep DEF Ops
  <2>4. ASSUME NEW s \in Sections, BeginReorder(t, s) PROVE Started
    BY <2>4, BeginStep DEF BeginReorder, Ops
  <2>5. ASSUME NEW s \in Sections, BeginUpdate(t, s) PROVE Started
    BY <2>5, BeginStep DEF BeginUpdate, Ops
  <2>6. ASSUME NEW s \in Sections, BeginPromote(t, s) PROVE Started
    BY <2>6, BeginStep DEF BeginPromote, Ops
  <2>7. ASSUME NEW s \in Sections, BeginExpire(t, s) PROVE Started
    BY <2>7, BeginStep DEF BeginExpire, Ops
  <2>. QED
    BY <2>1, <2>2, <2>3, <2>4, <2>5, <2>6, <2>7 DEF Request
<1>3. lock' \in [Sections -> Txns \cup {None}] /\ faults' \in 0..MaxFaults
      /\ \A s \in Sections : lock'[s] = lock[s]
  BY <1>1 DEF TypeOK
<1>. QED
  BY <1>1, <1>2, <1>3, QuietPreserves

\* A transaction that has begun, and what it knows of itself.
LEMMA Begun ==
    ASSUME IInv, NEW t \in Txns, txn[t].pc \in {"begun", "locked", "checked", "enqueue", "done"}
    PROVE  /\ txn[t] \in Txn /\ TxnInv(t) /\ TypeOK /\ TablesInv
           /\ \A s \in Sections : txn[t].tgt = s => s \in Needs(t)
           /\ txn[t].sec \in Sections /\ txn[t].sec \in Needs(t)
<1>1. txn[t] \in Txn
  BY DEF IInv, TypeOK, Idle
<1>. QED
  BY <1>1, NoneApart DEF IInv, Needs, Txn

LEMMA AcquireLockPreserves ==
    ASSUME IInv, NEW t \in Txns, AcquireLock(t)
    PROVE  Preserves(t)
<1>1. txn[t] \in Txn /\ TxnInv(t) /\ TypeOK /\ txn[t].pc = "begun"
  BY Begun DEF AcquireLock
<1>2. PICK s \in Sections :
         /\ NextLock(t, s) /\ RowFree(s)
         /\ lock' = [lock EXCEPT ![s] = t]
         /\ IF Needs(t) \ Holds(t) = {s} THEN GoTo(t, "locked") ELSE UNCHANGED txn
  BY DEF AcquireLock
<1>3. UNCHANGED <<now, held, tables, faults, queueVars>>
  BY DEF AcquireLock
<1>4. lock[s] = None /\ lock' \in [Sections -> Txns \cup {None}]
      /\ \A r \in Sections : lock[r] # None => lock'[r] = lock[r]
  BY <1>1, <1>2 DEF RowFree, TypeOK
<1>5. CASE Needs(t) \ Holds(t) = {s}
  <2>1. txn'[t] = [txn[t] EXCEPT !.pc = "locked"]
        /\ \A u \in Txns \ {t} : txn'[u] = txn[u]
    BY <1>1, <1>2, <1>5 DEF GoTo, TypeOK
  <2>2. txn'[t] \in Txn
    BY <1>1, <2>1 DEF Txn
  <2>3. txn' \in [Txns -> Txn \cup {Idle}]
    BY <1>1, <1>2, <1>5, <2>1, <2>2 DEF GoTo, TypeOK
  <2>4. Needs(t)' = Needs(t)
    BY <1>1, <2>1 DEF Needs, Txn
  <2>5. HoldsItsLocks(t)'
    <3>1. \A r \in Needs(t) : r = s \/ r \in Holds(t)
      BY <1>5
    <3>2. \A r \in Holds(t) : lock'[r] = t
      BY <1>4, NoneApart DEF Holds
    <3>3. lock'[s] = t
      BY <1>1, <1>2 DEF TypeOK
    <3>. QED
      BY <2>4, <3>1, <3>2, <3>3 DEF HoldsItsLocks
  <2>6. MatchesItsRow(t)' /\ ReadsTrue(t)'
    BY <1>1, <1>3, <2>1 DEF tables, TxnInv, MatchesItsRow, ReadsTrue, Txn
  <2>. QED
    BY <1>1, <1>3, <1>4, <2>1, <2>3, <2>5, <2>6, QuietPreserves
    DEF TxnInv, TypeOK, queueVars, QueueTypeOK
<1>6. CASE Needs(t) \ Holds(t) # {s}
  <2>1. UNCHANGED txn
    BY <1>2, <1>6
  <2>2. TxnInv(t)'
    BY <1>1, <1>3, <2>1
    DEF tables, TxnInv, MatchesItsRow, HoldsItsLocks, ReadsTrue
  <2>. QED
    BY <1>1, <1>3, <1>4, <2>1, <2>2, QuietPreserves DEF TypeOK, queueVars, QueueTypeOK
<1>. QED
  BY <1>5, <1>6

\* Refusals, and rollbacks: the transaction ends with nothing written.
LEMMA EndPreserves ==
    ASSUME IInv, NEW t \in Txns, Finish(t), UNCHANGED <<now, held, tables>>,
           faults' \in 0..MaxFaults, QueueTypeOK'
    PROVE  Preserves(t)
BY FinishStep, QuietPreserves DEF IInv

LEMMA RefusalPreserves ==
    ASSUME IInv, NEW t \in Txns,
           \/ EnrollRefuse(t) \/ SwapRefuse(t) \/ SwapHitsIndex(t) \/ NoIdLeft(t)
    PROVE  Preserves(t)
<1>1. Finish(t) /\ UNCHANGED <<now, held, tables, faults, queueVars>>
  BY DEF EnrollRefuse, SwapRefuse, SwapHitsIndex, NoIdLeft
<1>2. faults' \in 0..MaxFaults /\ QueueTypeOK'
  BY <1>1 DEF IInv, TypeOK, queueVars, QueueTypeOK
<1>. QED
  BY <1>1, <1>2, EndPreserves

LEMMA FaultPreserves ==
    ASSUME IInv, NEW t \in Txns, Fault(t)
    PROVE  Preserves(t)
<1>1. TypeOK /\ QueueTypeOK /\ faults \in 0..MaxFaults
  BY DEF IInv, TypeOK
<1>2. faults' \in 0..MaxFaults
  BY <1>1, ParametersAssumption DEF Fault
<1>3. txn[t].sec \in Sections
  BY <1>1 DEF Fault, TypeOK, Txn
<1>4. QueueTypeOK'
  BY <1>1, <1>3, QueueTyped DEF Fault
<1>. QED
  BY <1>2, <1>4, EndPreserves DEF Fault

LEMMA JobStepPreserves ==
    ASSUME IInv, NEW t \in Txns, Enqueue(t) \/ CompleteJob(t)
    PROVE  Preserves(t)
<1>1. txn[t] \in Txn /\ TypeOK /\ QueueTypeOK /\ txn[t].sec \in Sections
  BY Begun DEF Enqueue, CompleteJob, At, TypeOK
<1>2. UNCHANGED <<now, held, tables, lock, faults>> /\ txn' = [txn EXCEPT ![t] = Idle]
  BY DEF Enqueue, CompleteJob
<1>3. QueueTypeOK'
  <2>1. {txn[t].sec} \in SUBSET Sections
    BY <1>1
  <2>. QED
    BY <1>1, <2>1, QueueTyped DEF Enqueue, CompleteJob
<1>4. TxnInv(t)'
  BY <1>1, <1>2, IdleInv DEF TypeOK
<1>. QED
  BY <1>1, <1>2, <1>3, <1>4, QuietPreserves DEF TypeOK

\* What a transaction reads under its locks is true when it reads it.
LEMMA CheckPreserves ==
    ASSUME IInv, NEW t \in Txns, txn[t].pc = "locked",
           NEW num \in Nat \cup {None}, NEW was \in ActiveStatuses \cup {None},
           NEW rows \in SUBSET Ids, Checked(t, num, was, rows),
           UNCHANGED <<now, held, tables, lock, faults, queueVars>>,
           txn[t].op = "enroll" =>
              /\ ActiveIn(txn[t].student, txn[t].sec) = {}
              /\ IF num = None THEN enrolledCount[txn[t].sec] < capacity[txn[t].sec]
                               ELSE /\ enrolledCount[txn[t].sec] >= capacity[txn[t].sec]
                                    /\ \A i \in Waiting(txn[t].sec) : enr[i].pos < num,
           txn[t].op = "swap" =>
              /\ was \in ActiveStatuses /\ enr[txn[t].id].status = was
              /\ enrolledCount[txn[t].tgt] < capacity[txn[t].tgt],
           txn[t].op = "promote" => num = enrolledCount[txn[t].sec],
           txn[t].op = "update" => num \in Nat /\ num >= enrolledCount[txn[t].sec],
           txn[t].op \in {"reorder", "expire"} => rows = Waiting(txn[t].sec)
    PROVE  Preserves(t)
<1>1. txn[t] \in Txn /\ TypeOK /\ MatchesItsRow(t) /\ HoldsItsLocks(t)
  BY Begun DEF TxnInv
<1>2. UNCHANGED <<enr, capacity, enrolledCount, lock, faults>> /\ QueueTypeOK'
  BY <1>1 DEF tables, TypeOK, queueVars, QueueTypeOK
<1>3. /\ txn' \in [Txns -> Txn \cup {Idle}]
      /\ \A v \in Txns \ {t} : txn'[v] = txn[v]
      /\ txn'[t] = [txn[t] EXCEPT !.pc = "checked", !.num = num, !.was = was, !.rows = rows]
  <2>1. txn'[t] = [txn[t] EXCEPT !.pc = "checked", !.num = num, !.was = was, !.rows = rows]
        /\ \A v \in Txns \ {t} : txn'[v] = txn[v]
    BY <1>1 DEF Checked, TypeOK
  <2>2. txn'[t] \in Txn
    BY <1>1, <2>1 DEF Txn
  <2>. QED
    BY <1>1, <2>1, <2>2 DEF Checked, TypeOK
<1>4. /\ txn'[t].op = txn[t].op /\ txn'[t].student = txn[t].student
      /\ txn'[t].id = txn[t].id /\ txn'[t].sec = txn[t].sec /\ txn'[t].tgt = txn[t].tgt
      /\ txn'[t].num = num /\ txn'[t].was = was /\ txn'[t].rows = rows
  BY <1>1, <1>3 DEF Txn
<1>5. \A s, u : Waiting(s)' = Waiting(s) /\ ActiveIn(u, s)' = ActiveIn(u, s)
  BY <1>2 DEF Waiting, ActiveIn, Active
<1>6. ReadsTrue(t)'
  BY <1>2, <1>4, <1>5 DEF ReadsTrue
<1>7. MatchesItsRow(t)'
  BY <1>1, <1>2, <1>4 DEF MatchesItsRow
<1>8. HoldsItsLocks(t)'
  BY <1>1, <1>2, <1>4 DEF HoldsItsLocks, Needs
<1>. QED
  BY <1>1, <1>2, <1>3, <1>6, <1>7, <1>8, QuietPreserves DEF TxnInv, TypeOK

LEMMA EnrollCheckPreserves ==
    ASSUME IInv, NEW t \in Txns, EnrollCheck(t)
    PROVE  Preserves(t)
<1>. DEFINE s == txn[t].sec
<1>1. /\ TypeOK /\ TablesInv /\ s \in Sections
      /\ txn[t].op = "enroll" /\ txn[t].pc = "locked"
  BY Begun DEF EnrollCheck, At
<1>2. ActiveIn(txn[t].student, s) = {}
  BY DEF EnrollCheck, MayEnroll
<1>3. enrolledCount[s] \in Nat /\ capacity[s] \in Nat
  BY <1>1 DEF TypeOK
<1>4. CASE Free(s) > 0 /\ Checked(t, None, None, {})
  <2>1. enrolledCount[s] < capacity[s]
    BY <1>3, <1>4 DEF Free
  <2>. QED
    BY <1>1, <1>2, <1>4, <2>1, CheckPreserves DEF EnrollCheck
<1>5. CASE Free(s) <= 0 /\ Checked(t, NextPosition(s), None, {})
  <2>1. /\ NextPosition(s) \in Nat /\ \A i \in Waiting(s) : enr[i].pos < NextPosition(s)
        /\ enrolledCount[s] >= capacity[s]
    BY <1>1, <1>3, <1>5, NextPositionBehindAll DEF Free
  <2>. QED
    BY <1>1, <1>2, <1>5, <2>1, NoneApart, CheckPreserves DEF EnrollCheck
<1>. QED
  BY <1>4, <1>5 DEF EnrollCheck

LEMMA SwapCheckPreserves ==
    ASSUME IInv, NEW t \in Txns, SwapCheck(t)
    PROVE  Preserves(t)
<1>. DEFINE was == enr[txn[t].id].status
<1>1. txn[t].op = "swap" /\ txn[t].pc = "locked" /\ Checked(t, None, was, {})
  BY DEF SwapCheck, At
<1>2. was \in ActiveStatuses /\ enrolledCount[txn[t].tgt] < capacity[txn[t].tgt]
  BY DEF SwapCheck, SwapAllowed
<1>3. UNCHANGED <<now, held, tables, lock, faults, queueVars>>
  BY DEF SwapCheck
<1>. HIDE DEF was
<1>4. was = enr[txn[t].id].status
  BY DEF was
<1>5. None \in Nat \cup {None} /\ was \in ActiveStatuses \cup {None} /\ {} \in SUBSET Ids
      /\ txn[t].op \notin {"enroll", "promote", "update", "reorder", "expire"}
  BY <1>1, <1>2
<1>. QED
  BY <1>1, <1>2, <1>3, <1>4, <1>5, CheckPreserves

LEMMA PromoteCheckPreserves ==
    ASSUME IInv, NEW t \in Txns, PromoteCheck(t)
    PROVE  Preserves(t)
<1>1. TypeOK /\ txn[t].sec \in Sections
  BY Begun DEF PromoteCheck, At
<1>2. enrolledCount[txn[t].sec] \in Nat
  BY <1>1 DEF TypeOK
<1>. QED
  BY <1>2, CheckPreserves DEF PromoteCheck, At

LEMMA ReorderCheckPreserves ==
    ASSUME IInv, NEW t \in Txns, ReorderCheck(t)
    PROVE  Preserves(t)
<1>1. PICK submitted \in SUBSET Ids :
         IF SameMembers(submitted, txn[t].sec)
           THEN Checked(t, None, None, submitted) /\ UNCHANGED lock
           ELSE Finish(t)
  BY DEF ReorderCheck
<1>2. CASE SameMembers(submitted, txn[t].sec)
  BY <1>1, <1>2, CheckPreserves DEF ReorderCheck, At, SameMembers
<1>3. CASE ~SameMembers(submitted, txn[t].sec)
  <2>1. faults' \in 0..MaxFaults /\ QueueTypeOK'
    BY DEF ReorderCheck, IInv, TypeOK, queueVars, QueueTypeOK
  <2>. QED
    BY <1>1, <1>3, <2>1, EndPreserves DEF ReorderCheck
<1>. QED
  BY <1>2, <1>3

LEMMA UpdateCheckPreserves ==
    ASSUME IInv, NEW t \in Txns, UpdateCheck(t)
    PROVE  Preserves(t)
<1>. DEFINE s == txn[t].sec
<1>1. TypeOK /\ s \in Sections
  BY Begun DEF UpdateCheck, At
<1>2. PICK c \in Capacities \cup {capacity[s]} :
         IF CapacityFits(s, c) THEN Checked(t, c, None, {}) /\ UNCHANGED lock ELSE Finish(t)
  BY DEF UpdateCheck
<1>3. c \in Nat
  BY <1>1, ParametersAssumption DEF TypeOK
<1>4. CASE CapacityFits(s, c)
  BY <1>2, <1>3, <1>4, CheckPreserves DEF UpdateCheck, At, CapacityFits
<1>5. CASE ~CapacityFits(s, c)
  <2>1. faults' \in 0..MaxFaults /\ QueueTypeOK'
    BY DEF UpdateCheck, IInv, TypeOK, queueVars, QueueTypeOK
  <2>. QED
    BY <1>2, <1>5, <2>1, EndPreserves DEF UpdateCheck
<1>. QED
  BY <1>4, <1>5

LEMMA ExpireCheckPreserves ==
    ASSUME IInv, NEW t \in Txns, ExpireCheck(t)
    PROVE  Preserves(t)
<1>1. Waiting(txn[t].sec) \in SUBSET Ids
  BY DEF Waiting
<1>. QED
  BY <1>1, CheckPreserves DEF ExpireCheck, At

\* A step that ends the transaction and goes on after the commit, or not.
LEMMA ReleaseStep ==
    ASSUME TypeOK, NEW t \in Txns, Release(t)
    PROVE  /\ lock' \in [Sections -> Txns \cup {None}]
           /\ \A s \in Sections : lock[s] \notin {t, None} => lock'[s] = lock[s]
BY DEF Release, TypeOK

LEMMA PromoteClosedPreserves ==
    ASSUME IInv, NEW t \in Txns, PromoteClosed(t)
    PROVE  Preserves(t)
<1>1. txn[t] \in Txn /\ TypeOK /\ MatchesItsRow(t)
  BY Begun DEF PromoteClosed, At, TxnInv
<1>2. UNCHANGED <<enr, capacity, enrolledCount>> /\ UNCHANGED <<now, held, tables>>
      /\ faults' \in 0..MaxFaults /\ QueueTypeOK'
  BY <1>1 DEF PromoteClosed, tables, TypeOK, queueVars, QueueTypeOK
<1>3. \A u \in Txns \ {t} : txn'[u] = txn[u]
  BY <1>1 DEF PromoteClosed, GoTo, TypeOK
<1>4. Release(t) /\ GoTo(t, "done")
  BY DEF PromoteClosed
<1>5. /\ lock' \in [Sections -> Txns \cup {None}]
      /\ \A s \in Sections : lock[s] \notin {t, None} => lock'[s] = lock[s]
  BY <1>1, <1>4, ReleaseStep
<1>6. Frame(t)
  BY <1>2, <1>3, <1>5, QuietStep
<1>7. txn' \in [Txns -> Txn \cup {Idle}] /\ TxnInv(t)'
  BY <1>1, <1>4, <1>6, GoToStep
<1>. QED
  BY <1>2, <1>3, <1>5, <1>7, QuietPreserves
-----------------------------------------------------------------------------
(* The actions that write rows *)

LEMMA LogTyped ==
    ASSUME audit \in [Ids -> Seq(AuditEvent)], NEW i \in Ids,
           NEW action \in {"CREATED", "WAITLISTED", "DROPPED", "WAITLIST_LEFT", "SWAPPED"},
           NEW from \in Ids \cup {None}, Log(i, action, from)
    PROVE  audit' \in [Ids -> Seq(AuditEvent)]
<1>1. [action |-> action, from |-> from] \in AuditEvent
  BY DEF AuditEvent
<1>. QED
  BY <1>1 DEF Log

LEMMA LogAllTyped ==
    ASSUME audit \in [Ids -> Seq(AuditEvent)], NEW R,
           NEW action \in {"PROMOTED", "EXPIRED"}, LogAll(R, action)
    PROVE  audit' \in [Ids -> Seq(AuditEvent)]
<1>1. [action |-> action, from |-> None] \in AuditEvent
  BY DEF AuditEvent
<1>. QED
  BY <1>1 DEF LogAll

LEMMA NotifyTyped ==
    ASSUME notices \in [Ids -> Seq({"WAITLIST_PROMOTED", "WAITLIST_EXPIRED"})],
           NEW R \in SUBSET Ids, NEW kind \in {"WAITLIST_PROMOTED", "WAITLIST_EXPIRED"},
           Notify(R, kind)
    PROVE  notices' \in [Ids -> Seq({"WAITLIST_PROMOTED", "WAITLIST_EXPIRED"})]
BY DEF Notify

\* A new row n of student u in section s, "others" being all the rows there were.
LEMMA InsertRow ==
    ASSUME TypeOK, TablesInv, NEW n \in Ids, NEW u \in Students, NEW s \in Sections,
           NEW status \in ActiveStatuses, NEW pos \in Nat \cup {None},
           Insert(n, u, s, status, pos)
    PROVE  /\ enr' \in [Ids -> Row \cup {Unused}]
           /\ enr[n] = Unused /\ \A i \in Ids \ {n} : enr'[i] = enr[i]
           /\ enr'[n] = [student |-> u, section |-> s, status |-> status, pos |-> pos]
           /\ IsFiniteSet({i \in Ids : enr'[i] # Unused})
           /\ \A r \in Sections : Seated(r)' =
                 IF r = s /\ status = "ENROLLED" THEN Seated(r) \cup {n} ELSE Seated(r)
           /\ \A r \in Sections : Waiting(r)' =
                 IF r = s /\ status = "WAITLISTED" THEN Waiting(r) \cup {n} ELSE Waiting(r)
<1>. DEFINE row == [student |-> u, section |-> s, status |-> status, pos |-> pos]
            used == {i \in Ids : enr[i] # Unused}
<1>1. row \in Row
  BY DEF Row, Statuses
<1>2. enr[n] = Unused /\ enr' = [enr EXCEPT ![n] = row]
  BY DEF Insert
<1>3. enr' \in [Ids -> Row \cup {Unused}] /\ enr'[n] = row /\ \A i \in Ids \ {n} : enr'[i] = enr[i]
  BY <1>1, <1>2 DEF TypeOK
<1>4. {i \in Ids : enr'[i] # Unused} \subseteq used \cup {n}
  BY <1>3
<1>5. IsFiniteSet(used)
  BY DEF TablesInv
<1>6. IsFiniteSet({i \in Ids : enr'[i] # Unused})
  BY <1>4, <1>5, FS_AddElement, FS_Subset
<1>7. row.section = s /\ row.status = status
  OBVIOUS
<1>8. \A r \in Sections : n \notin Seated(r) /\ n \notin Waiting(r)
  BY <1>2, NoneApart DEF Seated, Waiting, Unused
<1>9. \A r \in Sections : Seated(r)' =
         IF r = s /\ status = "ENROLLED" THEN Seated(r) \cup {n} ELSE Seated(r)
  BY <1>3, <1>7, <1>8 DEF Seated
<1>10. \A r \in Sections : Waiting(r)' =
         IF r = s /\ status = "WAITLISTED" THEN Waiting(r) \cup {n} ELSE Waiting(r)
  BY <1>3, <1>7, <1>8 DEF Waiting
<1>. QED
  BY <1>2, <1>3, <1>6, <1>9, <1>10

LEMMA EnrollSeatPreserves ==
    ASSUME IInv, NEW t \in Txns, EnrollSeat(t)
    PROVE  Preserves(t)
<1>. DEFINE s == txn[t].sec
            u == txn[t].student
<1>1. /\ TypeOK /\ TablesInv /\ s \in Sections /\ u \in Students /\ lock[s] = t
      /\ ActiveIn(u, s) = {} /\ enrolledCount[s] < capacity[s]
  BY Begun DEF EnrollSeat, At, TxnInv, MatchesItsRow, HoldsItsLocks, ReadsTrue
<1>2. PICK n \in Ids : Insert(n, u, s, "ENROLLED", None) /\ Log(n, "CREATED", None)
  BY DEF EnrollSeat
<1>3. /\ enrolledCount' = [enrolledCount EXCEPT ![s] = @ + 1] /\ Finish(t)
      /\ UNCHANGED <<now, held, capacity, waitlistCap, notices, faults, queueVars>>
  BY DEF EnrollSeat
<1>. DEFINE row == [student |-> u, section |-> s, status |-> "ENROLLED", pos |-> None]
<1>4. /\ enr' \in [Ids -> Row \cup {Unused}]
      /\ enr[n] = Unused /\ \A i \in Ids \ {n} : enr'[i] = enr[i]
      /\ enr'[n] = row
      /\ IsFiniteSet({i \in Ids : enr'[i] # Unused})
      /\ \A r \in Sections : Seated(r)' = IF r = s THEN Seated(r) \cup {n} ELSE Seated(r)
      /\ \A r \in Sections : Waiting(r)' = Waiting(r)
  <2>1. "ENROLLED" \in ActiveStatuses /\ None \in Nat \cup {None}
    BY DEF ActiveStatuses
  <2>. QED
    BY <1>1, <1>2, <2>1, InsertRow
<1>5. /\ txn' \in [Txns -> Txn \cup {Idle}] /\ lock' \in [Sections -> Txns \cup {None}]
      /\ \A v \in Txns \ {t} : txn'[v] = txn[v]
      /\ \A r \in Sections : lock[r] \notin {t, None} => lock'[r] = lock[r]
      /\ TxnInv(t)'
  BY <1>1, <1>3, FinishStep
<1>6. /\ enrolledCount' \in [Sections -> Nat] /\ enrolledCount'[s] = enrolledCount[s] + 1
      /\ \A r \in Sections \ {s} : enrolledCount'[r] = enrolledCount[r]
  BY <1>1, <1>3 DEF TypeOK
<1>7. TypeOK'
  <2>1. audit' \in [Ids -> Seq(AuditEvent)]
    BY <1>1, <1>2, LogTyped DEF TypeOK
  <2>. QED
    BY <1>1, <1>3, <1>4, <1>5, <1>6, <2>1 DEF TypeOK, queueVars, QueueTypeOK
<1>8. Frame(t)
  BY <1>1, <1>3, <1>4, <1>5, <1>6, NoneApart DEF Frame, Unused
<1>9. TablesInv'
  <2>1. CounterMatchesRows'
    <3>1. n \notin Seated(s)
      BY <1>1, <1>4, NoneApart DEF Seated, Unused
    <3>2. Cardinality(Seated(s) \cup {n}) = Cardinality(Seated(s)) + 1
      BY <1>1, <3>1, FiniteSection, FS_AddElement
    <3>. QED
      BY <1>1, <1>4, <1>6, <3>2 DEF CounterMatchesRows, TablesInv
  <2>2. \A r \in Sections : enrolledCount'[r] <= capacity'[r]
    BY <1>1, <1>3, <1>6 DEF TablesInv, TypeOK
  <2>3. WaitlistOrdered'
    <3>1. \A i \in Ids : enr'[i].pos # None <=> enr'[i].status = "WAITLISTED"
      BY <1>1, <1>4 DEF TablesInv, WaitlistOrdered
    <3>2. \A r \in Sections : \A i \in Waiting(r) : enr'[i] = enr[i]
      BY <1>4, NoneApart DEF Waiting, Unused
    <3>. QED
      BY <1>1, <1>4, <3>1, <3>2 DEF TablesInv, WaitlistOrdered
  <2>4. OneActiveRow'
    <3>1. ASSUME NEW v \in Students, NEW r \in Sections
          PROVE  ActiveIn(v, r)' \subseteq ActiveIn(v, r) \cup (IF v = u /\ r = s THEN {n} ELSE {})
      BY <1>4 DEF ActiveIn, Active
    <3>. QED
      BY <1>1, <3>1 DEF TablesInv, OneActiveRow
  <2>. QED
    BY <1>4, <2>1, <2>2, <2>3, <2>4 DEF TablesInv
<1>. QED
  BY <1>5, <1>7, <1>8, <1>9 DEF Preserves

LEMMA EnrollWaitPreserves ==
    ASSUME IInv, NEW t \in Txns, EnrollWait(t)
    PROVE  Preserves(t)
<1>. DEFINE s == txn[t].sec
            u == txn[t].student
            num == txn[t].num
<1>1. /\ TypeOK /\ TablesInv /\ s \in Sections /\ u \in Students /\ lock[s] = t
      /\ ActiveIn(u, s) = {} /\ num \in Nat /\ \A i \in Waiting(s) : enr[i].pos < num
  BY Begun DEF EnrollWait, At, TxnInv, MatchesItsRow, HoldsItsLocks, ReadsTrue, Txn
<1>2. PICK n \in Ids : Insert(n, u, s, "WAITLISTED", num) /\ Log(n, "WAITLISTED", None)
  BY DEF EnrollWait
<1>3. /\ Finish(t)
      /\ UNCHANGED <<now, held, capacity, enrolledCount, waitlistCap, notices, faults, queueVars>>
  BY DEF EnrollWait
<1>. DEFINE row == [student |-> u, section |-> s, status |-> "WAITLISTED", pos |-> num]
<1>4. /\ enr' \in [Ids -> Row \cup {Unused}]
      /\ enr[n] = Unused /\ \A i \in Ids \ {n} : enr'[i] = enr[i]
      /\ enr'[n] = row
      /\ IsFiniteSet({i \in Ids : enr'[i] # Unused})
      /\ \A r \in Sections : Seated(r)' = Seated(r)
      /\ \A r \in Sections : Waiting(r)' = IF r = s THEN Waiting(r) \cup {n} ELSE Waiting(r)
  <2>1. "WAITLISTED" \in ActiveStatuses
    BY DEF ActiveStatuses
  <2>. QED
    BY <1>1, <1>2, <2>1, InsertRow
<1>5. /\ txn' \in [Txns -> Txn \cup {Idle}] /\ lock' \in [Sections -> Txns \cup {None}]
      /\ \A v \in Txns \ {t} : txn'[v] = txn[v]
      /\ \A r \in Sections : lock[r] \notin {t, None} => lock'[r] = lock[r]
      /\ TxnInv(t)'
  BY <1>1, <1>3, FinishStep
<1>6. TypeOK'
  <2>1. audit' \in [Ids -> Seq(AuditEvent)]
    BY <1>1, <1>2, LogTyped DEF TypeOK
  <2>. QED
    BY <1>1, <1>3, <1>4, <1>5, <2>1 DEF TypeOK, queueVars, QueueTypeOK
<1>7. Frame(t)
  BY <1>1, <1>3, <1>4, <1>5, NoneApart DEF Frame, Unused
<1>8. TablesInv'
  <2>1. CounterMatchesRows' /\ \A r \in Sections : enrolledCount'[r] <= capacity'[r]
    BY <1>1, <1>3, <1>4 DEF CounterMatchesRows, TablesInv
  <2>2. WaitlistOrdered'
    <3>1. \A i \in Ids : enr'[i].pos # None <=> enr'[i].status = "WAITLISTED"
      BY <1>1, <1>4, NoneApart DEF TablesInv, WaitlistOrdered
    <3>2. \A r \in Sections : \A i \in Waiting(r) : i # n /\ enr'[i] = enr[i]
      BY <1>4, NoneApart DEF Waiting, Unused
    <3>3. \A i \in Waiting(s) : enr'[i].pos # enr'[n].pos
      BY <1>1, <1>4, <3>2, WaitingTyped
    <3>4. ASSUME NEW r \in Sections, NEW i \in Waiting(r)', NEW j \in Waiting(r)',
                 enr'[i].pos = enr'[j].pos
          PROVE  i = j
      <4>1. CASE i \in Waiting(r) /\ j \in Waiting(r)
        BY <1>1, <3>2, <3>4, <4>1 DEF TablesInv, WaitlistOrdered
      <4>2. CASE ~(i \in Waiting(r) /\ j \in Waiting(r))
        BY <1>4, <3>3, <3>4, <4>2
      <4>. QED
        BY <4>1, <4>2
    <3>. QED
      BY <3>1, <3>4 DEF WaitlistOrdered
  <2>3. OneActiveRow'
    <3>1. ASSUME NEW v \in Students, NEW r \in Sections
          PROVE  ActiveIn(v, r)' \subseteq ActiveIn(v, r) \cup (IF v = u /\ r = s THEN {n} ELSE {})
      BY <1>4 DEF ActiveIn, Active
    <3>. QED
      BY <1>1, <3>1 DEF TablesInv, OneActiveRow
  <2>. QED
    BY <1>4, <2>1, <2>2, <2>3 DEF TablesInv
<1>. QED
  BY <1>5, <1>6, <1>7, <1>8 DEF Preserves

\* Rows that close give up their position, and their seat if they had one.
LEMMA CloseRows ==
    ASSUME TypeOK, TablesInv, NEW R \in SUBSET Ids, \A i \in R : enr[i] # Unused,
           enr' = [i \in Ids |-> IF i \in R THEN Closing(enr[i]) ELSE enr[i]]
    PROVE  /\ enr' \in [Ids -> Row \cup {Unused}]
           /\ \A i \in Ids \ R : enr'[i] = enr[i]
           /\ \A i \in R : /\ enr'[i].student = enr[i].student
                            /\ enr'[i].section = enr[i].section
                            /\ enr'[i].status = "DROPPED" /\ enr'[i].pos = None
           /\ IsFiniteSet({i \in Ids : enr'[i] # Unused})
           /\ \A s \in Sections : Seated(s)' = Seated(s) \ R /\ Waiting(s)' = Waiting(s) \ R
           /\ WaitlistOrdered' /\ OneActiveRow'
<1>1. \A i \in R : enr[i] \in Row /\ enr'[i] = Closing(enr[i])
  BY DEF TypeOK
<1>2. \A i \in R : /\ enr'[i] \in Row
                   /\ enr'[i].student = enr[i].student
                   /\ enr'[i].section = enr[i].section
                   /\ enr'[i].status = "DROPPED" /\ enr'[i].pos = None
  BY <1>1 DEF Row, Closing, Statuses
<1>3. enr' \in [Ids -> Row \cup {Unused}] /\ \A i \in Ids \ R : enr'[i] = enr[i]
  BY <1>2 DEF TypeOK
<1>4. IsFiniteSet({i \in Ids : enr'[i] # Unused})
  <2>1. {i \in Ids : enr'[i] # Unused} \subseteq {i \in Ids : enr[i] # Unused}
    BY <1>3
  <2>2. IsFiniteSet({i \in Ids : enr[i] # Unused})
    BY DEF TablesInv
  <2>. QED
    BY <2>1, <2>2, FS_Subset
<1>5. \A s \in Sections : Seated(s)' = Seated(s) \ R /\ Waiting(s)' = Waiting(s) \ R
  BY <1>2, <1>3 DEF Seated, Waiting
<1>6. WaitlistOrdered'
  <2>1. \A i \in Ids : enr'[i].pos # None <=> enr'[i].status = "WAITLISTED"
    BY <1>2, <1>3 DEF TablesInv, WaitlistOrdered
  <2>2. \A s \in Sections : \A i \in Waiting(s)' : i \in Waiting(s) /\ enr'[i] = enr[i]
    BY <1>3, <1>5 DEF Waiting
  <2>. QED
    BY <2>1, <2>2 DEF TablesInv, WaitlistOrdered
<1>7. OneActiveRow'
  <2>1. \A u \in Students, s \in Sections : ActiveIn(u, s)' \subseteq ActiveIn(u, s)
    BY <1>2, <1>3 DEF ActiveIn, Active, ActiveStatuses
  <2>. QED
    BY <2>1 DEF TablesInv, OneActiveRow
<1>. QED
  BY <1>2, <1>3, <1>4, <1>5, <1>6, <1>7

LEMMA CloseOne ==
    ASSUME TypeOK, NEW i \in Ids, Close(i)
    PROVE  enr' = [j \in Ids |-> IF j \in {i} THEN Closing(enr[j]) ELSE enr[j]]
BY DEF Close, TypeOK

LEMMA DropPreserves ==
    ASSUME IInv, NEW t \in Txns, Drop(t)
    PROVE  Preserves(t)
<1>. DEFINE s == txn[t].sec
            i == txn[t].id
<1>1. /\ TypeOK /\ TablesInv /\ s \in Sections /\ lock[s] = t /\ i \in Ids
      /\ enr[i].section = s /\ txn[t] \in Txn /\ MatchesItsRow(t) /\ enr[i] # Unused
  BY Begun, NoneApart DEF Drop, At, TxnInv, MatchesItsRow, HoldsItsLocks, Unused
<1>2. UNCHANGED <<now, held, capacity, waitlistCap, notices, faults, queueVars>>
  BY DEF Drop
<1>3. QueueTypeOK' /\ faults' \in 0..MaxFaults
  BY <1>1, <1>2 DEF TypeOK, queueVars, QueueTypeOK
<1>4. CASE /\ StatusUnderLock(i) = "ENROLLED" \/ StatusUnderLock(i) = "WAITLISTED"
           /\ Close(i) /\ (Log(i, "DROPPED", None) \/ Log(i, "WAITLIST_LEFT", None))
           /\ enrolledCount' = IF StatusUnderLock(i) = "ENROLLED"
                                 THEN [enrolledCount EXCEPT ![s] = @ - 1] ELSE enrolledCount
           /\ FinishFreeing(t) \/ Finish(t)
  <2>0. enr' = [j \in Ids |-> IF j \in {i} THEN Closing(enr[j]) ELSE enr[j]]
    BY <1>1, <1>4, CloseOne
  <2>1. /\ enr' \in [Ids -> Row \cup {Unused}]
        /\ \A j \in Ids \ {i} : enr'[j] = enr[j]
        /\ enr'[i].student = enr[i].student /\ enr'[i].section = enr[i].section
        /\ IsFiniteSet({j \in Ids : enr'[j] # Unused})
        /\ \A r \in Sections : Seated(r)' = Seated(r) \ {i} /\ Waiting(r)' = Waiting(r) \ {i}
        /\ WaitlistOrdered' /\ OneActiveRow'
    <3>1. {i} \in SUBSET Ids /\ \A j \in {i} : enr[j] # Unused
      BY <1>1
    <3>. HIDE DEF i
    <3>. QED
      BY <1>1, <2>0, <3>1, CloseRows
  <2>2. Cardinality(Seated(s)) \in Nat /\ enrolledCount[s] = Cardinality(Seated(s))
        /\ enrolledCount[s] <= capacity[s] /\ capacity[s] \in Nat
    BY <1>1, FiniteSection DEF TablesInv, CounterMatchesRows, TypeOK
  <2>3. enrolledCount'[s] = Cardinality(Seated(s) \ {i}) /\ enrolledCount'[s] \in Nat
    <3>1. IsFiniteSet(Seated(s)) /\ IsFiniteSet(Seated(s) \ {i})
      BY <1>1, FiniteSection, FS_RemoveElement
    <3>2. Cardinality(Seated(s) \ {i}) \in Nat
      BY <3>1, FS_CardinalityType
    <3>3. Cardinality(Seated(s) \ {i})
            = IF i \in Seated(s) THEN Cardinality(Seated(s)) - 1 ELSE Cardinality(Seated(s))
      BY <3>1, FS_RemoveElement
    <3>4. i \in Seated(s) <=> StatusUnderLock(i) = "ENROLLED"
      BY <1>1 DEF Seated, StatusUnderLock
    <3>. QED
      BY <1>1, <1>4, <2>2, <3>2, <3>3, <3>4 DEF TypeOK
  <2>4. \A r \in Sections \ {s} : enrolledCount'[r] = enrolledCount[r]
                                 /\ Seated(r)' = Seated(r)
    BY <1>1, <1>4, <2>1 DEF TypeOK, Seated
  <2>5. enrolledCount' \in [Sections -> Nat]
    BY <1>1, <1>4, <2>3, <2>4 DEF TypeOK
  <2>6. Release(t) /\ \A u \in Txns \ {t} : txn'[u] = txn[u]
    BY <1>1, <1>4 DEF FinishFreeing, Finish, GoTo, TypeOK
  <2>7. /\ lock' \in [Sections -> Txns \cup {None}]
        /\ \A r \in Sections : lock[r] \notin {t, None} => lock'[r] = lock[r]
    BY <1>1, <2>6, ReleaseStep
  <2>8. Frame(t)
    BY <1>1, <1>2, <2>1, <2>4, <2>6, <2>7 DEF Frame
  <2>9. txn' \in [Txns -> Txn \cup {Idle}] /\ TxnInv(t)'
    <3>1. CASE FinishFreeing(t)
      BY <1>1, <2>8, <3>1, GoToStep DEF FinishFreeing
    <3>2. CASE Finish(t)
      BY <1>1, <3>2, FinishStep
    <3>. QED
      BY <1>4, <3>1, <3>2
  <2>10. TypeOK'
    <3>1. audit' \in [Ids -> Seq(AuditEvent)]
      BY <1>1, <1>4, LogTyped DEF TypeOK
    <3>. QED
      BY <1>1, <1>2, <1>3, <2>1, <2>5, <2>7, <2>9, <3>1 DEF TypeOK
  <2>11. TablesInv'
    <3>1. CounterMatchesRows'
      BY <1>1, <2>1, <2>3, <2>4 DEF TablesInv, CounterMatchesRows
    <3>2. enrolledCount'[s] <= enrolledCount[s]
      BY <1>1, <1>4, <2>2 DEF TypeOK
    <3>3. ASSUME NEW r \in Sections PROVE enrolledCount'[r] <= capacity'[r]
      <4>1. CASE r = s
        BY <1>1, <1>2, <2>2, <2>3, <3>2, <4>1
      <4>2. CASE r # s
        BY <1>1, <1>2, <2>4, <4>2 DEF TablesInv
      <4>. QED
        BY <4>1, <4>2
    <3>. QED
      BY <2>1, <3>1, <3>3 DEF TablesInv
  <2>. QED
    BY <2>8, <2>9, <2>10, <2>11 DEF Preserves
<1>5. CASE Finish(t) /\ UNCHANGED <<enr, enrolledCount, audit>>
  BY <1>2, <1>3, <1>5, EndPreserves DEF tables
<1>. QED
  BY <1>4, <1>5 DEF Drop

LEMMA ExpirePreserves ==
    ASSUME IInv, NEW t \in Txns, Expire(t)
    PROVE  Preserves(t)
<1>. DEFINE s == txn[t].sec
            R == txn[t].rows
<1>1. /\ TypeOK /\ TablesInv /\ s \in Sections /\ lock[s] = t /\ R = Waiting(s)
  BY Begun DEF Expire, At, TxnInv, HoldsItsLocks, ReadsTrue
<1>2. /\ enr' = [i \in Ids |-> IF i \in R THEN Closing(enr[i]) ELSE enr[i]]
      /\ LogAll(R, "EXPIRED") /\ Notify(R, "WAITLIST_EXPIRED") /\ Finish(t)
      /\ UNCHANGED <<now, held, capacity, enrolledCount, waitlistCap, faults, queueVars>>
  BY DEF Expire
<1>3. R \in SUBSET Ids /\ \A i \in R : enr[i] # Unused /\ enr[i].section = s
  BY <1>1 DEF Waiting, Unused
<1>4. /\ enr' \in [Ids -> Row \cup {Unused}]
      /\ \A i \in Ids \ R : enr'[i] = enr[i]
      /\ \A i \in R : enr'[i].student = enr[i].student /\ enr'[i].section = enr[i].section
      /\ IsFiniteSet({i \in Ids : enr'[i] # Unused})
      /\ \A r \in Sections : Seated(r)' = Seated(r) \ R /\ Waiting(r)' = Waiting(r) \ R
      /\ WaitlistOrdered' /\ OneActiveRow'
  <2>1. enr' = [i \in Ids |-> IF i \in R THEN Closing(enr[i]) ELSE enr[i]]
    BY <1>2
  <2>2. R \in SUBSET Ids /\ \A i \in R : enr[i] # Unused
    BY <1>3
  <2>. HIDE DEF R
  <2>. QED
    BY <1>1, <2>1, <2>2, CloseRows
<1>5. /\ txn' \in [Txns -> Txn \cup {Idle}] /\ lock' \in [Sections -> Txns \cup {None}]
      /\ \A v \in Txns \ {t} : txn'[v] = txn[v]
      /\ \A r \in Sections : lock[r] \notin {t, None} => lock'[r] = lock[r]
      /\ TxnInv(t)'
  BY <1>1, <1>2, FinishStep
<1>6. TypeOK'
  <2>1. audit' \in [Ids -> Seq(AuditEvent)]
    BY <1>1, <1>2, LogAllTyped DEF TypeOK
  <2>2. notices' \in [Ids -> Seq({"WAITLIST_PROMOTED", "WAITLIST_EXPIRED"})]
    BY <1>1, <1>2, <1>3, NotifyTyped DEF TypeOK
  <2>. QED
    BY <1>1, <1>2, <1>4, <1>5, <2>1, <2>2 DEF TypeOK, queueVars, QueueTypeOK
<1>7. Frame(t)
  BY <1>1, <1>2, <1>3, <1>4, <1>5 DEF Frame
<1>8. TablesInv'
  <2>1. \A r \in Sections : Seated(r)' = Seated(r)
    BY <1>1, <1>4 DEF Seated, Waiting
  <2>. QED
    BY <1>1, <1>2, <1>4, <2>1 DEF TablesInv, CounterMatchesRows
<1>. QED
  BY <1>5, <1>6, <1>7, <1>8 DEF Preserves

LEMMA UpdatePreserves ==
    ASSUME IInv, NEW t \in Txns, UpdateSection(t)
    PROVE  Preserves(t)
<1>. DEFINE s == txn[t].sec
            num == txn[t].num
<1>1. /\ TypeOK /\ TablesInv /\ s \in Sections /\ lock[s] = t /\ txn[t] \in Txn
      /\ MatchesItsRow(t) /\ num \in Nat /\ num >= enrolledCount[s]
  BY Begun DEF UpdateSection, At, TxnInv, MatchesItsRow, HoldsItsLocks, ReadsTrue
<1>2. /\ capacity' = [capacity EXCEPT ![s] = num]
      /\ FinishFreeing(t) \/ Finish(t)
      /\ UNCHANGED <<now, held, enr, enrolledCount, audit, notices, faults, queueVars>>
  BY DEF UpdateSection
<1>3. PICK w \in WaitCaps \cup {waitlistCap[s]} : waitlistCap' = [waitlistCap EXCEPT ![s] = w]
  BY DEF UpdateSection
<1>4. waitlistCap' \in [Sections -> Nat \cup {None}]
  BY <1>1, <1>3, ParametersAssumption DEF TypeOK
<1>5. Release(t) /\ \A u \in Txns \ {t} : txn'[u] = txn[u]
  BY <1>1, <1>2 DEF FinishFreeing, Finish, GoTo, TypeOK
<1>6. /\ lock' \in [Sections -> Txns \cup {None}]
      /\ \A r \in Sections : lock[r] \notin {t, None} => lock'[r] = lock[r]
  BY <1>1, <1>5, ReleaseStep
<1>7. Frame(t)
  BY <1>1, <1>2, <1>5, <1>6 DEF Frame, TypeOK
<1>8. txn' \in [Txns -> Txn \cup {Idle}] /\ TxnInv(t)'
  <2>1. CASE FinishFreeing(t)
    BY <1>1, <1>7, <2>1, GoToStep DEF FinishFreeing
  <2>2. CASE Finish(t)
    BY <1>1, <2>2, FinishStep
  <2>. QED
    BY <1>2, <2>1, <2>2
<1>9. TypeOK'
  BY <1>1, <1>2, <1>4, <1>6, <1>8 DEF TypeOK, queueVars, QueueTypeOK
<1>10. TablesInv'
  <2>1. \A r \in Sections : enrolledCount'[r] <= capacity'[r]
    BY <1>1, <1>2 DEF TablesInv, TypeOK
  <2>2. \A r \in Sections : Seated(r)' = Seated(r) /\ Waiting(r)' = Waiting(r)
          /\ \A u \in Students : ActiveIn(u, r)' = ActiveIn(u, r)
    BY <1>2 DEF Seated, Waiting, ActiveIn, Active
  <2>. QED
    BY <1>1, <1>2, <2>1, <2>2
    DEF TablesInv, CounterMatchesRows, WaitlistOrdered, OneActiveRow
<1>. QED
  BY <1>7, <1>8, <1>9, <1>10 DEF Preserves

LEMMA PromotePreserves ==
    ASSUME IInv, NEW t \in Txns, Promote(t)
    PROVE  Preserves(t)
<1>. DEFINE s == txn[t].sec
<1>1. /\ TypeOK /\ TablesInv /\ s \in Sections /\ lock[s] = t /\ txn[t] \in Txn
      /\ MatchesItsRow(t) /\ txn[t].num = enrolledCount[s]
  BY Begun DEF Promote, At, TxnInv, HoldsItsLocks, ReadsTrue
<1>2. PICK P \in HeadsOf(s, capacity[s] - txn[t].num) :
         /\ enr' = [i \in Ids |-> IF i \in P
                                    THEN [enr[i] EXCEPT !.status = "ENROLLED", !.pos = None]
                                    ELSE enr[i]]
         /\ enrolledCount' = [enrolledCount EXCEPT ![s] = txn[t].num + Cardinality(P)]
         /\ LogAll(P, "PROMOTED") /\ Notify(P, "WAITLIST_PROMOTED")
  BY DEF Promote
<1>3. /\ Release(t) /\ GoTo(t, "done")
      /\ UNCHANGED <<now, held, capacity, waitlistCap, faults, queueVars>>
  BY DEF Promote
<1>4. P \subseteq Waiting(s) /\ Cardinality(P) <= capacity[s] - enrolledCount[s]
  BY <1>1 DEF HeadsOf
<1>5. IsFiniteSet(P) /\ Cardinality(P) \in Nat
  BY <1>1, <1>4, FiniteSection, FS_Subset, FS_CardinalityType
<1>6. \A i \in P : i \in Ids /\ enr[i] \in Row /\ enr[i] # Unused
                   /\ enr[i].section = s /\ enr[i].status = "WAITLISTED"
  BY <1>1, <1>4, WaitingTyped DEF Waiting, Unused
<1>7. /\ \A i \in P : /\ enr'[i] \in Row /\ enr'[i].student = enr[i].student
                      /\ enr'[i].section = enr[i].section
                      /\ enr'[i].status = "ENROLLED" /\ enr'[i].pos = None
      /\ \A i \in Ids \ P : enr'[i] = enr[i]
  BY <1>2, <1>6 DEF Row, Statuses, ActiveStatuses
<1>8. enr' \in [Ids -> Row \cup {Unused}]
  BY <1>1, <1>2, <1>7 DEF TypeOK
<1>9. /\ enrolledCount' \in [Sections -> Nat]
      /\ enrolledCount'[s] = enrolledCount[s] + Cardinality(P)
      /\ \A r \in Sections \ {s} : enrolledCount'[r] = enrolledCount[r]
  <2>1. enrolledCount \in [Sections -> Nat] /\ enrolledCount[s] + Cardinality(P) \in Nat
    BY <1>1, <1>5 DEF TypeOK
  <2>2. enrolledCount' = [enrolledCount EXCEPT ![s] = enrolledCount[s] + Cardinality(P)]
    BY <1>1, <1>2
  <2>. QED
    BY <1>1, <2>1, <2>2
<1>10. \A r \in Sections : /\ Seated(r)' = IF r = s THEN Seated(r) \cup P ELSE Seated(r)
                           /\ Waiting(r)' = Waiting(r) \ P
  BY <1>6, <1>7 DEF Seated, Waiting
<1>11. /\ lock' \in [Sections -> Txns \cup {None}]
       /\ \A r \in Sections : lock[r] \notin {t, None} => lock'[r] = lock[r]
       /\ \A u \in Txns \ {t} : txn'[u] = txn[u]
  BY <1>1, <1>3, ReleaseStep DEF GoTo, TypeOK
<1>12. Frame(t)
  BY <1>1, <1>3, <1>6, <1>7, <1>9, <1>11 DEF Frame
<1>13. txn' \in [Txns -> Txn \cup {Idle}] /\ TxnInv(t)'
  BY <1>1, <1>3, <1>12, GoToStep
<1>14. TypeOK'
  <2>1. audit' \in [Ids -> Seq(AuditEvent)]
    BY <1>1, <1>2, LogAllTyped DEF TypeOK
  <2>2. notices' \in [Ids -> Seq({"WAITLIST_PROMOTED", "WAITLIST_EXPIRED"})]
    BY <1>1, <1>2, <1>6, NotifyTyped DEF TypeOK
  <2>. QED
    BY <1>1, <1>3, <1>8, <1>9, <1>11, <1>13, <2>1, <2>2 DEF TypeOK, queueVars, QueueTypeOK
<1>15. TablesInv'
  <2>1. IsFiniteSet({i \in Ids : enr'[i] # Unused})
    <3>1. {i \in Ids : enr'[i] # Unused} \subseteq {i \in Ids : enr[i] # Unused}
      BY <1>6, <1>7
    <3>2. IsFiniteSet({i \in Ids : enr[i] # Unused})
      BY <1>1 DEF TablesInv
    <3>. QED
      BY <3>1, <3>2, FS_Subset
  <2>2. CounterMatchesRows'
    <3>1. IsFiniteSet(Seated(s)) /\ Cardinality(Seated(s)) \in Nat
      BY <1>1, FiniteSection
    <3>2. Seated(s) \cap P = {}
      BY <1>6 DEF Seated
    <3>3. Cardinality(Seated(s) \cup P) = Cardinality(Seated(s)) + Cardinality(P)
      <4>1. Cardinality(Seated(s) \cup P)
              = Cardinality(Seated(s)) + Cardinality(P) - Cardinality(Seated(s) \cap P)
        BY <1>5, <3>1, FS_Union
      <4>2. Cardinality(Seated(s) \cap P) = 0
        BY <3>2, FS_EmptySet, Zenon
      <4>. QED
        BY <1>5, <3>1, <4>1, <4>2
    <3>4. ASSUME NEW r \in Sections PROVE enrolledCount'[r] = Cardinality(Seated(r)')
      <4>1. enrolledCount[r] = Cardinality(Seated(r))
        BY <1>1 DEF TablesInv, CounterMatchesRows
      <4>2. CASE r = s
        <5>1. Seated(r)' = Seated(r) \cup P
          BY <1>10, <4>2
        <5>. QED
          BY <1>9, <3>3, <4>1, <4>2, <5>1
      <4>3. CASE r # s
        <5>1. Seated(r)' = Seated(r)
          BY <1>10, <4>3
        <5>. QED
          BY <1>9, <4>1, <4>3, <5>1
      <4>. QED
        BY <4>2, <4>3
    <3>. QED
      BY <3>4 DEF CounterMatchesRows
  <2>3. ASSUME NEW r \in Sections PROVE enrolledCount'[r] <= capacity'[r]
    <3>1. enrolledCount[s] \in Nat /\ capacity[s] \in Nat
      BY <1>1 DEF TypeOK
    <3>2. CASE r = s
      BY <1>3, <1>4, <1>5, <1>9, <3>1, <3>2
    <3>3. CASE r # s
      BY <1>1, <1>3, <1>9, <3>3 DEF TablesInv
    <3>. QED
      BY <3>2, <3>3
  <2>4. WaitlistOrdered'
    <3>1. \A i \in Ids : enr'[i].pos # None <=> enr'[i].status = "WAITLISTED"
      BY <1>1, <1>7 DEF TablesInv, WaitlistOrdered
    <3>2. \A r \in Sections : \A i \in Waiting(r)' : i \in Waiting(r) /\ enr'[i] = enr[i]
      BY <1>7, <1>10 DEF Waiting
    <3>. QED
      BY <1>1, <3>1, <3>2 DEF TablesInv, WaitlistOrdered
  <2>5. OneActiveRow'
    <3>1. \A u \in Students, r \in Sections : ActiveIn(u, r)' \subseteq ActiveIn(u, r)
      BY <1>6, <1>7 DEF ActiveIn, Active, ActiveStatuses
    <3>. QED
      BY <1>1, <3>1 DEF TablesInv, OneActiveRow
  <2>. QED
    BY <2>1, <2>2, <2>3, <2>4, <2>5 DEF TablesInv
<1>. QED
  BY <1>12, <1>13, <1>14, <1>15 DEF Preserves

LEMMA ReorderPreserves ==
    ASSUME IInv, NEW t \in Txns, Reorder(t)
    PROVE  Preserves(t)
<1>. DEFINE s == txn[t].sec
            R == txn[t].rows
<1>1. /\ TypeOK /\ TablesInv /\ s \in Sections /\ lock[s] = t /\ R = Waiting(s)
  BY Begun DEF Reorder, At, TxnInv, HoldsItsLocks, ReadsTrue
<1>2. PICK place \in [R -> 1..Cardinality(R)] :
         /\ \A i, j \in R : place[i] = place[j] => i = j
         /\ enr' = [i \in Ids |-> IF i \in R THEN [enr[i] EXCEPT !.pos = place[i]] ELSE enr[i]]
  BY DEF Reorder
<1>3. /\ Finish(t)
      /\ UNCHANGED <<now, held, capacity, enrolledCount, waitlistCap, audit, notices, faults,
                     queueVars>>
  BY DEF Reorder
<1>4. \A i \in R : i \in Ids /\ enr[i] \in Row /\ enr[i] # Unused
                   /\ enr[i].section = s /\ enr[i].status = "WAITLISTED"
  BY <1>1, WaitingTyped DEF Waiting, Unused
<1>5. \A i \in R : place[i] \in Nat
  <2>1. Cardinality(R) \in Nat
    BY <1>1, FiniteSection
  <2>. HIDE DEF R
  <2>. QED
    BY <1>2, <2>1
<1>6. /\ \A i \in R : /\ enr'[i] \in Row /\ enr'[i].student = enr[i].student
                      /\ enr'[i].section = enr[i].section
                      /\ enr'[i].status = enr[i].status /\ enr'[i].pos = place[i]
      /\ \A i \in Ids \ R : enr'[i] = enr[i]
  BY <1>2, <1>4, <1>5 DEF Row
<1>7. enr' \in [Ids -> Row \cup {Unused}]
  BY <1>1, <1>2, <1>6 DEF TypeOK
<1>8. \A r \in Sections : Seated(r)' = Seated(r) /\ Waiting(r)' = Waiting(r)
  BY <1>6 DEF Seated, Waiting
<1>9. /\ txn' \in [Txns -> Txn \cup {Idle}] /\ lock' \in [Sections -> Txns \cup {None}]
      /\ \A v \in Txns \ {t} : txn'[v] = txn[v]
      /\ \A r \in Sections : lock[r] \notin {t, None} => lock'[r] = lock[r]
      /\ TxnInv(t)'
  BY <1>1, <1>3, FinishStep
<1>10. TypeOK'
  BY <1>1, <1>3, <1>7, <1>9 DEF TypeOK, queueVars, QueueTypeOK
<1>11. Frame(t)
  BY <1>1, <1>3, <1>4, <1>6, <1>9 DEF Frame
<1>12. TablesInv'
  <2>1. IsFiniteSet({i \in Ids : enr'[i] # Unused})
    <3>1. {i \in Ids : enr'[i] # Unused} \subseteq {i \in Ids : enr[i] # Unused}
      BY <1>4, <1>6
    <3>2. IsFiniteSet({i \in Ids : enr[i] # Unused})
      BY <1>1 DEF TablesInv
    <3>. QED
      BY <3>1, <3>2, FS_Subset
  <2>2. CounterMatchesRows' /\ \A r \in Sections : enrolledCount'[r] <= capacity'[r]
    BY <1>1, <1>3, <1>8 DEF TablesInv, CounterMatchesRows
  <2>3. WaitlistOrdered'
    <3>1. \A i \in Ids : enr'[i].pos # None <=> enr'[i].status = "WAITLISTED"
      BY <1>1, <1>4, <1>5, <1>6, NoneApart DEF TablesInv, WaitlistOrdered
    <3>2. ASSUME NEW r \in Sections, NEW i \in Waiting(r)', NEW j \in Waiting(r)',
                 enr'[i].pos = enr'[j].pos
          PROVE  i = j
      <4>1. i \in Waiting(r) /\ j \in Waiting(r)
        BY <1>8
      <4>2. CASE r = s
        <5>1. i \in R /\ j \in R /\ enr'[i].pos = place[i] /\ enr'[j].pos = place[j]
          BY <1>1, <1>6, <4>1, <4>2
        <5>. HIDE DEF R
        <5>. QED
          BY <1>2, <3>2, <5>1
      <4>3. CASE r # s
        <5>1. enr'[i] = enr[i] /\ enr'[j] = enr[j]
          BY <1>4, <1>6, <4>1, <4>3 DEF Waiting
        <5>. QED
          BY <1>1, <3>2, <4>1, <5>1 DEF TablesInv, WaitlistOrdered
      <4>. QED
        BY <4>2, <4>3
    <3>. QED
      BY <3>1, <3>2 DEF WaitlistOrdered
  <2>4. OneActiveRow'
    <3>1. \A u \in Students, r \in Sections : ActiveIn(u, r)' = ActiveIn(u, r)
      BY <1>4, <1>6 DEF ActiveIn, Active
    <3>. QED
      BY <1>1, <3>1 DEF TablesInv, OneActiveRow
  <2>. QED
    BY <2>1, <2>2, <2>3, <2>4 DEF TablesInv
<1>. QED
  BY <1>9, <1>10, <1>11, <1>12 DEF Preserves

LEMMA SwapPreserves ==
    ASSUME IInv, NEW t \in Txns, Swap(t)
    PROVE  Preserves(t)
<1>. DEFINE s == txn[t].sec
            r == txn[t].tgt
            i == txn[t].id
            u == txn[t].student
            row == [student |-> u, section |-> r, status |-> "ENROLLED", pos |-> None]
<1>1. /\ TypeOK /\ TablesInv /\ s \in Sections /\ r \in Sections /\ r # s
      /\ lock[s] = t /\ lock[r] = t /\ i \in Ids /\ u \in Students
      /\ enr[i].student = u /\ enr[i].section = s /\ enr[i] # Unused
      /\ enr[i].status = txn[t].was /\ enrolledCount[r] < capacity[r]
      /\ txn[t] \in Txn /\ MatchesItsRow(t)
  BY Begun, NoneApart DEF Swap, At, TxnInv, MatchesItsRow, HoldsItsLocks, ReadsTrue, Unused
<1>2. ActiveIn(u, r) = {}
  BY DEF Swap, IndexAllows
<1>3. PICK n \in Ids : /\ enr[n] = Unused
                      /\ enr' = [enr EXCEPT ![i] = Closing(@), ![n] = row]
                      /\ Log(n, "SWAPPED", i)
  BY DEF Swap
<1>4. /\ enrolledCount' = [enrolledCount EXCEPT ![s] = IF SwapFrees(t) THEN @ - 1 ELSE @,
                                                 ![r] = @ + 1]
      /\ FinishFreeing(t) \/ Finish(t)
      /\ UNCHANGED <<now, held, capacity, waitlistCap, notices, faults, queueVars>>
  BY DEF Swap
<1>5. i # n
  BY <1>1, <1>3
<1>6. /\ enr'[n] = row /\ enr'[i] = Closing(enr[i])
      /\ \A j \in Ids \ {i, n} : enr'[j] = enr[j]
  BY <1>1, <1>3, <1>5 DEF TypeOK
<1>7. /\ enr'[i] \in Row /\ enr'[i].student = u /\ enr'[i].section = s
      /\ enr'[i].status = "DROPPED" /\ enr'[i].pos = None
  <2>1. enr[i] \in Row
    BY <1>1 DEF TypeOK
  <2>. QED
    BY <1>1, <1>6, <2>1 DEF Row, Closing, Statuses
<1>8. row \in Row /\ row.student = u /\ row.section = r /\ row.status = "ENROLLED"
      /\ row.pos = None
  BY <1>1 DEF Row, Statuses, ActiveStatuses
<1>. HIDE DEF row
<1>9. enr' \in [Ids -> Row \cup {Unused}]
  BY <1>1, <1>3, <1>6, <1>7, <1>8 DEF TypeOK
<1>10. \A q \in Sections : n \notin Seated(q) /\ n \notin Waiting(q)
  BY <1>3, NoneApart DEF Seated, Waiting, Unused
<1>11. \A q \in Sections :
          /\ Seated(q)' = IF q = r THEN Seated(q) \cup {n} ELSE Seated(q) \ {i}
          /\ Waiting(q)' = Waiting(q) \ {i}
  BY <1>1, <1>5, <1>6, <1>7, <1>8, <1>10 DEF Seated, Waiting
<1>12. i \in Seated(s) <=> SwapFrees(t)
  BY <1>1 DEF Seated, SwapFrees
<1>13. /\ Cardinality(Seated(r) \cup {n}) = Cardinality(Seated(r)) + 1
       /\ Cardinality(Seated(s) \ {i}) \in Nat
       /\ Cardinality(Seated(s) \ {i})
            = IF SwapFrees(t) THEN Cardinality(Seated(s)) - 1 ELSE Cardinality(Seated(s))
  <2>1. IsFiniteSet(Seated(r)) /\ IsFiniteSet(Seated(s)) /\ IsFiniteSet(Seated(s) \ {i})
    BY <1>1, FiniteSection, FS_RemoveElement
  <2>2. Cardinality(Seated(r) \cup {n}) = Cardinality(Seated(r)) + 1
    BY <1>1, <1>10, <2>1, FS_AddElement
  <2>3. Cardinality(Seated(s) \ {i})
          = IF i \in Seated(s) THEN Cardinality(Seated(s)) - 1 ELSE Cardinality(Seated(s))
    BY <2>1, FS_RemoveElement
  <2>. QED
    BY <1>12, <2>1, <2>2, <2>3, FS_CardinalityType
<1>14. \A q \in Sections : /\ enrolledCount[q] = Cardinality(Seated(q))
                           /\ enrolledCount[q] \in Nat /\ capacity[q] \in Nat
                           /\ enrolledCount[q] <= capacity[q]
  BY <1>1 DEF TablesInv, CounterMatchesRows, TypeOK
<1>15. /\ enrolledCount'[s] = Cardinality(Seated(s) \ {i})
       /\ enrolledCount'[r] = Cardinality(Seated(r) \cup {n})
       /\ \A q \in Sections \ {s, r} : enrolledCount'[q] = enrolledCount[q]
  BY <1>1, <1>4, <1>13, <1>14 DEF TypeOK
<1>16. enrolledCount' \in [Sections -> Nat]
  <2>1. enrolledCount'[s] \in Nat /\ enrolledCount'[r] \in Nat
    BY <1>1, <1>13, <1>14, <1>15
  <2>. QED
    BY <1>1, <1>4, <1>15, <2>1 DEF TypeOK
<1>17. Release(t) /\ \A v \in Txns \ {t} : txn'[v] = txn[v]
  BY <1>1, <1>4 DEF FinishFreeing, Finish, GoTo, TypeOK
<1>18. /\ lock' \in [Sections -> Txns \cup {None}]
       /\ \A q \in Sections : lock[q] \notin {t, None} => lock'[q] = lock[q]
  BY <1>1, <1>17, ReleaseStep
<1>19. Frame(t)
  <2>1. \A q \in Sections : lock[q] # t => q # s /\ q # r
    BY <1>1
  <2>2. ASSUME NEW q \in Sections, NEW j \in Ids, q # s, q # r,
               q \in {enr[j].section, enr'[j].section}
        PROVE  enr'[j] = enr[j]
    <3>1. j # i
      BY <1>1, <1>7, <2>2
    <3>2. enr[n].section = None /\ None # q
      BY <1>3, NoneApart DEF Unused
    <3>3. j # n
      BY <1>6, <1>8, <2>2, <3>2
    <3>. QED
      BY <1>6, <3>1, <3>3
  <2>3. \A j \in Ids : enr[j] # Unused =>
           enr'[j].student = enr[j].student /\ enr'[j].section = enr[j].section
    BY <1>1, <1>3, <1>6, <1>7
  <2>. QED
    BY <1>4, <1>15, <1>17, <1>18, <2>1, <2>2, <2>3 DEF Frame
<1>20. txn' \in [Txns -> Txn \cup {Idle}] /\ TxnInv(t)'
  <2>1. CASE FinishFreeing(t)
    BY <1>1, <1>19, <2>1, GoToStep DEF FinishFreeing
  <2>2. CASE Finish(t)
    BY <1>1, <2>2, FinishStep
  <2>. QED
    BY <1>4, <2>1, <2>2
<1>21. TypeOK'
  <2>1. audit' \in [Ids -> Seq(AuditEvent)]
    BY <1>1, <1>3, LogTyped DEF TypeOK
  <2>. QED
    BY <1>1, <1>4, <1>9, <1>16, <1>18, <1>20, <2>1 DEF TypeOK, queueVars, QueueTypeOK
<1>22. TablesInv'
  <2>1. IsFiniteSet({j \in Ids : enr'[j] # Unused})
    <3>. DEFINE used == {j \in Ids : enr[j] # Unused}
    <3>1. {j \in Ids : enr'[j] # Unused} \subseteq used \cup {n}
      BY <1>1, <1>6
    <3>2. IsFiniteSet(used)
      BY <1>1 DEF TablesInv
    <3>. QED
      BY <3>1, <3>2, FS_AddElement, FS_Subset
  <2>2. ASSUME NEW q \in Sections
        PROVE  enrolledCount'[q] = Cardinality(Seated(q)') /\ enrolledCount'[q] <= capacity'[q]
    <3>1. CASE q = s
      <4>1. Seated(q)' = Seated(s) \ {i}
        BY <1>1, <1>11, <3>1
      <4>. QED
        BY <1>1, <1>4, <1>13, <1>14, <1>15, <3>1, <4>1
    <3>2. CASE q = r
      <4>1. Seated(q)' = Seated(r) \cup {n}
        BY <1>1, <1>11, <3>2
      <4>. QED
        BY <1>1, <1>4, <1>13, <1>14, <1>15, <3>2, <4>1
    <3>3. CASE q # s /\ q # r
      <4>1. Seated(q)' = Seated(q)
        BY <1>1, <1>11, <3>3 DEF Seated
      <4>. QED
        BY <1>4, <1>14, <1>15, <3>3, <4>1
    <3>. QED
      BY <3>1, <3>2, <3>3
  <2>3. WaitlistOrdered'
    <3>1. \A j \in Ids : enr'[j].pos # None <=> enr'[j].status = "WAITLISTED"
      BY <1>1, <1>6, <1>7, <1>8 DEF TablesInv, WaitlistOrdered
    <3>2. \A q \in Sections : \A j \in Waiting(q)' : j \in Waiting(q) /\ enr'[j] = enr[j]
      BY <1>6, <1>10, <1>11 DEF Waiting
    <3>. QED
      BY <1>1, <3>1, <3>2 DEF TablesInv, WaitlistOrdered
  <2>4. OneActiveRow'
    <3>1. ASSUME NEW v \in Students, NEW q \in Sections
          PROVE  ActiveIn(v, q)' \subseteq ActiveIn(v, q) \cup (IF v = u /\ q = r THEN {n} ELSE {})
      BY <1>6, <1>7, <1>8 DEF ActiveIn, Active, ActiveStatuses
    <3>. QED
      BY <1>1, <1>2, <3>1 DEF TablesInv, OneActiveRow
  <2>. QED
    BY <2>1, <2>2, <2>3, <2>4 DEF TablesInv, CounterMatchesRows
<1>. QED
  BY <1>19, <1>20, <1>21, <1>22 DEF Preserves
-----------------------------------------------------------------------------
(* The invariant holds *)

LEMMA StepPreserves ==
    ASSUME IInv, NEW t \in Txns, AcquireLock(t) \/ Step(t) \/ Fault(t)
    PROVE  Preserves(t)
BY AcquireLockPreserves, FaultPreserves, RefusalPreserves, JobStepPreserves,
   EnrollCheckPreserves, EnrollSeatPreserves, EnrollWaitPreserves, DropPreserves,
   SwapCheckPreserves, SwapPreserves, PromoteCheckPreserves, PromoteClosedPreserves,
   PromotePreserves, ReorderCheckPreserves, ReorderPreserves, UpdateCheckPreserves,
   UpdatePreserves, ExpireCheckPreserves, ExpirePreserves
DEF Step

\* The clock, the holds and the sweep touch no row, no lock and no transaction.
LEMMA EnvironmentPreserves ==
    ASSUME IInv, \/ Sweep \/ Tick \/ UNCHANGED vars
                 \/ \E u \in Students : PlaceHold(u) \/ ReleaseHold(u)
    PROVE  IInv'
<1>1. UNCHANGED <<enr, capacity, enrolledCount, waitlistCap, audit, notices, lock, txn, faults>>
  BY DEF Sweep, Tick, PlaceHold, ReleaseHold, vars, tables
<1>2. TypeOK /\ QueueTypeOK /\ now \in 0..MaxNow /\ held \subseteq Holdable
  BY DEF IInv, TypeOK
<1>3. now' \in 0..MaxNow /\ held' \subseteq Holdable
  BY <1>2, ParametersAssumption DEF Sweep, Tick, PlaceHold, ReleaseHold, vars
<1>4. QueueTypeOK'
  <2>1. CASE UNCHANGED queueVars
    BY <1>2, <2>1 DEF queueVars, QueueTypeOK
  <2>2. CASE Sweep
    <3>. DEFINE stuck == {s \in Sections : enrolledCount[s] < capacity[s] /\ Waiting(s) # {}}
    <3>1. Add(stuck) /\ stuck # {} /\ stuck \in SUBSET Sections
      BY <2>2 DEF Sweep
    <3>2. PICK s \in Sections : s \in stuck
      BY <3>1
    <3>. HIDE DEF stuck
    <3>. QED
      BY <1>2, <3>1, <3>2, QueueTyped
  <2>. QED
    BY <2>1, <2>2 DEF Tick, PlaceHold, ReleaseHold, vars
<1>5. TypeOK'
  BY <1>1, <1>2, <1>3, <1>4 DEF TypeOK
<1>6. \A s : Waiting(s)' = Waiting(s) /\ Seated(s)' = Seated(s)
         /\ \A u : ActiveIn(u, s)' = ActiveIn(u, s)
  BY <1>1 DEF Waiting, Seated, ActiveIn, Active
<1>7. TablesInv'
  BY <1>1, <1>6 DEF IInv, TablesInv, CounterMatchesRows, WaitlistOrdered, OneActiveRow
<1>8. \A t \in Txns : TxnInv(t)'
  BY <1>1, <1>6 DEF IInv, TxnInv, MatchesItsRow, HoldsItsLocks, ReadsTrue, Needs
<1>. QED
  BY <1>5, <1>7, <1>8 DEF IInv

LEMMA InitIInv == Init => IInv
<1>. SUFFICES ASSUME Init PROVE IInv
  OBVIOUS
<1>1. TypeOK
  BY ParametersAssumption DEF Init, TypeOK, QueueInit, QueueTypeOK, JobStates
<1>2. \A s \in Sections : Seated(s) = {} /\ Waiting(s) = {}
         /\ \A u \in Students : ActiveIn(u, s) = {}
  BY NoneApart DEF Init, Unused, Seated, Waiting, ActiveIn, Active
<1>3. {i \in Ids : enr[i] # Unused} = {}
  BY DEF Init
<1>4. WaitlistOrdered
  BY <1>2 DEF WaitlistOrdered, Init, Unused
<1>5. TablesInv
  <2>1. IsFiniteSet({i \in Ids : enr[i] # Unused})
    BY <1>3, FS_EmptySet
  <2>2. CounterMatchesRows
    BY <1>2, FS_EmptySet DEF Init, CounterMatchesRows
  <2>3. \A s \in Sections : enrolledCount[s] <= capacity[s]
    <3>. TAKE s \in Sections
    <3>1. capacity[s] \in Nat
      BY <1>1 DEF TypeOK
    <3>2. enrolledCount[s] = 0
      BY DEF Init
    <3>. QED
      BY <3>1, <3>2
  <2>4. OneActiveRow
    BY <1>2 DEF OneActiveRow
  <2>. QED
    BY <1>4, <2>1, <2>2, <2>3, <2>4 DEF TablesInv
<1>6. \A t \in Txns : TxnInv(t)
  BY DEF Init, Idle, TxnInv, MatchesItsRow, HoldsItsLocks, ReadsTrue
<1>. QED
  BY <1>1, <1>5, <1>6 DEF IInv

LEMMA NextIInv == IInv /\ [Next]_vars => IInv'
<1>. SUFFICES ASSUME IInv, [Next]_vars PROVE IInv'
  OBVIOUS
<1>1. ASSUME NEW t \in Clients, Request(t) PROVE IInv'
  BY <1>1, BeginPreserves, PreservesIInv DEF Txns
<1>2. ASSUME NEW t \in Workers, NEW s \in Sections, BeginPromote(t, s) \/ BeginExpire(t, s)
      PROVE  IInv'
  BY <1>2, BeginPreserves, PreservesIInv DEF Txns
<1>3. ASSUME NEW t \in Txns, AcquireLock(t) \/ Step(t) \/ Fault(t) PROVE IInv'
  BY <1>3, StepPreserves, PreservesIInv
<1>. QED
  BY <1>1, <1>2, <1>3, EnvironmentPreserves DEF Next

\* The inductive invariant of seat allocation.
THEOREM Invariance == Spec => []IInv
BY InitIInv, NextIInv, PTL DEF Spec

\* Rows, counters, locks, transactions and jobs keep their types; in
\* particular no counter of seats ever becomes negative.
THEOREM TypeCorrect == Spec => []TypeOK
<1>1. IInv => TypeOK
  BY DEF IInv
<1>. QED
  BY <1>1, Invariance, PTL

\* enrolledCount is the number of seated rows, for any number of requests,
\* workers, sections and faults.
THEOREM CounterCorrect == Spec => []CounterMatchesRows
<1>1. IInv => CounterMatchesRows
  BY DEF IInv, TablesInv
<1>. QED
  BY <1>1, Invariance, PTL

\* No section is ever overbooked.
THEOREM CapacityRespected == Spec => []NeverOverCapacity
<1>1. IInv => NeverOverCapacity
  BY DEF IInv, TablesInv, CounterMatchesRows, NeverOverCapacity
<1>. QED
  BY <1>1, Invariance, PTL

\* A student has one active row of a section at most, with the unique index
\* needed for swap only.
THEOREM OneActiveRowCorrect == Spec => []OneActiveRow
<1>1. IInv => OneActiveRow
  BY DEF IInv, TablesInv
<1>. QED
  BY <1>1, Invariance, PTL

\* Positions are distinct on every waitlist, and only waiting rows have one.
THEOREM WaitlistCorrect == Spec => []WaitlistOrdered
<1>1. IInv => WaitlistOrdered
  BY DEF IInv, TablesInv
<1>. QED
  BY <1>1, Invariance, PTL

\* What is read under the locks is still true at the commit.
THEOREM ReadsCorrect == Spec => []ReadsStayTrue
<1>1. IInv => ReadsStayTrue
  BY DEF IInv, TxnInv, ReadsStayTrue
<1>. QED
  BY <1>1, Invariance, PTL
=============================================================================
