------------------------- MODULE AuditOutboxProofs -------------------------
(***************************************************************************)
(* Nothing is lost and nothing is duplicated between the outbox and Mongo, *)
(* for any number of rows, drainers and faults and any batch size.         *)
(*                                                                         *)
(* The two invariants are not inductive: what makes a mark harmless is that*)
(* a drainer past its insert has a document in Mongo for every row of its  *)
(* batch, and what makes an insert harmless is that it read committed rows.*)
(***************************************************************************)
EXTENDS AuditOutbox, TLAPS

\* What a drainer knows of the batch in its hands.
BatchKnown(d) ==
    /\ \A i \in batch[d] : outbox[i] # "unwritten"
    /\ pc[d] = "inserted" => \A i \in batch[d] : auditEvents[i] > 0

IInv == OutboxTypeOK /\ NothingLost /\ NoDuplicates /\ \A d \in Drainers : BatchKnown(d)

\* An insert adds documents, at most one per outboxId, and only of its rows.
LEMMA InsertOnce ==
    ASSUME OutboxTypeOK, NEW B \in SUBSET Rows, Inserted(B),
           \A i \in Rows : auditEvents[i] <= 1
    PROVE  /\ auditEvents' \in [Rows -> Nat]
           /\ \A i \in Rows : auditEvents[i] <= auditEvents'[i] /\ auditEvents'[i] <= 1
           /\ \A i \in B : auditEvents'[i] > 0
           /\ \A i \in Rows \ B : auditEvents'[i] = auditEvents[i]
  BY DEF OutboxTypeOK, Inserted, IndexAllows

\* The initial state satisfies the invariant: nothing is written yet.
LEMMA InitIInv == OutboxInit => IInv
  BY OutboxAssumption DEF OutboxInit, IInv, OutboxTypeOK, RowStates, NothingLost, NoDuplicates, BatchKnown

\* Every step keeps it.
LEMMA NextIInv == IInv /\ [OutboxNext]_outboxVars => IInv'
<1> SUFFICES ASSUME IInv, [OutboxNext]_outboxVars PROVE IInv'
  OBVIOUS
<1> USE OutboxAssumption
<1>1. ASSUME NEW i \in Rows, Record(i) PROVE IInv'
  BY <1>1 DEF IInv, OutboxTypeOK, RowStates, NothingLost, NoDuplicates, BatchKnown, Record
<1>2. ASSUME NEW i \in Rows, Age(i) PROVE IInv'
  BY <1>2 DEF IInv, OutboxTypeOK, RowStates, NothingLost, NoDuplicates, BatchKnown, Age
<1>3. ASSUME NEW d \in Drainers, ReadBatch(d) PROVE IInv'
  <2>1. PICK B \in NextBatches : batch' = [batch EXCEPT ![d] = B]
    BY <1>3 DEF ReadBatch
  <2>2. B \subseteq Undrained
    BY DEF NextBatches
  <2> QED
    BY <1>3, <2>1, <2>2
    DEF IInv, OutboxTypeOK, RowStates, NothingLost, NoDuplicates, BatchKnown, ReadBatch, Undrained
<1>4. ASSUME NEW d \in Drainers, InsertBatch(d) PROVE IInv'
  <2>1. batch[d] \in SUBSET Rows
    BY DEF IInv, OutboxTypeOK
  <2>2. /\ auditEvents' \in [Rows -> Nat]
        /\ \A i \in Rows : auditEvents[i] <= auditEvents'[i] /\ auditEvents'[i] <= 1
        /\ \A i \in batch[d] : auditEvents'[i] > 0
        /\ \A i \in Rows \ batch[d] : auditEvents'[i] = auditEvents[i]
    BY <1>4, <2>1, InsertOnce DEF IInv, NoDuplicates, InsertBatch
  <2> QED
    BY <1>4, <2>1, <2>2
    DEF IInv, OutboxTypeOK, RowStates, NothingLost, NoDuplicates, BatchKnown, InsertBatch
<1>5. ASSUME NEW d \in Drainers, InsertFails(d) PROVE IInv'
  <2>1. PICK B \in SUBSET batch[d] : Inserted(B)
    BY <1>5 DEF InsertFails
  <2>2. B \in SUBSET Rows
    BY DEF IInv, OutboxTypeOK
  <2>3. /\ auditEvents' \in [Rows -> Nat]
        /\ \A i \in Rows : auditEvents[i] <= auditEvents'[i] /\ auditEvents'[i] <= 1
        /\ \A i \in B : auditEvents'[i] > 0
        /\ \A i \in Rows \ B : auditEvents'[i] = auditEvents[i]
    BY <2>1, <2>2, InsertOnce DEF IInv, NoDuplicates
  <2> QED
    BY <1>5, <2>1, <2>2, <2>3
    DEF IInv, OutboxTypeOK, RowStates, NothingLost, NoDuplicates, BatchKnown, InsertFails,
        GiveUpBatch, EndTick
<1>6. ASSUME NEW d \in Drainers, MarkDrained(d) PROVE IInv'
  BY <1>6
  DEF IInv, OutboxTypeOK, RowStates, NothingLost, NoDuplicates, BatchKnown, MarkDrained, EndTick
<1>7. ASSUME NEW d \in Drainers, Fault(d) PROVE IInv'
  BY <1>7 DEF IInv, OutboxTypeOK, RowStates, NothingLost, NoDuplicates, BatchKnown, Fault, EndTick
<1>8. ASSUME NEW d \in Drainers, Restart(d) PROVE IInv'
  BY <1>8
  DEF IInv, OutboxTypeOK, RowStates, NothingLost, NoDuplicates, BatchKnown, Restart, EndTick
<1>9. ASSUME PurgeDrainedOutbox PROVE IInv'
  BY <1>9
  DEF IInv, OutboxTypeOK, RowStates, NothingLost, NoDuplicates, BatchKnown, PurgeDrainedOutbox,
      PastRetention
<1>10. CASE UNCHANGED outboxVars
  BY <1>10 DEF IInv, OutboxTypeOK, NothingLost, NoDuplicates, BatchKnown, outboxVars
<1> QED
  BY <1>1, <1>2, <1>3, <1>4, <1>5, <1>6, <1>7, <1>8, <1>9, <1>10 DEF OutboxNext, Drain

\* Types, no loss, no duplicate, and what each drainer may rely on, always.
THEOREM Invariance == OutboxSpec => []IInv
  BY InitIInv, NextIInv, PTL DEF OutboxSpec

\* Every variable of the outbox keeps its type: a drainer holds rows that exist,
\* and Mongo a natural number of documents per row.
THEOREM TypeCorrect == OutboxSpec => []OutboxTypeOK
<1>1. IInv => OutboxTypeOK
  BY DEF IInv
<1> QED
  BY <1>1, Invariance, PTL

\* A row marked drained, or deleted by the retention job, has its document in
\* Mongo: the audit trail loses nothing to crashes and outages.
THEOREM NothingLostCorrect == OutboxSpec => []NothingLost
<1>1. IInv => NothingLost
  BY DEF IInv
<1> QED
  BY <1>1, Invariance, PTL

\* No replay, by this drainer or another, leaves a second document.
THEOREM NoDuplicatesCorrect == OutboxSpec => []NoDuplicates
<1>1. IInv => NoDuplicates
  BY DEF IInv
<1> QED
  BY <1>1, Invariance, PTL

\* What the archive and the outbox are seen to have.
Committed == {i \in Rows : outbox[i] # "unwritten"}
Kept == {i \in Rows : outbox[i] \notin {"unwritten", "deleted"}}

\* An insert puts into the archive, once, rows of the batch that it has not.
LEMMA InsertArchives ==
    ASSUME IInv, NEW d \in Drainers, NEW B \in SUBSET batch[d], Inserted(B), UNCHANGED outbox
    PROVE  Trail!Next
<1>. DEFINE N == {i \in B : auditEvents[i] = 0}
<1>1. /\ \A i \in B : i \in Rows /\ outbox[i] # "unwritten"
      /\ auditEvents \in [Rows -> Nat]
  BY DEF IInv, OutboxTypeOK, BatchKnown
<1>2. N \in SUBSET {i \in Committed : auditEvents[i] = 0}
  BY <1>1 DEF Committed
<1>3. auditEvents' = [i \in Rows |-> IF i \in N THEN 1 ELSE auditEvents[i]]
  BY <1>1 DEF Inserted, IndexAllows
<1>4. Committed' = Committed /\ Kept' = Kept
  BY DEF Committed, Kept
<1>. QED
  BY <1>2, <1>3, <1>4 DEF Trail!Next, Trail!Archive, Committed, Kept

\* A step that changes neither what was committed, nor what is kept, nor the archive
\* is none of the trail's.
LEMMA TrailStutters ==
    ASSUME Committed' = Committed, Kept' = Kept, auditEvents' = auditEvents
    PROVE  UNCHANGED Trail!trailVars
  BY DEF Trail!trailVars, Committed, Kept

\* The pipeline is what it promises, for any number of rows, drainers and faults and
\* any batch size: no step archives an event that was not committed or was archived
\* before, takes one out of the archive, or deletes a row that is not in it.
THEOREM TrailKept == OutboxSpec => ImplementsTrail
<1>1. OutboxInit => Trail!Init
  BY DEF OutboxInit, Trail!Init
<1>2. IInv /\ [OutboxNext]_outboxVars => [Trail!Next]_(Trail!trailVars)
  <2>. SUFFICES ASSUME IInv, [OutboxNext]_outboxVars PROVE [Trail!Next]_(Trail!trailVars)
    OBVIOUS
  <2>0. OutboxTypeOK
    BY DEF IInv
  <2>1. ASSUME NEW i \in Rows, Record(i) PROVE Trail!Next
    <3>1. /\ i \notin Committed /\ Committed' = Committed \cup {i} /\ Kept' = Kept \cup {i}
          /\ auditEvents' = auditEvents
      BY <2>0, <2>1 DEF Record, Committed, Kept, OutboxTypeOK
    <3>. QED
      BY <3>1 DEF Trail!Next, Trail!Commit, Committed, Kept
  <2>2. ASSUME NEW i \in Rows, Age(i) PROVE UNCHANGED Trail!trailVars
    <3>1. Committed' = Committed /\ Kept' = Kept /\ auditEvents' = auditEvents
      BY <2>0, <2>2 DEF Age, Committed, Kept, OutboxTypeOK
    <3>. QED
      BY <3>1, TrailStutters
  <2>3. ASSUME NEW d \in Drainers, ReadBatch(d) \/ Fault(d) \/ Restart(d)
       PROVE  UNCHANGED Trail!trailVars
    <3>1. Committed' = Committed /\ Kept' = Kept /\ auditEvents' = auditEvents
      BY <2>3 DEF ReadBatch, Fault, Restart, Committed, Kept
    <3>. QED
      BY <3>1, TrailStutters
  <2>4. ASSUME NEW d \in Drainers, InsertBatch(d) PROVE Trail!Next
    <3>1. Inserted(batch[d]) /\ UNCHANGED outbox
      BY <2>4 DEF InsertBatch
    <3>. QED
      BY <3>1, InsertArchives
  <2>5. ASSUME NEW d \in Drainers, InsertFails(d) PROVE Trail!Next
    <3>1. PICK B \in SUBSET batch[d] : Inserted(B)
      BY <2>5 DEF InsertFails
    <3>2. UNCHANGED outbox
      BY <2>5 DEF InsertFails
    <3>. QED
      BY <3>1, <3>2, InsertArchives
  <2>6. ASSUME NEW d \in Drainers, MarkDrained(d) PROVE UNCHANGED Trail!trailVars
    <3>1. \A i \in batch[d] : outbox[i] # "unwritten"
      BY DEF IInv, BatchKnown
    <3>2. Committed' = Committed /\ Kept' = Kept /\ auditEvents' = auditEvents
      BY <2>0, <2>6, <3>1 DEF MarkDrained, Committed, Kept, OutboxTypeOK
    <3>. QED
      BY <3>2, TrailStutters
  <2>7. ASSUME PurgeDrainedOutbox PROVE Trail!Next
    <3>. DEFINE B == {i \in Rows : PastRetention(i)}
    <3>1. \A i \in B : auditEvents[i] = 1
      BY <2>0 DEF PastRetention, IInv, NothingLost, NoDuplicates, OutboxTypeOK
    <3>2. B \in SUBSET {i \in Kept : auditEvents[i] = 1}
      BY <3>1 DEF PastRetention, Kept
    <3>3. /\ Committed' = Committed /\ Kept' = Kept \ B /\ auditEvents' = auditEvents
      BY <2>0, <2>7 DEF PurgeDrainedOutbox, PastRetention, Committed, Kept, OutboxTypeOK
    <3>. QED
      BY <3>2, <3>3 DEF Trail!Next, Trail!Discard, Committed, Kept
  <2>8. CASE UNCHANGED outboxVars
    <3>1. Committed' = Committed /\ Kept' = Kept /\ auditEvents' = auditEvents
      BY <2>8 DEF outboxVars, Committed, Kept
    <3>. QED
      BY <3>1, TrailStutters
  <2>. QED
    BY <2>1, <2>2, <2>3, <2>4, <2>5, <2>6, <2>7, <2>8 DEF OutboxNext, Drain
<1>. QED
  BY <1>1, <1>2, Invariance, PTL DEF OutboxSpec, ImplementsTrail, Trail!Spec
=============================================================================
