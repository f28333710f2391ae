---------------------------- MODULE AuditOutbox ----------------------------
(***************************************************************************)
(* The audit pipeline: AuditOutboxWorker.drain copies the rows of the      *)
(* AuditOutbox table to MongoDB, and RetentionWorker.purgeDrainedOutbox    *)
(* deletes drained rows a month later.                                     *)
(*                                                                         *)
(* A drain is three calls to two databases: read a batch from Postgres,    *)
(* insert it into Mongo, mark it drained in Postgres.  Any of them may     *)
(* fail, Mongo after inserting part of the batch, and the process may die  *)
(* between them.  Where MONGODB_URI is not set a process has no Mongo, its *)
(* ticks do nothing, and rows stay in the outbox.  The deployment is meant *)
(* to run one drainer; the model has a set of them, as while one           *)
(* deployment replaces another.                                            *)
(***************************************************************************)
EXTENDS Naturals, FiniteSets

CONSTANTS
    Rows,          \* ids of outbox rows; autoincrement
    Drainers,      \* processes with SCHEDULERS_ENABLED
    BatchSize,     \* BATCH_SIZE: 200
    MaxFaults      \* bound: the number of faults

ASSUME OutboxAssumption ==
    Rows \subseteq Nat /\ IsFiniteSet(Rows) /\ BatchSize \in Nat \ {0} /\ MaxFaults \in Nat

VARIABLES
    outbox,        \* outbox[i]: the state of row i
    auditEvents,   \* auditEvents[i]: documents with outboxId i in Mongo
    connected,     \* the drainers whose process has a Mongo database
    pc, batch,     \* per drainer: the step it is at, the rows it has read
    faults         \* faults so far

outboxVars == <<outbox, auditEvents, connected, pc, batch, faults>>

\* A row is written by a business transaction, drained, past the retention
\* period since it was drained, and deleted.
RowStates == {"unwritten", "undrained", "drained", "expired", "deleted"}

OutboxTypeOK ==
    /\ outbox \in [Rows -> RowStates]
    /\ auditEvents \in [Rows -> Nat]
    /\ connected \in SUBSET Drainers
    /\ pc \in [Drainers -> {"idle", "read", "inserted"}]
    /\ batch \in [Drainers -> SUBSET Rows]
    /\ faults \in 0..MaxFaults

OutboxInit ==
    /\ outbox = [i \in Rows |-> "unwritten"]
    /\ auditEvents = [i \in Rows |-> 0]
    /\ connected \in SUBSET Drainers
    /\ pc = [d \in Drainers |-> "idle"]
    /\ batch = [d \in Drainers |-> {}]
    /\ faults = 0

\* A business transaction that called recordEvent commits.  Ids are given out
\* before the commit, so rows appear in any order.
Record(i) ==
    /\ outbox[i] = "unwritten"
    /\ outbox' = [outbox EXCEPT ![i] = "undrained"]
    /\ UNCHANGED <<auditEvents, connected, pc, batch, faults>>

Undrained == {i \in Rows : outbox[i] = "undrained"}

\* The BatchSize undrained rows of lowest id, or all of them.
NextBatches ==
    {B \in SUBSET Undrained :
       /\ \A i \in B, j \in Undrained \ B : i < j
       /\ Cardinality(B) <= BatchSize
       /\ B # Undrained => Cardinality(B) = BatchSize}

LeaveInFlight(d) == pc' = [pc EXCEPT ![d] = "stuck"] /\ batch' = [batch EXCEPT ![d] = {}]
\* The finally block, or the restart of the process: inFlight is false again.
EndTick(d) == pc' = [pc EXCEPT ![d] = "idle"] /\ batch' = [batch EXCEPT ![d] = {}]

\* A tick of the interval, unless the previous one is still in flight; without
\* Mongo (isReady) it ends at once.
ReadBatch(d) ==
    /\ pc[d] = "idle" /\ d \in connected
    /\ \E B \in NextBatches \ {{}} : batch' = [batch EXCEPT ![d] = B]
    /\ pc' = [pc EXCEPT ![d] = "read"]
    /\ UNCHANGED <<outbox, auditEvents, connected, faults>>

NoUniqueIndex(i) == TRUE
\* The unique index on outboxId lets a document in.
IndexAllows(i) == auditEvents[i] = 0

Inserted(B) ==
    auditEvents' = [i \in Rows |-> IF i \in B /\ IndexAllows(i) THEN auditEvents[i] + 1
                                                                ELSE auditEvents[i]]

\* insertMany, unordered, either succeeded or failed on duplicates only.
InsertBatch(d) ==
    /\ pc[d] = "read"
    /\ Inserted(batch[d])
    /\ pc' = [pc EXCEPT ![d] = "inserted"]
    /\ UNCHANGED <<outbox, connected, batch, faults>>

CarryOn(d) == pc' = [pc EXCEPT ![d] = "inserted"] /\ UNCHANGED batch
\* After any other failure the rows are left undrained for the next tick.
GiveUpBatch(d) == EndTick(d)

\* insertMany failed otherwise; Mongo kept an arbitrary part of the batch.
InsertFails(d) ==
    /\ pc[d] = "read" /\ faults < MaxFaults
    /\ faults' = faults + 1
    /\ \E B \in SUBSET batch[d] : Inserted(B)
    /\ GiveUpBatch(d)
    /\ UNCHANGED <<outbox, connected>>

\* updateMany by id: another drainer's mark is overwritten, a deleted row is not
\* brought back.
MarkDrained(d) ==
    /\ pc[d] = "inserted"
    /\ outbox' = [i \in Rows |-> IF i \in batch[d] /\ outbox[i] # "deleted" THEN "drained"
                                                                          ELSE outbox[i]]
    /\ EndTick(d)
    /\ UNCHANGED <<auditEvents, connected, faults>>

\* Postgres refuses the mark.
Fault(d) ==
    /\ pc[d] # "idle" /\ faults < MaxFaults
    /\ faults' = faults + 1
    /\ EndTick(d)
    /\ UNCHANGED <<outbox, auditEvents, connected>>

\* The process dies at any step, and another starts, with MONGODB_URI or without;
\* onModuleInit connects before its interval fires.
Restart(d) ==
    /\ faults < MaxFaults
    /\ faults' = faults + 1
    /\ EndTick(d)
    /\ connected' \in {connected \cup {d}, connected \ {d}}
    /\ UNCHANGED <<outbox, auditEvents>>

\* OUTBOX_RETENTION_DAYS pass since row i was drained.
Age(i) ==
    /\ outbox[i] = "drained"
    /\ outbox' = [outbox EXCEPT ![i] = "expired"]
    /\ UNCHANGED <<auditEvents, connected, pc, batch, faults>>

PastRetentionByAge(i) == outbox[i] \in {"undrained", "expired"}
\* drainedAt is set and before the cutoff.
PastRetention(i) == outbox[i] = "expired"

PurgeDrainedOutbox ==
    /\ \E i \in Rows : PastRetention(i)
    /\ outbox' = [i \in Rows |-> IF PastRetention(i) THEN "deleted" ELSE outbox[i]]
    /\ UNCHANGED <<auditEvents, connected, pc, batch, faults>>

Drain(d) == ReadBatch(d) \/ InsertBatch(d) \/ MarkDrained(d)

OutboxNext ==
    \/ \E i \in Rows : Record(i) \/ Age(i)
    \/ \E d \in Drainers : Drain(d) \/ InsertFails(d) \/ Fault(d) \/ Restart(d)
    \/ PurgeDrainedOutbox

OutboxSpec == OutboxInit /\ [][OutboxNext]_outboxVars

\* The interval keeps firing and the calls it makes return.
OutboxFairness == \A d \in Drainers : WF_outboxVars(Drain(d))
-----------------------------------------------------------------------------
\* No audit event is ever lost: a row is marked drained, and may be deleted,
\* only when Mongo has its document, whatever failed in between.
NothingLost ==
    \A i \in Rows : outbox[i] \in {"drained", "expired", "deleted"} => auditEvents[i] > 0

\* Delivery is effectively exactly once at rest: replays after a crash, a
\* partial failure or by a second drainer leave no duplicate document, and no
\* document exists for a transaction that did not commit.
NoDuplicates ==
    \A i \in Rows : /\ auditEvents[i] <= 1
                    /\ auditEvents[i] > 0 => outbox[i] # "unwritten"

\* Seen from outside, replays, partial inserts, overlapping drainers and the retention
\* job do nothing but commit, archive once and for good, and discard what is archived.
Trail ==
    INSTANCE AuditTrail WITH
        committed <- {i \in Rows : outbox[i] # "unwritten"},
        documents <- auditEvents,
        kept      <- {i \in Rows : outbox[i] \notin {"unwritten", "deleted"}}
ImplementsTrail == Trail!Spec

\* Every committed event reaches Mongo and is marked, faults being finite, wherever
\* one drainer has a Mongo from some time on; without one, rows only accumulate.
EverythingDrained ==
    \A d \in Drainers : <>[](d \in connected) =>
       \A i \in Rows : outbox[i] = "undrained" ~> outbox[i] # "undrained"
=============================================================================
