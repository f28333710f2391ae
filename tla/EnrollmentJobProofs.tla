------------------------- MODULE EnrollmentJobProofs -------------------------
(***************************************************************************)
(* The promotion queue and the row locks of Enrollment: the queue agrees   *)
(* with the workers and with itself, and locks are never awaited in a      *)
(* circle.                                                                 *)
(***************************************************************************)
EXTENDS EnrollmentProofs

-----------------------------------------------------------------------------
(* The queue by itself: what each of its operations keeps.  An operation on *)
(* a job in progress needs the job to be in progress.                       *)

QueueInv == QueueTypeOK /\ QueueConsistent

\* queue.add with a job id: ignored if the id is known.
LEMMA AddKeepsQueue ==
    ASSUME QueueInv, NEW S \in SUBSET Sections, Add(S)
    PROVE  QueueConsistent' /\ \A s \in Sections : job[s] = "active" => job'[s] = "active"
<1>1. /\ \A s \in Sections : /\ job'[s] = IF s \in S /\ job[s] = "none" THEN "waiting" ELSE job[s]
                             /\ tries'[s] = IF s \in S /\ job[s] = "none" THEN 0 ELSE tries[s]
      /\ failed' = failed
  BY DEF Add, QueueInv, QueueTypeOK
<1>. QED
  BY <1>1, QueueAssumption DEF QueueInv, QueueTypeOK, QueueConsistent

\* A worker takes a job: one more attempt.
LEMMA TakeKeepsQueue ==
    ASSUME QueueInv, NEW s \in Sections, Take(s)
    PROVE  /\ QueueConsistent' /\ job[s] # "active" /\ job'[s] = "active"
           /\ \A r \in Sections : job[r] = "active" => job'[r] = "active"
<1>1. /\ job[s] = "waiting" /\ job'[s] = "active"
      /\ \A r \in Sections \ {s} : job'[r] = job[r]
      /\ UNCHANGED <<tries, failed>>
  BY DEF Take, QueueInv, QueueTypeOK
<1>. QED
  BY <1>1 DEF QueueInv, QueueConsistent

\* removeOnComplete frees the job's id.
LEMMA CompleteKeepsQueue ==
    ASSUME QueueInv, NEW s \in Sections, job[s] = "active", Complete(s)
    PROVE  /\ QueueConsistent'
           /\ \A r \in Sections \ {s} : job'[r] = job[r]
<1>1. /\ job'[s] = "none" /\ \A r \in Sections \ {s} : job'[r] = job[r]
      /\ UNCHANGED <<tries, failed>>
  BY DEF Complete, QueueInv, QueueTypeOK
<1>. QED
  BY <1>1 DEF QueueInv, QueueConsistent

\* removeOnFail keeps the last failures only: the oldest of them makes room.
LEMMA KeptFailures ==
    ASSUME QueueInv, NEW s \in Sections, job[s] = "active", FailAttempt(s),
           ~(tries[s] + 1 < Attempts), Len(failed) = KeepFailed
    PROVE  QueueConsistent' /\ \A r \in Sections : job[r] = "active" /\ r # s => job'[r] = "active"
<1>. DEFINE n == Len(failed)
<1>1. /\ failed \in Seq(Sections) /\ n \in Nat \ {0} /\ n = KeepFailed
      /\ \A k \in 1..n : failed[k] \in Sections
  BY QueueAssumption DEF QueueInv, QueueTypeOK
<1>2. /\ failed' = Append(Tail(failed), s)
      /\ \A r \in Sections : job'[r] = IF r = s THEN "failed"
                                       ELSE IF r = failed[1] THEN "none" ELSE job[r]
      /\ tries'[s] = tries[s] + 1 /\ \A r \in Sections \ {s} : tries'[r] = tries[r]
  <2>1. failed' = Append(Tail(failed), s)
    BY Zenon DEF FailAttempt
  <2>2. job' = [r \in Sections |-> IF r = s THEN "failed"
                                  ELSE IF r = Head(failed) THEN "none" ELSE job[r]]
    BY DEF FailAttempt
  <2>3. Head(failed) = failed[1]
    BY <1>1
  <2>4. tries' = [tries EXCEPT ![s] = @ + 1]
    BY DEF FailAttempt
  <2>. QED
    BY <2>1, <2>2, <2>3, <2>4 DEF QueueInv, QueueTypeOK
<1>3. /\ Len(failed') = n /\ failed'[n] = s
      /\ \A k \in 1..n : k # n => failed'[k] = failed[k + 1]
  BY <1>1, <1>2
<1>4. /\ \A r \in Sections : job[r] = "failed" <=> \E k \in 1..n : failed[k] = r
      /\ \A j, k \in 1..n : failed[j] = failed[k] => j = k
      /\ \A r \in Sections : job[r] \in {"waiting", "active"} => tries[r] < Attempts
  BY DEF QueueInv, QueueConsistent
<1>5. \A k \in 1..n : failed[k] # s
  BY <1>1, <1>4
<1>6. \A j, k \in 1..n : failed'[j] = failed'[k] => j = k
  <2>. SUFFICES ASSUME NEW j \in 1..n, NEW k \in 1..n, failed'[j] = failed'[k] PROVE j = k
    OBVIOUS
  <2>1. \A l \in 1..n : l # n => l + 1 \in 1..n
    BY <1>1
  <2>2. CASE j = n \/ k = n
    BY <1>3, <1>5, <2>1, <2>2
  <2>3. CASE j # n /\ k # n
    <3>1. j + 1 = k + 1
      BY <1>3, <1>4, <2>1, <2>3
    <3>. QED
      BY <3>1
  <2>. QED
    BY <2>2, <2>3
<1>7. ASSUME NEW r \in Sections
      PROVE  job'[r] = "failed" <=> \E k \in 1..n : failed'[k] = r
  <2>1. CASE r = s
    BY <1>1, <1>2, <1>3, <2>1
  <2>2. CASE r # s /\ r = failed[1]
    <3>1. \A k \in 1..n : k # n => k + 1 \in 1..n /\ k + 1 # 1
      BY <1>1
    <3>2. \A k \in 1..n : failed'[k] # r
      BY <1>1, <1>3, <1>4, <2>2, <3>1
    <3>. QED
      BY <1>2, <2>2, <3>2
  <2>3. CASE r # s /\ r # failed[1]
    <3>1. job'[r] = job[r]
      BY <1>2, <2>3
    <3>2. ASSUME NEW k \in 1..n, failed[k] = r PROVE \E l \in 1..n : failed'[l] = r
      <4>1. k - 1 \in 1..n /\ k - 1 # n /\ (k - 1) + 1 = k
        BY <1>1, <2>3, <3>2
      <4>. QED
        BY <1>3, <3>2, <4>1
    <3>3. ASSUME NEW l \in 1..n, failed'[l] = r PROVE \E k \in 1..n : failed[k] = r
      <4>1. l # n /\ l + 1 \in 1..n
        BY <1>1, <1>3, <2>3, <3>3
      <4>. QED
        BY <1>3, <3>3, <4>1
    <3>. QED
      BY <1>4, <3>1, <3>2, <3>3
  <2>. QED
    BY <2>1, <2>2, <2>3
<1>8. \A r \in Sections : job'[r] \in {"waiting", "active"} => tries'[r] < Attempts
  BY <1>2, <1>4
<1>9. \A r \in Sections : job[r] = "active" /\ r # s => job'[r] = "active"
  BY <1>1, <1>2, <1>4
<1>. QED
  BY <1>1, <1>3, <1>6, <1>7, <1>8, <1>9 DEF QueueConsistent

\* A failed attempt is retried, or the job is kept and the oldest failure evicted.
LEMMA FailAttemptKeepsQueue ==
    ASSUME QueueInv, NEW s \in Sections, job[s] = "active", FailAttempt(s)
    PROVE  QueueConsistent' /\ \A r \in Sections : job[r] = "active" /\ r # s => job'[r] = "active"
<1>1. tries'[s] = tries[s] + 1 /\ \A r \in Sections \ {s} : tries'[r] = tries[r]
  BY DEF FailAttempt, QueueInv, QueueTypeOK
<1>2. CASE tries[s] + 1 < Attempts
  <2>1. /\ failed' = failed /\ job'[s] = "waiting" /\ \A r \in Sections \ {s} : job'[r] = job[r]
    BY <1>2 DEF FailAttempt, QueueInv, QueueTypeOK
  <2>. QED
    BY <1>1, <1>2, <2>1 DEF QueueInv, QueueConsistent
<1>3. CASE ~(tries[s] + 1 < Attempts) /\ Len(failed) = KeepFailed
  BY <1>3, KeptFailures
<1>4. CASE ~(tries[s] + 1 < Attempts) /\ Len(failed) # KeepFailed
  <2>. DEFINE n == Len(failed)
  <2>1. failed' = Append(failed, s)
    BY <1>4, Zenon DEF FailAttempt
  <2>2. \A r \in Sections : job'[r] = IF r = s THEN "failed" ELSE job[r]
    BY <1>4 DEF FailAttempt
  <2>3. /\ failed \in Seq(Sections) /\ n \in Nat /\ n < KeepFailed
        /\ \A r \in Sections : job[r] = "failed" <=> \E k \in 1..n : failed[k] = r
        /\ \A j, k \in 1..n : failed[j] = failed[k] => j = k
    BY <1>4, QueueAssumption DEF QueueInv, QueueTypeOK, QueueConsistent
  <2>4. /\ Len(failed') = n + 1 /\ failed'[n + 1] = s
        /\ \A k \in 1..n : failed'[k] = failed[k] /\ failed[k] # s
        /\ \A k : k \in 1..(n + 1) <=> k \in 1..n \/ k = n + 1
    BY <2>1, <2>3
  <2>5. \A r \in Sections : job'[r] = "failed" <=> \E k \in 1..(n + 1) : failed'[k] = r
    BY <2>2, <2>3, <2>4
  <2>6. \A j, k \in 1..(n + 1) : failed'[j] = failed'[k] => j = k
    BY <2>3, <2>4
  <2>7. n + 1 <= KeepFailed
    BY <2>3, QueueAssumption
  <2>8. \A r \in Sections : job'[r] \in {"waiting", "active"} => tries'[r] < Attempts
    BY <1>1, <2>2 DEF QueueInv, QueueConsistent
  <2>9. QueueConsistent'
    BY <2>4, <2>5, <2>6, <2>7, <2>8 DEF QueueConsistent
  <2>. QED
    BY <2>2, <2>9
<1>. QED
  BY <1>2, <1>3, <1>4
-----------------------------------------------------------------------------
(* The queue and its workers *)

\* A transaction that promotes never enqueues: it ends with its job.
JobInv == JobsConsistent /\ \A t \in Txns : Promotes(t) => txn[t].pc # "enqueue"

\* Steps of t that leave the queue alone: t goes on with its job, or has none.
GoesOn(t) ==
    /\ UNCHANGED queueVars
    /\ txn'[t].op = "promote" => /\ Promotes(t) /\ txn'[t].sec = txn[t].sec
                                 /\ txn'[t].pc # "enqueue"

\* A slot that is not at its end goes on with the operation and section it has.
LEMMA StepGoesOn ==
    ASSUME IInv, NEW t \in Txns, Promotes(t) => txn[t].pc # "enqueue",
           Request(t) \/ (\E s \in Sections : BeginExpire(t, s)) \/ AcquireLock(t) \/ Step(t),
           ~CompleteJob(t), ~Enqueue(t)
    PROVE  GoesOn(t)
<1>. USE DEF GoesOn
<1>1. TypeOK
  BY DEF IInv
<1>2. ASSUME NEW op, NEW u, NEW i, NEW s, NEW r, Begin(t, op, u, i, s, r), op # "promote"
      PROVE  txn'[t].op # "promote"
  BY <1>1, <1>2 DEF Begin, TypeOK
<1>3. ASSUME Finish(t) PROVE txn'[t].op # "promote"
  BY <1>1, <1>3 DEF Finish, Idle, TypeOK
<1>4. ASSUME NEW pc, GoTo(t, pc), txn[t] \in Txn
      PROVE  txn'[t].op = txn[t].op /\ txn'[t].sec = txn[t].sec /\ txn'[t].pc = pc
  BY <1>1, <1>4 DEF GoTo, TypeOK, Txn
<1>5. ASSUME NEW num, NEW was, NEW rows, Checked(t, num, was, rows), txn[t] \in Txn
      PROVE  txn'[t].op = txn[t].op /\ txn'[t].sec = txn[t].sec /\ txn'[t].pc = "checked"
  BY <1>1, <1>5 DEF Checked, TypeOK, Txn
<1>6. CASE Request(t) \/ \E s \in Sections : BeginExpire(t, s)
  BY <1>2, <1>6 DEF Request, BeginEnroll, BeginDrop, BeginSwap, BeginReorder, BeginUpdate,
                    BeginExpire
<1>7. CASE AcquireLock(t)
  <2>1. txn[t] \in Txn
    BY <1>7, Begun DEF AcquireLock
  <2>2. GoTo(t, "locked") \/ UNCHANGED txn
    BY <1>7 DEF AcquireLock
  <2>. QED
    BY <1>4, <1>7, <2>1, <2>2 DEF AcquireLock, Promotes
<1>8. CASE EnrollRefuse(t) \/ SwapRefuse(t) \/ SwapHitsIndex(t) \/ NoIdLeft(t)
           \/ EnrollSeat(t) \/ EnrollWait(t) \/ Reorder(t) \/ Expire(t)
  BY <1>3, <1>8 DEF EnrollRefuse, SwapRefuse, SwapHitsIndex, NoIdLeft, EnrollSeat, EnrollWait,
                    Reorder, Expire
<1>9. CASE EnrollCheck(t) \/ SwapCheck(t) \/ ReorderCheck(t) \/ UpdateCheck(t) \/ ExpireCheck(t)
           \/ PromoteCheck(t)
  <2>1. txn[t] \in Txn
    BY <1>9, Begun DEF EnrollCheck, SwapCheck, ReorderCheck, UpdateCheck, ExpireCheck,
                       PromoteCheck, At
  <2>. QED
    BY <1>3, <1>5, <1>9, <2>1
    DEF EnrollCheck, SwapCheck, ReorderCheck, UpdateCheck, ExpireCheck, PromoteCheck, Promotes
<1>10. CASE PromoteClosed(t) \/ Promote(t)
  <2>1. txn[t] \in Txn
    BY <1>10, Begun DEF PromoteClosed, Promote, At
  <2>2. GoTo(t, "done") /\ UNCHANGED queueVars /\ Promotes(t)
    BY <1>10 DEF PromoteClosed, Promote, At, Promotes
  <2>3. txn'[t].op = txn[t].op /\ txn'[t].sec = txn[t].sec /\ txn'[t].pc = "done"
    BY <1>4, <2>1, <2>2
  <2>. QED
    BY <2>2, <2>3
<1>11. CASE Drop(t) \/ Swap(t) \/ UpdateSection(t)
  <2>1. txn[t] \in Txn /\ txn[t].op # "promote"
    BY <1>11, Begun DEF Drop, Swap, UpdateSection, At
  <2>2. FinishFreeing(t) \/ Finish(t)
    BY <1>11 DEF Drop, Swap, UpdateSection
  <2>. QED
    BY <1>3, <1>4, <1>11, <2>1, <2>2 DEF FinishFreeing, Drop, Swap, UpdateSection
<1>. QED
  BY <1>6, <1>7, <1>8, <1>9, <1>10, <1>11 DEF Step

\* A step inside a transaction leaves the queue and who runs which job.
LEMMA GoingOnKeepsJobs ==
    ASSUME JobInv, NEW t \in Txns, GoesOn(t), \A u \in Txns \ {t} : txn'[u] = txn[u]
    PROVE  JobInv'
<1>1. QueueConsistent' /\ job' = job
  BY DEF JobInv, JobsConsistent, GoesOn, queueVars, QueueConsistent
<1>2. \A u \in Txns : txn'[u].op = "promote" =>
         Promotes(u) /\ txn'[u].sec = txn[u].sec /\ txn'[u].pc # "enqueue"
  BY DEF GoesOn, JobInv, JobsConsistent, Promotes
<1>. QED
  BY <1>1, <1>2 DEF JobInv, JobsConsistent, Promotes

\* A step after which t promotes nothing, and that ends no job but that of t.
LEMMA EndingKeepsJobs ==
    ASSUME JobInv, NEW t \in Txns, QueueConsistent', txn'[t].op # "promote",
           \A u \in Txns \ {t} : txn'[u] = txn[u],
           \A u \in Txns \ {t} : Promotes(u) => job'[txn[u].sec] = "active"
    PROVE  JobInv'
BY DEF JobInv, JobsConsistent, Promotes

\* Every step of a slot keeps one worker per job that runs.
LEMMA ActorKeepsJobs ==
    ASSUME IInv, JobInv, NEW t \in Txns,
           \/ Request(t) \/ AcquireLock(t) \/ Step(t) \/ Fault(t)
           \/ \E s \in Sections : BeginPromote(t, s) \/ BeginExpire(t, s)
    PROVE  JobInv'
<1>1. TypeOK /\ QueueInv
  BY DEF IInv, TypeOK, QueueInv, JobInv, JobsConsistent
<1>2. \A u \in Txns \ {t} : txn'[u] = txn[u]
  BY BeginPreserves, StepPreserves DEF Preserves, Frame
<1>3. \A u \in Txns : Promotes(u) => txn[u].sec \in Sections
  BY <1>1 DEF Promotes, TypeOK, Txn, Idle
<1>4. CASE GoesOn(t)
  BY <1>2, <1>4, GoingOnKeepsJobs
<1>5. CASE Enqueue(t)
  <2>1. txn[t].sec \in Sections
    BY <1>5, Begun DEF Enqueue
  <2>2. QueueConsistent' /\ \A s \in Sections : job[s] = "active" => job'[s] = "active"
    BY <1>1, <1>5, <2>1, AddKeepsQueue DEF Enqueue
  <2>3. txn'[t].op # "promote"
    BY <1>1, <1>5 DEF Enqueue, TypeOK, Idle
  <2>. QED
    BY <1>2, <1>3, <2>2, <2>3, EndingKeepsJobs DEF JobInv, JobsConsistent
<1>6. CASE CompleteJob(t)
  <2>1. Promotes(t) /\ txn[t].sec \in Sections /\ job[txn[t].sec] = "active"
    BY <1>3, <1>6 DEF CompleteJob, At, Promotes, JobInv, JobsConsistent
  <2>2. QueueConsistent' /\ \A r \in Sections \ {txn[t].sec} : job'[r] = job[r]
    BY <1>1, <1>6, <2>1, CompleteKeepsQueue DEF CompleteJob
  <2>3. txn'[t].op # "promote"
    BY <1>1, <1>6 DEF CompleteJob, TypeOK, Idle
  <2>. QED
    BY <1>2, <1>3, <2>1, <2>2, <2>3, EndingKeepsJobs DEF JobInv, JobsConsistent
<1>7. CASE Fault(t)
  <2>1. txn'[t].op # "promote"
    BY <1>1, <1>7 DEF Fault, Finish, TypeOK, Idle
  <2>2. CASE Promotes(t)
    <3>1. txn[t].sec \in Sections /\ job[txn[t].sec] = "active" /\ FailAttempt(txn[t].sec)
      BY <1>3, <1>7, <2>2 DEF Fault, Promotes, JobInv, JobsConsistent
    <3>2. QueueConsistent'
          /\ \A r \in Sections : job[r] = "active" /\ r # txn[t].sec => job'[r] = "active"
      BY <1>1, <3>1, FailAttemptKeepsQueue
    <3>. QED
      BY <1>2, <1>3, <2>1, <2>2, <3>2, EndingKeepsJobs DEF JobInv, JobsConsistent
  <2>3. CASE ~Promotes(t)
    <3>1. GoesOn(t)
      BY <1>7, <2>1, <2>3 DEF Fault, GoesOn, Promotes
    <3>. QED
      BY <1>4, <3>1
  <2>. QED
    BY <2>2, <2>3
<1>8. ASSUME NEW s \in Sections, BeginPromote(t, s) PROVE JobInv'
  <2>1. /\ txn'[t].op = "promote" /\ txn'[t].sec = s /\ txn'[t].pc = "begun"
    BY <1>1, <1>8 DEF BeginPromote, Begin, TypeOK
  <2>2. /\ QueueConsistent' /\ job[s] # "active" /\ job'[s] = "active"
        /\ \A r \in Sections : job[r] = "active" => job'[r] = "active"
    BY <1>1, <1>8, TakeKeepsQueue DEF BeginPromote
  <2>3. \A u \in Txns \ {t} : Promotes(u) => txn[u].sec # s /\ job'[txn[u].sec] = "active"
    BY <1>3, <2>2 DEF JobInv, JobsConsistent
  <2>. QED
    BY <1>2, <2>1, <2>2, <2>3 DEF JobInv, JobsConsistent, Promotes
<1>9. ASSUME Request(t) \/ (\E s \in Sections : BeginExpire(t, s)) \/ AcquireLock(t) \/ Step(t),
             ~CompleteJob(t), ~Enqueue(t)
      PROVE  JobInv'
  <2>1. Promotes(t) => txn[t].pc # "enqueue"
    BY DEF JobInv, JobsConsistent
  <2>2. GoesOn(t)
    BY <1>9, <2>1, StepGoesOn
  <2>. QED
    BY <1>4, <2>2
<1>10. CASE Request(t) \/ (\E s \in Sections : BeginExpire(t, s)) \/ AcquireLock(t) \/ Step(t)
  BY <1>5, <1>6, <1>9, <1>10
<1>11. CASE \E s \in Sections : BeginPromote(t, s) \/ BeginExpire(t, s)
  BY <1>8, <1>10, <1>11
<1>. QED
  BY <1>7, <1>10, <1>11

\* A promotion runs the active job of its section and no other worker runs it, a
\* section's job is kept as failed exactly if it is among the last failures, and no job
\* runs more often than its attempts allow, whatever retries, sweeps and faults come
\* between.
THEOREM QueueCorrect == Spec => []JobsConsistent
<1>1. Init => JobInv
  <2>. SUFFICES ASSUME Init PROVE JobInv
    OBVIOUS
  <2>1. failed = <<>> /\ Len(failed) = 0 /\ \A s \in Sections : job[s] = "none"
    BY DEF Init, QueueInit
  <2>2. QueueConsistent
    BY <2>1, QueueAssumption DEF QueueConsistent
  <2>. QED
    BY <2>2 DEF Init, JobInv, JobsConsistent, Promotes, Idle
<1>2. IInv /\ JobInv /\ [Next]_vars => JobInv'
  <2>. SUFFICES ASSUME IInv, JobInv, [Next]_vars PROVE JobInv'
    OBVIOUS
  <2>1. CASE \E t \in Txns : \/ Request(t) \/ AcquireLock(t) \/ Step(t) \/ Fault(t)
                             \/ \E s \in Sections : BeginPromote(t, s) \/ BeginExpire(t, s)
    BY <2>1, ActorKeepsJobs
  <2>2. CASE Sweep
    <3>. DEFINE stuck == {s \in Sections : enrolledCount[s] < capacity[s] /\ Waiting(s) # {}}
    <3>1. Add(stuck) /\ stuck \in SUBSET Sections /\ txn' = txn
      BY <2>2 DEF Sweep
    <3>2. QueueInv /\ \A u \in Txns : Promotes(u) => txn[u].sec \in Sections
      BY DEF IInv, TypeOK, QueueInv, JobInv, JobsConsistent, Promotes, Txn, Idle
    <3>. HIDE DEF stuck
    <3>3. QueueConsistent' /\ \A s \in Sections : job[s] = "active" => job'[s] = "active"
      BY <3>1, <3>2, AddKeepsQueue
    <3>. QED
      BY <3>1, <3>2, <3>3 DEF JobInv, JobsConsistent, Promotes
  <2>3. CASE Tick \/ UNCHANGED vars \/ \E u \in Students : PlaceHold(u) \/ ReleaseHold(u)
    <3>1. UNCHANGED <<txn, queueVars>>
      BY <2>3 DEF Tick, PlaceHold, ReleaseHold, vars
    <3>. QED
      BY <3>1 DEF JobInv, JobsConsistent, QueueConsistent, Promotes, queueVars
  <2>. QED
    BY <2>1, <2>2, <2>3 DEF Next, Txns
<1>3. JobInv => JobsConsistent
  BY DEF JobInv
<1>. QED
  BY <1>1, <1>2, <1>3, Invariance, PTL DEF Spec
-----------------------------------------------------------------------------
(* The order of the row locks *)

\* A transaction holds locks it needs, from its first to its commit; while it
\* still takes them, those it holds come before those it lacks.
LockInv ==
    /\ IsFiniteSet({s \in Sections : lock[s] # None})
    /\ \A t \in Txns : \A s \in Holds(t) :
          txn[t].pc \in {"begun", "locked", "checked"} /\ s \in Needs(t)
    /\ \A t \in Txns : txn[t].pc = "begun" =>
          \A s \in Holds(t), r \in Needs(t) \ Holds(t) : s < r

Reads(t) ==
    /\ UNCHANGED lock
    /\ txn[t].pc = "locked" /\ txn'[t].pc = "checked" /\ Needs(t)' = Needs(t)

\* Every step of t but the one that takes a lock reads under its locks, or
\* leaves it without any.
LEMMA StepLocks ==
    ASSUME IInv, LockInv, NEW t \in Txns,
           \/ Request(t) \/ Step(t) \/ Fault(t)
           \/ \E s \in Sections : BeginPromote(t, s) \/ BeginExpire(t, s)
    PROVE  Reads(t) \/ Release(t)
<1>1. TypeOK
  BY DEF IInv
<1>2. txn[t].pc \notin {"begun", "locked", "checked"} /\ UNCHANGED lock => Release(t)
  BY <1>1 DEF LockInv, Holds, TypeOK, Release
<1>3. ASSUME NEW op, NEW u, NEW i, NEW s, NEW r, Begin(t, op, u, i, s, r), UNCHANGED lock
      PROVE  Release(t)
  BY <1>2, <1>3 DEF Begin, Idle
<1>4. ASSUME NEW num, NEW was, NEW rows, Checked(t, num, was, rows), UNCHANGED lock,
             txn[t].pc = "locked"
      PROVE  Reads(t)
  <2>1. txn[t] \in Txn
    BY <1>4, Begun
  <2>. QED
    BY <1>1, <1>4, <2>1 DEF Checked, Reads, Needs, TypeOK, Txn
<1>5. CASE Request(t) \/ \E s \in Sections : BeginPromote(t, s) \/ BeginExpire(t, s)
  BY <1>3, <1>5 DEF Request, BeginEnroll, BeginDrop, BeginSwap, BeginReorder, BeginUpdate,
                    BeginPromote, BeginExpire
<1>6. CASE Enqueue(t) \/ CompleteJob(t)
  BY <1>2, <1>6 DEF Enqueue, CompleteJob, At
<1>7. CASE EnrollCheck(t) \/ SwapCheck(t) \/ ReorderCheck(t) \/ UpdateCheck(t) \/ ExpireCheck(t)
           \/ PromoteCheck(t)
  <2>1. CASE EnrollCheck(t) \/ SwapCheck(t) \/ ExpireCheck(t) \/ PromoteCheck(t)
    <3>1. UNCHANGED lock /\ txn[t].pc = "locked"
      BY ONLY <2>1 DEF EnrollCheck, SwapCheck, ExpireCheck, PromoteCheck, At
    <3>2. \E num, was, rows : Checked(t, num, was, rows)
      BY ONLY <2>1 DEF EnrollCheck, SwapCheck, ExpireCheck, PromoteCheck
    <3>. QED
      BY <1>4, <3>1, <3>2
  <2>2. CASE ReorderCheck(t)
    <3>1. txn[t].pc = "locked"
      BY ONLY <2>2 DEF ReorderCheck, At
    <3>2. \/ Release(t)
          \/ \E num, was, rows : Checked(t, num, was, rows) /\ UNCHANGED lock
      BY ONLY <2>2 DEF ReorderCheck, Finish
    <3>. QED
      BY ONLY <1>4, <3>1, <3>2
  <2>3. CASE UpdateCheck(t)
    <3>1. txn[t].pc = "locked"
      BY ONLY <2>3 DEF UpdateCheck, At
    <3>2. PICK c \in Capacities \cup {capacity[txn[t].sec]} :
             (Checked(t, c, None, {}) /\ UNCHANGED lock) \/ Finish(t)
      BY ONLY <2>3, Zenon DEF UpdateCheck
    <3>3. Finish(t) => Release(t)
      BY ONLY DEF Finish
    <3>. QED
      BY ONLY <1>4, <3>1, <3>2, <3>3
  <2>. QED
    BY <1>7, <2>1, <2>2, <2>3
<1>8. CASE EnrollRefuse(t) \/ SwapRefuse(t) \/ SwapHitsIndex(t) \/ NoIdLeft(t)
           \/ EnrollSeat(t) \/ EnrollWait(t) \/ Reorder(t) \/ Expire(t)
           \/ PromoteClosed(t) \/ Promote(t) \/ Fault(t)
  BY ONLY <1>8, Zenon DEF EnrollRefuse, SwapRefuse, SwapHitsIndex, NoIdLeft, EnrollSeat,
       EnrollWait, Reorder, Expire, PromoteClosed, Promote, Fault, Finish
<1>9. CASE Drop(t) \/ Swap(t) \/ UpdateSection(t)
  BY ONLY <1>9 DEF Drop, Swap, UpdateSection, Finish, FinishFreeing
<1>. QED
  BY <1>5, <1>6, <1>7, <1>8, <1>9 DEF Step

\* A commit or rollback releases the row locks of the slot.
LEMMA ReleaseKeepsLocks ==
    ASSUME TypeOK, LockInv, NEW t \in Txns, Release(t), \A u \in Txns \ {t} : txn'[u] = txn[u]
    PROVE  LockInv'
<1>1. \A s \in Sections : lock'[s] = IF lock[s] = t THEN None ELSE lock[s]
  BY DEF Release
<1>2. Holds(t)' = {} /\ \A u \in Txns \ {t} : Holds(u)' = Holds(u) /\ Needs(u)' = Needs(u)
  BY <1>1, NoneApart DEF Holds, Needs
<1>3. {s \in Sections : lock'[s] # None} \subseteq {s \in Sections : lock[s] # None}
  BY <1>1
<1>4. IsFiniteSet({s \in Sections : lock'[s] # None})
  BY <1>3, FS_Subset DEF LockInv
<1>. QED
  BY <1>2, <1>4 DEF LockInv

\* A read under the locks changes none of them.
LEMMA ReadsKeepsLocks ==
    ASSUME LockInv, NEW t \in Txns, Reads(t), \A u \in Txns \ {t} : txn'[u] = txn[u]
    PROVE  LockInv'
<1>1. \A u \in Txns : Holds(u)' = Holds(u) /\ Needs(u)' = Needs(u)
  BY DEF Reads, Holds, Needs
<1>. QED
  BY <1>1 DEF LockInv, Reads

\* SELECT ... FOR UPDATE takes the next section in id order.
LEMMA AcquireKeepsLocks ==
    ASSUME IInv, LockInv, NEW t \in Txns, AcquireLock(t)
    PROVE  LockInv'
<1>1. TypeOK /\ txn[t] \in Txn /\ txn[t].pc = "begun"
  BY Begun DEF AcquireLock
<1>2. PICK s \in Sections :
         /\ NextLock(t, s) /\ lock[s] = None
         /\ lock' = [lock EXCEPT ![s] = t]
         /\ IF Needs(t) \ Holds(t) = {s} THEN GoTo(t, "locked") ELSE UNCHANGED txn
  BY DEF AcquireLock, RowFree
<1>3. \A r \in Sections : lock'[r] = IF r = s THEN t ELSE lock[r]
  BY <1>1, <1>2 DEF TypeOK
<1>4. Holds(t)' = Holds(t) \cup {s} /\ \A u \in Txns \ {t} : Holds(u)' = Holds(u)
  BY <1>2, <1>3, NoneApart DEF Holds
<1>5. /\ \A u \in Txns \ {t} : txn'[u] = txn[u]
      /\ Needs(t)' = Needs(t) /\ txn'[t].pc \in {"begun", "locked"}
  <2>1. CASE txn' = txn
    BY <1>1, <2>1 DEF Needs
  <2>2. CASE GoTo(t, "locked")
    BY <1>1, <2>2 DEF GoTo, TypeOK, Needs, Txn
  <2>. QED
    BY <1>2, <2>1, <2>2
<1>6. IsFiniteSet({r \in Sections : lock'[r] # None})
  <2>1. {r \in Sections : lock'[r] # None} \subseteq {r \in Sections : lock[r] # None} \cup {s}
    BY <1>3
  <2>. QED
    BY <2>1, FS_AddElement, FS_Subset DEF LockInv
<1>7. \A u \in Txns : \A r \in Holds(u)' :
         txn'[u].pc \in {"begun", "locked", "checked"} /\ r \in Needs(u)'
  <2>1. s \in Needs(t)
    BY <1>2 DEF NextLock
  <2>2. \A u \in Txns \ {t} : Needs(u)' = Needs(u)
    BY <1>5 DEF Needs
  <2>. QED
    BY <1>4, <1>5, <2>1, <2>2 DEF LockInv
<1>8. \A r \in Needs(t) \ (Holds(t) \cup {s}) : r \in Nat /\ s < r
  BY <1>1, <1>2, SectionsAssumption DEF NextLock, Needs, Txn
<1>9. txn'[t].pc = "begun" => \A q \in Holds(t)', r \in Needs(t)' \ Holds(t)' : q < r
  BY <1>1, <1>4, <1>5, <1>8 DEF LockInv
<1>10. \A u \in Txns \ {t} : txn'[u].pc = "begun" =>
          \A q \in Holds(u)', r \in Needs(u)' \ Holds(u)' : q < r
  <2>1. \A u \in Txns \ {t} : Needs(u)' = Needs(u)
    BY <1>5 DEF Needs
  <2>. QED
    BY <1>4, <1>5, <2>1 DEF LockInv
<1>. QED
  BY <1>6, <1>7, <1>9, <1>10 DEF LockInv

\* In a circle of transactions waiting for each other, one waits for the largest
\* of their sections; its holder waits for a larger one.
LEMMA LocksInOrder ==
    ASSUME LockInv
    PROVE  DeadlockFree
<1>. SUFFICES ASSUME NEW D \in SUBSET Txns, D # {}, \A t \in D : \E u \in D : Awaits(t, u)
              PROVE  FALSE
  BY DEF DeadlockFree
<1>. DEFINE W == {s \in Sections : \E t, u \in D : NextLock(t, s) /\ lock[s] = u}
<1>1. \A t \in D : \E s \in W : NextLock(t, s)
  BY DEF Awaits
<1>2. W # {} /\ W \subseteq Nat
  <2>1. W \subseteq Sections
    OBVIOUS
  <2>. HIDE DEF W
  <2>. QED
    BY <1>1, <2>1, SectionsAssumption
<1>3. W \subseteq {s \in Sections : lock[s] # None}
  BY NoneApart
<1>4. IsFiniteSet(W)
  BY <1>3, FS_Subset DEF LockInv
<1>5. PICK m \in W : \A r \in W : r <= m
  <2>. HIDE DEF W
  <2>. QED
    BY <1>2, <1>4, LargestExists
<1>6. PICK u \in D : lock[m] = u /\ m \in Holds(u)
  BY DEF Holds
<1>7. PICK r \in W : NextLock(u, r)
  BY <1>1, <1>6
<1>8. txn[u].pc = "begun"
  BY DEF Awaits
<1>9. m < r /\ r <= m
  BY <1>5, <1>6, <1>7, <1>8 DEF LockInv, NextLock
<1>. QED
  BY <1>2, <1>9

\* No set of requests and jobs, of any size, waits in a circle for each other's
\* row locks: FOR UPDATE takes the sections of a swap in id order.
THEOREM DeadlockFreeCorrect == Spec => []DeadlockFree
<1>1. Init => LockInv
  <2>. SUFFICES ASSUME Init PROVE LockInv
    OBVIOUS
  <2>1. {s \in Sections : lock[s] # None} = {}
    BY DEF Init
  <2>2. \A t \in Txns : Holds(t) = {}
    BY NoneApart DEF Init, Holds
  <2>. QED
    BY <2>1, <2>2, FS_EmptySet DEF LockInv
<1>2. IInv /\ LockInv /\ [Next]_vars => LockInv'
  <2>. SUFFICES ASSUME IInv, LockInv, [Next]_vars PROVE LockInv'
    OBVIOUS
  <2>1. ASSUME NEW t \in Txns,
               \/ Request(t) \/ Step(t) \/ Fault(t)
               \/ \E s \in Sections : BeginPromote(t, s) \/ BeginExpire(t, s)
        PROVE  LockInv'
    <3>1. \A u \in Txns \ {t} : txn'[u] = txn[u]
      BY <2>1, BeginPreserves, StepPreserves DEF Preserves, Frame
    <3>2. Reads(t) \/ Release(t)
      BY <2>1, StepLocks
    <3>. QED
      BY <3>1, <3>2, ReadsKeepsLocks, ReleaseKeepsLocks DEF IInv
  <2>2. CASE \E t \in Txns : AcquireLock(t)
    BY <2>2, AcquireKeepsLocks
  <2>3. CASE Sweep \/ Tick \/ UNCHANGED vars \/ \E u \in Students : PlaceHold(u) \/ ReleaseHold(u)
    <3>1. UNCHANGED <<lock, txn>>
      BY <2>3 DEF Sweep, Tick, PlaceHold, ReleaseHold, vars
    <3>. QED
      BY <3>1 DEF LockInv, Holds, Needs
  <2>. QED
    BY <2>1, <2>2, <2>3 DEF Next, Txns
<1>. QED
  BY <1>1, <1>2, LocksInOrder, Invariance, PTL DEF Spec
=============================================================================
