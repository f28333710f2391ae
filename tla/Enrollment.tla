----------------------------- MODULE Enrollment -----------------------------
(***************************************************************************)
(* Seat allocation: EnrollmentService (enroll, drop, swap), WaitlistService*)
(* (promotion, reorder, expiry, sweep) and SectionsService.update, as the  *)
(* Postgres transactions they run.                                         *)
(*                                                                         *)
(* A transaction begins with unlocked reads, takes the row lock of each    *)
(* section it changes, reads again under the lock, and commits.  Isolation *)
(* is READ COMMITTED: other transactions may commit between any two steps, *)
(* and a row of a section this transaction has not locked may change after *)
(* it was read.  What a transaction read under the lock and acts on later  *)
(* is kept in its record; its writes appear at the commit, which also      *)
(* releases the locks.                                                     *)
(***************************************************************************)
EXTENDS PromotionQueue, FiniteSets, FiniteSetsExt

CONSTANTS
    Students, Ids,        \* users with role STUDENT; ids of Enrollment rows
    Clients, Workers,     \* transaction slots of requests, of background jobs
    CourseOf, Credits,    \* per section: its course, its course's credits
    Overlap,              \* hasTimeConflict of two sections' meeting patterns
    Qualified,            \* per section: who completed the prerequisites
    CreditCap,            \* per student: overload approval, else maxCredits
    Opens,                \* per student: the effective opening of registration
    TermOpens, Closes,    \* Term.registrationOpens, registrationCloses
    InitialCapacity, Capacities, WaitCaps,  \* the values capacities may take
    Holdable,             \* students an advisor may put on hold
    Requests,             \* bound: the operations the clients of an instance call
    MaxNow, MaxFaults,    \* bounds: the clock, the number of faults
    None                  \* null

Txns == Clients \cup Workers

Ops == {"enroll", "drop", "swap", "promote", "reorder", "update", "expire"}

ASSUME ParametersAssumption ==
    /\ CourseOf \in [Sections -> Nat] /\ Credits \in [Sections -> Nat]
    /\ Overlap \subseteq Sections \X Sections
    /\ Qualified \in [Sections -> SUBSET Students]
    /\ CreditCap \in [Students -> Nat] /\ Opens \in [Students -> Nat]
    /\ TermOpens \in Nat /\ Closes \in Nat
    /\ InitialCapacity \in [Sections -> Nat]
    /\ Capacities \subseteq Nat
    /\ WaitCaps \subseteq Nat \cup {None}
    /\ Holdable \subseteq Students /\ Requests \subseteq Ops
    /\ MaxNow \in Nat /\ MaxFaults \in Nat
    /\ Clients \cap Workers = {}
    /\ None \notin Nat \cup Students \cup Ids \cup Txns

VARIABLES
    now,           \* the clock, in registration phases
    held,          \* students with an unreleased AdvisorHold
    enr,           \* the Enrollment table
    capacity, enrolledCount, waitlistCap,   \* columns of the Section table
    lock,          \* lock[s]: the transaction holding the row lock of s
    txn,           \* txn[t]: what transaction slot t is doing
    audit,         \* audit[i]: audit_outbox rows whose target is row i
    notices,       \* notices[i]: notifications about row i
    faults         \* faults so far (aborts, crashes, Redis refusing an add)

tables == <<enr, capacity, enrolledCount, waitlistCap, audit, notices>>
vars == <<now, held, tables, lock, txn, faults, queueVars>>

ActiveStatuses == {"ENROLLED", "WAITLISTED"}
Statuses == ActiveStatuses \cup {"DROPPED"}

\* An id that no INSERT has used yet.
Unused == [student |-> None, section |-> None, status |-> "UNUSED", pos |-> None]
Row == [student : Students, section : Sections, status : Statuses, pos : Nat \cup {None}]

Idle == [op |-> "idle", pc |-> "idle", student |-> None, id |-> None,
         sec |-> None, tgt |-> None, num |-> None, was |-> None, rows |-> {}]
Txn == [op : Ops, pc : {"begun", "locked", "checked", "enqueue", "done"},
        student : Students \cup {None}, id : Ids \cup {None},
        sec : Sections, tgt : Sections \cup {None},
        num : Nat \cup {None},              \* a count or position it has read
        was : ActiveStatuses \cup {None},   \* the status it has read
        rows : SUBSET Ids]                  \* the rows it has read

AuditEvent == [action : {"CREATED", "WAITLISTED", "DROPPED", "WAITLIST_LEFT", "SWAPPED",
                         "PROMOTED", "EXPIRED"},
               from : Ids \cup {None}]

TypeOK ==
    /\ now \in 0..MaxNow
    /\ held \subseteq Holdable
    /\ enr \in [Ids -> Row \cup {Unused}]
    /\ capacity \in [Sections -> Nat]
    /\ enrolledCount \in [Sections -> Nat]
    /\ waitlistCap \in [Sections -> Nat \cup {None}]
    /\ lock \in [Sections -> Txns \cup {None}]
    /\ txn \in [Txns -> Txn \cup {Idle}]
    /\ audit \in [Ids -> Seq(AuditEvent)]
    /\ notices \in [Ids -> Seq({"WAITLIST_PROMOTED", "WAITLIST_EXPIRED"})]
    /\ faults \in 0..MaxFaults
    /\ QueueTypeOK

Init ==
    /\ now = 0
    /\ held = {}
    /\ enr = [i \in Ids |-> Unused]
    /\ capacity = InitialCapacity
    /\ enrolledCount = [s \in Sections |-> 0]
    /\ waitlistCap = [s \in Sections |-> None]
    /\ lock = [s \in Sections |-> None]
    /\ txn = [t \in Txns |-> Idle]
    /\ audit = [i \in Ids |-> <<>>]
    /\ notices = [i \in Ids |-> <<>>]
    /\ faults = 0
    /\ QueueInit
-----------------------------------------------------------------------------
(* Queries *)

Seated(s) == {i \in Ids : enr[i].section = s /\ enr[i].status = "ENROLLED"}
Waiting(s) == {i \in Ids : enr[i].section = s /\ enr[i].status = "WAITLISTED"}
Active(u) == {i \in Ids : enr[i].student = u /\ enr[i].status \in ActiveStatuses}
ActiveIn(u, s) == {i \in Active(u) : enr[i].section = s}

FreeOffByOne(s) == capacity[s] + 1 - enrolledCount[s]
Free(s) == capacity[s] - enrolledCount[s]
Closed == now > Closes

PositionByCount(s) == Cardinality(Waiting(s)) + 1
\* assignPosition: the largest position on the section's waitlist plus one.
NextPosition(s) ==
    LET used == {enr[i].pos : i \in Waiting(s)}
    IN  IF used = {} THEN 1
        ELSE (CHOOSE p \in used : \A q \in used : q <= p) + 1

\* The eligibility checks of enroll and swap against section s, "others" being
\* the active rows of the student that count against it.
AnyCourse(s, others) == TRUE
NotTwice(s, others) == \A i \in others : CourseOf[enr[i].section] # CourseOf[s]
AnyTime(s, others) == TRUE
FitsSchedule(s, others) == \A i \in others : <<s, enr[i].section>> \notin Overlap
CreditsSoFar(u, s, others) ==
    LET credits(i) == Credits[enr[i].section]
    IN  MapThenSumSet(credits, others) <= CreditCap[u]
FitsCredits(u, s, others) ==
    LET credits(i) == Credits[enr[i].section]
    IN  MapThenSumSet(credits, others) + Credits[s] <= CreditCap[u]

Eligible(u, s) ==
    LET others == Active(u) \ ActiveIn(u, s)
    IN  /\ NotTwice(s, others)
        /\ u \in Qualified[s]
        /\ FitsSchedule(s, others) /\ FitsCredits(u, s, others)

MayEnroll(u, s) == ActiveIn(u, s) = {} /\ Eligible(u, s)

\* A swap within one course skips the duplicate and prerequisite checks.
MaySwap(u, source, s) ==
    LET others == Active(u) \ {source}
    IN  /\ CourseOf[enr[source].section] # CourseOf[s] =>
              NotTwice(s, others) /\ u \in Qualified[s]
        /\ FitsSchedule(s, others) /\ FitsCredits(u, s, others)
-----------------------------------------------------------------------------
(* Transactions *)

Needs(t) == {txn[t].sec, txn[t].tgt} \ {None}
Holds(t) == {s \in Sections : lock[s] = t}

Begin(t, op, u, i, s, r) ==
    /\ txn[t] = Idle
    /\ op \in Requests \/ t \in Workers
    /\ txn' = [txn EXCEPT ![t] =
                  [op |-> op, pc |-> "begun", student |-> u, id |-> i, sec |-> s, tgt |-> r,
                   num |-> None, was |-> None, rows |-> {}]]

\* The bound on rows: a request that may insert begins while an id is unused.
IdsLeft == \E i \in Ids : enr[i] = Unused

GoTo(t, pc) == txn' = [txn EXCEPT ![t].pc = pc]
Checked(t, num, was, rows) ==
    txn' = [txn EXCEPT ![t].pc = "checked", ![t].num = num, ![t].was = was, ![t].rows = rows]
Release(t) == lock' = [s \in Sections |-> IF lock[s] = t THEN None ELSE lock[s]]
At(t, op, pc) == txn[t].op = op /\ txn[t].pc = pc

NoRowLock(s) == TRUE
\* The row lock of s can be taken.
RowFree(s) == lock[s] = None

KeepLocks(t) == UNCHANGED lock /\ txn' = [txn EXCEPT ![t] = Idle]
\* COMMIT or ROLLBACK with nothing left to do.
Finish(t) == Release(t) /\ txn' = [txn EXCEPT ![t] = Idle]
\* COMMIT, after which the request still enqueues a promotion for its section.
FinishFreeing(t) == Release(t) /\ GoTo(t, "enqueue")

SourceFirst(t, s) ==
    s \in Needs(t) \ Holds(t) /\ (txn[t].sec \in Holds(t) \/ s = txn[t].sec)
\* The lock t takes next: SELECT ... FOR UPDATE takes them in id order.
NextLock(t, s) ==
    s \in Needs(t) \ Holds(t) /\ \A r \in Needs(t) \ Holds(t) : s <= r

AcquireLock(t) ==
    /\ txn[t] # Idle /\ txn[t].pc = "begun"
    /\ \E s \in Sections :
          /\ NextLock(t, s) /\ RowFree(s)
          /\ lock' = [lock EXCEPT ![s] = t]
          /\ IF Needs(t) \ Holds(t) = {s} THEN GoTo(t, "locked") ELSE UNCHANGED txn
    /\ UNCHANGED <<now, held, tables, faults, queueVars>>

LogExceptLeaving(i, action, from) ==
    audit' = IF action = "WAITLIST_LEFT" THEN audit
             ELSE [audit EXCEPT ![i] = Append(@, [action |-> action, from |-> from])]
\* audit.recordEvent and notifications.createInTx, in the same transaction.
Log(i, action, from) ==
    audit' = [audit EXCEPT ![i] = Append(@, [action |-> action, from |-> from])]
LogAll(R, action) ==
    audit' = [i \in Ids |-> IF i \in R THEN Append(audit[i], [action |-> action, from |-> None])
                                       ELSE audit[i]]
NotifyTwice(R, kind) ==
    notices' = [i \in Ids |-> IF i \in R THEN notices[i] \o <<kind, kind>> ELSE notices[i]]
Notify(R, kind) ==
    notices' = [i \in Ids |-> IF i \in R THEN Append(notices[i], kind) ELSE notices[i]]
-----------------------------------------------------------------------------
(* enroll *)

BeginEnroll(t, u, s) ==
    /\ ~Closed /\ now >= Opens[u] /\ u \notin held
    /\ IdsLeft
    /\ Begin(t, "enroll", u, None, s, None)
    /\ UNCHANGED <<now, held, tables, lock, faults, queueVars>>

WaitlistHasRoom(s) ==
    waitlistCap[s] # None => Cardinality(Waiting(s)) < waitlistCap[s]

\* Under the lock: the checks, then the choice between a seat (num = None) and
\* the next waitlist position.
EnrollCheck(t) ==
    /\ At(t, "enroll", "locked")
    /\ LET s == txn[t].sec
       IN  /\ MayEnroll(txn[t].student, s)
           /\ \/ Free(s) > 0 /\ Checked(t, None, None, {})
              \/ /\ Free(s) <= 0 /\ WaitlistHasRoom(s)
                 /\ Checked(t, NextPosition(s), None, {})
    /\ UNCHANGED <<now, held, tables, lock, faults, queueVars>>

\* The student already holds a row of the section (answered with that row), a
\* check fails, or neither a seat nor waitlist space is left (SECTION_FULL).
EnrollRefuse(t) ==
    /\ At(t, "enroll", "locked")
    /\ LET s == txn[t].sec
       IN  MayEnroll(txn[t].student, s) => Free(s) <= 0 /\ ~WaitlistHasRoom(s)
    /\ Finish(t)
    /\ UNCHANGED <<now, held, tables, faults, queueVars>>

Insert(i, u, s, status, pos) ==
    /\ enr[i] = Unused
    /\ enr' = [enr EXCEPT ![i] = [student |-> u, section |-> s, status |-> status,
                                  pos |-> pos]]

EnrollSeat(t) ==
    /\ At(t, "enroll", "checked") /\ txn[t].num = None
    /\ \E i \in Ids : /\ Insert(i, txn[t].student, txn[t].sec, "ENROLLED", None)
                      /\ Log(i, "CREATED", None)
    /\ enrolledCount' = [enrolledCount EXCEPT ![txn[t].sec] = @ + 1]
    /\ Finish(t)
    /\ UNCHANGED <<now, held, capacity, waitlistCap, notices, faults, queueVars>>

EnrollWait(t) ==
    /\ At(t, "enroll", "checked") /\ txn[t].num # None
    /\ \E i \in Ids : /\ Insert(i, txn[t].student, txn[t].sec, "WAITLISTED", txn[t].num)
                      /\ Log(i, "WAITLISTED", None)
    /\ Finish(t)
    /\ UNCHANGED <<now, held, capacity, enrolledCount, waitlistCap, notices, faults,
                   queueVars>>
-----------------------------------------------------------------------------
(* drop *)

BeginDrop(t, i) ==
    /\ enr[i] # Unused
    /\ Begin(t, "drop", enr[i].student, i, enr[i].section, None)
    /\ UNCHANGED <<now, held, tables, lock, faults, queueVars>>

Deleting(row) == Unused
\* UPDATE of a row to DROPPED, its waitlist position freed.
Closing(row) == [row EXCEPT !.status = "DROPPED", !.pos = None]
Close(i) == enr' = [enr EXCEPT ![i] = Closing(@)]

StatusBeforeLock(i) == IF enr[i].status = "DROPPED" THEN "ENROLLED" ELSE enr[i].status
StatusUnderLock(i) == enr[i].status

\* The status is read again under the lock, and the UPDATE repeats it in its
\* WHERE clause: reading and writing it are one step.
Drop(t) ==
    /\ At(t, "drop", "locked")
    /\ LET i == txn[t].id
           s == txn[t].sec
       IN  \/ /\ StatusUnderLock(i) = "ENROLLED"
              /\ Close(i)
              /\ enrolledCount' = [enrolledCount EXCEPT ![s] = @ - 1]
              /\ Log(i, "DROPPED", None)
              /\ FinishFreeing(t)
           \/ /\ StatusUnderLock(i) = "WAITLISTED"
              /\ Close(i)
              /\ Log(i, "WAITLIST_LEFT", None)
              /\ Finish(t)
              /\ UNCHANGED enrolledCount
           \/ /\ StatusUnderLock(i) \notin ActiveStatuses    \* ALREADY_DROPPED
              /\ Finish(t)
              /\ UNCHANGED <<enr, enrolledCount, audit>>
    /\ UNCHANGED <<now, held, capacity, waitlistCap, notices, faults, queueVars>>
-----------------------------------------------------------------------------
(* swap *)

BeginSwap(t, i, r) ==
    /\ enr[i].status \in ActiveStatuses /\ enr[i].section # r
    /\ ~Closed /\ now >= Opens[enr[i].student] /\ enr[i].student \notin held
    /\ IdsLeft
    /\ Begin(t, "swap", enr[i].student, i, enr[i].section, r)
    /\ UNCHANGED <<now, held, tables, lock, faults, queueVars>>

SwapAllowedIntoFull(t) ==
    /\ enr[txn[t].id].status \in ActiveStatuses
    /\ MaySwap(txn[t].student, txn[t].id, txn[t].tgt)
SwapAllowed(t) ==
    /\ enr[txn[t].id].status \in ActiveStatuses
    /\ enrolledCount[txn[t].tgt] < capacity[txn[t].tgt]
    /\ MaySwap(txn[t].student, txn[t].id, txn[t].tgt)

SwapCheck(t) ==
    /\ At(t, "swap", "locked")
    /\ SwapAllowed(t)
    /\ Checked(t, None, enr[txn[t].id].status, {})
    /\ UNCHANGED <<now, held, tables, lock, faults, queueVars>>

SwapRefusedAfterDrop(t) ==
    /\ At(t, "swap", "locked")
    /\ ~SwapAllowed(t)
    /\ Close(txn[t].id)
    /\ Finish(t)
    /\ UNCHANGED <<now, held, capacity, enrolledCount, waitlistCap, audit, notices, faults,
                   queueVars>>
\* ALREADY_DROPPED, SWAP_TARGET_FULL or a failed check: the source is kept.
SwapRefuse(t) ==
    /\ At(t, "swap", "locked")
    /\ ~SwapAllowed(t)
    /\ Finish(t)
    /\ UNCHANGED <<now, held, tables, faults, queueVars>>

NoIndex(u, s) == TRUE
\* The partial unique index on (studentId, sectionId) of active rows lets the
\* INSERT into the target through.  enroll reads those rows itself.
IndexAllows(u, s) == ActiveIn(u, s) = {}

AlwaysFrees(t) == TRUE
SwapFrees(t) == txn[t].was = "ENROLLED"

Swap(t) ==
    /\ At(t, "swap", "checked")
    /\ LET i == txn[t].id
           s == txn[t].sec
           r == txn[t].tgt
       IN  /\ IndexAllows(txn[t].student, r)
           /\ \E n \in Ids :
                 /\ enr[n] = Unused
                 /\ enr' = [enr EXCEPT ![i] = Closing(@),
                                       ![n] = [student |-> txn[t].student, section |-> r,
                                               status |-> "ENROLLED", pos |-> None]]
                 /\ Log(n, "SWAPPED", i)
           /\ enrolledCount' = [enrolledCount EXCEPT
                                  ![s] = IF SwapFrees(t) THEN @ - 1 ELSE @,
                                  ![r] = @ + 1]
           /\ IF SwapFrees(t) THEN FinishFreeing(t) ELSE Finish(t)
    /\ UNCHANGED <<now, held, capacity, waitlistCap, notices, faults, queueVars>>

SwapHitsIndex(t) ==
    /\ At(t, "swap", "checked")
    /\ ~IndexAllows(txn[t].student, txn[t].tgt)
    /\ Finish(t)
    /\ UNCHANGED <<now, held, tables, faults, queueVars>>

\* The bound on rows again: the last id went to somebody else, so the INSERT
\* fails like any failing statement and the transaction rolls back.
NoIdLeft(t) ==
    /\ At(t, "enroll", "checked") \/ At(t, "swap", "checked")
    /\ ~IdsLeft
    /\ Finish(t)
    /\ UNCHANGED <<now, held, tables, faults, queueVars>>

\* After the commit: enqueuePromotion.  (A refused add is a Fault.)
Enqueue(t) ==
    /\ txn[t] # Idle /\ txn[t].pc = "enqueue"
    /\ Add({txn[t].sec})
    /\ txn' = [txn EXCEPT ![t] = Idle]
    /\ UNCHANGED <<now, held, tables, lock, faults>>
-----------------------------------------------------------------------------
(* Promotion: a worker runs the job of section s *)

BeginPromote(t, s) ==
    /\ Begin(t, "promote", None, None, s, None)
    /\ Take(s)
    /\ UNCHANGED <<now, held, tables, lock, faults>>

\* The SELECT that took the lock also read enrolledCount and registrationCloses.
PromoteCheck(t) ==
    /\ At(t, "promote", "locked")
    /\ ~Closed
    /\ Checked(t, enrolledCount[txn[t].sec], None, {})
    /\ UNCHANGED <<now, held, tables, lock, faults, queueVars>>

PromoteClosed(t) ==
    /\ At(t, "promote", "locked")
    /\ Closed
    /\ Release(t) /\ GoTo(t, "done")
    /\ UNCHANGED <<now, held, tables, faults, queueVars>>

TailsOf(s, free) ==
    {P \in SUBSET Waiting(s) :
       /\ \A i \in P, j \in Waiting(s) \ P : enr[i].pos >= enr[j].pos
       /\ Cardinality(P) <= free
       /\ P # Waiting(s) => Cardinality(P) = free}
\* The rows the loop picks for "free" seats: lowest position first.
HeadsOf(s, free) ==
    {P \in SUBSET Waiting(s) :
       /\ \A i \in P, j \in Waiting(s) \ P : enr[i].pos <= enr[j].pos
       /\ Cardinality(P) <= free
       /\ P # Waiting(s) => Cardinality(P) = free}

\* The whole loop: its writes appear at the commit.  The counter is written
\* as a value, not as an increment.
Promote(t) ==
    /\ At(t, "promote", "checked")
    /\ LET s == txn[t].sec
       IN  \E P \in HeadsOf(s, capacity[s] - txn[t].num) :
              /\ enr' = [i \in Ids |-> IF i \in P
                                         THEN [enr[i] EXCEPT !.status = "ENROLLED", !.pos = None]
                                         ELSE enr[i]]
              /\ enrolledCount' = [enrolledCount EXCEPT ![s] = txn[t].num + Cardinality(P)]
              /\ LogAll(P, "PROMOTED") /\ Notify(P, "WAITLIST_PROMOTED")
    /\ Release(t) /\ GoTo(t, "done")
    /\ UNCHANGED <<now, held, capacity, waitlistCap, faults, queueVars>>

\* The processor returned, and BullMQ removes the job.
CompleteJob(t) ==
    /\ At(t, "promote", "done")
    /\ Complete(txn[t].sec)
    /\ txn' = [txn EXCEPT ![t] = Idle]
    /\ UNCHANGED <<now, held, tables, lock, faults>>

NoSweep == FALSE /\ UNCHANGED vars
\* sweepPromotable: every section with an open seat and a waiting student,
\* while the term's own registration window is open.
Sweep ==
    LET stuck == {s \in Sections : enrolledCount[s] < capacity[s] /\ Waiting(s) # {}}
    IN  /\ now >= TermOpens /\ ~Closed
        /\ stuck # {}
        /\ Add(stuck)
        /\ UNCHANGED <<now, held, tables, lock, txn, faults>>
-----------------------------------------------------------------------------
(* Administration: reorder a waitlist, edit a section; the hourly expiry *)

BeginReorder(t, s) ==
    /\ Begin(t, "reorder", None, None, s, None)
    /\ UNCHANGED <<now, held, tables, lock, faults, queueVars>>

SubsetSubmitted(submitted, s) == submitted \subseteq Waiting(s)
SameMembers(submitted, s) == submitted = Waiting(s)

\* The submitted list must name exactly the current waitlist.
ReorderCheck(t) ==
    /\ At(t, "reorder", "locked")
    /\ \E submitted \in SUBSET {i \in Ids : enr[i].section = txn[t].sec} :
          IF SameMembers(submitted, txn[t].sec)
            THEN Checked(t, None, None, submitted) /\ UNCHANGED lock
            ELSE Finish(t)       \* WAITLIST_CHANGED
    /\ UNCHANGED <<now, held, tables, faults, queueVars>>

\* place[i] is the index of id i in the list plus one.
Reorder(t) ==
    /\ At(t, "reorder", "checked")
    /\ LET R == txn[t].rows
       IN  \E place \in [R -> 1..Cardinality(R)] :
              /\ \A i, j \in R : place[i] = place[j] => i = j
              /\ enr' = [i \in Ids |-> IF i \in R THEN [enr[i] EXCEPT !.pos = place[i]]
                                                  ELSE enr[i]]
    /\ Finish(t)
    /\ UNCHANGED <<now, held, capacity, enrolledCount, waitlistCap, audit, notices,
                   faults, queueVars>>

BeginUpdate(t, s) ==
    /\ Begin(t, "update", None, None, s, None)
    /\ UNCHANGED <<now, held, tables, lock, faults, queueVars>>

AnyCapacity(s, c) == TRUE
CapacityFits(s, c) == c >= enrolledCount[s]

\* The requested capacity, or the current one, against CAPACITY_BELOW_ENROLLED.
UpdateCheck(t) ==
    /\ At(t, "update", "locked")
    /\ LET s == txn[t].sec
       IN  \E c \in Capacities \cup {capacity[s]} :
             IF CapacityFits(s, c) THEN Checked(t, c, None, {}) /\ UNCHANGED lock
                                      ELSE Finish(t)
    /\ UNCHANGED <<now, held, tables, faults, queueVars>>

\* More seats enqueue a promotion.
UpdateSection(t) ==
    /\ At(t, "update", "checked")
    /\ LET s == txn[t].sec
       IN  /\ capacity' = [capacity EXCEPT ![s] = txn[t].num]
           /\ \E w \in WaitCaps \cup {waitlistCap[s]} :
                 waitlistCap' = [waitlistCap EXCEPT ![s] = w]
           /\ IF txn[t].num > capacity[s] THEN FinishFreeing(t) ELSE Finish(t)
    /\ UNCHANGED <<now, held, enr, enrolledCount, audit, notices, faults, queueVars>>

OverdueBefore(s) == now < Closes /\ Waiting(s) # {}
Overdue(s) == Closed /\ Waiting(s) # {}

\* The unlocked query of expireClosedWaitlists names section s.
BeginExpire(t, s) ==
    /\ Overdue(s)
    /\ Begin(t, "expire", None, None, s, None)
    /\ UNCHANGED <<now, held, tables, lock, faults, queueVars>>

ExpireCheck(t) ==
    /\ At(t, "expire", "locked")
    /\ Checked(t, None, None, Waiting(txn[t].sec))
    /\ UNCHANGED <<now, held, tables, lock, faults, queueVars>>

Expire(t) ==
    /\ At(t, "expire", "checked")
    /\ LET R == txn[t].rows
       IN  /\ enr' = [i \in Ids |-> IF i \in R THEN Closing(enr[i]) ELSE enr[i]]
           /\ LogAll(R, "EXPIRED") /\ Notify(R, "WAITLIST_EXPIRED")
    /\ Finish(t)
    /\ UNCHANGED <<now, held, capacity, enrolledCount, waitlistCap, faults, queueVars>>
-----------------------------------------------------------------------------
(* Environment *)

Tick ==
    /\ now < MaxNow
    /\ now' = now + 1
    /\ UNCHANGED <<held, tables, lock, txn, faults, queueVars>>

\* Holds are written outside the API (seed data, an advisor's tool).
PlaceHold(u) ==
    /\ u \in Holdable \ held
    /\ held' = held \cup {u}
    /\ UNCHANGED <<now, tables, lock, txn, faults, queueVars>>

ReleaseHold(u) ==
    /\ u \in held
    /\ held' = held \ {u}
    /\ UNCHANGED <<now, tables, lock, txn, faults, queueVars>>

\* A transaction times out, its connection drops or its process dies; or the
\* process dies, or Redis refuses the add, between the commit and the enqueue.
\* Postgres rolls back what is not committed; BullMQ gives a job another attempt.
Fault(t) ==
    /\ txn[t] # Idle
    /\ faults < MaxFaults
    /\ faults' = faults + 1
    /\ Finish(t)
    /\ IF txn[t].op = "promote" THEN FailAttempt(txn[t].sec) ELSE UNCHANGED queueVars
    /\ UNCHANGED <<now, held, tables>>
-----------------------------------------------------------------------------
Request(t) ==
    \/ \E u \in Students, s \in Sections : BeginEnroll(t, u, s)
    \/ \E i \in Ids : BeginDrop(t, i)
    \/ \E i \in Ids, r \in Sections : BeginSwap(t, i, r)
    \/ \E s \in Sections : BeginReorder(t, s) \/ BeginUpdate(t, s)

\* What a transaction does once begun, the wait for its locks aside.
Step(t) ==
    \/ EnrollCheck(t) \/ EnrollRefuse(t) \/ EnrollSeat(t) \/ EnrollWait(t)
    \/ Drop(t)
    \/ SwapCheck(t) \/ SwapRefuse(t) \/ Swap(t) \/ SwapHitsIndex(t)
    \/ NoIdLeft(t)
    \/ PromoteCheck(t) \/ PromoteClosed(t) \/ Promote(t) \/ CompleteJob(t)
    \/ ReorderCheck(t) \/ Reorder(t) \/ UpdateCheck(t) \/ UpdateSection(t)
    \/ ExpireCheck(t) \/ Expire(t)
    \/ Enqueue(t)

Next ==
    \/ \E t \in Clients : Request(t)
    \/ \E t \in Workers, s \in Sections : BeginPromote(t, s) \/ BeginExpire(t, s)
    \/ \E t \in Txns : AcquireLock(t) \/ Step(t) \/ Fault(t)
    \/ Sweep
    \/ Tick
    \/ \E u \in Students : PlaceHold(u) \/ ReleaseHold(u)

Spec == Init /\ [][Next]_vars

\* Transactions run to their end, and Postgres serves a row's lock queue in
\* order; the queue is first in, first out; the schedulers keep firing.
Fairness ==
    /\ \A t \in Txns : WF_vars(Step(t)) /\ SF_vars(AcquireLock(t))
    /\ \A s \in Sections : /\ SF_vars(\E t \in Workers : BeginPromote(t, s))
                           /\ SF_vars(\E t \in Workers : BeginExpire(t, s))
    /\ WF_vars(Sweep)

FairSpec == Spec /\ Fairness
-----------------------------------------------------------------------------
(* Safety *)

\* The denormalized Section.enrolledCount is the number of ENROLLED rows of
\* the section, in every committed state: increments, decrements and the
\* promotion's absolute write never lose one another.
CounterMatchesRows == \A s \in Sections : enrolledCount[s] = Cardinality(Seated(s))

\* No section ever seats more students than its current capacity, whatever
\* races between enrolls, swaps, promotions and capacity edits (the CHECK
\* constraint of the database is never what prevents it).
NeverOverCapacity == \A s \in Sections : Cardinality(Seated(s)) <= capacity[s]

\* A student holds at most one active row of a section (idempotent enroll).
OneActiveRow ==
    \A u \in Students, s \in Sections : \A i, j \in ActiveIn(u, s) : i = j

\* A row has a waitlist position exactly while it waits, and the positions of
\* one waitlist are distinct: joins, promotions, drops and reorders keep a
\* strict order that the queries by waitlistPosition can rely on.
WaitlistOrdered ==
    /\ \A i \in Ids : enr[i].pos # None <=> enr[i].status = "WAITLISTED"
    /\ \A s \in Sections : \A i, j \in Waiting(s) : enr[i].pos = enr[j].pos => i = j

ReadsTrue(t) ==
    LET s == txn[t].sec
        num == txn[t].num
    IN  txn[t].pc = "checked" =>
          /\ txn[t].op = "enroll" =>
                /\ ActiveIn(txn[t].student, s) = {}
                /\ IF num = None THEN enrolledCount[s] < capacity[s]
                                 ELSE /\ enrolledCount[s] >= capacity[s]
                                      /\ \A i \in Waiting(s) : enr[i].pos < num
          /\ txn[t].op = "swap" => /\ enr[txn[t].id].status = txn[t].was
                                   /\ enrolledCount[txn[t].tgt] < capacity[txn[t].tgt]
          /\ txn[t].op = "promote" => num = enrolledCount[s]
          /\ txn[t].op = "update" => num >= enrolledCount[s]
          /\ txn[t].op \in {"reorder", "expire"} => txn[t].rows = Waiting(s)
\* What a transaction read under its locks, and is about to act on, is still
\* true when it commits, though other transactions commit in between.
ReadsStayTrue == \A t \in Txns : ReadsTrue(t)

\* No set of transactions waits in a circle for each other's row locks (swap
\* locks two sections).
Awaits(t, u) ==
    /\ txn[t] # Idle /\ txn[t].pc = "begun"
    /\ \E s \in Sections : NextLock(t, s) /\ lock[s] = u
DeadlockFree ==
    \A D \in (SUBSET Txns) \ {{}} : \E t \in D : \A u \in D : ~Awaits(t, u)

\* The audit rows of an enrollment, replayed, give its current status: no
\* transition commits without its audit row, none is audited twice, and a row
\* closed by a swap is named by exactly one SWAPPED event, that of its successor.
SwappedInto(i) == {n \in Ids : \E k \in 1..Len(audit[n]) :
                                  audit[n][k].action = "SWAPPED" /\ audit[n][k].from = i}
StatusAfter ==
    [CREATED |-> "ENROLLED", SWAPPED |-> "ENROLLED", PROMOTED |-> "ENROLLED",
     WAITLISTED |-> "WAITLISTED", DROPPED |-> "DROPPED", WAITLIST_LEFT |-> "DROPPED",
     EXPIRED |-> "DROPPED"]
AuditExplainsStatus ==
    \A i \in Ids :
       IF audit[i] = <<>> THEN enr[i] = Unused
       ELSE LET last == StatusAfter[audit[i][Len(audit[i])].action]
            IN  IF SwappedInto(i) = {} THEN enr[i].status = last
                ELSE /\ last \in ActiveStatuses /\ enr[i].status = "DROPPED"
                     /\ \E n \in Ids : SwappedInto(i) = {n} /\ enr[n].student = enr[i].student

\* What the system did to row i on its own.
NoticeOf == [PROMOTED |-> "WAITLIST_PROMOTED", EXPIRED |-> "WAITLIST_EXPIRED"]
OwnEvents(i) == {k \in 1..Len(audit[i]) : audit[i][k].action \in DOMAIN NoticeOf}
\* A student is told once, and only, of what the system did to the row on its
\* own: the notices are those of the promotions and expiries in the audit trail,
\* one each and in their order.
NoticesMatchAudit ==
    \A i \in Ids :
       \E event \in [1..Len(notices[i]) -> OwnEvents(i)] :
          /\ OwnEvents(i) = {event[k] : k \in 1..Len(notices[i])}
          /\ \A j, k \in 1..Len(notices[i]) : j < k => event[j] < event[k]
          /\ \A k \in 1..Len(notices[i]) : notices[i][k] = NoticeOf[audit[i][event[k]].action]

\* A transaction that promotes runs the job of its section, which is in progress and
\* which no other worker runs, and the queue's books balance: an add while the job runs,
\* a retry, an eviction or a fault starts no second one.
Promotes(t) == txn[t].op = "promote"
JobsConsistent ==
    /\ QueueConsistent
    /\ \A t \in Txns : Promotes(t) => job[txn[t].sec] = "active"
    /\ \A t, u \in Txns : Promotes(t) /\ Promotes(u) /\ txn[t].sec = txn[u].sec => t = u
-----------------------------------------------------------------------------
(* What a step may never do *)

Reordering == \E t \in Txns : At(t, "reorder", "checked") /\ txn'[t] = Idle

\* Among students who keep waiting nobody overtakes, and a newcomer joins
\* behind them, unless an administrator reorders the list.
NoOvertaking ==
    [][~Reordering =>
         \A s \in Sections : \A j \in Waiting(s)' : \A i \in Waiting(s) \cap Waiting(s)' :
            (j \notin Waiting(s) \/ enr[i].pos < enr[j].pos) /\ i # j
                => enr'[i].pos < enr'[j].pos]_vars

\* A waiting student gets the seat only when everyone ahead got one too.
PromotionInOrder ==
    [][\A s \in Sections : \A i, j \in Waiting(s) :
          i \in Seated(s)' /\ enr[j].pos < enr[i].pos => j \in Seated(s)']_vars

\* A dropped row stays dropped, keeps no seat, and no row changes hands: a
\* stale enrollment id can never revive or redirect a row.
RowsKeepIdentity ==
    [][\A i \in Ids : enr[i] # Unused =>
          /\ enr'[i].student = enr[i].student /\ enr'[i].section = enr[i].section
          /\ enr[i].status = "DROPPED" => enr'[i] = enr[i]
          /\ enr[i].status = "ENROLLED" => enr'[i].status # "WAITLISTED"]_vars

\* A swap never costs the student the seat or place it gives up: the step that
\* closes the source seats the same student in the target, and one that fails
\* leaves the source alone.
SwapAtomic ==
    [][\A t \in Txns, u \in Students, r \in Sections :
          /\ txn[t].op = "swap" /\ txn[t].student = u /\ txn[t].tgt = r
          /\ txn'[t] # txn[t] /\ enr' # enr
          => /\ Cardinality(Active(u)') = Cardinality(Active(u))
             /\ \E n \in Active(u)' \cap Seated(r)' : enr[n] = Unused]_vars

\* The system implements the abstract promise.
Promise ==
    INSTANCE SeatAllocation WITH
        room    <- capacity,
        seated  <- [s \in Sections |-> Seated(s)],
        waiting <- [s \in Sections |-> Waiting(s)],
        ahead   <- {p \in Ids \X Ids : /\ enr[p[1]].status = "WAITLISTED"
                                       /\ enr[p[2]].status = "WAITLISTED"
                                       /\ enr[p[1]].section = enr[p[2]].section
                                       /\ enr[p[1]].pos < enr[p[2]].pos},
        gone    <- {i \in Ids : enr[i].status = "DROPPED"}
ImplementsPromise == Promise!Spec
-----------------------------------------------------------------------------
(* Liveness *)

\* A free seat and a waiting student do not stay together while registration
\* is open: promotion, retried and swept for, brings them together.
Stuck(s) == enrolledCount[s] < capacity[s] /\ Waiting(s) # {} /\ ~Closed
SeatsReachTheWaitlist == \A s \in Sections : Stuck(s) ~> ~Stuck(s)

\* Once registration has closed every waitlist is emptied for good, students
\* whose request passed the closing check in time but committed late included.
WaitlistsExpire == \A s \in Sections : Closed ~> [](Waiting(s) = {})

\* Every transaction ends: none waits for a lock, or keeps one, forever.
TransactionsEnd == \A t \in Txns : txn[t] # Idle ~> txn[t] = Idle
-----------------------------------------------------------------------------
(* What the documentation says, and the code keeps only under a condition, or not *)

\* Two replicas run expireClosedWaitlists over the same row.
ExpiredByTwo(i) ==
    /\ enr[i].status = "WAITLISTED"
    /\ \E t, u \in Workers : /\ t # u /\ {txn[t].op, txn[u].op} = {"expire"}
                             /\ {txn[t].sec, txn[u].sec} = {enr[i].section}
\* The comment in expireClosedWaitlists: when two replicas both run it, every
\* affected student gets two notices for one event.
ReplicasTellTwice ==
    \A i \in Ids :
       ExpiredByTwo(i) ~>
          Cardinality({k \in DOMAIN notices[i] : notices[i][k] = "WAITLIST_EXPIRED"}) = 2

\* A student holds active rows of one section of a course only.
OneSectionPerCourse ==
    \A i, j \in Ids :
       /\ {enr[i].status, enr[j].status} \subseteq ActiveStatuses
       /\ enr[i].student = enr[j].student
       /\ CourseOf[enr[i].section] = CourseOf[enr[j].section]
       => enr[i].section = enr[j].section

\* The credits of a student's active rows stay within the student's limit.
WithinCreditCap ==
    \A u \in Students :
       LET credits(i) == Credits[enr[i].section]
       IN  MapThenSumSet(credits, Active(u)) <= CreditCap[u]
=============================================================================
