--------------------------- MODULE PromotionQueue ---------------------------
(***************************************************************************)
(* The BullMQ queue "promote-waitlist" as waitlist.service.ts uses it: a   *)
(* job's id is its section's id, a job is retried up to Attempts times, a  *)
(* completed job is removed (removeOnComplete: true) and an exhausted one  *)
(* is kept among the last KeepFailed failures (removeOnFail: 100).         *)
(*                                                                         *)
(* add() with an id the queue still knows is ignored, whatever the state   *)
(* of that job.  The module defines the steps of the queue; Enrollment     *)
(* conjoins them with the transactions that cause them.                    *)
(***************************************************************************)
EXTENDS Naturals, Sequences

CONSTANTS
    Sections,     \* section ids; UUIDs are totally ordered, so naturals
    Attempts,     \* attempts: 5
    KeepFailed    \* removeOnFail: 100

ASSUME SectionsAssumption == Sections \subseteq Nat
ASSUME QueueAssumption == Attempts \in Nat \ {0} /\ KeepFailed \in Nat \ {0}

VARIABLES
    job,          \* job[s]: where the job with id s is
    tries,        \* tries[s]: attempts that job has already used
    failed        \* the failed jobs BullMQ still keeps, oldest first

queueVars == <<job, tries, failed>>

JobStates == {"none", "waiting", "active", "failed"}

QueueTypeOK ==
    /\ job \in [Sections -> JobStates]
    /\ tries \in [Sections -> Nat]
    /\ failed \in Seq(Sections)

QueueInit ==
    /\ job = [s \in Sections |-> "none"]
    /\ tries = [s \in Sections |-> 0]
    /\ failed = <<>>

AddAnew(S) ==
    /\ job' = [s \in Sections |-> IF s \in S THEN "waiting" ELSE job[s]]
    /\ tries' = [s \in Sections |-> IF s \in S THEN 0 ELSE tries[s]]
    /\ UNCHANGED failed
\* queue.add for every section of S, in one go.  Only a section whose id
\* the queue does not know gets a job.
Add(S) ==
    LET new == {s \in S : job[s] = "none"}
    IN  /\ job' = [s \in Sections |-> IF s \in new THEN "waiting" ELSE job[s]]
        /\ tries' = [s \in Sections |-> IF s \in new THEN 0 ELSE tries[s]]
        /\ UNCHANGED failed

\* A worker takes the job.  Its id stays known while it runs.
Take(s) ==
    /\ job[s] = "waiting"
    /\ job' = [job EXCEPT ![s] = "active"]
    /\ UNCHANGED <<tries, failed>>

\* The processor returned: removeOnComplete forgets the id.
Complete(s) ==
    /\ job' = [job EXCEPT ![s] = "none"]
    /\ UNCHANGED <<tries, failed>>

\* The processor threw, or its process died: the job waits for its next
\* attempt (exponential backoff), or has used them all and is kept as failed.
FailAttempt(s) ==
    /\ tries' = [tries EXCEPT ![s] = @ + 1]
    /\ IF tries[s] + 1 < Attempts
         THEN /\ job' = [job EXCEPT ![s] = "waiting"]
              /\ UNCHANGED failed
         ELSE LET evicted == Len(failed) = KeepFailed
              IN  /\ failed' = Append(IF evicted THEN Tail(failed) ELSE failed, s)
                  /\ job' = [r \in Sections |->
                               IF r = s THEN "failed"
                               ELSE IF evicted /\ r = Head(failed) THEN "none"
                               ELSE job[r]]

\* What the queue keeps straight by itself: exactly the kept failures are in
\* state "failed", each once, and a job in progress has attempts left.
QueueConsistent ==
    /\ \A s \in Sections : job[s] = "failed" <=> \E k \in 1..Len(failed) : failed[k] = s
    /\ \A j, k \in 1..Len(failed) : failed[j] = failed[k] => j = k
    /\ Len(failed) <= KeepFailed
    /\ \A s \in Sections : job[s] \in {"waiting", "active"} => tries[s] < Attempts
=============================================================================
