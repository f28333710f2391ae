----------------------------- MODULE AuditTrail -----------------------------
(***************************************************************************)
(* What the audit pipeline promises, without batches, drainers or failures: *)
(* an event reaches the archive after its transaction committed, at most    *)
(* once and for good, and its row leaves the outbox only after that.        *)
(* AuditOutbox implements this module.                                      *)
(***************************************************************************)
EXTENDS Naturals

CONSTANT Rows

VARIABLES
    committed,  \* events whose transaction has committed
    documents,  \* documents[i]: how many the archive has of event i
    kept        \* events whose row is in the outbox

trailVars == <<committed, documents, kept>>

Init == committed = {} /\ documents = [i \in Rows |-> 0] /\ kept = {}

Commit(i) ==
    /\ i \notin committed
    /\ committed' = committed \cup {i} /\ kept' = kept \cup {i}
    /\ UNCHANGED documents

\* Some events that are not in the archive enter it.
Archive ==
    /\ \E B \in SUBSET {i \in committed : documents[i] = 0} :
          documents' = [i \in Rows |-> IF i \in B THEN 1 ELSE documents[i]]
    /\ UNCHANGED <<committed, kept>>

\* Rows of events that are in it are deleted.
Discard ==
    /\ \E B \in SUBSET {i \in kept : documents[i] = 1} : kept' = kept \ B
    /\ UNCHANGED <<committed, documents>>

Next == (\E i \in Rows : Commit(i)) \/ Archive \/ Discard

Spec == Init /\ [][Next]_trailVars
=============================================================================
