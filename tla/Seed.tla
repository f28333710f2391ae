-------------------------------- MODULE Seed --------------------------------
(* prisma/seed.ts: one statement after another, no transaction around them, *)
(* on whatever database the environment points at.  The process may die     *)
(* between two statements and be started again.                             *)
EXTENDS NoValue, Integers, Sequences, SequencesExt, FiniteSets, FiniteSetsExt

CONSTANTS
    Roster,        \* the students, in the order of their addresses
    Seats,         \* fall section -> capacity
    Hot,           \* the smallest 100-level sections, in the order walked
    HotTarget,     \* students to be waiting for each of them
    MaxDies       \* bound: deaths of the process

ASSUME SeedAssumption == Seats \in [DOMAIN Seats -> Nat] /\ Hot \in Seq(DOMAIN Seats)

VARIABLES
    filled,        \* the tables that have rows
    falls,         \* the Enrollment rows of fall sections
    counter,       \* enrolledCount of fall sections
    at,            \* the statement of Main a run is at; 0: no run
    enrolledCounts, waitlistCounts,   \* its maps
    picking,       \* the pass it is in, and whom it has left
    finished,      \* the last run got to "done."
    dies

seedVars == <<filled, falls, counter, at, enrolledCounts, waitlistCounts, picking,
              finished, dies>>
Memory == <<enrolledCounts, waitlistCounts, picking>>

\* Foreign keys that restrict a delete; User.advisorId is set null instead, and
\* notifications and refresh tokens go with their user.
References ==
    [enrollment |-> {"user", "section"}, section |-> {"course", "term"},
     coursePrerequisite |-> {"course"}, registrationWindow |-> {"term"},
     overloadApproval |-> {"user", "term"}, advisorHold |-> {"user"},
     notification |-> {}, refreshToken |-> {}, course |-> {}, term |-> {}, user |-> {}]
Tables == DOMAIN References
Cascades == [user |-> {"notification", "refreshToken"}]
Blocked(t) == \E u \in filled : t \in References[u]

WipedUsersFirst == <<"user", "notification", "enrollment", "overloadApproval", "advisorHold",
                     "section", "coursePrerequisite", "course", "registrationWindow", "term">>
Wiped == <<"notification", "enrollment", "overloadApproval", "advisorHold", "section",
           "coursePrerequisite", "course", "registrationWindow", "term", "user">>

\* What is filled first, in the order of the script.
TermRows == <<"term", "registrationWindow", "term">>
CatalogRows == <<"course", "coursePrerequisite">>
SectionRows == <<"section">>
PeopleRows == <<"user">>
HoldRows == <<"advisorHold", "overloadApproval">>
TranscriptRows == <<"section", "enrollment">>
Passes == <<"organic", "hot", "selfDrop", "expire", "patch", "notify">>

Statements(op, names) == [i \in DOMAIN names |-> [op |-> op, on |-> names[i]]]
Main ==
    Statements("wipe", Wiped)
    \o Statements("fill", TermRows \o CatalogRows \o SectionRows \o PeopleRows
                          \o HoldRows \o TranscriptRows)
    \o Statements("pass", Passes)

\* assertSafeToWipe.
Environments ==
    [confirmed : BOOLEAN, production : BOOLEAN, host : {"local", "remote", "unset", "unknown"}]
SafeToWipe(env) == env.confirmed \/ (~env.production /\ env.host = "local")

SectionsOf == DOMAIN Seats
NoCounts == [s \in SectionsOf |-> 0]
NobodyLeft == [who |-> <<>>, where |-> <<>>]

\* Whatever the database held, its foreign keys held.
SeedInit ==
    /\ filled \in {T \in SUBSET Tables :
                      /\ \A u \in T : References[u] \subseteq T
                      /\ \A u \in T \cap Cascades.user : "user" \in T}
    /\ falls = {} /\ counter = NoCounts
    /\ at = 0 /\ enrolledCounts = NoCounts /\ waitlistCounts = NoCounts
    /\ picking = NobodyLeft
    /\ finished = FALSE /\ dies = 0

Seeding == at > 0
Doing(op) == Seeding /\ Main[at].op = op
InPass(name) == Doing("pass") /\ Main[at].on = name
NextStatement == at' = at + 1

StartSeed ==
    /\ at = 0 /\ ~finished
    /\ \E env \in Environments : SafeToWipe(env) /\ at' = 1
    /\ enrolledCounts' = NoCounts /\ waitlistCounts' = NoCounts
    /\ picking' = [who |-> Roster, where |-> <<>>]
    /\ UNCHANGED <<filled, falls, counter, finished, dies>>

\* deleteMany: refused while other rows refer to these.
Wipe ==
    LET t == Main[at].on
    IN  /\ Doing("wipe") /\ ~Blocked(t)
        /\ filled' = filled \ ({t} \cup IF t = "user" THEN Cascades.user ELSE {})
        /\ IF t \in {"enrollment", "section"}
           THEN falls' = {} /\ counter' = NoCounts
           ELSE UNCHANGED <<falls, counter>>
        /\ NextStatement /\ UNCHANGED <<Memory, finished, dies>>

Fill ==
    LET t == Main[at].on
    IN  /\ Doing("fill") /\ References[t] \subseteq filled
        /\ filled' = filled \cup {t}
        /\ NextStatement /\ UNCHANGED <<falls, counter, Memory, finished, dies>>

\* A new Enrollment row: waiting when the section is full, behind those who wait.
Insert(u, s) ==
    LET full == enrolledCounts[s] >= Seats[s]
    IN  /\ falls' = falls \cup {[student |-> u, section |-> s,
                                 status |-> IF full THEN "WAITLISTED" ELSE "ENROLLED",
                                 position |-> IF full THEN waitlistCounts[s] + 1 ELSE None]}
        /\ enrolledCounts' = IF full THEN enrolledCounts ELSE [enrolledCounts EXCEPT ![s] = @ + 1]
        /\ waitlistCounts' = IF full THEN [waitlistCounts EXCEPT ![s] = @ + 1] ELSE waitlistCounts

Has(u, s) == \E e \in falls : e.student = u /\ e.section = s

\* Each student's picks, one by one: any of the sections, each once.
Organic ==
    /\ InPass("organic")
    /\ IF picking.who = <<>>
       THEN /\ NextStatement
            /\ \E o \in SetToSeqs(Range(Roster)) : picking' = [who |-> o, where |-> Hot]
            /\ UNCHANGED <<falls, enrolledCounts, waitlistCounts>>
       ELSE LET u == Head(picking.who)
            IN  /\ UNCHANGED at
                /\ \/ /\ \E s \in SectionsOf : ~Has(u, s) /\ Insert(u, s)
                      /\ UNCHANGED picking
                   \/ /\ picking' = [picking EXCEPT !.who = Tail(@)]
                      /\ UNCHANGED <<falls, enrolledCounts, waitlistCounts>>
    /\ UNCHANGED <<filled, counter, finished, dies>>

\* The hot sections: everybody in a shuffled order, until enough are waiting.
HotSection ==
    /\ InPass("hot")
    /\ IF picking.where = <<>>
       THEN /\ NextStatement /\ picking' = NobodyLeft
            /\ UNCHANGED <<falls, enrolledCounts, waitlistCounts>>
       ELSE LET s == Head(picking.where)
            IN  /\ UNCHANGED at
                /\ IF picking.who = <<>> \/ waitlistCounts[s] >= HotTarget
                   THEN /\ \E o \in SetToSeqs(Range(Roster)) :
                              picking' = [who |-> o, where |-> Tail(picking.where)]
                        /\ UNCHANGED <<falls, enrolledCounts, waitlistCounts>>
                   ELSE /\ picking' = [picking EXCEPT !.who = Tail(@)]
                        /\ IF Has(Head(picking.who), s)
                           THEN UNCHANGED <<falls, enrolledCounts, waitlistCounts>>
                           ELSE Insert(Head(picking.who), s)
    /\ UNCHANGED <<filled, counter, finished, dies>>

DropRow(e) == falls' = (falls \ {e}) \cup {[e EXCEPT !.status = "DROPPED", !.position = None]}

\* Some students drop; the map follows.
SelfDropUncounted(e) == DropRow(e) /\ UNCHANGED enrolledCounts
SelfDropOf(e) ==
    DropRow(e) /\ enrolledCounts' = [enrolledCounts EXCEPT ![e.section] = @ - 1]
SelfDrop ==
    /\ InPass("selfDrop")
    /\ \/ \E e \in falls : e.status = "ENROLLED" /\ SelfDropOf(e) /\ UNCHANGED at
       \/ NextStatement /\ UNCHANGED <<falls, enrolledCounts>>
    /\ UNCHANGED <<filled, counter, waitlistCounts, picking, finished, dies>>

\* Some waitlist rows expire.
ExpireRows ==
    /\ InPass("expire")
    /\ \/ \E e \in falls : e.status = "WAITLISTED" /\ DropRow(e) /\ UNCHANGED at
       \/ NextStatement /\ UNCHANGED falls
    /\ UNCHANGED <<filled, counter, Memory, finished, dies>>

\* enrolledCount of every touched section, one update each.
Patch ==
    /\ InPass("patch")
    /\ LET behind == {s \in SectionsOf : counter[s] # enrolledCounts[s]}
       IN  IF behind = {} THEN NextStatement /\ UNCHANGED counter
           ELSE /\ \E s \in behind : counter' = [counter EXCEPT ![s] = enrolledCounts[s]]
                /\ UNCHANGED at
    /\ UNCHANGED <<filled, falls, Memory, finished, dies>>

NotifySeeded ==
    /\ InPass("notify")
    /\ filled' = filled \cup IF falls = {} THEN {} ELSE {"notification"}
    /\ at' = 0 /\ finished' = TRUE
    /\ UNCHANGED <<falls, counter, Memory, dies>>

Die ==
    /\ Seeding /\ dies < MaxDies
    /\ dies' = dies + 1 /\ at' = 0
    /\ UNCHANGED <<filled, falls, counter, Memory, finished>>

SeedNext ==
    \/ StartSeed \/ Wipe \/ Fill \/ Organic \/ HotSection \/ SelfDrop \/ ExpireRows \/ Patch
    \/ NotifySeeded \/ Die

SeedSpec == SeedInit /\ [][SeedNext]_seedVars

-----------------------------------------------------------------------------
\* The wipe is never stopped: whatever the database held before, and wherever an
\* earlier run died, no row that stays refers to the rows being deleted.
WipeNeverBlocked ==
    /\ Doing("wipe") => ~Blocked(Main[at].on)
    /\ Doing("fill") => References[Main[at].on] \subseteq filled

\* The seeded tables are sound: when the script is done, every counter is the
\* number of enrolled rows, within capacity, a student has one row per section, and
\* those who wait for a section wait in different places, whichever run died where.
SeededTablesSound ==
    finished =>
       /\ \A s \in SectionsOf :
             LET enrolled == {e \in falls : e.section = s /\ e.status = "ENROLLED"}
             IN  counter[s] = Cardinality(enrolled) /\ counter[s] <= Seats[s]
       /\ \A e, f \in falls :
             e # f /\ e.section = f.section =>
                /\ e.student # f.student
                /\ e.status = "WAITLISTED" /\ f.status = "WAITLISTED" => e.position # f.position

=============================================================================
