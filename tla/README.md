# A verification project for Enroll

Enroll is a course registration system: a NestJS API over PostgreSQL (through
Prisma), Redis (through BullMQ) and MongoDB, and a Next.js web application. This
directory holds TLA+ modules of its core, TLC configurations that check them on
small instances, and proofs that TLAPS checks for every instance. Paths below
are relative to `apps/api/src/` unless they name another directory.

## 1. The system

| Component | State it keeps | Operations | What is hard | Correct when |
| --- | --- | --- | --- | --- |
| Enrollment service (`enrollment/enrollment.service.ts`) | `Enrollment` rows; `Section.enrolledCount` | `enroll`, `drop`, `swap` | concurrent transactions under READ COMMITTED; reads before and after the row lock; two locks in a swap; work after the commit | no section over capacity, the counter equals the rows, one active row per student and section, swaps are atomic |
| Waitlist service (`waitlist/waitlist.service.ts`, `waitlist.processor.ts`) | `waitlistPosition`; promotion jobs | `assignPosition`, `reorder`, `runPromotion`, `sweepPromotable`, `expireClosedWaitlists` | jobs coalesced, lost, retried, exhausted; positions reused; expiry against late commits | seats go to the head of the list, nobody is overtaken, free seats reach waiting students |
| Section administration (`sections/sections.service.ts`) | `capacity`, `waitlistCap` | `update` | capacity lowered while students enroll | never below the students seated |
| Promotion queue (BullMQ) | jobs by id, attempts, kept failures | add, take, complete, fail | an add with a known id is ignored | ids are usable again exactly when their job is forgotten |
| Audit (`audit/`) | `AuditOutbox` rows, Mongo documents, `inFlight` | `recordEvent`, `drain`, `purgeDrainedOutbox` | two databases, one of them optional; partial failures, replays, two drainers | every committed change is recorded once, delivered, and deleted only then |
| Notifications (`notifications/`) | `Notification` rows | `createInTx`, `markRead`, `markAllRead` | written with the change they report | one notice per promotion or expiry |
| Sessions (`auth/`, `apps/web/src/proxy.ts`, `apps/web/src/lib/api/client.ts`) | refresh tokens in families; cookies; flights | `login`, `refresh`, `logout` | rotation and reuse detection without a transaction; two single-flight maps | a token is spent once; at rest the browser holds the one live token of its family |
| Catalog list and page (`courses/`, `apps/web/src/lib/catalog-params.ts`, `apps/web/src/app/catalog/page.tsx`, `pagination.tsx`) | none; the address says what is shown | parse, search, sort, slice, count, redirect, link | the count, the page numbers and the rows come from different sets | following the links shows every match once, and the count is theirs |
| Catalog cache (`common/catalog-cache.service.ts`, `common.module.ts`) | answers by URL | hit, fill, evict | a stale answer stored after an eviction | staleness bounded by the time to live and one request |
| Meeting patterns (`enrollment/time-conflict.ts`, `apps/web/src/app/profile/schedule-grid.tsx`) | none | `hasTimeConflict`, the week of the profile page | times without morning or afternoon, read by two parsers | rows that overlap are refused, and marked |
| Catalog screens (`apps/web/src/app/catalog/`) | search text, its timer, the page on its way; selection, details, preflight | type, pick, link; select, open, submit, close | answers, timers and page loads that end in any order | box, address and list agree at rest; a drawer shows its own course |
| Enrollment screens (`enroll-button.tsx` in `sections-table.tsx`, `enrollment-actions.tsx`) | the label of an answer, `pending`, `syncedFrom` | enroll, drop, refresh | a refresh mounts the button anew while its POST is out; changes elsewhere between an answer and a refresh | the label is the page's, and the page knows of every enroll that was answered |
| Waitlist page (`waitlist-reorder.tsx`, `section-settings.tsx`) | copies of the list and of the limits | move, save, refresh | the copy outlives the list | after a reload the editor holds the list |
| Notifications page and toasts | `readAt`; the stack and its timer | mark read, mark all; push, expire, dismiss, pause | look-up and stamp in two statements | the buttons and the stack come to rest |
| Seed (`apps/api/prisma/seed.ts`) | the whole database | wipe, fill, enroll, patch counters | no transaction, foreign keys, dying halfway | a run always gets through, and leaves counters that equal the rows |
| Health, metrics, error filter, configuration | none that transactions read | | | |

How they interact. A request runs one Prisma transaction; the transaction
serialises on the row lock of each `Section` it changes; audit rows and
notifications are written in the same transaction. After a commit that frees a
seat the request adds a promotion job to the queue, with the section as the
job's id. Workers in every process take jobs and run `runPromotion`; timers in
one process (`SCHEDULERS_ENABLED`) sweep for stuck sections, expire waitlists
after the deadline, drain the outbox and purge what was drained.

The hazards these interactions carry are listed, each at its line, in
`PROJECT.json`.

## 2. Modules

| Module | What it is |
| --- | --- |
| `PromotionQueue` | The BullMQ queue as the code uses it. Its operators are steps of the queue alone. |
| `SeatAllocation` | The abstract promise of seat allocation: no counters, positions, locks, transactions or jobs. |
| `Enrollment` | The transactions of `EnrollmentService`, `WaitlistService` and `SectionsService.update`, extending `PromotionQueue`; its properties; and the refinement of `SeatAllocation`. |
| `EnrollmentProofs` | The inductive invariant of `Enrollment` and the state properties that follow from it. |
| `EnrollmentStepProofs` | From that invariant: the action properties, the audit trail, the notices, the rules for a student who waits for answers, and the refinement. |
| `EnrollmentJobProofs` | From that invariant: the promotion queue, and the order of the row locks. |
| `Views` | What requests read of those tables: a waiting student's place, computed in three ways, behind the guards of the route; a course's page. |
| `TimeConflict` | When two meeting patterns collide, by the API's check and by the profile page's week. |
| `Timetable` | `Enrollment` whose sections have meeting patterns: `Overlap` is what the API's check says of them. |
| `ViewsProofs` | The place that every reader is shown; rows that never meet; the week marks what the API refuses, and nothing else. |
| `MCEnrollment`, `MCContended`, `MCRules` | Values of the function constants for TLC; `MCContended` joins `Views` to the tables, `MCRules` gives `Timetable` its patterns. |
| `AuditTrail` | The abstract promise of the audit pipeline: an event is archived after its commit, once and for good, before its row goes. |
| `AuditOutbox` | The drain and the retention job against crashes and Mongo failures. |
| `AuditOutboxProofs` | Types; no event is lost or duplicated; the refinement of `AuditTrail`. |
| `Sessions` | The session of one browser: `AuthService.login`, `refresh`, `logout` and the purge of tokens, driven by the edge proxy and by tabs. |
| `SessionsProofs` | Types; why a refresh is refused, and what the browser holds at rest. |
| `MCSessions` | The symmetry of `Sessions` for TLC. |
| `CatalogCache` | The cached course list: fills, hits, evictions and a clock. |
| `CourseList` | The course list from the address to the rows and back through the links. |
| `SearchBox`, `CatalogDrawer` | The state of the two halves of the catalog screen. |
| `EnrollButton`, `WaitlistEditor`, `Notices` | The screens that keep a copy of what the API said, and the API's half of the requests they make. |
| `CatalogProofs` | The bound on the cache's staleness; the pages of the list show every match; what the search box, the drawer and the button show at rest. |
| `Seed` | The seed script, statement by statement. |
| `SeedProofs` | The script gets through, and leaves sound tables. |
| `NoValue` | The constant `None`, shared by those. |
| `Parts`, `MCParts` | One specification whose behaviors are those of any one of `CatalogCache`, `CourseList`, `SearchBox`, `CatalogDrawer`, `EnrollButton`, `WaitlistEditor`, `Notices`, `AuditOutbox` and `Seed`, and its instances for TLC. |

### Enrollment: state and steps

`enr` is the `Enrollment` table (`Unused` is an id no INSERT has used yet);
`capacity`, `enrolledCount`, `waitlistCap` are columns of `Section`; `held` are
the students with an unreleased `AdvisorHold`; `audit[i]` and `notices[i]` are
the outbox rows and notifications about row `i`; `lock[s]` is the holder of the
row lock of section `s`; `txn[t]` is what slot `t` is doing. A slot of `Clients`
is a request in flight, a slot of `Workers` a BullMQ worker or a timer. `now` is
a clock of registration phases, compared with `Opens`, `TermOpens` and `Closes`.

A transaction is a sequence of steps, and anything may happen between two:

1. `Begin...`: the unlocked reads and the checks made with them;
2. `AcquireLock`: `SELECT ... FOR UPDATE`, once per section, in id order;
3. `...Check`: the reads and checks under the lock. What is acted on later (a
   counter, a position, a status, a list of rows) is kept in `txn[t]`;
   `...Refuse` and the `ELSE` branches are the early returns;
4. `EnrollSeat`, `EnrollWait`, `Drop`, `Swap`, `Promote`, `Reorder`,
   `UpdateSection`, `Expire`: the commit. Uncommitted writes are invisible to
   others, so all writes appear here, and the locks are released;
5. `Enqueue`: after the commit, where the request still adds a job;
   `CompleteJob`: where BullMQ removes the one that ran.

`Fault` ends a slot at any of these points: a rollback before the commit; a lost
add after it; for a job, another attempt or the dead letters. `drop` reads the
status and writes it in one step because its UPDATE repeats the status in the
WHERE clause.

What is abstracted: eligibility against a student's other sections is read in
one step (in the code several statements; those rows are not locked in either);
prerequisites, overlaps, credits and windows are constants, since no operation
of the API changes them; response bodies, ranks computed on read, metrics and
logs are left out. `WAITLIST_REORDERED` and `SECTION_UPDATED` audit rows have a
section as target and are not part of `audit`, which is per enrollment. A job
that BullMQ retries after its worker stalled counts an attempt, as one that
threw does, and the stalled worker is taken to be dead: BullMQ renews the lock of a
job while its worker lives. Controllers admit only role STUDENT to these routes and the
ownership guard only the row's student, so a request about a row comes from its
owner.

### AuditOutbox: state and steps

`outbox[i]` follows a row from unwritten to deleted, `auditEvents[i]` counts its
documents in Mongo, and `pc`, `batch` hold what each drainer is doing.
`connected` are the drainers whose process has a Mongo database (`isReady`):
`MONGODB_URI` is optional, and without it every tick of `drain` ends before it
reads, rows accumulate in Postgres, and nothing is archived or purged.
`ReadBatch`, `InsertBatch`, `MarkDrained` are the three calls of `drain`;
`InsertFails` keeps an arbitrary part of the batch in Mongo; `Fault` is a refused
mark; `Restart` is the death of a process and the start of another, with Mongo or
without. `Record` is where a transaction of `Enrollment` (whose
`audit` holds the same rows) commits. To `AuditTrail`, an event is committed once
its row is written, kept until the row is deleted, and archived by its document.

### Sessions: state and steps

`row[k]` follows the `RefreshToken` row of `k` and `family[k]` names its family
by the token the login created; `jar` and `access` are the browser's cookies.
`call[c]` is one flight with its call of `/auth/refresh`: of the proxy if `c` is
a token (the key of `inflightRefreshes`), of a tab if `c` is a tab
(`inflightRefresh`). `nav[n]` is a page request on its way through the proxy,
`tab[t]` a tab that was answered 401, `leaving` the token of a logout under way.

`AuthService.refresh` has no transaction, so each statement is a step: `Read`,
then `RevokeFamily` or `Create` and `RevokeOld`; the refusals are the disjuncts
of `Read`. A flight that settled is `"held"` until `ProxyForgets` or
`TabForgets`. The browser changes its cookies when a response arrives
(`NavReceive`, `TabReceives`, `LogoutReceive`), in any order. `CallFails` breaks
a call off after any statement, or loses its reply; `NavAbort` loses a page
response after the flight it joined.

What is assumed: an access token (15 minutes) outlives every flight, so it
expires only when nothing is under way (`Quiet`); a result of the proxy is
retained (10 s) until the page requests that carry its token are answered; the
user logs in when the browser has nothing under way. Answers 429 and 500 are
taken for a refusal, as the code takes them. `TokensLeft` is the bound on
refreshes. `overlapped` and `loggedOut` are history: the properties say what holds
while one refresher at a time works on a family.

### Views, TimeConflict and Timetable

`Views` has no actions: an operator is the answer a request gives from one
committed state. `ComputeRank`, `ComputeRanks` and `ListForSection` are the three
computations of a waiting student's place; `FindOne`, `ListMine` and `GetCourse`
put them into answers, and `GetOne` stands behind `RolesGuard` and
`EnrollmentOwnershipGuard`. `RanksAgree` evaluates all of them in every state of
`Enrollment`. In the code an answer may take several statements, so two of its
fields may come from two states; what a single state guarantees is what is shown.

A meeting pattern is the fields the parsers split it into: days, from, to.
`HasTimeConflict` is the API's reading (the hour as it is written) and
`DaySlots`, `Groups`, `Columns` and `Marked` the profile page's (an hour before 8
is in the afternoon): one turn of its loop over a day's slots is `JoinSlot`, one of
`assignColumns` is `PlaceSlot`. In `Timetable`, `Collisions` is the value of
`Enrollment`'s constant `Overlap`. `sort` leaves slots that start together in the
order of the rows; `DaySlots` is some order by start, and `WeekMarksCollisions` uses
nothing else of it: which columns the slots get may differ, what is marked does not.

### The catalog: CatalogCache, CourseList, SearchBox, CatalogDrawer

`CatalogCache` counts the changes of the numbers shown: `changes[n]` is the time
of the n-th, an answer is how many it includes. A request that misses is three
steps (`Miss`, `Query`, `Answer`), and an edit two (`CapacityEdit`, `Invalidate`).
The store may be unreachable when an answer is stored or an eviction is due.

`CourseList` holds the `address` and the `view` rendered for it; `walked` is
history. `Open` picks any address, sensible or not; `Render` parses it, asks the
API and redirects a page past the end; `Follow` takes a link of `Links`. The
database may return rows in any order that the `ORDER BY` leaves open. `Definite(p)`
says that it leaves nothing open: no two matches of equal relevance, or of equal
title.

`SearchBox` has the box, its 300 ms `timer` with the page of the closure that set
it, and the navigation on its way (`load`, which a later one replaces).
`CatalogDrawer` has the selection, the fetches under way, whose details are
shown, and the preflight over them with its 800 ms timers.

### The screens over the API: EnrollButton, WaitlistEditor, Notices

Each has the screen's state, the server's state it concerns, the request under
way, and the refresh that brings a new page. `Elsewhere...` and `Notify` are
changes by others. An answer may be lost at any point of a request.

In `EnrollButton` the POSTs are numbered, because a button may go while its POST
is out. `SectionsTable` builds its `columns` in its body, so each page that a
refresh brings has other cell functions, which `flexRender` renders as components
of other types: React unmounts the old button and mounts a new one (`Mounted`)
with `done` of the new page and nothing `pending`. That is why `syncedFrom`, which
is for a button that outlives a page, equals the page in every state and is no
variable here. A refresh is two steps, the read on the server (`CourseRead`) and
the page's arrival (`CourseRendered`); `pending` is the POST the mounted button
waits for, and `ResultShown` tells the page of an answer in any case, but the
label only if that button is still there. A POST for a section in which the
student already has an active row is answered with that row. `unread` is history:
others changed the row since the last read.

### Seed

`Main` is the script as a list of statements: `Wiped` tables, filled tables, then
the passes over enrollments, which go row by row through the maps the script
keeps (`enrolledCounts`, `waitlistCounts`). `SeedInit` is any set of non-empty
tables that its foreign keys allow; `Die` stops the process anywhere, and
`StartSeed` begins again under any environment `assertSafeToWipe` lets through.

## 3. Runs

All constants are in the `.cfg` files. The bounds: `Ids` are the rows there can
ever be, `MaxNow` bounds the clock, `MaxFaults` the faults, `Clients` and
`Workers` the transactions at a time, `Requests` the operations clients call. In
`MCParts`, every `Max...` bounds the events of that name.

| Run | Shows | Why the bounds suffice |
| --- | --- | --- |
| `MCContended` | types, counter, capacity, stable reads, distinct positions, ranks that agree for every reader, nobody overtaken by a newcomer or skipped by a promotion | one section, full from the first step because a resident keeps its seat; three more students are enough for one to leave the list and join it behind another, the least for which a position could repeat; two requests and a worker give every pair of racing operations with a third transaction |
| `MCFaults` | the audit trail replays to the current status, one notice per system action, rows never change hands, a promotion has its job to itself, job ids and kept failures agree, the abstract promise, all with waitlists expiring | two workers run jobs of both sections, ask for a job that runs, and expire one waitlist at the same time; four faults hit both attempts of two jobs, and one kept failure of two makes the queue evict the other; three rows let a student return |
| `MCSwap` | no circular wait, atomic swaps, the promise over two sections, one active row where only the unique index guards it | two sections and two clients swap in opposite directions; the sections are of one course, where a swap skips the duplicate check, and a second seat in one of them lets a student hold both |
| `MCRules` | course, schedule and credit rules when a student's requests come one at a time; holds and windows; the week marks what the rules refuse | four sections include a pair of one course, a pair that overlaps on some of its days and a pair that touches; the cap admits two of them; every timetable of up to three of fourteen patterns (the sections', the seed's, and longer ones), three being the fewest for which a group needs its latest end |
| `MCLiveness` | seats reach the waitlist; transactions end; waitlists are emptied for good | one fault, two attempts: the job survives; three rows, so that a seat is freed, and its add ignored, while a job runs; the deadline passes at any step of a request, and the expiry may fail once |
| `MCSessions` | a refresh is refused only for a reason (the session ended, something was lost, two refreshers overlapped); at rest the browser holds the one live token of its family | three tokens are two rotations, so a response of the first can arrive after the second; two page requests share or miss a flight; with four tokens the properties hold as well (4.8 million states) |
| `MCParts` | bounded staleness; pages that show every match; box and list agree; the drawer's own course; what the enroll button tells; audit events that are not lost, arrive where a drainer has a Mongo from some time on, and the promise of `AuditTrail` (nothing duplicated, taken back or archived without a commit); a seed that is never blocked and leaves sound tables; screens that settle | cache: two readers of one URL, two changes, a time to live longer than a read; list: four courses, a window of three and pages of one or two, so a search is broader than the window; box: four inputs, two to race and two to answer; drawer: three courses, so that an answer two selections old can arrive; button: five clicks, refreshes and changes elsewhere, so that a POST crosses a refresh, a second one is sent beside it, and both are answered; audit: three rows against a batch of two, two drainers that overlap, three faults or restarts; seed: three students for two sections, one with room for one, and one death |

Deadlock is checked in `MCContended`, `MCSwap` and `MCRules`. In the others the
system really comes to rest: registration over, every event drained and purged,
every token used, every student gone from the screen. The safety runs of
`Enrollment` use symmetry over ids, students and slots: no constant of theirs
tells two apart except `Holdable`, which contains every student, and the resident
of `MCContended`, who is left out of the symmetry. `ResidentStays` there keeps the
resident's requests first and gives the resident one row: it leaves out behaviors
in which the first seat goes round as well (the invariants and the order of the
waitlist are proved without it, and `MCFaults` and `MCSwap` have no such
constraint). `MCSessions` uses symmetry over
tokens, tabs and page requests. Symmetry is not sound for liveness; `MCLiveness`
lets INSERTs use the ids in order instead (`IdsInOrder`). A step left out differs
from one that is kept in the name of a new row only, and nothing in the module
depends on that name.

### Runs that find a disagreement

| Run | The documentation says | The code does |
| --- | --- | --- |
| `MCExhausted` | the sweep recovers a job that exhausted its retries (`waitlist.service.ts:233-235`) | the failed job keeps the section's job id, and the sweep's add is ignored |
| `MCTwoSections` | one student cannot hold two sections of one course (`README.md:390-391`) | two concurrent enrolls lock different sections and both pass |
| `MCTwoRefreshers` | each token is spent exactly once (`apps/web/src/proxy.ts:11-13`), the tab's single flight mirroring the proxy's (`apps/web/src/lib/api/client.ts:28`) | neither knows the other's flights: a page request and a tab spend one cookie, and the API revokes the family |
| `MCTwoReplicas` | two replicas that both expire a waitlist give every student two notices (`waitlist.service.ts:370-371`) | the rows are read again under the section's lock (`waitlist.service.ts:389-399`): the second replica finds none, and each student is told once |
| `MCStaleEditor` | "Reload and try again" (`waitlist.service.ts:161`), with a button "Refresh" (`waitlist-reorder.tsx:128-130`) | the refreshed page keeps the mounted editor, whose copy is taken once (`waitlist-reorder.tsx:24`): the next save is refused again |

In `MCTwoReplicas` it is the comment that is wrong, and the code does better than it
says; the gate still saves a needless pass over the waitlists.

The interleaving of `MCTwoSections` breaks the credit limit (`README.md:361-362`)
and the schedule rule in the same way; `MCRules` shows that all three hold when
the requests of one student do not overlap, and `CourseRuleCorrect`,
`ScheduleCorrect` and `CreditCapCorrect` prove it. Two more statements are
contradicted by plain reading: `README.md:392` says that a hold is checked before a drop, and
`drop` does not look; `prisma/schema.prisma:180` says of positions "Never
renumbered, just freed", and `reorder` renumbers them (`waitlist.service.ts:165-172`).

### Behaviours the modules have and no property forbids

A reader who changes the code should know these; each is in a module.

- A free seat goes to whoever asks first, also while students wait for the
  promotion that a drop enqueued (README rule 11; `SeatAllocation`).
- Before a term's own `registrationOpens` nothing sweeps (`Enrollment`).
- `SearchBox`: a timer set on an older page undoes a filter that was picked since;
  picking a filter or a link while a search is on its way drops that search, and
  the box keeps its text; a page that arrives replaces newer typing (`undone`
  marks the first two, and `BoxFollowsPage` excepts them).
- `CatalogDrawer`: the details of the course before stay under the new header
  until the new ones arrive; a preflight opened on them stops the page (`detail!`)
  if the new fetch fails; an 800 ms timer closes a preflight opened after the one
  that set it. Its submission is simulated and its limit of 18 credits is fixed.
- `EnrollButton`: a refresh while a POST is out enables the button again, so a second
  POST may be sent (it is answered with the row of the first, or makes the row that
  was lost); the answer of the first is a toast and a refresh, its label is not
  shown; changes made elsewhere since the page was read are not known to it. "Leave
  waitlist" drops the seat if the promotion came first; "Working" lasts until the
  refresh.
- `WaitlistEditor`: `SectionSettings` sends both limits, so a capacity changed
  elsewhere is put back by whoever edits the waitlist cap.
- `Notices`: `markRead` may stamp a time twice; `markAllRead` marks rows the page
  has not shown; the stack of toasts may stay paused after a cross was pressed.
- `CourseList`: the order within ties is the database's, page by page, so pages
  may repeat a row there; a search is counted whole, but pages after the window
  are empty; a search ignores `sortBy`.
- `Seed`: a death before the counters leaves them at zero until it is run again;
  self-drops leave free seats beside waiting students, and its rows obey no course
  or schedule rule.
- `Sessions`: where two refreshers overlap, both may rotate one token, which leaves two
  live tokens; a rotation that was past its read survives the revocation of its
  family; after a crash or a lost reply the browser may hold a token that is not the
  last of its family. `RefusedOnlyAfterOverlap` and `JarHoldsTheLiveToken` except such
  families: they say that nothing else goes wrong, and that it goes wrong in no other
  way.
- A class that crosses 12:59, or one that begins before 8:00 and ends after it,
  means different things to the API's check and to the week: `GridShowsCollisions`
  is about patterns that both read alike.

## 4. Fairness

`Fairness` gives each transaction weak fairness on its own steps (the process
runs, the statements return), and strong fairness on taking a lock (PostgreSQL
serves the waiters of a row in turn, so a lock that is free again and again is
obtained). Jobs and expiries have strong fairness per section, over all workers:
the queue is first in first out and the hourly timer returns to every overdue
section, but a worker may be busy at any moment. The sweep is weakly fair: its
timer fires every five minutes. Nothing is assumed of clients: nobody has to
enroll, drop or edit. Faults are finitely many. `AuditOutbox` assumes that the
interval of a drainer keeps firing and its calls return (`OutboxFairness`); that a
Mongo is there is not assumed: `EverythingDrained` promises delivery if some drainer
has one from some time on.

On the screens, timers of the browser fire, a request is answered or fails, and
the router finishes the navigation or refresh it began: `BoxFairness`,
`DrawerFairness`, `EditorFairness`, `ButtonFairness`, `NoticesFairness`, all weak.
Nothing is assumed of the student or the administrator, who need not press
anything, of the course list, or of the seed, which somebody starts by hand.

## 5. Proofs

Every theorem is about the specification as it stands, for all values of its
constants that its assumptions allow. The assumptions are in the modules that
declare the constants:

- `Enrollment`, `PromotionQueue`: the constants have their types (section ids and
  capacities are numbers), clients and workers are different slots, null is none of
  the values, `Attempts` and `KeepFailed` are positive.
- `AuditOutbox`: rows are finitely many numbers, and a batch has one at least.
- `Sessions`: tabs are no tokens, and null is neither.
- `CatalogCache`: the time to live is positive (`config/env.ts:83`).
- `CourseList`: the catalog is finite, titles have places and relevance is a number,
  page sizes are positive; null and nonsense are no numbers, and null is none of what
  may be typed.
- `Timetable`: `Overlap` is `Collisions`; nothing of the patterns.
- `SearchBox`, `CatalogDrawer`: the empty text is a text; null is no page and no
  course.
- `Seed`: capacities are numbers, and the hot sections are sections.

The sets of sections, students, ids, slots, readers and texts, and the drawer's courses, may
be of any size, infinite too: that only finitely many rows are in use at a time is part
of the invariants.

### Enrollment: the state

`EnrollmentProofs` proves `Spec => []IInv`. None of the safety properties is
inductive alone. `IInv` joins

- `TypeOK`;
- `TablesInv`: finitely many used rows, the counter equals the rows, the counter
  is within capacity, positions exist exactly on waiting rows and are distinct,
  one active row per student and section;
- per transaction, `MatchesItsRow` (the student and section it works on are
  those of its row), `HoldsItsLocks` and `ReadsTrue`.

`ReadsTrue` is the heart: a commit preserves the tables only if what was read
under the lock is still so, and it is still so because another transaction that
could change it would hold the same lock. (For a swap this includes that its
source still has the status read, and that the target still has the free seat.)
The proof has one lemma per action; `QuietStep`, `FinishStep`, `BeginStep` and
`GoToStep` share the part that concerns the transactions that do not move, and
`Preserves(t)` states what a commit owes to them.

| Theorem | Property |
| --- | --- |
| `TypeCorrect` | `TypeOK` |
| `CounterCorrect` | `CounterMatchesRows` |
| `CapacityRespected` | `NeverOverCapacity` |
| `OneActiveRowCorrect` | `OneActiveRow` |
| `WaitlistCorrect` | `WaitlistOrdered` |
| `ReadsCorrect` | `ReadsStayTrue` |

The CHECK constraint of the database (0 to capacity) is not in the model: the
theorems show that it is never what keeps the counter in range.

### Enrollment: the steps

`EnrollmentStepProofs` says first what each commit does to the rows (`Inserted`,
`ClosedIn`, `Swapped`, `Promoted`, `Reordered`), whoever commits; every other step leaves the
rows alone. Each argument then goes over those effects.

| Theorem | Property | Besides `IInv` |
| --- | --- | --- |
| `IdentityKept` | `RowsKeepIdentity` | |
| `NobodyOvertakes` | `NoOvertaking` | an insert goes behind every position of its section |
| `HeadsGoFirst` | `PromotionInOrder` | what `runPromotion` read is a prefix of the list |
| `SwapAllOrNothing` | `SwapAtomic` | |
| `AuditCorrect` | `AuditExplainsStatus` | `AuditInv`: a row without events is unused and no swap made it; with a swap among them, exactly one row was made by it |
| `NoticesCorrect` | `NoticesMatchAudit` | `Told(i)`: some increasing function numbers the notices by the events they are about; an append to both extends it |
| `CourseRuleCorrect` | `OneSectionPerCourse`, when `[]OneAtATime` | `RulesInv`: what the eligibility checks found still fits when the commit comes |
| `ScheduleCorrect` | no two active rows overlap, when `[]OneAtATime` | the same |
| `CreditCapCorrect` | `WithinCreditCap`, when `[]OneAtATime` | the same: the cost of the rows the check counted can only have fallen |
| `PromiseKept` | `ImplementsPromise`: the refinement of `SeatAllocation` | |

`OneAtATime` is a hypothesis about clients: no student has two enrolls or swaps
under way. The API does not enforce it, and `MCTwoSections` shows what happens
without it; the eligibility checks read rows whose locks the request does not
hold, and only the student's own requests add such rows. `ScheduleCorrect` is
proved for any relation `Overlap`; `ViewsProofs` takes it to meeting patterns.

The credits of a set of rows are a fold (`MapThenSumSet`), about which the library
has no theorem. What is needed (the sum exists, depends on nothing but the weights of
its rows, grows with the set, and can be taken in any order: `SumsExist`,
`SumsAgree`, `SumsGrow`, `SumsAdd`) is proved without an induction theorem: were a
statement false of some subset of a finite set, it would be false of a smallest one
(`SmallestSet`, from the well-foundedness of strict inclusion), and that one
without its chosen element contradicts it. `SpentLess` and `SpentMore` say what
fewer rows and one row more cost.

The refinement maps a section's seats and line to its ENROLLED and WAITLISTED
rows, who is ahead of whom to the positions, and a closed place to a DROPPED row.
Seven lemmas (`SeatTaken`, `QueueJoined`, `SeatsGivenUp`, `SeatMoved`, `HeadSeated`,
`QueueRearranged`, `RoomResized`) say that the effect of a commit is an action of
`SeatAllocation`; a free seat by the counter is a free seat there because the
counter equals the rows; the head of the list by position is the head there
because positions are distinct.

`EnrollmentJobProofs`:

| Theorem | Property | Besides `IInv` |
| --- | --- | --- |
| `QueueCorrect` | `JobsConsistent` | `JobInv`: a transaction that promotes ends with its job, it never enqueues; what each operation of the queue keeps is a lemma (`AddKeepsQueue` to `FailAttemptKeepsQueue`) |
| `DeadlockFreeCorrect` | `DeadlockFree` | `LockInv`: while a transaction takes locks, those it holds have smaller ids than those it lacks; finitely many are held, so that in a set of waiting transactions the one that waits for the largest waits for nobody in it |

### The readers, the meeting times and the week

`ViewsProofs` sees the rows from outside:

| Theorem | Property | From |
| --- | --- | --- |
| `RanksCorrect` | `RanksAgree` | `IInv`: positions are distinct, so a row's place in the list sorted by position is the number of waiting rows up to it (`CountIsPlace`) and its `row_number` (`NumberIsPlace`); the guards let its readers pass (`ReadersSeePlace`) and refuse the others (`OthersAreRefused`) |
| `MeetingTimesCorrect` | `NoOverlappingRows`, when `[]OneAtATime` | `ScheduleCorrect`; patterns that meet in one minute of the week are a conflict to `HasTimeConflict`, either way round (`MeetingCollides`, `ConflictIsMutual`) |
| `WeekMarksCollisions` | what `GridShowsCollisions` asks of three rows, of any number | each group is a stretch of the day's slots, chained by overlaps and apart from the rest (`DayIsGrouped`), and such a stretch needs a second column exactly when two of its slots overlap (`ColumnsOfGroup`, `SeveralColumns`) |
| `GridCorrect` | `GridShowsCollisions` | `WeekMarksCollisions` |

A slot joins a group because it starts before the latest end in it, so it overlaps
the slot with that end, and the first of several is overlapped by the second: every
row of a group with two columns has one of its own to collide with.

`Columns`, `Groups`, `ORDER BY` and `FlattenSeq` (below) recurse over a sequence, and
the induction theorems of the library cannot be used here. Their arguments are
by the least counterexample instead: were a statement false of some prefix, it would
be false of a shortest one (`LeastExists`), which contradicts the one before it.
That the recursive function exists at all is proved the same way (`ColumnsExist`,
`GroupsExist`, `FlatExists`), that a finite set can be sorted by `SmallestSet`
(`SortExists`).

### The other parts

| Theorem | Property | Inductive invariant |
| --- | --- | --- |
| `AuditOutboxProofs.TypeCorrect`, `NothingLostCorrect`, `NoDuplicatesCorrect` | `OutboxTypeOK`, `NothingLost`, `NoDuplicates` | what a drainer knows of the batch in its hands: its rows are committed, and past the insert they have a document |
| `AuditOutboxProofs.TrailKept` | `ImplementsTrail`: the refinement of `AuditTrail` | the same: an insert, whole or partial, archives those of its rows that had no document; what the retention job deletes had one; every other step is a stutter |
| `SessionsProofs.TypeCorrect` | `TypeOK` | `Shape`: what rows, flights, page requests and the cookie say of one another |
| `SessionsProofs.RefusalCorrect`, `JarCorrect` | `RefusedOnlyAfterOverlap`, `JarHoldsTheLiveToken` | `Shape`, and for some family `f`: all that is under way is of `f`, since a login waits until nothing is; and if `f` had no overlap and nothing was lost, it has one flight, the cookie is that flight's token or the one it created, and a spent token stays in the cookie only while its replacement is on its way |
| `CatalogProofs.StalenessIsBounded` | `StalenessBounded` | `CacheInv`: of every read and entry, when its numbers were current |
| `CatalogProofs.PagesCorrect` | `PagesShowEveryMatch` | `ListInv`: each page of the walk is an answer to the request for that page of the view in the address, whatever page the address asks for |
| `CatalogProofs.BoxCorrect` | `BoxFollowsPage` | `BoxInv`: box and page agree unless a timer or another search is to come |
| `CatalogProofs.DrawerCorrect` | `DrawerShowsSelected` | `DrawerInv`: a fetch that still counts is of the course selected |
| `CatalogProofs.ButtonCorrect` | `ButtonTellsStanding` | `ButtonInv`: the label is the page's, or a refresh is outstanding; the page on its way, or the one shown, tells the standing, unless a refresh was asked for, others changed the row, or a POST that enrolled is not over |
| `SeedProofs.WipeCorrect` | `WipeNeverBlocked` | `TablesInv`: what the run has wiped is empty until it fills, what it has filled stays; the tables that refer to one are wiped before it, those it refers to are filled before it |
| `SeedProofs.SeedCorrect` | `SeededTablesSound` | `SeedInv`: from the wipe of the enrollments on, the script's maps describe its rows (`Sound`); earlier, a run on what a dead one left may hold anything |

`PagesCorrect` needs no more than `ListInv` of the states; the rest is about the
answers. An address that the page writes is parsed to the parameters it was written
from (`ParametersSurvive`), so every link and the redirect stay in one view. The
candidates of a search are the first of an order of all matches (`FirstRows`,
`PageIsSlice`), page `n` is their slice (`RowsOfPage`), and the slices of all pages
have as many rows as there are candidates (`FlattenRows`, `PagesReach`). When the
order asked for is definite there is only one (`OneOrder`, by the least place at
which two would differ), and the pages put together are its beginning
(`WalkShows`).

### Model-checked only

- Liveness (`MCLiveness`, `EverythingDrained`, `ScreensSettle`) and what is said
  with ENABLED: out of the prover's reach.
- The properties of the runs that find a disagreement: they are false.

Every other property of a run is stated by a theorem. `MCContended` and `MCFaults`
have no swap requests (`MCSwap` has): that the counter and the audit trail survive
swaps is proved (`CounterCorrect`, `AuditCorrect`) and not model-checked.

## 6. Plan

What is left is proof:

1. Invariants of `WaitlistEditor` and `Notices` that their liveness rests on: what
   a save that is refused leaves, what a paused stack holds.
2. Action properties of the screens (an answer never changes what another screen
   shows) and of `Sessions` (a revoked token never lives again).

## 7. Not modelled

- Health probes, metrics, the error filter and the validation of the environment:
  they keep no state that anything else reads.
- `JwtAuthGuard`, the throttler and the guards of routes other than
  `GET /enrollments/:id`: the modules take their result, a caller with a role.
- Migration mechanics, and the rows the seed makes apart from fall enrollments;
  the audit outbox, which the seed does not wipe; an API that serves requests
  during the seed.
- Pages that only render what the API answered (navigation, profile, tables), and
  what the modelled screens only display.
- Search itself: which course matches how well is the constant `Relevance`.
- Type declarations shared by both applications, and the load generators.

## Running

    tlc -config MCContended.cfg MCContended.tla
    tlc -config MCFaults.cfg MCEnrollment.tla
    tlc -config MCRules.cfg MCRules.tla
    tlc -config MCSessions.cfg MCSessions.tla
    tlc -config MCParts.cfg MCParts.tla
    tlc -config MCStaleEditor.cfg WaitlistEditor.tla
    tlapm EnrollmentProofs.tla

and `tlapm` for `EnrollmentStepProofs`, `EnrollmentJobProofs`, `AuditOutboxProofs`,
`SessionsProofs`, `CatalogProofs`, `ViewsProofs` and `SeedProofs`.
`MCSwap.cfg`, `MCLiveness.cfg`, `MCExhausted.cfg`, `MCTwoSections.cfg` and
`MCTwoReplicas.cfg` belong to `MCEnrollment`, `MCTwoRefreshers.cfg` to `MCSessions`.
`MCContended` and `MCFaults` take about three minutes each, every other run less.
