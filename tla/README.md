# TLA+ models of the school management backend

`src/backend` is a multi-tenant service for schools: FastAPI handlers over
SQLAlchemy and PostgreSQL, a nightly maintenance command and a few workers.
This directory holds models of it, the instances that TLC checks and the proofs
that TLAPS checks. Paths below are relative to `src/backend/app/`; `fees/`,
`auth/` and so on stand for `modules/fees/`, `modules/auth/`.

1. [The system](#1-the-system)
2. [Plan](#2-plan)
3. [What is modelled](#3-what-is-modelled)
4. [What the runs check](#4-what-the-runs-check)
5. [What is proved](#5-what-is-proved)
6. [Where code and documentation disagree](#6-where-code-and-documentation-disagree)
7. [Not modelled](#7-not-modelled)

To repeat a check, in this directory:

    tlc -workers 2 -config MCFeeLedger_consolidation.cfg MCFeeLedger.tla
    tlapm FeeLedgerProofs.tla

A configuration is named after the module it is for. A module `MC...` stands
between them where an instance needs definitions that a configuration cannot
write (sequences, negative numbers, symmetry).

## 1. The system

Every request runs in one database transaction (`get_db`, `db/session.py:216-234`):
committed when the handler returns, rolled back when it raises. The isolation
level is PostgreSQL's default, READ COMMITTED, so two requests see each other's
work as soon as it commits, in the middle of their own. Sessions do not flush by
themselves and keep what they have loaded (`autoflush=False`,
`expire_on_commit=False`). Almost no handler locks what it reads; what keeps
concurrent requests apart is a few unique indexes, the row lock an UPDATE takes,
and some explicit `FOR UPDATE`s. Background work uses `session_scope`, again one
transaction per unit of work. This is where nearly all the hard behaviour of the
system comes from, and it is what an ordinary test, which awaits one request
after another, never sees.

### Components

For each: its state, its operations, and what makes it correct.

| Component | State | Operations | Correct when |
|---|---|---|---|
| **Challans, receipts and ledger** (`fees/service.py`, `repository.py`) | `fee_vouchers` with their lines and the reservation `superseded_by`; `fee_payments`; `student_ledger_entries`, append only, with a running `balance_after` | generate (with or without carrying old dues), issue, void, edit a draft's lines, pay, reverse, adjust, reconcile | the ledger weighs what challans and receipts say; no debt is lost or billed twice when challans absorb one another; an issued bill never changes; nothing cancelled holds money |
| **Late fees** (`fees/service.py:2051-2273`, `fees/jobs.py`) | one active policy per year; fines, which are challans with `source_voucher_id` | set and retire the policy; the pass, nightly or by hand | never more fines, nor more money, than the rule allows, however often the pass runs; everybody it applies to is fined in the end |
| **Price list** (`fees/service.py:230-700, 1928-2046, 2855-3037`) | fee heads, stationery articles, a structure per class and year, the arrangements in which a student departs from it, concessions | create, price, arrange, archive, delete; compute the lines of a draft | what a draft bills is the class's price with the student's own changes and discounts, and never below zero; nothing in use is deleted |
| **Billing schedule** (`fees/service.py:2294-2547`) | billing day, bookmark of the last period generated | the monthly run, and "run now" | every class is billed once a month |
| **Nightly maintenance** (`cli.py:1016-1097`) | none; a walk over the organizations | subscription lifecycle, retention, purge, invitations, challans, notices, fines, in this order | every organization gets every step every night |
| **Sessions and sign-in** (`auth/`, `core/totp.py`) | refresh tokens in families, failed-login counters and lockouts, reset tokens | login, refresh (rotate), logout, reset | one live token per family; a token used twice ends its family; guesses are counted |
| **Guardian sign-in** (`guardians/auth_service.py`, `core/otp.py`) | one-time codes with attempts | request, verify | a code is used once and guessed a few times at most |
| **Rate limits** (`core/rate_limit.py`) | counters in Redis, or in memory without it | count, expire | no more than the limit in a window, and a window ends |
| **Subscription billing** (`billing/`) | subscription, invoices, webhook events, idempotency keys, trial dates | plan changes, gateway webhooks, expiry, trial retention | a retry changes the plan once; an ended subscription is closed; a trial that has been paid for is not deleted |
| **WhatsApp outbox** (`whatsapp/`) | messages with status and attempts, groups with their link | queue, claim, send, retry, cancel, relink | each message goes out where it was queued for, and not twice where that can be avoided |
| **Paper and book workers** (`papers/jobs.py`, `books/jobs.py`) | rows that double as a queue: a claim stamp and attempts; external batches | claim, work, park, finish, take over a stale claim | the result of the claim that stands is kept; no job is stuck |
| **Attendance registers** (`attendance/service.py`) | a register per section and day with marks | open, mark, submit, amend, reopen, discard | what is submitted is what the marks say, and is changed by amendment only |
| **Conversation agents** (`attendance_agent/`, `diary_agent/`) | drafts per chat | a message at a time | a draft is confirmed once, as last shown |
| **Academic years, enrollment** (`academics/`, `students/`) | years and terms, enrollments per student and year | make current, enrol, transfer, promote a class | one current year; one active enrollment per student and year |
| **Organizations, roles, invitations** (`tenancy/`, `rbac/`, `invitations/`) | memberships, roles, cached permission sets, invitations with tokens, staff seats | grant, revoke, transfer ownership, invite, accept | an organization never loses its last principal; seats are what members and invitations hold; a revoked permission is gone at once |
| **Guardians, exams, search, dashboards, platform administration, audit** | rows edited one at a time, or none | CRUD and reports | no protocol of their own |

### How they interact

- Fees, late fees and the schedule share `fee_vouchers`: the schedule calls
  `generate_vouchers`, the late-fee pass reads what is overdue and mints challans
  that later consolidating challans absorb like any other. The price list is read
  when a draft is made and copied into its lines.
- Every change of a challan appends to the student's ledger in the same
  transaction, under a lock on the student's row (`repository.py:1150`).
- Maintenance calls billing, retention, invitations, fees and WhatsApp in
  sequence in one transaction per organization: one step that raises undoes the
  steps before it for this organization and ends the walk for the ones after it.
- WhatsApp notices are queued in the transaction that causes them and sent by
  another process. Registers that are submitted queue alerts in the same way.
- Papers are written from the text of chapters: a chapter whose files change is
  no longer readable, and a paper that needs it fails.
- The conversation agents write the same registers as the web application, at the
  same time.
- A subscription gives staff seats and write access; invitations hold seats.
- Roles decide what every handler may do, through a permission cache.

### What is hard here

- **Consolidation.** A draft with carried dues *reserves* the family's unpaid
  challans when it is made and *cancels* them when it is issued, days later.
  Anything may have happened to them in between: a payment, a void, the end of
  the draft, an edit of the carried line.
- **Concurrent requests.** Two counters, a double click, a void while a payment
  is on its way: state is read, an `await` later it is used, and only some
  statements lock.
- **Passes that run again.** Cron, an impatient operator and a crash all run the
  nightly passes again; what a pass did is recognised by what it left behind.
- **Batches and bookmarks.** A pass takes a limited number; a schedule remembers
  only the last period.
- **Workers that die or look dead.** A claim is taken over while its holder may
  still be at work, and the two come back in either order.
- **The outside.** A post whose answer is lost, a webhook delivered again or
  late, a batch answered hours later, a teacher's message delivered twice.
- **Boundaries.** Grace, due day, interval, ceiling; a total of zero; a full
  settlement; a column's width.

PROJECT.json lists the hazards at their lines, with the properties that cover
them and, for those no property covers, the reason.

## 2. Plan

| # | Module | What it is about | Status |
|---|---|---|---|
| 1 | `FeeLedger`, abstract `FamilyAccount` | fees, one transaction at a time | checked, every safety property and the refinement proved |
| 2 | `FeeRaces` | the same handlers statement by statement, several requests at once | checked, all three invariants proved |
| 3 | `LateFees` | policy, passes and what happens between them | checked, both invariants proved |
| 4 | `PriceList` | what a class is billed, and what may be deleted | checked, both invariants proved |
| 5 | `MonthlyBilling` | the schedule, the nightly walk and the office beside it | checked, invariant and action property proved |
| 6 | `BookChapters`, abstract `ClaimedWork` | claims, stale claims, batches and crashes of the book worker | checked, refinement and invariant proved |
| 7 | `TestPapers` over `PaperPlan`, abstract `ClaimedWork` | the paper worker, the office's edits, the choice of questions | checked, invariant and refinement proved |
| 8 | `Sessions` | rotation, reuse, lockout, one-time codes | checked, invariant proved |
| 9 | `Outbox` | queueing, sending and cancelling messages, with crashes | checked, all three invariants proved |
| 10 | `Registers`, composed with `TeacherChat` | the register from the web and from the chat at once | checked, invariant and both action properties proved |
| 11 | `Subscriptions` | plans, webhooks, the nightly lifecycle, deletion of trials | checked, all safety properties proved |
| 12 | `Staff` | seats, principals, permission cache | checked, all three invariants proved |

Left, in this order:

1. Properties over modules that exist: what a consolidating draft bills twice when
   a payment lands on a challan it is absorbing (`FeeRaces`), a fine raised on a
   fine that was carried onto a regular challan, and a label that collides
   (`LateFees`).
2. `Enrollment`: current year, promotion and transfer of a class.
3. The nightly walk with all its steps in one module.

## 3. What is modelled

### `FeeLedger`: one transaction at a time

| Variable | Table |
|---|---|
| `row` | `fee_vouchers`: status, student, period, origin, the three groups of lines, the arrears figure, `paid_total`, `superseded_by`, whether the due date has passed |
| `payments` | `fee_payments` |
| `received` | no table: per challan, what its standing receipts add up to, `effective_total` |
| `ledger`, `movement`, `adjusted` | `student_ledger_entries`, by challan and type, by receipt and type, and those with neither |

Each action is a handler with everything it calls: `GenerateVouchers` bills a
set of students at once, as drafts or issued; `IssueVoucher` settles what the
draft reserves (absorbs it, or releases what was paid and reprices the carried
line), charges the ledger; `VoidVoucher` cancels, lets go of reservations and
credits; the four line edits; `RecordPayment`, `ReversePayment`;
`ApplyLateFees`, which here fines any set of overdue challans, because *which*
is the subject of `LateFees`; `AdjustLedger`; and `DueDatePasses` for the
calendar. Amounts are whole numbers with the column's width as `MaxAmount`: a
wider subtotal, arrears or total fails the request (`Fits`).

A ledger entry is kept by its type and what it points at rather than as a list,
since nothing in the module reads the order; the order is the subject of
`FeeRaces`.

`EditsCarriedLine` says whether the office retypes or removes a carried line.
The code lets it, and `MCFeeLedger_carried_edit.cfg` shows what follows; the
`consolidation` run looks at an office that does not, so that one divergence does
not hide the rest.
The theorems about the books and the rules hold for either value; those about the
account assume that it is FALSE (section 5).

### `FamilyAccount`: what a family is promised

Three figures per family: billed, received, forgiven. `Bill` may charge any set
of families but forgives nothing and receives nothing; `Receive` takes at most
what is owed; `Refund` gives a receipt back; `Forgive` is one decision about one
family. `FeeLedger` implements it under `KeepsAccount`: *billed* is the
own lines of every challan ever debited, *received* the standing receipts,
*forgiven* what is missing between the two and the ledger. That a billing run
which cancels three challans, releases a fourth and reprices a line maps to
`Bill` is exactly "no debt is lost and none is billed twice".

### `FeeRaces`: statement by statement

One family, a fixed list of requests (`Job`), each a small program with a
program counter: `record_payment`, `reverse_payment`, `void_voucher`,
`issue_voucher` with the voids nested in it. `voucher`, `receipt`, `entries` and
`balance` are what is committed; `tx[r]` is what request `r`'s session holds:
the rows it has loaded (`seen`), the locks it has, the receipt and entries it
will commit.

- A statement reads the committed rows plus the request's own writes
  (`Current`); an object once loaded is not read again (`Loaded`).
- An UPDATE names the columns that differ from what was loaded, waits for the
  row's lock and keeps it, and is followed by a refresh of the row (`Update`).
  An UPDATE that changes nothing is no statement at all and takes no lock.
- A receipt number is `COUNT + 1` and unique: two payments of a year compete for
  it, the second waits for the first and then fails (`PayNumbers`,
  `PayInserts`). This unnamed lock is what keeps two payments apart.
- An entry of the ledger locks the student's row, then takes the sum
  (`Appends`).
- `DeadlockAborts` is the detector of PostgreSQL: it ends one request of a
  cycle. PostgreSQL and the identity map of SQLAlchemy are the external part of
  this model, taken from how the code uses them.

### `LateFees`: policy and passes

`policies` is every rule set so far (the last one is active), `bill` the regular
challans, `fine[b]` the fines of challan `b`, oldest first. `ApplyLateFees` is a
whole pass: the oldest overdue challans up to the batch limit, each fined once
if it has fewer fines than its elapsed intervals, owes enough and has room under
the ceiling; a percentage is rounded half up. A fine's label is the period's
plus `" late fee"` and a number, cut at forty characters, and must not be that
of a live challan of the family: if it is, the whole pass is rolled back
(`Collides`). Between passes, days go by, rules are revised and retired, bills
are issued with and without consolidation, paid, returned and voided, fines
paid, returned and waived. `quiet` remembers that nothing else has happened
since a pass of the same day that covered everything.

### `PriceList`: what a class is billed

`status` of heads, articles and concessions, `rate` of a concession, the
`structure` with the price of each head, `arranged` per student and head (added,
dropped, overridden, or discounted by a sum, a percentage or a concession), `names`
for the heads that the late-fee policy and the schedule name, and each student's
newest `challan`. Operations that read a guard with one statement and write with a
later one (`delete_head`, the deletion of an article or of a concession, pricing,
arranging, naming, archiving, billing) are a `Begins...` action and the action that
writes; `raced` remembers that a guard no longer held when its request wrote. The
others are one action. `EffectiveLines` is `_effective_lines` with `_discount_for`:
the class's lines, less the dropped ones, at the overriding price, plus the added
ones, with a discount rounded half up and clamped to the gross. A billing run reads the
lines of every student it is about to bill (`BeginsBill`) and writes all challans in
one transaction (`BillsClass`): if the table refuses one line (`Accepted`: its check, and
one line for each head or article of a challan) or one student was billed meanwhile, the
run can only fail (`Fails`), and nobody of the class is billed. `Billed` has no carried
line; that is `FeeLedger`'s.

### `MonthlyBilling`: whole campuses with nobody watching

`schedule[o][y]` is the billing schedule of an organization's year with its
`bookmark`; `structure`, `place` and `billed` are the classes, the placement of
students and the challans of each month; `run[p]` is what a process has read and not
committed. A process is a maintenance pass, which opens one organization after the
other, each a transaction (`Opens`, `Reads`, `Inserts`, `Commits`, `WalkEnds`), or
an office that clicks "run now" or generates one class by hand. A challan number is
`COUNT + 1` under a unique index, so a second run of a campus waits for the first
(`Holds`) and fails when that one commits (`Clashes`). A class is refused when it
has no lines, no head for its dues, or more students than a batch; the walk goes on
and the bookmark is written all the same. A pass ends with the first organization
that fails, like the loop in `cli.py`, or dies (`Crashes`).

### `BookChapters` and `ClaimedWork`

A chapter's row is its own queue. `_claim` stamps it (`locked_at`, here a number),
the worker reads files for minutes outside any transaction and saves only under
`_still_ours`. `worker[w]` is what a worker knows, `batch` the external batches that
answer or expire in any order. A chapter may be parked on a reading batch and claimed
again when it returns; chunks may be parked on an embedding batch. Teachers upload,
delete, queue and accept meanwhile; `Overdue` lets a claim become stale while its
holder lives; `Crash` ends a worker. `ClaimedWork` says what such a row promises
with four figures per job: free, waiting, held or gone; who holds it; whose result
stands; how many claims there were. `Take` may take over a held job, `Settle` lets
only the present holder leave a result, `Ask` is the owner's. `BookChapters`
implements it under `ChapterClaims`.

### `TestPapers` over `PaperPlan`

`PaperPlan` holds the pure part of `papers/generator.py`: the split by difficulty,
the slots, the requests to the writing model and the choice among drafts that pass
the checks. `TestPapers` is the worker around it (list, claim, write, save, fail,
give up, each a transaction or a call) and the office's requests on a finished
paper: add, move, remove and replace an entry, and edit a question, which first looks
up whether other papers use it (`LookUpUse`, `WriteEdit`). What the models answer is
one of `Answers`; `PaperSlots` is any plan that lies in the order of the sections, as
`plan_slots` lays it. A paper's `run` is a history: the claim whose questions it has. With
it the papers' rows implement `ClaimedWork` (`PaperClaims` in `PlanPaperProofs`).

### `Sessions`: staff, guardians, operators

Rows of `session` in families; `person` with lockout counter, one-time code and the
number of sign-outs everywhere. `RefreshReads` is followed by `Rotate`
or `EndFamily` as the row that was read says; other requests commit in
between. `era` and `code` remember, per session, which sign-out it follows and which
code opened it; `raced` that somebody else's write came between reading and writing,
here or in an ancestor. `ended` is the set of families a caller was told are over.
The guardian's refresh rolls its revocation back, the others commit it.

### `Outbox`

`row` is the outbox in queueing order, `group` the WhatsApp group with its invite
link and the chat it resolves to. A dispatcher lists a batch, claims a message with
`FOR UPDATE SKIP LOCKED`, posts, and records; it may die or lose the gateway's answer
between any two of these. A diary is queued and posted at once by the request. The
office cancels and retries messages, changes the link, looks at the connection (which
resolves a missing chat id) and removes the group, each by a read and a later write, two
requests at a time. The change of a link (`RelinkReads`, `RelinkWrites`) compares the new
link with the one it read, flushes only the columns that differ from what it read
(`Flushed`), and resolves the chat of the link that the row then has. `mishap`, `astray`
and `raced` are history.

### `Registers` and `TeacherChat`

`Registers` is one section's register with the requests of the web application: each
reads the register and writes a later state of it (`MarkReads`, `MarkWrites`, and so
on), with the marking window and the permission to amend. `TeacherChat` extends it
with a teacher's WhatsApp chat: lists of absent children start a register, photos a
diary; the agent shows a draft, the teacher corrects it, and OK submits the
register through the same operators or queues the diary. Every message is a task of
several short transactions (`Takes`, `Answer`, `Revise`, `Submit`, `WritesNamed`,
`WritesRegister`, `Confirmed`, `Photo`, `Apply`, `Post`, `Reply`), two tasks may run at
a time, and a message may come again (`Redelivers`) or a task be lost.

### `Subscriptions`

`sub` and `org` are the two rows, dates are days since or until an event, up to the
limit that matters. `Chooses` and `Cancels` begin a request under its idempotency key,
`CallsGateway` is the call that cannot be taken back, `Commits` flushes the columns
that differ from what was read (`Flush`), `Fails` rolls back what can be. A webhook is
recorded and reads both rows (`Delivers`), and flushes later (`Applies`) unless the
organization was purged meanwhile (`FindsNoRow`). `SetSuspended`, `OverridesPlan` and
`Reconciles` are the platform. The
nightly pass `Wakes`, reads, and either ends the period or the trial, warns, or deletes
(`Works`), or fails (`Misses`).

### `Staff`

Memberships (`row`), invitations (`link`), the owner, the counter of seats, the role's
permissions with their version, the cache. Requests read and check in `Begins...` and
write in an action of their own; seats alone are checked by the statement that writes
them (`Consumes`). `stale` remembers, per guard, that it no longer held when its request
committed. A permission set is loaded (`Loads`), stored under the version it was
loaded with (`Stores`) and evicted at any time.

## 4. What the runs check

Every run explores all states of its instance and finds nothing wrong.

| Run | Instance | Shows |
|---|---|---|
| `consolidation` | 1 family, 3 challans, 3 periods, 1 receipt | ledger and challans agree (`LedgerAgrees`); nothing cancelled or drafted holds money; no live challan is reserved by something that will never bill it (`NothingStranded`); a carried line is what it replaces; issued lines never change; issuing forgives nothing; the abstract account is implemented (`KeepsAccount`) |
| `office` | any three of six requests: a double-clicked issue of a draft holding two challans, two payments on one of these, a reversal on the other, the void of the draft | `paid_total` is the receipts, the running balance never breaks, the draft is charged once, every request is answered although some schedules deadlock |
| `nightly` | 2 bills, 3 days, two rules and two revisions | never ahead of the schedule, within the ceiling, nobody overlooked when a batch holds all |
| `prices` | one head, article, concession and student; two requests at a time, three in all | nothing in use is deleted except under a guard that was overtaken; the table accepts the lines of the class unless a head the class is charged for is also added to a student, and only then refuses them |
| `nights` | 2 campuses of 2 classes and 2 students, 2 passes, an office, one event | every due campus is billed the night it is due; a marked month is billed; no run waits for ever |
| `chapters` | 1 chapter, 2 workers, 2 batches, 2 edits, a crash | indexed text is of the files uploaded now; every run comes to rest; vectors arrive; `ClaimedWork` is implemented |
| `papers` | 2 papers of 2 questions, 2 workers, 2 attempts, 2 requests of an editor, a crash | a paper is numbered and in section order through every edit and run; every paper comes to rest. Before it starts, TLC evaluates `PlansHold`: the split, the requests and the choice on all inputs of a size |
| `sessions` | 1 person of any kind, 2 requests, 3 sessions, 3 events | one sign-in is one session; a session outlives a sign-out, a reset, a spent code or its family only by a race |
| `outbox` | 2 dispatchers, a batch of 1, 2 messages among a notice, an alert and a custom one, 2 links, 2 requests of the office that may overlap, a crash | posted once; the history is what was posted; posted where queued for; the queue drains |
| `chat` | 1 child, 2 handlers, 3 messages, 1 trouble | an OK settles what was shown; a confirmed list is the whole register; a submitted register is amended, never overwritten |
| `billing` | 2 requests with one key, a plan with a trial and one without, 2 webhooks that may overlap, 1 trouble | an ended subscription is closed; one key changes the gateway once; deletion waits for its warning; an abandoned trial is deleted |
| `staff` | 3 people, 2 seats, 2 invitations, 2 requests at a time of 5 | seats are what members and invitations hold; a principal remains; a cached permission set is the role's |

Each property is broken by at least one plausible mistake in the code (a dropped
guard, a forgotten reset, a stale figure); the mistakes are the definitions marked
*mutant* in the modules, and PROJECT.json pairs them.

### Histories and exceptions

Several properties except what the code does not promise: a request whose read was
overtaken before it wrote. The models remember it in a history variable (`raced`,
`stale`, `overlap`, `mishap`, `excused`, `lost`) that is set exactly when what was read
differs from what is there at the write, or a process died after an effect it could
not take back. Such a property says that *nothing but* an overtaken read does harm:
it fails as soon as a guard is missing, a statement is out of order or a value is
reset at the wrong place. Which overtaken reads do harm, and how, is section 6.

### Bounds, and why they are enough

- *Challans*: a chain of consolidations needs three (the third absorbs the second,
  which absorbed the first), and so does a draft that releases one challan and keeps
  another. `FewCorrected` bounds corrections of the ledger to histories of two
  challans: a correction touches no challan, so it multiplies the states and adds no
  interaction.
- *One family, one person, one organization*: handlers touch several families only
  in a billing run and a pass, family by family. `SYMMETRY` is over identities that no
  definition tells apart, in runs whose temporal formulas are safety.
- *Amounts*: `MaxAmount` is reached by carried dues, so the column's width is met.
  Prices of 1 and 3 with a half exercise the rounding; a flat sum of 3 off a price of
  1 the clamp.
- *Requests*: two or three in flight. A race is between what one request read and what
  another wrote; more requests of a kind add interleavings of the same pairs of
  statements. The theorems of section 5 hold for any number.
- *Days*: intervals of 2 days stand for 7 and 30 (`LateFeeRecurrence`), months of 2
  days for 31, deadlines of 1 day for those of billing: in each, the day before, the
  day of and the day after occur. `nights` covers the last day of a month and the first
  of the next.
- *Claims*: two workers, so that one may take over from another that is still at
  work; two attempts in `chapters` and `papers` (the code has three for a paper), so that
  a job is both taken over and given up. In `papers` the office makes two requests, so a
  question that two papers share is not edited in the run: that takes an addition to each
  paper first. `PapersArePrintable` covers it for any number of requests.
- *Keys*: `billing` has one, held by two requests in turn or at once; two keys make the
  run too long beside two webhooks. A second choice, or a cancellation after a choice, is
  in `Subscriptions_chosen.cfg` and in the theorems.
- *Trouble*: crashes, lost answers, redeliveries and interventions are bounded by
  `MaxCrashes`, `MaxTrouble`, `MaxMishaps` and `MaxEvents`, at 1 to 3. Each happens at every moment
  it can; what a second one adds is a second history of the same kind.
- *Starts*: `MCInit` of `MonthlyBilling` starts from schedules that carry dues, with
  the students in different classes; one change or move may happen on the way.
- `CHECK_DEADLOCK FALSE` throughout: an office may stop working, all requests may
  have been answered, and the last day is a bound. That nobody blocks for ever is
  stated by `AllAnswered`, `BillingEnds`, `RunsEnd`, `PapersEnd` and `QueueDrains`.

### Fairness

- `FeeRaces`: weak fairness of each request's step. A worker process runs its request
  on and PostgreSQL runs its deadlock detector; locks are given back at commit or
  rollback and nowhere else, so without the detector `AllAnswered` fails.
- `LateFees`: weak fairness of `DayEnds` and `ApplyLateFees`: cron runs maintenance.
- `MonthlyBilling`: a process that began goes on, unless it dies (`Works`). Nothing
  says that a pass begins.
- `BookChapters`: weak fairness of a worker's work, of a claim becoming stale and of a
  batch being answered or expiring, which the provider does within a day. Strong
  fairness of `CollectVectors`: every pass of `process-books` begins with it, but it is
  not enabled while a worker is in the middle of a chapter.
- `TestPapers`: the same for its worker, and an edit that began ends. `PapersEnd`
  speaks of papers whose chapters keep their text.
- `Outbox`: dispatchers list and work on (`send-whatsapp --watch`). `QueueDrains`
  assumes that the office stops retrying at some time (`RetriesEnd`): a batch is the
  oldest messages, and one that is retried for ever stays the oldest. With the requests
  bounded, every behaviour of the run meets the assumption.
- `Subscriptions`: requests and webhooks end, the pass wakes, days pass (strongly: a day can only
  pass while nothing is in flight), and the mail server accepts a warning at times
  (strongly: `Works(TRUE)`), which the retention module retries every night.
- Nothing is assumed about offices, owners, teachers and families. `FeeLedger`,
  `PriceList`, `Sessions`, `TeacherChat` and `Staff` are safety only.

## 5. What is proved

All theorems hold for every value of the constants that meets the assumptions
named in the modules: amounts are naturals within the column, the names of
nothing (`NoVoucher`, `NoStudent`, `None`, ...) are not names of something, numbers of
challans are naturals, percentages are between 1 and 100, a paper's slots lie in the order
of the sections, tables that are added up have
finitely many rows. TLC evaluates the
assumptions in every run.

**`SumFacts`** holds what the fee proofs need of `SUM`: the library's sum over a finite
set is zero over the empty set, splits off any term, changes by the change of one term,
keeps to the bounds of its terms, adds up pointwise, and may be taken over a part of the set when the rest
weighs nothing. The library defines the sum by recursion over the set; that the recursion
has a solution, and one only, is proved from the well-foundedness of strict inclusion
among the subsets of a finite set, with no induction over data. So what is added up must
be finite: `RowsAssumption` and `SlipsAssumption` say that a table has finitely many rows.

**`FeeLedgerProofs`**: any number of families, challans, receipts, periods and
amounts, in three layers. The first is the books:

- `TypeCorrect`: `Spec => []TypeOK`.
- `LedgerAlwaysAgrees`: `Spec => []LedgerAgrees`. What `reconcile_ledger` would
  report is always zero.
- `MoneyStandsOnLiveChallans`: `Spec => []VoidHoldsNoMoney`.

`LedgerAgrees` speaks of net weights, and is not inductive: `_ledger_charge`
looks for a CHARGE entry before it writes one, `void_voucher` for any debit
before it credits. The invariant `IInv` therefore says, challan by challan,
which entries it has in each status (`Books`: none as a draft; exactly its
total, as a charge or as a fine, while live; the debit and its exact credit, or
neither, once void) and, receipt by receipt, that a standing one points at a live
challan and weighs its amount (`Till`). Billing touches many rows at once, so
its effect is first described row by row: a billed row differs from the old one
in its carried line, head, status and reservation (`RebilledShape`,
`SettledShape`, `BillShape`), and a row that is cancelled on the way had no
standing receipt. One lemma per action then shows that `IInv` is kept.

The second layer is the rules, for the same offices:

- `IssuedBillsStayFinal`: `Spec => IssuedBillsAreFinal`, and `VoidStaysVoid`:
  `Spec => VoidIsForever`, which are about steps.
- `BilledOncePerPeriod`: `Spec => []OneChallanPerPeriod`.
- `NothingIsStranded`: `Spec => []NothingStranded`.
- `NothingIsOverpaid`: `Spec => []NeverOverpaid`.

They share an invariant, `Rules`: `IInv`; a draft has no receipts and is
reserved by nobody, `paid_total` is the money received and no more than the
total (`Sound`); every pointer of a live challan leads to a draft (`Pointing`);
periods are not shared (`Distinct`). `NothingStranded` alone is not inductive: a
billing run may point at a fresh draft only if what it takes is not a draft
itself, and issuing is safe only because whatever points at the bill is either
absorbed or released, which `BillPointer` shows through the repricing of the
carried line. `Step` says what any step leaves, challan by challan (`Kept`), and
the five theorems read it off.

The third layer is the account, where money is added up:

- `CarriedLinesAreTrue`: `~EditsCarriedLine => (Spec => []CarriedIsWhatItReplaces)`.
- `IssuingIsNeverForgiving`: under the same hypothesis, `IssuingForgivesNothing`, about
  steps.
- `OfficeKeepsAccounts`: under the same hypothesis, `Spec => KeepsAccount`, the refinement
  of `FamilyAccount`: every step of the office is, for every family, a step of its
  account or a stutter.

The hypothesis is needed, and says which offices are meant: one that retypes a carried
line bills what it typed, as `MCFeeLedger_carried_edit.cfg` shows (section 6). `Carry`
says that the carried line of a live challan is the sum of the challans that point at
it (`Carries`); it is inductive only because a draft that carries anything still has the
head that lets its line be repriced (`Headed`), and because what is pointed at is live
and of the same family (`Held`). `AccInv` adds, as sums over all rows, that the money
received for a challan is that of its standing receipts (`Counted`), that what a family's
receipts moved in the ledger is what it paid (`Matched`), and that what it was let off is
never negative (`LetOff`). `AccountStep` then says by how much each step moves those
sums, family by family: an issue cancels the challans it absorbs and charges them again
on its carried line, so the two cancel, however many there are.

**`FeeRacesProofs`**: any number of concurrent requests, of any kinds, on any
number of challans.

- `TypeCorrect`: `Spec => []TypeOK`.
- `BalanceRuns`: `Spec => []RunningBalance`. The student's row stays locked from
  the sum to the commit.
- `ChargesOnce`: `Spec => []ChargedOnce`. Whether a challan has been charged is
  asked under the lock of its row, which the UPDATE to ISSUED takes.
- `PaidKeepsReceipts`: `InTurn => (Spec => []PaidIsReceipts)`. `paid_total` is the sum of
  the recorded receipts at every commit.

The invariant adds: locks have one holder (`Exclusive`); a session that has
appended holds the student's lock and its lines continue the committed statement
(`Chained`); a session that has charged a challan, or is about to, holds that
challan's row, and nobody else has charged it (`Charging`, `Ready`). A step moves
one session: `MoveKeeps` shows once that the others are not disturbed, and the
lemmas about each handler only look at the one that moves. `CreditedOnce` and
`VoidHoldsNoMoney` have no such theorem: they are false (section 6).

`InTurn` says which requests: those that move the receipts of one challan are payments
numbered from one receipt book, or there is only one. Without it `PaidIsReceipts` is
false: a reversal takes no receipt number, so nothing keeps it from adding up before
a payment beside it commits (`MCFeeRaces_pay_reverse.cfg`, section 6). With it the lock
on the book's number covers the sum, and the invariant `Till` follows a request from
there to its commit: the number is held, the row of the receipt is the request's own,
and what it will write into `paid_total` is what is committed now and its own amount
(`Numbered`, `Held`, `Counting`). Issues, voids and statements run beside it unhindered.

**`FeeRulesProofs`**, of `LateFees`: any bills, rules, batch limit and number of days.

- `TypeCorrect`: `Spec => []TypeOK`, with what stands against a challan a natural.
- `NoFineAheadOfSchedule`: `Spec => []NeverAheadOfSchedule`. A challan has at
  most as many fines as some rule set so far allows by that day, however often
  the pass runs and whatever is voided, waived, carried or revised between.
  Induction on steps with the shape of the sequences; the arithmetic is that a
  fine is raised only when `Len(fine) < late \div every + 1`, so that
  `every * Len(fine) <= late`; days and rules only grow, and fines are never
  removed, since a waived one still counts.
- `FinesStayWithinCap`: `Spec => []WithinCap`. A new fine is cut to what the ceiling
  leaves of those that stand; every other step leaves a challan as many fines, worth
  no more together (`FinesKept`), and the rule that once allowed them is still among
  those that were set. `InInstalments`, in the invariant, says that a challan is paid in
  whole receipts, so that one taken back leaves a natural amount.

Of `PriceList`, whose specification is `PricesSpec`: any number of heads, articles,
concessions, students, prices and overlapping requests.

- `PricesTyped`: `PricesSpec => []PricesTypeOK`.
- `NothingPricedGoes`: `PricesSpec => []NothingPricedIsGone`. The invariant adds what each
  request in flight is about (`Asked`). A write whose guard no longer holds sets
  `raced`; any other leaves every row that something still uses where it is.
- `TheClassIsBillable`: `PricesSpec => []ClassIsBillable`. No line takes off more than it
  charges, from the clamp and from rounding: a percentage of a price, rounded half up,
  is at most the price (`BilledPayable`). Two lines of a challan repeat a head exactly if
  one is the class's and the other was added (`LineOfCharge`, `TwoLines`).

**`MessageProofs`**, of `Outbox`: any number of messages, links, dispatchers, clerks and
crashes, and any batch limit.

- `TypeCorrect`: `Spec => []TypeOK`.
- `NoticePostedOnce`: `Spec => []PostedOnce`.
- `OutboxIsTheHistory`: `Spec => []HistoryIsTrue`.
- `MessageKeepsDestination`: `Spec => []PostedWhereQueued`.

The invariant follows a message through a dispatcher's hands: one dispatcher at a time
has it (`OneHolder`, from the row lock and the second look after it), and while it is
there the row is queued and has been posted exactly if the dispatcher says so (`InHand`).
The index on a key that is not cancelled makes the rest: a key has one such row
(`OneRowPerKey`). For destinations, the chat that the group stores or a dispatcher has
read is that of the link it is used for, until two overlapping requests of the office are
recorded as a race: a change of the link, or a look, whose reading of the group still
holds when it writes stores a chat that fits (`ChatFits`). The batch
a dispatcher takes is a sequence of as many rows as the limit lets through, oldest first;
that it is one is a counting argument over injections.

Of `TeacherChat` and `Registers`, whose specification is `ChatSpec`: any number of messages,
tasks, drafts, students, requests of the web and mishaps.

- `ChatTyped`: `ChatSpec => []ChatTypeOK`.
- `SettledWasShown`: `ChatSpec => []SettledAsShown`.
- `ListIsTheRegister`: `ChatSpec => RegisterIsTheList`, and `AmendsOnly`:
  `ChatSpec => AmendedNotOverwritten`, which are about steps.

The invariant says that what waits for an OK was shown or is on its way to the teacher
(`Previewed`), that a preview on its way is of the text the draft still has
(`FreshReply`), and that of two tasks that run neither believes itself alone (`Solo`):
whoever changes a draft under another's preview therefore leaves it `excused`. A register
draft always has a list (`Listed`), and a task that holds one to submit it has read a
register that was not submitted (`Submits`); a request of the web holds what its reading
permitted (`Permitted`). `Moved` is what a step of a task may make of a draft, so that each
handler is one instance of a lemma (`OneTask`). What a write makes of the register is set
algebra: the students marked by a list that was read and written in peace are that list
(`MarkedIs`, `WritesIs`).

**`UnattendedProofs`**, the two parts that run with nobody watching. Of `BookChapters`: any
number of chapters, workers, batches and edits.

- `TypeCorrect`: `Spec => []TypeOK`.
- `TextIsCurrent`: `Spec => []IndexedTextIsCurrent`. The invariant says that while a
  worker's claim still stands, the chapter's files are those it was claimed with
  (`Current`): whatever changes files is refused while the chapter is claimed, and a
  new claim carries a newer stamp.
- `ChaptersAreClaimedWork`: `Spec => LastClaimWins`, the refinement. Initial rows are
  free; an upload, a deleted file, an acceptance and a request to run map to `Ask`, a
  claim to `Take`, a save, a failure, a parking and a giving up to `Settle`, the
  deletion of the chapter to `Drop`, and everything a worker or a batch does on its own
  to a stutter. `BookInv` is needed because a result may only be left by the holder.

Of `MonthlyBilling`, whose specification is `BillingSpec`: any organizations, years,
classes, prices, passes, clicks and days, and any finite set of students.

- `BillingTyped`: `BillingSpec => []BillingTypeOK`.
- `CampusesReached`: `BillingSpec => []EveryCampusReached`. A pass has before it, or among
  its own marks, whatever waits tonight in the organizations nobody interfered with
  (`Covers`). Where two passes meet, one waits for the other and fails when that one
  commits, so the argument has to say that never all of them fail: either nothing waits
  any more, or some pass is under way that no other pass makes fail (`Alive`, `Doomed`).
- `MarkedMonthsAreBilled`: `BillingSpec => MarkedIsBilled`, about steps. What a run is
  about to mark, and the classes it is past, have their challans or are excused
  (`Serves`), and only a commit marks anything. A class within its batch is billed whole
  by a count: the students left out are as many as the limit leaves, or the class is
  refused (`EligibleOrMany`). That count is why the students have to be finite.

**`PlanPaperProofs`**, of `Subscriptions`: any plans, keys, requests, days and bounds.

- `TypeCorrect`: `Spec => []TypeOK`.
- `KeysChangeOnce`: `Spec => []ChangedOnce`. An advisory lock on the key is held to the end
  of the transaction (`idempotency.py:37`): a request that works holds a key of its own
  that is not recorded yet (`Holding`), and a key that has called is recorded, held by
  the request that called, or lost with it (`Accounted`).
- `EndedStaysClosed`: `Spec => []EndedMeansClosed`. A flush over what was read writes what
  was meant; every other flush is recorded as a race.
- `DeletionsWait`: `Spec => DeletedAfterWarning`, about steps: what the pass has read is
  what there is, or was overtaken.

Of `TestPapers`, whose specification is `PapersSpec`: any number of papers, teachers and
workers, any slots in the order of the sections, any answers of the models.

- `PapersTyped`: `PapersSpec => []PapersTypeOK`.
- `PapersArePrintable`: `PapersSpec => []PaperIsInOrder`. The invariant (`PapersAreKept`) adds to
  the order of a paper that its questions exist and that no two places share a position
  (`Laid`), which is what makes its size its last position (`LaidCount`, a bijection); that
  an edit on its way names a question that exists (`Editing`), since the bank only grows
  and a question keeps its type (`BankStays`); and that what a worker is about to save lies
  in the order of the sections (`Writing`). Each way to change a paper is a lemma about
  places alone: closing a gap (`RemovedIsLaid`), making room at the end of a section
  (`SectionEndIs`, `InsertedIsLaid`), replacing, copying and saving.
- `PapersAreClaimedWork`: `PapersSpec => LastPaperClaimWins`, the refinement. Creation,
  regeneration and the failure of a paper nobody claimed map to `Ask`, a claim to `Take`,
  a save, a failure and a giving up to `Settle`, a deletion to `Drop`, everything else to
  a stutter. A paper nobody writes carries no claim (`Unheld`). No run checks this one;
  `chapters` checks the same abstract specification of `BookChapters`.

**`AccessProofs`**, of `Staff`: any number of people, rows, permissions and requests.

- `TypeCorrect`: `Spec => []TypeOK`, with what a request read being a used row.
- `RevocationsHold`: `Spec => []RevokedAtOnce`. Nobody knows a version that is still to
  come, and what is on its way into the cache under the current version was loaded
  since that version was written (`Versioned`).
- `PrincipalRemains`: `Spec => []NeverOrphaned`. Whoever takes a principal away has
  counted another one, and a commit on a count or a membership that has changed since
  is recorded; a transfer makes the new principal in the commit that takes the old one.
- `SeatsStayHeld`: `Spec => []SeatsAreHeld`. The counter is compared with the members of the
  campus and the open invitations, so each step needs what it adds to or takes from those
  sets, and a removal must know that whoever it removes held a seat. That is where
  `OneAtTheTop` comes in: the organization's own level has one live member at a time,
  its principal, until two transfers overlap.

Of `Sessions`, whose specification is `SessionsSpec`: any number of people, requests,
sessions, failures and tries.

- `SessionsTyped`: `SessionsSpec => []SessionsTypeOK`.
- `NoSessionSurvives`: `SessionsSpec => []OnlyRacesSurvive`. By itself it is not inductive. A
  code opens one sign-in because a code that has opened one is spent or an older one
  (`Spent`), which a request that loaded it may not have seen: then the new row is a race.
  A family's end reaches all of it because a family has one owner, and is named after a
  row that exists, so that a new sign-in never falls into a family that was ended
  (`Rooted`). A request that is about to rotate holds a row that exists, of the person it
  read (`Asked`). Every step either adds no row, so that what is live was live and promised
  the same (`RowsKeep`), or adds one, of a new family or as the only live successor of
  the row it ends (`AddKeeps`).

Only model-checked:

- liveness (`AllAnswered`, `NobodyOverlooked`, `BillingEnds`, `RunsEnd`, `VectorsArrive`, `PapersEnd`,
  `QueueDrains`, `TrialsEnd`), out of reach of the prover;
- what `PaperPlan` chooses, a fold over a sequence: facts about it need induction over
  data. No proof of `TestPapers` needs them.

## 6. Where code and documentation disagree

Met while modelling. Those with a configuration are statements about the program,
each quoted where it is defined, that TLC refutes with a short behaviour; the
configurations are not among the runs of section 4, and are run by hand. In
`PriceList_disputed.cfg` and `MCMonthlyBilling_disputed.cfg` the statements are named one
at a time.

| Configuration | Statement | What the code does |
|---|---|---|
| `MCFeeLedger_carried_edit` | `IssuingForgivesNothing` | a draft's carried line can be removed or retyped like any other fee line, and the challans it stands for stay reserved: issuing the draft cancels and credits them, and nothing bills them any more (`fees/service.py:1694`) |
| `MCFeeRaces_double_issue` | `CreditedOnce` | the guard against a second click reads the status without a lock: two overlapping issues of a draft each credit the family for what it absorbs; the draft is charged once (`:1357`) |
| `MCFeeRaces_pay_void` | `VoidHoldsNoMoney` | a void sums the receipts without locking the challan: a payment that commits between the sum and the UPDATE leaves a void challan with a standing receipt (`:1407`) |
| `MCFeeRaces_pay_reverse` | `PaidIsReceipts` | a reversal that loads the challan before a payment on it commits may compute the total it already sees, and writes nothing: `paid_total` misses the payment (`:1853`, `:3281`) |
| `MCFeeRaces_statement` | `TopRowIsBalance` | the statement is sorted by the start of the transaction, the running balance follows the student's lock: the balance of the top row may not be the balance (`fees/repository.py:1216`) |
| `MCLateFees_rerun` | `SecondPassFinesNothing` | one pass raises one fine per challan: when a recurring rule is applied late, every further pass of the day raises the next (`:2214`) |
| `MCLateFees_starved` | `NobodyOverlooked` | challans that have had all their fines stay candidates: once they fill the batch, no later pass reaches the others (`:2193`) |
| `MCLateFees_cap` | `AskedWithinCap` | a fine absorbed by a later challan no longer counts against the ceiling, but the family is still billed for it (`:2225`) |
| `PriceList_disputed` | `NobodyStopsTheClass` | a head that the class is charged for can also be added to a student (`fees/service.py:801-856`): the second line of that head breaks `uq_fee_voucher_items_voucher_head` (`:3167`, `fees/models.py:1184`), and the generation fails for the whole class, although it "SKIPS RATHER THAN FAILS" (`:972`) |
| | `ArrangementsReturn` | a removed arrangement stays in the unique index and can never be made again |
| | `StructuresReturn` | an archived structure stays in the unique index and blocks the replacement that the error message asks for |
| | `ActiveIsPriced` | an active structure may lose its last line |
| `MCMonthlyBilling_disputed` | `CaughtUp` | a schedule is due on its day only: a night without a pass leaves the month unbilled (`:2393`; `fees/models.py:1553` promises a catch-up) |
| | `BillsEveryStructure` | the bookmark is written although classes were refused, and "run now" is then refused as well (`:2375`) |
| `MCMonthlyBilling_two_years` | `OncePerMonth` | two active years with a schedule each bill a family twice a month |
| `Subscriptions_chosen` | `ChoosingEndsIt` | who chooses a plan without a trial after the trial expired and a plan with one later is back on the old trial date: expired, suspended and deleted at once (`billing/service.py:226-259`; `trial_retention.py:15` promises otherwise) |
| `MCSessions_replay` | `ReplayEndsFamily` | the guardian's refresh raises after it revoked the family, and the rollback takes the revocation with it (`guardians/auth_router.py:389`) |

Others were met in the code and are in the models as it does them, without a
statement of their own:

- *Fees*: an issue overwrites a void that committed after it loaded the draft; a
  billing day that is set to today after the pass leaves the month unbilled; one
  organization's error ends the walk for those after it (`cli.py:1046`); what a batch
  of generation leaves over is not billed once the month is marked; `apply_late_fees`
  runs for suspended organizations although the comment beside it says they are not
  fined; an override and a discount on one head, which the documentation describes,
  cannot be stored together; a carry-forward head that the class is charged for as well
  repeats the head on a consolidating challan and fails the class like an added one.
- *Subscriptions*: a renewal does not move `current_period_end`; `reconcile_usage`
  sets OVER_LIMIT over a suspension or a cancellation; a renewal lifts a suspension by
  an administrator; a payment after a suspension leaves the organization suspended; a
  failed payment reopens a cancelled subscription; an overriding plan keeps
  `cancel_at_period_end`; a webhook that arrives before the plan's transaction commits
  is recorded as unknown and never applied.
- *Sessions*: a guardian's change of context revokes a session without asking whether
  it is live; two overlapping refreshes both rotate.
- *Outbox*: a cancellation that overlaps the dispatcher deletes a message that was
  sent, a retry posts it again; two changes of a group's link that overlap, or a look at
  the connection between the read and the write of a change, leave the new link with the
  old group's chat, although the chat id is "cleared whenever the invite link changes, so
  it can never point at the old group" (`whatsapp/models.py:119-121`); failed messages
  that are retried for ever keep newer ones waiting.
- *Workers*: a paper whose worker died and whose chapters have lost their text stays in
  `generating` for ever: the next claim fails, and only a queued paper is failed for it
  (`papers/jobs.py:118-121`); the
  attempts of a chapter are not reset when it is queued again; a late save removes the
  page images of a newer run.
- *Registers and chat*: a mark that was read on a draft register commits after the
  submit without the permission to amend; a discard read on a draft deletes a
  submitted register; an OK between the commit of a correction and its preview settles
  a text nobody was shown; a redelivered OK may confirm another draft.
- *Staff*: two overlapping edits of a role write the same version; an acceptance that
  overlaps a revocation leaves a member without a seat; two overlapping transfers
  leave two principals, and a removal that overlaps a transfer may leave none
  (`rbac/service.py:796`); a transfer neither takes nor gives back a seat.

## 7. Not modelled

The map covers a sixth of the implementation's lines. The rest is for the
greater part code without a protocol: request and response schemas, CRUD on rows that
nothing else reads in the middle of a change, reports, migrations, printing,
templates and calls of language models. It was not modelled to raise a share.

- *Within fees*: reading (registers, exports, statements, reconciliation) and the
  printed challan; line edits running concurrently with other requests; locks of two
  families; sections, and copying a structure to another year.
- *Academic years, enrollment and promotion*: planned. `MonthlyBilling` takes years
  as given and lets a student be placed in any class.
- *Maintenance*: the steps are modelled, each in its component; the walk has the
  generation step only, and the audit purge is left out.
- *Sign-in*: registration and email verification (a password reset verifies a pending
  account as well, `auth/service.py:1053`, but starts no subscription for the
  organization it owns), the operators' second factor, the limits on asking for a code
  and the counters of `core/rate_limit.py`, of which the worst case (a counter that
  never expires) is a single statement's failure.
- *Billing*: invoices, plan editing, and usage counters other than staff.
- *WhatsApp*: templates and the pairing of the connection. *Workers*: what the models
  read and write, page images, the printed paper. *Registers*: corrections of single
  records, analytics; a teacher with several classes.
- *Staff*: roles created and deleted, moves between campuses, invitations sent again.
- *Guardians, exams and marks, search, dashboards, platform administration, audit*:
  rows edited one at a time or only read; there is no protocol to check.
- *HTTP layer, schemas, migrations, web client*: no state of record of their own; the
  transaction per request is part of every model.
