--------------------------- MODULE MonthlyBilling ---------------------------
(***************************************************************************)
(* The billing of whole campuses with nobody watching: the schedule of     *)
(* each campus and year (modules/fees, run_scheduled_generation), the      *)
(* nightly pass over all organizations that asks every schedule whether    *)
(* today is its day (cli.py, _run_maintenance), a second pass that         *)
(* overlaps it, and the office that generates by hand.  Each organization  *)
(* is one transaction of a pass.  Organizations have one campus here.      *)
(***************************************************************************)
EXTENDS Integers, FiniteSets

CONSTANTS Orgs, Years,
          Classes,      \* in the order of their structures' names
          Students,     \* of each campus, in the order of admission
          Batch,        \* MAX_GENERATION_BATCH
          Days,         \* days of a month
          Passes,       \* maintenance processes
          Offices,      \* operators generating by hand
          None,
          FirstDate, LastDate,   \* bound: the days that are looked at
          MaxEvents     \* bound: changes, generations by hand, nights missed, processes that die

ASSUME BillingConstants ==
    /\ Students \cup Classes \subseteq Nat /\ IsFiniteSet(Students)
    /\ Batch \in Nat /\ Days \in Nat \ {0}
    /\ {FirstDate, LastDate, MaxEvents} \subseteq Nat /\ FirstDate <= LastDate
    /\ Passes \cap Offices = {} /\ None \notin Orgs \cup Years \cup Nat

VARIABLES date,
          schedule,     \* fee_billing_schedules
          dues,         \* the head carried dues are billed under
          structure,    \* whether a class's fees are active, and have lines
          place,        \* the class of each active student
          billed,       \* students holding a challan that is not void
          run,          \* what each process has read and not committed
          begun,        \* passes of this night
          touched,      \* history: campuses whose settings changed today
          ended,        \* history: a pass was cut short today, not by another pass
          events

billingVars == <<date, schedule, dues, structure, place, billed, run, begun, touched, ended,
          events>>
-----------------------------------------------------------------------------
Month(d) == d \div Days
Day(d) == (d % Days) + 1
Months == 0..Month(LastDate)
Runs == Passes \cup Offices

Setting == [on: BOOLEAN, day: 1..Days, carry: BOOLEAN]
Schedule == [on: BOOLEAN, day: 1..Days, carry: BOOLEAN, bookmark: Months \cup {None}]

\* made: challans inserted.  marks: bookmarks set.  clash: who has committed challans of this
\* campus since their numbers were read.
Run == [pc: {"idle", "walk", "ask", "bill", "insert"}, kind: {"none", "pass", "now", "class"},
        todo: SUBSET Orgs, org: Orgs \cup {None}, years: SUBSET Years,
        year: Years \cup {None}, month: Months \cup {None}, left: SUBSET Classes,
        at: Classes \cup {None}, new: SUBSET Students,
        made: SUBSET (Years \X Months \X Students), marks: SUBSET (Years \X Months),
        clash: {"no", "pass", "office"}]

NoRun == [pc |-> "idle", kind |-> "none", todo |-> {}, org |-> None, years |-> {},
         year |-> None, month |-> None, left |-> {}, at |-> None, new |-> {}, made |-> {},
         marks |-> {}, clash |-> "no"]

BillingTypeOK == /\ date \in FirstDate..LastDate
                 /\ schedule \in [Orgs -> [Years -> Schedule]]
                 /\ dues \in [Orgs -> {"active", "inactive", "deleted"}]
                 /\ structure \in [Orgs -> [Years -> [Classes -> {"none", "active", "empty"}]]]
                 /\ place \in [Orgs -> [Students -> Classes \cup {None}]]
                 /\ billed \in [Orgs -> SUBSET (Years \X Months \X Students)]
                 /\ run \in [Runs -> Run]
                 /\ begun \subseteq Passes
                 /\ touched \subseteq Orgs
                 /\ ended \in BOOLEAN
                 /\ events \in 0..MaxEvents

BillingInit == /\ date = FirstDate
               /\ \E day \in [Orgs -> 1..Days], carry \in BOOLEAN :
                     schedule = [o \in Orgs |-> [y \in Years |->
                         [on |-> TRUE, day |-> day[o], carry |-> carry, bookmark |-> None]]]
               /\ dues = [o \in Orgs |-> "active"]
               /\ structure = [o \in Orgs |-> [y \in Years |-> [c \in Classes |-> "active"]]]
               /\ \E c \in [Students -> Classes] : place = [o \in Orgs |-> c]
               /\ billed = [o \in Orgs |-> {}]
               /\ run = [p \in Runs |-> NoRun]
               /\ begun = {} /\ touched = {} /\ ended = FALSE
               /\ events = 0

Settings == <<schedule, dues, structure, place>>

\* Something from outside the schedule.
Happens == events < MaxEvents /\ events' = events + 1
Sets(p, new) == run' = [run EXCEPT ![p] = new]
-----------------------------------------------------------------------------
(* Generating for one schedule, or for one class.                          *)

Active(o, y) == {c \in Classes : structure[o][y][c] # "none"}

\* A mutant of IsDue: whoever was billed once is billed.
DueOnlyOnce(p, y) ==
    LET s == schedule[run[p].org][y]
    IN /\ s.on
       /\ run[p].kind = "now" \/ s.day = Day(date)
       /\ s.bookmark = None
       /\ Active(run[p].org, y) # {}

IsDue(p, y) ==
    LET s == schedule[run[p].org][y]
    IN /\ s.on
       /\ run[p].kind = "now" \/ s.day = Day(date)
       /\ s.bookmark # Month(date)
       /\ Active(run[p].org, y) # {}

\* run_scheduled_generation up to the loop; the years of a campus one after the other.
Asks(p) ==
    /\ run[p].pc = "ask"
    /\ \E y \in run[p].years :
          Sets(p, IF IsDue(p, y)
                  THEN [run[p] EXCEPT !.pc = "bill", !.years = @ \ {y}, !.year = y,
                                      !.month = Month(date), !.left = Active(run[p].org, y)]
                  ELSE [run[p] EXCEPT !.years = @ \ {y}])
    /\ UNCHANGED <<date, Settings, billed, begun, touched, ended, events>>

Carries(p) == run[p].kind # "class" /\ schedule[run[p].org][run[p].year].carry
Empty(p, c) == structure[run[p].org][run[p].year][c] # "active"

\* eligible_students, in the order of admission, without those who hold a challan.
Eligible(o, c) == LET in == {s \in Students : place[o][s] = c}
                  IN {s \in in : Cardinality({t \in in : t < s}) < Batch}
\* A mutant of Billable: without the month.
BillableOnlyOnce(p, c) == {s \in Eligible(run[p].org, c) : \A m \in Months :
                              <<run[p].year, m, s>> \notin billed[run[p].org] \cup run[p].made}
Billable(p, c) == {s \in Eligible(run[p].org, c) :
                      <<run[p].year, run[p].month, s>> \notin billed[run[p].org] \cup run[p].made}

\* The next class; after the last one the bookmark is written, although some were refused.
First(S) == CHOOSE c \in S : \A d \in S : c <= d
Past(r, c, new) ==
    LET done == [r EXCEPT !.left = @ \ {c}, !.at = None, !.new = {},
                          !.made = @ \cup {<<r.year, r.month, s>> : s \in new}]
    IN IF done.left # {} THEN [done EXCEPT !.pc = "bill"]
       ELSE [done EXCEPT !.pc = "ask", !.year = None, !.month = None,
                         !.marks = IF r.kind = "class" THEN @ ELSE @ \cup {<<r.year, r.month>>}]

\* generate_vouchers up to the sequence number.  A class without lines, and an inactive head
\* of the carried dues, are refused; the loop catches that and goes on.
Reads(p) ==
    /\ run[p].pc = "bill"
    /\ LET c == First(run[p].left)
           refused == Empty(p, c) \/ (Carries(p) /\ dues[run[p].org] = "inactive")
           new == IF refused THEN {} ELSE Billable(p, c)
       IN /\ Carries(p) /\ dues[run[p].org] = "deleted" => Empty(p, c)
          /\ Sets(p, IF new = {} THEN Past(run[p], c, {})
                     ELSE [run[p] EXCEPT !.pc = "insert", !.at = c, !.new = new, !.clash = "no"])
    /\ UNCHANGED <<date, Settings, billed, begun, touched, ended, events>>

\* A mutant of Holds: the numbers are taken when they are read.
HoldsWhatItRead(o) == {q \in Runs : run[q].org = o /\ run[q].pc = "insert"}

\* Numbers continue from a count of the committed challans: the first INSERT waits for
\* another run that has inserted the same number, and fails once that has committed.
Holds(o) == {q \in Runs : run[q].org = o /\ run[q].made # {}}

Inserts(p) ==
    /\ run[p].pc = "insert"
    /\ Holds(run[p].org) \subseteq {p}
    /\ run[p].clash = "no"
    /\ Sets(p, Past(run[p], run[p].at, run[p].new))
    /\ UNCHANGED <<date, Settings, billed, begun, touched, ended, events>>

After(p) == IF run[p].kind = "pass"
            THEN [NoRun EXCEPT !.pc = "walk", !.kind = "pass", !.todo = run[p].todo \ {run[p].org}]
            ELSE NoRun

Commits(p) ==
    LET o == run[p].org
    IN /\ run[p].pc = "ask" /\ run[p].years = {}
       /\ billed' = [billed EXCEPT ![o] = @ \cup run[p].made]
       /\ schedule' = [schedule EXCEPT ![o] = [y \in Years |->
                          [schedule[o][y] EXCEPT !.bookmark =
                              IF \E m \in Months : <<y, m>> \in run[p].marks
                              THEN CHOOSE m \in Months : <<y, m>> \in run[p].marks ELSE @]]]
       /\ run' = [q \in Runs |->
                     IF q = p THEN After(p)
                     ELSE IF /\ run[q].pc = "insert" /\ run[q].org = o /\ run[p].made # {}
                             /\ run[q].clash = "no"
                     THEN [run[q] EXCEPT !.clash = IF p \in Passes THEN "pass" ELSE "office"]
                     ELSE run[q]]
       /\ UNCHANGED <<date, dues, structure, place, begun, touched, ended, events>>

\* Nothing in a pass catches what the loop does not: its walk is over for every
\* organization it had not reached.  A request answers with the error.
Stops(p, outside) ==
    /\ Sets(p, NoRun)
    /\ ended' = (ended \/ (p \in Passes /\ outside))
    /\ UNCHANGED <<date, Settings, billed, begun, touched>>

Clashes(p) == /\ run[p].pc = "insert" /\ run[p].clash # "no"
              /\ Stops(p, run[p].clash = "office") /\ UNCHANGED events

\* get_head answers 404, which the loop does not catch.
MissesHead(p) == /\ run[p].pc = "bill"
                 /\ Carries(p) /\ dues[run[p].org] = "deleted"
                 /\ ~Empty(p, First(run[p].left))
                 /\ Stops(p, TRUE) /\ UNCHANGED events

\* The process dies, or another step of the walk raises.
Crashes(p) == /\ run[p].pc # "idle" /\ Happens
              /\ Stops(p, TRUE)
-----------------------------------------------------------------------------
(* Passes and the office.                                                  *)

PassBegins(p) ==
    /\ p \notin begun /\ run[p].pc = "idle"
    /\ begun' = begun \cup {p}
    /\ Sets(p, [NoRun EXCEPT !.pc = "walk", !.kind = "pass", !.todo = Orgs])
    /\ UNCHANGED <<date, Settings, billed, touched, ended, events>>

\* The organizations come in no order.
Opens(p) ==
    /\ run[p].pc = "walk"
    /\ \E o \in run[p].todo :
          Sets(p, [run[p] EXCEPT !.pc = "ask", !.org = o,
                                 !.years = {y \in Years : schedule[o][y].on}])
    /\ UNCHANGED <<date, Settings, billed, begun, touched, ended, events>>

WalkEnds(p) ==
    /\ run[p].pc = "walk" /\ run[p].todo = {}
    /\ Sets(p, NoRun)
    /\ UNCHANGED <<date, Settings, billed, begun, touched, ended, events>>

Clicks(f, new) == /\ run[f].pc = "idle" /\ Happens
                  /\ Sets(f, new)
                  /\ UNCHANGED <<date, Settings, billed, begun, touched, ended>>

RunNow(f, o, y) ==
    Clicks(f, [NoRun EXCEPT !.pc = "ask", !.kind = "now", !.org = o, !.years = {y}])

GeneratesClass(f, o, y, c) ==
    /\ structure[o][y][c] = "active"
    /\ Clicks(f, [NoRun EXCEPT !.pc = "bill", !.kind = "class", !.org = o, !.year = y,
                               !.month = Month(date), !.left = {c}])

\* No run lasts past midnight.  A night may have no pass.
NextDay ==
    /\ date < LastDate
    /\ \A p \in Runs : run[p].pc = "idle"
    /\ IF begun = {} THEN Happens ELSE UNCHANGED events
    /\ date' = date + 1
    /\ begun' = {} /\ touched' = {} /\ ended' = FALSE
    /\ UNCHANGED <<Settings, billed, run>>
-----------------------------------------------------------------------------
(* What the owner and the office change meanwhile.                         *)

Edits(o) == /\ Happens
            /\ touched' = touched \cup {o}
            /\ UNCHANGED <<date, billed, run, begun, ended>>

\* set_billing_schedule
SetSchedule(o, y, new) ==
    /\ Edits(o)
    /\ new.carry => dues[o] = "active"
    /\ schedule' = [schedule EXCEPT ![o][y] = [on |-> new.on, day |-> new.day,
                       carry |-> new.carry, bookmark |-> schedule[o][y].bookmark]]
    /\ schedule' # schedule
    /\ UNCHANGED <<dues, structure, place>>

\* update_head asks nothing of what names the head.  delete_head does, but a schedule that
\* is set meanwhile may name it afterwards.
RetireHead(o, to) ==
    /\ Edits(o)
    /\ dues[o] \notin {"deleted", to}
    /\ dues' = [dues EXCEPT ![o] = to]
    /\ UNCHANGED <<schedule, structure, place>>

\* Activated, archived, or the last line removed.
ReviseStructure(o, y, c, to) ==
    /\ Edits(o)
    /\ structure[o][y][c] # to
    /\ structure' = [structure EXCEPT ![o][y][c] = to]
    /\ UNCHANGED <<schedule, dues, place>>

MoveStudent(o, s, c) ==
    /\ Edits(o)
    /\ place[o][s] # c
    /\ place' = [place EXCEPT ![o][s] = c]
    /\ UNCHANGED <<schedule, dues, structure>>
-----------------------------------------------------------------------------
Works(p) == \/ Opens(p) \/ WalkEnds(p) \/ Asks(p) \/ Reads(p) \/ Inserts(p)
            \/ Commits(p) \/ Clashes(p) \/ MissesHead(p)

BillingNext == \/ \E p \in Runs : Works(p) \/ Crashes(p)
               \/ \E p \in Passes : PassBegins(p)
               \/ \E f \in Offices, o \in Orgs, y \in Years :
                     \/ RunNow(f, o, y)
                     \/ \E c \in Classes : GeneratesClass(f, o, y, c)
               \/ NextDay
               \/ \E o \in Orgs :
                     \/ \E y \in Years, new \in Setting : SetSchedule(o, y, new)
                     \/ \E to \in {"active", "inactive", "deleted"} : RetireHead(o, to)
                     \/ \E y \in Years, c \in Classes, to \in {"none", "active", "empty"} :
                           ReviseStructure(o, y, c, to)
                     \/ \E s \in Students, c \in Classes \cup {None} : MoveStudent(o, s, c)

\* A process that began goes on, unless it dies.
BillingSpec == /\ BillingInit /\ [][BillingNext]_billingVars
               /\ \A p \in Runs : WF_billingVars(Works(p))
-----------------------------------------------------------------------------
(* Properties.                                                             *)

DueToday(o, y) == /\ schedule[o][y].on /\ schedule[o][y].day = Day(date)
                  /\ Active(o, y) # {}

\* However many passes overlap and fail on each other's challans, a night bills every
\* campus whose day it is: whoever loses a campus has lost it to a pass that bills it and
\* goes on (jobs.py, "IDEMPOTENT, and by two separate mechanisms").  Nights on which a pass
\* was cut short from outside, and campuses whose settings changed, are excepted.
EveryCampusReached ==
    begun # {} /\ ~ended /\ (\A p \in Passes : run[p].pc = "idle") =>
        \A o \in Orgs \ touched, y \in Years :
            DueToday(o, y) => schedule[o][y].bookmark = Month(date)

Excused(o, y, c) == \/ structure[o][y][c] = "empty"
                    \/ schedule[o][y].carry /\ dues[o] # "active"
                    \/ Cardinality({s \in Students : place[o][s] = c}) > Batch

\* Once a month is marked as billed, every student of every active class has a challan of it,
\* unless the class was refused or is larger than a batch: the mark keeps later runs from
\* trying again (service.py, "a class quietly going unbilled").
MarkedIsBilled ==
    [][\A o \in Orgs \ touched, y \in Years :
          schedule'[o][y].bookmark # schedule[o][y].bookmark =>
              \A s \in Students : place[o][s] \in Active(o, y) =>
                  \/ <<y, schedule'[o][y].bookmark, s>> \in billed'[o]
                  \/ Excused(o, y, place[o][s])]_billingVars

\* Runs that wait for each other's challan numbers never wait for ever.
BillingEnds == \A p \in Runs : run[p].pc # "idle" ~> run[p].pc = "idle"

\* Nights without a pass are caught up with (models.py, "a catch-up after three days of
\* downtime bills each period once").
CaughtUp ==
    [][\A o \in Orgs \ touched, y \in Years :
          Month(date') # Month(date) /\ schedule[o][y].on /\ Active(o, y) # {}
          => schedule[o][y].bookmark = Month(date)]_billingVars

\* Every active structure is billed (run_scheduled_generation, "Bill every active structure
\* for the period that is due, once").
BillsEveryStructure ==
    [][\A o \in Orgs, y \in Years :
          schedule'[o][y].bookmark # schedule[o][y].bookmark =>
              \A s \in Students : place[o][s] \in Active(o, y) =>
                  <<y, schedule'[o][y].bookmark, s>> \in billed'[o]]_billingVars

\* A family is billed once a month.
OncePerMonth ==
    \A o \in Orgs, m \in Months, s \in Students, y, z \in Years :
        <<y, m, s>> \in billed[o] /\ <<z, m, s>> \in billed[o] => y = z
=============================================================================
