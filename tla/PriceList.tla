----------------------------- MODULE PriceList -----------------------------
(***************************************************************************)
(* What one class is billed in one academic year (modules/fees): the heads *)
(* and stationery articles a campus may charge, the structure that prices  *)
(* the class, the arrangements in which a student departs from it, the     *)
(* named concessions they draw on, and the challans that snapshot all of   *)
(* it.  An operation reads its guards with one statement and writes with a *)
(* later one; in between, other requests commit.                           *)
(***************************************************************************)
EXTENDS Integers, FiniteSets, FiniteSetsExt

CONSTANTS Heads,          \* codes of fee heads
          Articles,       \* codes of stationery articles
          Schemes,        \* codes of concessions
          Students,       \* the class
          Sums,           \* prices and flat sums, in the smallest coin
          Percents,
          Requests,       \* requests in flight
          None,
          MaxRequests     \* bound: requests ever begun

ASSUME PriceConstants ==
    /\ Sums \subseteq Nat /\ Percents \subseteq 1..100 /\ Percents # {} /\ MaxRequests \in Nat
    /\ Heads \cap Articles = {} /\ None \notin Heads \cup Articles \cup Schemes \cup Nat

VARIABLES status,       \* of heads, articles and schemes
          rate,         \* kind and value of a scheme
          structure,    \* fee_structures and its lines
          arranged,     \* student_fee_assignments
          names,        \* the heads the late-fee policy and the billing schedule name
          challan,      \* each student's newest challan
          sold,         \* articles some challan line charges
          request, begun,
          raced         \* history: what a request had read no longer held when it wrote

priceVars == <<status, rate, structure, arranged, names, challan, sold, request, begun, raced>>

Charges == Heads \cup Articles
SchemeRate == [kind: {"percent"}, value: Percents] \cup [kind: {"amount"}, value: Sums \ {0}]

\* What StudentFeeAssignmentInput accepts.
Departures ==
    [mode: {"added", "override"}, by: [kind: {"amount"}, value: Sums]]
    \cup [mode: {"discount"}, by: [kind: {"amount"}, value: Sums]]
    \cup [mode: {"discount"}, by: [kind: {"percent"}, value: Percents]]
    \cup [mode: {"discount"}, by: [kind: {"scheme"}, value: Schemes]]
    \cup [mode: {"excluded"}, by: {None}]

\* Dropped: the row is there and soft-deleted.
Dropped == [mode |-> "dropped", by |-> None]
Untouched == [mode |-> "none", by |-> None]
Nobody == [op |-> "none", on |-> None, what |-> None, found |-> None]

Line == [charge: Charges, source: {"class", "student"}, amount: Nat, off: Nat]

PricesTypeOK ==
    /\ status \in [Charges \cup Schemes -> {"absent", "active", "inactive", "deleted"}]
    /\ rate \in [Schemes -> SchemeRate]
    /\ structure \in [status: {"absent", "draft", "active", "archived"},
                      price: [Charges -> Nat \cup {None}]]
    /\ arranged \in [Students -> [Heads -> Departures \cup {Dropped, Untouched}]]
    /\ names \in [{"policy", "schedule"} -> Heads \cup {None}]
    /\ challan \in [Students -> [status: {"none", "draft", "issued"}, lines: SUBSET Line]]
    /\ sold \subseteq Articles
    /\ begun \in 0..MaxRequests
    /\ raced \in BOOLEAN

PricesInit ==
        /\ status = [x \in Charges \cup Schemes |-> "absent"]
        /\ rate = [k \in Schemes |-> CHOOSE new \in SchemeRate : TRUE]
        /\ structure = [status |-> "absent", price |-> [c \in Charges |-> None]]
        /\ arranged = [s \in Students |-> [h \in Heads |-> Untouched]]
        /\ names = [n \in {"policy", "schedule"} |-> None]
        /\ challan = [s \in Students |-> [status |-> "none", lines |-> {}]]
        /\ sold = {}
        /\ request = [r \in Requests |-> Nobody]
        /\ begun = 0
        /\ raced = FALSE

-----------------------------------------------------------------------------
(* What a student is billed.                                               *)

Present(x) == status[x] \in {"active", "inactive"}
Editable == structure.status \in {"draft", "active"}
Priced == {c \in Charges : structure.price[c] # None}
In(s, mode) == {h \in Heads : arranged[s][h].mode = mode}

\* Two decimals, half up: hundredths of a percentage of coins.
Money(hundredths) == (hundredths + 50) \div 100

\* Mutant: a discount agreed as a sum is taken whole
DiscountInFull(departure, gross) ==
    LET by == IF departure.by.kind = "scheme" THEN rate[departure.by.value] ELSE departure.by
    IN IF by.kind = "percent" THEN Money(gross * by.value) ELSE by.value

DiscountFor(departure, gross) ==
    LET by == IF departure.by.kind = "scheme" THEN rate[departure.by.value] ELSE departure.by
        raw == IF by.kind = "percent" THEN Money(gross * by.value) ELSE by.value
    IN Min({raw, gross})

BaseLines == {[head |-> h, amount |-> structure.price[h], source |-> "class"] :
                 h \in Priced \cap Heads}

\* Override, then excluded, then added: the class lines that remain, at the student's own
\* rate, and the student's own lines.
Lines(s) ==
    {IF l.head \in In(s, "override") THEN [l EXCEPT !.amount = arranged[s][l.head].by.value]
     ELSE l : l \in {l \in BaseLines : l.head \notin In(s, "excluded")}}
    \cup {[head |-> h, amount |-> arranged[s][h].by.value, source |-> "student"] :
             h \in In(s, "added")}

\* Discount last.
EffectiveLines(s) ==
    {[charge |-> l.head, source |-> l.source, amount |-> l.amount,
      off |-> IF l.head \in In(s, "discount") THEN DiscountFor(arranged[s][l.head], l.amount)
              ELSE 0] : l \in Lines(s)}

StationeryLines == {[charge |-> a, source |-> "class", amount |-> structure.price[a], off |-> 0] :
                       a \in Priced \cap Articles}

\* A challan's own lines; dues carried forward are FeeLedger's.
Billed(s, stationery) == EffectiveLines(s) \cup (IF stationery THEN StationeryLines ELSE {})

\* What the table takes: no line below zero, and one line for each head or article.
Accepted(lines) ==
    /\ \A l \in lines : 0 <= l.off /\ l.off <= l.amount
    /\ \A l, m \in lines : l.charge = m.charge => l = m

-----------------------------------------------------------------------------
(* Guards, read when a request begins.                                     *)

HeadInUse(h) == \/ h \in Priced
                \/ \E s \in Students : arranged[s][h].mode \notin {"none", "dropped"}
                \/ \E n \in DOMAIN names : names[n] = h

SchemeInUse(k) == \E s \in Students, h \in Heads :
                     /\ arranged[s][h].mode = "discount"
                     /\ arranged[s][h].by = [kind |-> "scheme", value |-> k]

ArticleInUse(a) == a \in Priced \/ a \in sold

\* Mutant: the arrangements of single students are not counted
MayDeleteUnlessShared(x) == /\ Present(x)
                            /\ x \in Heads => x \notin Priced /\ \A n \in DOMAIN names : names[n] # x
                            /\ x \in Schemes => ~SchemeInUse(x)
                            /\ x \in Articles => ~ArticleInUse(x)

MayDelete(x) == /\ Present(x)
                /\ x \in Heads => ~HeadInUse(x)
                /\ x \in Schemes => ~SchemeInUse(x)
                /\ x \in Articles => ~ArticleInUse(x)

MayPrice(c) == Editable /\ status[c] = "active"

MayArrange(h, departure) ==
    /\ Present(h)
    /\ departure.mode = "added" => status[h] = "active"
    /\ departure.mode = "discount" /\ departure.by.kind = "scheme"
       => status[departure.by.value] = "active"

\* A fine is billed under an active head; a schedule that carries no dues forward may name
\* an inactive one.
MayName(n, h) == Present(h) /\ (n = "policy" => status[h] = "active")

MayArchive == /\ structure.status \in {"draft", "active"}
              /\ \A s \in Students : challan[s].status # "draft"
MayBill == structure.status = "active" /\ Priced # {}

Begins(r, op, on, what, found) ==
    /\ request[r].op = "none" /\ begun < MaxRequests
    /\ request' = [request EXCEPT ![r] = [op |-> op, on |-> on, what |-> what, found |-> found]]
    /\ begun' = begun + 1
    /\ UNCHANGED <<status, rate, structure, arranged, names, challan, sold, raced>>

BeginsDelete(r, x) == MayDelete(x) /\ Begins(r, "delete", x, None, None)

\* set_structure_item, set_structure_stationery: a sum, or the article's price of the moment
\* times a quantity.
BeginsPrice(r, c, n) == MayPrice(c) /\ Begins(r, "price", c, n, structure.price[c])

BeginsArrange(r, s, h, departure) ==
    /\ MayArrange(h, departure)
    /\ Begins(r, "arrange", <<s, h>>, departure,
              IF arranged[s][h] = Dropped THEN Untouched ELSE arranged[s][h])

BeginsName(r, n, h) == MayName(n, h) /\ Begins(r, "name", n, h, None)

BeginsArchive(r) == MayArchive /\ Begins(r, "archive", None, None, None)

\* generate_vouchers: the lines of everybody who has no challan of the period yet, with the
\* stationery or without.
BeginsBill(r, stationery) ==
    /\ MayBill
    /\ Begins(r, "bill", None, stationery,
              [s \in {s \in Students : challan[s].status # "draft"} |-> Billed(s, stationery)])

-----------------------------------------------------------------------------
(* Writes.                                                                 *)

Ends(r, stillMay) ==
    /\ request' = [request EXCEPT ![r] = Nobody]
    /\ raced' = (raced \/ ~stillMay)
    /\ UNCHANGED begun

Deletes(r) ==
    LET x == request[r].on
    IN /\ request[r].op = "delete"
       /\ status' = [status EXCEPT ![x] = "deleted"]
       /\ Ends(r, MayDelete(x))
       /\ UNCHANGED <<rate, structure, arranged, names, challan, sold>>

\* An INSERT that finds a row, or an UPDATE that finds none, fails.
Prices(r) ==
    LET c == request[r].on
    IN /\ request[r].op = "price"
       /\ (request[r].found = None) = (structure.price[c] = None)
       /\ structure' = [structure EXCEPT !.price[c] = request[r].what]
       /\ Ends(r, MayPrice(c))
       /\ UNCHANGED <<status, rate, arranged, names, challan, sold>>

\* uq_student_fee_assignments_student_year_head counts soft-deleted rows: an INSERT fails
\* on them.  An UPDATE of a row that was soft-deleted since leaves it so.
Arranges(r) ==
    LET s == request[r].on[1]
        h == request[r].on[2]
    IN /\ request[r].op = "arrange"
       /\ request[r].found = Untouched => arranged[s][h] = Untouched
       /\ arranged' = IF arranged[s][h] = Dropped THEN arranged
                      ELSE [arranged EXCEPT ![s][h] = request[r].what]
       /\ Ends(r, MayArrange(h, request[r].what))
       /\ UNCHANGED <<status, rate, structure, names, challan, sold>>

Names(r) ==
    /\ request[r].op = "name"
    /\ names' = [names EXCEPT ![request[r].on] = request[r].what]
    /\ Ends(r, MayName(request[r].on, request[r].what))
    /\ UNCHANGED <<status, rate, structure, arranged, challan, sold>>

Archives(r) ==
    /\ request[r].op = "archive"
    /\ structure' = [structure EXCEPT !.status = "archived"]
    /\ Ends(r, MayArchive)
    /\ UNCHANGED <<status, rate, arranged, names, challan, sold>>

\* _create_voucher for each of them, in one transaction: the lines are a snapshot, and one
\* line the table refuses, or one student billed meanwhile, fails the whole class.
BillsClass(r) ==
    LET bills == request[r].found
    IN /\ request[r].op = "bill"
       /\ \A s \in DOMAIN bills : Accepted(bills[s]) /\ challan[s].status # "draft"
       /\ challan' = [s \in Students |-> IF s \in DOMAIN bills
                                         THEN [status |-> "draft", lines |-> bills[s]]
                                         ELSE challan[s]]
       /\ sold' = sold \cup {a \in Articles : \E s \in DOMAIN bills : \E l \in bills[s] :
                                                 l.charge = a}
       /\ Ends(r, MayBill /\ \A s \in DOMAIN bills : bills[s] = Billed(s, request[r].what))
       /\ UNCHANGED <<status, rate, structure, arranged, names>>

\* Refused by a constraint, or the request died: nothing of it is kept.
Fails(r) == /\ request[r].op # "none"
            /\ Ends(r, TRUE)
            /\ UNCHANGED <<status, rate, structure, arranged, names, challan, sold>>

-----------------------------------------------------------------------------
(* Operations of one statement, or whose reads nothing else changes.       *)

Others == UNCHANGED <<request, begun, raced>>

\* A code is unique for ever: the row of a deleted one stays.
Creates(x) ==
    /\ status[x] = "absent"
    /\ status' = [status EXCEPT ![x] = "active"]
    /\ IF x \in Schemes THEN \E new \in SchemeRate : rate' = [rate EXCEPT ![x] = new]
       ELSE UNCHANGED rate
    /\ Others /\ UNCHANGED <<structure, arranged, names, challan, sold>>

\* is_active is not guarded by what uses the row.
Retires(x) ==
    /\ Present(x)
    /\ status' = [status EXCEPT ![x] = IF status[x] = "active" THEN "inactive" ELSE "active"]
    /\ Others /\ UNCHANGED <<rate, structure, arranged, names, challan, sold>>

\* update_concession: the merged kind and value are checked, and by the table too.
RevisesScheme(k, new) ==
    /\ Present(k)
    /\ rate' = [rate EXCEPT ![k] = new]
    /\ Others /\ UNCHANGED <<status, structure, arranged, names, challan, sold>>

\* Refused while there is a row for the class and year, archived ones included.
CreatesStructure ==
    /\ structure.status = "absent"
    /\ structure' = [structure EXCEPT !.status = "draft"]
    /\ Others /\ UNCHANGED <<status, rate, arranged, names, challan, sold>>

Activates ==
    /\ structure.status = "draft" /\ Priced # {}
    /\ structure' = [structure EXCEPT !.status = "active"]
    /\ Others /\ UNCHANGED <<status, rate, arranged, names, challan, sold>>

\* Also the last line of an active structure.
Unprices(c) ==
    /\ Editable /\ c \in Priced
    /\ structure' = [structure EXCEPT !.price[c] = None]
    /\ Others /\ UNCHANGED <<status, rate, arranged, names, challan, sold>>

Unarranges(s, h) ==
    /\ arranged[s][h] \in Departures
    /\ arranged' = [arranged EXCEPT ![s][h] = Dropped]
    /\ Others /\ UNCHANGED <<status, rate, structure, names, challan, sold>>

\* delete_late_fee_policy, and a schedule that names no head any more.
Unnames(n) ==
    /\ names[n] # None
    /\ names' = [names EXCEPT ![n] = None]
    /\ Others /\ UNCHANGED <<status, rate, structure, arranged, challan, sold>>

\* The draft is issued or voided; FeeLedger says how.
Settles(s) ==
    /\ challan[s].status = "draft"
    /\ challan' = [challan EXCEPT ![s].status = "issued"]
    /\ Others /\ UNCHANGED <<status, rate, structure, arranged, names, sold>>

-----------------------------------------------------------------------------
PricesNext ==
        \/ \E r \in Requests :
              \/ \E x \in Charges \cup Schemes : BeginsDelete(r, x)
              \/ \E c \in Charges, n \in Sums : BeginsPrice(r, c, n)
              \/ \E s \in Students, h \in Heads, d \in Departures : BeginsArrange(r, s, h, d)
              \/ \E n \in DOMAIN names, h \in Heads : BeginsName(r, n, h)
              \/ BeginsArchive(r)
              \/ \E stationery \in BOOLEAN : BeginsBill(r, stationery)
              \/ Deletes(r) \/ Prices(r) \/ Arranges(r) \/ Names(r)
              \/ Archives(r) \/ BillsClass(r) \/ Fails(r)
        \/ \E x \in Charges \cup Schemes : Creates(x) \/ Retires(x)
        \/ \E k \in Schemes, new \in SchemeRate : RevisesScheme(k, new)
        \/ CreatesStructure \/ Activates
        \/ \E c \in Charges : Unprices(c)
        \/ \E s \in Students, h \in Heads : Unarranges(s, h)
        \/ \E n \in DOMAIN names : Unnames(n)
        \/ \E s \in Students : Settles(s)

PricesSpec == PricesInit /\ [][PricesNext]_priceVars

-----------------------------------------------------------------------------
(* Properties.                                                             *)

\* What is priced, arranged, named or sold is never a deleted row, and no draft belongs to
\* an archived structure, unless a guard was read before another request changed what it
\* counts (delete_head, "BOTH tables ... THE THIRD ARM ... THE FOURTH ARM").
NothingPricedIsGone ==
    raced \/ /\ \A h \in Heads : status[h] = "deleted" => ~HeadInUse(h)
             /\ \A k \in Schemes : status[k] = "deleted" => ~SchemeInUse(k)
             /\ \A a \in Articles : status[a] = "deleted" => ~ArticleInUse(a)
             /\ structure.status = "archived" => \A s \in Students : challan[s].status # "draft"

\* One line the table refuses fails the generation of the whole class.  Whatever is repriced,
\* revised or rounded after a discount was agreed, no line takes off more than it charges
\* (_discount_for, "CLAMPED TO THE GROSS"), and the class can be billed: all but a class with
\* a student to whom a head is ADDED that the class is billed for as well, whose two lines
\* for one head the index of fee_voucher_items refuses.
ClassIsBillable ==
    \A s \in Students : Accepted(Billed(s, TRUE)) <=> Priced \cap In(s, "added") = {}

\* No arrangement of one student keeps the rest of the class from being billed
\* (generate_vouchers, "SKIPS RATHER THAN FAILS").
NobodyStopsTheClass == \A s \in Students : Accepted(Billed(s, TRUE))

\* What was taken away can be given back (set_student_assignment, "sending the same head
\* twice updates the existing arrangement"), and what was archived replaced
\* (create_structure, "archive it and create a replacement").
ArrangementsReturn == \A r \in Requests : request[r].op = "arrange" => ENABLED Arranges(r)
StructuresReturn == structure.status = "archived" => ENABLED CreatesStructure

\* An active structure bills something (activate_structure, "An empty ACTIVE structure would
\* generate zero-value challans for a whole class").
ActiveIsPriced == structure.status = "active" => Priced # {}
=============================================================================
