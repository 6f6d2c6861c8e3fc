------------------------------- MODULE FeeRaces -------------------------------
(***************************************************************************)
(* Requests of the fee office that run at the same time on one family's    *)
(* challans.  Each is one transaction at READ COMMITTED (db/session.py),   *)
(* taken statement by statement: a read sees what is committed and what    *)
(* the transaction itself wrote; an UPDATE waits for the row's lock, which *)
(* is kept to the end; a challan once loaded is not read again (the        *)
(* session's identity map), except by the refresh that follows an UPDATE.  *)
(* An UPDATE names only the columns that differ from what was loaded.      *)
(*                                                                         *)
(* One UPDATE stands for a draft's carried line and the totals derived     *)
(* from it.  Every due date lies ahead, so no challan is overdue.          *)
(***************************************************************************)
EXTENDS Integers, FiniteSets, Sequences, SequencesExt

CONSTANTS
  Requests,   \* the requests that may come
  Crowds,     \* which of them come together; the others stay away
  Job,        \* per request: what it does, on which challan, with which receipt
  Vouchers,   \* numbers, in order of issue date and challan number
  Own,        \* per challan, what its own lines bill
  Reserves,   \* per challan, the draft that holds it at the start, or NoVoucher
  Billed,     \* the challans issued and charged before the start
  Receipts,
  Slip,       \* per receipt: its challan, its amount and the year it counts in
  Banked,     \* the receipts recorded before the start
  MaxAmount,  \* the widest amount a NUMERIC(12, 2) column holds
  NoVoucher

Amount == 0..MaxAmount

ASSUME RacesAssumption ==
  /\ MaxAmount \in Nat
  /\ Vouchers \subseteq Nat /\ Billed \subseteq Vouchers /\ Banked \subseteq Receipts
  /\ Own \in [Vouchers -> Amount]
  /\ Reserves \in [Vouchers -> Vouchers \cup {NoVoucher}]
  /\ Job \in [Requests -> [op: {"pay", "reverse", "void", "issue"},
                           voucher: Vouchers, receipt: Receipts]]
  /\ Slip \in [Receipts -> [voucher: Vouchers, amount: Amount, book: Nat]]
  /\ NoVoucher \notin Vouchers /\ IsFiniteSet(Requests)

\* A receipt is for one challan, the one its reversal loads, and a request to pay
\* writes a new one.  A draft takes no money, so what is banked is for a bill.
ASSUME SlipsAssumption ==
  /\ IsFiniteSet(Receipts)
  /\ \A p \in Banked : Slip[p].voucher \in Billed
  /\ \A r \in Requests :
       Job[r].op \in {"pay", "reverse"} => Slip[Job[r].receipt].voucher = Job[r].voucher
  /\ \A r \in Requests : Job[r].op = "pay" =>
       /\ Job[r].receipt \notin Banked
       /\ \A q \in Requests \ {r} : Job[q].op = "pay" => Job[q].receipt # Job[r].receipt

Types == {"charge", "payment", "payment_reversed", "voucher_voided"}
\* A movement to append, and a line of the statement.
Movement == [type: Types, voucher: Vouchers, amount: Int]
Line == [type: Types, voucher: Vouchers, amount: Int, after: Int, began: Nat]

VARIABLES
  voucher,   \* fee_vouchers, as committed
  receipt,   \* fee_payments, as committed
  entries,   \* student_ledger_entries since the start, in order of commit
  balance,   \* SUM(amount) over all committed entries, the earlier ones included
  tx         \* per request: where it is, and what its session holds
vars == <<voucher, receipt, entries, balance, tx>>

SumOver(f(_), S) == SumFunction([x \in S |-> f(x)])
AmountOf(p) == Slip[p].amount
Total(v, row) == Own[v] + row.carried

\* `_recalculate`: paid_total and status from the receipts.
Recalculated(v, row, money) ==
  [row EXCEPT !.paid = money,
              !.status = IF money >= Total(v, row) /\ Total(v, row) > 0 THEN "paid"
                         ELSE IF money > 0 THEN "partly_paid" ELSE "issued"]

\* A challan's row, before any of the requests: billed ones hold what was banked.
OpeningRow(v) ==
  LET holds == {u \in Vouchers : Reserves[u] = v}
      draft == [status |-> "draft", paid |-> 0, reservedBy |-> Reserves[v],
                carried |-> SumOver(LAMBDA u : Own[u], holds)]
      banked == SumOver(AmountOf, {p \in Banked : Slip[p].voucher = v})
  IN  IF v \in Billed THEN Recalculated(v, draft, banked) ELSE draft

Unread == [status |-> "unread", paid |-> 0, reservedBy |-> NoVoucher, carried |-> 0]
NoEntry == [type |-> "none", voucher |-> NoVoucher, amount |-> 0]
Idle(pc) == [pc |-> pc, began |-> 0, seen |-> [v \in Vouchers |-> Unread],
             locks |-> {}, wrote |-> "nothing", number |-> 0, money |-> 0,
             todo |-> {}, drops |-> {}, absorbs |-> {}, victim |-> NoVoucher,
             due |-> NoEntry, own |-> <<>>, moved |-> 0]

OpeningBalance ==
  SumOver(LAMBDA v : Total(v, OpeningRow(v)) - OpeningRow(v).paid, Billed)
\* What stands in the tables at the start fits their columns.
ASSUME OpeningAssumption ==
  OpeningBalance \in Int /\ \A v \in Vouchers : OpeningRow(v).carried \in Amount

Init ==
  /\ voucher = [v \in Vouchers |-> OpeningRow(v)]
  /\ receipt = [p \in Receipts |-> IF p \in Banked THEN "recorded" ELSE "none"]
  /\ entries = <<>>
  /\ balance = OpeningBalance
  /\ \E crowd \in Crowds :
        tx = [r \in Requests |-> Idle(IF r \in crowd THEN "start" ELSE "refused")]

-----------------------------------------------------------------------------
(* What a statement of request r reads.                                     *)

\* A challan as SQL sees it: the version r wrote, or the committed one.
Current(r, v) == IF <<"voucher", v>> \in tx[r].locks THEN tx[r].seen[v] ELSE voucher[v]
\* The same as a session sees it: whatever it loaded first.
Loaded(r, v) == IF tx[r].seen[v].status = "unread" THEN Current(r, v) ELSE tx[r].seen[v]
Loading(r, S) == [v \in Vouchers |-> IF v \in S THEN Loaded(r, v) ELSE tx[r].seen[v]]

\* Mutant: the cached figure and this request's own receipt.
CollectedByCache(r, v) ==
  tx[r].seen[v].paid + (IF tx[r].wrote = "recorded" THEN AmountOf(Job[r].receipt) ELSE 0)
\* `effective_total`: SUM over the receipts recorded against the challan.
Collected(r, v) ==
  LET status(p) == IF p = Job[r].receipt /\ tx[r].wrote # "nothing" THEN tx[r].wrote
                   ELSE receipt[p]
  IN  SumOver(AmountOf, {p \in Receipts : Slip[p].voucher = v /\ status(p) = "recorded"})
\* `reserved_by`
ReservedBy(r, v) == {u \in Vouchers : Current(r, u).reservedBy = v}
\* Mutant: the guard looks at nothing but this request's own entries.
HasChargeOfOwn(r, v) ==
  v \in Billed \/ \E e \in ToSet(tx[r].own) : e.type = "charge" /\ e.voucher = v
\* `has_entry_for`, `has_debit_for`: is there a CHARGE for the challan?
HasCharge(r, v) ==
  v \in Billed \/ \E e \in ToSet(entries \o tx[r].own) : e.type = "charge" /\ e.voucher = v
\* Receipt numbers of a year run from 1: the count is the last one used.
Used(book) == Cardinality({p \in Receipts : Slip[p].book = book /\ receipt[p] # "none"})

-----------------------------------------------------------------------------
(* Locks.  UPDATE and INSERT take theirs when they run, COMMIT gives back.  *)

\* The row an UPDATE of fee_vouchers names, and the row it means to leave.
Target(r) == CASE tx[r].pc = "release" -> Min(tx[r].todo)
               [] tx[r].pc = "drop"    -> Min(tx[r].drops)
               [] tx[r].pc = "strike"  -> tx[r].victim
               [] OTHER                -> Job[r].voucher
CarriesDues(r) ==
  LET v == Job[r].voucher IN tx[r].seen[v].carried # 0 /\ Current(r, v).carried # 0
Meant(r) ==
  LET old == tx[r].seen[Target(r)]
  IN  CASE tx[r].pc = "write"              -> Recalculated(Target(r), old, tx[r].money)
        [] tx[r].pc \in {"release", "drop"} -> [old EXCEPT !.reservedBy = NoVoucher]
        [] tx[r].pc = "reprice" /\ CarriesDues(r) -> [old EXCEPT !.carried = tx[r].money]
        [] tx[r].pc = "strike"             -> [old EXCEPT !.status = "void"]
        [] tx[r].pc = "issue"              -> [old EXCEPT !.status = "issued"]
        [] OTHER                           -> old

\* voided_at, issued_at and a new paid_at differ from what was loaded every time.
Stamps(r) ==
  \/ tx[r].pc \in {"strike", "issue"}
  \/ tx[r].pc = "write" /\ Meant(r).status = "paid"
\* Mutant: the student row is not locked before the running total is taken.
WantsButStudent(r) ==
  CASE Stamps(r) \/ Meant(r) # tx[r].seen[Target(r)] -> {<<"voucher", Target(r)>>}
    [] tx[r].pc = "insert" -> {<<"number", Slip[Job[r].receipt].book, tx[r].number>>}
    [] tx[r].pc = "flip"   -> {<<"receipt", Job[r].receipt>>}
    [] OTHER               -> {}
\* The lock that the next statement of r needs.
Wants(r) ==
  CASE Stamps(r) \/ Meant(r) # tx[r].seen[Target(r)] -> {<<"voucher", Target(r)>>}
    [] tx[r].pc = "insert" -> {<<"number", Slip[Job[r].receipt].book, tx[r].number>>}
    [] tx[r].pc = "flip"   -> {<<"receipt", Job[r].receipt>>}
    [] tx[r].pc = "append" -> {<<"student", 0>>}
    [] OTHER               -> {}
WaitsFor(r, q) == r # q /\ Wants(r) \cap tx[q].locks # {}
Unblocked(r) == \A q \in Requests : ~WaitsFor(r, q)
\* A lock has one holder, so a set of requests in which each waits for one and
\* is waited for by one is made of cycles.
Deadlocked(S) ==
  \A r \in S : (\E q \in S : WaitsFor(r, q)) /\ (\E q \in S : WaitsFor(q, r))

At(r, pc) == tx[r].pc = pc
Does(r, op) == Job[r].op = op
Move(r, t) == tx' = [tx EXCEPT ![r] = t] /\ UNCHANGED <<voucher, receipt, entries, balance>>
\* Mutant: a failed request is answered and its transaction left open.
RefuseHolding(r) == Move(r, [Idle("refused") EXCEPT !.locks = tx[r].locks])
\* An error anywhere rolls the whole request back.
Refuse(r) == Move(r, Idle("refused"))
Answer(r) == Move(r, Idle("answered"))
Begun(r) == [tx[r] EXCEPT !.began = Cardinality({q \in Requests : ~At(q, "start")})]

\* Write the columns that changed over the row as it is by then, and refresh.
Update(r, t) ==
  LET v == Target(r)
      merged == [c \in DOMAIN Unread |->
                   IF Meant(r)[c] = tx[r].seen[v][c] THEN Current(r, v)[c] ELSE Meant(r)[c]]
  IN  /\ Unblocked(r)
      /\ Move(r, [t EXCEPT !.seen[v] = merged, !.locks = @ \cup Wants(r)])

Entry(type, v, amount) == [type |-> type, voucher |-> v, amount |-> amount]
\* `_ledger_append`: the running balance is taken under the student's row lock.
Appends(r) ==
  LET t == tx[r]
      moved == t.moved + t.due.amount
      line == [type |-> t.due.type, voucher |-> t.due.voucher, amount |-> t.due.amount,
               after |-> balance + moved, began |-> t.began]
      next == IF ~Does(r, "issue") \/ t.due.type = "charge" THEN "commit"
              ELSE IF t.absorbs = {} THEN "issue" ELSE "check"
  IN  /\ At(r, "append") /\ Unblocked(r)
      /\ Move(r, [t EXCEPT !.pc = next, !.own = Append(@, line), !.moved = moved,
                           !.locks = @ \cup Wants(r)])

Commits(r) ==
  /\ At(r, "commit")
  /\ voucher' = [v \in Vouchers |-> Current(r, v)]
  /\ receipt' = [receipt EXCEPT ![Job[r].receipt] =
                   IF tx[r].wrote = "nothing" THEN @ ELSE tx[r].wrote]
  /\ entries' = entries \o tx[r].own
  /\ balance' = balance + tx[r].moved
  /\ tx' = [tx EXCEPT ![r] = Idle("answered")]

-----------------------------------------------------------------------------
(* record_payment                                                           *)

PayLoads(r) ==
  LET v == Job[r].voucher
      row == voucher[v]
      left == Total(v, row) - row.paid
  IN  /\ Does(r, "pay") /\ At(r, "start")
      /\ IF row.status \in {"draft", "void"} \/ AmountOf(Job[r].receipt) > left
         THEN Refuse(r)
         ELSE Move(r, [Begun(r) EXCEPT !.pc = "number", !.seen[v] = row])

PayNumbers(r) ==
  /\ At(r, "number")
  /\ Move(r, [tx[r] EXCEPT !.pc = "insert", !.number = Used(Slip[Job[r].receipt].book) + 1])

\* A number taken meanwhile is a 409; one being taken is waited for.
PayInserts(r) ==
  LET p == Job[r].receipt
  IN  /\ At(r, "insert") /\ Unblocked(r)
      /\ IF tx[r].number <= Used(Slip[p].book)
         THEN Refuse(r)
         ELSE Move(r, [tx[r] EXCEPT !.pc = "sum", !.wrote = "recorded",
                         !.locks = @ \cup Wants(r),
                         !.due = Entry("payment", Job[r].voucher, -AmountOf(p))])

Sums(r) ==
  /\ At(r, "sum")
  /\ Move(r, [tx[r] EXCEPT !.pc = "write", !.money = Collected(r, Job[r].voucher)])

Writes(r) == At(r, "write") /\ Update(r, [tx[r] EXCEPT !.pc = "append"])

(* reverse_payment                                                          *)

ReverseLoads(r) ==
  /\ Does(r, "reverse") /\ At(r, "start")
  /\ IF receipt[Job[r].receipt] = "recorded"
     THEN Move(r, [Begun(r) EXCEPT !.pc = "flip"]) ELSE Refuse(r)

ReverseFlips(r) ==
  LET p == Job[r].receipt
  IN  /\ At(r, "flip") /\ Unblocked(r)
      /\ Move(r, [tx[r] EXCEPT !.pc = "load", !.wrote = "reversed",
                     !.locks = @ \cup Wants(r),
                     !.due = Entry("payment_reversed", Job[r].voucher, AmountOf(p))])

ReverseReads(r) ==
  /\ At(r, "load")
  /\ Move(r, [tx[r] EXCEPT !.pc = "sum", !.seen = Loading(r, {Job[r].voucher})])

-----------------------------------------------------------------------------
(* void_voucher, by itself or for each challan that a draft absorbs         *)

VoidLoads(r) ==
  LET v == Job[r].voucher
  IN  /\ Does(r, "void") /\ At(r, "start")
      /\ CASE voucher[v].status = "void" -> Answer(r)
           [] voucher[v].status = "paid" -> Refuse(r)
           [] OTHER -> Move(r, [Begun(r) EXCEPT !.pc = "check", !.seen[v] = voucher[v],
                                                !.absorbs = {v}])

VoidChecks(r) ==
  LET v == Min(tx[r].absorbs)
  IN  /\ At(r, "check")
      /\ IF Collected(r, v) > 0
         THEN Refuse(r)
         ELSE Move(r, [tx[r] EXCEPT !.pc = "holdings", !.victim = v, !.absorbs = @ \ {v}])

VoidFinds(r) ==
  LET held == ReservedBy(r, tx[r].victim)
  IN  /\ At(r, "holdings")
      /\ Move(r, [tx[r] EXCEPT !.pc = IF held = {} THEN "strike" ELSE "release",
                               !.todo = held, !.seen = Loading(r, held)])

VoidReleases(r) ==
  LET left == tx[r].todo \ {Min(tx[r].todo)}
  IN  /\ At(r, "release")
      /\ Update(r, [tx[r] EXCEPT !.pc = IF left = {} THEN "strike" ELSE "release",
                                 !.todo = left])

VoidStrikes(r) == At(r, "strike") /\ Update(r, [tx[r] EXCEPT !.pc = "debit"])

VoidCredits(r) ==
  LET v == tx[r].victim
      next == IF Does(r, "void") THEN "commit"
              ELSE IF tx[r].absorbs = {} THEN "issue" ELSE "check"
  IN  /\ At(r, "debit")
      /\ IF HasCharge(r, v)
         THEN Move(r, [tx[r] EXCEPT !.pc = "append",
                         !.due = Entry("voucher_voided", v, -Total(v, tx[r].seen[v]))])
         ELSE Move(r, [tx[r] EXCEPT !.pc = next])

-----------------------------------------------------------------------------
(* issue_voucher                                                            *)

IssueLoads(r) ==
  LET v == Job[r].voucher
  IN  /\ Does(r, "issue") /\ At(r, "start")
      /\ CASE voucher[v].status = "void"  -> Refuse(r)
           [] voucher[v].status = "draft" ->
                Move(r, [Begun(r) EXCEPT !.pc = "reserved", !.seen[v] = voucher[v]])
           [] OTHER -> Answer(r)

IssueFinds(r) ==
  LET held == ReservedBy(r, Job[r].voucher)
  IN  /\ At(r, "reserved")
      /\ Move(r, [tx[r] EXCEPT !.pc = IF held = {} THEN "issue" ELSE "sort",
                               !.todo = held, !.seen = Loading(r, held)])

\* A reserved challan that took money is let go, the others are absorbed.
IssueSorts(r) ==
  LET v == Min(tx[r].todo)
      left == tx[r].todo \ {v}
      gone == Collected(r, v) > 0 \/ tx[r].seen[v].status \in {"void", "paid"}
      drops == IF gone THEN tx[r].drops \cup {v} ELSE tx[r].drops
      absorbs == IF gone THEN tx[r].absorbs ELSE tx[r].absorbs \cup {v}
      next == IF left # {} THEN "sort" ELSE IF drops # {} THEN "drop" ELSE "check"
  IN  /\ At(r, "sort")
      /\ Move(r, [tx[r] EXCEPT !.pc = next, !.todo = left, !.drops = drops,
                               !.absorbs = absorbs])

IssueDrops(r) ==
  LET left == tx[r].drops \ {Min(tx[r].drops)}
      remains == SumOver(LAMBDA v : Total(v, tx[r].seen[v]), tx[r].absorbs)
  IN  /\ At(r, "drop")
      /\ Update(r, [tx[r] EXCEPT !.pc = IF left = {} THEN "reprice" ELSE "drop",
                                 !.drops = left, !.money = remains])

\* Skipped when the draft carries nothing; too wide a line fails the request.
IssueReprices(r) ==
  LET next == [tx[r] EXCEPT !.pc = IF tx[r].absorbs = {} THEN "issue" ELSE "check"]
  IN  /\ At(r, "reprice")
      /\ CASE ~CarriesDues(r) -> Move(r, next)
           [] CarriesDues(r) /\ tx[r].money \notin Amount -> Unblocked(r) /\ Refuse(r)
           [] OTHER -> Update(r, next)

IssueIssues(r) == At(r, "issue") /\ Update(r, [tx[r] EXCEPT !.pc = "charge"])

\* `_ledger_charge`: nothing for a challan of nothing, never twice for one.
IssueCharges(r) ==
  LET v == Job[r].voucher
      total == Total(v, tx[r].seen[v])
  IN  /\ At(r, "charge")
      /\ IF total = 0 \/ HasCharge(r, v)
         THEN Move(r, [tx[r] EXCEPT !.pc = "commit"])
         ELSE Move(r, [tx[r] EXCEPT !.pc = "append", !.due = Entry("charge", v, total)])

-----------------------------------------------------------------------------
\* The database ends one request of every cycle of requests that wait.
DeadlockAborts(r) ==
  /\ ~Unblocked(r)
  /\ \E S \in SUBSET Requests : r \in S /\ Deadlocked(S)
  /\ Refuse(r)

Step(r) ==
  \/ PayLoads(r) \/ PayNumbers(r) \/ PayInserts(r) \/ Sums(r) \/ Writes(r)
  \/ ReverseLoads(r) \/ ReverseFlips(r) \/ ReverseReads(r)
  \/ VoidLoads(r) \/ VoidChecks(r) \/ VoidFinds(r) \/ VoidReleases(r)
  \/ VoidStrikes(r) \/ VoidCredits(r)
  \/ IssueLoads(r) \/ IssueFinds(r) \/ IssueSorts(r) \/ IssueDrops(r)
  \/ IssueReprices(r) \/ IssueIssues(r) \/ IssueCharges(r)
  \/ Appends(r) \/ Commits(r) \/ DeadlockAborts(r)

Over(r) == tx[r].pc \in {"answered", "refused"}
Next == \E r \in Requests : Step(r)
\* A worker runs each request on, and the database runs its deadlock detector.
Spec == Init /\ [][Next]_vars /\ \A r \in Requests : WF_vars(Step(r))

-----------------------------------------------------------------------------
\* What the ledger's arithmetic needs of the tables and of every session.
TypeOK ==
  /\ balance \in Int
  /\ entries \in Seq(Line)
  /\ receipt \in [Receipts -> {"none", "recorded", "reversed"}]
  /\ \A v \in Vouchers : voucher[v].carried \in Amount
  /\ \A r \in Requests :
       /\ tx[r].moved \in Int /\ tx[r].due \in Movement \cup {NoEntry} /\ tx[r].own \in Seq(Line)
       /\ tx[r].began \in Nat /\ tx[r].wrote \in {"nothing", "recorded", "reversed"}
       /\ \A v \in Vouchers : tx[r].seen[v].carried \in Amount

\* Every line of the statement continues the one committed before it, and the
\* last one is the balance: no two requests of a family ever take the running
\* total from the same state of the account.
RunningBalance ==
  \A i \in DOMAIN entries :
    /\ i > 1 => entries[i].after = entries[i - 1].after + entries[i].amount
    /\ i = Len(entries) => entries[i].after = balance

\* However often and however concurrently a draft is issued, absorbed and
\* cancelled, the family is charged for it once.
ChargedOnce ==
  \A i, j \in DOMAIN entries :
    entries[i].type = "charge" /\ entries[j].type = "charge"
      /\ entries[i].voucher = entries[j].voucher => i = j

\* A family is credited for a challan at most once.
CreditedOnce ==
  \A i, j \in DOMAIN entries :
    entries[i].type = "voucher_voided" /\ entries[j].type = "voucher_voided"
      /\ entries[i].voucher = entries[j].voucher => i = j

Banks(v) ==
  SumOver(AmountOf, {p \in Receipts : Slip[p].voucher = v /\ receipt[p] = "recorded"})
\* `paid_total` never disagrees with the committed receipts.
PaidIsReceipts == \A v \in Vouchers : voucher[v].paid = Banks(v)

\* A cancelled challan never holds money.
VoidHoldsNoMoney == \A v \in Vouchers : voucher[v].status = "void" => Banks(v) = 0

\* The newest line of the statement, by the time its request began, is the balance.
TopRowIsBalance ==
  \A i \in DOMAIN entries :
    (\A j \in DOMAIN entries : entries[j].began < entries[i].began
                                 \/ (entries[j].began = entries[i].began /\ j <= i))
      => entries[i].after = balance

\* Every request is answered: none waits for ever on another's locks.
AllAnswered == <>(\A r \in Requests : Over(r))
=============================================================================
