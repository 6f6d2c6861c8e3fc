------------------------------ MODULE FeeLedger ------------------------------
(***************************************************************************)
(* Challans, receipts and the student ledger of one campus and one         *)
(* academic year (modules/fees/service.py).  Every action is one request   *)
(* of the fee office, or one pass of the nightly late-fee job, run to its  *)
(* commit: `get_db` gives each request one transaction, and this module    *)
(* takes the transactions one at a time.                                   *)
(*                                                                         *)
(* Money is integral.  A challan's lines are grouped in three amounts: the *)
(* fee lines net of concessions, the stationery lines, and the line that   *)
(* carries the dues of the challans it absorbs.                            *)
(***************************************************************************)
EXTENDS Integers, FiniteSets, Functions

CONSTANTS
  Students,          \* the active students of one class
  Periods,           \* the period labels a run may bill
  Vouchers,          \* identities for rows of fee_vouchers
  Payments,          \* identities for rows of fee_payments
  Fees,              \* what the fee lines of a challan may come to
  Stationery,        \* what the structure's stationery lines may come to
  Charges,           \* amounts typed at the counter: charges and receipts
  Fines,             \* what the late-fee policy may assess
  Adjustments,       \* signed corrections of the ledger
  MaxAmount,         \* the widest amount a NUMERIC(12, 2) column holds
  MaxAdjusted,       \* bound: how far corrections may move one balance
  EditsCarriedLine,  \* does the office retype or remove carried lines?
  NoStudent, NoVoucher, NoPeriod

ASSUME AmountsAssumption ==
  /\ MaxAmount \in Nat /\ MaxAdjusted \in Nat
  /\ Fees \subseteq 0..MaxAmount /\ Stationery \subseteq 0..MaxAmount
  /\ Charges \subseteq 1..MaxAmount /\ Fines \subseteq 1..MaxAmount
  /\ Adjustments \subseteq Int \ {0}

ASSUME NamesAssumption ==
  /\ EditsCarriedLine \in BOOLEAN
  /\ NoStudent \notin Students
  /\ NoVoucher \notin Vouchers
  /\ NoPeriod \notin Periods

\* A table has finitely many rows: the sums of SQL are over those.
ASSUME RowsAssumption == IsFiniteSet(Vouchers) /\ IsFiniteSet(Payments)

Amount == 0..MaxAmount
Statuses == {"none", "draft", "issued", "partly_paid", "paid", "overdue", "void"}
VoucherEntries == {"charge", "late_fee", "voucher_voided"}
ReceiptEntries == {"payment", "payment_reversed"}
Lines == {"fees", "stationery", "carried"}

Row == [status: Statuses, student: Students \cup {NoStudent},
        period: Periods \cup {NoPeriod}, origin: {"regular", "late_fee"},
        lines: [Lines -> Amount], carryHead: BOOLEAN, arrears: Amount,
        paid: Int, supersededBy: Vouchers \cup {NoVoucher}, pastDue: BOOLEAN]
Receipt == [status: {"none", "recorded", "reversed"},
            voucher: Vouchers \cup {NoVoucher}, amount: Amount]

VARIABLES
  row,       \* fee_vouchers; an identity not yet used has status "none"
  payments,  \* fee_payments
  received,  \* per voucher, SUM(amount) over its RECORDED payments
  ledger,    \* student_ledger_entries that name a voucher and no receipt, by type
  movement,  \* student_ledger_entries that name a receipt, by type
  adjusted   \* the ledger's adjustments, which name neither
vars == <<row, payments, received, ledger, movement, adjusted>>

LinesOf(fees, stationery, carried) ==
  [l \in Lines |-> CASE l = "fees" -> fees
                     [] l = "stationery" -> stationery
                     [] l = "carried" -> carried]
NoRow == [status |-> "none", student |-> NoStudent, period |-> NoPeriod,
          origin |-> "regular", lines |-> LinesOf(0, 0, 0), carryHead |-> FALSE,
          arrears |-> 0, paid |-> 0, supersededBy |-> NoVoucher, pastDue |-> FALSE]
NoReceipt == [status |-> "none", voucher |-> NoVoucher, amount |-> 0]

Init == /\ row = [v \in Vouchers |-> NoRow]
        /\ payments = [p \in Payments |-> NoReceipt]
        /\ received = [v \in Vouchers |-> 0]
        /\ ledger = [v \in Vouchers |-> [t \in VoucherEntries |-> 0]]
        /\ movement = [p \in Payments |-> [t \in ReceiptEntries |-> 0]]
        /\ adjusted = [s \in Students |-> 0]

-----------------------------------------------------------------------------
OwnCharge(r) == r.lines["fees"] + r.lines["stationery"]
Total(r) == OwnCharge(r) + r.lines["carried"]
SumTotals(rows, S) == SumFunction([v \in S |-> Total(rows[v])])

Unused == {v \in Vouchers : row[v].status = "none"}
OnAccount(r) == r.status \notin {"none", "draft", "void"}
VouchersOf(s) == {v \in Vouchers : row[v].student = s}

\* What the ledger says of one voucher, and of one receipt.
Net(l) == l["charge"] + l["late_fee"] + l["voucher_voided"]
Moved(m) == m["payment"] + m["payment_reversed"]
Owed(s) ==
  LET mine == {p \in Payments : payments[p].voucher \in VouchersOf(s)}
  IN  SumFunction([v \in VouchersOf(s) |-> Net(ledger[v])])
        + SumFunction([p \in mine |-> Moved(movement[p])])
\* `balance_for`: every entry of the student, adjustments included.
Balance(s) == Owed(s) + adjusted[s]

\* Mutant: looks for a CHARGE only, so a fine is never credited back.
HasDebitByCharge(l) == l["charge"] # 0
\* `has_debit_for`: an ordinary challan debits as a charge, a fine as a late fee.
HasDebit(l) == l["charge"] # 0 \/ l["late_fee"] # 0

\* `effective_total` is above zero: receipts are positive, so one stands.
Standing(v) ==
  {p \in Payments : payments[p].status = "recorded" /\ payments[p].voucher = v}
TookMoney(v) == Standing(v) # {}

\* `_recalculate`: paid_total and status from the receipts, the due date last.
Recalculated(r, money) ==
  LET status == IF money >= Total(r) /\ Total(r) > 0 THEN "paid"
                ELSE IF money > 0 THEN "partly_paid" ELSE "issued"
  IN  [r EXCEPT !.paid = money,
                !.status = IF status # "paid" /\ r.pastDue THEN "overdue" ELSE status]

\* A subtotal or an arrears figure too wide for its column fails the request.
Fits(r) == r.lines["carried"] \in Amount /\ Total(r) \in Amount /\ r.arrears \in Amount

-----------------------------------------------------------------------------
(* Consolidation: a challan reserves the unpaid ones it will absorb, and    *)
(* cancels them when it is issued.                                          *)

\* Mutant: offers a challan another draft has already reserved.
AbsorbableTwice(r) == r.status \in {"issued", "overdue"} /\ r.paid = 0
\* `absorbable_for_students`: unpaid, on the account, not already reserved.
Absorbable(r) ==
  r.status \in {"issued", "overdue"} /\ r.paid = 0 /\ r.supersededBy = NoVoucher

Reserved(rows, w) == {v \in Vouchers : rows[v].supersededBy = w}
\* Mutant: a part payment does not release a challan.
ReleasedIfSettled(rows, w) ==
  {v \in Reserved(rows, w) : rows[v].status \in {"void", "paid"}}
\* A reserved challan that took money, or is settled or void, is let go.
Released(rows, w) ==
  {v \in Reserved(rows, w) : TookMoney(v) \/ rows[v].status \in {"void", "paid"}}
Absorbed(rows, w) == Reserved(rows, w) \ Released(rows, w)

\* Mutants: a release leaves the carried line as printed, or drops it whole.
NotRepriced(rows, w) == rows[w]
CarryDropped(rows, w) ==
  IF Released(rows, w) # {} THEN [rows[w] EXCEPT !.lines["carried"] = 0] ELSE rows[w]
\* `_reprice_carried_line`: after a release, the carried line bills what is left.
Repriced(rows, w) ==
  LET r == rows[w]
      left == SumTotals(rows, Absorbed(rows, w))
  IN  IF /\ Released(rows, w) # {} /\ r.status = "draft"
         /\ r.carryHead /\ r.lines["carried"] # 0
      THEN [r EXCEPT !.lines["carried"] = left, !.carryHead = left > 0]
      ELSE r

\* Mutant: a cancelled challan keeps its reservations.
VoidedHolding(rows, gone) ==
  [v \in Vouchers |-> IF v \in gone THEN [rows[v] EXCEPT !.status = "void"] ELSE rows[v]]
\* `void_voucher` on every challan of the set gone: each lets go what it reserved.
Voided(rows, gone) ==
  [v \in Vouchers |->
     [rows[v] EXCEPT !.status = IF v \in gone THEN "void" ELSE @,
                     !.supersededBy = IF @ \in gone THEN NoVoucher ELSE @]]
VoidCredited(rows, l, gone) ==
  [v \in Vouchers |->
     IF v \in gone /\ HasDebit(l[v])
     THEN [l[v] EXCEPT !["voucher_voided"] = @ - Total(rows[v])] ELSE l[v]]

\* `_settle_superseded`, for each challan of the set bills.
AllAbsorbed(rows, bills) == UNION {Absorbed(rows, w) : w \in bills}
Settled(rows, bills) ==
  LET freed == UNION {Released(rows, w) : w \in bills}
  IN  Voided([v \in Vouchers |->
                IF v \in bills THEN Repriced(rows, v)
                ELSE IF v \in freed THEN [rows[v] EXCEPT !.supersededBy = NoVoucher]
                ELSE rows[v]],
             AllAbsorbed(rows, bills))

\* `_ledger_charge`: nothing for a challan of nothing, never twice for one.
Charged(rows, l, bills) ==
  [v \in Vouchers |->
     IF v \in bills /\ Total(rows[v]) # 0 /\ l[v]["charge"] = 0
     THEN [l[v] EXCEPT !["charge"] = Total(rows[v])] ELSE l[v]]

\* Settle what the bills absorb, then charge them.
Bill(rows, bills) ==
  LET settled == Settled(rows, bills)
      billed  == [v \in Vouchers |->
                    IF v \in bills THEN [settled[v] EXCEPT !.status = "issued"]
                    ELSE settled[v]]
  IN  /\ \A v \in bills : Fits(billed[v])
      /\ row' = billed
      /\ ledger' = Charged(billed, VoidCredited(rows, ledger, AllAbsorbed(rows, bills)), bills)

-----------------------------------------------------------------------------
\* A student already holding a live challan of the period is skipped.
Billable(s, period) ==
  \A v \in VouchersOf(s) : row[v].period # period \/ row[v].status = "void"

\* `_create_voucher`: the paper, with its lines and figures snapshotted.
NewChallan(s, period, fees, stationery, absorbed) ==
  LET carried == SumTotals(row, absorbed)
  IN  [status |-> "draft", student |-> s, period |-> period, origin |-> "regular",
       lines |-> LinesOf(fees, stationery, carried), carryHead |-> carried > 0,
       arrears |-> IF Balance(s) > carried THEN Balance(s) - carried ELSE 0,
       paid |-> 0, supersededBy |-> NoVoucher, pastDue |-> FALSE]

\* `generate_vouchers`: bill a class, as drafts or issued in the same breath.
GenerateVouchers(asked, period, stationery, carry, issue) ==
  LET billable == {s \in asked : Billable(s, period)}
      taken(s) == {v \in VouchersOf(s) : carry /\ Absorbable(row[v])}
  IN  \E new \in Injection(billable, Unused), fees \in [billable -> Fees] :
        LET made(s) == NewChallan(s, period, fees[s], stationery, taken(s))
            rows == [v \in Vouchers |->
                       IF \E s \in billable : v = new[s]
                       THEN made(CHOOSE s \in billable : v = new[s])
                       ELSE IF \E s \in billable : v \in taken(s)
                       THEN [row[v] EXCEPT !.supersededBy = new[row[v].student]]
                       ELSE row[v]]
        IN  /\ billable # {}
            /\ \A s \in billable : Fits(made(s))
            /\ IF issue THEN Bill(rows, {new[s] : s \in billable})
                        ELSE row' = rows /\ UNCHANGED ledger
            /\ UNCHANGED <<payments, received, movement, adjusted>>

\* `issue_voucher`: issuing an issued challan again answers with it, unchanged.
IssueVoucher(v) ==
  /\ row[v].status = "draft"
  /\ Bill(row, {v})
  /\ UNCHANGED <<payments, received, movement, adjusted>>

CanVoid(v) == row[v].status \notin {"none", "void", "paid"} /\ ~TookMoney(v)

\* `void_voucher`: cancel a bill, and credit the family if it was ever debited.
VoidVoucher(v) ==
  /\ CanVoid(v)
  /\ row' = Voided(row, {v})
  /\ ledger' = VoidCredited(row, ledger, {v})
  /\ UNCHANGED <<payments, received, movement, adjusted>>

\* Mutant: an issued challan is edited like a draft.
EditableUntilVoid(r) == r.status \notin {"none", "void"}
\* `_assert_line_editable`, then one line set and the totals re-derived.
Editable(r) == r.status = "draft"
SetLine(v, line, amount) ==
  /\ Editable(row[v])
  /\ row' = [row EXCEPT ![v].lines[line] = amount]
  /\ Fits(row'[v])
  /\ UNCHANGED <<payments, received, ledger, movement, adjusted>>

AddVoucherCharge(v, amount) == SetLine(v, "stationery", amount)
RemoveVoucherCharge(v) == row[v].lines["stationery"] # 0 /\ SetLine(v, "stationery", 0)

\* The head charged or removed may be the one the dues were carried under.
FeeLine(v, line) ==
  line = "fees" \/ (line = "carried" /\ row[v].carryHead /\ EditsCarriedLine)
AddVoucherFeeCharge(v, line, amount) == FeeLine(v, line) /\ SetLine(v, line, amount)
RemoveVoucherFeeCharge(v, line) ==
  FeeLine(v, line) /\ row[v].lines[line] # 0 /\ SetLine(v, line, 0)

\* `record_payment`: refused on a draft, a void one, and beyond what is left.
Accepts(r, amount) ==
  r.status \notin {"none", "draft", "void"} /\ amount <= Total(r) - r.paid
RecordPayment(p, v, amount) ==
  /\ payments[p].status = "none"
  /\ Accepts(row[v], amount)
  /\ payments' = [payments EXCEPT ![p] = [status |-> "recorded", voucher |-> v,
                                          amount |-> amount]]
  /\ received' = [received EXCEPT ![v] = @ + amount]
  /\ row' = [row EXCEPT ![v] = Recalculated(@, received'[v])]
  /\ movement' = [movement EXCEPT ![p]["payment"] = @ - amount]
  /\ UNCHANGED <<ledger, adjusted>>

\* `reverse_payment`: the receipt stays, REVERSED, and the debt comes back.
Reversible(receipt) == receipt.status = "recorded"
ReversePayment(p) ==
  LET v == payments[p].voucher
  IN  /\ Reversible(payments[p])
      /\ payments' = [payments EXCEPT ![p].status = "reversed"]
      /\ received' = [received EXCEPT ![v] = @ - payments[p].amount]
      /\ row' = [row EXCEPT ![v] = Recalculated(@, received'[v])]
      /\ movement' = [movement EXCEPT ![p]["payment_reversed"] = @ + payments[p].amount]
      /\ UNCHANGED <<ledger, adjusted>>

\* `overdue_candidates`: issued, past due, still owing, and not itself a fine.
Finable(r) ==
  OnAccount(r) /\ r.origin = "regular" /\ r.pastDue /\ Total(r) > r.paid

\* `apply_late_fees`: each fine is an issued challan of its own.  Which of the
\* candidates the policy fines, and how much, is the subject of LateFees.
ApplyLateFees ==
  \E fined \in SUBSET {v \in Vouchers : Finable(row[v])} :
    \E new \in Injection(fined, Unused), fine \in [fined -> Fines] :
      LET source(v) == CHOOSE w \in fined : new[w] = v
          minted == {new[w] : w \in fined}
      IN  /\ fined # {}
          /\ row' = [v \in Vouchers |->
               IF v \in minted
               THEN [NoRow EXCEPT !.status = "issued", !.origin = "late_fee",
                                  !.student = row[source(v)].student,
                                  !.lines = LinesOf(fine[source(v)], 0, 0)]
               ELSE row[v]]
          /\ ledger' = [v \in Vouchers |->
               IF v \in minted THEN [ledger[v] EXCEPT !["late_fee"] = @ + fine[source(v)]]
               ELSE ledger[v]]
          /\ UNCHANGED <<payments, received, movement, adjusted>>

\* `adjust_ledger`: a signed correction with no challan and no receipt behind it.
AdjustLedger(s, amount) ==
  /\ adjusted' = [adjusted EXCEPT ![s] = @ + amount]
  /\ adjusted'[s] \in -MaxAdjusted..MaxAdjusted
  /\ UNCHANGED <<row, payments, received, ledger, movement>>

\* The calendar: a due date goes by.  No stored status changes.
DueDatePasses(v) ==
  /\ row[v].status \notin {"none", "void"} /\ ~row[v].pastDue
  /\ row' = [row EXCEPT ![v].pastDue = TRUE]
  /\ UNCHANGED <<payments, received, ledger, movement, adjusted>>

Next ==
  \/ \E asked \in SUBSET Students, period \in Periods, stationery \in Stationery,
        carry \in BOOLEAN, issue \in BOOLEAN :
        GenerateVouchers(asked, period, stationery, carry, issue)
  \/ \E v \in Vouchers :
        \/ IssueVoucher(v) \/ VoidVoucher(v) \/ DueDatePasses(v)
        \/ RemoveVoucherCharge(v)
        \/ \E amount \in Charges : AddVoucherCharge(v, amount)
        \/ \E line \in Lines :
             \/ RemoveVoucherFeeCharge(v, line)
             \/ \E amount \in Charges : AddVoucherFeeCharge(v, line, amount)
        \/ \E p \in Payments, amount \in Charges : RecordPayment(p, v, amount)
  \/ \E p \in Payments : ReversePayment(p)
  \/ ApplyLateFees
  \/ \E s \in Students, amount \in Adjustments : AdjustLedger(s, amount)

Spec == Init /\ [][Next]_vars

-----------------------------------------------------------------------------
\* Every row, receipt and entry has the shape its table gives it.
TypeOK == /\ row \in [Vouchers -> Row]
          /\ payments \in [Payments -> Receipt]
          /\ received \in [Vouchers -> Int]
          /\ ledger \in [Vouchers -> [VoucherEntries -> Int]]
          /\ movement \in [Payments -> [ReceiptEntries -> Int]]
          /\ adjusted \in [Students -> Int]

\* The drift that `reconcile_ledger` reports is zero, challan by challan and receipt
\* by receipt: a live challan weighs its total; a draft, a cancelled or an absorbed
\* one weighs nothing; a receipt weighs its amount until it is reversed.
LedgerAgrees ==
  /\ \A v \in Vouchers :
       Net(ledger[v]) = IF OnAccount(row[v]) THEN Total(row[v]) ELSE 0
  /\ \A p \in Payments :
       Moved(movement[p]) = IF payments[p].status = "recorded" THEN -payments[p].amount
                            ELSE 0

\* No challan ever takes more money than it bills: `record_payment` has no
\* allocation rule for the excess, and a line can no longer be shrunk under it.
NeverOverpaid == \A v \in Vouchers : received[v] <= Total(row[v])

\* Cancelling, by hand or by consolidation, never leaves a receipt pointing at
\* a bill that is gone or a draft, and no receipt lands on one afterwards.
VoidHoldsNoMoney == \A v \in Vouchers : TookMoney(v) => OnAccount(row[v])

\* A family is billed at most once for a period, whatever was voided, reissued
\* or absorbed before.
OneChallanPerPeriod ==
  \A v, w \in Vouchers :
    /\ v # w /\ row[v].student = row[w].student
    /\ row[v].period = row[w].period /\ row[v].period # NoPeriod
    => row[v].status = "void" \/ row[w].status = "void"

\* A live challan is held off later runs only by a draft that will still bill
\* it: one reserved by an issued or a void challan would never be carried again.
NothingStranded ==
  \A v, w \in Vouchers :
    row[v].supersededBy = w /\ OnAccount(row[v]) => row[w].status = "draft"

\* The carried line bills exactly the challans that point at it: all that are
\* reserved while it is a draft, all that were cancelled for it afterwards.
CarriedIsWhatItReplaces ==
  \A w \in Vouchers :
    row[w].status \notin {"none", "void"} =>
      row[w].lines["carried"] = SumTotals(row, Reserved(row, w))

\* Rule 1 of the module: once a challan is issued its lines never change again,
\* whatever it later absorbs, releases, receives or is voided for.
IssuedBillsAreFinal ==
  [][\A v \in Vouchers :
       row[v].status \notin {"none", "draft"} => row'[v].lines = row[v].lines]_vars

\* VOID is final: no receipt, reversal, issue or consolidation revives a
\* cancelled challan, and none sends an issued one back to draft.
VoidIsForever ==
  [][\A v \in Vouchers :
       /\ row[v].status = "void" => row'[v].status = "void"
       /\ OnAccount(row[v]) => row'[v].status # "draft"]_vars

\* Issuing a challan never lowers what a family owes: whatever it cancels, it
\* bills again on its carried line.
IssuingForgivesNothing ==
  [][(\E v \in Vouchers : IssueVoucher(v)) => \A s \in Students : Owed(s)' >= Owed(s)]_vars

\* What the school has charged a family: the own lines of every challan that
\* was ever debited.  A carried line charges for nothing new.
BilledTo(s) ==
  SumFunction([v \in {u \in VouchersOf(s) : HasDebit(ledger[u])} |-> OwnCharge(row[v])])
ReceivedFrom(s) == SumFunction([v \in VouchersOf(s) |-> received[v]])

\* The office keeps the promise of FamilyAccount: charging, receiving, refunding
\* and forgiving are separate steps, and no billing run forgives anything.
Account == INSTANCE FamilyAccount WITH
  billed    <- [s \in Students |-> BilledTo(s)],
  received  <- [s \in Students |-> ReceivedFrom(s)],
  forgiven  <- [s \in Students |-> BilledTo(s) - ReceivedFrom(s) - Owed(s)]
KeepsAccount == Account!Spec
=============================================================================
