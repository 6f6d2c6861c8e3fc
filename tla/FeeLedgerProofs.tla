--------------------------- MODULE FeeLedgerProofs ---------------------------
(***************************************************************************)
(* The fee office, for any number of families, challans, receipts, periods *)
(* and amounts, in three layers, each built on the one before:             *)
(*                                                                         *)
(*   - the books: the ledger agrees with the challans and the receipts     *)
(*     (IInv);                                                             *)
(*   - the rules: issued bills are final and void ones stay void, a family *)
(*     has one challan a period, nothing is reserved by a challan that     *)
(*     will never bill it, and nothing is overpaid (Rules);                *)
(*   - the account: a carried line bills what it replaces, the money       *)
(*     received is the sum of the receipts, and the office as a whole      *)
(*     implements FamilyAccount (AccInv).                                  *)
(***************************************************************************)
EXTENDS FeeLedger, SumFacts

-----------------------------------------------------------------------------
(* What the helpers return. *)

\* Three amounts make the lines of a challan.
LEMMA LinesOfType ==
  ASSUME NEW a \in Amount, NEW b \in Amount, NEW c \in Amount
  PROVE  LinesOf(a, b, c) \in [Lines -> Amount]
BY DEF LinesOf, Lines

\* Amounts are natural numbers, and nothing is one of them.
LEMMA ZeroIsAmount == 0 \in Amount /\ Amount \subseteq Nat
BY AmountsAssumption DEF Amount

\* A row bills natural numbers.
LEMMA TotalType ==
  ASSUME NEW r \in Row
  PROVE  /\ r.lines \in [Lines -> Amount]
         /\ OwnCharge(r) \in Nat /\ Total(r) \in Nat
<1>1. r.lines \in [Lines -> Amount]
  BY DEF Row
<1>2. r.lines["fees"] \in Nat /\ r.lines["stationery"] \in Nat /\ r.lines["carried"] \in Nat
  BY <1>1, ZeroIsAmount DEF Lines
<1> QED BY <1>1, <1>2 DEF OwnCharge, Total

\* Challans with the same lines bill the same.
LEMMA TotalFromLines ==
  ASSUME NEW r, NEW q, q.lines = r.lines
  PROVE  Total(q) = Total(r)
BY DEF Total, OwnCharge

\* `_recalculate` touches the paid total and the status alone, and the status stays live.
LEMMA RecalculatedShape ==
  ASSUME NEW r \in Row, NEW money \in Int
  PROVE  LET q == Recalculated(r, money)
         IN  /\ q \in Row
             /\ OnAccount(q)
             /\ q.lines = r.lines /\ q.student = r.student /\ q.period = r.period
             /\ q.supersededBy = r.supersededBy /\ q.paid = money
             /\ q.carryHead = r.carryHead
BY DEF Recalculated, Row, Statuses, OnAccount

\* Voiding cancels the set and frees what pointed at it; nothing else moves.
LEMMA VoidedShape ==
  ASSUME NEW rows \in [Vouchers -> Row], NEW gone
  PROVE  /\ Voided(rows, gone) \in [Vouchers -> Row]
         /\ \A v \in Vouchers :
              LET q == Voided(rows, gone)[v]
              IN  /\ q.lines = rows[v].lines /\ q.arrears = rows[v].arrears
                  /\ q.student = rows[v].student /\ q.period = rows[v].period
                  /\ q.status = IF v \in gone THEN "void" ELSE rows[v].status
                  /\ q.paid = rows[v].paid
                  /\ q.supersededBy = IF rows[v].supersededBy \in gone THEN NoVoucher
                                      ELSE rows[v].supersededBy
<1> DEFINE status(v) == IF v \in gone THEN "void" ELSE rows[v].status
           pointer(v) == IF rows[v].supersededBy \in gone THEN NoVoucher
                         ELSE rows[v].supersededBy
           made(v) == [[rows[v] EXCEPT !.status = status(v)] EXCEPT !.supersededBy = pointer(v)]
<1>1. Voided(rows, gone) = [v \in Vouchers |-> made(v)]
  BY DEF Voided
<1>2. ASSUME NEW v \in Vouchers
      PROVE  /\ made(v) \in Row
             /\ made(v).lines = rows[v].lines /\ made(v).arrears = rows[v].arrears
             /\ made(v).student = rows[v].student /\ made(v).period = rows[v].period
             /\ made(v).status = status(v) /\ made(v).paid = rows[v].paid
             /\ made(v).supersededBy = pointer(v)
  <2>1. rows[v] \in Row
    OBVIOUS
  <2>2. status(v) \in Statuses /\ pointer(v) \in Vouchers \cup {NoVoucher}
    BY <2>1 DEF Row, Statuses
  <2> QED BY <2>1, <2>2 DEF Row
<1> HIDE DEF made
<1> QED BY <1>1, <1>2

\* A row with its lines, carry head, status and reservation replaced.
Rebilled(r, lines, head, status, pointer) ==
  [r EXCEPT !.lines = lines, !.carryHead = head, !.status = status,
            !.supersededBy = pointer]

\* A row whose lines, head, status and reservation are rewritten is a row still.
LEMMA RebilledShape ==
  ASSUME NEW r \in Row, NEW lines, NEW head, NEW status, NEW pointer
  PROVE  LET q == Rebilled(r, lines, head, status, pointer)
         IN  /\ q.lines = lines /\ q.carryHead = head /\ q.status = status
             /\ q.supersededBy = pointer /\ q.student = r.student
             /\ q.period = r.period /\ q.paid = r.paid /\ q.arrears = r.arrears
             /\ q.origin = r.origin
             /\ /\ lines \in [Lines -> Amount] /\ head \in BOOLEAN
                /\ status \in Statuses /\ pointer \in Vouchers \cup {NoVoucher}
                => q \in Row
BY DEF Rebilled, Row

\* Repricing changes the carried line and its head alone.
LEMMA RepricedShape ==
  ASSUME NEW rows \in [Vouchers -> Row], NEW w \in Vouchers
  PROVE  \E lines, head :
           /\ Repriced(rows, w)
                = Rebilled(rows[w], lines, head, rows[w].status, rows[w].supersededBy)
           /\ lines["carried"] \in Amount => lines \in [Lines -> Amount] /\ head \in BOOLEAN
<1> DEFINE r == rows[w]
           left == SumTotals(rows, Absorbed(rows, w))
           lower == [r.lines EXCEPT !["carried"] = left]
           made == [[r EXCEPT !.lines = lower] EXCEPT !.carryHead = left > 0]
<1>1. r \in Row /\ r.lines \in [Lines -> Amount] /\ r.carryHead \in BOOLEAN
  BY TotalType DEF Row
<1>2. CASE Repriced(rows, w) = r
  <2>1. r = Rebilled(r, r.lines, r.carryHead, r.status, r.supersededBy)
    BY <1>1 DEF Rebilled, Row
  <2> QED BY <1>1, <1>2, <2>1
<1>3. CASE Repriced(rows, w) = made
  <2>1. made = Rebilled(r, lower, left > 0, r.status, r.supersededBy)
    BY <1>1 DEF Rebilled, Row
  <2>2. lower["carried"] = left
    BY <1>1 DEF Lines
  <2>3. left \in Amount => lower \in [Lines -> Amount]
    BY <1>1 DEF Lines
  <2>4. left \in Amount => (left > 0) \in BOOLEAN
    BY ZeroIsAmount
  <2> HIDE DEF made, lower
  <2> QED BY <1>3, <2>1, <2>2, <2>3, <2>4
<1>4. made = [r EXCEPT !.lines["carried"] = left, !.carryHead = left > 0]
  BY <1>1 DEF Row
<1> HIDE DEF made
<1>5. Repriced(rows, w) = made \/ Repriced(rows, w) = r
  BY <1>4 DEF Repriced
<1> QED BY <1>2, <1>3, <1>5

\* Settling turns the absorbed challans void, lets the released ones go, and touches
\* the lines of nothing but the bills themselves.
LEMMA SettledShape ==
  ASSUME NEW rows \in [Vouchers -> Row], NEW bills \in SUBSET Vouchers, NEW v \in Vouchers
  PROVE  \E lines, head, status, pointer :
           /\ Settled(rows, bills)[v] = Rebilled(rows[v], lines, head, status, pointer)
           /\ status = IF v \in AllAbsorbed(rows, bills) THEN "void" ELSE rows[v].status
           /\ pointer \in Vouchers \cup {NoVoucher}
           /\ lines["carried"] \in Amount => lines \in [Lines -> Amount] /\ head \in BOOLEAN
           /\ v \notin bills => lines = rows[v].lines /\ head = rows[v].carryHead
<1> DEFINE r == rows[v]
           gone == AllAbsorbed(rows, bills)
           freed == UNION {Released(rows, w) : w \in bills}
           base == IF v \in bills THEN Repriced(rows, v)
                   ELSE IF v \in freed THEN [r EXCEPT !.supersededBy = NoVoucher]
                   ELSE r
           pointer(q) == IF q.supersededBy \in gone THEN NoVoucher ELSE q.supersededBy
           status(q) == IF v \in gone THEN "void" ELSE q.status
<1>1. Settled(rows, bills)[v]
        = [base EXCEPT !.status = status(base), !.supersededBy = pointer(base)]
  BY DEF Settled, Voided
<1>2. r \in Row /\ r.lines \in [Lines -> Amount] /\ r.carryHead \in BOOLEAN
      /\ r.supersededBy \in Vouchers \cup {NoVoucher}
  BY TotalType DEF Row
<1>3. \E lines, head, ptr :
        /\ base = Rebilled(r, lines, head, r.status, ptr)
        /\ ptr \in Vouchers \cup {NoVoucher}
        /\ lines["carried"] \in Amount => lines \in [Lines -> Amount] /\ head \in BOOLEAN
        /\ v \notin bills => lines = r.lines /\ head = r.carryHead
  <2>1. CASE v \in bills
    BY <1>2, <2>1, RepricedShape
  <2>2. CASE v \notin bills
    <3>1. r = Rebilled(r, r.lines, r.carryHead, r.status, r.supersededBy)
      BY <1>2 DEF Rebilled, Row
    <3>2. [r EXCEPT !.supersededBy = NoVoucher]
            = Rebilled(r, r.lines, r.carryHead, r.status, NoVoucher)
      BY <1>2 DEF Rebilled, Row
    <3> QED BY <1>2, <2>2, <3>1, <3>2
  <2> QED BY <2>1, <2>2
<1>4. PICK lines, head, ptr :
        /\ base = Rebilled(r, lines, head, r.status, ptr)
        /\ ptr \in Vouchers \cup {NoVoucher}
        /\ lines["carried"] \in Amount => lines \in [Lines -> Amount] /\ head \in BOOLEAN
        /\ v \notin bills => lines = r.lines /\ head = r.carryHead
  BY <1>3
<1> HIDE DEF base
<1>5. base.status = r.status /\ base.supersededBy = ptr
  BY <1>2, <1>4, RebilledShape
<1>6. /\ status(base) = IF v \in gone THEN "void" ELSE r.status
      /\ pointer(base) \in Vouchers \cup {NoVoucher}
  BY <1>4, <1>5
<1> HIDE DEF status, pointer
<1>7. Settled(rows, bills)[v] = Rebilled(r, lines, head, status(base), pointer(base))
  <2>1. Settled(rows, bills)[v]
          = [Rebilled(r, lines, head, r.status, ptr)
               EXCEPT !.status = status(base), !.supersededBy = pointer(base)]
    BY <1>1, <1>4
  <2>2. [Rebilled(r, lines, head, r.status, ptr)
           EXCEPT !.status = status(base), !.supersededBy = pointer(base)]
          = Rebilled(r, lines, head, status(base), pointer(base))
    BY <1>2 DEF Rebilled, Row
  <2> QED BY <2>1, <2>2
<1> QED BY <1>4, <1>6, <1>7

\* What a billing step leaves behind, challan by challan.
LEMMA BillShape ==
  ASSUME NEW rows \in [Vouchers -> Row], NEW bills \in SUBSET Vouchers, Bill(rows, bills)
  PROVE  /\ row' \in [Vouchers -> Row]
         /\ \A v \in Vouchers :
              /\ row'[v].student = rows[v].student /\ row'[v].period = rows[v].period
              /\ row'[v].paid = rows[v].paid
              /\ v \in bills => row'[v].status = "issued"
              /\ v \notin bills =>
                   /\ row'[v].lines = rows[v].lines
                   /\ row'[v].status = IF v \in AllAbsorbed(rows, bills) THEN "void"
                                       ELSE rows[v].status
<1> DEFINE s(v) == Settled(rows, bills)[v]
<1>1. row' = [v \in Vouchers |->
                IF v \in bills THEN [s(v) EXCEPT !.status = "issued"] ELSE s(v)]
  BY DEF Bill
<1>2. \A v \in bills : Fits(row'[v])
  BY DEF Bill
<1>3. SUFFICES ASSUME NEW v \in Vouchers
      PROVE  /\ row'[v] \in Row
             /\ row'[v].student = rows[v].student /\ row'[v].period = rows[v].period
             /\ row'[v].paid = rows[v].paid
             /\ v \in bills => row'[v].status = "issued"
             /\ v \notin bills =>
                  /\ row'[v].lines = rows[v].lines
                  /\ row'[v].status = IF v \in AllAbsorbed(rows, bills) THEN "void"
                                      ELSE rows[v].status
  <2> HIDE DEF s
  <2> QED BY <1>1
<1>4. rows[v] \in Row /\ rows[v].status \in Statuses /\ "issued" \in Statuses
      /\ "void" \in Statuses /\ rows[v].lines \in [Lines -> Amount]
      /\ rows[v].carryHead \in BOOLEAN
  BY TotalType DEF Row, Statuses
<1>5. PICK lines, head, status, pointer :
        /\ s(v) = Rebilled(rows[v], lines, head, status, pointer)
        /\ status = IF v \in AllAbsorbed(rows, bills) THEN "void" ELSE rows[v].status
        /\ pointer \in Vouchers \cup {NoVoucher}
        /\ lines["carried"] \in Amount => lines \in [Lines -> Amount] /\ head \in BOOLEAN
        /\ v \notin bills => lines = rows[v].lines /\ head = rows[v].carryHead
  BY SettledShape
<1> HIDE DEF s
<1>6. CASE v \in bills
  <2>1. row'[v] = Rebilled(rows[v], lines, head, "issued", pointer)
    <3>1. row'[v] = [s(v) EXCEPT !.status = "issued"]
      BY <1>1, <1>6
    <3> QED BY <1>4, <1>5, <3>1 DEF Rebilled, Row
  <2>2. lines["carried"] \in Amount
    BY <1>2, <1>4, <1>6, <2>1, RebilledShape DEF Fits
  <2> QED BY <1>4, <1>5, <1>6, <2>1, <2>2, RebilledShape
<1>7. CASE v \notin bills
  <2>1. row'[v] = Rebilled(rows[v], lines, head, status, pointer)
    BY <1>1, <1>5, <1>7
  <2>2. status \in Statuses
    BY <1>4, <1>5
  <2> QED BY <1>4, <1>5, <1>7, <2>1, <2>2, RebilledShape
<1> QED BY <1>6, <1>7

-----------------------------------------------------------------------------
(* The inductive invariant: each challan against the entries that name it,  *)
(* each receipt against its own.                                            *)

Books(r, l) ==
  /\ r.status \in {"none", "draft"} =>
       l["charge"] = 0 /\ l["late_fee"] = 0 /\ l["voucher_voided"] = 0
  /\ OnAccount(r) => l["charge"] + l["late_fee"] = Total(r) /\ l["voucher_voided"] = 0
  /\ r.status = "void" => Net(l) = 0

Till(p) ==
  /\ payments[p].status = "none" => movement[p]["payment"] = 0
                                     /\ movement[p]["payment_reversed"] = 0
  /\ payments[p].status = "recorded" =>
       /\ movement[p]["payment"] = -payments[p].amount
       /\ movement[p]["payment_reversed"] = 0
       /\ payments[p].voucher \in Vouchers /\ OnAccount(row[payments[p].voucher])
  /\ payments[p].status = "reversed" => Moved(movement[p]) = 0

IInv == /\ TypeOK
        /\ \A v \in Vouchers : Books(row[v], ledger[v])
        /\ \A p \in Payments : Till(p)

\* The books stay balanced through a billing step.
LEMMA BillKeepsBooks ==
  ASSUME NEW rows \in [Vouchers -> Row], NEW bills \in SUBSET Vouchers,
         ledger \in [Vouchers -> [VoucherEntries -> Int]],
         \A v \in Vouchers : Books(rows[v], ledger[v]),
         \A v \in bills : rows[v].status = "draft",
         Bill(rows, bills)
  PROVE  /\ ledger' \in [Vouchers -> [VoucherEntries -> Int]]
         /\ \A v \in Vouchers : Books(row'[v], ledger'[v])
<1> DEFINE gone == AllAbsorbed(rows, bills)
           l1 == VoidCredited(rows, ledger, gone)
<1>1. row' \in [Vouchers -> Row] /\ ledger' = Charged(row', l1, bills)
  BY BillShape DEF Bill
<1>2. SUFFICES ASSUME NEW v \in Vouchers
      PROVE  ledger'[v] \in [VoucherEntries -> Int] /\ Books(row'[v], ledger'[v])
  <2> HIDE DEF l1
  <2> QED BY <1>1 DEF Charged
<1>3. /\ row'[v] \in Row /\ rows[v] \in Row
      /\ Total(row'[v]) \in Nat /\ Total(rows[v]) \in Nat
  BY <1>1, TotalType
<1>4. /\ ledger[v] \in [VoucherEntries -> Int] /\ Books(rows[v], ledger[v])
      /\ ledger[v]["charge"] \in Int /\ ledger[v]["late_fee"] \in Int
      /\ ledger[v]["voucher_voided"] \in Int
  BY DEF VoucherEntries
<1>5. l1[v] = IF v \in gone /\ HasDebit(ledger[v])
              THEN [ledger[v] EXCEPT !["voucher_voided"] = @ - Total(rows[v])] ELSE ledger[v]
  BY DEF VoidCredited
<1>6. CASE v \in bills
  <2>1. /\ rows[v].status = "draft"
        /\ ledger[v]["charge"] = 0 /\ ledger[v]["late_fee"] = 0
        /\ ledger[v]["voucher_voided"] = 0
    BY <1>4, <1>6 DEF Books
  <2>2. l1[v] = ledger[v]
    BY <1>5, <2>1 DEF HasDebit
  <2>3. ledger'[v] = IF Total(row'[v]) # 0 THEN [ledger[v] EXCEPT !["charge"] = Total(row'[v])]
                     ELSE ledger[v]
    <3> HIDE DEF l1
    <3> QED BY <1>1, <1>6, <2>1, <2>2 DEF Charged
  <2>4. /\ ledger'[v] \in [VoucherEntries -> Int]
        /\ ledger'[v]["charge"] = Total(row'[v]) /\ ledger'[v]["late_fee"] = 0
        /\ ledger'[v]["voucher_voided"] = 0
    BY <1>3, <1>4, <2>1, <2>3 DEF VoucherEntries
  <2>5. row'[v].status = "issued"
    BY <1>6, BillShape
  <2> QED BY <1>3, <2>4, <2>5 DEF Books
<1>7. CASE v \notin bills
  <2>1. ledger'[v] = l1[v]
    <3> HIDE DEF l1
    <3> QED BY <1>1, <1>7 DEF Charged
  <2>2. /\ row'[v].lines = rows[v].lines
        /\ row'[v].status = IF v \in gone THEN "void" ELSE rows[v].status
    BY <1>7, BillShape
  <2>3. Total(row'[v]) = Total(rows[v])
    BY <2>2, TotalFromLines
  <2>4. CASE v \notin gone
    <3>1. ledger'[v] = ledger[v] /\ row'[v].status = rows[v].status
      BY <1>5, <2>1, <2>2, <2>4
    <3> QED BY <1>4, <2>3, <3>1 DEF Books, OnAccount
  <2>5. CASE v \in gone
    <3>1. rows[v].status # "void" /\ row'[v].status = "void"
      BY <2>2, <2>5 DEF AllAbsorbed, Absorbed, Released, Reserved
    <3>2. rows[v].status \in {"none", "draft"} \/ OnAccount(rows[v])
      BY <3>1 DEF OnAccount
    <3>3. CASE HasDebit(ledger[v])
      <4>1. ledger'[v] = [ledger[v] EXCEPT !["voucher_voided"] = @ - Total(rows[v])]
        BY <1>5, <2>1, <2>5, <3>3
      <4>2. /\ ledger'[v] \in [VoucherEntries -> Int]
            /\ ledger'[v]["charge"] = ledger[v]["charge"]
            /\ ledger'[v]["late_fee"] = ledger[v]["late_fee"]
            /\ ledger'[v]["voucher_voided"] = ledger[v]["voucher_voided"] - Total(rows[v])
        BY <1>3, <1>4, <4>1 DEF VoucherEntries
      <4>3. OnAccount(rows[v])
        BY <1>4, <3>2, <3>3 DEF Books, HasDebit
      <4> QED BY <1>3, <1>4, <3>1, <4>2, <4>3 DEF Books, Net, OnAccount
    <3>4. CASE ~HasDebit(ledger[v])
      <4>1. ledger'[v] = ledger[v]
        BY <1>5, <2>1, <3>4
      <4>2. Net(ledger[v]) = 0
        BY <1>4, <3>2, <3>4 DEF Books, HasDebit, Net
      <4> QED BY <1>4, <3>1, <4>1, <4>2 DEF Books, OnAccount
    <3> QED BY <3>3, <3>4
  <2> QED BY <2>4, <2>5
<1> QED BY <1>6, <1>7

\* A billing step cancels no challan that holds money, so every receipt that stands
\* still stands against a live challan.
LEMMA BillKeepsTill ==
  ASSUME NEW rows \in [Vouchers -> Row], NEW bills \in SUBSET Vouchers,
         \A p \in Payments : Till(p),
         \A v \in Vouchers : OnAccount(row[v]) => OnAccount(rows[v]),
         \A v \in bills : rows[v].status = "draft",
         Bill(rows, bills), UNCHANGED <<payments, received, movement, adjusted>>
  PROVE  \A p \in Payments : Till(p)'
<1> SUFFICES ASSUME NEW p \in Payments PROVE Till(p)'
  OBVIOUS
<1>1. CASE payments[p].status # "recorded"
  BY <1>1 DEF Till
<1>2. CASE payments[p].status = "recorded"
  <2> DEFINE u == payments[p].voucher
  <2>1. u \in Vouchers /\ OnAccount(rows[u])
    BY <1>2 DEF Till
  <2>2. u \notin AllAbsorbed(rows, bills)
    BY <1>2, <2>1 DEF AllAbsorbed, Absorbed, Released, TookMoney, Standing, Reserved
  <2>3. u \notin bills
    BY <2>1 DEF OnAccount
  <2>4. row'[u].status = rows[u].status
    BY <2>1, <2>2, <2>3, BillShape
  <2>5. OnAccount(row'[u])
    BY <2>1, <2>4 DEF OnAccount
  <2> QED BY <1>2, <2>1, <2>5 DEF Till
<1> QED BY <1>1, <1>2

\* What `_create_voucher` writes is a row, if it fits its columns.
LEMMA NewChallanType ==
  ASSUME NEW s \in Students, NEW period \in Periods, NEW f \in Fees, NEW st \in Stationery,
         NEW absorbed, Fits(NewChallan(s, period, f, st, absorbed))
  PROVE  /\ NewChallan(s, period, f, st, absorbed) \in Row
         /\ NewChallan(s, period, f, st, absorbed).status = "draft"
<1> DEFINE carried == SumTotals(row, absorbed)
           lines == LinesOf(f, st, carried)
           arrears == IF Balance(s) > carried THEN Balance(s) - carried ELSE 0
<1>1. NewChallan(s, period, f, st, absorbed) =
        [status |-> "draft", student |-> s, period |-> period, origin |-> "regular",
         lines |-> lines, carryHead |-> carried > 0, arrears |-> arrears,
         paid |-> 0, supersededBy |-> NoVoucher, pastDue |-> FALSE]
  BY DEF NewChallan
<1> HIDE DEF lines, arrears, carried
<1>2. lines["carried"] \in Amount /\ arrears \in Amount
  BY <1>1 DEF Fits
<1>3. carried \in Amount
  BY <1>2 DEF lines, LinesOf, Lines
<1>4. lines \in [Lines -> Amount]
  BY <1>3, LinesOfType, AmountsAssumption DEF lines, Amount
<1>5. (carried > 0) \in BOOLEAN
  BY <1>3, ZeroIsAmount
<1> QED BY <1>1, <1>2, <1>4, <1>5 DEF Row, Statuses

\* Each request keeps the books: a billing run,
LEMMA GenerateKeepsIInv ==
  ASSUME IInv, NEW asked \in SUBSET Students, NEW period \in Periods,
         NEW stationery \in Stationery, NEW carry \in BOOLEAN, NEW issue \in BOOLEAN,
         GenerateVouchers(asked, period, stationery, carry, issue)
  PROVE  IInv'
<1> DEFINE billable == {s \in asked : Billable(s, period)}
           taken(s) == {v \in VouchersOf(s) : carry /\ Absorbable(row[v])}
           made(f, s) == NewChallan(s, period, f[s], stationery, taken(s))
           rowsOf(n, f) == [v \in Vouchers |->
             IF \E s \in billable : v = n[s]
             THEN made(f, CHOOSE s \in billable : v = n[s])
             ELSE IF \E s \in billable : v \in taken(s)
             THEN [row[v] EXCEPT !.supersededBy = n[row[v].student]]
             ELSE row[v]]
<1>1. PICK new \in Injection(billable, Unused), fees \in [billable -> Fees] :
        /\ \A s \in billable : Fits(made(fees, s))
        /\ IF issue THEN Bill(rowsOf(new, fees), {new[s] : s \in billable})
                    ELSE row' = rowsOf(new, fees) /\ UNCHANGED ledger
        /\ UNCHANGED <<payments, received, movement, adjusted>>
  BY DEF GenerateVouchers
<1> DEFINE rows == rowsOf(new, fees)
           bills == {new[s] : s \in billable}
<1>2. new \in [billable -> Unused] /\ bills \in SUBSET Vouchers
  BY <1>1 DEF Injection, Unused
<1>3. ASSUME NEW v \in Vouchers
      PROVE  /\ rows[v] \in Row
             /\ v \in bills => rows[v].status = "draft" /\ row[v].status = "none"
             /\ v \notin bills => rows[v].status = row[v].status /\ rows[v].lines = row[v].lines
  <2>1. row[v] \in Row
    BY DEF IInv, TypeOK
  <2>2. CASE v \in bills
    <3>1. row[v].status = "none"
      BY <1>2, <2>2 DEF Unused
    <3>2. PICK s \in billable : v = new[s] /\ rows[v] = made(fees, s)
      BY <2>2
    <3>3. s \in Students /\ fees[s] \in Fees /\ Fits(made(fees, s))
      BY <1>1
    <3>4. made(fees, s) \in Row /\ made(fees, s).status = "draft"
      BY <3>3, NewChallanType
    <3> HIDE DEF made, rows
    <3> QED BY <2>2, <3>1, <3>2, <3>4
  <2>3. CASE v \notin bills
    <3>1. ~ \E s \in billable : v = new[s]
      BY <2>3
    <3>2. CASE \E s \in billable : v \in taken(s)
      <4>1. row[v].student \in billable
        BY <3>2 DEF VouchersOf
      <4>2. new[row[v].student] \in Vouchers
        BY <1>2, <4>1 DEF Unused
      <4>3. rows[v] = [row[v] EXCEPT !.supersededBy = new[row[v].student]]
        BY <3>1, <3>2
      <4> HIDE DEF rows
      <4> QED BY <2>1, <2>3, <4>2, <4>3 DEF Row
    <3>3. CASE ~ \E s \in billable : v \in taken(s)
      <4>1. rows[v] = row[v]
        BY <3>1, <3>3
      <4> HIDE DEF rows
      <4> QED BY <2>1, <2>3, <4>1
    <3> QED BY <3>2, <3>3
  <2> QED BY <2>2, <2>3
<1>4. rows \in [Vouchers -> Row]
  <2>1. rows = [v \in Vouchers |-> rows[v]]
    OBVIOUS
  <2> HIDE DEF rows
  <2> QED BY <1>3, <2>1
<1>5. /\ IF issue THEN Bill(rows, bills) ELSE row' = rows /\ UNCHANGED ledger
      /\ UNCHANGED <<payments, received, movement, adjusted>>
  BY <1>1
<1> HIDE DEF rows, bills
<1>6. \A v \in Vouchers : Books(rows[v], ledger[v])
  <2> SUFFICES ASSUME NEW v \in Vouchers PROVE Books(rows[v], ledger[v])
    OBVIOUS
  <2>1. Books(row[v], ledger[v])
    BY DEF IInv
  <2>2. CASE v \in bills
    BY <1>3, <2>1, <2>2 DEF Books, OnAccount
  <2>3. CASE v \notin bills
    <3>1. Total(rows[v]) = Total(row[v])
      BY <1>3, <2>3, TotalFromLines
    <3> QED BY <1>3, <2>1, <2>3, <3>1 DEF Books, OnAccount
  <2> QED BY <2>2, <2>3
<1>7. \A v \in Vouchers : OnAccount(row[v]) => OnAccount(rows[v])
  BY <1>3 DEF OnAccount
<1>8. CASE issue
  <2>1. Bill(rows, bills)
    BY <1>5, <1>8
  <2>2. \A v \in bills : rows[v].status = "draft"
    BY <1>2, <1>3 DEF bills
  <2>3. bills \in SUBSET Vouchers
    BY <1>2 DEF bills
  <2>4. ledger \in [Vouchers -> [VoucherEntries -> Int]] /\ \A p \in Payments : Till(p)
    BY DEF IInv, TypeOK
  <2>5. row' \in [Vouchers -> Row]
    BY <1>4, <2>1, <2>3, BillShape
  <2>6. /\ ledger' \in [Vouchers -> [VoucherEntries -> Int]]
        /\ \A v \in Vouchers : Books(row'[v], ledger'[v])
    BY <1>4, <1>6, <2>1, <2>2, <2>3, <2>4, BillKeepsBooks
  <2>7. \A p \in Payments : Till(p)'
    BY <1>4, <1>5, <1>7, <2>1, <2>2, <2>3, <2>4, BillKeepsTill
  <2> QED BY <1>5, <2>5, <2>6, <2>7 DEF IInv, TypeOK
<1>9. CASE ~issue
  <2>1. row' = rows /\ UNCHANGED <<payments, received, ledger, movement, adjusted>>
    BY <1>5, <1>9
  <2>2. \A p \in Payments : Till(p)'
    BY <1>7, <2>1 DEF IInv, Till
  <2> QED BY <1>4, <1>6, <2>1, <2>2 DEF IInv, TypeOK
<1> QED BY <1>8, <1>9

\* the issue of one challan,
LEMMA IssueKeepsIInv ==
  ASSUME IInv, NEW v \in Vouchers, IssueVoucher(v)
  PROVE  IInv'
<1>1. /\ Bill(row, {v}) /\ row[v].status = "draft"
      /\ UNCHANGED <<payments, received, movement, adjusted>>
  BY DEF IssueVoucher
<1>2. /\ row \in [Vouchers -> Row] /\ ledger \in [Vouchers -> [VoucherEntries -> Int]]
      /\ {v} \in SUBSET Vouchers
  BY DEF IInv, TypeOK
<1>3. /\ \A u \in Vouchers : Books(row[u], ledger[u])
      /\ \A p \in Payments : Till(p)
  BY DEF IInv
<1>4. row' \in [Vouchers -> Row]
  BY <1>1, <1>2, BillShape
<1>5. /\ ledger' \in [Vouchers -> [VoucherEntries -> Int]]
      /\ \A u \in Vouchers : Books(row'[u], ledger'[u])
  BY <1>1, <1>2, <1>3, BillKeepsBooks
<1>6. \A p \in Payments : Till(p)'
  BY <1>1, <1>2, <1>3, BillKeepsTill
<1> QED BY <1>1, <1>4, <1>5, <1>6 DEF IInv, TypeOK

\* a cancellation, which credits exactly what the challan weighed,
LEMMA VoidKeepsIInv ==
  ASSUME IInv, NEW v \in Vouchers, VoidVoucher(v)
  PROVE  IInv'
<1>1. /\ row[v].status \notin {"none", "void", "paid"} /\ ~TookMoney(v)
      /\ row' = Voided(row, {v}) /\ ledger' = VoidCredited(row, ledger, {v})
      /\ UNCHANGED <<payments, received, movement, adjusted>>
  BY DEF VoidVoucher, CanVoid
<1>2. row \in [Vouchers -> Row] /\ ledger \in [Vouchers -> [VoucherEntries -> Int]]
  BY DEF IInv, TypeOK
<1>3. row' \in [Vouchers -> Row]
  BY <1>1, <1>2, VoidedShape
<1>4. \A u \in Vouchers :
        /\ Total(row'[u]) = Total(row[u])
        /\ row'[u].status = IF u = v THEN "void" ELSE row[u].status
  BY <1>1, <1>2, VoidedShape, TotalFromLines
<1>5. ASSUME NEW u \in Vouchers
      PROVE  ledger'[u] \in [VoucherEntries -> Int] /\ Books(row'[u], ledger'[u])
  <2>1. /\ ledger[u] \in [VoucherEntries -> Int] /\ Books(row[u], ledger[u])
        /\ ledger[u]["charge"] \in Int /\ ledger[u]["late_fee"] \in Int
        /\ ledger[u]["voucher_voided"] \in Int /\ Total(row[u]) \in Nat
    BY <1>2, TotalType DEF IInv, VoucherEntries
  <2>2. CASE u # v
    <3>1. ledger'[u] = ledger[u]
      BY <1>1, <2>2 DEF VoidCredited
    <3> QED BY <1>4, <2>1, <2>2, <3>1 DEF Books, OnAccount
  <2>3. CASE u = v
    <3>1. row[u].status = "draft" \/ OnAccount(row[u])
      BY <1>1, <2>3 DEF OnAccount
    <3>2. CASE HasDebit(ledger[u])
      <4>1. ledger'[u] = [ledger[u] EXCEPT !["voucher_voided"] = @ - Total(row[u])]
        BY <1>1, <2>3, <3>2 DEF VoidCredited
      <4>2. /\ ledger'[u] \in [VoucherEntries -> Int]
            /\ ledger'[u]["charge"] = ledger[u]["charge"]
            /\ ledger'[u]["late_fee"] = ledger[u]["late_fee"]
            /\ ledger'[u]["voucher_voided"] = ledger[u]["voucher_voided"] - Total(row[u])
        BY <2>1, <4>1 DEF VoucherEntries
      <4>3. OnAccount(row[u])
        BY <2>1, <3>1, <3>2 DEF Books, HasDebit
      <4> QED BY <1>4, <2>1, <2>3, <4>2, <4>3 DEF Books, Net, OnAccount
    <3>3. CASE ~HasDebit(ledger[u])
      <4>1. ledger'[u] = ledger[u]
        BY <1>1, <3>3 DEF VoidCredited
      <4>2. Net(ledger[u]) = 0
        BY <2>1, <3>1, <3>3 DEF Books, HasDebit, Net
      <4> QED BY <1>4, <2>1, <2>3, <4>1, <4>2 DEF Books, OnAccount
    <3> QED BY <3>2, <3>3
  <2> QED BY <2>2, <2>3
<1>6. ledger' \in [Vouchers -> [VoucherEntries -> Int]]
  <2>1. ledger' = [u \in Vouchers |-> ledger'[u]]
    BY <1>1 DEF VoidCredited
  <2> QED BY <1>5, <2>1
<1>7. ASSUME NEW p \in Payments PROVE Till(p)'
  <2>1. payments[p].status = "recorded" /\ payments[p].voucher \in Vouchers
          => payments[p].voucher # v
    BY <1>1 DEF TookMoney, Standing
  <2> QED BY <1>1, <1>4, <2>1 DEF IInv, Till, OnAccount
<1> QED BY <1>1, <1>3, <1>5, <1>6, <1>7 DEF IInv, TypeOK

\* an edit, which only a draft allows and a draft weighs nothing,
LEMMA SetLineKeepsIInv ==
  ASSUME IInv, NEW v \in Vouchers, NEW line \in Lines, NEW amount \in Amount,
         SetLine(v, line, amount)
  PROVE  IInv'
<1> DEFINE lines == [row[v].lines EXCEPT ![line] = amount]
<1>1. /\ row[v] \in Row /\ row \in [Vouchers -> Row] /\ row[v].status = "draft"
      /\ row[v].lines \in [Lines -> Amount]
      /\ UNCHANGED <<payments, received, ledger, movement, adjusted>>
  BY TotalType DEF SetLine, Editable, IInv, TypeOK
<1>2. row' = [row EXCEPT ![v] = [row[v] EXCEPT !.lines = lines]]
  BY <1>1 DEF SetLine, Row
<1>3. lines \in [Lines -> Amount]
  BY <1>1
<1> HIDE DEF lines
<1>4. [row[v] EXCEPT !.lines = lines] \in Row
      /\ [row[v] EXCEPT !.lines = lines].status = "draft"
  BY <1>1, <1>3 DEF Row
<1>5. /\ row' \in [Vouchers -> Row] /\ row'[v].status = "draft"
      /\ \A u \in Vouchers \ {v} : row'[u] = row[u]
  BY <1>1, <1>2, <1>4
<1>6. ASSUME NEW u \in Vouchers PROVE Books(row'[u], ledger'[u])
  <2>1. Books(row[u], ledger[u])
    BY DEF IInv
  <2> QED BY <1>1, <1>5, <2>1 DEF Books, OnAccount
<1>7. ASSUME NEW p \in Payments PROVE Till(p)'
  BY <1>1, <1>5 DEF IInv, Till, OnAccount
<1> QED BY <1>1, <1>5, <1>6, <1>7 DEF IInv, TypeOK

\* A row replaced by another of the same lines and the same standing.
LEMMA SameStanding ==
  ASSUME IInv, NEW v \in Vouchers, NEW q \in Row, row' = [row EXCEPT ![v] = q],
         q.lines = row[v].lines,
         q.status = row[v].status \/ (OnAccount(row[v]) /\ OnAccount(q)),
         ledger' = ledger
  PROVE  /\ row' \in [Vouchers -> Row]
         /\ \A u \in Vouchers : Books(row'[u], ledger'[u])
         /\ \A u \in Vouchers : OnAccount(row[u]) => OnAccount(row'[u])
<1>1. row \in [Vouchers -> Row] /\ \A u \in Vouchers : Books(row[u], ledger[u])
  BY DEF IInv, TypeOK
<1>2. Total(q) = Total(row[v])
  BY TotalFromLines
<1>3. Books(q, ledger[v])
  BY <1>1, <1>2 DEF Books, OnAccount
<1>4. OnAccount(row[v]) => OnAccount(q)
  BY DEF OnAccount
<1> QED BY <1>1, <1>3, <1>4

\* a due date gone by,
LEMMA DueDateKeepsIInv ==
  ASSUME IInv, NEW v \in Vouchers, DueDatePasses(v)
  PROVE  IInv'
<1> DEFINE q == [row[v] EXCEPT !.pastDue = TRUE]
<1>1. /\ row' = [row EXCEPT ![v] = q]
      /\ UNCHANGED <<payments, received, ledger, movement, adjusted>>
  BY DEF DueDatePasses
<1>2. q \in Row /\ q.lines = row[v].lines /\ q.status = row[v].status
  BY DEF IInv, TypeOK, Row
<1> HIDE DEF q
<1>3. /\ row' \in [Vouchers -> Row]
      /\ \A u \in Vouchers : Books(row'[u], ledger'[u])
      /\ \A u \in Vouchers : OnAccount(row[u]) => OnAccount(row'[u])
  BY <1>1, <1>2, SameStanding
<1> QED BY <1>1, <1>3 DEF IInv, TypeOK, Till

\* a receipt,
LEMMA RecordKeepsIInv ==
  ASSUME IInv, NEW p \in Payments, NEW v \in Vouchers, NEW amount \in Charges,
         RecordPayment(p, v, amount)
  PROVE  IInv'
<1> DEFINE q == Recalculated(row[v], received'[v])
           receipt == [status |-> "recorded", voucher |-> v, amount |-> amount]
<1>1. /\ payments[p].status = "none" /\ OnAccount(row[v])
      /\ payments' = [payments EXCEPT ![p] = receipt]
      /\ received' = [received EXCEPT ![v] = @ + amount]
      /\ row' = [row EXCEPT ![v] = q]
      /\ movement' = [movement EXCEPT ![p]["payment"] = @ - amount]
      /\ UNCHANGED <<ledger, adjusted>>
  BY DEF RecordPayment, Accepts, OnAccount
<1>2. amount \in Amount /\ amount \in Int
  BY AmountsAssumption, ZeroIsAmount DEF Amount
<1>3. /\ row \in [Vouchers -> Row] /\ payments \in [Payments -> Receipt]
      /\ received \in [Vouchers -> Int]
      /\ movement \in [Payments -> [ReceiptEntries -> Int]]
  BY DEF IInv, TypeOK
<1>4. received' \in [Vouchers -> Int]
  BY <1>1, <1>2, <1>3
<1>5. q \in Row /\ OnAccount(q) /\ q.lines = row[v].lines
  BY <1>3, <1>4, RecalculatedShape
<1> HIDE DEF q
<1>6. /\ row' \in [Vouchers -> Row]
      /\ \A u \in Vouchers : Books(row'[u], ledger'[u])
      /\ \A u \in Vouchers : OnAccount(row[u]) => OnAccount(row'[u])
  BY <1>1, <1>5, SameStanding
<1>7. payments' \in [Payments -> Receipt]
  BY <1>1, <1>2, <1>3 DEF Receipt
<1>8. /\ movement' \in [Payments -> [ReceiptEntries -> Int]]
      /\ movement'[p]["payment"] = movement[p]["payment"] - amount
      /\ movement'[p]["payment_reversed"] = movement[p]["payment_reversed"]
  BY <1>1, <1>2, <1>3 DEF ReceiptEntries
<1>9. ASSUME NEW t \in Payments PROVE Till(t)'
  <2>1. CASE t = p
    <3>1. /\ movement'[p]["payment"] = -amount
          /\ movement'[p]["payment_reversed"] = 0
      BY <1>1, <1>2, <1>8 DEF IInv, Till
    <3>2. /\ payments'[p].status = "recorded" /\ payments'[p].voucher = v
          /\ payments'[p].amount = amount
      BY <1>1, <1>3
    <3> QED BY <1>1, <1>6, <2>1, <3>1, <3>2 DEF Till
  <2>2. CASE t # p
    <3>1. payments'[t] = payments[t] /\ movement'[t] = movement[t]
      BY <1>1, <1>3, <2>2
    <3> QED BY <1>6, <3>1 DEF IInv, Till
  <2> QED BY <2>1, <2>2
<1> QED BY <1>1, <1>4, <1>6, <1>7, <1>8, <1>9 DEF IInv, TypeOK

\* its reversal,
LEMMA ReverseKeepsIInv ==
  ASSUME IInv, NEW p \in Payments, ReversePayment(p)
  PROVE  IInv'
<1> DEFINE v == payments[p].voucher
           amount == payments[p].amount
           q == Recalculated(row[v], received'[v])
<1>1. /\ payments[p].status = "recorded"
      /\ payments' = [payments EXCEPT ![p].status = "reversed"]
      /\ received' = [received EXCEPT ![v] = @ - amount]
      /\ row' = [row EXCEPT ![v] = q]
      /\ movement' = [movement EXCEPT ![p]["payment_reversed"] = @ + amount]
      /\ UNCHANGED <<ledger, adjusted>>
  BY DEF ReversePayment, Reversible
<1>2. /\ row \in [Vouchers -> Row] /\ payments \in [Payments -> Receipt]
      /\ received \in [Vouchers -> Int]
      /\ movement \in [Payments -> [ReceiptEntries -> Int]]
  BY DEF IInv, TypeOK
<1>3. /\ v \in Vouchers /\ OnAccount(row[v]) /\ amount \in Int
      /\ movement[p]["payment"] = -amount /\ movement[p]["payment_reversed"] = 0
  BY <1>1, <1>2, ZeroIsAmount DEF IInv, Till, Receipt
<1>4. received' \in [Vouchers -> Int]
  BY <1>1, <1>2, <1>3
<1>5. q \in Row /\ OnAccount(q) /\ q.lines = row[v].lines
  BY <1>2, <1>3, <1>4, RecalculatedShape
<1> HIDE DEF q
<1>6. /\ row' \in [Vouchers -> Row]
      /\ \A u \in Vouchers : Books(row'[u], ledger'[u])
      /\ \A u \in Vouchers : OnAccount(row[u]) => OnAccount(row'[u])
  BY <1>1, <1>3, <1>5, SameStanding
<1>7. /\ payments' \in [Payments -> Receipt] /\ payments'[p].status = "reversed"
      /\ \A t \in Payments \ {p} : payments'[t] = payments[t]
  BY <1>1, <1>2 DEF Receipt
<1>8. /\ movement' \in [Payments -> [ReceiptEntries -> Int]]
      /\ movement'[p]["payment"] = -amount
      /\ movement'[p]["payment_reversed"] = amount
      /\ \A t \in Payments \ {p} : movement'[t] = movement[t]
  BY <1>1, <1>2, <1>3 DEF ReceiptEntries
<1>9. ASSUME NEW t \in Payments PROVE Till(t)'
  <2>1. CASE t = p
    BY <1>3, <1>7, <1>8, <2>1 DEF Till, Moved
  <2>2. CASE t # p
    BY <1>6, <1>7, <1>8, <2>2 DEF IInv, Till
  <2> QED BY <2>1, <2>2
<1> QED BY <1>1, <1>4, <1>6, <1>7, <1>8, <1>9 DEF IInv, TypeOK

\* and the nightly fines, each debited in full on a challan of its own.
LEMMA LateFeesKeepIInv ==
  ASSUME IInv, ApplyLateFees
  PROVE  IInv'
<1> DEFINE finable == {v \in Vouchers : Finable(row[v])}
           source(n, f, v) == CHOOSE w \in f : n[w] = v
           charge(n, f, a, v) ==
             [NoRow EXCEPT !.status = "issued", !.origin = "late_fee",
                           !.student = row[source(n, f, v)].student,
                           !.lines = LinesOf(a[source(n, f, v)], 0, 0)]
<1>0. PICK fined \in SUBSET finable : \E new \in Injection(fined, Unused), fine \in [fined -> Fines] :
        /\ row' = [v \in Vouchers |->
             IF v \in {new[w] : w \in fined} THEN charge(new, fined, fine, v) ELSE row[v]]
        /\ ledger' = [v \in Vouchers |->
             IF v \in {new[w] : w \in fined}
             THEN [ledger[v] EXCEPT !["late_fee"] = @ + fine[source(new, fined, v)]]
             ELSE ledger[v]]
        /\ UNCHANGED <<payments, received, movement, adjusted>>
  BY DEF ApplyLateFees
<1>1. PICK new \in Injection(fined, Unused), fine \in [fined -> Fines] :
        /\ row' = [v \in Vouchers |->
             IF v \in {new[w] : w \in fined} THEN charge(new, fined, fine, v) ELSE row[v]]
        /\ ledger' = [v \in Vouchers |->
             IF v \in {new[w] : w \in fined}
             THEN [ledger[v] EXCEPT !["late_fee"] = @ + fine[source(new, fined, v)]]
             ELSE ledger[v]]
        /\ UNCHANGED <<payments, received, movement, adjusted>>
  BY <1>0
<1> DEFINE minted == {new[w] : w \in fined}
<1>2. minted \in SUBSET Vouchers /\ \A v \in minted : row[v].status = "none"
  BY <1>1 DEF Injection, Unused
<1>3. row \in [Vouchers -> Row] /\ ledger \in [Vouchers -> [VoucherEntries -> Int]]
  BY DEF IInv, TypeOK
<1>4. ASSUME NEW v \in Vouchers
      PROVE  /\ row'[v] \in Row /\ ledger'[v] \in [VoucherEntries -> Int]
             /\ Books(row'[v], ledger'[v])
             /\ OnAccount(row[v]) => OnAccount(row'[v])
  <2>1. CASE v \in minted
    <3> DEFINE w == source(new, fined, v)
               amount == fine[w]
               lines == LinesOf(amount, 0, 0)
    <3>1. w \in fined
      BY <2>1
    <3>2. w \in Vouchers /\ amount \in Amount
      <4> HIDE DEF w
      <4>1. fine[w] \in Fines
        BY <1>1, <3>1
      <4>2. Fines \subseteq Amount
        BY AmountsAssumption DEF Amount
      <4> QED BY <1>0, <3>1, <4>1, <4>2
    <3>3. row[w].student \in Students \cup {NoStudent}
      BY <1>3, <3>2 DEF Row
    <3>4. lines \in [Lines -> Amount] /\ lines["fees"] = amount /\ lines["stationery"] = 0
          /\ lines["carried"] = 0
      <4>1. lines \in [Lines -> Amount]
        BY <3>2, LinesOfType, ZeroIsAmount
      <4> QED BY <4>1 DEF LinesOf, Lines
    <3>5. row'[v] = [NoRow EXCEPT !.status = "issued", !.origin = "late_fee",
                                  !.student = row[w].student, !.lines = lines]
      BY <1>1, <2>1
    <3>6. ledger'[v] = [ledger[v] EXCEPT !["late_fee"] = @ + amount]
      BY <1>1, <2>1
    <3> HIDE DEF w, lines, amount
    <3>7. row'[v] \in Row /\ row'[v].status = "issued" /\ row'[v].lines = lines
      <4> DEFINE student == row[w].student
      <4>1. row'[v] = [status |-> "issued", student |-> student, period |-> NoPeriod,
                       origin |-> "late_fee", lines |-> lines, carryHead |-> FALSE,
                       arrears |-> 0, paid |-> 0, supersededBy |-> NoVoucher,
                       pastDue |-> FALSE]
        BY <3>5 DEF NoRow
      <4> HIDE DEF student
      <4>2. student \in Students \cup {NoStudent}
        BY <3>3 DEF student
      <4> QED BY <3>4, <4>1, <4>2, ZeroIsAmount DEF Row, Statuses
    <3>8. Total(row'[v]) = amount /\ amount \in Int
      BY <3>2, <3>4, <3>7, ZeroIsAmount DEF Total, OwnCharge
    <3>9. /\ ledger[v]["charge"] = 0 /\ ledger[v]["late_fee"] = 0
          /\ ledger[v]["voucher_voided"] = 0
      BY <1>2, <2>1 DEF IInv, Books
    <3>10. /\ ledger'[v] \in [VoucherEntries -> Int]
           /\ ledger'[v]["charge"] = 0 /\ ledger'[v]["late_fee"] = amount
           /\ ledger'[v]["voucher_voided"] = 0
      BY <1>3, <3>6, <3>8, <3>9 DEF VoucherEntries
    <3> QED BY <1>2, <2>1, <3>7, <3>8, <3>10 DEF Books, OnAccount
  <2>2. CASE v \notin minted
    <3>1. row'[v] = row[v] /\ ledger'[v] = ledger[v]
      BY <1>1, <2>2
    <3> QED BY <1>3, <3>1 DEF IInv
  <2> QED BY <2>1, <2>2
<1>5. row' = [v \in Vouchers |-> row'[v]] /\ ledger' = [v \in Vouchers |-> ledger'[v]]
  BY <1>1
<1>6. row' \in [Vouchers -> Row] /\ ledger' \in [Vouchers -> [VoucherEntries -> Int]]
  BY <1>4, <1>5
<1> QED BY <1>1, <1>4, <1>6 DEF IInv, TypeOK, Till

-----------------------------------------------------------------------------
\* An empty office has balanced books, and every request keeps them.
LEMMA InitIInv == Init => IInv
<1> SUFFICES ASSUME Init PROVE IInv
  OBVIOUS
<1>1. NoRow \in Row /\ NoRow.status = "none"
  <2>1. LinesOf(0, 0, 0) \in [Lines -> Amount]
    BY LinesOfType, ZeroIsAmount
  <2> QED BY <2>1, ZeroIsAmount DEF NoRow, Row, Statuses
<1>2. NoReceipt \in Receipt /\ NoReceipt.status = "none"
  BY ZeroIsAmount DEF NoReceipt, Receipt
<1>3. TypeOK
  BY <1>1, <1>2 DEF Init, TypeOK
<1>4. ASSUME NEW v \in Vouchers PROVE Books(row[v], ledger[v])
  BY <1>1 DEF Init, Books, OnAccount, VoucherEntries
<1>5. ASSUME NEW p \in Payments PROVE Till(p)
  BY <1>2 DEF Init, Till, ReceiptEntries
<1> QED BY <1>3, <1>4, <1>5 DEF IInv

\* Every step of the office, taken together.
LEMMA NextIInv == IInv /\ [Next]_vars => IInv'
<1> SUFFICES ASSUME IInv, [Next]_vars PROVE IInv'
  OBVIOUS
<1>1. ASSUME NEW asked \in SUBSET Students, NEW period \in Periods,
             NEW stationery \in Stationery, NEW carry \in BOOLEAN, NEW issue \in BOOLEAN,
             GenerateVouchers(asked, period, stationery, carry, issue)
      PROVE  IInv'
  BY <1>1, GenerateKeepsIInv
<1>2. ASSUME NEW v \in Vouchers, IssueVoucher(v) PROVE IInv'
  BY <1>2, IssueKeepsIInv
<1>3. ASSUME NEW v \in Vouchers, VoidVoucher(v) PROVE IInv'
  BY <1>3, VoidKeepsIInv
<1>4. ASSUME NEW v \in Vouchers, DueDatePasses(v) PROVE IInv'
  BY <1>4, DueDateKeepsIInv
<1>5. /\ Charges \subseteq Amount /\ 0 \in Amount /\ "stationery" \in Lines
  BY AmountsAssumption, ZeroIsAmount DEF Amount, Lines
<1>6. ASSUME NEW v \in Vouchers,
             \/ RemoveVoucherCharge(v)
             \/ \E amount \in Charges : AddVoucherCharge(v, amount)
             \/ \E line \in Lines : \/ RemoveVoucherFeeCharge(v, line)
                                     \/ \E amount \in Charges : AddVoucherFeeCharge(v, line, amount)
      PROVE  IInv'
  <2>1. PICK line \in Lines, amount \in Amount : SetLine(v, line, amount)
    BY <1>5, <1>6 DEF AddVoucherCharge, RemoveVoucherCharge, AddVoucherFeeCharge,
                      RemoveVoucherFeeCharge
  <2> QED BY <2>1, SetLineKeepsIInv
<1>7. ASSUME NEW p \in Payments, NEW v \in Vouchers, NEW amount \in Charges,
             RecordPayment(p, v, amount)
      PROVE  IInv'
  BY <1>7, RecordKeepsIInv
<1>8. ASSUME NEW p \in Payments, ReversePayment(p) PROVE IInv'
  BY <1>8, ReverseKeepsIInv
<1>9. CASE ApplyLateFees
  BY <1>9, LateFeesKeepIInv
<1>10. ASSUME NEW s \in Students, NEW amount \in Adjustments, AdjustLedger(s, amount)
       PROVE  IInv'
  <2>1. adjusted' \in [Students -> Int]
    <3>1. adjusted \in [Students -> Int] /\ amount \in Int
      BY AmountsAssumption DEF IInv, TypeOK
    <3> QED BY <1>10, <3>1 DEF AdjustLedger
  <2>2. UNCHANGED <<row, payments, received, ledger, movement>>
    BY <1>10 DEF AdjustLedger
  <2>3. TypeOK'
    BY <2>1, <2>2 DEF IInv, TypeOK
  <2>4. \A p \in Payments : Till(p)'
    BY <2>2 DEF IInv, Till
  <2>5. \A v \in Vouchers : Books(row'[v], ledger'[v])
    BY <2>2 DEF IInv
  <2> QED BY <2>3, <2>4, <2>5 DEF IInv, TypeOK
<1>11. CASE UNCHANGED vars
  BY <1>11 DEF vars, IInv, TypeOK, Till
<1> QED BY <1>1, <1>2, <1>3, <1>4, <1>6, <1>7, <1>8, <1>9, <1>10, <1>11 DEF Next

\* The books are balanced in every reachable state.
LEMMA InvariantHolds == Spec => []IInv
BY InitIInv, NextIInv, PTL DEF Spec

\* Every row, receipt and ledger entry keeps the shape its table gives it, whatever
\* the office does and however many families and challans it has.
THEOREM TypeCorrect == Spec => []TypeOK
<1>1. IInv => TypeOK
  BY DEF IInv
<1> QED BY <1>1, InvariantHolds, PTL

\* The student ledger never drifts from the challans and the receipts under it:
\* what `reconcile_ledger` looks for is never there.
THEOREM LedgerAlwaysAgrees == Spec => []LedgerAgrees
<1>1. IInv => LedgerAgrees
  <2> SUFFICES ASSUME IInv PROVE LedgerAgrees
    OBVIOUS
  <2>1. ASSUME NEW v \in Vouchers
        PROVE  Net(ledger[v]) = IF OnAccount(row[v]) THEN Total(row[v]) ELSE 0
    <3>1. /\ Books(row[v], ledger[v]) /\ Total(row[v]) \in Nat
          /\ row[v].status \in Statuses
          /\ ledger[v]["charge"] \in Int /\ ledger[v]["late_fee"] \in Int
      BY TotalType DEF IInv, TypeOK, Row, VoucherEntries
    <3> QED BY <3>1 DEF Books, Net, OnAccount
  <2>2. ASSUME NEW p \in Payments
        PROVE  Moved(movement[p]) = IF payments[p].status = "recorded"
                                    THEN -payments[p].amount ELSE 0
    <3>1. Till(p) /\ payments[p] \in Receipt
      BY DEF IInv, TypeOK
    <3>2. /\ payments[p].status \in {"none", "recorded", "reversed"}
          /\ payments[p].amount \in Amount
      BY <3>1 DEF Receipt
    <3>3. payments[p].amount \in Int
      <4>1. \A a \in Amount : a \in Int
        BY AmountsAssumption DEF Amount
      <4> QED BY <3>2, <4>1
    <3> QED BY <3>1, <3>2, <3>3 DEF Till, Moved
  <2> QED BY <2>1, <2>2 DEF LedgerAgrees
<1> QED BY <1>1, InvariantHolds, PTL

\* No receipt that stands ever points at a draft or at a cancelled challan.
THEOREM MoneyStandsOnLiveChallans == Spec => []VoidHoldsNoMoney
<1>1. IInv => VoidHoldsNoMoney
  BY DEF IInv, Till, VoidHoldsNoMoney, TookMoney, Standing
<1> QED BY <1>1, InvariantHolds, PTL

-----------------------------------------------------------------------------
(* THE RULES of the fee office, one state and one step at a time.           *)

\* One challan, with the money received for it.
Sound(r, money) ==
  /\ r.status = "none" => r.period = NoPeriod
  /\ r.status \in {"none", "draft"} => r.supersededBy = NoVoucher /\ money = 0
  /\ r.paid = money /\ money <= Total(r)

\* Reservations, and periods, of a whole table.
Pointing(rows) ==
  \A v, w \in Vouchers :
    rows[v].supersededBy = w /\ OnAccount(rows[v]) => rows[w].status = "draft"
Distinct(rows) ==
  \A v, w \in Vouchers :
    /\ v # w /\ rows[v].student = rows[w].student
    /\ rows[v].period = rows[w].period /\ rows[v].period # NoPeriod
    => rows[v].status = "void" \/ rows[w].status = "void"

\* What may become of one challan in a step.
Kept(r, q) ==
  /\ r.status # "none" => q.student = r.student /\ q.period = r.period
  /\ r.status = "void" => q.status = "void"
  /\ OnAccount(r) => q.status \notin {"none", "draft"}
  /\ r.status \notin {"none", "draft"} => q.lines = r.lines

Rules == /\ IInv
         /\ \A v \in Vouchers : Sound(row[v], received[v])
         /\ Pointing(row)
         /\ Distinct(row)
Step == /\ \A v \in Vouchers : Sound(row'[v], received'[v]) /\ Kept(row[v], row'[v])
        /\ Pointing(row')
        /\ Distinct(row')

-----------------------------------------------------------------------------
(* Steps that change no reservation.                                        *)

\* One row is replaced by another with the same identity and reservation.
LEMMA OneRow ==
  ASSUME Rules, NEW v \in Vouchers, NEW q,
         row' = [row EXCEPT ![v] = q], Kept(row[v], q), Sound(q, received'[v]),
         row[v].status # "none", q.status # "none",
         q.supersededBy = row[v].supersededBy,
         row[v].status = "draft" => q.status = "draft",
         \A u \in Vouchers \ {v} : received'[u] = received[u]
  PROVE  Step
<1>1. row'[v] = q /\ \A u \in Vouchers \ {v} : row'[u] = row[u]
  BY DEF Rules, IInv, TypeOK
<1>2. \A u \in Vouchers : Sound(row'[u], received'[u]) /\ Kept(row[u], row'[u])
  <2> SUFFICES ASSUME NEW u \in Vouchers
               PROVE  Sound(row'[u], received'[u]) /\ Kept(row[u], row'[u])
    OBVIOUS
  <2>1. CASE u = v
    BY <1>1, <2>1
  <2>2. CASE u # v
    <3>1. row'[u] = row[u] /\ received'[u] = received[u]
      BY <1>1, <2>2
    <3> QED BY <3>1 DEF Rules, Kept, OnAccount
  <2> QED BY <2>1, <2>2
<1>3. \A u \in Vouchers :
        /\ row'[u].supersededBy = row[u].supersededBy
        /\ row[u].status = "draft" => row'[u].status = "draft"
        /\ row'[u].student = row[u].student /\ row'[u].period = row[u].period
        /\ row[u].status = "void" => row'[u].status = "void"
  BY <1>1 DEF Kept
<1>4. Pointing(row')
  <2> SUFFICES ASSUME NEW u \in Vouchers, NEW w \in Vouchers,
                      row'[u].supersededBy = w, OnAccount(row'[u])
               PROVE  row'[w].status = "draft"
    BY DEF Pointing
  <2>1. row[u].supersededBy = w
    BY <1>3
  <2>2. OnAccount(row[u])
    <3>1. w # NoVoucher
      BY NamesAssumption
    <3>2. row[u].status \notin {"none", "draft"}
      BY <2>1, <3>1 DEF Rules, Sound
    <3>3. row[u].status # "void"
      BY <1>3 DEF OnAccount
    <3> QED BY <3>2, <3>3 DEF OnAccount
  <2> QED BY <1>3, <2>1, <2>2 DEF Rules, Pointing
<1>5. Distinct(row')
  BY <1>3 DEF Rules, Distinct
<1> QED BY <1>2, <1>4, <1>5 DEF Step

\* A step that leaves the challans and the money alone keeps the rules.
LEMMA NothingMoves ==
  ASSUME Rules, UNCHANGED <<row, received>>
  PROVE  Step
BY DEF Rules, Step, Kept, OnAccount

\* So do the single-row requests: an edit of a draft,
LEMMA EditIsAStep ==
  ASSUME Rules, NEW v \in Vouchers, NEW line \in Lines, NEW amount \in Amount,
         SetLine(v, line, amount)
  PROVE  Step
<1> DEFINE lines == [row[v].lines EXCEPT ![line] = amount]
           q == [row[v] EXCEPT !.lines = lines]
<1>1. /\ row[v] \in Row /\ row[v].status = "draft" /\ row[v].lines \in [Lines -> Amount]
      /\ received' = received
  BY TotalType DEF SetLine, Editable, Rules, IInv, TypeOK
<1>2. row' = [row EXCEPT ![v] = q]
  BY <1>1 DEF SetLine, Row
<1>3. lines \in [Lines -> Amount]
  BY <1>1
<1> HIDE DEF lines
<1>4. /\ q \in Row /\ q.status = "draft" /\ q.paid = row[v].paid
      /\ q.student = row[v].student /\ q.period = row[v].period
      /\ q.supersededBy = row[v].supersededBy
  BY <1>1, <1>3 DEF Row
<1>5. Total(q) \in Nat
  BY <1>4, TotalType
<1> HIDE DEF q
<1>6. Sound(row[v], received[v])
  BY DEF Rules
<1>7. Sound(q, received'[v])
  BY <1>1, <1>4, <1>5, <1>6 DEF Sound
<1>8. Kept(row[v], q)
  BY <1>1, <1>4 DEF Kept, OnAccount
<1> QED BY <1>1, <1>2, <1>4, <1>7, <1>8, OneRow

\* the calendar,
LEMMA DueDateIsAStep ==
  ASSUME Rules, NEW v \in Vouchers, DueDatePasses(v)
  PROVE  Step
<1> DEFINE q == [row[v] EXCEPT !.pastDue = TRUE]
<1>1. row' = [row EXCEPT ![v] = q] /\ received' = received /\ row[v].status # "none"
  BY DEF DueDatePasses
<1>2. /\ q.status = row[v].status /\ q.lines = row[v].lines /\ q.paid = row[v].paid
      /\ q.student = row[v].student /\ q.period = row[v].period
      /\ q.supersededBy = row[v].supersededBy
  BY DEF Rules, IInv, TypeOK, Row
<1> HIDE DEF q
<1>3. Total(q) = Total(row[v])
  BY <1>2, TotalFromLines
<1>4. Sound(row[v], received[v])
  BY DEF Rules
<1>5. Sound(q, received'[v]) /\ Kept(row[v], q)
  BY <1>1, <1>2, <1>3, <1>4 DEF Sound, Kept, OnAccount
<1> QED BY <1>1, <1>2, <1>5, OneRow

\* Receipts and reversals: a challan on the account stays on it.
LEMMA MoneyIsAStep ==
  ASSUME Rules, NEW v \in Vouchers, OnAccount(row[v]), received'[v] \in Int,
         received'[v] <= Total(row[v]),
         row' = [row EXCEPT ![v] = Recalculated(row[v], received'[v])],
         \A u \in Vouchers \ {v} : received'[u] = received[u]
  PROVE  Step
<1> DEFINE q == Recalculated(row[v], received'[v])
<1>1. row[v] \in Row
  BY DEF Rules, IInv, TypeOK
<1>2. /\ OnAccount(q) /\ q.lines = row[v].lines /\ q.student = row[v].student
      /\ q.period = row[v].period /\ q.supersededBy = row[v].supersededBy
      /\ q.paid = received'[v]
  BY <1>1, RecalculatedShape
<1> HIDE DEF q
<1>3. Total(q) = Total(row[v])
  BY <1>2, TotalFromLines
<1>4. Sound(q, received'[v]) /\ Kept(row[v], q)
  BY <1>2, <1>3 DEF Sound, Kept, OnAccount
<1>5. row[v].status \notin {"none", "draft"} /\ q.status # "none"
  BY <1>2 DEF OnAccount
<1> QED BY <1>2, <1>4, <1>5, OneRow DEF q

\* a receipt, never more than is left to pay,
LEMMA PaymentIsAStep ==
  ASSUME Rules, NEW p \in Payments, NEW v \in Vouchers, NEW amount \in Charges,
         RecordPayment(p, v, amount)
  PROVE  Step
<1>1. /\ OnAccount(row[v]) /\ amount <= Total(row[v]) - row[v].paid
      /\ received' = [received EXCEPT ![v] = @ + amount]
      /\ row' = [row EXCEPT ![v] = Recalculated(row[v], received'[v])]
  BY DEF RecordPayment, Accepts, OnAccount
<1>2. received \in [Vouchers -> Int] /\ row[v] \in Row /\ amount \in Int
      /\ row[v].paid = received[v]
  BY AmountsAssumption DEF Rules, IInv, TypeOK, Sound
<1>3. received'[v] = received[v] + amount /\ \A u \in Vouchers \ {v} : received'[u] = received[u]
  BY <1>1, <1>2
<1>4. Total(row[v]) \in Nat
  BY <1>2, TotalType
<1>5. received'[v] \in Int /\ received'[v] <= Total(row[v])
  BY <1>1, <1>2, <1>3, <1>4
<1> QED BY <1>1, <1>3, <1>5, MoneyIsAStep

\* a reversal, which leaves the lines and the total,
LEMMA ReversalIsAStep ==
  ASSUME Rules, NEW p \in Payments, ReversePayment(p)
  PROVE  Step
<1> DEFINE v == payments[p].voucher
           amount == payments[p].amount
<1>1. /\ payments[p].status = "recorded"
      /\ received' = [received EXCEPT ![v] = @ - amount]
      /\ row' = [row EXCEPT ![v] = Recalculated(row[v], received'[v])]
  BY DEF ReversePayment, Reversible
<1>2. /\ received \in [Vouchers -> Int] /\ payments[p] \in Receipt
      /\ v \in Vouchers /\ OnAccount(row[v])
  BY <1>1 DEF Rules, IInv, TypeOK, Till
<1>3. amount \in Nat
  BY <1>2, ZeroIsAmount DEF Receipt
<1> HIDE DEF v, amount
<1>4. received'[v] = received[v] - amount /\ \A u \in Vouchers \ {v} : received'[u] = received[u]
  BY <1>1, <1>2
<1>5. row[v] \in Row /\ Sound(row[v], received[v])
  BY <1>2 DEF Rules, IInv, TypeOK
<1>6. Total(row[v]) \in Nat
  BY <1>5, TotalType
<1>7. received'[v] \in Int /\ received'[v] <= Total(row[v])
  BY <1>2, <1>3, <1>4, <1>5, <1>6 DEF Sound
<1> QED BY <1>1, <1>2, <1>4, <1>7, MoneyIsAStep
-----------------------------------------------------------------------------
(* Cancelling, fining and billing.                                          *)

\* and a cancellation, which frees what the challan reserved.
LEMMA VoidIsAStep ==
  ASSUME Rules, NEW v \in Vouchers, VoidVoucher(v)
  PROVE  Step
<1>1. row' = Voided(row, {v}) /\ received' = received /\ row[v].status # "none"
  BY DEF VoidVoucher, CanVoid
<1>2. row \in [Vouchers -> Row] /\ v # NoVoucher
  BY NamesAssumption DEF Rules, IInv, TypeOK
<1>3. \A u \in Vouchers :
        /\ row'[u].student = row[u].student /\ row'[u].period = row[u].period
        /\ row'[u].lines = row[u].lines /\ row'[u].paid = row[u].paid
        /\ row'[u].status = IF u = v THEN "void" ELSE row[u].status
        /\ row'[u].supersededBy = IF row[u].supersededBy = v THEN NoVoucher
                                  ELSE row[u].supersededBy
  BY <1>1, <1>2, VoidedShape
<1>4. ASSUME NEW u \in Vouchers
      PROVE  Sound(row'[u], received'[u]) /\ Kept(row[u], row'[u])
  <2>1. Sound(row[u], received[u])
    BY DEF Rules
  <2>2. Total(row'[u]) = Total(row[u])
    BY <1>3, TotalFromLines
  <2> QED BY <1>1, <1>2, <1>3, <2>1, <2>2 DEF Sound, Kept, OnAccount
<1>5. Pointing(row')
  <2> SUFFICES ASSUME NEW u \in Vouchers, NEW w \in Vouchers,
                      row'[u].supersededBy = w, OnAccount(row'[u])
               PROVE  row'[w].status = "draft"
    BY DEF Pointing
  <2>1. row[u].supersededBy = w /\ w # v
    BY <1>3, NamesAssumption
  <2>2. OnAccount(row[u])
    BY <1>3 DEF OnAccount
  <2> QED BY <1>3, <2>1, <2>2 DEF Rules, Pointing
<1>6. Distinct(row')
  BY <1>3 DEF Rules, Distinct
<1> QED BY <1>4, <1>5, <1>6 DEF Step

\* What a billing step makes of one row: a bill takes its repriced lines, and a
\* reservation ends when its holder lets it go or is itself absorbed.
LEMMA BilledRow ==
  ASSUME NEW rows \in [Vouchers -> Row], NEW bills \in SUBSET Vouchers, Bill(rows, bills),
         NEW v \in Vouchers
  PROVE  /\ row'[v].lines = IF v \in bills THEN Repriced(rows, v).lines ELSE rows[v].lines
         /\ row'[v].carryHead =
              IF v \in bills THEN Repriced(rows, v).carryHead ELSE rows[v].carryHead
         /\ row'[v].supersededBy =
              IF \/ v \notin bills /\ \E w \in bills : v \in Released(rows, w)
                 \/ rows[v].supersededBy \in AllAbsorbed(rows, bills)
              THEN NoVoucher ELSE rows[v].supersededBy
<1> DEFINE r == rows[v]
           gone == AllAbsorbed(rows, bills)
           freed == UNION {Released(rows, w) : w \in bills}
           base == IF v \in bills THEN Repriced(rows, v)
                   ELSE IF v \in freed THEN [r EXCEPT !.supersededBy = NoVoucher]
                   ELSE r
           settled == [base EXCEPT !.status = IF v \in gone THEN "void" ELSE @,
                                   !.supersededBy = IF @ \in gone THEN NoVoucher ELSE @]
<1>1. Settled(rows, bills)[v] = settled
  BY DEF Settled, Voided
<1>2. r \in Row /\ r.supersededBy \in Vouchers \cup {NoVoucher}
  BY DEF Row
<1>3. gone \subseteq Vouchers
  BY DEF AllAbsorbed, Absorbed, Reserved
<1>4. /\ base.lines = IF v \in bills THEN Repriced(rows, v).lines ELSE r.lines
      /\ base.carryHead = IF v \in bills THEN Repriced(rows, v).carryHead ELSE r.carryHead
      /\ base.supersededBy = IF v \notin bills /\ v \in freed THEN NoVoucher
                             ELSE r.supersededBy
      /\ DOMAIN base = DOMAIN r
  <2>1. CASE v \in bills
    <3>1. PICK lines, head :
            Repriced(rows, v) = Rebilled(r, lines, head, r.status, r.supersededBy)
      BY RepricedShape
    <3>2. /\ Repriced(rows, v).supersededBy = r.supersededBy
          /\ DOMAIN Repriced(rows, v) = DOMAIN r
      BY <1>2, <3>1 DEF Rebilled, Row
    <3> QED BY <2>1, <3>2
  <2>2. CASE v \notin bills
    <3> DEFINE q == [r EXCEPT !.supersededBy = NoVoucher]
    <3>1. /\ q.supersededBy = NoVoucher /\ q.lines = r.lines /\ q.carryHead = r.carryHead
          /\ DOMAIN q = DOMAIN r
      BY <1>2 DEF Row
    <3>2. base = IF v \in freed THEN q ELSE r
      BY <2>2
    <3> HIDE DEF q, base, freed
    <3> QED BY <2>2, <3>1, <3>2
  <2> QED BY <2>1, <2>2
<1>5. {"supersededBy", "lines", "carryHead", "status"} \subseteq DOMAIN base
  BY <1>2, <1>4 DEF Row
<1> HIDE DEF base
<1>6. /\ settled.supersededBy
            = IF base.supersededBy \in gone THEN NoVoucher ELSE base.supersededBy
      /\ settled.lines = base.lines /\ settled.carryHead = base.carryHead
      /\ DOMAIN settled = DOMAIN base
  BY <1>5
<1>7. /\ row'[v].supersededBy = settled.supersededBy
      /\ row'[v].lines = settled.lines /\ row'[v].carryHead = settled.carryHead
  <2>1. row'[v] = IF v \in bills THEN [settled EXCEPT !.status = "issued"] ELSE settled
    BY <1>1 DEF Bill
  <2> DEFINE q == [settled EXCEPT !.status = "issued"]
  <2>2. /\ q.supersededBy = settled.supersededBy
        /\ q.lines = settled.lines /\ q.carryHead = settled.carryHead
    BY <1>5, <1>6
  <2> HIDE DEF settled, q
  <2>3. row'[v] = IF v \in bills THEN q ELSE settled
    BY <2>1 DEF q
  <2> QED BY <2>2, <2>3
<1> HIDE DEF settled
<1>8. v \in freed <=> \E w \in bills : v \in Released(rows, w)
  OBVIOUS
<1>9. NoVoucher \notin gone
  BY <1>3, NamesAssumption
<1> HIDE DEF gone, freed
<1> QED BY <1>4, <1>6, <1>7, <1>8, <1>9 DEF gone

\* A billing step from any table that keeps the rules.
LEMMA BillKeepsRules ==
  ASSUME NEW rows \in [Vouchers -> Row], NEW bills \in SUBSET Vouchers, Bill(rows, bills),
         \A v \in Vouchers : Sound(rows[v], received[v]),
         Pointing(rows), Distinct(rows), received' = received,
         \A v \in bills : rows[v].status = "draft"
  PROVE  /\ \A v \in Vouchers : Sound(row'[v], received'[v]) /\ Kept(rows[v], row'[v])
         /\ Pointing(row') /\ Distinct(row')
<1> DEFINE gone == AllAbsorbed(rows, bills)
<1>1. ASSUME NEW v \in Vouchers
      PROVE  /\ row'[v] \in Row
             /\ row'[v].student = rows[v].student /\ row'[v].period = rows[v].period
             /\ row'[v].paid = rows[v].paid
             /\ v \in bills => row'[v].status = "issued"
             /\ v \notin bills =>
                  /\ row'[v].lines = rows[v].lines
                  /\ row'[v].status = IF v \in gone THEN "void" ELSE rows[v].status
  BY BillShape
<1>2. ASSUME NEW v \in Vouchers
      PROVE  /\ row'[v].supersededBy \in {rows[v].supersededBy, NoVoucher}
             /\ row'[v].supersededBy # NoVoucher =>
                  /\ row'[v].supersededBy \notin gone
                  /\ v \notin bills => \A w \in bills : v \notin Released(rows, w)
  BY BilledRow
<1>3. ASSUME NEW v \in Vouchers
      PROVE  Sound(row'[v], received'[v]) /\ Kept(rows[v], row'[v])
  <2>1. Sound(rows[v], received[v]) /\ Total(row'[v]) \in Nat
    BY <1>1, TotalType
  <2>2. CASE v \in bills
    <3>1. rows[v].status = "draft" /\ received[v] = 0
      BY <2>1, <2>2 DEF Sound
    <3> QED BY <1>1, <2>1, <2>2, <3>1 DEF Sound, Kept, OnAccount
  <2>3. CASE v \notin bills
    <3>1. Total(row'[v]) = Total(rows[v])
      BY <1>1, <2>3, TotalFromLines
    <3> QED BY <1>1, <1>2, <2>1, <2>3, <3>1 DEF Sound, Kept, OnAccount
  <2> QED BY <2>2, <2>3
<1>4. Pointing(row')
  <2> SUFFICES ASSUME NEW u \in Vouchers, NEW w \in Vouchers,
                      row'[u].supersededBy = w, OnAccount(row'[u])
               PROVE  row'[w].status = "draft"
    BY DEF Pointing
  <2>1. w # NoVoucher /\ rows[u].supersededBy = w /\ w \notin gone
    BY <1>2, NamesAssumption
  <2>2. u \notin bills
    BY <2>1 DEF Sound
  <2>3. u \notin gone /\ OnAccount(rows[u])
    BY <1>1, <2>2 DEF OnAccount
  <2>4. w \notin bills
    <3>1. SUFFICES ASSUME w \in bills PROVE FALSE
      OBVIOUS
    <3>2. u \in Reserved(rows, w) /\ u \notin Released(rows, w)
      BY <1>2, <2>1, <2>2, <3>1 DEF Reserved
    <3>3. u \in Absorbed(rows, w)
      BY <3>2 DEF Absorbed
    <3> QED BY <2>3, <3>1, <3>3 DEF AllAbsorbed
  <2> QED BY <1>1, <2>1, <2>3, <2>4 DEF Pointing
<1>5. Distinct(row')
  <2>1. \A v \in Vouchers : rows[v].status = "void" => row'[v].status = "void"
    BY <1>3 DEF Kept
  <2> QED BY <1>1, <2>1 DEF Distinct
<1> QED BY <1>3, <1>4, <1>5
-----------------------------------------------------------------------------
(* A billing run.                                                           *)

\* The table rows, in which the rows of the set bills are the drafts of one run,
\* and the rows they carry point at them.
Drafted(rows, bills, period) ==
  /\ \A w \in bills :
       /\ row[w].status = "none"
       /\ rows[w].status = "draft" /\ rows[w].period = period /\ rows[w].paid = 0
       /\ rows[w].student \in Students
       /\ rows[w].supersededBy = NoVoucher
       /\ rows[w].lines["carried"] # 0 => rows[w].carryHead
       /\ rows[w].lines["carried"] = SumTotals(row, {v \in Vouchers \ bills :
            rows[v].supersededBy = w /\ row[v].supersededBy = NoVoucher})
       /\ \A u \in bills : rows[u].student = rows[w].student => u = w
       /\ \A v \in Vouchers : row[v].student = rows[w].student /\ row[v].period = period
                               => row[v].status = "void"
  /\ \A v \in Vouchers \ bills :
       /\ rows[v].status = row[v].status /\ rows[v].lines = row[v].lines
       /\ rows[v].student = row[v].student /\ rows[v].period = row[v].period
       /\ rows[v].paid = row[v].paid /\ rows[v].carryHead = row[v].carryHead
       /\ \/ rows[v].supersededBy = row[v].supersededBy
          \/ /\ Absorbable(row[v]) /\ rows[v].supersededBy \in bills
             /\ rows[rows[v].supersededBy].student = row[v].student

\* A billing run writes a fresh draft for each student it bills, and points at it
\* what the draft carries.
LEMMA GenerateDrafts ==
  ASSUME Rules, NEW asked \in SUBSET Students, NEW period \in Periods,
         NEW stationery \in Stationery, NEW carry \in BOOLEAN, NEW issue \in BOOLEAN,
         GenerateVouchers(asked, period, stationery, carry, issue)
  PROVE  \E rows \in [Vouchers -> Row], bills \in SUBSET Vouchers :
           /\ Drafted(rows, bills, period)
           /\ IF issue THEN Bill(rows, bills) ELSE row' = rows /\ ledger' = ledger
           /\ UNCHANGED <<payments, received, movement, adjusted>>
<1> DEFINE billable == {s \in asked : Billable(s, period)}
           taken(s) == {v \in VouchersOf(s) : carry /\ Absorbable(row[v])}
           made(f, s) == NewChallan(s, period, f[s], stationery, taken(s))
           rowsOf(n, f) == [v \in Vouchers |->
             IF \E s \in billable : v = n[s]
             THEN made(f, CHOOSE s \in billable : v = n[s])
             ELSE IF \E s \in billable : v \in taken(s)
             THEN [row[v] EXCEPT !.supersededBy = n[row[v].student]]
             ELSE row[v]]
<1>1. PICK new \in Injection(billable, Unused), fees \in [billable -> Fees] :
        /\ \A s \in billable : Fits(made(fees, s))
        /\ IF issue THEN Bill(rowsOf(new, fees), {new[s] : s \in billable})
                    ELSE row' = rowsOf(new, fees) /\ UNCHANGED ledger
        /\ UNCHANGED <<payments, received, movement, adjusted>>
  BY DEF GenerateVouchers
<1> DEFINE rows == rowsOf(new, fees)
           bills == {new[s] : s \in billable}
<1>2. /\ new \in [billable -> Unused] /\ bills \in SUBSET Vouchers
      /\ \A s, t \in billable : new[s] = new[t] => s = t
  BY <1>1 DEF Injection, IsInjective, Unused
<1>3. row \in [Vouchers -> Row]
  BY DEF Rules, IInv, TypeOK
<1>4. ASSUME NEW s \in billable
      PROVE  /\ new[s] \in Vouchers /\ row[new[s]].status = "none" /\ rows[new[s]] \in Row
             /\ rows[new[s]].status = "draft" /\ rows[new[s]].student = s
             /\ rows[new[s]].period = period /\ rows[new[s]].paid = 0
             /\ rows[new[s]].supersededBy = NoVoucher
             /\ rows[new[s]].lines["carried"] = SumTotals(row, taken(s))
             /\ rows[new[s]].lines["carried"] > 0 => rows[new[s]].carryHead
  <2>1. new[s] \in Unused
    BY <1>2
  <2>2. new[s] \in Vouchers /\ row[new[s]].status = "none"
    BY <2>1 DEF Unused
  <2>3. s = CHOOSE t \in billable : new[s] = new[t]
    BY <1>2
  <2>4. rows[new[s]] = made(fees, s)
    BY <2>2, <2>3
  <2>5. made(fees, s) \in Row /\ made(fees, s).status = "draft"
    BY <1>1, NewChallanType
  <2>6. /\ made(fees, s).student = s /\ made(fees, s).period = period
        /\ made(fees, s).paid = 0 /\ made(fees, s).supersededBy = NoVoucher
        /\ SumTotals(row, taken(s)) > 0 => made(fees, s).carryHead
        /\ made(fees, s).lines = LinesOf(fees[s], stationery, SumTotals(row, taken(s)))
    BY DEF NewChallan
  <2>7. LinesOf(fees[s], stationery, SumTotals(row, taken(s)))["carried"]
          = SumTotals(row, taken(s))
    BY DEF LinesOf, Lines
  <2> HIDE DEF rows, made, taken
  <2> QED BY <2>2, <2>4, <2>5, <2>6, <2>7
<1>5. ASSUME NEW v \in Vouchers, v \notin bills
      PROVE  /\ rows[v] \in Row
             /\ rows[v].status = row[v].status /\ rows[v].lines = row[v].lines
             /\ rows[v].student = row[v].student /\ rows[v].period = row[v].period
             /\ rows[v].paid = row[v].paid /\ rows[v].carryHead = row[v].carryHead
             /\ IF \E s \in billable : v \in taken(s)
                THEN /\ Absorbable(row[v]) /\ row[v].student \in billable
                     /\ rows[v].supersededBy = new[row[v].student]
                ELSE rows[v].supersededBy = row[v].supersededBy
  <2>1. ~ \E s \in billable : v = new[s]
    BY <1>5
  <2>2. CASE \E s \in billable : v \in taken(s)
    <3> DEFINE w == new[row[v].student]
    <3>1. row[v].student \in billable /\ Absorbable(row[v])
      BY <2>2 DEF VouchersOf
    <3>2. w \in Vouchers
      BY <1>2, <3>1
    <3>3. rows[v] = [row[v] EXCEPT !.supersededBy = w]
      BY <2>1, <2>2
    <3> HIDE DEF rows, taken, bills
    <3> QED BY <1>3, <2>2, <3>1, <3>2, <3>3 DEF Row
  <2>3. CASE ~ \E s \in billable : v \in taken(s)
    <3>1. rows[v] = row[v]
      BY <2>1, <2>3
    <3> HIDE DEF rows, taken
    <3> QED BY <1>3, <2>3, <3>1
  <2> QED BY <2>2, <2>3
<1>6. \A v \in bills : \E s \in billable : v = new[s]
  OBVIOUS
<1>7. rows \in [Vouchers -> Row]
  <2>1. rows = [v \in Vouchers |-> rows[v]]
    OBVIOUS
  <2> HIDE DEF rows, bills, billable, taken
  <2>2. \A v \in bills : rows[v] \in Row
    BY <1>4, <1>6
  <2>3. \A v \in Vouchers : rows[v] \in Row
    BY <1>5, <2>2
  <2> QED BY <2>1, <2>3
<1>8. \A s \in billable : \A v \in Vouchers :
        row[v].student = s /\ row[v].period = period => row[v].status = "void"
  BY DEF Billable, VouchersOf
<1>9. ASSUME NEW s \in billable
      PROVE  taken(s) = {v \in Vouchers \ bills :
                           rows[v].supersededBy = new[s] /\ row[v].supersededBy = NoVoucher}
  <2>1. ASSUME NEW v \in Vouchers, v \in bills PROVE v \notin taken(s)
    <3>1. row[v].status = "none"
      <4> HIDE DEF rows, bills, taken, billable
      <4> QED BY <1>4, <1>6, <2>1
    <3> QED BY <3>1 DEF Absorbable
  <2>2. ASSUME NEW v \in Vouchers, v \in taken(s)
        PROVE  rows[v].supersededBy = new[s] /\ row[v].supersededBy = NoVoucher
    <3>1. v \notin bills /\ row[v].student = s /\ row[v].supersededBy = NoVoucher
      BY <2>1, <2>2 DEF VouchersOf, Absorbable
    <3> HIDE DEF rows, bills
    <3> QED BY <1>5, <2>2, <3>1
  <2>3. ASSUME NEW v \in Vouchers, v \notin bills, rows[v].supersededBy = new[s],
               row[v].supersededBy = NoVoucher
        PROVE  v \in taken(s)
    <3>1. new[s] # NoVoucher
      <4> HIDE DEF rows, taken, billable
      <4> QED BY <1>4, NamesAssumption
    <3>2. PICK t \in billable : v \in taken(t)
      <4> HIDE DEF rows, bills, taken
      <4> QED BY <1>5, <2>3, <3>1
    <3>3. row[v].student = t
      BY <3>2 DEF VouchersOf
    <3>4. rows[v].supersededBy = new[t]
      <4> HIDE DEF rows, bills, taken
      <4> QED BY <1>5, <2>3, <3>2, <3>3
    <3>5. t = s
      <4> HIDE DEF rows, bills, taken
      <4> QED BY <1>2, <2>3, <3>4
    <3> QED BY <3>2, <3>5
  <2>4. taken(s) \subseteq Vouchers
    BY DEF VouchersOf
  <2> HIDE DEF rows, bills, taken
  <2> QED BY <2>1, <2>2, <2>3, <2>4
<1> DEFINE DraftOf(w) ==
      /\ row[w].status = "none"
      /\ rows[w].status = "draft" /\ rows[w].period = period /\ rows[w].paid = 0
      /\ rows[w].student \in Students
      /\ rows[w].supersededBy = NoVoucher
      /\ rows[w].lines["carried"] # 0 => rows[w].carryHead
      /\ rows[w].lines["carried"] = SumTotals(row, {v \in Vouchers \ bills :
           rows[v].supersededBy = w /\ row[v].supersededBy = NoVoucher})
      /\ \A u \in bills : rows[u].student = rows[w].student => u = w
      /\ \A v \in Vouchers : row[v].student = rows[w].student /\ row[v].period = period
                              => row[v].status = "void"
<1>10. ASSUME NEW s \in billable
       PROVE  DraftOf(new[s])
  <2>1. rows[new[s]].lines["carried"] \in Nat
    <3>1. rows[new[s]] \in Row
      BY <1>4
    <3> HIDE DEF rows
    <3> QED BY <3>1, TotalType, ZeroIsAmount DEF Lines
  <2>2. \A u \in bills : rows[u].student = rows[new[s]].student => u = new[s]
    <3> HIDE DEF rows, bills, billable, taken
    <3> QED BY <1>4, <1>6
  <2> HIDE DEF rows, bills, billable, taken
  <2>3. rows[new[s]].lines["carried"] # 0 => rows[new[s]].carryHead
    BY <1>4, <2>1
  <2>4. rows[new[s]].lines["carried"] = SumTotals(row, {v \in Vouchers \ bills :
          rows[v].supersededBy = new[s] /\ row[v].supersededBy = NoVoucher})
    <3>1. rows[new[s]].lines["carried"] = SumTotals(row, taken(s))
      BY <1>4
    <3>2. taken(s) = {v \in Vouchers \ bills :
                        rows[v].supersededBy = new[s] /\ row[v].supersededBy = NoVoucher}
      BY <1>9
    <3> QED BY ONLY <3>1, <3>2, Zenon
  <2>5. \A v \in Vouchers : row[v].student = rows[new[s]].student /\ row[v].period = period
                           => row[v].status = "void"
    BY <1>4, <1>8
  <2>6. /\ row[new[s]].status = "none" /\ rows[new[s]].status = "draft"
        /\ rows[new[s]].period = period /\ rows[new[s]].paid = 0
        /\ rows[new[s]].supersededBy = NoVoucher
    BY <1>4
  <2>7. rows[new[s]].student \in Students
    BY <1>4 DEF billable
  <2> QED BY <2>2, <2>3, <2>4, <2>5, <2>6, <2>7
<1>11. ASSUME NEW v \in Vouchers \ bills, \E s \in billable : v \in taken(s)
       PROVE  /\ rows[v].supersededBy \in bills
              /\ rows[rows[v].supersededBy].student = row[v].student
  <2>1. row[v].student \in billable /\ rows[v].supersededBy = new[row[v].student]
    <3> HIDE DEF rows, bills, billable, taken
    <3> QED BY <1>5, <1>11
  <2> HIDE DEF rows, billable, taken
  <2> QED BY <1>4, <2>1
<1>12. Drafted(rows, bills, period)
  <2> HIDE DEF rows, bills, billable, taken
  <2>1. ASSUME NEW w \in bills PROVE DraftOf(w)
    <3> HIDE DEF DraftOf
    <3>1. PICK s \in billable : w = new[s]
      BY <1>6
    <3> QED BY <1>10, <3>1
  <2>2. ASSUME NEW v \in Vouchers \ bills
        PROVE  /\ rows[v].status = row[v].status /\ rows[v].lines = row[v].lines
               /\ rows[v].student = row[v].student /\ rows[v].period = row[v].period
               /\ rows[v].paid = row[v].paid /\ rows[v].carryHead = row[v].carryHead
               /\ \/ rows[v].supersededBy = row[v].supersededBy
                  \/ /\ Absorbable(row[v]) /\ rows[v].supersededBy \in bills
                     /\ rows[rows[v].supersededBy].student = row[v].student
    BY <1>5, <1>11
  <2> QED BY <2>1, <2>2 DEF Drafted
<1>13. /\ IF issue THEN Bill(rows, bills) ELSE row' = rows /\ ledger' = ledger
       /\ UNCHANGED <<payments, received, movement, adjusted>>
  BY <1>1
<1> HIDE DEF rows, bills
<1> QED BY <1>2, <1>7, <1>12, <1>13

\* A billing run keeps the rules, as drafts or issued at once,
LEMMA GenerateIsAStep ==
  ASSUME Rules, NEW asked \in SUBSET Students, NEW period \in Periods,
         NEW stationery \in Stationery, NEW carry \in BOOLEAN, NEW issue \in BOOLEAN,
         GenerateVouchers(asked, period, stationery, carry, issue)
  PROVE  Step
<1>1. PICK rows \in [Vouchers -> Row], bills \in SUBSET Vouchers :
        /\ Drafted(rows, bills, period)
        /\ IF issue THEN Bill(rows, bills) ELSE row' = rows /\ ledger' = ledger
        /\ UNCHANGED <<payments, received, movement, adjusted>>
  BY GenerateDrafts
<1>2. row \in [Vouchers -> Row] /\ \A v \in Vouchers : Sound(row[v], received[v])
  BY DEF Rules, IInv, TypeOK
<1>3. ASSUME NEW w \in bills
      PROVE  /\ row[w].status = "none" /\ rows[w].status = "draft"
             /\ rows[w].period = period /\ rows[w].paid = 0
             /\ rows[w].supersededBy = NoVoucher
             /\ \A u \in bills : rows[u].student = rows[w].student => u = w
             /\ \A v \in Vouchers : row[v].student = rows[w].student /\ row[v].period = period
                                      => row[v].status = "void"
  BY <1>1 DEF Drafted
<1>4. ASSUME NEW v \in Vouchers, v \notin bills
      PROVE  /\ rows[v].status = row[v].status /\ rows[v].lines = row[v].lines
             /\ rows[v].student = row[v].student /\ rows[v].period = row[v].period
             /\ rows[v].paid = row[v].paid
             /\ \/ rows[v].supersededBy = row[v].supersededBy
                \/ rows[v].supersededBy \in bills /\ row[v].status \in {"issued", "overdue"}
  BY <1>1, <1>4 DEF Drafted, Absorbable
<1>5. ASSUME NEW v \in Vouchers PROVE Sound(rows[v], received[v]) /\ Kept(row[v], rows[v])
  <2>1. Sound(row[v], received[v]) /\ Total(rows[v]) \in Nat
    BY <1>2, TotalType
  <2>2. CASE v \in bills
    BY <1>3, <2>1, <2>2 DEF Sound, Kept, OnAccount
  <2>3. CASE v \notin bills
    <3>1. Total(rows[v]) = Total(row[v])
      BY <1>4, <2>3, TotalFromLines
    <3> QED BY <1>4, <2>1, <2>3, <3>1 DEF Sound, Kept, OnAccount
  <2> QED BY <2>2, <2>3
<1>6. Pointing(rows)
  <2> SUFFICES ASSUME NEW u \in Vouchers, NEW w \in Vouchers,
                      rows[u].supersededBy = w, OnAccount(rows[u])
               PROVE  rows[w].status = "draft"
    BY DEF Pointing
  <2>1. CASE w \in bills
    BY <1>3, <2>1
  <2>2. CASE w \notin bills
    <3>1. u \notin bills
      BY <1>3, NamesAssumption
    <3>2. row[u].supersededBy = w /\ OnAccount(row[u])
      BY <1>4, <2>2, <3>1 DEF OnAccount
    <3> QED BY <1>4, <2>2, <3>2 DEF Rules, Pointing
  <2> QED BY <2>1, <2>2
<1>7. Distinct(rows)
  <2> SUFFICES ASSUME NEW v \in Vouchers, NEW w \in Vouchers, v # w,
                      rows[v].student = rows[w].student,
                      rows[v].period = rows[w].period, rows[v].period # NoPeriod
               PROVE  rows[v].status = "void" \/ rows[w].status = "void"
    BY DEF Distinct
  <2>1. CASE v \in bills /\ w \in bills
    BY <1>3, <2>1
  <2>2. CASE v \in bills /\ w \notin bills
    BY <1>3, <1>4, <2>2
  <2>3. CASE v \notin bills /\ w \in bills
    BY <1>3, <1>4, <2>3
  <2>4. CASE v \notin bills /\ w \notin bills
    BY <1>4, <2>4 DEF Rules, Distinct
  <2> QED BY <2>1, <2>2, <2>3, <2>4
<1>8. CASE issue
  <2>1. Bill(rows, bills) /\ received' = received
    BY <1>1, <1>8
  <2>2. /\ \A v \in Vouchers : Sound(row'[v], received'[v]) /\ Kept(rows[v], row'[v])
        /\ Pointing(row') /\ Distinct(row')
    BY <1>3, <1>5, <1>6, <1>7, <2>1, BillKeepsRules
  <2>3. ASSUME NEW v \in Vouchers PROVE Kept(row[v], row'[v])
    <3>1. Kept(row[v], rows[v]) /\ Kept(rows[v], row'[v])
      BY <1>5, <2>2
    <3>2. /\ v \in bills => row[v].status = "none"
          /\ v \notin bills => rows[v].status = row[v].status /\ rows[v].lines = row[v].lines
      BY <1>3, <1>4
    <3> QED BY <3>1, <3>2 DEF Kept, OnAccount
  <2> QED BY <2>2, <2>3 DEF Step
<1>9. CASE ~issue
  BY <1>1, <1>5, <1>6, <1>7, <1>9 DEF Step
<1> QED BY <1>8, <1>9

\* and so does the issue of one draft.
LEMMA IssueIsAStep ==
  ASSUME Rules, NEW v \in Vouchers, IssueVoucher(v)
  PROVE  Step
<1>1. Bill(row, {v}) /\ row[v].status = "draft" /\ received' = received
  BY DEF IssueVoucher
<1>2. row \in [Vouchers -> Row] /\ {v} \in SUBSET Vouchers
  BY DEF Rules, IInv, TypeOK
<1> QED BY <1>1, <1>2, BillKeepsRules DEF Rules, Step

\* Each fine is a fresh challan for its amount alone, debited as a late fee; the
\* rest of the table and of the ledger stays as it is.
LEMMA FinesMinted ==
  ASSUME Rules, ApplyLateFees
  PROVE  \E minted \in SUBSET Vouchers :
           /\ \A v \in minted : row[v].status = "none"
           /\ \A v \in minted :
                /\ row'[v].status = "issued" /\ row'[v].period = NoPeriod
                /\ row'[v].paid = 0 /\ row'[v].supersededBy = NoVoucher
                /\ row'[v].lines["carried"] = 0
                /\ \E w \in Vouchers : OnAccount(row[w]) /\ row'[v].student = row[w].student
                /\ \E fine \in Fines :
                     /\ row'[v].lines = LinesOf(fine, 0, 0)
                     /\ ledger'[v] = [ledger[v] EXCEPT !["late_fee"] = @ + fine]
           /\ \A v \in Vouchers \ minted : row'[v] = row[v] /\ ledger'[v] = ledger[v]
           /\ UNCHANGED <<payments, received, movement, adjusted>>
<1> DEFINE finable == {v \in Vouchers : Finable(row[v])}
           source(n, f, v) == CHOOSE w \in f : n[w] = v
           charge(n, f, a, v) ==
             [NoRow EXCEPT !.status = "issued", !.origin = "late_fee",
                           !.student = row[source(n, f, v)].student,
                           !.lines = LinesOf(a[source(n, f, v)], 0, 0)]
<1>1. PICK fined \in SUBSET finable : \E new \in Injection(fined, Unused), fine \in [fined -> Fines] :
        /\ row' = [v \in Vouchers |->
             IF v \in {new[w] : w \in fined} THEN charge(new, fined, fine, v) ELSE row[v]]
        /\ ledger' = [v \in Vouchers |->
             IF v \in {new[w] : w \in fined}
             THEN [ledger[v] EXCEPT !["late_fee"] = @ + fine[source(new, fined, v)]]
             ELSE ledger[v]]
        /\ UNCHANGED <<payments, received, movement, adjusted>>
  BY DEF ApplyLateFees
<1>2. PICK new \in Injection(fined, Unused), fine \in [fined -> Fines] :
        /\ row' = [v \in Vouchers |->
             IF v \in {new[w] : w \in fined} THEN charge(new, fined, fine, v) ELSE row[v]]
        /\ ledger' = [v \in Vouchers |->
             IF v \in {new[w] : w \in fined}
             THEN [ledger[v] EXCEPT !["late_fee"] = @ + fine[source(new, fined, v)]]
             ELSE ledger[v]]
        /\ UNCHANGED <<payments, received, movement, adjusted>>
  BY <1>1
<1> DEFINE minted == {new[w] : w \in fined}
<1>3. minted \in SUBSET Vouchers /\ \A v \in minted : row[v].status = "none"
  BY <1>2 DEF Injection, Unused
<1>4. ASSUME NEW v \in minted
      PROVE  /\ row'[v].status = "issued" /\ row'[v].period = NoPeriod
             /\ row'[v].paid = 0 /\ row'[v].supersededBy = NoVoucher
             /\ row'[v].lines["carried"] = 0
             /\ \E w \in Vouchers : OnAccount(row[w]) /\ row'[v].student = row[w].student
             /\ \E a \in Fines :
                  /\ row'[v].lines = LinesOf(a, 0, 0)
                  /\ ledger'[v] = [ledger[v] EXCEPT !["late_fee"] = @ + a]
  <2> DEFINE student == row[source(new, fined, v)].student
             amount == fine[source(new, fined, v)]
             lines == LinesOf(amount, 0, 0)
  <2>1. row'[v] = [NoRow EXCEPT !.status = "issued", !.origin = "late_fee",
                                !.student = student, !.lines = lines]
    BY <1>2, <1>3
  <2>2. source(new, fined, v) \in fined
    OBVIOUS
  <2>3. amount \in Fines
    <3> HIDE DEF source
    <3> QED BY <2>2
  <2>4. ledger'[v] = [ledger[v] EXCEPT !["late_fee"] = @ + amount]
    BY <1>2, <1>3
  <2>5. lines["carried"] = 0
    BY DEF LinesOf, Lines
  <2>6. \E w \in Vouchers : OnAccount(row[w]) /\ student = row[w].student
    <3> HIDE DEF source
    <3> QED BY <2>2 DEF Finable
  <2> HIDE DEF student, lines, amount
  <2>7. /\ row'[v].status = "issued" /\ row'[v].period = NoPeriod
        /\ row'[v].paid = 0 /\ row'[v].supersededBy = NoVoucher
        /\ row'[v].lines = lines /\ row'[v].student = student
    BY <2>1 DEF NoRow
  <2> QED BY <2>3, <2>4, <2>5, <2>6, <2>7 DEF lines
<1>5. \A v \in Vouchers \ minted : row'[v] = row[v] /\ ledger'[v] = ledger[v]
  BY <1>2
<1>6. UNCHANGED <<payments, received, movement, adjusted>>
  BY <1>2
<1> HIDE DEF minted
<1> QED BY <1>3, <1>4, <1>5, <1>6

\* A fine is a challan of its own: it has no period and reserves nothing.
LEMMA FinesAreAStep ==
  ASSUME Rules, ApplyLateFees
  PROVE  Step
<1>1. PICK minted \in SUBSET Vouchers :
        /\ \A v \in minted : row[v].status = "none"
        /\ \A v \in minted :
             /\ row'[v].status = "issued" /\ row'[v].period = NoPeriod
             /\ row'[v].paid = 0 /\ row'[v].supersededBy = NoVoucher
        /\ \A v \in Vouchers \ minted : row'[v] = row[v]
        /\ received' = received
  BY FinesMinted
<1>2. IInv'
  BY LateFeesKeepIInv DEF Rules
<1>3. ASSUME NEW v \in Vouchers PROVE Sound(row'[v], received'[v]) /\ Kept(row[v], row'[v])
  <2>1. Sound(row[v], received[v]) /\ received'[v] = received[v] /\ Total(row'[v]) \in Nat
    BY <1>1, <1>2, TotalType DEF Rules, IInv, TypeOK
  <2>2. CASE v \in minted
    BY <1>1, <2>1, <2>2 DEF Sound, Kept, OnAccount
  <2>3. CASE v \notin minted
    BY <1>1, <2>1, <2>3 DEF Kept, OnAccount
  <2> QED BY <2>2, <2>3
<1>4. Pointing(row')
  <2> SUFFICES ASSUME NEW u \in Vouchers, NEW w \in Vouchers,
                      row'[u].supersededBy = w, OnAccount(row'[u])
               PROVE  row'[w].status = "draft"
    BY DEF Pointing
  <2>1. u \notin minted
    BY <1>1, NamesAssumption
  <2>2. row[w].status = "draft"
    BY <1>1, <2>1 DEF Rules, Pointing
  <2> QED BY <1>1, <2>2
<1>5. Distinct(row')
  BY <1>1 DEF Rules, Distinct
<1> QED BY <1>3, <1>4, <1>5 DEF Step

-----------------------------------------------------------------------------
\* The rules hold of an empty office.
LEMMA InitRules == Init => Rules
<1> SUFFICES ASSUME Init PROVE Rules
  OBVIOUS
<1>1. IInv
  BY InitIInv
<1>2. \A v \in Vouchers : row[v] = NoRow /\ received[v] = 0 /\ row[v] \in Row
  BY <1>1 DEF Init, IInv, TypeOK
<1>3. NoRow.status = "none" /\ NoRow.period = NoPeriod /\ NoRow.paid = 0
      /\ NoRow.supersededBy = NoVoucher
  BY DEF NoRow
<1>4. \A v \in Vouchers : Sound(row[v], received[v])
  <2> SUFFICES ASSUME NEW v \in Vouchers PROVE Sound(row[v], received[v])
    OBVIOUS
  <2>1. Total(row[v]) \in Nat
    BY <1>2, TotalType
  <2> QED BY <1>2, <1>3, <2>1 DEF Sound
<1>5. Pointing(row) /\ Distinct(row)
  BY <1>2, <1>3 DEF Pointing, Distinct, OnAccount
<1> QED BY <1>1, <1>4, <1>5 DEF Rules

\* Every request, and the nightly pass, keeps them.
LEMMA NextIsAStep == Rules /\ [Next]_vars => Step
<1> SUFFICES ASSUME Rules, [Next]_vars PROVE Step
  OBVIOUS
<1>1. ASSUME NEW asked \in SUBSET Students, NEW period \in Periods,
             NEW stationery \in Stationery, NEW carry \in BOOLEAN, NEW issue \in BOOLEAN,
             GenerateVouchers(asked, period, stationery, carry, issue)
      PROVE  Step
  BY <1>1, GenerateIsAStep
<1>2. ASSUME NEW v \in Vouchers, IssueVoucher(v) \/ VoidVoucher(v) \/ DueDatePasses(v)
      PROVE  Step
  BY <1>2, IssueIsAStep, VoidIsAStep, DueDateIsAStep
<1>3. /\ Charges \subseteq Amount /\ 0 \in Amount /\ "stationery" \in Lines
  BY AmountsAssumption, ZeroIsAmount DEF Amount, Lines
<1>4. ASSUME NEW v \in Vouchers,
             \/ RemoveVoucherCharge(v)
             \/ \E amount \in Charges : AddVoucherCharge(v, amount)
             \/ \E line \in Lines : \/ RemoveVoucherFeeCharge(v, line)
                                     \/ \E amount \in Charges : AddVoucherFeeCharge(v, line, amount)
      PROVE  Step
  <2>1. PICK line \in Lines, amount \in Amount : SetLine(v, line, amount)
    BY <1>3, <1>4 DEF AddVoucherCharge, RemoveVoucherCharge, AddVoucherFeeCharge,
                      RemoveVoucherFeeCharge
  <2> QED BY <2>1, EditIsAStep
<1>5. ASSUME NEW p \in Payments, NEW v \in Vouchers, NEW amount \in Charges,
             RecordPayment(p, v, amount)
      PROVE  Step
  BY <1>5, PaymentIsAStep
<1>6. ASSUME NEW p \in Payments, ReversePayment(p) PROVE Step
  BY <1>6, ReversalIsAStep
<1>7. CASE ApplyLateFees
  BY <1>7, FinesAreAStep
<1>8. ASSUME NEW s \in Students, NEW amount \in Adjustments, AdjustLedger(s, amount)
      PROVE  Step
  BY <1>8, NothingMoves DEF AdjustLedger
<1>9. CASE UNCHANGED vars
  BY <1>9, NothingMoves DEF vars
<1> QED BY <1>1, <1>2, <1>4, <1>5, <1>6, <1>7, <1>8, <1>9 DEF Next

\* The rules hold in every reachable state.
LEMMA RulesHold == Spec => []Rules
<1>1. Rules /\ [Next]_vars => Rules'
  BY NextIInv, NextIsAStep DEF Rules, Step, Sound, Pointing, Distinct, OnAccount
<1> QED BY <1>1, InitRules, PTL DEF Spec

\* Rule 1 of the module: what an issued challan bills is never rewritten, by an
\* edit, a consolidation, a receipt or a void.
THEOREM IssuedBillsStayFinal == Spec => IssuedBillsAreFinal
<1>1. Rules /\ [Next]_vars =>
        [\A v \in Vouchers :
           row[v].status \notin {"none", "draft"} => row'[v].lines = row[v].lines]_vars
  BY NextIsAStep DEF Step, Kept
<1> QED BY <1>1, RulesHold, PTL DEF Spec, IssuedBillsAreFinal

\* A cancelled challan is never revived, and an issued one never a draft again.
THEOREM VoidStaysVoid == Spec => VoidIsForever
<1>1. Rules /\ [Next]_vars =>
        [\A v \in Vouchers :
           /\ row[v].status = "void" => row'[v].status = "void"
           /\ OnAccount(row[v]) => row'[v].status # "draft"]_vars
  BY NextIsAStep DEF Step, Kept
<1> QED BY <1>1, RulesHold, PTL DEF Spec, VoidIsForever

\* No family holds two live challans of a period.
THEOREM BilledOncePerPeriod == Spec => []OneChallanPerPeriod
<1>1. Rules => OneChallanPerPeriod
  BY DEF Rules, Distinct, OneChallanPerPeriod
<1> QED BY <1>1, RulesHold, PTL

\* No live challan waits for a bill that will never be issued or was issued without it.
THEOREM NothingIsStranded == Spec => []NothingStranded
<1>1. Rules => NothingStranded
  BY DEF Rules, Pointing, NothingStranded
<1> QED BY <1>1, RulesHold, PTL

\* Serial receipts never exceed the bill, whatever is drafted, edited or reversed.
THEOREM NothingIsOverpaid == Spec => []NeverOverpaid
<1>1. Rules => NeverOverpaid
  BY DEF Rules, Sound, NeverOverpaid
<1> QED BY <1>1, RulesHold, PTL

-----------------------------------------------------------------------------
(* What a challan carries.                                                  *)

\* A reservation is held by a live challan of the same family.
Held(rows) ==
  \A v, w \in Vouchers :
    rows[v].supersededBy = w =>
      rows[w].status \notin {"none", "void"} /\ rows[w].student = rows[v].student
\* A draft with a carried line can have it repriced.
Headed(rows) ==
  \A w \in Vouchers :
    rows[w].status = "draft" /\ rows[w].lines["carried"] # 0 => rows[w].carryHead
Carries(rows) ==
  \A w \in Vouchers :
    rows[w].status \notin {"none", "void"} =>
      rows[w].lines["carried"] = SumTotals(rows, Reserved(rows, w))
Carry(rows) == Held(rows) /\ (~EditsCarriedLine => Headed(rows) /\ Carries(rows))

\* The total of some challans depends on what each bills, and on nothing else.
LEMMA TotalsSame ==
  ASSUME NEW rows, NEW q, NEW S, \A v \in S : Total(q[v]) = Total(rows[v])
  PROVE  SumTotals(q, S) = SumTotals(rows, S)
<1>1. [v \in S |-> Total(q[v])] = [v \in S |-> Total(rows[v])]
  OBVIOUS
<1> QED BY <1>1 DEF SumTotals

\* It is a sum over a set of rows, as SumFacts has it.
LEMMA TotalsOnSet ==
  ASSUME NEW rows, NEW S
  PROVE  SumTotals(rows, S) = SumFunctionOnSet([v \in S |-> Total(rows[v])], S)
BY SumOfFunction DEF SumTotals

\* Nothing is carried by what absorbs nothing, and a part of nothing is nothing.
LEMMA TotalsZero ==
  ASSUME NEW rows \in [Vouchers -> Row], NEW S \in SUBSET Vouchers, NEW T \in SUBSET S,
         SumTotals(rows, S) = 0
  PROVE  SumTotals(rows, T) = 0
<1> DEFINE f == [v \in S |-> Total(rows[v])]
           g == [v \in T |-> Total(rows[v])]
<1>1. IsFiniteSet(S) /\ IsFiniteSet(T)
  BY RowsAssumption, FS_Subset
<1>2. \A v \in Vouchers : Total(rows[v]) \in Nat
  BY TotalType
<1>3. \A v \in S : f[v] \in Nat
  BY <1>2
<1>4. SumFunctionOnSet(f, S) = 0
  BY TotalsOnSet
<1>5. \A v \in S : f[v] <= 0
  <2> HIDE DEF f
  <2> QED BY <1>1, <1>3, <1>4, SumNat
<1>6. \A v \in T : g[v] = 0
  BY <1>3, <1>5
<1>7. SumFunctionOnSet(g, T) = 0
  <2> HIDE DEF g
  <2> QED BY <1>1, <1>6, SumZero
<1> QED BY <1>7, TotalsOnSet

\* From rows to q the challans of gone are cancelled and let go what they hold; no
\* other carried line, holder or reserved total is touched.
LetGo(rows, q, gone) ==
  \A v \in Vouchers :
    /\ q[v].student = rows[v].student /\ q[v].carryHead = rows[v].carryHead
    /\ ~EditsCarriedLine => q[v].lines["carried"] = rows[v].lines["carried"]
    /\ rows[v].supersededBy # NoVoucher => Total(q[v]) = Total(rows[v])
    /\ q[v].supersededBy = IF rows[v].supersededBy \in gone THEN NoVoucher
                           ELSE rows[v].supersededBy
    /\ q[v].status \notin {"none", "void"} <=>
         v \notin gone /\ rows[v].status \notin {"none", "void"}
    /\ q[v].status = "draft" => rows[v].status = "draft"

\* Reservations stay true when the only ones let go are of a challan that is gone.
LEMMA CarryStays ==
  ASSUME NEW rows \in [Vouchers -> Row], NEW q \in [Vouchers -> Row], NEW gone \in SUBSET Vouchers,
         Carry(rows), LetGo(rows, q, gone)
  PROVE  Carry(q)
<1>1. Held(q)
  BY NamesAssumption DEF Carry, Held, LetGo
<1>2. Headed(q) /\ Carries(q)
      <=> Headed(q) /\ \A w \in Vouchers :
            q[w].status \notin {"none", "void"} =>
              q[w].lines["carried"] = SumTotals(q, Reserved(q, w))
  BY DEF Carries
<1>3. ASSUME ~EditsCarriedLine PROVE Headed(q)
  BY <1>3 DEF Carry, Headed, LetGo
<1>4. ASSUME ~EditsCarriedLine, NEW w \in Vouchers, q[w].status \notin {"none", "void"}
      PROVE  q[w].lines["carried"] = SumTotals(q, Reserved(q, w))
  <2>1. w \notin gone /\ rows[w].status \notin {"none", "void"} /\ w # NoVoucher
    BY <1>4, NamesAssumption DEF LetGo
  <2>2. Reserved(q, w) = Reserved(rows, w)
    BY <2>1 DEF Reserved, LetGo
  <2>3. \A v \in Reserved(rows, w) : Total(q[v]) = Total(rows[v])
    BY <2>1 DEF Reserved, LetGo
  <2>4. SumTotals(q, Reserved(rows, w)) = SumTotals(rows, Reserved(rows, w))
    BY <2>3, TotalsSame
  <2>5. rows[w].lines["carried"] = SumTotals(rows, Reserved(rows, w))
    BY <1>4, <2>1 DEF Carry, Carries
  <2> QED BY <1>4, <2>2, <2>4, <2>5 DEF LetGo
<1> QED BY <1>1, <1>2, <1>3, <1>4 DEF Carry

\* A bill issued for less than it reserved carries what is left.
LEMMA RepricedCarries ==
  ASSUME NEW rows \in [Vouchers -> Row], NEW w \in Vouchers, rows[w].status = "draft",
         Headed(rows), Carries(rows)
  PROVE  Repriced(rows, w).lines["carried"] = SumTotals(rows, Absorbed(rows, w))
<1> DEFINE r == rows[w]
           left == SumTotals(rows, Absorbed(rows, w))
<1>1. r.lines["carried"] = SumTotals(rows, Reserved(rows, w))
  BY DEF Carries
<1>2. CASE Released(rows, w) = {}
  <2>1. Absorbed(rows, w) = Reserved(rows, w)
    BY <1>2 DEF Absorbed
  <2>2. Repriced(rows, w) = r
    BY <1>2 DEF Repriced
  <2> QED BY <1>1, <2>1, <2>2
<1>3. CASE Released(rows, w) # {} /\ r.lines["carried"] = 0
  <2>1. Repriced(rows, w) = r
    BY <1>3 DEF Repriced
  <2>2. Reserved(rows, w) \in SUBSET Vouchers /\ Absorbed(rows, w) \in SUBSET Reserved(rows, w)
    BY DEF Reserved, Absorbed
  <2>3. left = 0
    BY <1>1, <1>3, <2>2, TotalsZero
  <2> QED BY <1>3, <2>1, <2>3
<1>4. CASE Released(rows, w) # {} /\ r.lines["carried"] # 0
  <2>1. r.carryHead
    BY <1>4 DEF Headed
  <2>2. Repriced(rows, w) = [r EXCEPT !.lines["carried"] = left, !.carryHead = left > 0]
    BY <1>4, <2>1 DEF Repriced
  <2>3. r \in Row /\ r.lines \in [Lines -> Amount]
    BY TotalType
  <2> HIDE DEF left
  <2>4. [r EXCEPT !.lines["carried"] = left, !.carryHead = left > 0].lines["carried"] = left
    BY <2>3 DEF Row, Lines
  <2> QED BY <2>2, <2>4 DEF left
<1> QED BY <1>2, <1>3, <1>4

\* The rows a bill holds after a billing step are the ones it absorbed.
LEMMA BilledReserves ==
  ASSUME NEW rows \in [Vouchers -> Row], NEW bills \in SUBSET Vouchers, Bill(rows, bills),
         \A v \in Vouchers : Sound(rows[v], received[v]),
         \A v \in bills : rows[v].status = "draft",
         NEW w \in Vouchers, w \notin AllAbsorbed(rows, bills)
  PROVE  Reserved(row', w) = IF w \in bills THEN Absorbed(rows, w) ELSE Reserved(rows, w)
<1> DEFINE gone == AllAbsorbed(rows, bills)
<1>1. ASSUME NEW v \in Vouchers
      PROVE  row'[v].supersededBy =
               IF \/ v \notin bills /\ \E u \in bills : v \in Released(rows, u)
                  \/ rows[v].supersededBy \in gone
               THEN NoVoucher ELSE rows[v].supersededBy
  BY BilledRow
<1>2. w # NoVoucher
  BY NamesAssumption
<1>3. \A v \in bills : rows[v].supersededBy = NoVoucher
  BY DEF Sound
<1>4. \A v \in Vouchers, u \in bills : v \in Released(rows, u) => rows[v].supersededBy = u
  BY DEF Released, Reserved
<1>5. \A v \in Vouchers :
        row'[v].supersededBy = w <=>
          /\ rows[v].supersededBy = w
          /\ w \in bills => v \notin Released(rows, w)
  BY <1>1, <1>2, <1>3, <1>4
<1>6. Reserved(row', w) = {v \in Vouchers : row'[v].supersededBy = w}
  BY DEF Reserved
<1> QED BY <1>5, <1>6 DEF Reserved, Absorbed

\* After a billing step, every carried line bills what still points at its challan:
LEMMA BillCarries ==
  ASSUME NEW rows \in [Vouchers -> Row], NEW bills \in SUBSET Vouchers, Bill(rows, bills),
         \A v \in Vouchers : Sound(rows[v], received[v]), Carry(rows),
         \A v \in bills : rows[v].status = "draft"
  PROVE  Carry(row')
<1> DEFINE gone == AllAbsorbed(rows, bills)
<1>1. ASSUME NEW v \in Vouchers
      PROVE  /\ row'[v].student = rows[v].student
             /\ row'[v].lines = IF v \in bills THEN Repriced(rows, v).lines ELSE rows[v].lines
             /\ v \notin bills => row'[v].carryHead = rows[v].carryHead
             /\ v \in bills => row'[v].status = "issued"
             /\ v \notin bills =>
                  row'[v].status = IF v \in gone THEN "void" ELSE rows[v].status
  BY BillShape, BilledRow
<1>2. ASSUME NEW v \in gone
      PROVE  v \notin bills /\ v \in Vouchers
  <2>1. v \in Vouchers /\ rows[v].supersededBy \in Vouchers
    BY DEF AllAbsorbed, Absorbed, Reserved
  <2> QED BY <2>1, NamesAssumption DEF Sound
<1>3. ASSUME NEW w \in Vouchers, w \notin gone
      PROVE  Reserved(row', w) = IF w \in bills THEN Absorbed(rows, w) ELSE Reserved(rows, w)
  BY <1>3, BilledReserves
<1>4. Held(row')
  <2> SUFFICES ASSUME NEW v \in Vouchers, NEW w \in Vouchers, row'[v].supersededBy = w
               PROVE  row'[w].status \notin {"none", "void"} /\ row'[w].student = row'[v].student
    BY DEF Held
  <2>1. rows[v].supersededBy = w /\ w \notin gone
    BY BilledRow, NamesAssumption
  <2>2. rows[w].status \notin {"none", "void"} /\ rows[w].student = rows[v].student
    BY <2>1 DEF Carry, Held
  <2> QED BY <1>1, <2>1, <2>2
<1>5. ASSUME ~EditsCarriedLine PROVE Headed(row')
  <2> SUFFICES ASSUME NEW w \in Vouchers, row'[w].status = "draft",
                      row'[w].lines["carried"] # 0
               PROVE  row'[w].carryHead
    BY DEF Headed
  <2>1. w \notin bills /\ rows[w].status = "draft"
    BY <1>1
  <2>2. row'[w].lines = rows[w].lines /\ row'[w].carryHead = rows[w].carryHead
    BY <1>1, <2>1
  <2>3. rows[w].carryHead
    BY <1>5, <2>1, <2>2 DEF Carry, Headed
  <2> QED BY <2>2, <2>3
<1>6. ASSUME ~EditsCarriedLine, NEW w \in Vouchers, row'[w].status \notin {"none", "void"}
      PROVE  row'[w].lines["carried"] = SumTotals(row', Reserved(row', w))
  <2>1. w \notin gone
    BY <1>1, <1>2, <1>6
  <2>2. \A v \in Reserved(rows, w) : Total(row'[v]) = Total(rows[v])
    <3> SUFFICES ASSUME NEW v \in Reserved(rows, w) PROVE Total(row'[v]) = Total(rows[v])
      OBVIOUS
    <3>1. v \in Vouchers /\ v \notin bills
      BY NamesAssumption DEF Reserved, Sound
    <3> QED BY <1>1, <3>1, TotalFromLines
  <2>3. CASE w \in bills
    <3>1. row'[w].lines["carried"] = SumTotals(rows, Absorbed(rows, w))
      BY <1>1, <1>6, <2>3, RepricedCarries DEF Carry
    <3>2. \A v \in Absorbed(rows, w) : Total(row'[v]) = Total(rows[v])
      BY <2>2 DEF Absorbed
    <3>3. SumTotals(row', Absorbed(rows, w)) = SumTotals(rows, Absorbed(rows, w))
      BY <3>2, TotalsSame
    <3>4. Reserved(row', w) = Absorbed(rows, w)
      BY <1>3, <2>1, <2>3
    <3> QED BY <3>1, <3>3, <3>4
  <2>4. CASE w \notin bills
    <3>1. rows[w].status \notin {"none", "void"} /\ row'[w].lines = rows[w].lines
      BY <1>1, <1>6, <2>1, <2>4
    <3>2. rows[w].lines["carried"] = SumTotals(rows, Reserved(rows, w))
      BY <1>6, <3>1 DEF Carry, Carries
    <3>3. SumTotals(row', Reserved(rows, w)) = SumTotals(rows, Reserved(rows, w))
      BY <2>2, TotalsSame
    <3>4. Reserved(row', w) = Reserved(rows, w)
      BY <1>3, <2>1, <2>4
    <3> QED BY <3>1, <3>2, <3>3, <3>4
  <2> QED BY <2>3, <2>4
<1> QED BY <1>4, <1>5, <1>6 DEF Carry, Carries

\* when one draft is issued,
LEMMA IssueCarries ==
  ASSUME Rules, Carry(row), NEW v \in Vouchers, IssueVoucher(v)
  PROVE  Carry(row')
<1>1. Bill(row, {v}) /\ row[v].status = "draft"
  BY DEF IssueVoucher
<1>2. row \in [Vouchers -> Row] /\ {v} \in SUBSET Vouchers
  BY DEF Rules, IInv, TypeOK
<1> QED BY <1>1, <1>2, BillCarries DEF Rules

\* The drafts of a billing run carry exactly what points at them.
LEMMA DraftsCarry ==
  ASSUME Rules, Carry(row), NEW rows \in [Vouchers -> Row], NEW bills \in SUBSET Vouchers,
         NEW period, Drafted(rows, bills, period)
  PROVE  Carry(rows) /\ \A v \in Vouchers : Sound(rows[v], received[v])
<1>1. ASSUME NEW w \in bills
      PROVE  /\ row[w].status = "none" /\ rows[w].status = "draft"
             /\ rows[w].supersededBy = NoVoucher /\ rows[w].paid = 0
             /\ rows[w].lines["carried"] # 0 => rows[w].carryHead
  BY DEF Drafted
<1>2. ASSUME NEW v \in Vouchers, v \notin bills
      PROVE  /\ rows[v].status = row[v].status /\ rows[v].lines = row[v].lines
             /\ rows[v].student = row[v].student /\ rows[v].carryHead = row[v].carryHead
             /\ rows[v].period = row[v].period /\ rows[v].paid = row[v].paid
             /\ \/ rows[v].supersededBy = row[v].supersededBy
                \/ /\ row[v].supersededBy = NoVoucher
                   /\ row[v].status \in {"issued", "overdue"}
                   /\ rows[v].supersededBy \in bills
                   /\ rows[rows[v].supersededBy].student = row[v].student
  BY <1>2 DEF Drafted, Absorbable
<1>3. /\ row \in [Vouchers -> Row] /\ NoVoucher \notin Vouchers
      /\ \A v \in Vouchers : Sound(row[v], received[v])
  BY NamesAssumption DEF Rules, IInv, TypeOK
<1>4. \A v \in Vouchers : row[v].supersededBy \notin bills
  BY <1>1 DEF Carry, Held
<1>5. Held(rows)
  <2> SUFFICES ASSUME NEW v \in Vouchers, NEW w \in Vouchers, rows[v].supersededBy = w
               PROVE  rows[w].status \notin {"none", "void"} /\ rows[w].student = rows[v].student
    BY DEF Held
  <2>1. v \notin bills
    BY <1>1, <1>3
  <2>2. CASE w \in bills
    <3>1. rows[v].supersededBy # row[v].supersededBy
      BY <1>4, <2>2
    <3>2. rows[rows[v].supersededBy].student = row[v].student
          /\ rows[v].student = row[v].student
      BY <1>2, <2>1, <3>1
    <3> QED BY <1>1, <2>2, <3>2
  <2>3. CASE w \notin bills
    BY <1>2, <2>1, <2>3 DEF Carry, Held
  <2> QED BY <2>2, <2>3
<1>6. ASSUME ~EditsCarriedLine PROVE Headed(rows)
  <2> SUFFICES ASSUME NEW w \in Vouchers, rows[w].status = "draft",
                      rows[w].lines["carried"] # 0
               PROVE  rows[w].carryHead
    BY DEF Headed
  <2>1. CASE w \in bills
    BY <1>1, <2>1
  <2>2. CASE w \notin bills
    <3>1. /\ rows[w].status = row[w].status /\ rows[w].lines = row[w].lines
          /\ rows[w].carryHead = row[w].carryHead
      BY <1>2, <2>2
    <3>2. row[w].carryHead
      BY <1>6, <3>1 DEF Carry, Headed
    <3> QED BY <3>1, <3>2
  <2> QED BY <2>1, <2>2
<1>7. ASSUME NEW v \in Vouchers, v \notin bills PROVE Total(rows[v]) = Total(row[v])
  BY <1>2, <1>7, TotalFromLines
<1>8. ASSUME ~EditsCarriedLine, NEW w \in Vouchers, rows[w].status \notin {"none", "void"}
      PROVE  rows[w].lines["carried"] = SumTotals(rows, Reserved(rows, w))
  <2>1. \A v \in Reserved(rows, w) : v \notin bills
    BY <1>1, <1>3 DEF Reserved
  <2>2. SumTotals(rows, Reserved(rows, w)) = SumTotals(row, Reserved(rows, w))
    <3>1. \A v \in Reserved(rows, w) : Total(rows[v]) = Total(row[v])
      BY <1>7, <2>1 DEF Reserved
    <3> QED BY <3>1, TotalsSame
  <2>3. CASE w \in bills
    <3>1. Reserved(rows, w) = {v \in Vouchers \ bills :
                                 rows[v].supersededBy = w /\ row[v].supersededBy = NoVoucher}
      BY <1>2, <1>4, <2>1, <2>3 DEF Reserved
    <3>2. rows[w].lines["carried"] = SumTotals(row, {v \in Vouchers \ bills :
            rows[v].supersededBy = w /\ row[v].supersededBy = NoVoucher})
      BY <2>3 DEF Drafted
    <3>3. rows[w].lines["carried"] = SumTotals(row, Reserved(rows, w))
      BY ONLY <3>1, <3>2, Zenon
    <3> QED BY <2>2, <3>3
  <2>4. CASE w \notin bills
    <3>1. \A v \in bills : row[v].supersededBy = NoVoucher
      BY <1>1, <1>3 DEF Sound
    <3>2. Reserved(rows, w) = Reserved(row, w)
      <4>1. ASSUME NEW v \in Vouchers
            PROVE  rows[v].supersededBy = w <=> row[v].supersededBy = w
        <5>1. CASE v \in bills
          BY <1>1, <1>3, <3>1, <5>1
        <5>2. CASE v \notin bills
          BY <1>2, <1>3, <2>4, <5>2
        <5> QED BY <5>1, <5>2
      <4> QED BY <4>1 DEF Reserved
    <3>3. row[w].status \notin {"none", "void"} /\ rows[w].lines = row[w].lines
      BY <1>2, <1>8, <2>4
    <3>4. row[w].lines["carried"] = SumTotals(row, Reserved(row, w))
      BY <1>8, <3>3 DEF Carry, Carries
    <3> QED BY <2>2, <3>2, <3>3, <3>4
  <2> QED BY <2>3, <2>4
<1>9. ASSUME NEW v \in Vouchers PROVE Sound(rows[v], received[v])
  <2>1. Sound(row[v], received[v]) /\ Total(rows[v]) \in Nat
    BY <1>3, TotalType
  <2>2. CASE v \in bills
    <3>1. received[v] = 0
      BY <1>1, <2>1, <2>2 DEF Sound
    <3> QED BY <1>1, <2>1, <2>2, <3>1 DEF Sound
  <2>3. CASE v \notin bills
    BY <1>2, <1>7, <2>1, <2>3 DEF Sound
  <2> QED BY <2>2, <2>3
<1> QED BY <1>5, <1>6, <1>8, <1>9 DEF Carry, Carries

\* and when a whole class is billed, as drafts or at once.
LEMMA GenerateCarries ==
  ASSUME Rules, Carry(row), NEW asked \in SUBSET Students, NEW period \in Periods,
         NEW stationery \in Stationery, NEW carry \in BOOLEAN, NEW issue \in BOOLEAN,
         GenerateVouchers(asked, period, stationery, carry, issue)
  PROVE  Carry(row')
<1>1. PICK rows \in [Vouchers -> Row], bills \in SUBSET Vouchers :
        /\ Drafted(rows, bills, period)
        /\ IF issue THEN Bill(rows, bills) ELSE row' = rows /\ ledger' = ledger
        /\ UNCHANGED <<payments, received, movement, adjusted>>
  BY GenerateDrafts
<1>2. Carry(rows) /\ \A v \in Vouchers : Sound(rows[v], received[v])
  BY <1>1, DraftsCarry
<1>3. CASE issue
  <2>1. Bill(rows, bills)
    BY <1>1, <1>3
  <2>2. \A v \in bills : rows[v].status = "draft"
    BY <1>1 DEF Drafted
  <2> QED BY <1>2, <2>1, <2>2, BillCarries
<1>4. CASE ~issue
  BY <1>1, <1>2, <1>4
<1> QED BY <1>3, <1>4

\* A cancelled challan lets go all it reserved, and stays where it is itself reserved.
LEMMA VoidCarries ==
  ASSUME Rules, Carry(row), NEW v \in Vouchers, VoidVoucher(v)
  PROVE  Carry(row')
<1>1. row' = Voided(row, {v}) /\ row \in [Vouchers -> Row] /\ {v} \in SUBSET Vouchers
  BY DEF VoidVoucher, Rules, IInv, TypeOK
<1>2. row' \in [Vouchers -> Row]
  BY <1>1, VoidedShape
<1>3. ASSUME NEW u \in Vouchers
      PROVE  /\ row'[u].student = row[u].student /\ row'[u].lines = row[u].lines
             /\ row'[u].status = IF u = v THEN "void" ELSE row[u].status
             /\ row'[u].supersededBy = IF row[u].supersededBy \in {v} THEN NoVoucher
                                       ELSE row[u].supersededBy
  BY <1>1, VoidedShape
<1>4. ASSUME NEW u \in Vouchers PROVE row'[u].carryHead = row[u].carryHead
  <2> DEFINE status == IF u \in {v} THEN "void" ELSE row[u].status
             pointer == IF row[u].supersededBy \in {v} THEN NoVoucher ELSE row[u].supersededBy
  <2>1. row'[u] = [row[u] EXCEPT !.status = status, !.supersededBy = pointer]
    BY <1>1 DEF Voided
  <2>2. row[u] \in Row
    BY <1>1
  <2> HIDE DEF status, pointer
  <2> QED BY <2>1, <2>2 DEF Row
<1>5. \A u \in Vouchers : Total(row'[u]) = Total(row[u])
  BY <1>3, TotalFromLines
<1>6. row[v].status \notin {"none", "void"}
  BY DEF VoidVoucher, CanVoid
<1>7. LetGo(row, row', {v})
  BY <1>3, <1>4, <1>5, <1>6 DEF LetGo
<1> QED BY <1>1, <1>2, <1>7, CarryStays

\* One row replaced by another that carries, holds and is held as before.
LEMMA OneRowCarries ==
  ASSUME Rules, Carry(row), NEW v \in Vouchers, NEW q \in Row, row' = [row EXCEPT ![v] = q],
         q.student = row[v].student, q.carryHead = row[v].carryHead,
         ~EditsCarriedLine => q.lines["carried"] = row[v].lines["carried"],
         row[v].supersededBy # NoVoucher => q.lines = row[v].lines,
         q.supersededBy = row[v].supersededBy,
         q.status \notin {"none", "void"} <=> row[v].status \notin {"none", "void"},
         q.status = "draft" => row[v].status = "draft"
  PROVE  Carry(row')
<1>1. row \in [Vouchers -> Row] /\ row' \in [Vouchers -> Row]
  BY DEF Rules, IInv, TypeOK
<1>2. ASSUME NEW u \in Vouchers
      PROVE  /\ row'[u].student = row[u].student /\ row'[u].carryHead = row[u].carryHead
             /\ ~EditsCarriedLine => row'[u].lines["carried"] = row[u].lines["carried"]
             /\ row[u].supersededBy # NoVoucher => Total(row'[u]) = Total(row[u])
             /\ row'[u].supersededBy = row[u].supersededBy
             /\ row'[u].status \notin {"none", "void"} <=> row[u].status \notin {"none", "void"}
             /\ row'[u].status = "draft" => row[u].status = "draft"
  <2>1. CASE u = v
    <3>1. row'[u] = q
      BY <1>1, <2>1
    <3>2. row[u].supersededBy # NoVoucher => Total(row'[u]) = Total(row[u])
      BY <2>1, <3>1, TotalFromLines
    <3> QED BY <2>1, <3>1, <3>2
  <2>2. CASE u # v
    <3>1. row'[u] = row[u]
      BY <1>1, <2>2
    <3> QED BY <3>1
  <2> QED BY <2>1, <2>2
<1>3. LetGo(row, row', {}) /\ {} \in SUBSET Vouchers
  BY <1>2 DEF LetGo
<1> QED BY <1>1, <1>3, CarryStays

\* An edit of a draft leaves the carried line alone, unless the office retypes it.
LEMMA EditCarries ==
  ASSUME Rules, Carry(row), NEW v \in Vouchers, NEW line \in Lines, NEW amount \in Amount,
         SetLine(v, line, amount), line = "carried" => EditsCarriedLine
  PROVE  Carry(row')
<1> DEFINE lines == [row[v].lines EXCEPT ![line] = amount]
           q == [row[v] EXCEPT !.lines = lines]
<1>1. row[v] \in Row /\ row[v].status = "draft" /\ row[v].lines \in [Lines -> Amount]
  BY TotalType DEF SetLine, Editable, Rules, IInv, TypeOK
<1>2. row' = [row EXCEPT ![v] = q]
  BY <1>1 DEF SetLine, Row
<1>3. /\ lines \in [Lines -> Amount]
      /\ ~EditsCarriedLine => lines["carried"] = row[v].lines["carried"]
  BY <1>1 DEF Lines
<1> HIDE DEF lines
<1>4. /\ q \in Row /\ q.status = "draft" /\ q.student = row[v].student
      /\ q.supersededBy = row[v].supersededBy /\ q.carryHead = row[v].carryHead
      /\ q.lines = lines
  BY <1>1, <1>3 DEF Row
<1>5. row[v].supersededBy = NoVoucher
  BY <1>1 DEF Rules, Sound
<1> HIDE DEF q
<1> QED BY <1>1, <1>2, <1>3, <1>4, <1>5, OneRowCarries

\* The calendar reserves and bills nothing,
LEMMA DueDateCarries ==
  ASSUME Rules, Carry(row), NEW v \in Vouchers, DueDatePasses(v)
  PROVE  Carry(row')
<1> DEFINE q == [row[v] EXCEPT !.pastDue = TRUE]
<1>1. row' = [row EXCEPT ![v] = q] /\ row[v] \in Row
  BY DEF DueDatePasses, Rules, IInv, TypeOK
<1>2. /\ q \in Row /\ q.status = row[v].status /\ q.lines = row[v].lines
      /\ q.student = row[v].student /\ q.supersededBy = row[v].supersededBy
      /\ q.carryHead = row[v].carryHead
  BY <1>1 DEF Row
<1> HIDE DEF q
<1> QED BY <1>1, <1>2, OneRowCarries

\* nor does a receipt or a reversal.
LEMMA MoneyCarries ==
  ASSUME Rules, Carry(row), NEW v \in Vouchers, OnAccount(row[v]), NEW money \in Int,
         row' = [row EXCEPT ![v] = Recalculated(row[v], money)]
  PROVE  Carry(row')
<1> DEFINE q == Recalculated(row[v], money)
<1>1. row[v] \in Row
  BY DEF Rules, IInv, TypeOK
<1>2. /\ q \in Row /\ OnAccount(q) /\ q.lines = row[v].lines /\ q.student = row[v].student
      /\ q.supersededBy = row[v].supersededBy /\ q.carryHead = row[v].carryHead
  BY <1>1, RecalculatedShape
<1>3. /\ q.status \notin {"none", "void", "draft"}
      /\ row[v].status \notin {"none", "void"}
  BY <1>2 DEF OnAccount
<1>4. row' = [row EXCEPT ![v] = q]
  OBVIOUS
<1> HIDE DEF q
<1> QED BY <1>2, <1>3, <1>4, OneRowCarries

\* A fine carries nothing, and nothing points at it.
LEMMA FinesCarry ==
  ASSUME Rules, Carry(row), ApplyLateFees
  PROVE  Carry(row')
<1>1. PICK minted \in SUBSET Vouchers :
        /\ \A v \in minted : row[v].status = "none"
        /\ \A v \in minted :
             /\ row'[v].status = "issued" /\ row'[v].supersededBy = NoVoucher
             /\ row'[v].lines["carried"] = 0
        /\ \A v \in Vouchers \ minted : row'[v] = row[v]
  BY FinesMinted
<1>2. \A v \in Vouchers : row[v].supersededBy \notin minted
  BY <1>1 DEF Carry, Held
<1>3. /\ row \in [Vouchers -> Row] /\ NoVoucher \notin Vouchers
      /\ \A v \in Vouchers : Sound(row[v], received[v])
  BY NamesAssumption DEF Rules, IInv, TypeOK
<1>4. Held(row')
  <2> SUFFICES ASSUME NEW v \in Vouchers, NEW w \in Vouchers, row'[v].supersededBy = w
               PROVE  row'[w].status \notin {"none", "void"} /\ row'[w].student = row'[v].student
    BY DEF Held
  <2>1. v \notin minted
    BY <1>1, <1>3
  <2>2. row'[v] = row[v] /\ w \notin minted
    BY <1>1, <1>2, <2>1
  <2> QED BY <1>1, <2>2 DEF Carry, Held
<1>5. ASSUME ~EditsCarriedLine PROVE Headed(row')
  <2> SUFFICES ASSUME NEW w \in Vouchers, row'[w].status = "draft",
                      row'[w].lines["carried"] # 0
               PROVE  row'[w].carryHead
    BY DEF Headed
  <2>1. row'[w] = row[w]
    BY <1>1
  <2> QED BY <1>5, <2>1 DEF Carry, Headed
<1>6. ASSUME ~EditsCarriedLine, NEW w \in Vouchers, row'[w].status \notin {"none", "void"}
      PROVE  row'[w].lines["carried"] = SumTotals(row', Reserved(row', w))
  <2>1. CASE w \in minted
    <3>1. Reserved(row', w) = {}
      <4>1. ASSUME NEW v \in Vouchers PROVE row'[v].supersededBy # w
        <5>1. CASE v \in minted
          BY <1>1, <1>3, <5>1
        <5>2. CASE v \notin minted
          BY <1>1, <1>2, <2>1, <5>2
        <5> QED BY <5>1, <5>2
      <4> QED BY <4>1 DEF Reserved
    <3>2. SumTotals(row', {}) = 0
      BY TotalsOnSet, SumOverNone
    <3> QED BY <1>1, <2>1, <3>1, <3>2
  <2>2. CASE w \notin minted
    <3>1. row'[w] = row[w]
      BY <1>1, <2>2
    <3>2. ASSUME NEW v \in Vouchers
          PROVE  row'[v].supersededBy = w <=> row[v].supersededBy = w
      <4>1. CASE v \in minted
        BY <1>1, <1>3, <4>1 DEF Sound
      <4>2. CASE v \notin minted
        BY <1>1, <4>2
      <4> QED BY <4>1, <4>2
    <3>3. Reserved(row', w) = Reserved(row, w)
      BY <3>2 DEF Reserved
    <3>4. \A v \in Reserved(row, w) : Total(row'[v]) = Total(row[v])
      <4> SUFFICES ASSUME NEW v \in Reserved(row, w) PROVE row'[v] = row[v]
        OBVIOUS
      <4>1. v \in Vouchers /\ row[v].supersededBy = w
        BY DEF Reserved
      <4>2. v \notin minted
        BY <1>1, <1>3, <4>1 DEF Sound
      <4> QED BY <1>1, <4>1, <4>2
    <3>5. SumTotals(row', Reserved(row, w)) = SumTotals(row, Reserved(row, w))
      BY <3>4, TotalsSame
    <3>6. row[w].lines["carried"] = SumTotals(row, Reserved(row, w))
      BY <1>6, <3>1 DEF Carry, Carries
    <3> QED BY <3>1, <3>3, <3>5, <3>6
  <2> QED BY <2>1, <2>2
<1> QED BY <1>4, <1>5, <1>6 DEF Carry, Carries

\* An empty office reserves nothing.
LEMMA InitCarries == Init => Carry(row)
<1> SUFFICES ASSUME Init PROVE Carry(row)
  OBVIOUS
<1>1. \A v \in Vouchers : row[v].status = "none" /\ row[v].supersededBy = NoVoucher
  BY DEF Init, NoRow
<1> QED BY <1>1, NamesAssumption DEF Carry, Held, Headed, Carries

\* Every request, and the nightly pass, keeps the carried lines true.
LEMMA NextCarries == Rules /\ Carry(row) /\ [Next]_vars => Carry(row')
<1> SUFFICES ASSUME Rules, Carry(row), [Next]_vars PROVE Carry(row')
  OBVIOUS
<1>1. ASSUME NEW asked \in SUBSET Students, NEW period \in Periods,
             NEW stationery \in Stationery, NEW carry \in BOOLEAN, NEW issue \in BOOLEAN,
             GenerateVouchers(asked, period, stationery, carry, issue)
      PROVE  Carry(row')
  BY <1>1, GenerateCarries
<1>2. ASSUME NEW v \in Vouchers, IssueVoucher(v) \/ VoidVoucher(v) \/ DueDatePasses(v)
      PROVE  Carry(row')
  BY <1>2, IssueCarries, VoidCarries, DueDateCarries
<1>3. /\ Charges \subseteq Amount /\ 0 \in Amount /\ "stationery" \in Lines
  BY AmountsAssumption, ZeroIsAmount DEF Amount, Lines
<1>4. ASSUME NEW v \in Vouchers,
             \/ RemoveVoucherCharge(v)
             \/ \E amount \in Charges : AddVoucherCharge(v, amount)
             \/ \E line \in Lines : \/ RemoveVoucherFeeCharge(v, line)
                                     \/ \E amount \in Charges : AddVoucherFeeCharge(v, line, amount)
      PROVE  Carry(row')
  <2>1. PICK line \in Lines, amount \in Amount :
          SetLine(v, line, amount) /\ (line = "carried" => EditsCarriedLine)
    BY <1>3, <1>4 DEF AddVoucherCharge, RemoveVoucherCharge, AddVoucherFeeCharge,
                      RemoveVoucherFeeCharge, FeeLine
  <2> QED BY <2>1, EditCarries
<1>5. received \in [Vouchers -> Int] /\ row \in [Vouchers -> Row]
  BY DEF Rules, IInv, TypeOK
<1>6. ASSUME NEW p \in Payments, NEW v \in Vouchers, NEW amount \in Charges,
             RecordPayment(p, v, amount)
      PROVE  Carry(row')
  <2>1. OnAccount(row[v]) /\ row' = [row EXCEPT ![v] = Recalculated(row[v], received'[v])]
    BY <1>6 DEF RecordPayment, Accepts, OnAccount
  <2>2. received'[v] \in Int
    BY <1>5, <1>6, AmountsAssumption DEF RecordPayment
  <2> QED BY <2>1, <2>2, MoneyCarries
<1>7. ASSUME NEW p \in Payments, ReversePayment(p) PROVE Carry(row')
  <2> DEFINE v == payments[p].voucher
  <2>1. /\ payments[p].status = "recorded"
        /\ received' = [received EXCEPT ![v] = @ - payments[p].amount]
        /\ row' = [row EXCEPT ![v] = Recalculated(row[v], received'[v])]
    BY <1>7 DEF ReversePayment, Reversible
  <2>2. v \in Vouchers /\ OnAccount(row[v]) /\ payments[p] \in Receipt
    BY <2>1 DEF Rules, IInv, Till, TypeOK
  <2>3. payments[p].amount \in Nat
    BY <2>2, ZeroIsAmount DEF Receipt
  <2>4. received'[v] \in Int
    BY <1>5, <2>1, <2>2, <2>3
  <2> HIDE DEF v
  <2> QED BY <2>1, <2>2, <2>4, MoneyCarries
<1>8. CASE ApplyLateFees
  BY <1>8, FinesCarry
<1>9. CASE UNCHANGED row
  BY <1>9
<1>10. ASSUME NEW s \in Students, NEW amount \in Adjustments, AdjustLedger(s, amount)
       PROVE  Carry(row')
  BY <1>9, <1>10 DEF AdjustLedger
<1>11. CASE UNCHANGED vars
  BY <1>9, <1>11 DEF vars
<1> QED BY <1>1, <1>2, <1>4, <1>6, <1>7, <1>8, <1>10, <1>11 DEF Next

\* As long as the office leaves carried lines alone, a challan bills on its carried line
\* exactly what it replaces, whatever was paid, voided or released in between.
THEOREM CarriedLinesAreTrue ==
  ASSUME ~EditsCarriedLine
  PROVE  Spec => []CarriedIsWhatItReplaces
<1>1. Carry(row) => CarriedIsWhatItReplaces
  BY DEF Carry, Carries, CarriedIsWhatItReplaces
<1>2. Init => Carry(row)
  BY InitCarries
<1>3. Rules /\ Carry(row) /\ [Next]_vars => Carry(row)'
  BY NextCarries DEF Carry, Held, Headed, Carries, SumTotals, Reserved, Total, OwnCharge
<1> QED BY <1>1, <1>2, <1>3, RulesHold, PTL DEF Spec

-----------------------------------------------------------------------------
(* What a family owes, as sums over the whole table: the rows of other      *)
(* families weigh nothing.                                                  *)

Debit(r, l) == IF HasDebit(l) THEN OwnCharge(r) ELSE 0
\* What voucher v adds to what family s was billed, to what the ledger holds
\* against it, to what it paid, and to what it was let off; receipt p likewise.
BillOf(rows, l, s) ==
  [v \in Vouchers |-> IF rows[v].student = s THEN Debit(rows[v], l[v]) ELSE 0]
NetOf(rows, l, s) == [v \in Vouchers |-> IF rows[v].student = s THEN Net(l[v]) ELSE 0]
PaidOf(rows, money, s) == [v \in Vouchers |-> IF rows[v].student = s THEN money[v] ELSE 0]
OffOf(rows, l, s) ==
  [v \in Vouchers |-> IF rows[v].student = s THEN Debit(rows[v], l[v]) - Net(l[v]) ELSE 0]
MoveOf(rows, pay, mv, s) ==
  [p \in Payments |->
     IF pay[p].voucher \in Vouchers /\ rows[pay[p].voucher].student = s THEN Moved(mv[p]) ELSE 0]
SumV(f) == SumFunctionOnSet(f, Vouchers)
SumP(f) == SumFunctionOnSet(f, Payments)

\* The figures of FeeLedger, of any table and ledger.
VouchersIn(rows, s) == {v \in Vouchers : rows[v].student = s}
BilledIn(rows, l, s) ==
  SumFunction([v \in {u \in VouchersIn(rows, s) : HasDebit(l[u])} |-> OwnCharge(rows[v])])
PaidIn(rows, money, s) == SumFunction([v \in VouchersIn(rows, s) |-> money[v]])
OwedIn(rows, l, pay, mv, s) ==
  SumFunction([v \in VouchersIn(rows, s) |-> Net(l[v])])
    + SumFunction([p \in {p \in Payments : pay[p].voucher \in VouchersIn(rows, s)} |-> Moved(mv[p])])

\* What a challan adds to the sums of a family are numbers, and they add up.
LEMMA VoucherTerms ==
  ASSUME NEW rows \in [Vouchers -> Row], NEW l \in [Vouchers -> [VoucherEntries -> Int]], NEW s
  PROVE  \A v \in Vouchers :
           /\ OwnCharge(rows[v]) \in Nat /\ Net(l[v]) \in Int
           /\ BillOf(rows, l, s)[v] \in Nat /\ NetOf(rows, l, s)[v] \in Int
           /\ OffOf(rows, l, s)[v] \in Int
           /\ BillOf(rows, l, s)[v] = OffOf(rows, l, s)[v] + NetOf(rows, l, s)[v]
<1> SUFFICES ASSUME NEW v \in Vouchers
             PROVE  /\ OwnCharge(rows[v]) \in Nat /\ Net(l[v]) \in Int
                    /\ BillOf(rows, l, s)[v] \in Nat /\ NetOf(rows, l, s)[v] \in Int
                    /\ OffOf(rows, l, s)[v] \in Int
                    /\ BillOf(rows, l, s)[v] = OffOf(rows, l, s)[v] + NetOf(rows, l, s)[v]
  OBVIOUS
<1>1. rows[v] \in Row /\ l[v] \in [VoucherEntries -> Int]
  OBVIOUS
<1>2. OwnCharge(rows[v]) \in Nat /\ Net(l[v]) \in Int
  BY <1>1, TotalType DEF Net, VoucherEntries
<1>3. Debit(rows[v], l[v]) \in Nat
  BY <1>2 DEF Debit
<1>4. /\ BillOf(rows, l, s)[v] = IF rows[v].student = s THEN Debit(rows[v], l[v]) ELSE 0
      /\ NetOf(rows, l, s)[v] = IF rows[v].student = s THEN Net(l[v]) ELSE 0
      /\ OffOf(rows, l, s)[v]
           = IF rows[v].student = s THEN Debit(rows[v], l[v]) - Net(l[v]) ELSE 0
  BY DEF BillOf, NetOf, OffOf
<1>5. \A a \in Nat, b \in Int : a - b \in Int /\ a = (a - b) + b
  OBVIOUS
<1> QED BY <1>2, <1>3, <1>4, <1>5

\* So is the money received for it,
LEMMA PaidTerms ==
  ASSUME NEW rows, NEW money \in [Vouchers -> Int], NEW s
  PROVE  \A v \in Vouchers : PaidOf(rows, money, s)[v] \in Int
BY DEF PaidOf

\* and what a receipt moves.
LEMMA MoveTerms ==
  ASSUME NEW rows, NEW mv \in [Payments -> [ReceiptEntries -> Int]], NEW pay, NEW s
  PROVE  \A p \in Payments : Moved(mv[p]) \in Int /\ MoveOf(rows, pay, mv, s)[p] \in Int
<1>1. \A p \in Payments : Moved(mv[p]) \in Int
  BY DEF Moved, ReceiptEntries
<1> QED BY <1>1 DEF MoveOf

\* The sums of FeeLedger are sums over the whole table: of one family's challans,
LEMMA Billed ==
  ASSUME NEW rows \in [Vouchers -> Row], NEW l \in [Vouchers -> [VoucherEntries -> Int]], NEW s
  PROVE  /\ BilledIn(rows, l, s) = SumV(BillOf(rows, l, s))
         /\ SumV(BillOf(rows, l, s)) = SumV(OffOf(rows, l, s)) + SumV(NetOf(rows, l, s))
         /\ SumV(BillOf(rows, l, s)) \in Nat /\ SumV(OffOf(rows, l, s)) \in Int
         /\ SumV(NetOf(rows, l, s)) \in Int
<1> DEFINE b == BillOf(rows, l, s)
           o == OffOf(rows, l, s)
           n == NetOf(rows, l, s)
           f == [v \in {u \in VouchersIn(rows, s) : HasDebit(l[u])} |-> OwnCharge(rows[v])]
<1>1. IsFiniteSet(Vouchers)
  BY RowsAssumption
<1>2. \A v \in Vouchers : b[v] \in Nat /\ b[v] \in Int /\ n[v] \in Int /\ o[v] \in Int /\ b[v] = o[v] + n[v]
  BY VoucherTerms
<1>3. DOMAIN f \subseteq Vouchers
      /\ \A v \in Vouchers : b[v] = IF v \in DOMAIN f THEN f[v] ELSE 0
  BY DEF BillOf, Debit, VouchersIn
<1>4. BilledIn(rows, l, s) = SumFunction(f)
  BY DEF BilledIn
<1> HIDE DEF b, o, n, f
<1>5. SumFunction(f) = SumFunctionOnSet(b, Vouchers)
  BY <1>1, <1>2, <1>3, SumWhere
<1>6. SumFunctionOnSet(b, Vouchers)
        = SumFunctionOnSet(o, Vouchers) + SumFunctionOnSet(n, Vouchers)
  BY <1>1, <1>2, SumPlus
<1>7. SumFunctionOnSet(b, Vouchers) \in Nat
  BY <1>1, <1>2, SumNat
<1>8. SumFunctionOnSet(o, Vouchers) \in Int /\ SumFunctionOnSet(n, Vouchers) \in Int
  BY <1>1, <1>2, SumInt
<1> QED BY <1>4, <1>5, <1>6, <1>7, <1>8 DEF SumV, b, o, n

\* of the money received for them,
LEMMA Paid ==
  ASSUME NEW rows, NEW money \in [Vouchers -> Int], NEW s
  PROVE  PaidIn(rows, money, s) = SumV(PaidOf(rows, money, s)) /\ SumV(PaidOf(rows, money, s)) \in Int
<1> DEFINE g == PaidOf(rows, money, s)
           f == [v \in VouchersIn(rows, s) |-> money[v]]
<1>1. IsFiniteSet(Vouchers)
  BY RowsAssumption
<1>2. \A v \in Vouchers : g[v] \in Int
  BY PaidTerms
<1>3. DOMAIN f \subseteq Vouchers
      /\ \A v \in Vouchers : g[v] = IF v \in DOMAIN f THEN f[v] ELSE 0
  BY DEF PaidOf, VouchersIn
<1>4. PaidIn(rows, money, s) = SumFunction(f)
  BY DEF PaidIn
<1> HIDE DEF g, f
<1>5. SumFunction(f) = SumFunctionOnSet(g, Vouchers)
  BY <1>1, <1>2, <1>3, SumWhere
<1>6. SumFunctionOnSet(g, Vouchers) \in Int
  BY <1>1, <1>2, SumInt
<1> QED BY <1>4, <1>5, <1>6 DEF SumV, g

\* and of the ledger's entries for its challans and its receipts.
LEMMA Due ==
  ASSUME NEW rows \in [Vouchers -> Row], NEW l \in [Vouchers -> [VoucherEntries -> Int]],
         NEW mv \in [Payments -> [ReceiptEntries -> Int]], NEW pay, NEW s
  PROVE  /\ OwedIn(rows, l, pay, mv, s)
              = SumV(NetOf(rows, l, s)) + SumP(MoveOf(rows, pay, mv, s))
         /\ SumP(MoveOf(rows, pay, mv, s)) \in Int
<1> DEFINE n == NetOf(rows, l, s)
           m == MoveOf(rows, pay, mv, s)
           f == [v \in VouchersIn(rows, s) |-> Net(l[v])]
           g == [p \in {p \in Payments : pay[p].voucher \in VouchersIn(rows, s)} |-> Moved(mv[p])]
<1>1. IsFiniteSet(Vouchers) /\ IsFiniteSet(Payments)
  BY RowsAssumption
<1>2. \A v \in Vouchers : n[v] \in Int
  BY VoucherTerms
<1>3. \A p \in Payments : m[p] \in Int
  BY MoveTerms
<1>4. DOMAIN f \subseteq Vouchers
      /\ \A v \in Vouchers : n[v] = IF v \in DOMAIN f THEN f[v] ELSE 0
  BY DEF NetOf, VouchersIn
<1>5. DOMAIN g \subseteq Payments
      /\ \A p \in Payments : m[p] = IF p \in DOMAIN g THEN g[p] ELSE 0
  BY DEF MoveOf, VouchersIn
<1>6. OwedIn(rows, l, pay, mv, s) = SumFunction(f) + SumFunction(g)
  BY DEF OwedIn
<1> HIDE DEF n, m, f, g
<1>7. SumFunction(f) = SumFunctionOnSet(n, Vouchers)
  BY <1>1, <1>2, <1>4, SumWhere
<1>8. SumFunction(g) = SumFunctionOnSet(m, Payments)
  BY <1>1, <1>3, <1>5, SumWhere
<1>9. SumFunctionOnSet(m, Payments) \in Int
  BY <1>1, <1>3, SumInt
<1> QED BY <1>6, <1>7, <1>8, <1>9 DEF SumV, SumP, n, m

\* The figures of FeeLedger are those sums, before a step and after it.
LEMMA FiguresOfLedger ==
  ASSUME NEW s
  PROVE  /\ BilledTo(s) = BilledIn(row, ledger, s)
         /\ ReceivedFrom(s) = PaidIn(row, received, s)
         /\ Owed(s) = OwedIn(row, ledger, payments, movement, s)
         /\ BilledTo(s)' = BilledIn(row', ledger', s)
         /\ ReceivedFrom(s)' = PaidIn(row', received', s)
         /\ Owed(s)' = OwedIn(row', ledger', payments', movement', s)
BY DEF BilledTo, ReceivedFrom, Owed, BilledIn, PaidIn, OwedIn, VouchersOf, VouchersIn
-----------------------------------------------------------------------------
(* The invariant of the account.                                            *)

\* Every challan is some family's.
Families(rows) == \A v \in Vouchers : rows[v].status # "none" => rows[v].student \in Students
TakenBy(pay, v) ==
  [p \in Payments |-> IF pay[p].status = "recorded" /\ pay[p].voucher = v
                      THEN pay[p].amount ELSE 0]
\* The money received for a challan is that of the receipts standing against it; what
\* a family's receipts moved is what it paid; and nobody owes more than was billed.
Counted == \A v \in Vouchers : received[v] = SumP(TakenBy(payments, v))
Matched == \A s \in Students :
             SumP(MoveOf(row, payments, movement, s)) = -SumV(PaidOf(row, received, s))
LetOff == \A s \in Students : SumV(OffOf(row, ledger, s)) \in Nat

AccInv == Rules /\ Carry(row) /\ Families(row) /\ Counted /\ Matched /\ LetOff

\* Money was only ever received for a challan on the account.
LEMMA MoneyIsThere ==
  ASSUME Rules, Counted, NEW v \in Vouchers
  PROVE  received[v] \in Nat /\ (received[v] # 0 => OnAccount(row[v]))
<1> DEFINE f == TakenBy(payments, v)
<1>1. IsFiniteSet(Payments) /\ received[v] = SumFunctionOnSet(f, Payments)
  BY RowsAssumption DEF Counted, SumP
<1>2. ASSUME NEW p \in Payments
      PROVE  f[p] \in Nat /\ (~OnAccount(row[v]) => f[p] = 0)
  <2>1. payments[p].amount \in Nat
    BY ZeroIsAmount DEF Rules, IInv, TypeOK, Receipt
  <2>2. payments[p].status = "recorded" => OnAccount(row[payments[p].voucher])
    BY DEF Rules, IInv, Till
  <2> QED BY <2>1, <2>2 DEF TakenBy
<1> HIDE DEF f
<1>3. received[v] \in Nat
  BY <1>1, <1>2, SumNat
<1>4. ASSUME ~OnAccount(row[v]) PROVE received[v] = 0
  BY <1>1, <1>2, <1>4, SumZero
<1> QED BY <1>3, <1>4

\* What holds no entry and took no money adds nothing to any family.
LEMMA NothingYet ==
  ASSUME Rules, NEW v \in Vouchers, row[v].status \in {"none", "draft"}
  PROVE  /\ ~HasDebit(ledger[v]) /\ Net(ledger[v]) = 0 /\ received[v] = 0
         /\ \A p \in Payments : payments[p].voucher = v => Moved(movement[p]) = 0
<1>1. /\ ledger[v]["charge"] = 0 /\ ledger[v]["late_fee"] = 0
      /\ ledger[v]["voucher_voided"] = 0
  BY DEF Rules, IInv, Books
<1>2. received[v] = 0
  BY DEF Rules, Sound
<1>3. ASSUME NEW p \in Payments, payments[p].voucher = v PROVE Moved(movement[p]) = 0
  <2>1. payments[p].status \in {"none", "recorded", "reversed"}
    BY DEF Rules, IInv, TypeOK, Receipt
  <2>2. payments[p].status # "recorded"
    BY <1>3 DEF Rules, IInv, Till, OnAccount
  <2> QED BY <2>1, <2>2 DEF Rules, IInv, Till, Moved
<1> QED BY <1>1, <1>2, <1>3 DEF HasDebit, Net

\* Drafting, editing and the calendar change no figure of any family.
LEMMA SameFigures ==
  ASSUME Rules, NEW q \in [Vouchers -> Row],
         \A v \in Vouchers : row[v].status # "none" => q[v].student = row[v].student,
         \A v \in Vouchers : row[v].status \notin {"none", "draft"} => q[v].lines = row[v].lines,
         NEW s
  PROVE  /\ BillOf(q, ledger, s) = BillOf(row, ledger, s)
         /\ OffOf(q, ledger, s) = OffOf(row, ledger, s)
         /\ PaidOf(q, received, s) = PaidOf(row, received, s)
         /\ MoveOf(q, payments, movement, s) = MoveOf(row, payments, movement, s)
<1>1. ASSUME NEW v \in Vouchers
      PROVE  \/ q[v].student = row[v].student
             \/ ~HasDebit(ledger[v]) /\ Net(ledger[v]) = 0 /\ received[v] = 0
  BY NothingYet
<1>2. ASSUME NEW v \in Vouchers
      PROVE  Debit(q[v], ledger[v]) = Debit(row[v], ledger[v])
  <2>1. CASE row[v].status \in {"none", "draft"}
    BY <2>1, NothingYet DEF Debit
  <2>2. CASE row[v].status \notin {"none", "draft"}
    BY <2>2 DEF Debit, OwnCharge
  <2> QED BY <2>1, <2>2
<1>3. BillOf(q, ledger, s) = BillOf(row, ledger, s)
  <2>1. ASSUME NEW v \in Vouchers PROVE BillOf(q, ledger, s)[v] = BillOf(row, ledger, s)[v]
    BY <1>1, <1>2 DEF BillOf, Debit
  <2> QED BY <2>1 DEF BillOf
<1>4. OffOf(q, ledger, s) = OffOf(row, ledger, s)
  <2>1. ASSUME NEW v \in Vouchers PROVE OffOf(q, ledger, s)[v] = OffOf(row, ledger, s)[v]
    BY <1>1, <1>2 DEF OffOf, Debit
  <2> QED BY <2>1 DEF OffOf
<1>5. PaidOf(q, received, s) = PaidOf(row, received, s)
  <2>1. ASSUME NEW v \in Vouchers PROVE PaidOf(q, received, s)[v] = PaidOf(row, received, s)[v]
    BY <1>1 DEF PaidOf
  <2> QED BY <2>1 DEF PaidOf
<1>6. MoveOf(q, payments, movement, s) = MoveOf(row, payments, movement, s)
  <2>1. ASSUME NEW p \in Payments
        PROVE  MoveOf(q, payments, movement, s)[p] = MoveOf(row, payments, movement, s)[p]
    <3>1. payments[p].voucher \in Vouchers =>
            \/ q[payments[p].voucher].student = row[payments[p].voucher].student
            \/ Moved(movement[p]) = 0
      BY NothingYet
    <3> QED BY <3>1 DEF MoveOf
  <2> QED BY <2>1 DEF MoveOf
<1> QED BY <1>3, <1>4, <1>5, <1>6

-----------------------------------------------------------------------------
(* Billing forgives nothing.                                                *)

\* What a billing step makes of one voucher's entries and charges.
LEMMA BilledEntries ==
  ASSUME NEW rows \in [Vouchers -> Row], NEW bills \in SUBSET Vouchers, Bill(rows, bills),
         ledger \in [Vouchers -> [VoucherEntries -> Int]],
         \A v \in Vouchers : Sound(rows[v], received[v]) /\ Books(rows[v], ledger[v]),
         \A v \in bills : rows[v].status = "draft",
         NEW v \in Vouchers
  PROVE  /\ row'[v].student = rows[v].student
         /\ v \in bills =>
              /\ Debit(rows[v], ledger[v]) - Net(ledger[v]) = 0
              /\ Debit(rows[v], ledger[v]) = 0
              /\ Debit(row'[v], ledger'[v]) - Net(ledger'[v]) = 0 - row'[v].lines["carried"]
         /\ v \notin bills => Debit(row'[v], ledger'[v]) = Debit(rows[v], ledger[v])
         /\ v \in AllAbsorbed(rows, bills) =>
              /\ v \notin bills
              /\ Debit(row'[v], ledger'[v]) - Net(ledger'[v])
                   = (Debit(rows[v], ledger[v]) - Net(ledger[v])) + Total(rows[v])
         /\ v \notin bills /\ v \notin AllAbsorbed(rows, bills) => Net(ledger'[v]) = Net(ledger[v])
<1> DEFINE gone == AllAbsorbed(rows, bills)
           l1 == VoidCredited(rows, ledger, gone)
<1>1. /\ row' \in [Vouchers -> Row] /\ ledger' = Charged(row', l1, bills)
      /\ row'[v].student = rows[v].student
      /\ v \notin bills => row'[v].lines = rows[v].lines
  <2>1. ledger' = Charged(row', l1, bills)
    BY DEF Bill
  <2> QED BY <2>1, BillShape
<1>2. /\ OwnCharge(row'[v]) \in Nat /\ Total(row'[v]) \in Nat
      /\ OwnCharge(rows[v]) \in Nat /\ Total(rows[v]) \in Nat
      /\ row'[v].lines["carried"] \in Nat
      /\ Total(row'[v]) = OwnCharge(row'[v]) + row'[v].lines["carried"]
  <2>1. row'[v] \in Row /\ rows[v] \in Row
    BY <1>1
  <2>2. row'[v].lines \in [Lines -> Amount]
    BY <2>1, TotalType
  <2> QED BY <2>1, <2>2, TotalType, ZeroIsAmount DEF Total, Lines
<1>3. /\ ledger[v] \in [VoucherEntries -> Int] /\ Books(rows[v], ledger[v])
      /\ ledger[v]["charge"] \in Int /\ ledger[v]["late_fee"] \in Int
      /\ ledger[v]["voucher_voided"] \in Int
  BY DEF VoucherEntries
<1>4. v \in gone => v \notin bills /\ OnAccount(rows[v])
  <2>1. v \in gone => rows[v].supersededBy \in Vouchers /\ rows[v].status # "void"
    BY DEF AllAbsorbed, Absorbed, Reserved, Released
  <2> QED BY <2>1, NamesAssumption DEF Sound, OnAccount
<1>5. l1[v] = IF v \in gone /\ HasDebit(ledger[v])
              THEN [ledger[v] EXCEPT !["voucher_voided"] = @ - Total(rows[v])] ELSE ledger[v]
  BY DEF VoidCredited
<1>6. ledger'[v] = IF v \in bills /\ Total(row'[v]) # 0 /\ l1[v]["charge"] = 0
                   THEN [l1[v] EXCEPT !["charge"] = Total(row'[v])] ELSE l1[v]
  BY <1>1 DEF Charged
<1> HIDE DEF gone, l1
<1>7. CASE v \in bills
  <2>1. /\ ledger[v]["charge"] = 0 /\ ledger[v]["late_fee"] = 0
        /\ ledger[v]["voucher_voided"] = 0 /\ l1[v] = ledger[v] /\ v \notin gone
    BY <1>3, <1>4, <1>5, <1>7 DEF Books
  <2>2. ~HasDebit(ledger[v]) /\ Net(ledger[v]) = 0
    BY <2>1 DEF HasDebit, Net
  <2>3. CASE Total(row'[v]) = 0
    <3>1. ledger'[v] = ledger[v] /\ row'[v].lines["carried"] = 0
      BY <1>2, <1>6, <2>1, <2>3
    <3>2. Debit(row'[v], ledger'[v]) = 0 /\ Debit(rows[v], ledger[v]) = 0
      BY <2>2, <3>1 DEF Debit
    <3>3. Net(ledger'[v]) = 0 /\ 0 - row'[v].lines["carried"] = 0
      BY <2>2, <3>1
    <3>4. /\ Debit(rows[v], ledger[v]) - Net(ledger[v]) = 0
          /\ Debit(row'[v], ledger'[v]) - Net(ledger'[v]) = 0 - row'[v].lines["carried"]
      BY <2>2, <3>2, <3>3
    <3> QED BY <1>1, <1>7, <2>1, <3>2, <3>4 DEF gone
  <2>4. CASE Total(row'[v]) # 0
    <3>1. ledger'[v] = [ledger[v] EXCEPT !["charge"] = Total(row'[v])]
      BY <1>6, <1>7, <2>1, <2>4
    <3>2. /\ ledger'[v]["charge"] = Total(row'[v]) /\ ledger'[v]["late_fee"] = 0
          /\ ledger'[v]["voucher_voided"] = 0
      BY <1>3, <2>1, <3>1 DEF VoucherEntries
    <3>3. HasDebit(ledger'[v]) /\ Net(ledger'[v]) = Total(row'[v])
      BY <1>2, <2>4, <3>2 DEF HasDebit, Net
    <3>4. Debit(row'[v], ledger'[v]) - Net(ledger'[v]) = 0 - row'[v].lines["carried"]
      BY <1>2, <3>3 DEF Debit
    <3> QED BY <1>1, <1>7, <2>1, <2>2, <3>4 DEF Debit, gone
  <2> QED BY <2>3, <2>4
<1>8. CASE v \notin bills
  <2>1. ledger'[v] = l1[v] /\ OwnCharge(row'[v]) = OwnCharge(rows[v])
    BY <1>1, <1>6, <1>8 DEF OwnCharge
  <2>2. CASE v \in gone /\ HasDebit(ledger[v])
    <3>1. ledger'[v] = [ledger[v] EXCEPT !["voucher_voided"] = @ - Total(rows[v])]
      BY <1>5, <2>1, <2>2
    <3>2. /\ ledger'[v]["charge"] = ledger[v]["charge"]
          /\ ledger'[v]["late_fee"] = ledger[v]["late_fee"]
          /\ ledger'[v]["voucher_voided"] = ledger[v]["voucher_voided"] - Total(rows[v])
      BY <1>3, <3>1 DEF VoucherEntries
    <3>3. HasDebit(ledger'[v]) /\ Net(ledger'[v]) = Net(ledger[v]) - Total(rows[v])
          /\ Net(ledger[v]) \in Int
      BY <1>2, <1>3, <2>2, <3>2 DEF HasDebit, Net
    <3>4. Debit(row'[v], ledger'[v]) = Debit(rows[v], ledger[v])
      BY <2>1, <2>2, <3>3 DEF Debit
    <3>5. Debit(rows[v], ledger[v]) \in Int
      BY <1>2 DEF Debit
    <3>6. \A a, b, c \in Int : a - (b - c) = (a - b) + c
      OBVIOUS
    <3> QED BY <1>1, <1>2, <1>8, <2>2, <3>3, <3>4, <3>5, <3>6 DEF gone
  <2>3. CASE v \in gone /\ ~HasDebit(ledger[v])
    <3>1. Total(rows[v]) = 0 /\ Net(ledger[v]) = 0
      BY <1>2, <1>3, <1>4, <2>3 DEF Books, HasDebit, Net
    <3>2. ledger'[v] = ledger[v]
      BY <1>5, <2>1, <2>3
    <3> QED BY <1>1, <1>8, <2>3, <3>1, <3>2 DEF gone, Debit
  <2>4. CASE v \notin gone
    <3>1. ledger'[v] = ledger[v]
      BY <1>5, <2>1, <2>4
    <3> QED BY <1>1, <1>8, <2>1, <2>4, <3>1 DEF gone, Debit
  <2> QED BY <2>2, <2>3, <2>4
<1> QED BY <1>7, <1>8

\* A bill adds to what its family was let off what it no longer carries: nothing, as its
\* carried line bills again what it absorbs.
LEMMA BillForgivesNothing ==
  ASSUME ~EditsCarriedLine,
         NEW rows \in [Vouchers -> Row], NEW bills \in SUBSET Vouchers, Bill(rows, bills),
         ledger \in [Vouchers -> [VoucherEntries -> Int]],
         ledger' \in [Vouchers -> [VoucherEntries -> Int]],
         \A v \in Vouchers : Sound(rows[v], received[v]) /\ Books(rows[v], ledger[v]),
         Carry(rows), \A v \in bills : rows[v].status = "draft",
         \A u, w \in bills : rows[u].student = rows[w].student => u = w,
         NEW s
  PROVE  /\ SumV(OffOf(row', ledger', s)) = SumV(OffOf(rows, ledger, s))
         /\ SumV(BillOf(row', ledger', s)) >= SumV(BillOf(rows, ledger, s))
<1> DEFINE b == BillOf(rows, ledger, s)
           c == BillOf(row', ledger', s)
           f == OffOf(rows, ledger, s)
           g == OffOf(row', ledger', s)
           d == [v \in Vouchers |-> g[v] - f[v]]
           gone == AllAbsorbed(rows, bills)
<1>1. IsFiniteSet(Vouchers) /\ row' \in [Vouchers -> Row]
  BY RowsAssumption, BillShape
<1>2. /\ \A v \in Vouchers : b[v] \in Int /\ f[v] \in Int
      /\ \A v \in Vouchers : c[v] \in Nat /\ g[v] \in Int
  <2>1. \A v \in Vouchers : b[v] \in Nat /\ f[v] \in Int
    BY VoucherTerms
  <2>2. \A v \in Vouchers : c[v] \in Nat /\ g[v] \in Int
    BY <1>1, VoucherTerms
  <2>3. \A n \in Nat : n \in Int
    OBVIOUS
  <2> HIDE DEF b, c, f, g
  <2> QED BY <2>1, <2>2, <2>3
<1>3. ASSUME NEW v \in Vouchers PROVE d[v] \in Int /\ g[v] = f[v] + d[v]
  <2>1. d[v] = g[v] - f[v] /\ g[v] \in Int /\ f[v] \in Int
    BY <1>2
  <2> HIDE DEF d, f, g
  <2> QED BY <2>1
<1>4. ASSUME NEW v \in Vouchers
      PROVE  /\ b[v] <= c[v]
             /\ rows[v].student # s => d[v] = 0
             /\ v \notin bills /\ v \notin gone => d[v] = 0
             /\ v \in bills /\ rows[v].student = s => d[v] = 0 - row'[v].lines["carried"]
             /\ v \in gone /\ rows[v].student = s => d[v] = Total(rows[v]) /\ v \notin bills
  <2>1. /\ row'[v].student = rows[v].student
        /\ v \in bills =>
             /\ Debit(rows[v], ledger[v]) - Net(ledger[v]) = 0
             /\ Debit(rows[v], ledger[v]) = 0
             /\ Debit(row'[v], ledger'[v]) - Net(ledger'[v]) = 0 - row'[v].lines["carried"]
        /\ v \notin bills => Debit(row'[v], ledger'[v]) = Debit(rows[v], ledger[v])
        /\ v \in gone =>
             /\ v \notin bills
             /\ Debit(row'[v], ledger'[v]) - Net(ledger'[v])
                  = (Debit(rows[v], ledger[v]) - Net(ledger[v])) + Total(rows[v])
        /\ v \notin bills /\ v \notin gone => Net(ledger'[v]) = Net(ledger[v])
    BY BilledEntries
  <2>2. /\ b[v] = IF rows[v].student = s THEN Debit(rows[v], ledger[v]) ELSE 0
        /\ c[v] = IF row'[v].student = s THEN Debit(row'[v], ledger'[v]) ELSE 0
        /\ f[v] = IF rows[v].student = s THEN Debit(rows[v], ledger[v]) - Net(ledger[v]) ELSE 0
        /\ g[v] = IF row'[v].student = s THEN Debit(row'[v], ledger'[v]) - Net(ledger'[v]) ELSE 0
        /\ d[v] = g[v] - f[v]
    BY DEF BillOf, OffOf
  <2>3. Total(rows[v]) \in Int /\ row'[v].lines["carried"] \in Int
    <3>1. rows[v] \in Row /\ row'[v] \in Row
      BY <1>1
    <3>2. Total(rows[v]) \in Nat /\ row'[v].lines \in [Lines -> Amount]
      BY <3>1, TotalType
    <3>3. "carried" \in Lines /\ \A a \in Amount : a \in Int
      BY ZeroIsAmount DEF Lines
    <3> QED BY <3>2, <3>3
  <2>4. b[v] \in Int /\ f[v] \in Int /\ c[v] \in Nat /\ g[v] \in Int
    BY <1>2
  <2> HIDE DEF b, c, d, f, g, gone
  <2>5. CASE rows[v].student # s
    BY <2>1, <2>2, <2>4, <2>5
  <2>6. CASE rows[v].student = s
    <3>1. /\ b[v] = Debit(rows[v], ledger[v]) /\ c[v] = Debit(row'[v], ledger'[v])
          /\ f[v] = Debit(rows[v], ledger[v]) - Net(ledger[v])
          /\ g[v] = Debit(row'[v], ledger'[v]) - Net(ledger'[v])
      BY <2>1, <2>2, <2>6
    <3>2. b[v] <= c[v]
      BY <2>1, <2>4, <3>1
    <3>3. v \notin bills /\ v \notin gone => g[v] = f[v]
      BY <2>1, <3>1
    <3>4. v \in bills => f[v] = 0 /\ g[v] = 0 - row'[v].lines["carried"]
      BY <2>1, <3>1
    <3>5. v \in gone => v \notin bills /\ g[v] = f[v] + Total(rows[v])
      BY <2>1, <3>1
    <3> QED BY <2>2, <2>3, <2>4, <2>6, <3>2, <3>3, <3>4, <3>5
  <2> QED BY <2>5, <2>6
<1>5. ASSUME NEW v \in gone
      PROVE  \E w \in bills : v \in Absorbed(rows, w) /\ v \in Vouchers
                              /\ rows[w].student = rows[v].student
  <2>1. PICK w \in bills : v \in Absorbed(rows, w)
    BY DEF AllAbsorbed
  <2>2. v \in Vouchers /\ rows[v].supersededBy = w
    BY <2>1 DEF Absorbed, Reserved
  <2> QED BY <2>1, <2>2 DEF Carry, Held
<1>6. SumFunctionOnSet(d, Vouchers) = 0
  <2>1. CASE \A w \in bills : rows[w].student # s
    <3>1. \A v \in Vouchers : d[v] = 0
      BY <1>4, <1>5, <2>1
    <3> HIDE DEF d
    <3> QED BY <1>1, <3>1, SumZero
  <2>2. ASSUME NEW w \in bills, rows[w].student = s
        PROVE  SumFunctionOnSet(d, Vouchers) = 0
    <3> DEFINE gained == Absorbed(rows, w)
               t == [v \in gained |-> Total(rows[v])]
    <3>1. w \in Vouchers /\ rows[w].status = "draft"
      OBVIOUS
    <3>2. ASSUME NEW v \in gained
          PROVE  v \in Vouchers /\ v \in gone /\ rows[v].student = s
      <4>1. v \in Vouchers /\ rows[v].supersededBy = w
        BY DEF Absorbed, Reserved
      <4> QED BY <2>2, <4>1 DEF AllAbsorbed, Carry, Held
    <3>3. ASSUME NEW v \in Vouchers, v # w, v \notin gained PROVE d[v] = 0
      <4>1. CASE rows[v].student # s
        BY <1>4, <4>1
      <4>2. CASE rows[v].student = s
        <5>1. v \notin bills
          BY <2>2, <3>3, <4>2
        <5>2. v \notin gone
          <6> SUFFICES ASSUME v \in gone PROVE FALSE
            OBVIOUS
          <6>1. PICK u \in bills : v \in Absorbed(rows, u) /\ rows[u].student = s
            BY <1>5, <4>2
          <6> QED BY <2>2, <3>3, <6>1
        <5> QED BY <1>4, <5>1, <5>2
      <4> QED BY <4>1, <4>2
    <3>4. /\ gained \in SUBSET (Vouchers \ {w}) /\ \A v \in gained : d[v] = t[v]
          /\ \A v \in gained : t[v] \in Int
      <4>1. ASSUME NEW v \in gained
            PROVE  v \in Vouchers /\ v # w /\ d[v] = t[v] /\ t[v] \in Int
        <5>1. v \in Vouchers /\ v \in gone /\ rows[v].student = s /\ t[v] = Total(rows[v])
          BY <3>2
        <5>2. d[v] = Total(rows[v]) /\ v \notin bills
          BY <1>4, <5>1
        <5> HIDE DEF t, d, gained, gone
        <5> QED BY <1>3, <5>1, <5>2
      <4> HIDE DEF t, d, gained
      <4> QED BY <4>1
    <3>5. d[w] = 0 - row'[w].lines["carried"]
      BY <1>4, <2>2, <3>1
    <3>6. row'[w].lines["carried"] = SumFunctionOnSet(t, gained)
      <4>1. row'[w].lines = Repriced(rows, w).lines
        BY <3>1, BilledRow
      <4>2. Repriced(rows, w).lines["carried"] = SumTotals(rows, gained)
        BY <3>1, RepricedCarries DEF Carry
      <4>3. SumTotals(rows, gained) = SumFunctionOnSet(t, gained)
        BY TotalsOnSet
      <4> QED BY <4>1, <4>2, <4>3
    <3>0. \A v \in Vouchers : d[v] \in Int
      BY <1>3
    <3>7. \A v \in (Vouchers \ {w}) \ gained : d[v] = 0
      BY <3>3
    <3>8. d[w] = 0 - SumFunctionOnSet(t, gained)
      BY <3>5, <3>6
    <3>9. \A v \in gained : t[v] = d[v]
      BY <3>4
    <3> HIDE DEF d, t, gained, gone, f, g
    <3> QED BY <1>1, <3>0, <3>1, <3>4, <3>7, <3>8, <3>9, SumOffset
  <2> QED BY <2>1, <2>2
<1> HIDE DEF b, c, d, f, g
<1>7. SumFunctionOnSet(g, Vouchers) = SumFunctionOnSet(f, Vouchers) + SumFunctionOnSet(d, Vouchers)
  BY <1>1, <1>2, <1>3, SumPlus
<1>8. SumFunctionOnSet(f, Vouchers) \in Int
  BY <1>1, <1>2, SumInt
<1>9. SumFunctionOnSet(g, Vouchers) = SumFunctionOnSet(f, Vouchers)
  BY <1>6, <1>7, <1>8
<1>10. \A v \in Vouchers : b[v] \in Int /\ c[v] \in Int /\ b[v] <= c[v]
  BY <1>2, <1>4
<1>11. SumFunctionOnSet(b, Vouchers) <= SumFunctionOnSet(c, Vouchers)
  BY <1>1, <1>10, SumLeq
<1>12. SumFunctionOnSet(b, Vouchers) \in Int /\ SumFunctionOnSet(c, Vouchers) \in Int
  BY <1>1, <1>10, SumInt
<1> QED BY <1>9, <1>11, <1>12 DEF SumV, b, c, f, g
-----------------------------------------------------------------------------
(* What a step does to the accounts of the families.                        *)

\* What family s is billed grows; what it paid and was let off stays.
Bills(s) ==
  /\ SumV(OffOf(row', ledger', s)) = SumV(OffOf(row, ledger, s))
  /\ SumV(PaidOf(row', received', s)) = SumV(PaidOf(row, received, s))
  /\ SumV(BillOf(row', ledger', s)) >= SumV(BillOf(row, ledger, s))
\* What family s paid and was let off changes by so much, and what it is billed not at all.
Shifts(s, paid, off) ==
  /\ SumV(OffOf(row', ledger', s)) = SumV(OffOf(row, ledger, s)) + off
  /\ SumV(PaidOf(row', received', s)) = SumV(PaidOf(row, received, s)) + paid
  /\ SumV(BillOf(row', ledger', s)) = SumV(BillOf(row, ledger, s))
DueFrom(s) == OwedIn(row, ledger, payments, movement, s)

AccountStep ==
  \/ \A s \in Students : Bills(s)
  \/ \E s \in Students, paid, off \in Int :
       /\ Shifts(s, paid, off) /\ \A t \in Students \ {s} : Shifts(t, 0, 0)
       /\ \/ off = 0 /\ paid < 0
          \/ off = 0 /\ paid >= 1 /\ paid <= DueFrom(s)
          \/ paid = 0 /\ off >= 1 /\ off <= DueFrom(s)
AccountKept == AccountStep /\ Families(row') /\ Counted' /\ Matched'

\* The types that the account needs of the rules.
LEMMA TypesOfRules ==
  ASSUME Rules
  PROVE  /\ row \in [Vouchers -> Row] /\ ledger \in [Vouchers -> [VoucherEntries -> Int]]
         /\ received \in [Vouchers -> Int] /\ payments \in [Payments -> Receipt]
         /\ movement \in [Payments -> [ReceiptEntries -> Int]]
         /\ \A v \in Vouchers : Sound(row[v], received[v]) /\ Books(row[v], ledger[v])
BY DEF Rules, IInv, TypeOK

\* A step that changes only rows without entries leaves every account as it was.
LEMMA StaysPut ==
  ASSUME AccInv, Families(row'), UNCHANGED <<payments, received, ledger, movement>>,
         row' \in [Vouchers -> Row],
         \A v \in Vouchers : row[v].status # "none" => row'[v].student = row[v].student,
         \A v \in Vouchers : row[v].status \notin {"none", "draft"} => row'[v].lines = row[v].lines
  PROVE  AccountKept
<1>1. ASSUME NEW s \in Students
      PROVE  /\ BillOf(row', ledger', s) = BillOf(row, ledger, s)
             /\ OffOf(row', ledger', s) = OffOf(row, ledger, s)
             /\ PaidOf(row', received', s) = PaidOf(row, received, s)
             /\ MoveOf(row', payments', movement', s) = MoveOf(row, payments, movement, s)
  BY SameFigures DEF AccInv
<1>2. \A s \in Students : Bills(s)
  <2> SUFFICES ASSUME NEW s \in Students PROVE Bills(s)
    OBVIOUS
  <2>1. SumV(BillOf(row, ledger, s)) \in Nat
    BY Billed, TypesOfRules DEF AccInv
  <2> QED BY <1>1, <2>1 DEF Bills
<1>3. Counted'
  BY DEF AccInv, Counted
<1>4. Matched'
  BY <1>1 DEF AccInv, Matched
<1> QED BY <1>2, <1>3, <1>4 DEF AccountKept, AccountStep

\* A billing step, from a table in which the bills have been drafted.
LEMMA BillKeepsAccount ==
  ASSUME ~EditsCarriedLine, AccInv,
         NEW rows \in [Vouchers -> Row], NEW bills \in SUBSET Vouchers, Bill(rows, bills),
         UNCHANGED <<payments, received, movement>>,
         \A v \in Vouchers : row[v].status # "none" => rows[v].student = row[v].student,
         \A v \in Vouchers : row[v].status \notin {"none", "draft"} => rows[v].lines = row[v].lines,
         \A v \in Vouchers : Sound(rows[v], received[v]) /\ Books(rows[v], ledger[v]),
         Carry(rows), Families(rows), \A v \in bills : rows[v].status = "draft",
         \A u, w \in bills : rows[u].student = rows[w].student => u = w
  PROVE  AccountKept /\ \A s \in Students : Bills(s)
<1>1. /\ row' \in [Vouchers -> Row] /\ ledger' \in [Vouchers -> [VoucherEntries -> Int]]
      /\ \A v \in Vouchers : row'[v].student = rows[v].student
      /\ ledger \in [Vouchers -> [VoucherEntries -> Int]]
  BY BillShape, BillKeepsBooks, TypesOfRules DEF AccInv
<1>2. ASSUME NEW s
      PROVE  /\ BillOf(rows, ledger, s) = BillOf(row, ledger, s)
             /\ OffOf(rows, ledger, s) = OffOf(row, ledger, s)
             /\ PaidOf(rows, received, s) = PaidOf(row, received, s)
             /\ MoveOf(rows, payments, movement, s) = MoveOf(row, payments, movement, s)
  BY SameFigures DEF AccInv
<1>3. ASSUME NEW s
      PROVE  /\ PaidOf(row', received', s) = PaidOf(row, received, s)
             /\ MoveOf(row', payments', movement', s) = MoveOf(row, payments, movement, s)
  <2>1. PaidOf(row', received', s) = PaidOf(rows, received, s)
    BY <1>1 DEF PaidOf
  <2>2. MoveOf(row', payments', movement', s) = MoveOf(rows, payments, movement, s)
    BY <1>1 DEF MoveOf
  <2> QED BY <1>2, <2>1, <2>2
<1>4. ASSUME NEW s \in Students PROVE Bills(s)
  <2>1. /\ SumV(OffOf(row', ledger', s)) = SumV(OffOf(rows, ledger, s))
        /\ SumV(BillOf(row', ledger', s)) >= SumV(BillOf(rows, ledger, s))
    BY <1>1, BillForgivesNothing
  <2> QED BY <1>2, <1>3, <2>1 DEF Bills
<1>5. Families(row')
  <2> SUFFICES ASSUME NEW v \in Vouchers, row'[v].status # "none"
               PROVE  row'[v].student \in Students
    BY DEF Families
  <2>1. rows[v].status # "none"
    <3>1. v \notin bills =>
            row'[v].status = IF v \in AllAbsorbed(rows, bills) THEN "void" ELSE rows[v].status
      BY BillShape
    <3>2. v \in AllAbsorbed(rows, bills) => rows[v].supersededBy \in Vouchers
      BY DEF AllAbsorbed, Absorbed, Reserved
    <3>3. rows[v].supersededBy \in Vouchers => rows[v].status # "none"
      BY NamesAssumption DEF Sound
    <3> QED BY <3>1, <3>2, <3>3
  <2> QED BY <1>1, <2>1 DEF Families
<1>6. Counted'
  BY DEF AccInv, Counted
<1>7. Matched'
  BY <1>3 DEF AccInv, Matched
<1> QED BY <1>4, <1>5, <1>6, <1>7 DEF AccountKept, AccountStep

\* Issuing a draft is a billing step,
LEMMA IssueKeepsAccount ==
  ASSUME ~EditsCarriedLine, AccInv, NEW v \in Vouchers, IssueVoucher(v)
  PROVE  AccountKept /\ \A s \in Students : Bills(s)
<1>1. Bill(row, {v}) /\ row[v].status = "draft" /\ UNCHANGED <<payments, received, movement>>
  BY DEF IssueVoucher
<1>2. {v} \in SUBSET Vouchers /\ row \in [Vouchers -> Row] /\ Carry(row) /\ Families(row)
      /\ \A u \in Vouchers : Sound(row[u], received[u]) /\ Books(row[u], ledger[u])
  BY TypesOfRules DEF AccInv
<1> QED BY <1>1, <1>2, BillKeepsAccount

\* and so is a billing run, on the table in which its drafts have been written.
LEMMA GenerateKeepsAccount ==
  ASSUME ~EditsCarriedLine, AccInv, NEW asked \in SUBSET Students, NEW period \in Periods,
         NEW stationery \in Stationery, NEW carry \in BOOLEAN, NEW issue \in BOOLEAN,
         GenerateVouchers(asked, period, stationery, carry, issue)
  PROVE  AccountKept
<1>1. PICK rows \in [Vouchers -> Row], bills \in SUBSET Vouchers :
        /\ Drafted(rows, bills, period)
        /\ IF issue THEN Bill(rows, bills) ELSE row' = rows /\ ledger' = ledger
        /\ UNCHANGED <<payments, received, movement, adjusted>>
  BY GenerateDrafts DEF AccInv
<1>2. Carry(rows) /\ \A v \in Vouchers : Sound(rows[v], received[v])
  BY <1>1, DraftsCarry DEF AccInv
<1>3. /\ \A v \in bills : /\ row[v].status = "none" /\ rows[v].status = "draft"
                          /\ rows[v].student \in Students
      /\ \A v \in Vouchers \ bills : /\ rows[v].status = row[v].status
                                     /\ rows[v].student = row[v].student
                                     /\ rows[v].lines = row[v].lines
      /\ \A u, w \in bills : rows[u].student = rows[w].student => u = w
  BY <1>1 DEF Drafted
<1>4. /\ \A v \in Vouchers : row[v].status # "none" => rows[v].student = row[v].student
      /\ \A v \in Vouchers : row[v].status \notin {"none", "draft"} => rows[v].lines = row[v].lines
  BY <1>3
<1>5. Families(rows)
  BY <1>3 DEF AccInv, Families
<1>6. ASSUME NEW v \in Vouchers PROVE Books(rows[v], ledger[v])
  <2>1. Books(row[v], ledger[v])
    BY TypesOfRules DEF AccInv
  <2>2. CASE v \in bills
    BY <1>3, <2>1, <2>2 DEF Books, OnAccount
  <2>3. CASE v \notin bills
    <3>1. rows[v].status = row[v].status /\ Total(rows[v]) = Total(row[v])
      BY <1>3, <2>3, TotalFromLines
    <3> QED BY <2>1, <3>1 DEF Books, OnAccount
  <2> QED BY <2>2, <2>3
<1>7. CASE issue
  BY <1>1, <1>2, <1>3, <1>4, <1>5, <1>6, <1>7, BillKeepsAccount
<1>8. CASE ~issue
  BY <1>1, <1>4, <1>5, <1>8, StaysPut
<1> QED BY <1>7, <1>8

\* What a receipt is for is a number.
LEMMA ReceiptAmount == \A q \in Receipt : q.amount \in Int /\ q.amount \in Nat
<1> SUFFICES ASSUME NEW q \in Receipt PROVE q.amount \in Int /\ q.amount \in Nat
  OBVIOUS
<1>1. q.amount \in Amount /\ Amount \subseteq Nat
  BY ZeroIsAmount DEF Receipt
<1>2. \A a \in Nat : a \in Int
  OBVIOUS
<1> QED BY <1>1, <1>2

\* Receipt p moves money for challan v: a more is received, and it says so.
MoneyMoved(v, p, a) ==
  /\ row' \in [Vouchers -> Row] /\ row[v].student \in Students
  /\ \A u \in Vouchers : row'[u].student = row[u].student /\ row'[u].lines = row[u].lines
  /\ ledger' = ledger /\ received' = [received EXCEPT ![v] = @ + a]
  /\ payments' \in [Payments -> Receipt]
  /\ movement' \in [Payments -> [ReceiptEntries -> Int]]
  /\ \A r \in Payments \ {p} : payments'[r] = payments[r] /\ movement'[r] = movement[r]
  /\ payments'[p].voucher = v /\ Moved(movement'[p]) = Moved(movement[p]) - a
  /\ payments[p].voucher = v \/ Moved(movement[p]) = 0
  /\ \A u \in Vouchers : TakenBy(payments', u)[p]
                             = TakenBy(payments, u)[p] + (IF u = v THEN a ELSE 0)

\* Such a receipt moves the account of its family by a, and of no other.
LEMMA MoneyMoves ==
  ASSUME AccInv, NEW v \in Vouchers, NEW p \in Payments, NEW a \in Int, MoneyMoved(v, p, a)
  PROVE  /\ Counted' /\ Matched'
         /\ Shifts(row[v].student, a, 0)
         /\ \A t \in Students \ {row[v].student} : Shifts(t, 0, 0)
<1> USE DEF MoneyMoved
<1>1. /\ row \in [Vouchers -> Row] /\ ledger \in [Vouchers -> [VoucherEntries -> Int]]
      /\ received \in [Vouchers -> Int] /\ payments \in [Payments -> Receipt]
      /\ movement \in [Payments -> [ReceiptEntries -> Int]]
      /\ IsFiniteSet(Vouchers) /\ IsFiniteSet(Payments)
  BY TypesOfRules, RowsAssumption DEF AccInv
<1>2. received' \in [Vouchers -> Int]
  BY <1>1
<1>3. Counted'
  <2> SUFFICES ASSUME NEW u \in Vouchers PROVE received'[u] = SumP(TakenBy(payments', u))
    BY DEF Counted
  <2> DEFINE f == TakenBy(payments, u)
             g == TakenBy(payments', u)
             da == IF u = v THEN a ELSE 0
  <2>1. \A r \in Payments : f[r] \in Int /\ g[r] \in Int
    <3>1. \A r \in Payments : payments[r].amount \in Int /\ payments'[r].amount \in Int
      BY <1>1, ReceiptAmount
    <3> QED BY <3>1 DEF TakenBy
  <2>2. \A r \in Payments \ {p} : g[r] = f[r]
    BY DEF TakenBy
  <2>3. g[p] = f[p] + da
    OBVIOUS
  <2>4. received[u] = SumFunctionOnSet(f, Payments)
    BY DEF AccInv, Counted, SumP
  <2>5. received'[u] = received[u] + da
    BY <1>1
  <2> HIDE DEF f, g
  <2>6. SumFunctionOnSet(g, Payments) = SumFunctionOnSet(f, Payments) + (g[p] - f[p])
    <3>1. p \in Payments /\ IsFiniteSet(Payments)
      BY <1>1
    <3> QED BY ONLY <2>1, <2>2, <3>1, SumChange
  <2>7. g[p] - f[p] = da
    <3> HIDE DEF da
    <3>1. da \in Int
      BY DEF da
    <3> QED BY <2>1, <2>3, <3>1
  <2> HIDE DEF da
  <2> QED BY <2>4, <2>5, <2>6, <2>7 DEF SumP, g
<1>4. ASSUME NEW s \in Students
      PROVE  /\ SumV(PaidOf(row', received', s))
                  = SumV(PaidOf(row, received, s)) + (IF row[v].student = s THEN a ELSE 0)
             /\ SumP(MoveOf(row', payments', movement', s))
                  = SumP(MoveOf(row, payments, movement, s)) - (IF row[v].student = s THEN a ELSE 0)
  <2> DEFINE f == PaidOf(row, received, s)
             g == PaidOf(row', received', s)
             m == MoveOf(row, payments, movement, s)
             n == MoveOf(row', payments', movement', s)
             da == IF row[v].student = s THEN a ELSE 0
  <2>1. da \in Int
    OBVIOUS
  <2>2. /\ \A u \in Vouchers : f[u] \in Int
        /\ \A u \in Vouchers : g[u] \in Int
    BY <1>1, <1>2, PaidTerms
  <2>3. /\ \A r \in Payments : m[r] \in Int
        /\ \A r \in Payments : n[r] \in Int
    BY <1>1, MoveTerms
  <2>4. \A u \in Vouchers \ {v} : g[u] = f[u]
    BY <1>1 DEF PaidOf
  <2>5. g[v] = f[v] + da
    BY <1>1 DEF PaidOf
  <2>6. \A r \in Payments \ {p} : n[r] = m[r]
    BY DEF MoveOf
  <2>7. n[p] = m[p] - da
    <3>1. Moved(movement[p]) \in Int /\ n[p] = IF row[v].student = s THEN Moved(movement'[p]) ELSE 0
      BY <1>1, MoveTerms DEF MoveOf
    <3>2. m[p] = IF row[v].student = s THEN Moved(movement[p]) ELSE 0
      <4>1. CASE payments[p].voucher = v
        BY <4>1 DEF MoveOf
      <4>2. CASE Moved(movement[p]) = 0
        BY <4>2 DEF MoveOf
      <4> QED BY <4>1, <4>2
    <3> HIDE DEF m, n
    <3> QED BY <3>1, <3>2
  <2> HIDE DEF f, g, m, n, da
  <2>8. SumFunctionOnSet(g, Vouchers) = SumFunctionOnSet(f, Vouchers) + (g[v] - f[v])
    <3>1. \A u \in Vouchers : f[u] \in Int /\ g[u] \in Int
      BY <2>2
    <3>2. v \in Vouchers /\ IsFiniteSet(Vouchers)
      BY <1>1
    <3> QED BY ONLY <2>4, <3>1, <3>2, SumChange
  <2>9. SumFunctionOnSet(n, Payments) = SumFunctionOnSet(m, Payments) + (n[p] - m[p])
    <3>1. \A r \in Payments : m[r] \in Int /\ n[r] \in Int
      BY <2>3
    <3>2. p \in Payments /\ IsFiniteSet(Payments)
      BY <1>1
    <3> QED BY ONLY <2>6, <3>1, <3>2, SumChange
  <2>10. g[v] - f[v] = da /\ n[p] - m[p] = -da
    BY <2>1, <2>2, <2>3, <2>5, <2>7
  <2>11. SumFunctionOnSet(m, Payments) \in Int
    BY <1>1, <2>3, SumInt
  <2>12. SumFunctionOnSet(n, Payments) = SumFunctionOnSet(m, Payments) - da
    BY <2>1, <2>9, <2>10, <2>11
  <2> QED BY <2>8, <2>10, <2>12 DEF SumV, SumP, f, g, m, n, da
<1>5. Matched'
  <2> SUFFICES ASSUME NEW s \in Students
               PROVE  SumP(MoveOf(row', payments', movement', s)) = -SumV(PaidOf(row', received', s))
    BY DEF Matched
  <2> DEFINE da == IF row[v].student = s THEN a ELSE 0
             x == SumV(PaidOf(row, received, s))
             y == SumP(MoveOf(row, payments, movement, s))
  <2>1. da \in Int
    OBVIOUS
  <2>2. x \in Int
    BY <1>1, Paid
  <2>3. y = -x
    BY DEF AccInv, Matched
  <2>4. /\ SumV(PaidOf(row', received', s)) = x + da
        /\ SumP(MoveOf(row', payments', movement', s)) = y - da
    BY <1>4
  <2> HIDE DEF x, y, da
  <2> QED BY <2>1, <2>2, <2>3, <2>4
<1>6. ASSUME NEW s \in Students PROVE Shifts(s, IF row[v].student = s THEN a ELSE 0, 0)
  <2>1. OffOf(row', ledger', s) = OffOf(row, ledger, s) /\ BillOf(row', ledger', s) = BillOf(row, ledger, s)
    BY DEF OffOf, BillOf, Debit, OwnCharge
  <2>2. SumV(OffOf(row, ledger, s)) \in Int
    BY <1>1, Billed
  <2> DEFINE da == IF row[v].student = s THEN a ELSE 0
  <2>3. SumV(PaidOf(row', received', s)) = SumV(PaidOf(row, received, s)) + da
    BY <1>4
  <2> HIDE DEF da
  <2>4. Shifts(s, da, 0)
    BY <2>1, <2>2, <2>3 DEF Shifts
  <2> QED BY <2>4 DEF da
<1>7. Shifts(row[v].student, a, 0)
  BY <1>6
<1>8. \A t \in Students \ {row[v].student} : Shifts(t, 0, 0)
  BY <1>6
<1> QED BY <1>3, <1>5, <1>7, <1>8

\* A live challan never has more to take than its family owes.
LEMMA OneOfMany ==
  ASSUME AccInv, NEW v \in Vouchers, OnAccount(row[v])
  PROVE  Total(row[v]) - received[v] <= DueFrom(row[v].student)
<1> DEFINE s == row[v].student
           n == NetOf(row, ledger, s)
           m == PaidOf(row, received, s)
           d == [u \in Vouchers |-> n[u] - m[u]]
<1>1. /\ row \in [Vouchers -> Row] /\ ledger \in [Vouchers -> [VoucherEntries -> Int]]
      /\ received \in [Vouchers -> Int] /\ movement \in [Payments -> [ReceiptEntries -> Int]]
      /\ IsFiniteSet(Vouchers)
  BY TypesOfRules, RowsAssumption DEF AccInv
<1>2. s \in Students
  BY DEF AccInv, Families, OnAccount
<1>3. ASSUME NEW u \in Vouchers PROVE n[u] \in Int /\ m[u] \in Int
  BY <1>1, VoucherTerms, PaidTerms
<1>4. ASSUME NEW u \in Vouchers
      PROVE  d[u] \in Nat /\ (u = v => d[u] = Total(row[v]) - received[v])
  <2>1. n[u] \in Int /\ m[u] \in Int /\ d[u] = n[u] - m[u]
    BY <1>3
  <2>2. /\ n[u] = IF row[u].student = s THEN Net(ledger[u]) ELSE 0
        /\ m[u] = IF row[u].student = s THEN received[u] ELSE 0
    BY DEF NetOf, PaidOf
  <2>3. Sound(row[u], received[u]) /\ Books(row[u], ledger[u]) /\ Total(row[u]) \in Nat
        /\ row[u].status \in Statuses
    BY <1>1, TypesOfRules, TotalType DEF AccInv, Row
  <2>4. /\ ledger[u]["charge"] \in Int /\ ledger[u]["late_fee"] \in Int
        /\ ledger[u]["voucher_voided"] \in Int
    BY <1>1 DEF VoucherEntries
  <2>5. received[u] \in Nat /\ (received[u] # 0 => OnAccount(row[u]))
    BY MoneyIsThere DEF AccInv
  <2>6. OnAccount(row[u]) => Net(ledger[u]) = Total(row[u])
    BY <2>3, <2>4 DEF Books, Net
  <2>7. ~OnAccount(row[u]) => Net(ledger[u]) = 0
    BY <2>3, <2>4 DEF Books, Net, OnAccount
  <2>8. received[u] <= Total(row[u])
    BY <2>3 DEF Sound
  <2> HIDE DEF d, n, m
  <2>9. CASE row[u].student # s
    BY <2>1, <2>2, <2>9
  <2>10. CASE row[u].student = s /\ OnAccount(row[u])
    <3>1. d[u] = Total(row[u]) - received[u]
      BY <2>1, <2>2, <2>6, <2>10
    <3> QED BY <2>3, <2>5, <2>8, <3>1
  <2>11. CASE row[u].student = s /\ ~OnAccount(row[u])
    <3>1. d[u] = 0 /\ u # v
      BY <2>1, <2>2, <2>5, <2>7, <2>11
    <3> QED BY <3>1
  <2> QED BY <2>9, <2>10, <2>11
<1>5. ASSUME NEW u \in Vouchers PROVE n[u] = d[u] + m[u] /\ d[u] \in Int
  <2>1. d[u] = n[u] - m[u]
    OBVIOUS
  <2> HIDE DEF d, n, m
  <2> QED BY <1>3, <2>1
<1>6. DueFrom(s) = SumV(n) + SumP(MoveOf(row, payments, movement, s))
  BY <1>1, Due DEF DueFrom
<1>7. SumP(MoveOf(row, payments, movement, s)) = -SumV(m)
  BY <1>2 DEF AccInv, Matched
<1>8. SumV(m) \in Int
  BY <1>1, Paid
<1> HIDE DEF d, n, m, s
<1>9. SumFunctionOnSet(n, Vouchers) = SumFunctionOnSet(d, Vouchers) + SumFunctionOnSet(m, Vouchers)
  BY <1>1, <1>3, <1>5, SumPlus
<1>10. d[v] <= SumFunctionOnSet(d, Vouchers) /\ SumFunctionOnSet(d, Vouchers) \in Nat
  BY <1>1, <1>4, SumNat
<1>11. DueFrom(s) = SumFunctionOnSet(d, Vouchers)
  BY <1>6, <1>7, <1>8, <1>9, <1>10 DEF SumV
<1>12. d[v] = Total(row[v]) - received[v]
  BY <1>4
<1> QED BY <1>10, <1>11, <1>12 DEF s

\* A receipt is for no more than its family owes.
LEMMA PaymentKeepsAccount ==
  ASSUME AccInv, NEW p \in Payments, NEW v \in Vouchers, NEW amount \in Charges,
         RecordPayment(p, v, amount)
  PROVE  AccountKept
<1> DEFINE receipt == [status |-> "recorded", voucher |-> v, amount |-> amount]
           moved == [movement[p] EXCEPT !["payment"] = @ - amount]
<1>1. /\ payments[p].status = "none" /\ OnAccount(row[v])
      /\ amount <= Total(row[v]) - row[v].paid
      /\ payments' = [payments EXCEPT ![p] = receipt]
      /\ received' = [received EXCEPT ![v] = @ + amount]
      /\ row' = [row EXCEPT ![v] = Recalculated(row[v], received'[v])]
      /\ movement' = [movement EXCEPT ![p] = moved]
      /\ UNCHANGED <<ledger, adjusted>>
  BY DEF RecordPayment, Accepts, OnAccount
<1>2. /\ row \in [Vouchers -> Row] /\ received \in [Vouchers -> Int]
      /\ payments \in [Payments -> Receipt] /\ movement \in [Payments -> [ReceiptEntries -> Int]]
      /\ Sound(row[v], received[v]) /\ Rules
  BY TypesOfRules DEF AccInv
<1>3. amount \in Int /\ amount >= 1 /\ amount \in Amount
  BY AmountsAssumption DEF Amount
<1>4. /\ row' \in [Vouchers -> Row] /\ payments' \in [Payments -> Receipt]
      /\ movement' \in [Payments -> [ReceiptEntries -> Int]]
  BY <1>2, RecordKeepsIInv DEF Rules, IInv, TypeOK
<1>5. received'[v] \in Int
  BY <1>1, <1>2, <1>3
<1>6. ASSUME NEW u \in Vouchers
      PROVE  /\ row'[u].student = row[u].student /\ row'[u].lines = row[u].lines
             /\ row'[u].status # "none" => row[u].status # "none"
  <2>1. CASE u = v
    <3>1. row'[v] = Recalculated(row[v], received'[v])
      BY <1>1, <1>2
    <3> QED BY <1>1, <1>2, <1>5, <2>1, <3>1, RecalculatedShape DEF OnAccount
  <2>2. CASE u # v
    BY <1>1, <1>2, <2>2
  <2> QED BY <2>1, <2>2
<1>7. row[v].student \in Students /\ Families(row')
  BY <1>1, <1>6 DEF AccInv, Families, OnAccount
<1>8. /\ payments'[p] = receipt /\ movement'[p] = moved
      /\ \A r \in Payments \ {p} : payments'[r] = payments[r] /\ movement'[r] = movement[r]
  BY <1>1, <1>2
<1>9. payments'[p].voucher = v /\ payments'[p].status = "recorded" /\ payments'[p].amount = amount
  BY <1>8
<1>10. Moved(movement[p]) = 0 /\ Moved(movement'[p]) = Moved(movement[p]) - amount
  <2>1. movement[p]["payment"] = 0 /\ movement[p]["payment_reversed"] = 0
    BY <1>1, <1>2 DEF Rules, IInv, Till
  <2>2. moved["payment"] = 0 - amount /\ moved["payment_reversed"] = 0
    BY <1>2, <2>1 DEF ReceiptEntries
  <2> HIDE DEF moved
  <2> QED BY <1>3, <1>8, <2>1, <2>2 DEF Moved
<1>11. ASSUME NEW u \in Vouchers
       PROVE  TakenBy(payments', u)[p] = TakenBy(payments, u)[p] + (IF u = v THEN amount ELSE 0)
  <2>1. TakenBy(payments, u)[p] = 0
    BY <1>1 DEF TakenBy
  <2>2. TakenBy(payments', u)[p] = IF u = v THEN amount ELSE 0
    BY <1>9 DEF TakenBy
  <2> QED BY <1>3, <2>1, <2>2
<1> HIDE DEF receipt, moved
<1>12. /\ Counted' /\ Matched' /\ Shifts(row[v].student, amount, 0)
       /\ \A t \in Students \ {row[v].student} : Shifts(t, 0, 0)
  <2>1. MoneyMoved(v, p, amount)
    BY <1>1, <1>4, <1>6, <1>7, <1>8, <1>9, <1>10, <1>11 DEF MoneyMoved
  <2> QED BY <1>3, <2>1, MoneyMoves
<1>13. amount <= DueFrom(row[v].student)
  <2>1. Total(row[v]) - received[v] <= DueFrom(row[v].student)
    BY <1>1, OneOfMany
  <2>2. row[v].paid = received[v] /\ received[v] \in Int /\ Total(row[v]) \in Int
    BY <1>2, TotalType DEF Sound
  <2>3. DueFrom(row[v].student) \in Int
    <3> DEFINE s == row[v].student
    <3>1. ledger \in [Vouchers -> [VoucherEntries -> Int]]
      BY TypesOfRules DEF AccInv
    <3>2. /\ DueFrom(s) = SumV(NetOf(row, ledger, s)) + SumP(MoveOf(row, payments, movement, s))
          /\ SumP(MoveOf(row, payments, movement, s)) \in Int
      BY <1>2, <3>1, Due DEF DueFrom
    <3>3. SumV(NetOf(row, ledger, s)) \in Int
      BY <1>2, <3>1, Billed
    <3> HIDE DEF s
    <3>4. DueFrom(s) \in Int
      BY <3>2, <3>3
    <3> QED BY <3>4 DEF s
  <2> QED BY <1>1, <1>3, <2>1, <2>2, <2>3
<1> QED BY <1>3, <1>7, <1>12, <1>13 DEF AccountKept, AccountStep

\* A reversal takes a receipt off the account again.
LEMMA ReversalKeepsAccount ==
  ASSUME AccInv, NEW p \in Payments, ReversePayment(p)
  PROVE  AccountKept
<1> DEFINE v == payments[p].voucher
           amount == payments[p].amount
           a == 0 - amount
           moved == [movement[p] EXCEPT !["payment_reversed"] = @ + amount]
<1>1. /\ payments[p].status = "recorded"
      /\ payments' = [payments EXCEPT ![p].status = "reversed"]
      /\ received' = [received EXCEPT ![v] = @ - amount]
      /\ row' = [row EXCEPT ![v] = Recalculated(row[v], received'[v])]
      /\ movement' = [movement EXCEPT ![p] = moved]
      /\ UNCHANGED <<ledger, adjusted>>
  BY DEF ReversePayment, Reversible
<1>2. /\ row \in [Vouchers -> Row] /\ received \in [Vouchers -> Int]
      /\ payments \in [Payments -> Receipt] /\ movement \in [Payments -> [ReceiptEntries -> Int]]
      /\ v \in Vouchers /\ OnAccount(row[v])
  BY <1>1, TypesOfRules DEF AccInv, Rules, IInv, Till
<1>3. amount \in Nat /\ a \in Int
  <2>1. amount \in Nat /\ amount \in Int
    BY <1>2, ReceiptAmount
  <2> HIDE DEF amount
  <2> QED BY <2>1
<1>4. /\ row' \in [Vouchers -> Row] /\ payments' \in [Payments -> Receipt]
      /\ movement' \in [Payments -> [ReceiptEntries -> Int]]
  BY ReverseKeepsIInv DEF AccInv, Rules, IInv, TypeOK
<1>5. received' = [received EXCEPT ![v] = @ + a]
  <2>1. received[v] - amount = received[v] + a
    BY <1>2, <1>3
  <2> HIDE DEF a, v, amount
  <2> QED BY <1>1, <2>1
<1>6. received'[v] \in Int
  BY <1>2, <1>3, <1>5
<1>7. ASSUME NEW u \in Vouchers
      PROVE  /\ row'[u].student = row[u].student /\ row'[u].lines = row[u].lines
             /\ row'[u].status # "none" => row[u].status # "none"
  <2>1. CASE u = v
    <3>1. row'[v] = Recalculated(row[v], received'[v])
      BY <1>1, <1>2
    <3> HIDE DEF v
    <3> QED BY <1>2, <1>6, <2>1, <3>1, RecalculatedShape DEF OnAccount
  <2>2. CASE u # v
    BY <1>1, <1>2, <2>2
  <2> QED BY <2>1, <2>2
<1>8. row[v].student \in Students /\ Families(row')
  <2> HIDE DEF v
  <2> QED BY <1>2, <1>7 DEF AccInv, Families, OnAccount
<1>9. /\ payments'[p] = [payments[p] EXCEPT !.status = "reversed"] /\ movement'[p] = moved
      /\ \A r \in Payments \ {p} : payments'[r] = payments[r] /\ movement'[r] = movement[r]
  BY <1>1, <1>2
<1>10. payments'[p].voucher = v /\ payments'[p].status = "reversed"
  BY <1>2, <1>9 DEF Receipt
<1>11. Moved(movement'[p]) = Moved(movement[p]) - a
  <2>1. /\ movement[p]["payment"] \in Int /\ movement[p]["payment_reversed"] \in Int
    BY <1>2 DEF ReceiptEntries
  <2>2. /\ moved["payment"] = movement[p]["payment"]
        /\ moved["payment_reversed"] = movement[p]["payment_reversed"] + amount
    BY <1>2 DEF ReceiptEntries
  <2> HIDE DEF moved, amount
  <2> QED BY <1>3, <1>9, <2>1, <2>2 DEF Moved
<1>12. ASSUME NEW u \in Vouchers
       PROVE  TakenBy(payments', u)[p] = TakenBy(payments, u)[p] + (IF u = v THEN a ELSE 0)
  <2>1. TakenBy(payments', u)[p] = 0
    BY <1>10 DEF TakenBy
  <2>2. TakenBy(payments, u)[p] = IF u = v THEN amount ELSE 0
    BY <1>1 DEF TakenBy
  <2> HIDE DEF amount, v
  <2> QED BY <1>3, <2>1, <2>2
<1>13. MoneyMoved(v, p, a)
  <2> HIDE DEF v, a, moved
  <2>1. payments[p].voucher = v
    BY DEF v
  <2> QED BY <1>1, <1>4, <1>5, <1>7, <1>8, <1>9, <1>10, <1>11, <1>12, <2>1 DEF MoneyMoved
<1> HIDE DEF v
<1>14. /\ Counted' /\ Matched' /\ Shifts(row[v].student, a, 0)
       /\ \A t \in Students \ {row[v].student} : Shifts(t, 0, 0)
  BY <1>2, <1>3, <1>13, MoneyMoves
<1>15. CASE amount = 0
  <2>1. ASSUME NEW s \in Students PROVE Bills(s)
    <3>1. Shifts(s, 0, 0)
      BY <1>14, <1>15
    <3>2. /\ SumV(BillOf(row, ledger, s)) \in Nat
          /\ SumV(PaidOf(row, received, s)) \in Int
          /\ SumV(OffOf(row, ledger, s)) \in Int
      BY Billed, Paid, TypesOfRules DEF AccInv
    <3> QED BY <3>1, <3>2 DEF Shifts, Bills
  <2> QED BY <1>8, <1>14, <2>1 DEF AccountKept, AccountStep
<1>16. CASE amount # 0
  <2>1. a < 0
    BY <1>3, <1>16
  <2> QED BY <1>3, <1>8, <1>14, <2>1 DEF AccountKept, AccountStep
<1> QED BY <1>15, <1>16

\* A cancelled challan lets its family off what it billed, all of which was still owed.
LEMMA VoidKeepsAccount ==
  ASSUME AccInv, NEW v \in Vouchers, VoidVoucher(v)
  PROVE  AccountKept
<1> DEFINE total == Total(row[v])
           s0 == row[v].student
<1>1. /\ row[v].status \notin {"none", "void", "paid"} /\ ~TookMoney(v)
      /\ row' = Voided(row, {v}) /\ ledger' = VoidCredited(row, ledger, {v})
      /\ UNCHANGED <<payments, received, movement, adjusted>>
  BY DEF VoidVoucher, CanVoid
<1>2. /\ row \in [Vouchers -> Row] /\ received \in [Vouchers -> Int]
      /\ ledger \in [Vouchers -> [VoucherEntries -> Int]]
      /\ movement \in [Payments -> [ReceiptEntries -> Int]]
      /\ payments \in [Payments -> Receipt] /\ Rules
      /\ IsFiniteSet(Vouchers) /\ IsFiniteSet(Payments)
      /\ Sound(row[v], received[v]) /\ Books(row[v], ledger[v])
  BY TypesOfRules, RowsAssumption DEF AccInv
<1>3. row' \in [Vouchers -> Row] /\ ledger' \in [Vouchers -> [VoucherEntries -> Int]]
  BY VoidKeepsIInv DEF AccInv, Rules, IInv, TypeOK
<1>4. ASSUME NEW u \in Vouchers
      PROVE  /\ row'[u].student = row[u].student /\ row'[u].lines = row[u].lines
             /\ row'[u].status # "none" => row[u].status # "none"
  <2>1. row[u] \in Row /\ row'[u] = [row[u] EXCEPT !.status = IF u \in {v} THEN "void" ELSE @,
                                      !.supersededBy = IF @ \in {v} THEN NoVoucher ELSE @]
    BY <1>1, <1>2 DEF Voided
  <2> QED BY <1>1, <2>1 DEF Row
<1>5. Families(row')
  BY <1>4 DEF AccInv, Families
<1>6. s0 \in Students /\ total \in Nat
  BY <1>1, <1>2, TotalType DEF AccInv, Families
<1>7. ASSUME NEW s
      PROVE  /\ PaidOf(row', received', s) = PaidOf(row, received, s)
             /\ MoveOf(row', payments', movement', s) = MoveOf(row, payments, movement, s)
  BY <1>1, <1>4 DEF PaidOf, MoveOf
<1>8. Counted' /\ Matched'
  <2>1. Counted'
    BY <1>1 DEF AccInv, Counted
  <2>2. Matched'
    BY <1>7 DEF AccInv, Matched
  <2> QED BY <2>1, <2>2
<1>9. \A u \in Vouchers :
        ledger'[u] = IF u = v /\ HasDebit(ledger[u])
                     THEN [ledger[u] EXCEPT !["voucher_voided"] = @ - Total(row[u])]
                     ELSE ledger[u]
  BY <1>1 DEF VoidCredited
<1>10. CASE ~HasDebit(ledger[v])
  <2>1. ledger' = ledger
    BY <1>2, <1>3, <1>9, <1>10
  <2> QED BY <1>1, <1>3, <1>4, <1>5, <2>1, StaysPut
<1>11. CASE HasDebit(ledger[v])
  <2>1. OnAccount(row[v])
    <3>1. row[v].status \notin {"none", "draft", "void"}
      BY <1>1, <1>2, <1>11, NothingYet
    <3> QED BY <3>1 DEF OnAccount
  <2>2. /\ HasDebit(ledger'[v]) /\ Net(ledger'[v]) = Net(ledger[v]) - total
        /\ Net(ledger[v]) \in Int
    <3>1. /\ ledger[v]["charge"] \in Int /\ ledger[v]["late_fee"] \in Int
          /\ ledger[v]["voucher_voided"] \in Int
      BY <1>2 DEF VoucherEntries
    <3>2. /\ ledger'[v]["charge"] = ledger[v]["charge"]
          /\ ledger'[v]["late_fee"] = ledger[v]["late_fee"]
          /\ ledger'[v]["voucher_voided"] = ledger[v]["voucher_voided"] - total
      BY <1>2, <1>9, <1>11 DEF VoucherEntries
    <3> HIDE DEF total
    <3> QED BY <1>6, <1>11, <3>1, <3>2 DEF HasDebit, Net
  <2>3. \A u \in Vouchers : /\ Debit(row'[u], ledger'[u]) = Debit(row[u], ledger[u])
                            /\ u # v => Net(ledger'[u]) = Net(ledger[u])
    <3> SUFFICES ASSUME NEW u \in Vouchers
                 PROVE  /\ Debit(row'[u], ledger'[u]) = Debit(row[u], ledger[u])
                        /\ u # v => Net(ledger'[u]) = Net(ledger[u])
      OBVIOUS
    <3>1. OwnCharge(row'[u]) = OwnCharge(row[u])
      BY <1>4 DEF OwnCharge
    <3>2. CASE u = v
      BY <1>11, <2>2, <3>1, <3>2 DEF Debit
    <3>3. CASE u # v
      <4>1. ledger'[u] = ledger[u]
        BY <1>9, <3>3
      <4> QED BY <3>1, <4>1 DEF Debit
    <3> QED BY <3>2, <3>3
  <2>4. ASSUME NEW s PROVE BillOf(row', ledger', s) = BillOf(row, ledger, s)
    BY <1>4, <2>3 DEF BillOf
  <2>5. ASSUME NEW s \in Students PROVE Shifts(s, 0, IF s0 = s THEN total ELSE 0)
    <3> DEFINE f == OffOf(row, ledger, s)
               g == OffOf(row', ledger', s)
               dt == IF s0 = s THEN total ELSE 0
    <3>1. \A u \in Vouchers : f[u] \in Int
      BY <1>2, VoucherTerms
    <3>2. \A u \in Vouchers : g[u] \in Int
      BY <1>3, VoucherTerms
    <3>3. \A u \in Vouchers \ {v} : g[u] = f[u]
      BY <1>4, <2>3 DEF OffOf
    <3>4. g[v] = f[v] + dt
      <4>1. Debit(row[v], ledger[v]) \in Int
        <5>1. OwnCharge(row[v]) \in Nat
          BY <1>2, VoucherTerms
        <5> QED BY <5>1 DEF Debit
      <4>2. Debit(row'[v], ledger'[v]) = Debit(row[v], ledger[v]) /\ row'[v].student = s0
        BY <1>4, <2>3
      <4>3. /\ f[v] = IF s0 = s THEN Debit(row[v], ledger[v]) - Net(ledger[v]) ELSE 0
            /\ g[v] = IF row'[v].student = s THEN Debit(row'[v], ledger'[v]) - Net(ledger'[v]) ELSE 0
        BY DEF OffOf
      <4> HIDE DEF f, g, total, s0
      <4> QED BY <1>6, <2>2, <4>1, <4>2, <4>3
    <3>5. dt \in Int
      BY <1>6
    <3> HIDE DEF f, g, dt
    <3>6. SumFunctionOnSet(g, Vouchers) = SumFunctionOnSet(f, Vouchers) + (g[v] - f[v])
      <4>1. \A u \in Vouchers : f[u] \in Int /\ g[u] \in Int
        BY <3>1, <3>2
      <4>2. v \in Vouchers /\ IsFiniteSet(Vouchers)
        BY <1>2
      <4> QED BY ONLY <3>3, <4>1, <4>2, SumChange
    <3>7. SumV(OffOf(row', ledger', s)) = SumV(OffOf(row, ledger, s)) + dt
      <4>1. g[v] - f[v] = dt
        BY <3>1, <3>4, <3>5
      <4> QED BY <3>6, <4>1 DEF SumV, f, g
    <3>8. SumV(PaidOf(row, received, s)) \in Int
      BY <1>2, Paid
    <3>9. Shifts(s, 0, dt)
      BY <1>7, <2>4, <3>7, <3>8 DEF Shifts
    <3> QED BY <3>9 DEF dt
  <2>6. received[v] = 0
    <3> DEFINE f == TakenBy(payments, v)
    <3>1. \A p \in Payments : f[p] = 0
      BY <1>1 DEF TookMoney, Standing, TakenBy
    <3>2. received[v] = SumFunctionOnSet(f, Payments)
      BY DEF AccInv, Counted, SumP
    <3> HIDE DEF f
    <3> QED BY <1>2, <3>1, <3>2, SumZero
  <2>7. total <= DueFrom(s0)
    BY <1>6, <2>1, <2>6, OneOfMany
  <2>8. /\ Shifts(s0, 0, total) /\ \A t \in Students \ {s0} : Shifts(t, 0, 0)
    BY <1>6, <2>5
  <2> HIDE DEF total, s0
  <2>9. CASE total = 0
    <3>1. ASSUME NEW s \in Students PROVE Bills(s)
      <4>1. Shifts(s, 0, 0)
        BY <2>8, <2>9
      <4>2. /\ SumV(BillOf(row, ledger, s)) \in Nat
            /\ SumV(PaidOf(row, received, s)) \in Int
            /\ SumV(OffOf(row, ledger, s)) \in Int
        BY <1>2, Billed, Paid
      <4> QED BY <4>1, <4>2 DEF Shifts, Bills
    <3> QED BY <1>5, <1>8, <3>1 DEF AccountKept, AccountStep
  <2>10. CASE total # 0
    <3>1. total >= 1 /\ total \in Int /\ 0 \in Int
      BY <1>6, <2>10
    <3> QED BY <1>5, <1>6, <1>8, <2>7, <2>8, <3>1 DEF AccountKept, AccountStep
  <2> QED BY <2>9, <2>10
<1> QED BY <1>10, <1>11

\* Fines charge more and forgive nothing: each is a challan debited in full.
LEMMA FinesKeepAccount ==
  ASSUME AccInv, ApplyLateFees
  PROVE  AccountKept
<1>1. Rules /\ row \in [Vouchers -> Row] /\ ledger \in [Vouchers -> [VoucherEntries -> Int]]
      /\ received \in [Vouchers -> Int] /\ IsFiniteSet(Vouchers)
  BY TypesOfRules, RowsAssumption DEF AccInv
<1>2. PICK minted \in SUBSET Vouchers :
        /\ \A v \in minted : row[v].status = "none"
        /\ \A v \in minted :
             /\ \E w \in Vouchers : OnAccount(row[w]) /\ row'[v].student = row[w].student
             /\ \E fine \in Fines :
                  /\ row'[v].lines = LinesOf(fine, 0, 0)
                  /\ ledger'[v] = [ledger[v] EXCEPT !["late_fee"] = @ + fine]
        /\ \A v \in Vouchers \ minted : row'[v] = row[v] /\ ledger'[v] = ledger[v]
        /\ UNCHANGED <<payments, received, movement, adjusted>>
  BY <1>1, FinesMinted
<1>3. row' \in [Vouchers -> Row] /\ ledger' \in [Vouchers -> [VoucherEntries -> Int]]
  BY <1>1, LateFeesKeepIInv DEF Rules, IInv, TypeOK
<1>4. Families(row')
  <2> SUFFICES ASSUME NEW v \in Vouchers, row'[v].status # "none"
               PROVE  row'[v].student \in Students
    BY DEF Families
  <2>1. CASE v \in minted
    BY <1>2, <2>1 DEF AccInv, Families, OnAccount
  <2>2. CASE v \notin minted
    BY <1>2, <2>2 DEF AccInv, Families
  <2> QED BY <2>1, <2>2
<1>5. ASSUME NEW v \in minted
      PROVE  /\ Debit(row[v], ledger[v]) = 0 /\ Net(ledger[v]) = 0 /\ received[v] = 0
             /\ \A p \in Payments : payments[p].voucher = v => Moved(movement[p]) = 0
             /\ Debit(row'[v], ledger'[v]) \in Nat
             /\ Debit(row'[v], ledger'[v]) - Net(ledger'[v]) = 0
  <2>1. v \in Vouchers /\ row[v].status = "none"
    BY <1>2
  <2>2. /\ ~HasDebit(ledger[v]) /\ Net(ledger[v]) = 0 /\ received[v] = 0
        /\ \A p \in Payments : payments[p].voucher = v => Moved(movement[p]) = 0
    BY <1>1, <2>1, NothingYet
  <2>3. /\ ledger[v]["charge"] = 0 /\ ledger[v]["late_fee"] = 0
        /\ ledger[v]["voucher_voided"] = 0
    BY <1>1, <2>1 DEF Rules, IInv, Books
  <2>4. PICK fine \in Fines : /\ row'[v].lines = LinesOf(fine, 0, 0)
                              /\ ledger'[v] = [ledger[v] EXCEPT !["late_fee"] = @ + fine]
    BY <1>2
  <2>5. fine \in Nat /\ fine # 0
    BY AmountsAssumption
  <2>6. /\ ledger'[v]["charge"] = 0 /\ ledger'[v]["late_fee"] = fine
        /\ ledger'[v]["voucher_voided"] = 0
    BY <1>1, <2>1, <2>3, <2>4, <2>5 DEF VoucherEntries
  <2>7. HasDebit(ledger'[v]) /\ Net(ledger'[v]) = fine
    BY <2>5, <2>6 DEF HasDebit, Net
  <2>8. OwnCharge(row'[v]) = fine
    BY <2>4, <2>5 DEF OwnCharge, LinesOf, Lines
  <2> QED BY <2>2, <2>5, <2>7, <2>8 DEF Debit
<1>6. ASSUME NEW s
      PROVE  /\ PaidOf(row', received', s) = PaidOf(row, received, s)
             /\ MoveOf(row', payments', movement', s) = MoveOf(row, payments, movement, s)
             /\ OffOf(row', ledger', s) = OffOf(row, ledger, s)
  <2>1. PaidOf(row', received', s) = PaidOf(row, received, s)
    <3>1. ASSUME NEW v \in Vouchers
          PROVE  PaidOf(row', received', s)[v] = PaidOf(row, received, s)[v]
      BY <1>2, <1>5 DEF PaidOf
    <3> QED BY <3>1 DEF PaidOf
  <2>2. MoveOf(row', payments', movement', s) = MoveOf(row, payments, movement, s)
    <3>1. ASSUME NEW p \in Payments
          PROVE  MoveOf(row', payments', movement', s)[p] = MoveOf(row, payments, movement, s)[p]
      <4>1. payments[p].voucher \in minted => Moved(movement[p]) = 0
        BY <1>5
      <4>2. payments[p].voucher \in Vouchers \ minted =>
              row'[payments[p].voucher] = row[payments[p].voucher]
        BY <1>2
      <4> QED BY <1>2, <4>1, <4>2 DEF MoveOf
    <3> QED BY <3>1 DEF MoveOf
  <2>3. OffOf(row', ledger', s) = OffOf(row, ledger, s)
    <3>1. ASSUME NEW v \in Vouchers
          PROVE  OffOf(row', ledger', s)[v] = OffOf(row, ledger, s)[v]
      <4>1. CASE v \in minted
        <5>1. Debit(row[v], ledger[v]) - Net(ledger[v]) = 0
          BY <1>5, <4>1
        <5> QED BY <1>5, <4>1, <5>1 DEF OffOf
      <4>2. CASE v \notin minted
        BY <1>2, <4>2 DEF OffOf
      <4> QED BY <4>1, <4>2
    <3> QED BY <3>1 DEF OffOf
  <2> QED BY <2>1, <2>2, <2>3
<1>7. Counted'
  BY <1>2 DEF AccInv, Counted
<1>8. Matched'
  BY <1>6 DEF AccInv, Matched
<1>9. ASSUME NEW s \in Students PROVE Bills(s)
  <2> DEFINE b == BillOf(row, ledger, s)
             c == BillOf(row', ledger', s)
  <2>1. \A v \in Vouchers : b[v] \in Nat
    BY <1>1, VoucherTerms
  <2>2. \A v \in Vouchers : c[v] \in Nat
    BY <1>3, VoucherTerms
  <2>3. \A v \in Vouchers : b[v] \in Int /\ c[v] \in Int /\ b[v] <= c[v]
    <3> SUFFICES ASSUME NEW v \in Vouchers
                 PROVE  b[v] \in Int /\ c[v] \in Int /\ b[v] <= c[v]
      OBVIOUS
    <3>1. b[v] = c[v] \/ b[v] = 0
      BY <1>2, <1>5 DEF BillOf
    <3>2. b[v] \in Nat /\ c[v] \in Nat
      BY <2>1, <2>2
    <3> HIDE DEF b, c
    <3> QED BY <3>1, <3>2
  <2> HIDE DEF b, c
  <2>4. SumFunctionOnSet(b, Vouchers) <= SumFunctionOnSet(c, Vouchers)
    BY <1>1, <2>3, SumLeq
  <2>5. SumFunctionOnSet(b, Vouchers) \in Int /\ SumFunctionOnSet(c, Vouchers) \in Int
    BY <1>1, <2>3, SumInt
  <2> QED BY <1>6, <2>4, <2>5 DEF Bills, SumV, b, c
<1> QED BY <1>4, <1>7, <1>8, <1>9 DEF AccountKept, AccountStep

\* Editing a draft, the calendar and a correction of the ledger move no figure.
LEMMA EditKeepsAccount ==
  ASSUME AccInv, NEW v \in Vouchers, NEW line \in Lines, NEW amount \in Amount,
         SetLine(v, line, amount)
  PROVE  AccountKept
<1> DEFINE lines == [row[v].lines EXCEPT ![line] = amount]
           q == [row[v] EXCEPT !.lines = lines]
<1>1. /\ row[v] \in Row /\ row[v].status = "draft" /\ row[v].lines \in [Lines -> Amount]
      /\ row \in [Vouchers -> Row]
  BY TotalType DEF SetLine, Editable, AccInv, Rules, IInv, TypeOK
<1>2. row' = [row EXCEPT ![v] = q] /\ UNCHANGED <<payments, received, ledger, movement>>
  BY <1>1 DEF SetLine, Row
<1>3. lines \in [Lines -> Amount]
  BY <1>1
<1> HIDE DEF lines
<1>4. q \in Row /\ q.status = "draft" /\ q.student = row[v].student
  BY <1>1, <1>3 DEF Row
<1> HIDE DEF q
<1>5. row' \in [Vouchers -> Row] /\ \A u \in Vouchers : row'[u] = IF u = v THEN q ELSE row[u]
  BY <1>1, <1>2, <1>4
<1>6. Families(row')
  BY <1>1, <1>4, <1>5 DEF AccInv, Families
<1>7. /\ \A u \in Vouchers : row[u].status # "none" => row'[u].student = row[u].student
      /\ \A u \in Vouchers : row[u].status \notin {"none", "draft"} => row'[u].lines = row[u].lines
  BY <1>1, <1>4, <1>5
<1> QED BY <1>2, <1>5, <1>6, <1>7, StaysPut

\* So does the calendar,
LEMMA DueDateKeepsAccount ==
  ASSUME AccInv, NEW v \in Vouchers, DueDatePasses(v)
  PROVE  AccountKept
<1> DEFINE q == [row[v] EXCEPT !.pastDue = TRUE]
<1>1. /\ row' = [row EXCEPT ![v] = q] /\ row[v] \in Row /\ row \in [Vouchers -> Row]
      /\ UNCHANGED <<payments, received, ledger, movement>>
  BY DEF DueDatePasses, AccInv, Rules, IInv, TypeOK
<1>2. /\ q \in Row /\ q.status = row[v].status /\ q.lines = row[v].lines
      /\ q.student = row[v].student
  BY <1>1 DEF Row
<1> HIDE DEF q
<1>3. row' \in [Vouchers -> Row] /\ \A u \in Vouchers : row'[u] = IF u = v THEN q ELSE row[u]
  BY <1>1, <1>2
<1>4. Families(row')
  BY <1>2, <1>3 DEF AccInv, Families
<1>5. /\ \A u \in Vouchers : row[u].status # "none" => row'[u].student = row[u].student
      /\ \A u \in Vouchers : row[u].status \notin {"none", "draft"} => row'[u].lines = row[u].lines
  BY <1>2, <1>3
<1> QED BY <1>1, <1>3, <1>4, <1>5, StaysPut

\* and a correction, which names no challan and no receipt.
LEMMA NothingKeepsAccount ==
  ASSUME AccInv, UNCHANGED <<row, payments, received, ledger, movement>>
  PROVE  AccountKept
<1>1. row' \in [Vouchers -> Row] /\ Families(row')
  BY DEF AccInv, Rules, IInv, TypeOK
<1> QED BY <1>1, StaysPut

\* Every step of the office is one step of its accounts, or none.
LEMMA NextKeepsAccount ==
  ASSUME ~EditsCarriedLine, AccInv, [Next]_vars
  PROVE  AccountKept
<1>1. ASSUME NEW asked \in SUBSET Students, NEW period \in Periods,
             NEW stationery \in Stationery, NEW carry \in BOOLEAN, NEW issue \in BOOLEAN,
             GenerateVouchers(asked, period, stationery, carry, issue)
      PROVE  AccountKept
  BY <1>1, GenerateKeepsAccount
<1>2. ASSUME NEW v \in Vouchers, IssueVoucher(v) \/ VoidVoucher(v) \/ DueDatePasses(v)
      PROVE  AccountKept
  BY <1>2, IssueKeepsAccount, VoidKeepsAccount, DueDateKeepsAccount
<1>3. /\ Charges \subseteq Amount /\ 0 \in Amount /\ "stationery" \in Lines
  BY AmountsAssumption, ZeroIsAmount DEF Amount, Lines
<1>4. ASSUME NEW v \in Vouchers,
             \/ RemoveVoucherCharge(v)
             \/ \E amount \in Charges : AddVoucherCharge(v, amount)
             \/ \E line \in Lines : \/ RemoveVoucherFeeCharge(v, line)
                                     \/ \E amount \in Charges : AddVoucherFeeCharge(v, line, amount)
      PROVE  AccountKept
  <2>1. PICK line \in Lines, amount \in Amount : SetLine(v, line, amount)
    BY <1>3, <1>4 DEF AddVoucherCharge, RemoveVoucherCharge, AddVoucherFeeCharge,
                      RemoveVoucherFeeCharge
  <2> QED BY <2>1, EditKeepsAccount
<1>5. ASSUME NEW p \in Payments, NEW v \in Vouchers, NEW amount \in Charges,
             RecordPayment(p, v, amount)
      PROVE  AccountKept
  BY <1>5, PaymentKeepsAccount
<1>6. ASSUME NEW p \in Payments, ReversePayment(p) PROVE AccountKept
  BY <1>6, ReversalKeepsAccount
<1>7. CASE ApplyLateFees
  BY <1>7, FinesKeepAccount
<1>8. ASSUME NEW s \in Students, NEW amount \in Adjustments, AdjustLedger(s, amount)
      PROVE  AccountKept
  BY <1>8, NothingKeepsAccount DEF AdjustLedger
<1>9. CASE UNCHANGED vars
  BY <1>9, NothingKeepsAccount DEF vars
<1> QED BY <1>1, <1>2, <1>4, <1>5, <1>6, <1>7, <1>8, <1>9 DEF Next

\* Nobody has an account before the first challan.
LEMMA InitFigures ==
  ASSUME Init, NEW s
  PROVE  /\ SumV(BillOf(row, ledger, s)) = 0 /\ SumV(OffOf(row, ledger, s)) = 0
         /\ SumV(PaidOf(row, received, s)) = 0 /\ SumP(MoveOf(row, payments, movement, s)) = 0
<1> DEFINE b == BillOf(row, ledger, s)
           f == OffOf(row, ledger, s)
           g == PaidOf(row, received, s)
           m == MoveOf(row, payments, movement, s)
<1>1. /\ \A v \in Vouchers : /\ ledger[v] = [t \in VoucherEntries |-> 0]
                             /\ received[v] = 0
      /\ \A p \in Payments : movement[p] = [t \in ReceiptEntries |-> 0]
      /\ IsFiniteSet(Vouchers) /\ IsFiniteSet(Payments)
  BY RowsAssumption DEF Init
<1>2. \A v \in Vouchers : ~HasDebit(ledger[v]) /\ Net(ledger[v]) = 0
  BY <1>1 DEF HasDebit, Net, VoucherEntries
<1>3. \A p \in Payments : Moved(movement[p]) = 0
  BY <1>1 DEF Moved, ReceiptEntries
<1>4. \A v \in Vouchers : b[v] = 0 /\ f[v] = 0 /\ g[v] = 0
  BY <1>1, <1>2 DEF BillOf, OffOf, PaidOf, Debit
<1>5. \A p \in Payments : m[p] = 0
  BY <1>3 DEF MoveOf
<1> HIDE DEF b, f, g, m
<1>6. SumFunctionOnSet(b, Vouchers) = 0
  BY <1>1, <1>4, SumZero
<1>7. SumFunctionOnSet(f, Vouchers) = 0
  BY <1>1, <1>4, SumZero
<1>8. SumFunctionOnSet(g, Vouchers) = 0
  BY <1>1, <1>4, SumZero
<1>9. SumFunctionOnSet(m, Payments) = 0
  BY <1>1, <1>5, SumZero
<1> QED BY <1>6, <1>7, <1>8, <1>9 DEF SumV, SumP, b, f, g, m

\* The invariant of the account holds of an empty office,
LEMMA InitAccInv == Init => AccInv
<1> SUFFICES ASSUME Init PROVE AccInv
  OBVIOUS
<1>1. Rules /\ Carry(row)
  BY InitRules, InitCarries
<1>2. Families(row)
  BY DEF Init, NoRow, Families
<1>3. Counted
  <2> SUFFICES ASSUME NEW v \in Vouchers PROVE received[v] = SumP(TakenBy(payments, v))
    BY DEF Counted
  <2> DEFINE f == TakenBy(payments, v)
  <2>1. \A p \in Payments : f[p] = 0
    BY DEF Init, NoReceipt, TakenBy
  <2>2. received[v] = 0 /\ IsFiniteSet(Payments)
    BY RowsAssumption DEF Init
  <2> HIDE DEF f
  <2>3. SumFunctionOnSet(f, Payments) = 0
    BY <2>1, <2>2, SumZero
  <2> QED BY <2>2, <2>3 DEF SumP, f
<1>4. Matched
  BY InitFigures DEF Matched
<1>5. LetOff
  BY InitFigures DEF LetOff
<1> QED BY <1>1, <1>2, <1>3, <1>4, <1>5 DEF AccInv

\* and every step keeps it.
LEMMA AccInvKept ==
  ASSUME ~EditsCarriedLine, AccInv, [Next]_vars
  PROVE  AccInv'
<1>1. Rules'
  BY NextIInv, NextIsAStep DEF AccInv, Rules, Step, Sound, Pointing, Distinct, OnAccount
<1>2. Carry(row)'
  BY NextCarries DEF AccInv, Carry, Held, Headed, Carries, SumTotals, Reserved, Total, OwnCharge
<1>3. AccountStep /\ Families(row') /\ Counted' /\ Matched'
  BY NextKeepsAccount DEF AccountKept
<1>4. Families(row)'
  BY <1>3 DEF Families
<1>5. LetOff'
  <2> SUFFICES ASSUME NEW s \in Students PROVE SumV(OffOf(row', ledger', s)) \in Nat
    BY DEF LetOff
  <2> DEFINE x == SumV(OffOf(row, ledger, s))
  <2>1. x \in Nat
    BY DEF AccInv, LetOff
  <2>2. \/ SumV(OffOf(row', ledger', s)) = x
        \/ \E off \in Int : off >= 0 /\ SumV(OffOf(row', ledger', s)) = x + off
    BY <1>3 DEF AccountStep, Bills, Shifts
  <2> HIDE DEF x
  <2> QED BY <2>1, <2>2
<1> QED BY <1>1, <1>2, <1>3, <1>4, <1>5 DEF AccInv

\* The money, the reservations and the ledger agree in every reachable state.
LEMMA AccountHolds ==
  ASSUME ~EditsCarriedLine
  PROVE  Spec => []AccInv
<1>1. AccInv /\ [Next]_vars => AccInv'
  BY AccInvKept
<1> QED BY <1>1, InitAccInv, PTL DEF Spec

-----------------------------------------------------------------------------
(* The promise kept to a family.                                            *)

\* The three figures of an account, and the debt they leave.
Reckoned(s) ==
  /\ BilledTo(s) = SumV(BillOf(row, ledger, s)) /\ BilledTo(s) \in Nat
  /\ ReceivedFrom(s) = SumV(PaidOf(row, received, s)) /\ ReceivedFrom(s) \in Nat
  /\ BilledTo(s) - ReceivedFrom(s) - Owed(s) = SumV(OffOf(row, ledger, s))
  /\ SumV(OffOf(row, ledger, s)) \in Nat
  /\ Owed(s) = DueFrom(s) /\ Owed(s) \in Int
Figures == \A s \in Students : Reckoned(s)

\* The invariant gives the figures of every account.
LEMMA FiguresAgree == AccInv => Figures
<1> SUFFICES ASSUME AccInv, NEW s \in Students PROVE Reckoned(s)
  BY DEF Figures
<1> DEFINE b == SumV(BillOf(row, ledger, s))
           n == SumV(NetOf(row, ledger, s))
           o == SumV(OffOf(row, ledger, s))
           g == SumV(PaidOf(row, received, s))
           m == SumP(MoveOf(row, payments, movement, s))
<1>1. /\ row \in [Vouchers -> Row] /\ ledger \in [Vouchers -> [VoucherEntries -> Int]]
      /\ received \in [Vouchers -> Int] /\ movement \in [Payments -> [ReceiptEntries -> Int]]
      /\ IsFiniteSet(Vouchers)
  BY TypesOfRules, RowsAssumption DEF AccInv
<1>2. BilledTo(s) = b /\ b \in Nat /\ b = o + n /\ n \in Int
  BY <1>1, FiguresOfLedger, Billed
<1>3. ReceivedFrom(s) = g /\ g \in Int
  BY <1>1, FiguresOfLedger, Paid
<1>4. Owed(s) = DueFrom(s) /\ Owed(s) = n + m
  BY <1>1, FiguresOfLedger, Due DEF DueFrom
<1>5. m = -g /\ o \in Nat
  BY DEF AccInv, Matched, LetOff
<1>6. g \in Nat
  <2> DEFINE f == PaidOf(row, received, s)
  <2>1. \A v \in Vouchers : f[v] \in Nat
    BY MoneyIsThere DEF AccInv, PaidOf
  <2> HIDE DEF f
  <2>2. SumFunctionOnSet(f, Vouchers) \in Nat
    BY <1>1, <2>1, SumNat
  <2> QED BY <2>2 DEF SumV, f
<1> HIDE DEF b, n, o, g, m
<1>7. BilledTo(s) - ReceivedFrom(s) - Owed(s) = o /\ Owed(s) \in Int
  BY <1>2, <1>3, <1>4, <1>5
<1> QED BY <1>2, <1>3, <1>4, <1>5, <1>6, <1>7 DEF Reckoned, b, o, g

\* Issuing a challan cancels what it absorbs and bills it again: no family owes less for
\* it, however many challans one bill replaces.
THEOREM IssuingIsNeverForgiving ==
  ASSUME ~EditsCarriedLine
  PROVE  Spec => IssuingForgivesNothing
<1>1. AccInv /\ Figures /\ Figures' /\ [Next]_vars =>
        [(\E v \in Vouchers : IssueVoucher(v)) => \A s \in Students : Owed(s)' >= Owed(s)]_vars
  <2> SUFFICES ASSUME AccInv, Figures, Figures', NEW v \in Vouchers, IssueVoucher(v),
                      NEW s \in Students
               PROVE  Owed(s)' >= Owed(s)
    OBVIOUS
  <2>1. Bills(s)
    BY IssueKeepsAccount
  <2> DEFINE b == SumV(BillOf(row, ledger, s))
             c == SumV(BillOf(row', ledger', s))
             g == SumV(PaidOf(row, received, s))
             o == SumV(OffOf(row, ledger, s))
  <2>2. /\ b \in Nat /\ g \in Nat /\ o \in Nat /\ Owed(s) \in Int /\ b - g - Owed(s) = o
    BY DEF Figures, Reckoned
  <2>3. c \in Nat /\ Owed(s)' \in Int /\ c - g - Owed(s)' = o
    BY <2>1 DEF Figures, Reckoned, Bills
  <2>4. c >= b
    BY <2>1 DEF Bills
  <2> HIDE DEF b, c, g, o
  <2> QED BY <2>2, <2>3, <2>4
<1> QED BY <1>1, AccountHolds, FiguresAgree, PTL DEF Spec, IssuingForgivesNothing

\* The accounts start empty.
LEMMA AccountInit ==
  ASSUME Init, Figures
  PROVE  Account!Init
<1>1. ASSUME NEW s \in Students
      PROVE  BilledTo(s) = 0 /\ ReceivedFrom(s) = 0
             /\ BilledTo(s) - ReceivedFrom(s) - Owed(s) = 0
  BY InitFigures DEF Figures, Reckoned
<1> QED BY <1>1 DEF Account!Init

\* A step of the accounts is one of the steps FamilyAccount allows.
LEMMA AccountMoves ==
  ASSUME AccountStep, Figures, Figures'
  PROVE  [Account!Next]_(Account!account)
<1> DEFINE billed == [s \in Students |-> BilledTo(s)]
           got == [s \in Students |-> ReceivedFrom(s)]
           off == [s \in Students |-> BilledTo(s) - ReceivedFrom(s) - Owed(s)]
<1>1. /\ billed' \in [Students -> Nat] /\ got' \in [Students -> Nat] /\ off' \in [Students -> Nat]
      /\ \A s \in Students : billed[s] \in Nat /\ got[s] \in Nat /\ off[s] \in Nat
      /\ \A s \in Students : billed[s] - got[s] - off[s] = DueFrom(s) /\ DueFrom(s) \in Int
  <2>1. billed' \in [Students -> Nat] /\ got' \in [Students -> Nat] /\ off' \in [Students -> Nat]
    BY DEF Figures, Reckoned
  <2>2. ASSUME NEW s \in Students
        PROVE  /\ billed[s] \in Nat /\ got[s] \in Nat /\ off[s] \in Nat
               /\ billed[s] - got[s] - off[s] = DueFrom(s) /\ DueFrom(s) \in Int
    <3>1. /\ BilledTo(s) \in Nat /\ ReceivedFrom(s) \in Nat /\ Owed(s) \in Int
          /\ off[s] \in Nat /\ Owed(s) = DueFrom(s)
      BY DEF Figures, Reckoned
    <3>2. off[s] = BilledTo(s) - ReceivedFrom(s) - Owed(s)
      OBVIOUS
    <3>3. billed[s] = BilledTo(s) /\ got[s] = ReceivedFrom(s)
      OBVIOUS
    <3> HIDE DEF billed, got, off
    <3> QED BY <3>1, <3>2, <3>3
  <2> QED BY <2>1, <2>2
<1>2. ASSUME NEW s \in Students
      PROVE  /\ Bills(s) => billed'[s] >= billed[s] /\ got'[s] = got[s] /\ off'[s] = off[s]
             /\ \A paid, let \in Int : Shifts(s, paid, let) =>
                  billed'[s] = billed[s] /\ got'[s] = got[s] + paid /\ off'[s] = off[s] + let
  <2>1. /\ billed[s] = SumV(BillOf(row, ledger, s)) /\ got[s] = SumV(PaidOf(row, received, s))
        /\ off[s] = SumV(OffOf(row, ledger, s))
    BY DEF Figures, Reckoned
  <2>2. /\ billed'[s] = SumV(BillOf(row', ledger', s))
        /\ got'[s] = SumV(PaidOf(row', received', s))
        /\ off'[s] = SumV(OffOf(row', ledger', s))
    BY DEF Figures, Reckoned
  <2> HIDE DEF billed, got, off
  <2> QED BY <2>1, <2>2 DEF Bills, Shifts
<1>3. DOMAIN billed = Students /\ DOMAIN got = Students /\ DOMAIN off = Students
      /\ DOMAIN billed' = Students /\ DOMAIN got' = Students /\ DOMAIN off' = Students
      /\ billed = [s \in Students |-> billed[s]] /\ got = [s \in Students |-> got[s]]
      /\ off = [s \in Students |-> off[s]]
  OBVIOUS
<1>4. CASE \A s \in Students : Bills(s)
  <2>1. \A s \in Students : billed'[s] >= billed[s] /\ got'[s] = got[s] /\ off'[s] = off[s]
    BY <1>2, <1>4
  <2>2. got' = got /\ off' = off
    BY <2>1
  <2>3. Account!Bill
    BY <1>1, <2>1, <2>2 DEF Account!Bill, Account!Amounts
  <2> QED BY <2>3 DEF Account!Next
<1>5. ASSUME NEW s \in Students, NEW paid \in Int, NEW let \in Int, Shifts(s, paid, let),
             \A t \in Students \ {s} : Shifts(t, 0, 0),
             \/ let = 0 /\ paid < 0
             \/ let = 0 /\ paid >= 1 /\ paid <= DueFrom(s)
             \/ paid = 0 /\ let >= 1 /\ let <= DueFrom(s)
      PROVE  Account!Next
  <2>1. /\ billed'[s] = billed[s] /\ got'[s] = got[s] + paid /\ off'[s] = off[s] + let
        /\ \A t \in Students \ {s} :
             billed'[t] = billed[t] /\ got'[t] = got[t] + 0 /\ off'[t] = off[t] + 0
    BY <1>2, <1>5
  <2>2. \A t \in Students \ {s} : billed'[t] = billed[t] /\ got'[t] = got[t] /\ off'[t] = off[t]
    <3> HIDE DEF billed, got, off
    <3> QED BY <1>1, <2>1
  <2>3. billed' = billed
    BY <2>1, <2>2
  <2>4. let = 0 => off' = off
    <3>1. let = 0 => off'[s] = off[s]
      <4> HIDE DEF off
      <4> QED BY <1>1, <2>1
    <3> QED BY <2>2, <3>1
  <2>5. paid = 0 => got' = got
    <3>1. paid = 0 => got'[s] = got[s]
      <4> HIDE DEF got
      <4> QED BY <1>1, <2>1
    <3> QED BY <2>2, <3>1
  <2>6. got'[s] - got[s] = paid /\ off'[s] - off[s] = let
    <3> HIDE DEF billed, got, off
    <3> QED BY <1>1, <2>1
  <2>7. CASE let = 0 /\ paid < 0
    <3>1. got'[s] < got[s]
      <4> HIDE DEF got
      <4> QED BY <1>1, <2>1, <2>7
    <3>2. Account!Refund(s)
      BY <1>1, <2>2, <2>3, <2>4, <2>7, <3>1 DEF Account!Refund, Account!Amounts
    <3> QED BY <3>2 DEF Account!Next
  <2>8. CASE let = 0 /\ paid >= 1 /\ paid <= DueFrom(s)
    <3>1. got'[s] - got[s] \in 1..(billed[s] - got[s] - off[s])
      <4> HIDE DEF billed, got, off
      <4> QED BY <1>1, <2>6, <2>8
    <3>2. Account!Receive(s)
      BY <1>1, <2>2, <2>3, <2>4, <2>8, <3>1 DEF Account!Receive, Account!Amounts, Account!Owes
    <3> QED BY <3>2 DEF Account!Next
  <2>9. CASE paid = 0 /\ let >= 1 /\ let <= DueFrom(s)
    <3>1. off'[s] - off[s] \in 1..(billed[s] - got[s] - off[s])
      <4> HIDE DEF billed, got, off
      <4> QED BY <1>1, <2>6, <2>9
    <3>2. Account!Forgive(s)
      BY <1>1, <2>2, <2>3, <2>5, <2>9, <3>1 DEF Account!Forgive, Account!Amounts, Account!Owes
    <3> QED BY <3>2 DEF Account!Next
  <2> QED BY <1>5, <2>7, <2>8, <2>9
<1> QED BY <1>4, <1>5 DEF AccountStep

\* The challan ledger implements FamilyAccount: whatever the office drafts, issues,
\* absorbs, edits, collects, reverses, fines or voids, a family's account moves by one
\* charge, receipt, refund or cancellation at a time, and billing forgives nothing.
THEOREM OfficeKeepsAccounts ==
  ASSUME ~EditsCarriedLine
  PROVE  Spec => KeepsAccount
<1>1. Init /\ Figures => Account!Init
  BY AccountInit
<1>2. AccInv /\ Figures /\ Figures' /\ [Next]_vars => [Account!Next]_(Account!account)
  BY NextKeepsAccount, AccountMoves DEF AccountKept
<1> QED BY <1>1, <1>2, AccountHolds, FiguresAgree, PTL DEF Spec, KeepsAccount, Account!Spec
=============================================================================
