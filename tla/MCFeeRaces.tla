------------------------------ MODULE MCFeeRaces ------------------------------
(***************************************************************************)
(* FeeRaces on one family: challans 1 and 2 are bills, challan 3 a draft   *)
(* that may hold them.  Each scenario lists the requests in flight.        *)
(***************************************************************************)
EXTENDS FeeRaces

Pay(v, p) == [op |-> "pay", voucher |-> v, receipt |-> p]
Undo(v, p) == [op |-> "reverse", voucher |-> v, receipt |-> p]
Void(v) == [op |-> "void", voucher |-> v, receipt |-> 1]
Issue(v) == [op |-> "issue", voucher |-> v, receipt |-> 1]

One == {1}
Two == 1..2
Three == 1..3
OneEach == [v \in Vouchers |-> 1]
TwoEach == [v \in Vouchers |-> 2]
Free == [v \in Vouchers |-> NoVoucher]
HoldsFirst == [v \in Vouchers |-> IF v = 1 THEN 3 ELSE NoVoucher]
HoldsBoth == [v \in Vouchers |-> IF v < 3 THEN 3 ELSE NoVoucher]

\* Receipts for one challan, all of one year; and receipts for both bills.
SlipsOfOne == [p \in Receipts |-> [voucher |-> 1, amount |-> 1, book |-> 1]]
SlipsOfDay == [p \in Receipts |-> [voucher |-> IF p < 3 THEN 1 ELSE 2, amount |-> 1, book |-> 1]]

Office == <<Issue(3), Issue(3), Pay(1, 1), Pay(1, 2), Undo(2, 3), Void(3)>>
Six == 1..6
All == {Requests}
\* Requests 1 and 2 do the same, and so do 3 and 4.
AnyThree == {crowd \in SUBSET Requests : /\ Cardinality(crowd) = 3
                                         /\ 2 \in crowd => 1 \in crowd
                                         /\ 4 \in crowd => 3 \in crowd}
DoubleIssue == <<Issue(3), Issue(3)>>
PayAndVoid == <<Pay(1, 1), Void(1)>>
PayAndUndo == <<Pay(2, 1), Undo(2, 3)>>
SlipsOfSecond == [p \in Receipts |-> [voucher |-> 2, amount |-> 1, book |-> 1]]
PayTwice == <<Pay(1, 1), Pay(1, 2)>>
=============================================================================
