SPECIFICATION Spec
CONSTANTS
  Requests <- Six
  Crowds <- AnyThree
  Job <- Office
  Vouchers <- Three
  Own <- TwoEach
  Reserves <- HoldsBoth
  Billed = {1, 2}
  Receipts <- Three
  Slip <- SlipsOfDay
  Banked = {3}
  MaxAmount = 9
  NoVoucher = NoVoucher
INVARIANTS PaidIsReceipts RunningBalance ChargedOnce
PROPERTY AllAnswered
CHECK_DEADLOCK FALSE
