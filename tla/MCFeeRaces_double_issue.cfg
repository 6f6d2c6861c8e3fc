SPECIFICATION Spec
CONSTANTS
  Requests <- Two
  Crowds <- All
  Job <- DoubleIssue
  Vouchers <- Three
  Own <- OneEach
  Reserves <- HoldsFirst
  Billed = {1}
  Receipts <- One
  Slip <- SlipsOfOne
  Banked = {}
  MaxAmount = 9
  NoVoucher = NoVoucher
INVARIANT CreditedOnce
CHECK_DEADLOCK FALSE
