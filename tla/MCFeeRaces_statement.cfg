SPECIFICATION Spec
CONSTANTS
  Requests <- Two
  Crowds <- All
  Job <- PayTwice
  Vouchers <- One
  Own <- TwoEach
  Reserves <- Free
  Billed = {1}
  Receipts <- Two
  Slip <- SlipsOfOne
  Banked = {}
  MaxAmount = 9
  NoVoucher = NoVoucher
INVARIANT TopRowIsBalance
CHECK_DEADLOCK FALSE
