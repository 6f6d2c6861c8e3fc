SPECIFICATION Spec
CONSTANTS
  Requests <- Two
  Crowds <- All
  Job <- PayAndVoid
  Vouchers <- One
  Own <- OneEach
  Reserves <- Free
  Billed = {1}
  Receipts <- One
  Slip <- SlipsOfOne
  Banked = {}
  MaxAmount = 9
  NoVoucher = NoVoucher
INVARIANT VoidHoldsNoMoney
CHECK_DEADLOCK FALSE
