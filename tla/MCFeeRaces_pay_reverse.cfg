SPECIFICATION Spec
CONSTANTS
  Requests <- Two
  Crowds <- All
  Job <- PayAndUndo
  Vouchers <- Two
  Own <- TwoEach
  Reserves <- Free
  Billed = {1, 2}
  Receipts <- Three
  Slip <- SlipsOfSecond
  Banked = {3}
  MaxAmount = 9
  NoVoucher = NoVoucher
INVARIANT PaidIsReceipts
CHECK_DEADLOCK FALSE
