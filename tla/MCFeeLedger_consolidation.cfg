SPECIFICATION Spec
CONSTANTS
  Students = {s1}
  Periods = {may, june, july}
  Vouchers = {v1, v2, v3}
  Payments = {p1}
  Fees = {1}
  Stationery = {0}
  Charges = {1}
  Fines = {1}
  Adjustments <- Downwards
  MaxAmount = 4
  MaxAdjusted = 1
  EditsCarriedLine = FALSE
  NoStudent = NoStudent
  NoVoucher = NoVoucher
  NoPeriod = NoPeriod
SYMMETRY Identities
CONSTRAINT FewCorrected
INVARIANTS LedgerAgrees VoidHoldsNoMoney NothingStranded CarriedIsWhatItReplaces
PROPERTIES IssuedBillsAreFinal IssuingForgivesNothing KeepsAccount
CHECK_DEADLOCK FALSE
