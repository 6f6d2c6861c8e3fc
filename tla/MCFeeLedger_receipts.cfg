SPECIFICATION Spec
CONSTANTS
  Students = {s1}
  Periods = {may, june}
  Vouchers = {v1, v2}
  Payments = {p1, p2}
  Fees = {0, 2}
  Stationery = {0}
  Charges = {1, 2}
  Fines = {1}
  Adjustments <- EitherWay
  MaxAmount = 4
  MaxAdjusted = 1
  EditsCarriedLine = FALSE
  NoStudent = NoStudent
  NoVoucher = NoVoucher
  NoPeriod = NoPeriod
SYMMETRY Identities
INVARIANTS NeverOverpaid
CHECK_DEADLOCK FALSE
