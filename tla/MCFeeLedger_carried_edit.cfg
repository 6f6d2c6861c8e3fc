SPECIFICATION Spec
CONSTANTS
  Students = {s1}
  Periods = {may, june}
  Vouchers = {v1, v2}
  Payments = {p1}
  Fees = {2}
  Stationery = {0,1}
  Charges = {1}
  Fines = {1}
  Adjustments <- NoCorrections
  MaxAmount = 5
  MaxAdjusted = 1
  EditsCarriedLine = TRUE
  NoStudent = NoStudent
  NoVoucher = NoVoucher
  NoPeriod = NoPeriod
SYMMETRY Identities
PROPERTY IssuingForgivesNothing
CHECK_DEADLOCK FALSE
