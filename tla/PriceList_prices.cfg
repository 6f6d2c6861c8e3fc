SPECIFICATION PricesSpec
CONSTANTS
  Heads = {tuition}
  Articles = {books}
  Schemes = {staff}
  Students = {ann}
  Sums = {1, 3}
  Percents = {50}
  Requests = {r1, r2}
  None = None
  MaxRequests = 3
INVARIANTS NothingPricedIsGone ClassIsBillable
CHECK_DEADLOCK FALSE
