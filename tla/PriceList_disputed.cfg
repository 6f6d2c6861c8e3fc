\* Each of these is violated; TLC stops at the first one named, so name one at a time.
SPECIFICATION PricesSpec
CONSTANTS
  Heads = {tuition}
  Articles = {books}
  Schemes = {staff}
  Students = {ann}
  Sums = {1, 3}
  Percents = {50}
  Requests = {r1}
  None = None
  MaxRequests = 3
INVARIANT NobodyStopsTheClass
\* INVARIANT ArrangementsReturn
\* INVARIANT StructuresReturn
\* INVARIANT ActiveIsPriced
CHECK_DEADLOCK FALSE
