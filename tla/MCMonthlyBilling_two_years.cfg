SPECIFICATION MCSpec
CONSTANTS
  Orgs = {north, south}
  Years = {y26, y27}
  Classes = {1, 2}
  Students = {1, 2}
  Batch = 2
  Days = 2
  Passes = {p1, p2}
  Offices = {desk}
  None = None
  FirstDate = 1
  LastDate = 2
  MaxEvents = 1
INVARIANT OncePerMonth
CHECK_DEADLOCK FALSE
