\* Each of these is violated; TLC stops at the first one named, so name one at a time.
SPECIFICATION MCSpec
CONSTANTS
  Orgs = {north, south}
  Years = {y26}
  Classes = {1, 2}
  Students = {1, 2}
  Batch = 2
  Days = 2
  Passes = {p1, p2}
  Offices = {desk}
  None = None
  FirstDate = 1
  LastDate = 2
  MaxEvents = 1
PROPERTY CaughtUp
\* PROPERTY BillsEveryStructure
CHECK_DEADLOCK FALSE
