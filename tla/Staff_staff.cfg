SPECIFICATION Spec
CONSTANTS
  People = {founder, ann, ben}
  Founder = founder
  Codes = {read, write}
  Seats = 2
  Requests = {r1, r2}
  NoOne = NoOne
  MaxRows = 5
  MaxLinks = 2
  MaxRequests = 5
INVARIANTS SeatsAreHeld NeverOrphaned RevokedAtOnce
CHECK_DEADLOCK FALSE
