SPECIFICATION SessionsSpec
CONSTANTS
  Holders = {ann}
  Calls = {r1, r2}
  Nobody = Nobody
  MaxFailures = 2
  MaxTries = 1
  MaxSessions = 3
  MaxEvents = 3
SYMMETRY Alike
INVARIANT ReplayEndsFamily
CHECK_DEADLOCK FALSE
