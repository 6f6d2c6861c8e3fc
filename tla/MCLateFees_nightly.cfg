SPECIFICATION Spec
CONSTANTS
  Bills <- Two
  Family <- OneFamily
  Period <- EachItsOwn
  Spare <- SpareOf
  Own <- OwnOf
  Due <- DueOf
  Instalment = 2
  Policies <- Either
  MaxRevisions = 2
  BatchLimit = 2
  LastDay = 3
  NoBill = NoBill
  NoCap = NoCap
  NoPolicy = NoPolicy
INVARIANTS NeverAheadOfSchedule WithinCap
PROPERTY NobodyOverlooked
CHECK_DEADLOCK FALSE
