SPECIFICATION Spec
CONSTANTS
  Bills <- Two
  Family <- OneFamily
  Period <- EachItsOwn
  Spare <- SpareOf
  Own <- OwnOf
  Due <- DueOf
  Instalment = 9
  Policies <- OnlyOnce
  MaxRevisions = 1
  BatchLimit = 1
  LastDay = 3
  NoBill = NoBill
  NoCap = NoCap
  NoPolicy = NoPolicy
PROPERTY NobodyOverlooked
CHECK_DEADLOCK FALSE
