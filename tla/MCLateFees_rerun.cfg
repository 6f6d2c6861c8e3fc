SPECIFICATION Spec
CONSTANTS
  Bills <- Two
  Family <- OneFamily
  Period <- EachItsOwn
  Spare <- SpareOf
  Own <- OwnOf
  Due <- DueOf
  Instalment = 2
  Policies <- OnlyUncapped
  MaxRevisions = 1
  BatchLimit = 2
  LastDay = 3
  NoBill = NoBill
  NoCap = NoCap
  NoPolicy = NoPolicy
PROPERTY SecondPassFinesNothing
CHECK_DEADLOCK FALSE
