SPECIFICATION FairSpec
CONSTANTS
  Trialled = {starter}
  Plain = {free}
  Keys = {k1}
  Requests = {r1, r2}
  Webhooks = {h1, h2}
  Never = Never
  Trial = 1
  Grace = 1
  Notice = 1
  PastDueGrace = 1
  Period = 1
  Retention = 1
  MaxEvents = 2
  MaxTrouble = 1
INVARIANTS EndedMeansClosed ChangedOnce
PROPERTIES DeletedAfterWarning TrialsEnd
CHECK_DEADLOCK FALSE
