SPECIFICATION Spec
CONSTANTS
  Trialled = {starter}
  Plain = {free}
  Keys = {k1, k2}
  Requests = {r1, r2}
  Webhooks = {h1}
  Never = Never
  Trial = 1
  Grace = 1
  Notice = 1
  PastDueGrace = 1
  Period = 1
  Retention = 1
  MaxEvents = 1
  MaxTrouble = 1
INVARIANT ChoosingEndsIt
CHECK_DEADLOCK FALSE
