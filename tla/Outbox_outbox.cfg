SPECIFICATION FairSpec
CONSTANTS
  Notices = {notice}
  Alerts = {alert}
  Free = Free
  Dispatchers = {d1, d2}
  Clerks = {c1, c2}
  Limit = 1
  MaxRows = 2
  MaxLinks = 2
  MaxRequests = 2
  MaxCrashes = 1
INVARIANTS PostedOnce HistoryIsTrue PostedWhereQueued
CHECK_DEADLOCK FALSE
PROPERTY QueueDrains
