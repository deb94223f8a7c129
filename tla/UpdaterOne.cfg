\* One server process, with the real backoff cap.
SPECIFICATION LiveSpec
CONSTANTS
  Procs = {p1}
  Msgs = {m1, m3}
  Allowed = {m1}
  Unmapped = Unmapped
  MaxUpdates = 3
  BatchLimit = 2
  MaxBackoff = 30
INVARIANTS LatestRevisionKept
PROPERTIES ReplayOnlyFromResumePoint EventuallyConfirmed
