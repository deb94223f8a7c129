\* "restarts don't replay or skip": a failed record_inbound is skipped.
SPECIFICATION Spec
CONSTANTS
  Procs = {p1}
  Msgs = {m1}
  Allowed = {m1}
  Unmapped = Unmapped
  MaxUpdates = 2
  BatchLimit = 2
  MaxBackoff = 2
INVARIANT NothingSkipped
