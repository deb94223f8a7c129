\* A hook that reads a half-written record removes the finished one.
SPECIFICATION Spec
CONSTANTS
  Pids = {p1, p2}
  outer = outer
  inner = inner
  Sessions <- BothSessions
  Hooks = {outer, inner}
  Chain <- Nested
  Wrapped = {outer}
  SessionIds = {inner}
  Nobody = Nobody
  MaxServers = 2
SYMMETRY PidSymmetry
INVARIANT LiveRecordKept
