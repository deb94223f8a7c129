\* Two pids, two nested sessions, two servers in all.
SPECIFICATION Spec
CONSTANTS
  Pids = {p1, p2}
  outer = outer
  inner = inner
  Sessions <- BothSessions
  Hooks = {outer, inner}
  Chain <- Nested
  Wrapped = {outer}
  SessionIds = {inner}
  Nobody = Nobody
  MaxServers = 2
SYMMETRY PidSymmetry
INVARIANTS TypeOK StrangersOnlyAlone OwnServerFound StaleIsGone
