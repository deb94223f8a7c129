\* Processes of three pids below the shell, five started in all.  When they have
\* all exited nothing is left to happen.
SPECIFICATION Spec
CONSTANTS
  Pids = {p1, p2, p3}
  Shell = explorer
  NoPid = NoPid
  MaxHops = 2
  MaxBirths = 5
SYMMETRY PidSymmetry
INVARIANTS TypeOK
PROPERTIES ReleasedByOwnWindow OwnWindowReleases
CHECK_DEADLOCK FALSE
