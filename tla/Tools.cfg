\* Three calls at once, an allowed chat and another one.
SPECIFICATION Spec
CONSTANTS
  Calls = {k1, k2, k3}
  Chats = {open, closed}
  SendTargets = {open}
  None = None
  NoText = NoText
  MaxMessages = 2
  MaxRevisions = 3
SYMMETRY CallSymmetry
INVARIANTS TypeOK NothingInvented ReportedIsStored LatestWhenOrderly
