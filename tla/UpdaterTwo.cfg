\* Two server processes share the database and the bot.
SPECIFICATION Spec
CONSTANTS
  Procs = {p1, p2}
  Msgs = {m1, m3}
  Allowed = {m1}
  Unmapped = Unmapped
  MaxUpdates = 3
  BatchLimit = 2
  MaxBackoff = 2
SYMMETRY ProcSymmetry
INVARIANTS TypeOK ForgottenIsSettled ResumeIsSettled
PROPERTIES ImplementsInbox
