\* Two processes on a new database; an honest client and one that is not.
SPECIFICATION Spec
CONSTANTS
  Servers = {s1, s2}
  Processes = {s1, s2}
  Nobody = Nobody
  Nowhere = Nobody
  Clients = {hook, other}
  Honest = {hook}
  MaxTries = 2
  MaxMishaps = 2
  MaxVisits = 1
INVARIANTS TypeOK SchemaWhole LoserFindsSchema ServedFromWholeSchema
PROPERTIES EveryServerUp HonestIsServed
\* When every process has lost its pipe nothing is left to do.
CHECK_DEADLOCK FALSE
