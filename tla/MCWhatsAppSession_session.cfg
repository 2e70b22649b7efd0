SPECIFICATION Spec
CONSTANTS
  Sockets = {s1, s2}
  Identities = {i1, i2}
  Calls = {c1, c2}
  MaxAttempts = 10
  MaxBoots = 0
  Stimuli = {"lost", "logout", "replaced", "connect", "disconnect", "early"}
  None = None
SYMMETRY Symmetric
INVARIANTS TypeOK StatusIsTrue LiveIsCurrent NeverStuck UnlinkedIsWiped
PROPERTY ImplementsSessionStatus
