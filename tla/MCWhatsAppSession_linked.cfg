SPECIFICATION FairSpec
CONSTANTS
  Sockets = {s1, s2}
  Identities = {i1, i2}
  Calls = {c1, c2}
  MaxAttempts = 10
  MaxBoots = 1
  Stimuli = {"lost", "logout", "replaced", "disconnect", "database", "early"}
  None = None
PROPERTY LinkedConnects
