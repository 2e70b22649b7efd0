SPECIFICATION Spec
CONSTANTS
  Requests = {r1, r2}
  Expressions = {daily, hourly}
  Intervals = {hourly}
  Faults = {"crash", "queue", "database", "flush"}
  None = None
SYMMETRY Symmetric
INVARIANTS TypeOK FiresOnce KeylessFires
