\* The run-completeness loop over relinked groups of a schedule that may be deleted, while Redis
\* errors end jobs. No worker reschedules here, so no job has an id of its own: MaxRequeues is 0.
SPECIFICATION Spec
CONSTANTS
    Groups = {g1, g2}
    MaxRuns = 2
    MaxRequeues = 0
    Attempts = 1
    MaxStalled = 1
    Concurrency = 1
    DailyCap = 4
    MaxText = 1
    Faults = {"redis"}
    Stimuli = {"age", "delete", "relink", "repair"}
    None = None
    LostHolder = LostHolder
SYMMETRY Symmetry
INVARIANTS
    AtMostOnce
\* The fan-outs of the instance are used up: everything may be done.
CHECK_DEADLOCK FALSE
