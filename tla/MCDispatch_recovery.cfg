\* A queue that is down while a run is fanned out, and a user who pauses and deletes.
SPECIFICATION RecoverySpec
CONSTANTS
    Groups = {g1, g2}
    MaxRuns = 1
    MaxRequeues = 1
    Attempts = 2
    MaxStalled = 1
    Concurrency = 2
    DailyCap = 2
    MaxText = 1
    Faults = {"enqueue"}
    Stimuli = {"age", "delete", "pause", "reconcile"}
    None = None
    LostHolder = LostHolder
PROPERTIES
    EventuallySettled
\* The fan-outs of the instance are used up: everything may be done.
CHECK_DEADLOCK FALSE
