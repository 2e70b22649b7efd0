\* A fan-out larger than the cap sends nothing.
SPECIFICATION FairSpec
CONSTANTS
    Groups = {g1, g2}
    MaxRuns = 1
    MaxRequeues = 2
    Attempts = 2
    MaxStalled = 1
    Concurrency = 2
    DailyCap = 1
    MaxText = 1
    Faults = {}
    Stimuli = {}
    None = None
    LostHolder = LostHolder
PROPERTIES
    CapLetsThrough
\* The fan-outs of the instance are used up: everything may be done.
CHECK_DEADLOCK FALSE
