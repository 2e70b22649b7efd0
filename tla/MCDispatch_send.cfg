\* One fan-out with failing sends, a busy lock and a connection that drops.
SPECIFICATION FairSpec
CONSTANTS
    Groups = {g1, g2}
    MaxRuns = 1
    MaxRequeues = 2
    Attempts = 2
    MaxStalled = 1
    Concurrency = 2
    DailyCap = 2
    MaxText = 1
    Faults = {"send", "lockbusy"}
    Stimuli = {"connection"}
    None = None
    LostHolder = LostHolder
INVARIANTS
    AtMostOnce
    RequeuedOnce
PROPERTIES
    SentIsFinal
    ImplementsOutbox
    EventuallySettled
\* The fan-outs of the instance are used up: everything may be done.
CHECK_DEADLOCK FALSE
