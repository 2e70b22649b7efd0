\* Two runs under a cap of one message a day, with crashes and failing stores.
SPECIFICATION Spec
CONSTANTS
    Groups = {g1}
    MaxRuns = 2
    MaxRequeues = 1
    Attempts = 1
    MaxStalled = 1
    Concurrency = 2
    DailyCap = 1
    MaxText = 1
    Faults = {"crash", "database", "enqueue", "partial", "redis", "send"}
    Stimuli = {"midnight"}
    None = None
    LostHolder = LostHolder
INVARIANTS
    TypeOK
    SentWasDelivered
    ExclusiveSender
    CapHolds
\* The fan-outs of the instance are used up: everything may be done.
CHECK_DEADLOCK FALSE
