\* A user who resends, pauses, edits, relinks and deletes while sends fail.
SPECIFICATION Spec
CONSTANTS
    Groups = {g1, g2}
    MaxRuns = 2
    MaxRequeues = 1
    Attempts = 1
    MaxStalled = 1
    Concurrency = 1
    DailyCap = 2
    MaxText = 2
    Faults = {"send"}
    Stimuli = {"resend", "pause", "delete", "edit", "relink"}
    None = None
    LostHolder = LostHolder
SYMMETRY Symmetry
INVARIANTS
    NeverStranded
    RunKeepsText
\* The fan-outs of the instance are used up: everything may be done.
CHECK_DEADLOCK FALSE
