SPECIFICATION FairSpec
CONSTANTS
    t1 = t1
    t2 = t2
    None = None
    Tenants = {t1, t2}
    Plans <- MCPlans
INVARIANTS TypeOK OwnWritesShow ClearedStaysHidden
PROPERTIES PollingHeals StatusSettles CodeShows
CHECK_DEADLOCK FALSE
