\* Ticks of 10 s. A hold is at most 20 s (jitter of 5 to 10 s, as .env.example sets) or at most
\* 70 s (jitter of up to 60 s, as the code defaults to) against a TTL of 30 s and a patience of
\* 180 s, with owners that die or fail to release.
SPECIFICATION FairSpec
CONSTANTS
    Workers = {w1, w2, w3}
    TTL = 3
    Holds = {2, 7}
    Patience = 18
    NoOne = NoOne
    Ghost = Ghost
INVARIANTS
    TypeOK
    OneSender
    LeaseHonoured
PROPERTY
    KeyExpires
