\* Liveness: one account, no symmetry.
SPECIFICATION FairSpec
CONSTANTS
    Requests = {r1, r2}
    Sessions = {s1}
    Members = {m1}
    None = None
    MinGap = 2
    MaxLeft = 0
    MaxGen = 1
    MaxReplace = 1
PROPERTY RequestsAnswered
\* Every request answered is the end.
CHECK_DEADLOCK FALSE
