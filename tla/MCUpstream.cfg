\* Safety: two accounts, two requests of one session or none.
SPECIFICATION Spec
CONSTANTS
    Requests = {r1, r2}
    Sessions = {s1}
    Members = {m1, m2}
    None = None
    MinGap = 2
    MaxLeft = 1
    MaxGen = 1
    MaxReplace = 2
SYMMETRY Symmetric
CONSTRAINT ReplacesOfOne
INVARIANTS TypeOK SessionsStick NeverSubmitsTwice RetryHasNewToken
PROPERTIES SpacedUnlessOvertaken MembersAreSources
\* Every request answered is the end.
CHECK_DEADLOCK FALSE
