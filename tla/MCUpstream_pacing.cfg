\* Two requests of one session that wait for the same last send.
SPECIFICATION Spec
CONSTANTS
    Requests = {r1, r2, r3}
    Sessions = {s1}
    Members = {m1}
    None = None
    MinGap = 2
    MaxLeft = 0
    MaxGen = 0
    MaxReplace = 0
PROPERTY SessionSpacing
CHECK_DEADLOCK FALSE
