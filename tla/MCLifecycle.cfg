SPECIFICATION Spec
CONSTANTS
    u1 = u1
    v1 = v1
    v2 = v2
    v3 = v3
    a1 = a1
    a2 = a2
    Admins = {a1, a2}
    Urls = {u1}
    None = None
    Blank = Blank
    Anything = Anything
    Versions = {v1, v2, v3}
    Loadable = {v1, v2}
    Deployments <- MCDeployments
    MaxRuns = 3
    MaxFaults = 1
    MaxChanges = 3
SYMMETRY MCSymmetry
INVARIANTS TypeOK MarkerTells AnswersHold
CHECK_DEADLOCK FALSE
