SPECIFICATION Spec
CONSTANTS
    c1 = c1
    c2 = c2
    r1 = r1
    r2 = r2
    None = None
    Callers <- MCCallers
    Attempts <- MCAttempts
    Life = 3
    Margin = 1
    EnvExpiry = 2
    MaxTime = 1
    MaxReplace = 1
    MaxRotation = 2
    MaxRestart = 1
INVARIANT
    ReplaceTakesEffect
