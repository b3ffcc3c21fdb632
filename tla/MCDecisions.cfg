SPECIFICATION Spec
CONSTANTS
    None = None
    Words <- MCWords
    Nil = Nil
    Families <- MCFamilies
    Keys <- MCKeys
    OAuthTokens = {"oat"}
    Uuids = {"uuid"}
    CCText <- MCCCText
    Dictionary <- MCDictionary
    ToolTriggers = {"search", "view"}
    Aliases <- MCAliases
    NewLine = "newline"
    Ips = {"ip1", "ip2"}
    Rate = 1
    Burst = 4
    Cost = 2
    IdleEvict = 5
    SweepSize = 2
    FailuresBeforeAlert = 3
    MaxSeen = 4
    Operators = {"op1", "op2"}
    KeyNames <- MCKeyNames
    Accounts = {"acc1", "acc2"}
    Unknown = "acc0"
    Worlds <- MCWorlds
INVARIANTS CallersSeeTheirNames OnlyAcceptableLeaves MonitorsTellOnce BucketsAreExact ReportsAreTrue
CHECK_DEADLOCK FALSE
