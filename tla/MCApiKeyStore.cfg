SPECIFICATION FairSpec
CONSTANTS
    c1 = c1
    c2 = c2
    c3 = c3
    alice = alice
    bob = bob
    carol = carol
    Idle = Idle
    Names <- MCNames
    EnvNames <- MCEnvNames
    OldKeys <- MCOldKeys
    Clients <- MCClients
    Requests <- MCRequests
    StartFiles <- MCStartFiles
    MaxKeys = 2
    MaxQueue = 2
    MaxCalls = 3
    MaxCrashes = 1
INVARIANTS TypeOK MemoryMatchesDisk RevokedKeysStayDead NamesIdentifyRows DepthIsQueue
PROPERTIES KeepsContract NoWriteBeyondCap CallsAreAnswered
CHECK_DEADLOCK FALSE
