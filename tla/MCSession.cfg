SPECIFICATION PartsSpec
CONSTANTS
    Clients = {c1, c2}
    QueueCapacity = 1
    MaxTurns = 2
    Kinds = {"user", "shell"}
    Sessions = {s1, s2}
    NoSession = None
    MaxEntries = 3
    MaxBacklog = 0
    MaxRequests = 3
    MaxCheckpoints = 1
    MaxFaults = 1
    MaxStarts = 2
SYMMETRY Symmetry
INVARIANTS
    OneTurn
    SnapshotFaithful
    ShutdownSound
    NothingLost
    
    
PROPERTIES
    Once
    ImplementsContract
CHECK_DEADLOCK FALSE
