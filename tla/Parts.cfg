SPECIFICATION PartsSpec
CONSTANTS
    KeyOrder <- MCKeyOrder
    Trace <- MCTrace
    Settings <- MCSettings
    KeysFile = {}
    MaxCombos = 6
    Runs = 2
    MaxFaults = 2
    Pages = 2
    Frames = 3
    Pids = {p1}
    p1 = p1
    MaxServers = 1
    Samples = 2
    RefreshInterval = 1
    StaticMaps = FALSE
    BmOrder <- MCBmOrder
    OldDirs <- MCOldDirs
    BmRuns = 2
    Kinds <- MCKinds
    Rounds = 2
    Orders <- MCOrders
    Counters = {"dtlb", "faults"}
    TraceLists = {"thp_scan", "thp_syscall"}
    Procs = {1, 2}
    Overlapping = FALSE
    MaxEvents = 4
    AgeBuckets = {"old"}
    Regions = 1
    VmaInterval = 1
    NegInterval = 2
    Warmup = 1
    IvPeriod = 2
    MatchSpan = 1
    MaxPolls = 3
    MaxScans = 1
    MaxProcess = 2
    Invocations <- MCInvocations
    Values = 2
    Iterations = 2
    MaxOutages = 1
    MaxRows = 3
    FirstParts = {9}
    RegionKeys = {1}
    VmstatEvery = 1
    MaxPasses = 3
    MaxRounds = 2
    Cpus = {0, 1}
    CountWidth = 2
    FirstRound = 9
    MaxChunks = 2
    MaxCount = 2
    MaxSamples = 2
CHECK_DEADLOCK FALSE
INVARIANTS
    
    ResultsTrusted
    PlotSound
    ManifestOwn
    
    ServerToldToStop
    
    
    ResultsLabelled
    
    
    ReadBackInOrder
    
PROPERTIES
    SettingsRestored
    PollThreadSurvives
    
