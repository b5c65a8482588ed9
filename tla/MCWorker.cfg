SPECIFICATION WorkerSpec
CONSTANTS
    Moving = {"quota", "free"}
    Lanes = {"vt"}
    Sources = {"virustotal"}
    SourceOf <- MCSourceOf
    Mutexed = {"virustotal"}
    Daily <- OneADay
    Monthly <- OneADay
    BatchSize <- TwoAtATime
    Records = {"ip", "ip2"}
    LaneOf <- MCLaneOf
    Steady = {"ip"}
    Refreshable = {"vt"}
    Workers = {"w1"}
    Clients = {"c1"}
    RefreshAfter = 2
    AttemptCap = 1
    TicksPerDay = 1
    DaysPerMonth = 2
    MaxAge = 2
    MaxSpent = 2
    Addresses = {"a1", "a2"}
    SteadyAddresses = {"a1"}
    Hashes = {"h1"}
    Visitors = {"v1"}
    LaneBatch = 1
    FreshFor = 3
    RegistryRetry = 1
    DoublingCap = 2
    OldestAge = 4
    MaxVisits = 1
    MaxLaneFaults = 1
INVARIANTS OnePassPerLane
PROPERTIES QuotaPassesEnd SteadyAreReported LookupsKeepUp
