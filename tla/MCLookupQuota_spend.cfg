SPECIFICATION Spec
CONSTANTS
    Lanes = {"vt"}
    Sources = {"virustotal"}
    SourceOf <- MCSourceOf
    Mutexed = {"virustotal"}
    Daily <- OneADay
    Monthly <- NoLimit
    BatchSize <- TwoAtATime
    Records = {"ip", "ip2"}
    LaneOf <- MCLaneOf
    Steady = {"ip"}
    Refreshable = {"vt"}
    Workers = {"w1"}
    Clients = {}
    RefreshAfter = 2
    AttemptCap = 1
    TicksPerDay = 1
    DaysPerMonth = 2
    MaxAge = 2
    MaxSpent = 2
INVARIANTS SpentWithinQuota
