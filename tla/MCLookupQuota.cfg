SPECIFICATION Spec
CONSTANTS
    Lanes = {"vt", "files"}
    Sources = {"virustotal"}
    SourceOf <- MCSourceOf
    Mutexed = {"virustotal"}
    Daily <- TwoADay
    Monthly <- ThreeAMonth
    BatchSize <- TwoAtATime
    Records = {"ip","ip2","hash"}
    LaneOf <- MCLaneOf
    Steady = {}
    Refreshable = {"vt"}
    Workers = {w1, w2}
    Clients = {"c1"}
    RefreshAfter = 2
    AttemptCap = 1
    TicksPerDay = 2
    DaysPerMonth = 2
    MaxAge = 2
    MaxSpent = 1
INVARIANTS QuotaTypeOK RecordedWithinQuota
SYMMETRY Symmetry
