SPECIFICATION ServerSpec
CONSTANTS
    Parts = {"rules"}
    Builtin = {"scan"}
    Custom = {"mine"}
    Editors = {e1, e2}
    Edits <- SomeEdits
    Specs <- SomeSpecs
    Unset = Unset
    MinInterval = 2
    MaxInterval = 3
    DefaultInterval = 2
    Second = 2
    MaxEdits = 3
    MaxFaults = 1
    HourLen = 2
    DayLen = 4
    LookBack = 4
    Chunk = 3
    Reach = 6
    Lag = 1
    Keep = 5
    MaxNow = 6
    MaxMishaps = 1
    FeedNames = {"f1", "f2"}
    Catalogues = {"lolbas", "gtfobins"}
    Nets = {"n1", "n2", "p1"}
    Private = {"p1"}
    Bodies <- SomeBodies
    Entries = {"cmd", "CMD.EXE", "none"}
    Nameless = {"none"}
    LOLBinName <- SomeNames
    MinEntries = 2
    Every = 2
    MaxRestarts = 2
    Readers = {"udp", "tcp"}
    Lines <- SomeLines
    Types = {"alert", "dns.answer", "dns.query", "tls", "http", "flow", "other"}
    MaxTypes = 2
    HasSink = TRUE
    MaxLines = 4
    MaxRefused = 1
    HostLists = {{"a"}, {"a", "b"}}
    CaValidity = 9
    LeafValidity = 5
    RenewBefore = 2
    MaxDay = 12
    MaxStops = 3
    Migrations = 3
    Options <- SomeOptions
    MaxExits = 3
INVARIANT UpdatesPersist
CHECK_DEADLOCK FALSE
