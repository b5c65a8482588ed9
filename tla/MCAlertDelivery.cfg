SPECIFICATION FairDelivery
CONSTANTS
    Keys = {"k1"}
    Rules = {"threat_feed"}
    Addrs = {}
    KeyRule <- MCKeyRule
    KeyAddrs <- MCKeyAddrs
    FindingSevs = {"info", "warning"}
    Patterns = {}
    NamePatterns = {}
    Covers <- MCCovers
    Retentions <- JustDefault
    DefaultRetention <- MCDefault
    RenotifyAfter = 1
    Evaluators = {"tick"}
    Ticker = "tick"
    Clients = {}
    Maintenance = "maintenance"
    MaxId = 1
    MaxAge = 2
    Channels = {"ntfy", "smtp"}
    Digest = 0
    QuietFrom = 2
    QuietTo = 1
    HoursPerDay = 3
    ConfigSeverity = "warning"
    ChosenSeverities = {"critical"}
    Drainer = "drainer"
INVARIANTS NotifiedWereDelivered
PROPERTIES QueuedAlertsAreDelivered
