SPECIFICATION Spec
CONSTANTS
    Keys <- OneKey
    Rules = {"threat_feed"}
    Addrs = {"host"}
    KeyRule <- MCKeyRule
    KeyAddrs <- MCKeyAddrs
    FindingSevs = {"warning"}
    Patterns = {"host"}
    NamePatterns = {}
    Covers <- MCCovers
    Retentions <- JustDefault
    DefaultRetention <- MCDefault
    RenotifyAfter = 1
    Evaluators = {"tick"}
    Ticker = "tick"
    Clients = {"c1"}
    Maintenance = "maintenance"
    MaxId = 2
    MaxAge = 2
PROPERTIES TrustedNeverRaised
