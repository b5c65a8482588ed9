SPECIFICATION Spec
CONSTANTS
    Keys = {"k1", "k2"}
    Rules = {"threat_feed"}
    Addrs = {"host", "peer"}
    KeyRule <- MCKeyRule
    KeyAddrs <- MCKeyAddrs
    FindingSevs = {"warning"}
    Patterns = {"peer"}
    NamePatterns = {}
    Covers <- MCCovers
    Retentions <- MCRetentions
    DefaultRetention <- MCDefault
    RenotifyAfter = 1
    Evaluators = {"tick"}
    Ticker = "tick"
    Clients = {c1, c2}
    Maintenance = "maintenance"
    MaxId = 2
    MaxAge = 2
INVARIANTS OneLivePerKey ResolvedAreDated SelectedAreCovered
SYMMETRY Symmetry
