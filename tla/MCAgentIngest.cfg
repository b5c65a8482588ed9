CONSTANTS
    Machines = {m1}
    Tokens = {t1, t2}
    Rows = {r1, r2}
    Programs = {p1}
    Malformed = {}
    Poison = {r2}
    NoToken = NoToken
    MaxKeys = 2
    MaxBatch = 1
    MaxProgs = 1
    FitsBody <- TwoItems
    MaxSpool = 1
    FitsSpool <- TwoItemsInAll
    MaxFlush = 1
    MaxCount = 2
    RejectDays = 0
    Retentions <- ShortRetention
    MaxUpsets = 2
SPECIFICATION Spec
INVARIANTS IngestTypeOK NoSilentLoss CountedTwiceOnlyAfterFailure DeletedLeavesNothing
PROPERTIES RevokedGoesQuiet SpoolDrains ImplementsCustody
CHECK_DEADLOCK FALSE
