SPECIFICATION MCAccountsSpec
CONSTANTS
    u1 = u1  u2 = u2  c1 = c1  c2 = c2  c3 = c3  a1 = a1  t1 = t1  t2 = t2  t3 = t3
    Users = {u1, u2}
    Seeded = u1
    Clients = {c1, c2, c3}
    Staff = {c1, c2}
    Addresses = {a1}
    AddressOf <- SomeAddresses
    Tokens = {t1, t2, t3}
    None = None
    MaxFailures = 1
    AllowlistOnly = TRUE
    DefaultPassword = TRUE
    MaxRequests = 3
    MaxMisses = 1
SYMMETRY TokenSymmetry
INVARIANTS AccountsTypeOK BoundedGuesses AdminRemains OldPasswordSessions
PROPERTY ManualRulesStand
CHECK_DEADLOCK FALSE
