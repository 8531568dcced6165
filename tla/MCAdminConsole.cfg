SPECIFICATION MixSpec
CONSTANTS
    boss = boss
    peer = peer
    c1 = c1
    c2 = c2
    s1 = s1
    s2 = s2
    None = None
    Gone = Gone
    People = {boss, peer, newcomer}
    AtConsole = {boss, newcomer}
    Emails = {newcomer, peer}
    Admins = {boss, peer}
    MaxPassword = 3
    Passwords <- PasswordSet
    FirstPassword = 0
    Calls = {c1, c2}
    Sessions = {s1, s2}
    MaxKeys = 2
    MaxRows = 3
    PageSize = 1
    Category <- CategoryOf
    Letters = {l1}
    Offered = {"viewer", "admin"}
    Known = {u1}
    Lookups = {u1, u2}
    Budgets <- Mixes
    RootIds = {boss, newcomer}
    EnvPassword = 1
    Replicas = {i1, i2}
    MaxChanges = 3
    MaxBoots = 3
INVARIANTS
    LastAdmin ConsoleTellsTruth RetriesAreSafe RestartRestores EvictedAtRest
CHECK_DEADLOCK FALSE
