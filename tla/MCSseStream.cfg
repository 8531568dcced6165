SPECIFICATION MixSpec
CONSTANTS
    t1 = t1
    t2 = t2
    r1 = r1
    r2 = r2
    c1 = c1
    c2 = c2
    c3 = c3
    c4 = c4
    Tabs = {t1, t2}
    Plain = {t1}
    Replicas = {r1, r2}
    Changes = {c1, c2, c3, c4}
    KindOf <- Kinds
    Cap = 1
    Capacity = 1
    MaxFaults = 2
CHECK_DEADLOCK FALSE
PROPERTIES
    EveryChangeFetched
INVARIANTS
    StreamsKeepAccount
