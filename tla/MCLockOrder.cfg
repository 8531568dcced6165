SPECIFICATION MixSpec
CONSTANTS
    c1 = c1
    c2 = c2
    t1 = t1
    t2 = t2
    t3 = t3
    Txns = {t1, t2, t3}
    Programs <- Mix
    MaxSub = 3
    Categories = {c1, c2}
    Unborn = {3}
CHECK_DEADLOCK FALSE
INVARIANTS
    OrderedNeverStuck
PROPERTIES
    EverybodyEnds
