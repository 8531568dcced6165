SPECIFICATION Spec
CONSTANTS
    k1 = k1
    k2 = k2
    Keys = {k1, k2}
    Unit = 2
    Rate <- SlowFast
    Burst <- LargeSmall
    Backends = {"local", "redis"}
    Threshold = 1
    MaxTime = 6
CHECK_DEADLOCK FALSE
INVARIANTS
    AnswersAreRight
PROPERTIES
    ForgettingIsInvisible
