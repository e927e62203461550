SPECIFICATION Spec
CONSTANTS
    Tasks = {t1}
    NoTask = NoTask
    Actors = {a1, a2}
    Kinds = {"configurable"}
    Quotas = {2}
    Costs <- LessOrSame
    TimeoutMinutes = 1440
    MaxEndQueries = 1
    MaxTroubles = 0
INVARIANTS RefundedOnce
CHECK_DEADLOCK FALSE
