SPECIFICATION Spec
CONSTANTS
    Tasks = {t1}
    NoTask = NoTask
    Actors = {a1, a2}
    Kinds = {"gemini"}
    Quotas = {2}
    Costs <- MoreOrSame
    TimeoutMinutes = 1440
    MaxEndQueries = 1
    MaxTroubles = 0
INVARIANTS FailedTasksRefunded
CHECK_DEADLOCK FALSE
