SPECIFICATION FairSpec
CONSTANTS
    Tasks = {t1}
    NoTask = NoTask
    Actors = {a1, a2}
    Kinds = {"seedance", "configurable", "gemini", "suno", "image", "local", "legacy"}
    Quotas = {2}
    Costs <- MoreOrSame
    TimeoutMinutes = 1440
    MaxEndQueries = 1
    MaxTroubles = 1
INVARIANTS TypeOK BilledOnce FailureRefunded SuccessCharged NeverOverRefunded RowMatchesCharge
PROPERTIES TasksEnd
CHECK_DEADLOCK FALSE
