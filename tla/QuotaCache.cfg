SPECIFICATION QuotaSpec
CONSTANTS
    Procs = {p1, p2, p3}
    Initial = 2
    Amounts = {1, 2}
    MaxOps = 3
    MaxFailures = 1
INVARIANTS QuotaTypeOK Conserved
PROPERTIES ImplementsCell
CHECK_DEADLOCK FALSE
