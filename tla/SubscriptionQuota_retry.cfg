CONSTANTS
  Requests = {r1, r2}
  Total = 3
  Amounts = {1, 2}
  MaxPeriods = 0
  MaxFaults = 0
  MaxMarkFaults = 1
  Pools = {3}
  Databases = {"server"}
SPECIFICATION Spec
CHECK_DEADLOCK FALSE
INVARIANTS RefundIdempotent
