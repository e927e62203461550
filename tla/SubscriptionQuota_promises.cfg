CONSTANTS
  Requests = {r1, r2}
  Total = 3
  Amounts = {1, 2}
  MaxPeriods = 1
  MaxFaults = 1
  MaxMarkFaults = 1
  Pools = {2, 3}
  Databases = {"server", "sqlite"}
SPECIFICATION FairSpec
CHECK_DEADLOCK FALSE
INVARIANTS TypeOK UsedWithinTotal UsageCovered UsageExact NoDoubleRefund RefundRestores
PROPERTIES RefundEnds
