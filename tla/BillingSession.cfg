CONSTANTS
  s1 = s1
  s2 = s2
  s3 = s3
  s4 = s4
  Sessions = {s1, s2, s3, s4}
  Source <- OneOfEach
  Playground = {s1}
  Forced = {s4}
  Estimates = {1, 3}
  Actuals = {0, 4}
  WalletQuota = 5
  TokenQuota = 4
  Unlimited = FALSE
  SubTotal = 3
  TrustQuota = 3
  MaxFaults = 1
SPECIFICATION Spec
INVARIANTS TypeOK NoFreeQuota SettledExactly SettledCovered NothingLeftBehind AdvanceReconciles NoOverdraft
