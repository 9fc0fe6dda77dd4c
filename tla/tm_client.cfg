\* Time is bounded, so every behaviour ends: no deadlock check.
SPECIFICATION Spec
CONSTANTS
  TrustingPeriod = 2
  MaxClockDrift = 2
  RevisionLength = 4
  MaxHeight = 5
  None = None
  MaxTime = 5
  Times <- MCTimes
  Roots = {"r1", "r2"}
  SentinelRoot = "sentinel_root"
  UpgradeRoots = {"r2"}
  UpgradePlans <- MCPlans
INVARIANTS
  TypeOK
  LatestIsStored
  TimesIncrease
  FrozenIffForked
PROPERTIES
  NeverRewritten
  InactiveForever
CHECK_DEADLOCK FALSE
