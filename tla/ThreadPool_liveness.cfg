\* Progress under weak fairness only, without spurious wakeups to help along.
CONSTANTS
  NWorkers = 2
  Regions = {r1, r2}
  MaxCount = 2
  MaxCalls = 1
  Failures = {"pool", "start"}
  NestedExclusive = FALSE
  Spurious = FALSE
SPECIFICATION FairSpec
PROPERTIES
  EveryRunReturns
  DestroyReturns
