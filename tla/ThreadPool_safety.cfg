\* Two workers and the caller, three regions: an event job and the jobs two
\* of its tasks post, or three levels of nesting.
CONSTANTS
  NWorkers = 2
  Regions = {r1, r2, r3}
  MaxCount = 2
  MaxCalls = 1
  Failures = {"pool", "start"}
  NestedExclusive = FALSE
  Spurious = TRUE
SPECIFICATION Spec
SYMMETRY RegionSymmetry
INVARIANTS
  NoDanglingRegion
  ScratchExclusive
  PoolOutlivesWorkers
PROPERTIES
  ImplementsParallelFor
