\* Two frames of four scenes, with any settings changed before and in between.
CONSTANTS
  Addr = {a1, a2, a3, a4}
  MaxFrames = 2
  Looks = {1, 2}
  Scenes <- MCScenes
  ThreadCounts = {1, 2}
  AutoThreads = 2
  NULL = NULL
SYMMETRY Perms
SPECIFICATION Spec
INVARIANTS
  TypeOK
  ChangeSound
  NothingStale
  RunIdsUnique
  PoolWhole
