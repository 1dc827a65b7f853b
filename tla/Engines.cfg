CONSTANTS
  Bits = {0, 1, 2}
  Printable = {{0}, {1}, {0, 1}, {0, 2}, {0, 1, 2}}
  Chunk = 2
  Word = 2
  MaxWindows = 3
  MaxLoadWindows = 2
  BodyLines = 24
  ScanLines = 40
  Masks <- MCMasks
  MaxBarren = 2
  Queues <- MCQueues
SPECIFICATION Spec
INVARIANTS
  UnreadableFilesDoNotMatter
  AnswersAreCurrent
  OverlapOnlyAfterTimeout
  SelfXorIsExact
PROPERTIES
  EveryTaskEnds
CHECK_DEADLOCK FALSE
