SPECIFICATION FairSpec
CONSTANTS
  Slots = 1
  QueueSize = 2
  HiSize = 2
PROPERTY CrdWarningEnds
