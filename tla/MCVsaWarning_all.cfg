SPECIFICATION FairSpec
CONSTANTS
  Slots = 1
  QueueSize = 2
  HiSize = 2
INVARIANTS TypeOK LampAgrees VoiceFollowsWarnings
PROPERTY EveryBreakdownWarned
