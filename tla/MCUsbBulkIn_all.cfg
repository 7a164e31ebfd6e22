SPECIFICATION BFairSpec
CONSTANTS
  RxBufs = {r1, r2, r3}
  QueueSize = 4
  OtherMax = 2
  NoBuf = NoBuf
  Other = Other
  MaxPackets = 3
  Room = 2
INVARIANTS BTypeOK NoRxbufOverwritten FramesInOrder
PROPERTIES RxbufLostOnlyToOthers EveryFrameIsDone HandedUpIsWhole ReceptionGoesOn
