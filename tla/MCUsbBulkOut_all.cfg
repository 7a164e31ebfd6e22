SPECIFICATION BFairSpec
CONSTANTS
  TxBufs = {b1, b2, b3}
  Senders = {vam, above}
  Preempting = {above}
  Priorities = {"normal"}
  Hops <- MCHops
  SemMax = 3
  NoBuf = NoBuf
  MaxPackets = 2
  FirstRetry = 3
  NextRetry = 4
  ErrLimit = 3
INVARIANTS BTypeOK EachTxbufOwnedOnce NoLostKick RequestHoldsHead
PROPERTIES EveryFrameLeavesOrHalted ImplementsWnetTx
CHECK_DEADLOCK FALSE
