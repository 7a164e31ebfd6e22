SPECIFICATION FairSpec
CONSTANTS
  Mode = "fixed"
  TxTimes = 1
  CountMod = 3
  QueueSize = 1
  Inputs = {"start", "stop", "evam", "gps"}
  Alerts = {"VBD", "EBD"}
INVARIANTS TypeOK BreakdownAdvertised
PROPERTIES NoBsmWhileStopped AllClearEnds
