SPECIFICATION Spec
CONSTANTS
  Mode = "fixed"
  TxTimes = 2
  CountMod = 4
  QueueSize = 2
  Inputs = {"start", "stop", "evam"}
  Alerts = {}
INVARIANTS PauseIsHeldByTimer
