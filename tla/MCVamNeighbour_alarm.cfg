SPECIFICATION FairSpec
CONSTANTS
  Nodes = {n1}
  Pids = {p1}
  Alerts = {vbd}
  MaxLife = 2
  AlertMaxLife = 1
  QueueSize = 2
  RxBufs = 1
  CtlMax = 2
  Readers = {r1}
  Vam = vam
  NoPid = NoPid
  NoNode = NoNode
  NoThread = NoThread
PROPERTIES AlertTimeoutReported
CHECK_DEADLOCK FALSE
