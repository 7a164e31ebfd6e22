SPECIFICATION FairSpec
CONSTANTS
  Nodes = {n1}
  Pids = {p1, p2}
  Alerts = {vbd}
  MaxLife = 2
  AlertMaxLife = 1
  QueueSize = 2
  RxBufs = 1
  CtlMax = 2
  Readers = {r1}
  Vam = vam
  NoPid = NoPid
  NoNode = NoNode
  NoThread = NoThread
PROPERTIES ImplementsPeerTable SilentPeerLeaves EmptyListReported VamGetsTable
\* The program does stop when an alert times out.
CHECK_DEADLOCK FALSE
