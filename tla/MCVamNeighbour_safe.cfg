SPECIFICATION Spec
CONSTANTS
  Nodes = {n1, n2}
  Pids = {p1, p2, p3}
  Alerts = {vbd}
  MaxLife = 2
  AlertMaxLife = 1
  QueueSize = 2
  RxBufs = 1
  CtlMax = 2
  Readers = {r1}
  Vam = vam
  NoPid = NoPid
  NoNode = NoNode
  NoThread = NoThread
SYMMETRY Sym
INVARIANTS TypeOK Partition UniquePids NoStaleAlert SelfWaitOnlyInAlarmTimeout
PROPERTIES RxLostOnlyWhenFull WalkersSeeOneList SnapshotIsKnown
\* The program does stop, in the alarm time-out: SelfWaitOnlyInAlarmTimeout says where.
CHECK_DEADLOCK FALSE
