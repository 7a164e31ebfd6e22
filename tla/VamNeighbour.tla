---------------------------- MODULE VamNeighbour ----------------------------
(***************************************************************************)
(* The neighbour table of the VAM component (app/vam): the nodes of        *)
(* remote[], split between sta_free_list and neighbour_list, the semaphore *)
(* sem_sta, the VAM thread that owns the table (vam_thread_entry), and the *)
(* lower-priority threads that walk it through the vam_get_peer_* calls.   *)
(*                                                                         *)
(* Granularity.  The VAM thread has priority 22.  Every walker (t-vsa-l,   *)
(* the finsh shell) has a lower one, so a walker runs only while the VAM   *)
(* thread is blocked: on its empty queue, or on sem_sta (CpuFree).  Timer  *)
(* callbacks and the WNETRX thread preempt the VAM thread but only touch   *)
(* its queue.  A VAM action is therefore the code between two points at    *)
(* which the thread can block or at which the table is half-built.         *)
(*                                                                         *)
(* Data.  A list is the set of its nodes: the code takes the first free    *)
(* node, and free nodes differ in nothing a reader can see, so any free    *)
(* node stands for the first.  Of vam_stastatus_t the model keeps the pid  *)
(* and the alert mask.                                                     *)
(***************************************************************************)
EXTENDS Naturals, Sequences, FiniteSets

CONSTANTS
  Nodes,         \* the elements of remote[VAM_NEIGHBOUR_MAXNUM]
  Pids,          \* temporary ids of other vehicles
  Alerts,        \* alert bits: VAM_ALERT_MASK_VBD, _EBD, _VOT
  MaxLife,       \* VAM_NEIGHBOUR_MAXLIFE
  AlertMaxLife,  \* VAM_REMOTE_ALERT_MAXLIFE
  QueueSize,     \* VAM_QUEUE_SIZE
  RxBufs,        \* RXBUF_NUM: frames that can be between fp_recv and release
  CtlMax,        \* bound: START and STOP requests in a behaviour
  Readers,       \* threads that walk the table
  Vam,           \* the VAM thread
  NoPid, NoNode, NoThread

ASSUME VamNeighbourAssumption ==
  /\ IsFiniteSet(Nodes)
  /\ MaxLife \in Nat \ {0}
  /\ AlertMaxLife \in Nat \ {0}
  /\ QueueSize \in Nat \ {0}
  /\ RxBufs \in Nat
  /\ CtlMax \in Nat
  /\ NoPid \notin Pids
  /\ NoNode \notin Nodes
  /\ Vam \notin Readers
  /\ NoThread \notin Readers \cup {Vam}

VARIABLES
  free, neigh,        \* sta_free_list, neighbour_list
  pid, life, alife,   \* s.pid, life, alert_life of each node
  mask,               \* s.alert_mask of each node
  holder, waiters,    \* sem_sta: who passed the take last, who is suspended
  queue,              \* queue_vam
  rxfree,             \* free receive buffers of the WNET layer
  ctl,                \* START and STOP requests made so far
  lifeTimer,          \* timer_neighbour_life is running
  handler,            \* vsa_start has registered the event handlers
  vpc, msg, cur,      \* VAM thread: where it is, its message, its node
  todo,               \* VAM thread: nodes vam_update_sta has still to visit
  gotNeighbour,       \* static local of vam_update_sta
  appPeers,           \* last VAM_EVT_PEER_UPDATE told the application of a peer
  appAlert,           \* alert state the last VAM_EVT_PEER_ALARM handler read
  rpc, rtodo, rwant,  \* walkers: where, pids still to look up, pid looked up
  rnode               \* walkers: node being copied

table   == <<free, neigh, pid, life, alife, mask>>
sem     == <<holder, waiters>>
vamVars == <<vpc, msg, cur, todo, gotNeighbour, lifeTimer>>
app     == <<handler, appPeers, appAlert>>
input   == <<queue, rxfree, ctl>>
readers == <<rpc, rtodo, rwant, rnode>>
vars    == <<table, sem, vamVars, app, input, readers>>

-----------------------------------------------------------------------------
Threads == Readers \cup {Vam}
Masks   == SUBSET Alerts

(* A frame a peer sent, as rcp_parse_msg tells them apart.  "ext" is a BSM  *)
(* long enough to hold the safety extension.  "other" is every frame that   *)
(* leaves the table alone: our own pid heard back, RSA, unknown, too short. *)
Frame == [type : {"bsm", "evam"}, pid : Pids]
           \cup [type : {"ext"}, pid : Pids, mask : Masks]
           \cup [type : {"other"}]
Message  == Frame \cup [type : {"start", "stop", "timeout"}]
Idle     == [type |-> "idle"]
VamPC    == {"recv", "join", "fill", "alarm", "update", "age", "ageAlarm", "kick"}
ReaderPC == {"idle", "pids", "next", "peer", "copy"}

Filled   == neigh \ (IF vpc = "fill" THEN {cur} ELSE {})
Known    == {pid[n] : n \in Filled}

-----------------------------------------------------------------------------
(* sem_sta, a counting semaphore of value 1 with FIFO hand-off: a release  *)
(* gives the unit to the first suspended thread.  A thread that takes it   *)
(* twice is suspended behind itself.                                       *)
Acquire(t) ==
  IF holder = NoThread
    THEN holder' = t /\ UNCHANGED waiters
    ELSE waiters' = Append(waiters, t) /\ UNCHANGED holder

Release ==
  IF waiters = <<>>
    THEN holder' = NoThread /\ UNCHANGED waiters
    ELSE holder' = Head(waiters) /\ waiters' = Tail(waiters)

Suspended(t) == \E i \in DOMAIN waiters : waiters[i] = t
(* Mutation: the VAM thread goes on after a failed osal_sem_take.          *)
GrantedUnchecked(t) == holder = t \/ t = Vam
Granted(t)   == holder = t /\ ~Suspended(t)

(* Mutation: walkers at the priority of the VAM thread. *)
CpuShared == TRUE
CpuFree == (vpc = "recv" /\ queue = <<>>) \/ Suspended(Vam)

-----------------------------------------------------------------------------
(* Producers of the VAM queue.  vam_add_event_queue drops the message when *)
(* the queue is full and only logs it.                                     *)
Enqueue(m) == queue' = IF Len(queue) < QueueSize THEN Append(queue, m) ELSE queue

(* WNETRX thread, vam_rcp_recv: it ignores the failure and returns 0, so   *)
(* a frame that finds the queue full keeps its receive buffer for ever.    *)
Receive(f) ==
  /\ rxfree > 0
  /\ rxfree' = rxfree - 1
  /\ Enqueue(f)
  /\ UNCHANGED <<table, sem, vamVars, app, ctl, readers>>

(* timer_neigh_time_callback, in interrupt context. *)
NeighTick ==
  /\ lifeTimer
  /\ Enqueue([type |-> "timeout"])
  /\ UNCHANGED <<table, sem, vamVars, app, rxfree, ctl, readers>>

(* The SYS thread's start event: vam_start, then vsa_start. *)
SysStart ==
  /\ ctl < CtlMax
  /\ ctl' = ctl + 1
  /\ Enqueue([type |-> "start"])
  /\ handler' = TRUE
  /\ UNCHANGED <<table, sem, vamVars, appPeers, appAlert, rxfree, readers>>

(* vam_stop. *)
Stop ==
  /\ ctl < CtlMax
  /\ ctl' = ctl + 1
  /\ Enqueue([type |-> "stop"])
  /\ UNCHANGED <<table, sem, vamVars, app, rxfree, readers>>

-----------------------------------------------------------------------------
(* VAM thread. *)
At(type) == vpc = "recv" /\ queue # <<>> /\ Head(queue).type = type

VamStart ==
  /\ At("start")
  /\ queue' = Tail(queue)
  /\ lifeTimer' = TRUE
  /\ UNCHANGED <<table, sem, vpc, msg, cur, todo, gotNeighbour, app, rxfree,
                 ctl, readers>>

VamStop ==
  /\ At("stop")
  /\ queue' = Tail(queue)
  /\ lifeTimer' = FALSE
  /\ UNCHANGED <<table, sem, vpc, msg, cur, todo, gotNeighbour, app, rxfree,
                 ctl, readers>>

(* Mutation: the receive buffer is not given back. *)
FrameDoneKeepsBuffer ==
  vpc' = "recv" /\ msg' = Idle /\ cur' = NoNode /\ UNCHANGED rxfree

(* Back to vam_thread_entry; a frame's buffer goes back to the WNET layer. *)
FrameDone == vpc' = "recv" /\ msg' = Idle /\ cur' = NoNode /\ rxfree' = rxfree + 1

VamOther ==
  /\ At("other")
  /\ queue' = Tail(queue)
  /\ rxfree' = rxfree + 1
  /\ UNCHANGED <<table, sem, vamVars, app, ctl, readers>>

(* The fields rcp_parse_bsm and rcp_parse_evam write into node n, without  *)
(* sem_sta, and the event they raise.  A BSM with extension goes on to     *)
(* VAM_EVT_PEER_ALARM, whose handler takes sem_sta.  rsa_mask in           *)
(* decode_itiscode is never initialised: an EVAM may leave any mask.       *)
Parse(m, n) ==
  /\ life'  = [life EXCEPT ![n] = IF m.type = "evam" THEN @ ELSE MaxLife]
  /\ alife' = [alife EXCEPT ![n] = IF m.type = "bsm" THEN @ ELSE AlertMaxLife]
  /\ \/ m.type = "bsm"  /\ UNCHANGED mask
     \/ m.type = "ext"  /\ mask' = [mask EXCEPT ![n] = m.mask]
     \/ m.type = "evam" /\ \E k \in Masks : mask' = [mask EXCEPT ![n] = k]
  /\ appPeers' = (appPeers \/ (handler /\ m.type # "evam"))
  /\ IF m.type = "ext" /\ handler
       THEN /\ vpc' = "alarm" /\ msg' = m /\ cur' = n
            /\ Acquire(Vam)
            /\ UNCHANGED rxfree
       ELSE FrameDone /\ UNCHANGED sem
  /\ UNCHANGED <<free, todo, gotNeighbour, lifeTimer, handler, appAlert, ctl, readers>>

(* vam_find_sta finds the pid: no semaphore is taken for the search. *)
VamHearKnown ==
  /\ \E t \in {"bsm", "ext", "evam"} : At(t)
  /\ queue' = Tail(queue)
  /\ \E n \in neigh : pid[n] = Head(queue).pid /\ Parse(Head(queue), n)
  /\ UNCHANGED <<neigh, pid>>

(* Mutation: a node is allocated without the search. *)
VamHearUnsearched ==
  /\ \E t \in {"bsm", "ext", "evam"} : At(t)
  /\ queue' = Tail(queue)
  /\ vpc' = "join" /\ msg' = Head(queue)
  /\ Acquire(Vam)
  /\ UNCHANGED <<table, cur, todo, gotNeighbour, lifeTimer, app, rxfree, ctl, readers>>

(* vam_find_sta does not find it and takes sem_sta. *)
VamHearNew ==
  /\ \E t \in {"bsm", "ext", "evam"} : At(t)
  /\ \A n \in neigh : pid[n] # Head(queue).pid
  /\ queue' = Tail(queue)
  /\ vpc' = "join" /\ msg' = Head(queue)
  /\ Acquire(Vam)
  /\ UNCHANGED <<table, cur, todo, gotNeighbour, lifeTimer, app, rxfree, ctl, readers>>

(* A free node joins neighbour_list; its pid is written only after release. *)
VamJoin ==
  /\ vpc = "join" /\ Granted(Vam)
  /\ \E n \in free :
       /\ free' = free \ {n} /\ neigh' = neigh \cup {n}
       /\ cur' = n
  /\ vpc' = "fill"
  /\ Release
  /\ UNCHANGED <<pid, life, alife, mask, msg, todo, gotNeighbour, lifeTimer,
                 app, input, readers>>

(* Mutation: the early return keeps sem_sta. *)
VamNoFreeKeepsSem ==
  /\ vpc = "join" /\ Granted(Vam)
  /\ free = {}
  /\ FrameDone
  /\ UNCHANGED <<table, sem, todo, gotNeighbour, lifeTimer, app, queue, ctl, readers>>

(* "no free sta": the frame is dropped. *)
VamNoFree ==
  /\ vpc = "join" /\ Granted(Vam)
  /\ free = {}
  /\ FrameDone
  /\ Release
  /\ UNCHANGED <<table, todo, gotNeighbour, lifeTimer, app, queue, ctl, readers>>

VamFill ==
  /\ vpc = "fill"
  /\ pid' = [pid EXCEPT ![cur] = msg.pid]
  /\ Parse(msg, cur)
  /\ UNCHANGED <<neigh, queue>>

(* vsa_receive_alarm_update, called by rcp_parse_bsm without sem_sta and   *)
(* by vam_update_sta with sem_sta held; vam_get_peer_alert_status takes it.*)
VamAlarm ==
  /\ vpc \in {"alarm", "ageAlarm"} /\ Granted(Vam)
  /\ appAlert' = UNION {mask[n] : n \in neigh}
  /\ Release
  /\ IF vpc = "alarm" THEN FrameDone
                      ELSE vpc' = "kick" /\ UNCHANGED <<msg, cur, rxfree>>
  /\ UNCHANGED <<table, todo, gotNeighbour, lifeTimer, handler, appPeers,
                 queue, ctl, readers>>

-----------------------------------------------------------------------------
(* vam_update_sta. *)
VamTimeout ==
  /\ At("timeout")
  /\ queue' = Tail(queue)
  /\ vpc' = "update"
  /\ Acquire(Vam)
  /\ UNCHANGED <<table, msg, cur, todo, gotNeighbour, lifeTimer, app, rxfree, ctl, readers>>

(* Mutation: gotNeighbour is not set by the loop. *)
VamUpdateForgets ==
  /\ vpc = "update" /\ Granted(Vam)
  /\ neigh # {}
  /\ todo' = neigh
  /\ vpc' = "age"
  /\ UNCHANGED <<table, sem, msg, cur, gotNeighbour, lifeTimer, app, input, readers>>

VamUpdate ==
  /\ vpc = "update" /\ Granted(Vam)
  /\ neigh # {}
  /\ todo' = neigh /\ gotNeighbour' = TRUE
  /\ vpc' = "age"
  /\ UNCHANGED <<table, sem, msg, cur, lifeTimer, app, input, readers>>

(* The list is empty: tell the application once. *)
VamUpdateEmpty ==
  /\ vpc = "update" /\ Granted(Vam)
  /\ neigh = {}
  /\ Release
  /\ appPeers' = (appPeers /\ ~(gotNeighbour /\ handler))
  /\ gotNeighbour' = FALSE
  /\ vpc' = "recv"
  /\ UNCHANGED <<table, msg, cur, todo, lifeTimer, handler, appAlert, input, readers>>

(* Mutations of Less: the decrement is not guarded and wraps; life stops at 1. *)
LessWraps(n) == (n + 65535) % 65536
LessStuck(n) == IF n > 1 THEN n - 1 ELSE n

Less(n) == IF n > 0 THEN n - 1 ELSE 0

(* One node ages.  When its alert times out the alarm handler is called    *)
(* here, inside the critical section of vam_update_sta.                    *)
VamAge ==
  /\ vpc = "age"
  /\ \E n \in todo :
       LET timedOut == Less(alife[n]) = 0 /\ mask[n] # {}
       IN /\ life'  = [life EXCEPT ![n] = Less(@)]
          /\ alife' = [alife EXCEPT ![n] = Less(@)]
          /\ mask'  = IF timedOut THEN [mask EXCEPT ![n] = {}] ELSE mask
          /\ cur'   = n
          /\ IF timedOut /\ handler
               THEN vpc' = "ageAlarm" /\ Acquire(Vam)
               ELSE vpc' = "kick" /\ UNCHANGED sem
  /\ UNCHANGED <<free, neigh, pid, msg, todo, gotNeighbour, lifeTimer, app, input, readers>>

(* Mutations: either life at zero kicks the node out; the node is unlinked *)
(* and not put back on the free list.                                      *)
VamKickEither ==
  /\ vpc = "kick"
  /\ IF life[cur] = 0 \/ alife[cur] = 0
       THEN neigh' = neigh \ {cur} /\ free' = free \cup {cur}
       ELSE UNCHANGED <<neigh, free>>
  /\ todo' = todo \ {cur}
  /\ cur' = NoNode
  /\ vpc' = "age"
  /\ UNCHANGED <<pid, life, alife, mask, sem, msg, gotNeighbour, lifeTimer, app, input, readers>>

VamKickUnlinks ==
  /\ vpc = "kick"
  /\ neigh' = IF life[cur] = 0 /\ alife[cur] = 0 THEN neigh \ {cur} ELSE neigh
  /\ todo' = todo \ {cur}
  /\ cur' = NoNode
  /\ vpc' = "age"
  /\ UNCHANGED <<free, pid, life, alife, mask, sem, msg, gotNeighbour, lifeTimer, app, input, readers>>

VamKick ==
  /\ vpc = "kick"
  /\ IF life[cur] = 0 /\ alife[cur] = 0
       THEN neigh' = neigh \ {cur} /\ free' = free \cup {cur}
       ELSE UNCHANGED <<neigh, free>>
  /\ todo' = todo \ {cur}
  /\ cur' = NoNode
  /\ vpc' = "age"
  /\ UNCHANGED <<pid, life, alife, mask, sem, msg, gotNeighbour, lifeTimer, app, input, readers>>

VamUpdateDone ==
  /\ vpc = "age" /\ todo = {}
  /\ Release
  /\ vpc' = "recv"
  /\ UNCHANGED <<table, msg, cur, todo, gotNeighbour, lifeTimer, app, input, readers>>

VamNext ==
  \/ VamStart \/ VamStop \/ VamOther
  \/ VamHearKnown \/ VamHearNew \/ VamJoin \/ VamNoFree \/ VamFill \/ VamAlarm
  \/ VamTimeout \/ VamUpdate \/ VamUpdateEmpty \/ VamAge \/ VamKick \/ VamUpdateDone

-----------------------------------------------------------------------------
(* Walkers: preprocess_pos, that is vam_get_all_peer_pid and then one      *)
(* vam_get_peer_current_status for each pid it returned.  vam_list_sta and *)
(* the other getters are one take-walk-release each, like the first part.  *)
Goto(r, pc) == rpc' = [rpc EXCEPT ![r] = pc]

ReadTakePids(r) ==
  /\ CpuFree /\ rpc[r] = "idle"
  /\ Acquire(r)
  /\ Goto(r, "pids")
  /\ UNCHANGED <<table, vamVars, app, input, rtodo, rwant, rnode>>

ReadPids(r) ==
  /\ CpuFree /\ rpc[r] = "pids" /\ Granted(r)
  /\ rtodo' = [rtodo EXCEPT ![r] = {pid[n] : n \in neigh}]
  /\ Release
  /\ Goto(r, "next")
  /\ UNCHANGED <<table, vamVars, app, input, rwant, rnode>>

ReadTakePeer(r) ==
  /\ CpuFree /\ rpc[r] = "next"
  /\ \E p \in rtodo[r] : rwant' = [rwant EXCEPT ![r] = p]
  /\ Acquire(r)
  /\ Goto(r, "peer")
  /\ UNCHANGED <<table, vamVars, app, input, rtodo, rnode>>

(* The walk has found the node and starts to copy its status. *)
ReadFound(r) ==
  /\ CpuFree /\ rpc[r] = "peer" /\ Granted(r)
  /\ \E n \in neigh : pid[n] = rwant[r] /\ rnode' = [rnode EXCEPT ![r] = n]
  /\ Goto(r, "copy")
  /\ UNCHANGED <<table, sem, vamVars, app, input, rtodo, rwant>>

(* Mutation: a walk that ends without the pid keeps sem_sta. *)
ReadReleaseOnlyCopied(r) ==
  /\ CpuFree
  /\ \/ /\ rpc[r] = "peer" /\ Granted(r) /\ \A n \in neigh : pid[n] # rwant[r]
        /\ UNCHANGED sem
     \/ rpc[r] = "copy" /\ Release
  /\ rtodo' = [rtodo EXCEPT ![r] = @ \ {rwant[r]}]
  /\ rnode' = [rnode EXCEPT ![r] = NoNode]
  /\ rwant' = [rwant EXCEPT ![r] = NoPid]
  /\ Goto(r, "next")
  /\ UNCHANGED <<table, vamVars, app, input>>

(* The walk ends without the pid, or the copy is complete. *)
ReadRelease(r) ==
  /\ CpuFree
  /\ \/ rpc[r] = "peer" /\ Granted(r) /\ \A n \in neigh : pid[n] # rwant[r]
     \/ rpc[r] = "copy"
  /\ Release
  /\ rtodo' = [rtodo EXCEPT ![r] = @ \ {rwant[r]}]
  /\ rnode' = [rnode EXCEPT ![r] = NoNode]
  /\ rwant' = [rwant EXCEPT ![r] = NoPid]
  /\ Goto(r, "next")
  /\ UNCHANGED <<table, vamVars, app, input>>

ReadDone(r) ==
  /\ CpuFree /\ rpc[r] = "next" /\ rtodo[r] = {}
  /\ Goto(r, "idle")
  /\ UNCHANGED <<table, sem, vamVars, app, input, rtodo, rwant, rnode>>

ReadNext(r) ==
  \/ ReadTakePids(r) \/ ReadPids(r) \/ ReadTakePeer(r)
  \/ ReadFound(r) \/ ReadRelease(r) \/ ReadDone(r)

-----------------------------------------------------------------------------
Init ==
  /\ free = Nodes /\ neigh = {}
  /\ pid = [n \in Nodes |-> NoPid]
  /\ life = [n \in Nodes |-> 0] /\ alife = [n \in Nodes |-> 0]
  /\ mask = [n \in Nodes |-> {}]
  /\ holder = NoThread /\ waiters = <<>>
  /\ queue = <<>> /\ rxfree = RxBufs /\ ctl = 0
  /\ lifeTimer = FALSE /\ handler = FALSE
  /\ vpc = "recv" /\ msg = Idle /\ cur = NoNode
  /\ todo = {} /\ gotNeighbour = FALSE
  /\ appPeers = FALSE /\ appAlert = {}
  /\ rpc = [r \in Readers |-> "idle"] /\ rtodo = [r \in Readers |-> {}]
  /\ rwant = [r \in Readers |-> NoPid] /\ rnode = [r \in Readers |-> NoNode]

Next ==
  \/ \E f \in Frame : Receive(f)
  \/ NeighTick \/ SysStart \/ Stop
  \/ VamNext
  \/ \E r \in Readers : ReadNext(r)

Spec == Init /\ [][Next]_vars

(* The timer fires for as long as it is armed, the VAM thread is the       *)
(* highest-priority thread of those here, and a walker inside the critical *)
(* section runs whenever the VAM thread waits for it.                      *)
Fairness ==
  /\ WF_vars(NeighTick)
  /\ WF_vars(VamNext)
  /\ \A r \in Readers : WF_vars(ReadNext(r))

FairSpec == Spec /\ Fairness

-----------------------------------------------------------------------------
TypeOK ==
  /\ free \subseteq Nodes /\ neigh \subseteq Nodes
  /\ pid \in [Nodes -> Pids \cup {NoPid}]
  /\ life \in [Nodes -> 0..MaxLife] /\ alife \in [Nodes -> 0..AlertMaxLife]
  /\ mask \in [Nodes -> Masks]
  /\ holder \in Threads \cup {NoThread} /\ waiters \in Seq(Threads)
  /\ queue \in Seq(Message) /\ rxfree \in Nat /\ ctl \in Nat
  /\ lifeTimer \in BOOLEAN /\ handler \in BOOLEAN
  /\ vpc \in VamPC /\ msg \in Message \cup {Idle} /\ cur \in Nodes \cup {NoNode}
  /\ todo \subseteq Nodes /\ gotNeighbour \in BOOLEAN
  /\ appPeers \in BOOLEAN /\ appAlert \in Masks
  /\ rpc \in [Readers -> ReaderPC]
  /\ rtodo \in [Readers -> SUBSET (Pids \cup {NoPid})]
  /\ rwant \in [Readers -> Pids \cup {NoPid}]
  /\ rnode \in [Readers -> Nodes \cup {NoNode}]

(* Every node of remote[] is in exactly one of the two lists, whatever     *)
(* join, kick and drop did: vam_list_sta prints VAM_NEIGHBOUR_MAXNUM minus *)
(* the free nodes as the number of neighbours.                             *)
Partition == free \cap neigh = {} /\ free \cup neigh = Nodes

(* Two nodes never hold the same peer.  vam_find_sta searches without      *)
(* sem_sta and joins after waiting for it, possibly long after.            *)
UniquePids ==
  \A m, n \in Filled : pid[m] \in Pids /\ (pid[m] = pid[n] => m = n)

(* An alert bit is set only on a node in the table that still has alert    *)
(* life, and a free node has no life: a peer that joins on a reused node   *)
(* inherits neither the alert nor the life of the one that left.           *)
NoStaleAlert ==
  /\ \A n \in Nodes : mask[n] # {} => n \in neigh /\ alife[n] > 0
  /\ \A n \in free : life[n] = 0 /\ alife[n] = 0

(* A thread waits behind itself for sem_sta in one place only, the alarm   *)
(* handler called by vam_update_sta; no early return keeps the semaphore.  *)
SelfWaitOnlyInAlarmTimeout == Suspended(holder) => vpc = "ageAlarm"

(* While a walker holds sem_sta no node joins or leaves, and the node it   *)
(* copies keeps its pid, though the VAM thread may preempt it at any step  *)
(* and writes pids outside the critical section.                           *)
WalkersSeeOneList ==
  [][/\ (\E r \in Readers : Granted(r)) => UNCHANGED <<free, neigh>>
     /\ \A r \in Readers : rpc[r] = "copy" => pid'[rnode[r]] = pid[rnode[r]]]_vars

(* The pids vam_get_all_peer_pid returns are those of the peers heard,     *)
(* never the old pid of a node that has joined and is not yet filled.      *)
SnapshotIsKnown ==
  [][\A r \in Readers : ReadPids(r) => rtodo'[r] = Known]_vars

(* A receive buffer is lost only when vam_rcp_recv meets a full queue.     *)
FramesHeld ==
  Cardinality({i \in DOMAIN queue : queue[i] \in Frame})
    + (IF msg \in Frame THEN 1 ELSE 0)

RxLostOnlyWhenFull ==
  [][rxfree' + FramesHeld' = rxfree + FramesHeld \/ Len(queue) = QueueSize]_vars

(* The table implements PeerTable: life and alert_life of a node together  *)
(* are the silence its peer is allowed, node by node, through every        *)
(* interleaving of the ageing loop with joins and walkers.                 *)
Left(p) ==
  IF p \in Known
    THEN LET n == CHOOSE n \in Filled : pid[n] = p
         IN IF life[n] > alife[n] THEN life[n] ELSE alife[n]
    ELSE 0

PT == INSTANCE PeerTable WITH
        left <- [p \in Pids |-> Left(p)], Capacity <- Cardinality(Nodes)

ImplementsPeerTable == PT!Spec

-----------------------------------------------------------------------------
(* vam_update_sta waits for sem_sta while it holds it. *)
SelfDeadlock == vpc = "ageAlarm"

(* A peer leaves the table unless it is heard again or the timer stops.    *)
(* Pending: a frame of p is queued or being handled.                       *)
Pending(p) ==
  \E m \in {queue[i] : i \in DOMAIN queue} \cup {msg} :
     m.type \in {"bsm", "ext", "evam"} /\ m.pid = p

SilentPeerLeaves ==
  \A p \in Pids :
    (p \in Known) ~> (p \notin Known \/ Pending(p) \/ ~lifeTimer \/ SelfDeadlock)

(* Once the table is empty the application that was told of a peer is told *)
(* that there is none ("neighbour list turn to empty").                    *)
EmptyListReported ==
  (appPeers /\ neigh = {}) ~> (~appPeers \/ neigh # {} \/ ~lifeTimer)

(* The VAM thread, suspended on sem_sta behind lower-priority walkers,     *)
(* always gets it.                                                         *)
VamGetsTable ==
  (vpc \in {"join", "update", "alarm"}) ~> (vpc \notin {"join", "update", "alarm"})

(* "one neighbours's alert msg timeout": the application's alarm handler,  *)
(* called for it, returns.                                                 *)
AlertTimeoutReported == (vpc = "ageAlarm") ~> (vpc # "ageAlarm")

=============================================================================
