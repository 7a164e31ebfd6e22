------------------------ MODULE VamNeighbour_proofs -------------------------
(***************************************************************************)
(* Proofs about VamNeighbour, for any number of nodes, peers, walkers,     *)
(* queue slots and life ticks.                                             *)
(***************************************************************************)
EXTENDS VamNeighbour, FiniteSetTheorems, TLAPS

Heard == {"bsm", "ext", "evam"}

(* What the VAM thread's position says of its message, node and work list. *)
Control ==
  /\ vpc \in {"join", "fill"} => msg \in Message /\ msg.type \in Heard
  /\ vpc = "fill" => cur \in neigh
  /\ vpc \in {"age", "kick", "ageAlarm"} => todo \subseteq neigh
  /\ vpc \in {"kick", "ageAlarm"} => cur \in todo

(* The inductive invariant behind type correctness and Partition. *)
TableInv == TypeOK /\ Partition /\ Control

-----------------------------------------------------------------------------
(* What a queued message consists of. *)
LEMMA MessageFields ==
  ASSUME NEW m \in Message
  PROVE  /\ m.type \in Heard => m.pid \in Pids
         /\ m.type = "ext" => m.mask \in Masks
BY DEF Message, Frame, Heard

(* vam_add_event_queue keeps the queue typed and within its size. *)
LEMMA EnqueueType ==
  ASSUME queue \in Seq(Message), NEW m \in Message, Enqueue(m)
  PROVE  queue' \in Seq(Message)
BY DEF Enqueue

(* Taking the head of the queue keeps it typed and within its size. *)
LEMMA DequeueType ==
  ASSUME queue \in Seq(Message), queue # <<>>
  PROVE  Head(queue) \in Message /\ Tail(queue) \in Seq(Message)
OBVIOUS

SemType == holder \in Threads \cup {NoThread} /\ waiters \in Seq(Threads)

(* osal_sem_take keeps the semaphore typed. *)
LEMMA AcquireType ==
  ASSUME SemType, NEW t \in Threads, Acquire(t)
  PROVE  SemType'
BY DEF SemType, Acquire

(* osal_sem_release keeps the semaphore typed. *)
LEMMA ReleaseType ==
  ASSUME SemType, Release
  PROVE  SemType'
BY DEF SemType, Release

(* Whatever a frame parses into, the VAM thread stays typed. *)
LEMMA ParseType ==
  ASSUME TypeOK, NEW m \in Message, m.type \in Heard, NEW n \in Nodes, Parse(m, n)
  PROVE  /\ life' \in [Nodes -> 0..MaxLife] /\ alife' \in [Nodes -> 0..AlertMaxLife]
         /\ mask' \in [Nodes -> Masks]
         /\ SemType' /\ rxfree' \in Nat
         /\ vpc' \in {"recv", "alarm"}
         /\ msg' \in Message \cup {Idle} /\ cur' \in Nodes \cup {NoNode}
         /\ appPeers' \in BOOLEAN
<1>1. SemType /\ Vam \in Threads
  BY DEF TypeOK, SemType, Threads
<1>2. SemType'
  <2>1. Acquire(Vam) \/ UNCHANGED sem
    BY DEF Parse
  <2> QED BY <1>1, <2>1, AcquireType DEF SemType, sem
<1>3. life' \in [Nodes -> 0..MaxLife] /\ alife' \in [Nodes -> 0..AlertMaxLife]
  BY VamNeighbourAssumption DEF TypeOK, Parse
<1>4. mask' \in [Nodes -> Masks]
  BY MessageFields DEF TypeOK, Parse
<1>5. appPeers' \in BOOLEAN
  BY DEF TypeOK, Parse
<1>6. /\ vpc' \in {"recv", "alarm"} /\ rxfree' \in Nat
      /\ msg' \in Message \cup {Idle} /\ cur' \in Nodes \cup {NoNode}
  BY DEF TypeOK, Parse, FrameDone
<1> QED BY <1>2, <1>3, <1>4, <1>5, <1>6

-----------------------------------------------------------------------------
(* vam_init leaves the nodes in the free list, in order. *)
LEMMA InitTable == Init => TableInv
<1> SUFFICES ASSUME Init PROVE TableInv
  OBVIOUS
<1>a. /\ free \subseteq Nodes /\ neigh \subseteq Nodes
      /\ pid \in [Nodes -> Pids \cup {NoPid}]
      /\ life \in [Nodes -> 0..MaxLife] /\ alife \in [Nodes -> 0..AlertMaxLife]
      /\ mask \in [Nodes -> Masks] /\ appAlert \in Masks
      /\ todo \subseteq Nodes
  BY VamNeighbourAssumption DEF Init, Masks
<1>b. /\ rpc \in [Readers -> ReaderPC]
      /\ rtodo \in [Readers -> SUBSET (Pids \cup {NoPid})]
      /\ rwant \in [Readers -> Pids \cup {NoPid}]
      /\ rnode \in [Readers -> Nodes \cup {NoNode}]
  BY DEF Init, ReaderPC
<1>c. waiters \in Seq(Threads) /\ queue \in Seq(Message)
  BY DEF Init
<1>1. TypeOK
  BY <1>a, <1>b, <1>c, VamNeighbourAssumption DEF Init, TypeOK, VamPC
<1>2. Partition /\ Control
  BY DEF Init, Partition, Control
<1> QED BY <1>1, <1>2 DEF TableInv

(* Every step keeps the nodes' places and the VAM thread's control. *)
LEMMA NextTable == TableInv /\ [Next]_vars => TableInv'
<1> SUFFICES ASSUME TableInv, [Next]_vars PROVE TableInv'
  OBVIOUS
<1> USE DEF TableInv
<1>s. SemType /\ Vam \in Threads
  BY DEF TypeOK, SemType, Threads
<1>q. queue \in Seq(Message)
  BY DEF TypeOK
<1>1. CASE UNCHANGED vars
  BY <1>1 DEF TypeOK, Partition, Control, vars, table, sem, vamVars, app, input, readers
<1>2. ASSUME NEW f \in Frame, Receive(f) PROVE TableInv'
  <2>1. queue' \in Seq(Message)
    BY <1>2, <1>q, EnqueueType DEF Receive, Message
  <2>2. TypeOK'
    BY <1>2, <2>1 DEF TypeOK, Receive, table, sem, vamVars, app, readers
  <2> QED BY <1>2, <2>2 DEF Partition, Control, Receive, table, vamVars
<1>3. CASE NeighTick
  <2>1. queue' \in Seq(Message)
    BY <1>3, <1>q, EnqueueType DEF NeighTick, Message
  <2>2. TypeOK'
    BY <1>3, <2>1 DEF TypeOK, NeighTick, table, sem, vamVars, app, readers
  <2> QED BY <1>3, <2>2 DEF Partition, Control, NeighTick, table, vamVars
<1>4. CASE SysStart
  <2>1. queue' \in Seq(Message)
    BY <1>4, <1>q, EnqueueType DEF SysStart, Message
  <2>2. TypeOK'
    BY <1>4, <2>1 DEF TypeOK, SysStart, table, sem, vamVars, readers
  <2> QED BY <1>4, <2>2 DEF Partition, Control, SysStart, table, vamVars
<1>5. CASE Stop
  <2>1. queue' \in Seq(Message)
    BY <1>5, <1>q, EnqueueType DEF Stop, Message
  <2>2. TypeOK'
    BY <1>5, <2>1 DEF TypeOK, Stop, table, sem, vamVars, app, readers
  <2> QED BY <1>5, <2>2 DEF Partition, Control, Stop, table, vamVars
<1>6. CASE VamStart
  <2>1. TypeOK'
    BY <1>6, <1>q, DequeueType DEF TypeOK, VamStart, At, table, sem, app, readers
  <2> QED BY <1>6, <2>1 DEF Partition, Control, VamStart, table
<1>7. CASE VamStop
  <2>1. TypeOK'
    BY <1>7, <1>q, DequeueType DEF TypeOK, VamStop, At, table, sem, app, readers
  <2> QED BY <1>7, <2>1 DEF Partition, Control, VamStop, table
<1>8. CASE VamOther
  <2>1. TypeOK'
    BY <1>8, <1>q, DequeueType DEF TypeOK, VamOther, At, table, sem, vamVars, app, readers
  <2> QED BY <1>8, <2>1 DEF Partition, Control, VamOther, table, vamVars
<1>9. CASE VamHearKnown
  <2>1. queue # <<>> /\ Head(queue).type \in Heard /\ vpc = "recv"
    BY <1>9 DEF VamHearKnown, At, Heard
  <2>2. Head(queue) \in Message /\ Tail(queue) \in Seq(Message)
    BY <2>1, <1>q, DequeueType
  <2>3. PICK n \in neigh : Parse(Head(queue), n)
    BY <1>9 DEF VamHearKnown
  <2>4. n \in Nodes
    BY <2>3 DEF TypeOK
  <2>5. TypeOK'
    BY <1>9, <2>1, <2>2, <2>3, <2>4, ParseType
    DEF TypeOK, SemType, VamHearKnown, Parse, readers, VamPC
  <2>6. vpc' \in {"recv", "alarm"}
    BY <2>1, <2>2, <2>3, <2>4, ParseType
  <2> QED BY <1>9, <2>3, <2>5, <2>6 DEF Partition, Control, VamHearKnown, Parse
<1>10. CASE VamHearNew
  <2>1. queue # <<>> /\ Head(queue).type \in Heard
    BY <1>10 DEF VamHearNew, At, Heard
  <2>2. Head(queue) \in Message /\ Tail(queue) \in Seq(Message)
    BY <2>1, <1>q, DequeueType
  <2>3. SemType'
    BY <1>10, <1>s, AcquireType DEF VamHearNew
  <2>4. TypeOK'
    BY <1>10, <2>2, <2>3 DEF TypeOK, SemType, VamHearNew, VamPC, table, app, readers
  <2> QED BY <1>10, <2>1, <2>2, <2>4 DEF Partition, Control, VamHearNew, table
<1>11. CASE VamJoin
  <2>1. SemType'
    BY <1>11, <1>s, ReleaseType DEF VamJoin
  <2>2. TypeOK'
    BY <1>11, <2>1 DEF TypeOK, SemType, VamJoin, VamPC, app, input, readers
  <2> QED BY <1>11, <2>2 DEF Partition, Control, VamJoin
<1>12. CASE VamNoFree
  <2>1. SemType'
    BY <1>12, <1>s, ReleaseType DEF VamNoFree
  <2>2. TypeOK'
    BY <1>12, <2>1 DEF TypeOK, SemType, VamNoFree, FrameDone, VamPC, table, app, readers
  <2> QED BY <1>12, <2>2 DEF Partition, Control, VamNoFree, FrameDone, table
<1>13. CASE VamFill
  <2>1. cur \in neigh /\ cur \in Nodes /\ msg \in Message /\ msg.type \in Heard
    BY <1>13 DEF VamFill, Control, TypeOK
  <2>2. pid' \in [Nodes -> Pids \cup {NoPid}]
    BY <1>13, <2>1, MessageFields DEF VamFill, TypeOK
  <2>3. TypeOK'
    BY <1>13, <2>1, <2>2, ParseType DEF TypeOK, SemType, VamFill, Parse, VamPC, readers
  <2>4. vpc' \in {"recv", "alarm"}
    BY <1>13, <2>1, ParseType DEF VamFill
  <2> QED BY <1>13, <2>3, <2>4 DEF Partition, Control, VamFill, Parse
<1>14. CASE VamAlarm
  <2>1. SemType'
    BY <1>14, <1>s, ReleaseType DEF VamAlarm
  <2>2. appAlert' \in Masks
    BY <1>14 DEF VamAlarm, TypeOK, Masks
  <2>3. TypeOK'
    BY <1>14, <2>1, <2>2 DEF TypeOK, SemType, VamAlarm, FrameDone, VamPC, table, readers
  <2> QED BY <1>14, <2>3 DEF Partition, Control, VamAlarm, FrameDone, table
<1>15. CASE VamTimeout
  <2>1. SemType'
    BY <1>15, <1>s, AcquireType DEF VamTimeout
  <2>2. TypeOK'
    BY <1>15, <1>q, <2>1, DequeueType
    DEF TypeOK, SemType, VamTimeout, At, VamPC, table, app, readers
  <2> QED BY <1>15, <2>2 DEF Partition, Control, VamTimeout, table
<1>16. CASE VamUpdate
  <2>1. TypeOK'
    BY <1>16 DEF TypeOK, VamUpdate, VamPC, table, sem, app, input, readers
  <2> QED BY <1>16, <2>1 DEF Partition, Control, VamUpdate, table
<1>17. CASE VamUpdateEmpty
  <2>1. SemType'
    BY <1>17, <1>s, ReleaseType DEF VamUpdateEmpty
  <2>2. TypeOK'
    BY <1>17, <2>1 DEF TypeOK, SemType, VamUpdateEmpty, VamPC, table, input, readers
  <2> QED BY <1>17, <2>2 DEF Partition, Control, VamUpdateEmpty, table
<1>18. CASE VamAge
  <2>1. PICK n \in todo :
          /\ life'  = [life EXCEPT ![n] = Less(@)]
          /\ alife' = [alife EXCEPT ![n] = Less(@)]
          /\ mask' \in {mask, [mask EXCEPT ![n] = {}]}
          /\ cur' = n
          /\ vpc' \in {"ageAlarm", "kick"}
          /\ Acquire(Vam) \/ UNCHANGED sem
    BY <1>18 DEF VamAge
  <2>2. SemType'
    BY <2>1, <1>s, AcquireType DEF SemType, sem
  <2>3. n \in Nodes
    BY <2>1 DEF TypeOK
  <2>4. life' \in [Nodes -> 0..MaxLife] /\ alife' \in [Nodes -> 0..AlertMaxLife]
    BY <2>1, <2>3, VamNeighbourAssumption DEF TypeOK, Less
  <2>5. mask' \in [Nodes -> Masks]
    BY <2>1, <2>3 DEF TypeOK, Masks
  <2>6. TypeOK'
    BY <1>18, <2>1, <2>2, <2>3, <2>4, <2>5
    DEF TypeOK, SemType, VamAge, VamPC, app, input, readers
  <2> QED BY <1>18, <2>1, <2>6 DEF Partition, Control, VamAge
<1>19. CASE VamKick
  <2>1. cur \in neigh /\ cur \in todo /\ todo \subseteq neigh /\ cur \in Nodes
    BY <1>19 DEF VamKick, Control, TypeOK
  <2>2. TypeOK'
    BY <1>19, <2>1 DEF TypeOK, VamKick, VamPC, sem, app, input, readers
  <2> QED BY <1>19, <2>1, <2>2 DEF Partition, Control, VamKick
<1>20. CASE VamUpdateDone
  <2>1. SemType'
    BY <1>20, <1>s, ReleaseType DEF VamUpdateDone
  <2>2. TypeOK'
    BY <1>20, <2>1 DEF TypeOK, SemType, VamUpdateDone, VamPC, table, app, input, readers
  <2> QED BY <1>20, <2>2 DEF Partition, Control, VamUpdateDone, table
<1>21. ASSUME NEW r \in Readers, ReadNext(r) PROVE TableInv'
  <2>0. r \in Threads
    BY DEF Threads
  <2>1. SemType'
    BY <1>21, <1>s, <2>0, AcquireType, ReleaseType
    DEF SemType, sem, ReadNext, ReadTakePids, ReadPids, ReadTakePeer, ReadFound, ReadRelease, ReadDone
  <2>2. UNCHANGED <<table, vamVars, app, input>>
    BY <1>21
    DEF ReadNext, ReadTakePids, ReadPids, ReadTakePeer, ReadFound, ReadRelease, ReadDone
  <2>3. rpc' \in [Readers -> ReaderPC]
    BY <1>21
    DEF TypeOK, Goto, ReaderPC, ReadNext, ReadTakePids, ReadPids, ReadTakePeer, ReadFound,
        ReadRelease, ReadDone
  <2>4. /\ rtodo' \in [Readers -> SUBSET (Pids \cup {NoPid})]
        /\ rwant' \in [Readers -> Pids \cup {NoPid}]
        /\ rnode' \in [Readers -> Nodes \cup {NoNode}]
    <3>0. /\ rtodo \in [Readers -> SUBSET (Pids \cup {NoPid})]
          /\ rwant \in [Readers -> Pids \cup {NoPid}]
          /\ rnode \in [Readers -> Nodes \cup {NoNode}]
      BY DEF TypeOK
    <3>1. CASE ReadPids(r)
      <4>1. {pid[n] : n \in neigh} \in SUBSET (Pids \cup {NoPid})
        BY DEF TypeOK
      <4> QED BY <3>1, <3>0, <4>1 DEF ReadPids
    <3>2. CASE ReadTakePeer(r)
      BY <3>2, <3>0 DEF ReadTakePeer
    <3>3. CASE ReadFound(r)
      BY <3>3, <3>0 DEF ReadFound, TypeOK
    <3>4. CASE ReadRelease(r)
      BY <3>4, <3>0 DEF ReadRelease
    <3>5. CASE ReadTakePids(r) \/ ReadDone(r)
      BY <3>5, <3>0 DEF ReadTakePids, ReadDone
    <3> QED BY <1>21, <3>1, <3>2, <3>3, <3>4, <3>5 DEF ReadNext
  <2>5. TypeOK'
    BY <2>1, <2>2, <2>3, <2>4 DEF TypeOK, SemType, table, vamVars, app, input
  <2> QED BY <2>2, <2>5 DEF Partition, Control, table, vamVars
<1> QED
  BY <1>1, <1>2, <1>3, <1>4, <1>5, <1>6, <1>7, <1>8, <1>9, <1>10, <1>11, <1>12, <1>13,
     <1>14, <1>15, <1>16, <1>17, <1>18, <1>19, <1>20, <1>21
  DEF Next, VamNext

(* Type correctness and the partition of the nodes between the two lists,  *)
(* for every number of nodes, peers and walkers.                           *)
THEOREM TableInvariant == Spec => []TableInv
BY InitTable, NextTable, PTL DEF Spec

(* Every variable keeps its type, in every instance. *)
THEOREM TypeCorrect == Spec => []TypeOK
BY TableInvariant, PTL DEF TableInv

(* Every node of the table is in exactly one of the two lists, once. *)
THEOREM PartitionHolds == Spec => []Partition
BY TableInvariant, PTL DEF TableInv

-----------------------------------------------------------------------------
(* Alert bits are backed by alert life, and free nodes carry nothing over. *)
LEMMA NextNoStaleAlert ==
  ASSUME TableInv, NoStaleAlert, [Next]_vars
  PROVE  NoStaleAlert'
<1> USE DEF TableInv
<1>0. /\ life \in [Nodes -> 0..MaxLife] /\ alife \in [Nodes -> 0..AlertMaxLife]
      /\ mask \in [Nodes -> Masks] /\ free \subseteq Nodes /\ neigh \subseteq Nodes
      /\ MaxLife \in Nat /\ AlertMaxLife \in Nat \ {0}
  BY VamNeighbourAssumption DEF TypeOK
<1>1. CASE UNCHANGED table
  BY <1>1 DEF NoStaleAlert, table
<1>2. ASSUME NEW m \in Message, NEW n \in neigh, Parse(m, n), neigh' = neigh
      PROVE  NoStaleAlert'
  <2>1. free' = free /\ n \in Nodes /\ n \notin free
    BY <1>0, <1>2 DEF Parse, Partition
  <2>2. ASSUME NEW k \in Nodes, mask'[k] # {} PROVE k \in neigh' /\ alife'[k] > 0
    <3>1. CASE k # n
      <4>1. mask'[k] = mask[k] /\ alife'[k] = alife[k]
        BY <1>0, <1>2, <3>1 DEF Parse
      <4> QED BY <1>2, <2>2, <4>1 DEF NoStaleAlert
    <3>2. CASE k = n /\ m.type = "bsm"
      <4>1. mask'[k] = mask[k] /\ alife'[k] = alife[k]
        BY <1>0, <1>2, <3>2 DEF Parse
      <4> QED BY <1>2, <2>2, <4>1 DEF NoStaleAlert
    <3>3. CASE k = n /\ m.type # "bsm"
      <4>1. alife'[k] = AlertMaxLife
        BY <1>0, <1>2, <3>3 DEF Parse
      <4> QED BY <1>0, <1>2, <3>3, <4>1
    <3> QED BY <3>1, <3>2, <3>3
  <2>3. ASSUME NEW k \in free PROVE life'[k] = 0 /\ alife'[k] = 0
    <3>1. k # n /\ k \in Nodes
      BY <1>0, <2>1
    <3>2. life'[k] = life[k] /\ alife'[k] = alife[k]
      BY <1>0, <1>2, <3>1 DEF Parse
    <3> QED BY <3>2 DEF NoStaleAlert
  <2> QED BY <2>1, <2>2, <2>3 DEF NoStaleAlert
<1>3. CASE VamHearKnown
  <2>1. queue # <<>> /\ queue \in Seq(Message)
    BY <1>3 DEF VamHearKnown, At, TypeOK
  <2>2. Head(queue) \in Message
    BY <2>1
  <2> QED BY <1>2, <1>3, <2>2 DEF VamHearKnown
<1>4. CASE VamFill
  <2>1. cur \in neigh /\ msg \in Message
    BY <1>4 DEF VamFill, Control
  <2> QED BY <1>2, <1>4, <2>1 DEF VamFill
<1>5. CASE VamJoin
  BY <1>0, <1>5 DEF VamJoin, NoStaleAlert, Partition
<1>6. CASE VamAge
  <2>1. PICK n \in todo :
          /\ life'  = [life EXCEPT ![n] = Less(@)]
          /\ alife' = [alife EXCEPT ![n] = Less(@)]
          /\ mask' = IF Less(alife[n]) = 0 /\ mask[n] # {}
                       THEN [mask EXCEPT ![n] = {}] ELSE mask
    BY <1>6 DEF VamAge
  <2>2. n \in neigh /\ n \in Nodes /\ n \notin free
    BY <1>0, <1>6 DEF Control, Partition, VamAge
  <2>3. neigh' = neigh /\ free' = free
    BY <1>6 DEF VamAge
  <2>4. ASSUME NEW k \in Nodes, mask'[k] # {} PROVE k \in neigh /\ alife'[k] > 0
    <3>1. CASE k # n
      BY <1>0, <2>1, <2>2, <2>4, <3>1 DEF NoStaleAlert
    <3>2. CASE k = n
      <4>1. alife'[n] = Less(alife[n]) /\ Less(alife[n]) \in Nat
        BY <1>0, <2>1, <2>2 DEF Less
      <4>2. Less(alife[n]) # 0
        BY <1>0, <2>1, <2>2, <2>4, <3>2
      <4> QED BY <2>2, <3>2, <4>1, <4>2
    <3> QED BY <3>1, <3>2
  <2> QED BY <1>0, <2>1, <2>2, <2>3, <2>4 DEF NoStaleAlert
<1>7. CASE VamKick
  <2>1. cur \in neigh /\ cur \in Nodes
    BY <1>0, <1>7 DEF VamKick, Control
  <2>2. alife[cur] = 0 => mask[cur] = {}
    BY <2>1 DEF NoStaleAlert
  <2> QED BY <1>0, <1>7, <2>1, <2>2 DEF VamKick, NoStaleAlert
<1>8. ASSUME NEW r \in Readers, ReadNext(r) PROVE UNCHANGED table
  BY <1>8
  DEF ReadNext, ReadTakePids, ReadPids, ReadTakePeer, ReadFound, ReadRelease, ReadDone
<1>9. ASSUME \/ \E f \in Frame : Receive(f)
             \/ NeighTick \/ SysStart \/ Stop \/ VamStart \/ VamStop \/ VamOther
             \/ VamHearNew \/ VamNoFree \/ VamAlarm \/ VamTimeout \/ VamUpdate
             \/ VamUpdateEmpty \/ VamUpdateDone \/ UNCHANGED vars
      PROVE  UNCHANGED table
  BY <1>9
  DEF Receive, NeighTick, SysStart, Stop, VamStart, VamStop, VamOther, VamHearNew, VamNoFree,
      VamAlarm, VamTimeout, VamUpdate, VamUpdateEmpty, VamUpdateDone, vars
<1> QED
  BY <1>1, <1>3, <1>4, <1>5, <1>6, <1>7, <1>8, <1>9 DEF Next, VamNext

(* No peer inherits the alert or the life of the one that used its node.   *)
THEOREM AlertNeverStale == Spec => []NoStaleAlert
<1>1. Init => NoStaleAlert
  BY DEF Init, NoStaleAlert
<1> QED BY <1>1, TableInvariant, NextNoStaleAlert, PTL DEF Spec

-----------------------------------------------------------------------------
(* The peer about to join is in no filled node. *)
PidInv == UniquePids /\ (vpc \in {"join", "fill"} => \A n \in Filled : pid[n] # msg.pid)

(* Every step keeps the pids of the filled nodes apart. *)
LEMMA NextPidInv ==
  ASSUME TableInv, PidInv, [Next]_vars
  PROVE  PidInv'
<1> USE DEF TableInv
<1>0. /\ neigh \subseteq Nodes /\ pid \in [Nodes -> Pids \cup {NoPid}]
  BY DEF TypeOK
<1>1. CASE UNCHANGED <<neigh, pid, vpc, cur, msg>>
  BY <1>1 DEF PidInv, UniquePids, Filled
<1>2. ASSUME NEW m \in Message, m.type \in Heard, NEW n \in Nodes, Parse(m, n)
      PROVE  vpc' \in {"recv", "alarm"}
  BY <1>2, ParseType
<1>3. CASE VamHearKnown
  <2>1. queue # <<>> /\ queue \in Seq(Message) /\ Head(queue).type \in Heard /\ vpc = "recv"
    BY <1>3 DEF VamHearKnown, At, TypeOK, Heard
  <2>2. Head(queue) \in Message
    BY <2>1
  <2>3. vpc' \in {"recv", "alarm"}
    BY <1>0, <1>2, <1>3, <2>1, <2>2 DEF VamHearKnown
  <2> QED BY <1>3, <2>1, <2>3 DEF VamHearKnown, PidInv, UniquePids, Filled
<1>4. CASE VamHearNew
  BY <1>4 DEF VamHearNew, At, PidInv, UniquePids, Filled, table
<1>5. CASE VamJoin
  <2>1. PICK n \in free : neigh' = neigh \cup {n} /\ cur' = n
    BY <1>5 DEF VamJoin
  <2>2. n \notin neigh
    BY <2>1 DEF Partition
  <2>3. vpc = "join" /\ vpc' = "fill" /\ pid' = pid /\ msg' = msg
    BY <1>5 DEF VamJoin
  <2>4. Filled' = Filled
    BY <2>1, <2>2, <2>3 DEF Filled
  <2> QED BY <2>3, <2>4 DEF PidInv, UniquePids
<1>6. CASE VamFill
  <2>1. cur \in neigh /\ msg \in Message /\ msg.type \in Heard /\ cur \in Nodes /\ vpc = "fill"
    BY <1>0, <1>6 DEF VamFill, Control
  <2>2. vpc' \in {"recv", "alarm"}
    BY <1>2, <1>6, <2>1 DEF VamFill
  <2>3. msg.pid \in Pids
    BY <2>1, MessageFields
  <2>4. /\ pid' = [pid EXCEPT ![cur] = msg.pid]
        /\ Filled = neigh \ {cur} /\ Filled' = neigh
    BY <1>6, <2>1, <2>2 DEF VamFill, Filled
  <2> QED BY <1>0, <2>1, <2>2, <2>3, <2>4 DEF PidInv, UniquePids
<1>7. CASE VamKick
  BY <1>7 DEF VamKick, PidInv, UniquePids, Filled
<1>8. CASE VamUpdate \/ VamAge \/ VamTimeout \/ VamUpdateEmpty \/ VamUpdateDone
          \/ VamAlarm \/ VamNoFree
  BY <1>8
  DEF VamUpdate, VamAge, VamTimeout, VamUpdateEmpty, VamUpdateDone, VamAlarm, VamNoFree,
      FrameDone, At, table, PidInv, UniquePids, Filled
<1>9. ASSUME NEW r \in Readers, ReadNext(r) PROVE UNCHANGED <<neigh, pid, vpc, cur, msg>>
  BY <1>9
  DEF ReadNext, ReadTakePids, ReadPids, ReadTakePeer, ReadFound, ReadRelease, ReadDone,
      table, vamVars
<1>10. ASSUME \/ \E f \in Frame : Receive(f)
              \/ NeighTick \/ SysStart \/ Stop \/ VamStart \/ VamStop \/ VamOther
              \/ UNCHANGED vars
       PROVE  UNCHANGED <<neigh, pid, vpc, cur, msg>>
  BY <1>10
  DEF Receive, NeighTick, SysStart, Stop, VamStart, VamStop, VamOther, vars, table, vamVars
<1> QED
  BY <1>1, <1>3, <1>4, <1>5, <1>6, <1>7, <1>8, <1>9, <1>10 DEF Next, VamNext

(* No two filled nodes hold the same peer. *)
THEOREM PidsUnique == Spec => []UniquePids
<1>1. Init => PidInv
  BY DEF Init, PidInv, UniquePids, Filled
<1>2. PidInv => UniquePids
  BY DEF PidInv
<1> QED BY <1>1, <1>2, TableInvariant, NextPidInv, PTL DEF Spec

-----------------------------------------------------------------------------
(* Who holds sem_sta and who waits for it, at every point of every thread. *)
Distinct == \A i, j \in DOMAIN waiters : waiters[i] = waiters[j] => i = j

InOneQueue(t) == holder = t <=> ~Suspended(t)

VamSem ==
  /\ vpc \in {"recv", "fill"} => holder # Vam /\ ~Suspended(Vam)
  /\ vpc \in {"age", "kick"} => holder = Vam /\ ~Suspended(Vam)
  /\ vpc \in {"join", "alarm", "update"} => InOneQueue(Vam)
  /\ vpc = "ageAlarm" => holder = Vam /\ Suspended(Vam)

ReaderSem(r) ==
  /\ rpc[r] \in {"idle", "next"} => holder # r /\ ~Suspended(r)
  /\ rpc[r] \in {"pids", "peer"} => InOneQueue(r)
  /\ rpc[r] = "copy" => holder = r /\ ~Suspended(r) /\ vpc # "fill"

SemInv ==
  /\ Distinct
  /\ holder = NoThread => waiters = <<>>
  /\ VamSem
  /\ \A r \in Readers : ReaderSem(r)

(* A take by a thread that is not waiting already. *)
LEMMA AcquireFacts ==
  ASSUME SemType, Distinct, holder = NoThread => waiters = <<>>,
         NEW t \in Threads, ~Suspended(t), Acquire(t)
  PROVE  /\ Distinct'
         /\ holder' # NoThread
         /\ \A u \in Threads \ {t} : (holder' = u <=> holder = u) /\ (Suspended(u)' <=> Suspended(u))
         /\ holder = t => holder' = t /\ Suspended(t)'
         /\ holder # t => (holder' = t <=> ~Suspended(t)')
<1>n. NoThread \notin Threads
  BY VamNeighbourAssumption DEF Threads
<1>1. CASE holder = NoThread
  BY <1>n, <1>1 DEF Acquire, Distinct, Suspended, SemType
<1>2. CASE holder # NoThread
  <2>1. waiters' = Append(waiters, t) /\ holder' = holder
    BY <1>2 DEF Acquire
  <2>2. /\ DOMAIN waiters' = DOMAIN waiters \cup {Len(waiters) + 1}
        /\ waiters'[Len(waiters) + 1] = t
        /\ \A i \in DOMAIN waiters : waiters'[i] = waiters[i]
    BY <2>1 DEF SemType
  <2>3. \A u \in Threads : Suspended(u)' <=> (Suspended(u) \/ u = t)
    BY <2>2 DEF Suspended
  <2>4. Distinct'
    BY <2>2 DEF Distinct, Suspended
  <2> QED BY <1>2, <2>1, <2>3, <2>4
<1> QED BY <1>1, <1>2

(* A release: the first waiter, if any, holds the semaphore. *)
LEMMA ReleaseFacts ==
  ASSUME SemType, Distinct, Release
  PROVE  /\ Distinct'
         /\ holder' = NoThread => waiters' = <<>>
         /\ \A u \in Threads : Suspended(u)' <=> (Suspended(u) /\ holder' # u)
         /\ \A u \in Threads : holder' = u => Suspended(u)
<1>n. NoThread \notin Threads
  BY VamNeighbourAssumption DEF Threads
<1>1. CASE waiters = <<>>
  BY <1>n, <1>1 DEF Release, Distinct, Suspended, SemType
<1>2. CASE waiters # <<>>
  <2>1. waiters' = Tail(waiters) /\ holder' = waiters[1] /\ holder' \in Threads
    BY <1>2 DEF Release, SemType
  <2>2. /\ Len(waiters) \in Nat /\ Len(waiters) > 0
        /\ DOMAIN waiters = 1..Len(waiters) /\ DOMAIN waiters' = 1..(Len(waiters) - 1)
        /\ \A i \in DOMAIN waiters' : waiters'[i] = waiters[i + 1]
    BY <1>2, <2>1 DEF SemType
  <2>3. Distinct'
    BY <2>2 DEF Distinct
  <2>4. ASSUME NEW u \in Threads PROVE Suspended(u)' <=> (Suspended(u) /\ holder' # u)
    <3>1. ASSUME Suspended(u)' PROVE Suspended(u) /\ holder' # u
      <4>1. PICK i \in DOMAIN waiters' : waiters'[i] = u
        BY <3>1 DEF Suspended
      <4>2. i + 1 \in DOMAIN waiters /\ waiters[i + 1] = u /\ i + 1 # 1 /\ 1 \in DOMAIN waiters
        BY <2>2, <4>1
      <4> QED BY <2>1, <4>2 DEF Suspended, Distinct
    <3>2. ASSUME Suspended(u), holder' # u PROVE Suspended(u)'
      <4>1. PICK i \in DOMAIN waiters : waiters[i] = u
        BY <3>2 DEF Suspended
      <4>2. i # 1
        BY <2>1, <3>2, <4>1
      <4>3. i - 1 \in DOMAIN waiters' /\ waiters'[i - 1] = u
        BY <2>2, <4>1, <4>2
      <4> QED BY <4>3 DEF Suspended
    <3> QED BY <3>1, <3>2
  <2>5. \A u \in Threads : holder' = u => Suspended(u)
    <3>1. 1 \in DOMAIN waiters
      BY <2>2
    <3> QED BY <2>1, <3>1 DEF Suspended
  <2> QED BY <1>n, <2>1, <2>3, <2>4, <2>5
<1> QED BY <1>1, <1>2

(* A take or a release by one thread leaves the others where they were.    *)
LEMMA OthersKeep ==
  ASSUME SemType, Distinct, holder = NoThread => waiters = <<>>,
         NEW t \in Threads, NEW u \in Threads, u # t,
         (Acquire(t) /\ ~Suspended(t)) \/ (Release /\ holder = t)
  PROVE  /\ holder # u /\ ~Suspended(u) => holder' # u /\ ~Suspended(u)'
         /\ InOneQueue(u) => InOneQueue(u)'
         /\ holder = u /\ ~Suspended(u) => holder' = u /\ ~Suspended(u)'
<1>1. CASE Acquire(t) /\ ~Suspended(t)
  <2>1. (holder' = u <=> holder = u) /\ (Suspended(u)' <=> Suspended(u))
    BY <1>1, AcquireFacts
  <2> QED BY <2>1 DEF InOneQueue
<1>2. CASE Release /\ holder = t
  <2>1. (Suspended(u)' <=> (Suspended(u) /\ holder' # u)) /\ (holder' = u => Suspended(u))
    BY <1>2, ReleaseFacts
  <2> QED BY <1>2, <2>1 DEF InOneQueue
<1> QED BY <1>1, <1>2

(* What a take or a release does to the thread that does it. *)
LEMMA OwnTake ==
  ASSUME SemType, Distinct, holder = NoThread => waiters = <<>>,
         NEW t \in Threads, holder # t, ~Suspended(t), Acquire(t)
  PROVE  InOneQueue(t)' /\ Distinct' /\ (holder' = NoThread => waiters' = <<>>)
BY AcquireFacts DEF InOneQueue

(* The thread that releases neither holds nor waits afterwards. *)
LEMMA OwnRelease ==
  ASSUME SemType, Distinct, NEW t \in Threads, holder = t, ~Suspended(t), Release
  PROVE  /\ holder' # t /\ ~Suspended(t)'
         /\ Distinct' /\ (holder' = NoThread => waiters' = <<>>)
BY ReleaseFacts

(* Every step keeps sem_sta and the threads' places in step. *)
LEMMA NextSem ==
  ASSUME TableInv, SemInv, [Next]_vars
  PROVE  SemInv'
<1> USE DEF TableInv, SemInv
<1>0. SemType /\ Vam \in Threads /\ Readers \subseteq Threads /\ Vam \notin Readers
  BY VamNeighbourAssumption DEF TypeOK, SemType, Threads
<1>v. vpc \in VamPC
  BY DEF TypeOK
<1>1. ASSUME UNCHANGED <<sem, vpc, rpc>> PROVE SemInv'
  BY <1>1 DEF sem, Distinct, VamSem, ReaderSem, InOneQueue, Suspended
(* The walkers keep their place when the VAM thread takes or releases.     *)
<1>2. ASSUME rpc' = rpc,
             \/ Acquire(Vam) /\ ~Suspended(Vam) /\ vpc' # "fill"
             \/ Release /\ holder = Vam
             \/ UNCHANGED sem /\ vpc' # "fill",
             NEW r \in Readers
      PROVE  ReaderSem(r)'
  <2>1. CASE UNCHANGED sem /\ vpc' # "fill"
    BY <1>2, <2>1 DEF sem, ReaderSem, InOneQueue, Suspended
  <2>2. CASE Acquire(Vam) /\ ~Suspended(Vam)
    BY <1>0, <1>2, <2>2, OthersKeep DEF ReaderSem
  <2>3. CASE Release /\ holder = Vam
    BY <1>0, <1>2, <2>3, OthersKeep DEF ReaderSem
  <2> QED BY <1>2, <2>1, <2>2, <2>3
(* The VAM thread keeps its place when a walker moves. *)
<1>3. ASSUME NEW r \in Readers, ReadNext(r) PROVE SemInv'
  <2>1. /\ vpc' = vpc /\ r \in Threads /\ r # Vam
        /\ vpc \in {"recv", "join", "alarm", "update", "ageAlarm"}
    <3>1. vpc' = vpc /\ CpuFree
      BY <1>3
      DEF ReadNext, ReadTakePids, ReadPids, ReadTakePeer, ReadFound, ReadRelease, ReadDone, vamVars
    <3> QED BY <1>0, <1>v, <3>1 DEF CpuFree, VamSem, VamPC
  <2>2. ASSUME \/ Acquire(r) /\ ~Suspended(r) /\ holder # r
               \/ Release /\ holder = r
        PROVE  /\ VamSem'
               /\ \A u \in Readers \ {r} : rpc'[u] = rpc[u] => ReaderSem(u)'
    <3>1. VamSem'
      <4>1. CASE vpc = "ageAlarm"
        <5>1. CASE Acquire(r) /\ ~Suspended(r)
          BY <1>0, <2>1, <4>1, <5>1, AcquireFacts DEF VamSem
        <5>2. CASE Release /\ holder = r
          BY <2>1, <4>1, <5>2 DEF VamSem
        <5> QED BY <2>2, <5>1, <5>2
      <4>2. CASE vpc # "ageAlarm"
        BY <1>0, <2>1, <2>2, <4>2, OthersKeep DEF VamSem
      <4> QED BY <4>1, <4>2
    <3>2. ASSUME NEW u \in Readers \ {r}, rpc'[u] = rpc[u] PROVE ReaderSem(u)'
      <4>1. u \in Threads /\ u # r /\ ReaderSem(u)
        BY <1>0, <3>2
      <4>2. /\ holder # u /\ ~Suspended(u) => holder' # u /\ ~Suspended(u)'
            /\ InOneQueue(u) => InOneQueue(u)'
            /\ holder = u /\ ~Suspended(u) => holder' = u /\ ~Suspended(u)'
        BY <1>0, <2>1, <2>2, <4>1, OthersKeep
      <4> QED BY <2>1, <3>2, <4>1, <4>2 DEF ReaderSem
    <3> QED BY <3>1, <3>2
  <2>3. rpc \in [Readers -> ReaderPC]
    BY DEF TypeOK
  <2>4. CASE ReadTakePids(r) \/ ReadTakePeer(r)
    <3>1. rpc[r] \in {"idle", "next"} /\ Acquire(r)
      BY <2>4 DEF ReadTakePids, ReadTakePeer
    <3>2. holder # r /\ ~Suspended(r)
      BY <3>1 DEF ReaderSem
    <3>3. /\ rpc'[r] \in {"pids", "peer"}
          /\ \A u \in Readers \ {r} : rpc'[u] = rpc[u]
      BY <2>3, <2>4 DEF ReadTakePids, ReadTakePeer, Goto
    <3>4. InOneQueue(r)' /\ Distinct' /\ (holder' = NoThread => waiters' = <<>>)
      BY <1>0, <2>1, <3>1, <3>2, OwnTake
    <3>5. ReaderSem(r)'
      BY <3>3, <3>4 DEF ReaderSem
    <3> QED BY <2>2, <3>1, <3>2, <3>3, <3>4, <3>5
  <2>5. CASE ReadPids(r) \/ ReadRelease(r)
    <3>1. holder = r /\ ~Suspended(r) /\ Release
      BY <2>5 DEF ReadPids, ReadRelease, Granted, ReaderSem
    <3>2. rpc'[r] = "next" /\ \A u \in Readers \ {r} : rpc'[u] = rpc[u]
      BY <2>3, <2>5 DEF ReadPids, ReadRelease, Goto
    <3>3. /\ holder' # r /\ ~Suspended(r)'
          /\ Distinct' /\ (holder' = NoThread => waiters' = <<>>)
      BY <1>0, <2>1, <3>1, OwnRelease
    <3>4. ReaderSem(r)'
      BY <3>2, <3>3 DEF ReaderSem
    <3> QED BY <2>2, <3>1, <3>2, <3>3, <3>4
  <2>6. CASE ReadFound(r)
    <3>1. holder = r /\ ~Suspended(r) /\ UNCHANGED sem
      BY <2>6 DEF ReadFound, Granted
    <3>2. rpc'[r] = "copy" /\ \A u \in Readers \ {r} : rpc'[u] = rpc[u]
      BY <2>3, <2>6 DEF ReadFound, Goto
    <3> QED BY <2>1, <3>1, <3>2 DEF sem, Distinct, VamSem, ReaderSem, InOneQueue, Suspended
  <2>7. CASE ReadDone(r)
    <3>1. UNCHANGED sem /\ rpc[r] = "next"
      BY <2>7 DEF ReadDone
    <3>2. rpc'[r] = "idle" /\ \A u \in Readers \ {r} : rpc'[u] = rpc[u]
      BY <2>3, <2>7 DEF ReadDone, Goto
    <3> QED BY <2>1, <3>1, <3>2 DEF sem, Distinct, VamSem, ReaderSem, InOneQueue, Suspended
  <2> QED BY <1>3, <2>4, <2>5, <2>6, <2>7 DEF ReadNext
(* A take by the VAM thread outside vam_update_sta's critical section. *)
<1>4. ASSUME Acquire(Vam), vpc \in {"recv", "fill"}, rpc' = rpc,
             vpc' \in {"join", "alarm", "update"}
      PROVE  SemInv'
  <2>1. holder # Vam /\ ~Suspended(Vam)
    BY <1>4 DEF VamSem
  <2>2. InOneQueue(Vam)' /\ Distinct' /\ (holder' = NoThread => waiters' = <<>>)
    BY <1>0, <1>4, <2>1, OwnTake
  <2>3. VamSem'
    BY <1>4, <2>2 DEF VamSem
  <2> QED BY <1>2, <1>4, <2>1, <2>2, <2>3
<1>5. ASSUME Release, holder = Vam, ~Suspended(Vam), rpc' = rpc, vpc' \in {"recv", "fill"}
      PROVE  SemInv'
  <2>1. /\ holder' # Vam /\ ~Suspended(Vam)'
        /\ Distinct' /\ (holder' = NoThread => waiters' = <<>>)
    BY <1>0, <1>5, OwnRelease
  <2>2. VamSem'
    BY <1>5, <2>1 DEF VamSem
  <2> QED BY <1>2, <1>5, <2>1, <2>2
<1>6. ASSUME UNCHANGED <<sem, rpc>>, vpc' # "fill",
             \/ vpc \in {"recv", "fill"} /\ vpc' = "recv"
             \/ holder = Vam /\ ~Suspended(Vam) /\ vpc' \in {"age", "kick"}
      PROVE  SemInv'
  <2>1. VamSem'
    BY <1>6 DEF VamSem, sem, Suspended
  <2> QED BY <1>2, <1>6, <2>1 DEF sem, Distinct
<1>7. ASSUME NEW m, NEW n, Parse(m, n), vpc \in {"recv", "fill"} PROVE SemInv'
  <2>1. rpc' = rpc
    BY <1>7 DEF Parse, readers
  <2>2. CASE vpc' = "alarm" /\ Acquire(Vam)
    BY <1>4, <1>7, <2>1, <2>2
  <2>3. CASE vpc' = "recv" /\ UNCHANGED sem
    BY <1>6, <1>7, <2>1, <2>3
  <2> QED BY <1>7, <2>2, <2>3 DEF Parse, FrameDone
<1>8. CASE VamHearKnown
  BY <1>7, <1>8 DEF VamHearKnown, At
<1>9. CASE VamFill
  BY <1>7, <1>9 DEF VamFill
<1>10. CASE VamHearNew
  BY <1>4, <1>10 DEF VamHearNew, At, readers
<1>11. CASE VamTimeout
  BY <1>4, <1>11 DEF VamTimeout, At, readers
<1>12. CASE VamJoin
  BY <1>5, <1>12 DEF VamJoin, Granted, readers
<1>13. CASE VamNoFree
  BY <1>5, <1>13 DEF VamNoFree, FrameDone, Granted, readers
<1>14. CASE VamAlarm
  <2>1. vpc = "alarm" /\ holder = Vam /\ ~Suspended(Vam)
    BY <1>14 DEF VamAlarm, Granted, VamSem
  <2> QED BY <1>5, <1>14, <2>1 DEF VamAlarm, FrameDone, readers
<1>15. CASE VamUpdate
  BY <1>6, <1>15 DEF VamUpdate, Granted, readers
<1>16. CASE VamUpdateEmpty
  BY <1>5, <1>16 DEF VamUpdateEmpty, Granted, readers
<1>17. CASE VamAge
  <2>1. holder = Vam /\ ~Suspended(Vam) /\ rpc' = rpc
    BY <1>17 DEF VamAge, VamSem, readers
  <2>2. CASE vpc' = "kick" /\ UNCHANGED sem
    BY <1>6, <2>1, <2>2
  <2>3. CASE vpc' = "ageAlarm" /\ Acquire(Vam)
    <3>1. holder' = Vam /\ Suspended(Vam)' /\ Distinct' /\ holder' # NoThread
      BY <1>0, <2>1, <2>3, AcquireFacts
    <3>2. VamSem'
      BY <2>3, <3>1 DEF VamSem
    <3> QED BY <1>2, <2>1, <2>3, <3>1, <3>2
  <2> QED BY <1>17, <2>2, <2>3 DEF VamAge
<1>18. CASE VamKick
  BY <1>6, <1>18 DEF VamKick, VamSem, readers
<1>19. CASE VamUpdateDone
  BY <1>5, <1>19 DEF VamUpdateDone, VamSem, readers
<1>20. ASSUME \/ \E f \in Frame : Receive(f)
              \/ NeighTick \/ SysStart \/ Stop \/ VamStart \/ VamStop \/ VamOther
              \/ UNCHANGED vars
       PROVE  UNCHANGED <<sem, vpc, rpc>>
  BY <1>20
  DEF Receive, NeighTick, SysStart, Stop, VamStart, VamStop, VamOther, vars, vamVars, readers
<1> QED
  BY <1>1, <1>3, <1>8, <1>9, <1>10, <1>11, <1>12, <1>13, <1>14, <1>15, <1>16, <1>17, <1>18,
     <1>19, <1>20 DEF Next, VamNext

(* Holder and waiters of sem_sta are the threads the code says they are. *)
THEOREM SemInvariant == Spec => []SemInv
<1>1. Init => SemInv
  BY VamNeighbourAssumption
  DEF Init, SemInv, Distinct, VamSem, ReaderSem, Suspended
<1> QED BY <1>1, TableInvariant, NextSem, PTL DEF Spec

(* A thread waits behind itself only in the alarm handler vam_update_sta   *)
(* calls: every other path of every thread pairs its take and its release. *)
THEOREM SelfWaitOnlyThere == Spec => []SelfWaitOnlyInAlarmTimeout
<1>1. TableInv /\ SemInv => SelfWaitOnlyInAlarmTimeout
  <2> SUFFICES ASSUME TableInv, SemInv, Suspended(holder) PROVE vpc = "ageAlarm"
    BY DEF SelfWaitOnlyInAlarmTimeout
  <2>1. holder \in Threads
    BY DEF TableInv, TypeOK, Suspended, SemInv
  <2>2. CASE holder = Vam
    BY <2>2 DEF TableInv, TypeOK, VamPC, SemInv, VamSem, InOneQueue
  <2>3. ASSUME NEW r \in Readers, holder = r PROVE FALSE
    BY <2>3 DEF TableInv, TypeOK, ReaderPC, SemInv, ReaderSem, InOneQueue
  <2> QED BY <2>1, <2>2, <2>3 DEF Threads
<1> QED BY <1>1, TableInvariant, SemInvariant, PTL

(* Once the VAM thread waits behind itself it does so for ever: no step of *)
(* any thread, interrupt or producer gets it out.                          *)
THEOREM DeadlockIsForever ==
  Spec => [][SelfDeadlock => SelfDeadlock']_vars
<1>1. TableInv /\ SemInv /\ [Next]_vars => [SelfDeadlock => SelfDeadlock']_vars
  <2> SUFFICES ASSUME TableInv, SemInv, Next, vpc = "ageAlarm" PROVE vpc' = "ageAlarm"
    BY DEF SelfDeadlock
  <2>1. ~Granted(Vam)
    BY DEF SemInv, VamSem, Granted
  <2> QED
    BY <2>1
    DEF Next, VamNext, Receive, NeighTick, SysStart, Stop, VamStart, VamStop, VamOther,
        VamHearKnown, VamHearNew, VamJoin, VamNoFree, VamFill, VamAlarm, VamTimeout, VamUpdate,
        VamUpdateEmpty, VamAge, VamKick, VamUpdateDone, At, ReadNext, ReadTakePids, ReadPids,
        ReadTakePeer, ReadFound, ReadRelease, ReadDone, vamVars
<1> QED BY <1>1, TableInvariant, SemInvariant, PTL DEF Spec

(* No node joins or leaves under a walker, and the node it copies keeps    *)
(* its pid.                                                                *)
THEOREM WalkersUndisturbed == Spec => WalkersSeeOneList
<1>1. ASSUME TableInv, SemInv, [Next]_vars
      PROVE  [/\ (\E r \in Readers : Granted(r)) => UNCHANGED <<free, neigh>>
              /\ \A r \in Readers : rpc[r] = "copy" => pid'[rnode[r]] = pid[rnode[r]]]_vars
  <2> SUFFICES ASSUME Next
               PROVE  /\ (\E r \in Readers : Granted(r)) => UNCHANGED <<free, neigh>>
                      /\ \A r \in Readers : rpc[r] = "copy" => pid' = pid
    BY <1>1
  <2>0. Vam \notin Readers
    BY VamNeighbourAssumption
  <2>1. CASE VamJoin
    BY <2>0, <2>1 DEF VamJoin, Granted
  <2>2. CASE VamKick
    BY <1>1, <2>0, <2>2 DEF VamKick, Granted, SemInv, VamSem
  <2>3. CASE VamFill
    BY <1>1, <2>3 DEF VamFill, Parse, SemInv, ReaderSem
  <2>4. CASE VamHearKnown
    BY <2>4 DEF VamHearKnown, Parse
  <2>5. CASE VamAge
    BY <2>5 DEF VamAge
  <2>6. ASSUME NEW r \in Readers, ReadNext(r) PROVE UNCHANGED table
    BY <2>6
    DEF ReadNext, ReadTakePids, ReadPids, ReadTakePeer, ReadFound, ReadRelease, ReadDone
  <2>7. ASSUME \/ \E f \in Frame : Receive(f)
               \/ NeighTick \/ SysStart \/ Stop \/ VamStart \/ VamStop \/ VamOther
               \/ VamHearNew \/ VamNoFree \/ VamAlarm \/ VamTimeout \/ VamUpdate
               \/ VamUpdateEmpty \/ VamUpdateDone
        PROVE  UNCHANGED table
    BY <2>7
    DEF Receive, NeighTick, SysStart, Stop, VamStart, VamStop, VamOther, VamHearNew, VamNoFree,
        VamAlarm, VamTimeout, VamUpdate, VamUpdateEmpty, VamUpdateDone
  <2> QED BY <2>1, <2>2, <2>3, <2>4, <2>5, <2>6, <2>7 DEF Next, VamNext, table
<1> QED BY <1>1, TableInvariant, SemInvariant, PTL DEF Spec, WalkersSeeOneList

(* vam_get_all_peer_pid returns the pids of peers heard: no walker gets at *)
(* the list between the join of a node and its filling.                    *)
THEOREM SnapshotAlwaysKnown == Spec => SnapshotIsKnown
<1>1. ASSUME TableInv, SemInv
      PROVE  [\A r \in Readers : ReadPids(r) => rtodo'[r] = Known]_vars
  <2> SUFFICES ASSUME NEW r \in Readers, ReadPids(r) PROVE rtodo'[r] = Known
    OBVIOUS
  <2>1. vpc # "fill"
    BY <1>1 DEF ReadPids, CpuFree, SemInv, VamSem
  <2>2. Filled = neigh
    BY <2>1 DEF Filled
  <2> QED BY <1>1, <2>2 DEF ReadPids, Known, TableInv, TypeOK
<1> QED BY <1>1, TableInvariant, SemInvariant, PTL DEF SnapshotIsKnown

-----------------------------------------------------------------------------
(* The silence a node's peer is still allowed. *)
LifeOf(n) == IF life[n] > alife[n] THEN life[n] ELSE alife[n]

(* A filled node has life left, except between the decrement of the loop   *)
(* and the kick that follows; the node a peer has just joined on has none. *)
LifeInv ==
  /\ \A n \in Filled : LifeOf(n) = 0 => vpc \in {"kick", "ageAlarm"} /\ n = cur
  /\ vpc = "fill" => life[cur] = 0 /\ alife[cur] = 0

(* What Left says, a peer at a time. *)
LeftInv ==
  /\ \A n \in Filled : Left(pid[n]) = LifeOf(n)
  /\ \A p \in Pids \ Known : Left(p) = 0

LEMMA LeftIsLife == TableInv /\ PidInv => LeftInv
<1> SUFFICES ASSUME TableInv, PidInv PROVE LeftInv
  OBVIOUS
<1>1. ASSUME NEW n \in Filled PROVE Left(pid[n]) = LifeOf(n)
  <2> DEFINE c == CHOOSE k \in Filled : pid[k] = pid[n]
  <2>1. c \in Filled /\ pid[c] = pid[n]
    OBVIOUS
  <2>2. c = n
    BY <2>1 DEF PidInv, UniquePids
  <2>3. pid[n] \in Known
    BY DEF Known
  <2> HIDE DEF c
  <2>4. Left(pid[n]) = IF life[c] > alife[c] THEN life[c] ELSE alife[c]
    BY <2>3 DEF Left, c
  <2> QED BY <2>2, <2>4 DEF LifeOf
<1>2. \A p \in Pids \ Known : Left(p) = 0
  BY DEF Left
<1> QED BY <1>1, <1>2 DEF LeftInv

(* Lives are numbers. *)
LEMMA LifeTypes ==
  ASSUME TableInv
  PROVE  /\ \A n \in Nodes : life[n] \in Nat /\ alife[n] \in Nat /\ LifeOf(n) \in Nat
         /\ \A n \in Nodes : life[n] <= MaxLife /\ alife[n] <= AlertMaxLife
         /\ MaxLife \in Nat \ {0} /\ AlertMaxLife \in Nat \ {0}
         /\ Filled \subseteq neigh /\ neigh \subseteq Nodes /\ free \subseteq Nodes
<1>1. MaxLife \in Nat \ {0} /\ AlertMaxLife \in Nat \ {0}
  BY VamNeighbourAssumption
<1>2. life \in [Nodes -> 0..MaxLife] /\ alife \in [Nodes -> 0..AlertMaxLife]
  BY DEF TableInv, TypeOK
<1>3. ASSUME NEW n \in Nodes
      PROVE  /\ life[n] \in Nat /\ alife[n] \in Nat /\ LifeOf(n) \in Nat
             /\ life[n] <= MaxLife /\ alife[n] <= AlertMaxLife
  <2>1. life[n] \in 0..MaxLife /\ alife[n] \in 0..AlertMaxLife
    BY <1>2
  <2> QED BY <1>1, <2>1 DEF LifeOf
<1> QED BY <1>1, <1>3 DEF TableInv, TypeOK, Filled

(* What a frame does to the life of its node. *)
LEMMA ParseLife ==
  ASSUME TableInv, NEW m \in Message, m.type \in Heard, NEW n \in Nodes, Parse(m, n)
  PROVE  /\ \A k \in Nodes \ {n} : life'[k] = life[k] /\ alife'[k] = alife[k]
         /\ life'[n] = IF m.type = "evam" THEN life[n] ELSE MaxLife
         /\ alife'[n] = IF m.type = "bsm" THEN alife[n] ELSE AlertMaxLife
         /\ \E k \in {MaxLife, AlertMaxLife} :
              LifeOf(n)' = IF LifeOf(n) < k THEN k ELSE LifeOf(n)
         /\ LifeOf(n)' > 0
<1>1. life \in [Nodes -> 0..MaxLife] /\ alife \in [Nodes -> 0..AlertMaxLife]
  BY DEF TableInv, TypeOK
<1>2. /\ life'  = [life EXCEPT ![n] = IF m.type = "evam" THEN @ ELSE MaxLife]
      /\ alife' = [alife EXCEPT ![n] = IF m.type = "bsm" THEN @ ELSE AlertMaxLife]
  BY DEF Parse
<1>3. \A k \in Nodes \ {n} : life'[k] = life[k] /\ alife'[k] = alife[k]
  BY <1>1, <1>2
<1>4. /\ life'[n] = IF m.type = "evam" THEN life[n] ELSE MaxLife
      /\ alife'[n] = IF m.type = "bsm" THEN alife[n] ELSE AlertMaxLife
  BY <1>1, <1>2
<1>5. /\ life[n] \in Nat /\ alife[n] \in Nat /\ life[n] <= MaxLife /\ alife[n] <= AlertMaxLife
      /\ MaxLife \in Nat \ {0} /\ AlertMaxLife \in Nat \ {0}
  BY LifeTypes
<1>6. LifeOf(n)' = IF life'[n] > alife'[n] THEN life'[n] ELSE alife'[n]
  BY DEF LifeOf
<1>7. CASE m.type = "bsm"
  <2>1. life'[n] = MaxLife /\ alife'[n] = alife[n]
    BY <1>4, <1>7
  <2>2. LifeOf(n)' = (IF LifeOf(n) < MaxLife THEN MaxLife ELSE LifeOf(n)) /\ LifeOf(n)' > 0
    BY <1>5, <1>6, <2>1 DEF LifeOf
  <2> QED BY <1>3, <1>4, <2>2
<1>8. CASE m.type = "evam"
  <2>1. life'[n] = life[n] /\ alife'[n] = AlertMaxLife
    BY <1>4, <1>8
  <2>2. /\ LifeOf(n)' = IF LifeOf(n) < AlertMaxLife THEN AlertMaxLife ELSE LifeOf(n)
        /\ LifeOf(n)' > 0
    BY <1>5, <1>6, <2>1 DEF LifeOf
  <2> QED BY <1>3, <1>4, <2>2
<1>9. CASE m.type = "ext"
  <2>1. life'[n] = MaxLife /\ alife'[n] = AlertMaxLife
    BY <1>4, <1>9
  <2>2. \/ LifeOf(n)' = IF LifeOf(n) < MaxLife THEN MaxLife ELSE LifeOf(n)
        \/ LifeOf(n)' = IF LifeOf(n) < AlertMaxLife THEN AlertMaxLife ELSE LifeOf(n)
    BY <1>5, <1>6, <2>1 DEF LifeOf
  <2>3. LifeOf(n)' > 0
    BY <1>5, <1>6, <2>1
  <2> QED BY <1>3, <1>4, <2>2, <2>3
<1> QED BY <1>7, <1>8, <1>9 DEF Heard

(* Steps that leave the nodes, and what Left reads of them, as they are.   *)
Quiet ==
  \/ \E f \in Frame : Receive(f)
  \/ NeighTick \/ SysStart \/ Stop \/ VamStart \/ VamStop \/ VamOther
  \/ VamHearNew \/ VamNoFree \/ VamAlarm \/ VamTimeout \/ VamUpdate \/ VamUpdateEmpty
  \/ VamUpdateDone \/ UNCHANGED vars
  \/ \E r \in Readers : ReadNext(r)

LEMMA QuietStep ==
  ASSUME TableInv, Quiet
  PROVE  /\ UNCHANGED table
         /\ vpc' = "fill" <=> vpc = "fill"
         /\ \/ vpc' = vpc \/ vpc \in {"recv", "join", "update", "age", "alarm"}
            \/ vpc = "ageAlarm" /\ vpc' = "kick"
         /\ vpc \in {"fill", "kick", "ageAlarm"} => cur' = cur
<1> USE DEF TableInv
<1>1. ASSUME NEW r \in Readers, ReadNext(r) PROVE UNCHANGED <<table, vpc, cur>>
  BY <1>1
  DEF ReadNext, ReadTakePids, ReadPids, ReadTakePeer, ReadFound, ReadRelease, ReadDone, vamVars
<1>2. ASSUME \/ \E f \in Frame : Receive(f)
             \/ NeighTick \/ SysStart \/ Stop \/ VamStart \/ VamStop \/ VamOther
             \/ UNCHANGED vars
      PROVE  UNCHANGED <<table, vpc, cur>>
  BY <1>2
  DEF Receive, NeighTick, SysStart, Stop, VamStart, VamStop, VamOther, vars, vamVars
<1>3. CASE VamHearNew \/ VamTimeout
  BY <1>3 DEF VamHearNew, VamTimeout, At
<1>4. CASE VamNoFree
  BY <1>4 DEF VamNoFree, FrameDone
<1>5. CASE VamAlarm
  BY <1>5 DEF VamAlarm, FrameDone
<1>6. CASE VamUpdate \/ VamUpdateEmpty \/ VamUpdateDone
  BY <1>6 DEF VamUpdate, VamUpdateEmpty, VamUpdateDone
<1> QED BY <1>1, <1>2, <1>3, <1>4, <1>5, <1>6 DEF Quiet

LEMMA Steps ==
  ASSUME [Next]_vars
  PROVE  Quiet \/ VamHearKnown \/ VamJoin \/ VamFill \/ VamAge \/ VamKick
BY DEF Next, VamNext, Quiet

(* The five others. *)
LEMMA HearKnownStep ==
  ASSUME TableInv, VamHearKnown
  PROVE  \E m \in Message, n \in neigh :
           /\ m.type \in Heard /\ pid[n] = m.pid /\ m.pid \in Pids /\ n \in Filled
           /\ Parse(m, n)
           /\ UNCHANGED <<free, neigh, pid>> /\ Filled = neigh /\ Filled' = neigh
           /\ vpc = "recv" /\ vpc' \in {"recv", "alarm"}
<1>1. queue # <<>> /\ queue \in Seq(Message) /\ Head(queue).type \in Heard /\ vpc = "recv"
  BY DEF VamHearKnown, At, TableInv, TypeOK, Heard
<1>2. Head(queue) \in Message
  BY <1>1
<1>3. PICK n \in neigh : pid[n] = Head(queue).pid /\ Parse(Head(queue), n)
  BY DEF VamHearKnown
<1>4. n \in Nodes
  BY <1>3 DEF TableInv, TypeOK
<1>5. vpc' \in {"recv", "alarm"}
  BY <1>1, <1>2, <1>3, <1>4, ParseType DEF TableInv
<1>6. Head(queue).pid \in Pids
  BY <1>1, <1>2, MessageFields
<1>7. UNCHANGED <<free, neigh, pid>>
  BY <1>3 DEF VamHearKnown, Parse
<1>8. Filled = neigh /\ Filled' = neigh
  BY <1>1, <1>5, <1>7 DEF Filled
<1> QED BY <1>1, <1>2, <1>3, <1>5, <1>6, <1>7, <1>8

LEMMA FillStep ==
  ASSUME TableInv, VamFill
  PROVE  /\ msg \in Message /\ msg.type \in Heard /\ msg.pid \in Pids
         /\ cur \in neigh /\ Parse(msg, cur)
         /\ UNCHANGED <<free, neigh>> /\ pid' = [pid EXCEPT ![cur] = msg.pid]
         /\ vpc = "fill" /\ vpc' \in {"recv", "alarm"}
         /\ Filled = neigh \ {cur} /\ Filled' = neigh
<1>1. cur \in neigh /\ msg \in Message /\ msg.type \in Heard /\ vpc = "fill"
  BY DEF VamFill, TableInv, Control
<1>2. cur \in Nodes /\ Parse(msg, cur)
  BY <1>1 DEF VamFill, TableInv, TypeOK
<1>3. vpc' \in {"recv", "alarm"} /\ msg.pid \in Pids
  BY <1>1, <1>2, ParseType, MessageFields DEF TableInv
<1>4. UNCHANGED <<free, neigh>> /\ pid' = [pid EXCEPT ![cur] = msg.pid]
  BY DEF VamFill, Parse
<1>5. Filled = neigh \ {cur} /\ Filled' = neigh
  BY <1>1, <1>3, <1>4 DEF Filled
<1> QED BY <1>1, <1>2, <1>3, <1>4, <1>5

LEMMA JoinStep ==
  ASSUME TableInv, VamJoin
  PROVE  /\ \E n \in free : cur' = n /\ neigh' = neigh \cup {n}
         /\ UNCHANGED <<pid, life, alife>>
         /\ vpc = "join" /\ vpc' = "fill"
         /\ Filled = neigh /\ Filled' = neigh
<1>1. PICK n \in free : neigh' = neigh \cup {n} /\ cur' = n
  BY DEF VamJoin
<1>2. n \notin neigh
  BY <1>1 DEF TableInv, Partition
<1>3. vpc = "join" /\ vpc' = "fill" /\ UNCHANGED <<pid, life, alife>>
  BY DEF VamJoin
<1>4. Filled = neigh /\ Filled' = neigh
  BY <1>1, <1>2, <1>3 DEF Filled
<1> QED BY <1>1, <1>3, <1>4

LEMMA AgeStep ==
  ASSUME TableInv, VamAge
  PROVE  \E n \in neigh :
           /\ \A k \in Nodes \ {n} : life'[k] = life[k] /\ alife'[k] = alife[k]
           /\ life'[n] = Less(life[n]) /\ alife'[n] = Less(alife[n])
           /\ cur' = n /\ vpc = "age" /\ vpc' \in {"kick", "ageAlarm"}
           /\ UNCHANGED <<free, neigh, pid>> /\ Filled = neigh /\ Filled' = neigh
<1>1. PICK n \in todo :
          /\ life'  = [life EXCEPT ![n] = Less(@)]
          /\ alife' = [alife EXCEPT ![n] = Less(@)]
          /\ cur' = n /\ vpc' \in {"kick", "ageAlarm"}
  BY DEF VamAge
<1>2. vpc = "age" /\ UNCHANGED <<free, neigh, pid>>
  BY DEF VamAge
<1>3. n \in neigh /\ n \in Nodes
  BY <1>1, <1>2 DEF TableInv, Control, TypeOK
<1>4. life \in [Nodes -> 0..MaxLife] /\ alife \in [Nodes -> 0..AlertMaxLife]
  BY DEF TableInv, TypeOK
<1>5. Filled = neigh /\ Filled' = neigh
  BY <1>1, <1>2 DEF Filled
<1> QED BY <1>1, <1>2, <1>3, <1>4, <1>5

LEMMA KickStep ==
  ASSUME TableInv, VamKick
  PROVE  /\ cur \in neigh /\ vpc = "kick" /\ vpc' = "age"
         /\ UNCHANGED <<pid, life, alife>>
         /\ Filled = neigh /\ Filled' = neigh'
         /\ neigh' = IF LifeOf(cur) = 0 THEN neigh \ {cur} ELSE neigh
<1>1. vpc = "kick" /\ vpc' = "age" /\ UNCHANGED <<pid, life, alife>>
  BY DEF VamKick
<1>2. cur \in neigh /\ cur \in Nodes
  BY <1>1 DEF TableInv, Control, TypeOK
<1>3. Filled = neigh /\ Filled' = neigh'
  BY <1>1 DEF Filled
<1>4. life[cur] \in Nat /\ alife[cur] \in Nat
  BY <1>2, LifeTypes
<1>5. LifeOf(cur) = 0 <=> life[cur] = 0 /\ alife[cur] = 0
  BY <1>4 DEF LifeOf
<1> QED BY <1>1, <1>2, <1>3, <1>5 DEF VamKick

(* Every step keeps the lives of the filled nodes above zero. *)
LEMMA NextLife ==
  ASSUME TableInv, NoStaleAlert, LifeInv, [Next]_vars
  PROVE  LifeInv'
<1>1. CASE Quiet
  <2>1. /\ UNCHANGED table
        /\ vpc' = "fill" <=> vpc = "fill"
        /\ \/ vpc' = vpc \/ vpc \in {"recv", "join", "update", "age", "alarm"}
           \/ vpc = "ageAlarm" /\ vpc' = "kick"
        /\ vpc \in {"fill", "kick", "ageAlarm"} => cur' = cur
    BY <1>1, QuietStep
  <2>2. UNCHANGED <<neigh, life, alife>>
    BY <2>1 DEF table
  <2>3. Filled' = Filled
    BY <2>1, <2>2 DEF Filled
  <2>4. \A n : LifeOf(n)' = LifeOf(n)
    BY <2>2 DEF LifeOf
  <2>5. ASSUME NEW n \in Filled, LifeOf(n) = 0 PROVE vpc' \in {"kick", "ageAlarm"} /\ n = cur'
    <3>1. vpc \in {"kick", "ageAlarm"} /\ n = cur
      BY <2>5 DEF LifeInv
    <3> QED BY <2>1, <3>1
  <2>6. vpc' = "fill" => life'[cur'] = 0 /\ alife'[cur'] = 0
    BY <2>1, <2>2 DEF LifeInv
  <2>7. (\A n \in Filled : LifeOf(n) = 0 => vpc \in {"kick", "ageAlarm"} /\ n = cur)'
    BY <2>3, <2>4, <2>5
  <2> QED BY <2>6, <2>7 DEF LifeInv
<1>2. ASSUME NEW m \in Message, NEW n \in neigh, m.type \in Heard, Parse(m, n),
             Filled \cup {n} = neigh, Filled' = neigh, vpc \in {"recv", "fill"},
             vpc' \in {"recv", "alarm"}
      PROVE  LifeInv'
  <2>1. n \in Nodes /\ neigh \subseteq Nodes
    BY DEF TableInv, TypeOK
  <2>2. /\ \A k \in Nodes \ {n} : life'[k] = life[k] /\ alife'[k] = alife[k]
        /\ LifeOf(n)' > 0
    BY <1>2, <2>1, ParseLife
  <2>3. \A k \in Nodes \ {n} : LifeOf(k)' = LifeOf(k)
    BY <2>2 DEF LifeOf
  <2>4. \A k \in neigh : LifeOf(k)' # 0
    BY <1>2, <2>1, <2>2, <2>3 DEF LifeInv
  <2>5. (\A k \in Filled : LifeOf(k) # 0)'
    BY <1>2, <2>4
  <2> QED BY <1>2, <2>5 DEF LifeInv
<1>3. CASE VamHearKnown
  BY <1>2, <1>3, HearKnownStep
<1>4. CASE VamFill
  <2>1. Filled \cup {cur} = neigh
    BY <1>4, FillStep
  <2> QED BY <1>2, <1>4, <2>1, FillStep
<1>5. CASE VamJoin
  <2>1. /\ \E n \in free : cur' = n
        /\ UNCHANGED <<life, alife>>
        /\ vpc = "join" /\ vpc' = "fill" /\ Filled = neigh /\ Filled' = neigh
    BY <1>5, JoinStep
  <2>2. life'[cur'] = 0 /\ alife'[cur'] = 0
    BY <2>1 DEF NoStaleAlert
  <2>3. \A n : LifeOf(n)' = LifeOf(n)
    BY <2>1 DEF LifeOf
  <2>4. (\A n \in Filled : LifeOf(n) # 0)'
    BY <2>1, <2>3 DEF LifeInv
  <2> QED BY <2>2, <2>4 DEF LifeInv
<1>6. CASE VamAge
  <2> PICK n \in neigh :
           /\ \A k \in Nodes \ {n} : life'[k] = life[k] /\ alife'[k] = alife[k]
           /\ cur' = n /\ vpc = "age" /\ vpc' \in {"kick", "ageAlarm"}
           /\ Filled = neigh /\ Filled' = neigh
    BY <1>6, AgeStep
  <2>1. \A k \in neigh \ {n} : LifeOf(k)' = LifeOf(k)
    BY DEF LifeOf, TableInv, TypeOK
  <2>2. \A k \in neigh \ {n} : LifeOf(k)' # 0
    BY <2>1 DEF LifeInv
  <2>3. (\A k \in Filled : LifeOf(k) = 0 => vpc \in {"kick", "ageAlarm"} /\ k = cur)'
    BY <2>2
  <2> QED BY <2>3 DEF LifeInv
<1>7. CASE VamKick
  <2>1. /\ vpc = "kick" /\ vpc' = "age" /\ UNCHANGED <<life, alife>>
        /\ Filled = neigh /\ Filled' = neigh'
        /\ neigh' = IF LifeOf(cur) = 0 THEN neigh \ {cur} ELSE neigh
    BY <1>7, KickStep
  <2>2. \A n : LifeOf(n)' = LifeOf(n)
    BY <2>1 DEF LifeOf
  <2>3. \A k \in neigh' : LifeOf(k) # 0
    BY <2>1 DEF LifeInv
  <2>4. (\A k \in Filled : LifeOf(k) # 0)'
    BY <2>1, <2>2, <2>3
  <2> QED BY <2>1, <2>4 DEF LifeInv
<1> QED BY <1>1, <1>3, <1>4, <1>5, <1>6, <1>7, Steps

(* A peer whose node, and that node's life, a step leaves alone. *)
LEMMA SamePeer ==
  ASSUME LeftInv, LeftInv', NEW q \in Pids,
         \A k : (k \in Filled /\ pid[k] = q) <=> (k \in Filled' /\ pid'[k] = q),
         \A k \in Filled : pid[k] = q => LifeOf(k)' = LifeOf(k)
  PROVE  Left(q)' = Left(q)
<1>1. CASE q \in Known
  <2>1. PICK k \in Filled : pid[k] = q
    BY <1>1 DEF Known
  <2>2. k \in Filled' /\ pid'[k] = q
    BY <2>1
  <2>3. Left(q) = LifeOf(k)
    BY <2>1 DEF LeftInv
  <2>4. Left(q)' = LifeOf(k)'
    BY <2>2 DEF LeftInv
  <2> QED BY <2>1, <2>3, <2>4
<1>2. CASE q \notin Known
  <2>1. q \notin Known'
    BY <1>2 DEF Known
  <2> QED BY <1>2, <2>1 DEF LeftInv
<1> QED BY <1>1, <1>2

(* A step that leaves every peer alone; one peer ages; one is heard. *)
LEMMA AbstractStutter ==
  ASSUME \A q \in Pids : Left(q)' = Left(q)
  PROVE  [PT!Next]_([p \in Pids |-> Left(p)])
OBVIOUS

LEMMA AbstractAge ==
  ASSUME NEW p \in Pids, Left(p) \in Nat, Left(p) > 0, Left(p)' = Left(p) - 1,
         \A q \in Pids \ {p} : Left(q)' = Left(q)
  PROVE  PT!Next
<1> DEFINE l == [q \in Pids |-> Left(q)]
<1>1. p \in PT!Present
  BY DEF PT!Present
<1>2. [q \in Pids |-> Left(q)'] = [l EXCEPT ![p] = @ - 1]
  OBVIOUS
<1>3. PT!Age(p)
  BY <1>1, <1>2 DEF PT!Age
<1> QED BY <1>3 DEF PT!Next

(* The cardinality PeerTable counts with is that of FiniteSets. *)
LEMMA PresentCount == Cardinality(PT!Present) = PT!Cardinality(PT!Present)
BY DEF Cardinality, PT!Cardinality

LEMMA AbstractHear ==
  ASSUME NEW p \in Pids, NEW k \in {MaxLife, AlertMaxLife},
         Left(p)' = IF Left(p) < k THEN k ELSE Left(p),
         \A q \in Pids \ {p} : Left(q)' = Left(q),
         p \in PT!Present \/ Cardinality(PT!Present) < Cardinality(Nodes)
  PROVE  PT!Next
<1> DEFINE l == [q \in Pids |-> Left(q)]
<1>1. [q \in Pids |-> Left(q)'] = [l EXCEPT ![p] = IF @ < k THEN k ELSE @]
  OBVIOUS
<1>2. PT!Hear(p, k)
  BY <1>1, PresentCount DEF PT!Hear
<1> QED BY <1>2 DEF PT!Next

(* While a node has joined and is not yet filled there is room. *)
LEMMA RoomToFill ==
  ASSUME TableInv, LeftInv, vpc = "fill"
  PROVE  Cardinality(PT!Present) < Cardinality(Nodes)
<1> DEFINE F == neigh \ {cur}
           h == [n \in F |-> pid[n]]
<1>1. cur \in neigh /\ neigh \subseteq Nodes /\ IsFiniteSet(Nodes)
  BY VamNeighbourAssumption DEF TableInv, TypeOK, Control
<1>2. Filled = F
  BY DEF Filled
<1>3. /\ IsFiniteSet(Nodes \ {cur}) /\ F \in SUBSET (Nodes \ {cur})
      /\ Cardinality(Nodes \ {cur}) = Cardinality(Nodes) - 1
      /\ Cardinality(Nodes) \in Nat
  <2>1. cur \in Nodes
    BY <1>1
  <2> QED BY <1>1, <2>1, FS_RemoveElement, FS_CardinalityType
<1>4. IsFiniteSet(F) /\ Cardinality(F) <= Cardinality(Nodes) - 1 /\ Cardinality(F) \in Nat
  <2>1. IsFiniteSet(F) /\ Cardinality(F) <= Cardinality(Nodes \ {cur})
    BY <1>3, FS_Subset
  <2> QED BY <1>3, <2>1, FS_CardinalityType
<1>5. h \in Surjection(F, Known)
  BY <1>2 DEF Surjection, Known
<1> HIDE DEF F, h
<1>6. IsFiniteSet(Known) /\ Cardinality(Known) <= Cardinality(F)
  BY <1>4, <1>5, FS_Surjection
<1>7. PT!Present \in SUBSET Known
  <2> SUFFICES ASSUME NEW p \in Pids, Left(p) > 0, p \notin Known PROVE FALSE
    BY DEF PT!Present
  <2>1. Left(p) = 0
    BY DEF LeftInv
  <2> QED BY <2>1
<1>8. /\ Cardinality(PT!Present) <= Cardinality(Known)
      /\ Cardinality(PT!Present) \in Nat /\ Cardinality(Known) \in Nat
  BY <1>6, <1>7, FS_Subset, FS_CardinalityType
<1> QED BY <1>3, <1>4, <1>6, <1>8

(* Each step is a step of PeerTable, or none that it sees. *)
LEMMA PeerStep ==
  ASSUME TableInv, TableInv', PidInv, LifeInv, LeftInv, LeftInv', [Next]_vars
  PROVE  [PT!Next]_([p \in Pids |-> Left(p)])
<1>n. neigh \subseteq Nodes /\ pid \in [Nodes -> Pids \cup {NoPid}]
  BY DEF TableInv, TypeOK
<1>1. CASE Quiet
  <2>1. UNCHANGED <<neigh, pid, life, alife>> /\ Filled' = Filled
    BY <1>1, QuietStep DEF table, Filled
  <2>2. \A k : LifeOf(k)' = LifeOf(k)
    BY <2>1 DEF LifeOf
  <2>3. \A q \in Pids : Left(q)' = Left(q)
    BY <2>1, <2>2, SamePeer
  <2> QED BY <2>3, AbstractStutter
<1>2. CASE VamHearKnown
  <2> PICK m \in Message, n \in neigh :
           /\ m.type \in Heard /\ pid[n] = m.pid /\ m.pid \in Pids /\ n \in Filled
           /\ Parse(m, n)
           /\ UNCHANGED pid /\ Filled = neigh /\ Filled' = neigh /\ vpc = "recv"
    BY <1>2, HearKnownStep
  <2> DEFINE p == pid[n]
  <2>1. n \in Nodes
    BY <1>n
  <2>2. \A k \in Nodes \ {n} : life'[k] = life[k] /\ alife'[k] = alife[k]
    BY <2>1, ParseLife
  <2>3. PICK z \in {MaxLife, AlertMaxLife} : LifeOf(n)' = IF LifeOf(n) < z THEN z ELSE LifeOf(n)
    BY <2>1, ParseLife
  <2>4. \A k \in Nodes \ {n} : LifeOf(k)' = LifeOf(k)
    BY <2>2 DEF LifeOf
  <2>5. ASSUME NEW q \in Pids \ {p} PROVE Left(q)' = Left(q)
    <3>1. \A k \in Filled : pid[k] = q => k \in Nodes \ {n}
      BY <1>n
    <3> QED BY <2>4, <3>1, SamePeer
  <2>6. Left(p) = LifeOf(n)
    BY DEF LeftInv
  <2>7. Left(p)' = LifeOf(n)'
    <3>1. (Left(pid[n]) = LifeOf(n))'
      BY DEF LeftInv
    <3> QED BY <3>1
  <2>8. p \in PT!Present
    <3>1. LifeOf(n) # 0 /\ LifeOf(n) \in Nat
      BY <2>1, LifeTypes DEF LifeInv
    <3> QED BY <2>6, <3>1 DEF PT!Present
  <2>9. p \in Pids
    OBVIOUS
  <2>10. Left(p)' = IF Left(p) < z THEN z ELSE Left(p)
    BY <2>3, <2>6, <2>7
  <2> QED BY <2>5, <2>8, <2>9, <2>10, AbstractHear
<1>3. CASE VamFill
  <2>1. /\ msg \in Message /\ msg.type \in Heard /\ msg.pid \in Pids
        /\ cur \in neigh /\ Parse(msg, cur)
        /\ pid' = [pid EXCEPT ![cur] = msg.pid]
        /\ vpc = "fill" /\ Filled = neigh \ {cur} /\ Filled' = neigh
    BY <1>3, FillStep
  <2> DEFINE p == msg.pid
  <2> PICK c \in neigh, d \in Pids : c = cur /\ d = msg.pid
    BY <2>1
  <2>2. c \in Nodes
    BY <1>n
  <2>3. \A k \in Nodes \ {c} : life'[k] = life[k] /\ alife'[k] = alife[k]
    BY <2>1, <2>2, ParseLife
  <2>4. PICK z \in {MaxLife, AlertMaxLife} : LifeOf(c)' = IF LifeOf(c) < z THEN z ELSE LifeOf(c)
    BY <2>1, <2>2, ParseLife
  <2>5. \A k \in Nodes \ {c} : LifeOf(k)' = LifeOf(k)
    BY <2>3 DEF LifeOf
  <2>6. pid'[c] = d /\ \A k \in Nodes \ {c} : pid'[k] = pid[k]
    BY <1>n, <2>1, <2>2
  <2>7. \A k \in Filled : k \in Nodes \ {c} /\ pid[k] # d
    BY <1>n, <2>1 DEF PidInv
  <2>8. ASSUME NEW q \in Pids \ {d} PROVE Left(q)' = Left(q)
    <3>1. \A k : (k \in Filled /\ pid[k] = q) <=> (k \in Filled' /\ pid'[k] = q)
      BY <1>n, <2>1, <2>6, <2>7
    <3>2. \A k \in Filled : LifeOf(k)' = LifeOf(k)
      BY <2>5, <2>7
    <3> QED BY <3>1, <3>2, SamePeer
  <2>9. Left(d) = 0 /\ LifeOf(c) = 0
    BY <2>1, <2>7 DEF LeftInv, Known, LifeInv, LifeOf
  <2>10. Left(d)' = LifeOf(c)'
    <3>1. (\A k \in Filled : Left(pid[k]) = LifeOf(k))'
      BY DEF LeftInv
    <3>2. (Left(pid[c]) = LifeOf(c))'
      BY <2>1, <3>1
    <3> QED BY <2>6, <3>2
  <2>11. Left(d)' = IF Left(d) < z THEN z ELSE Left(d)
    BY <2>4, <2>9, <2>10
  <2>12. Cardinality(PT!Present) < Cardinality(Nodes)
    BY <2>1, RoomToFill
  <2> QED BY <2>8, <2>11, <2>12, AbstractHear
<1>4. CASE VamJoin
  <2>1. UNCHANGED <<pid, life, alife>> /\ Filled' = Filled
    BY <1>4, JoinStep
  <2>2. \A k : LifeOf(k)' = LifeOf(k)
    BY <2>1 DEF LifeOf
  <2>3. \A q \in Pids : Left(q)' = Left(q)
    BY <2>1, <2>2, SamePeer
  <2> QED BY <2>3, AbstractStutter
<1>5. CASE VamAge
  <2> PICK n \in neigh :
           /\ \A k \in Nodes \ {n} : life'[k] = life[k] /\ alife'[k] = alife[k]
           /\ life'[n] = Less(life[n]) /\ alife'[n] = Less(alife[n])
           /\ vpc = "age" /\ UNCHANGED pid /\ Filled = neigh /\ Filled' = neigh
    BY <1>5, AgeStep
  <2>1. n \in Nodes /\ pid[n] \in Pids
    BY <1>n DEF PidInv, UniquePids
  <2> PICK p \in Pids : p = pid[n]
    BY <2>1
  <2>2. \A k \in Nodes \ {n} : LifeOf(k)' = LifeOf(k)
    BY DEF LifeOf
  <2>3. ASSUME NEW q \in Pids \ {p} PROVE Left(q)' = Left(q)
    <3>1. \A k \in Filled : pid[k] = q => k \in Nodes \ {n}
      BY <1>n
    <3> QED BY <2>2, <3>1, SamePeer
  <2>4. Left(p) = LifeOf(n)
    BY DEF LeftInv
  <2>5. Left(p)' = LifeOf(n)'
    <3>1. (\A k \in Filled : Left(pid[k]) = LifeOf(k))'
      BY DEF LeftInv
    <3>2. (Left(pid[n]) = LifeOf(n))'
      BY <3>1
    <3> QED BY <3>2
  <2>6. LifeOf(n) # 0 /\ LifeOf(n) \in Nat /\ life[n] \in Nat /\ alife[n] \in Nat
    BY <2>1, LifeTypes DEF LifeInv
  <2>7. LifeOf(n)' = IF life'[n] > alife'[n] THEN life'[n] ELSE alife'[n]
    BY DEF LifeOf
  <2>8. LifeOf(n)' = LifeOf(n) - 1
    BY <2>6, <2>7 DEF LifeOf, Less
  <2>9. Left(p) \in Nat /\ Left(p) > 0 /\ Left(p)' = Left(p) - 1
    BY <2>4, <2>5, <2>6, <2>8
  <2> QED BY <2>3, <2>9, AbstractAge
<1>6. CASE VamKick
  <2>1. /\ cur \in neigh /\ UNCHANGED <<pid, life, alife>>
        /\ Filled = neigh /\ Filled' = neigh'
        /\ neigh' = IF LifeOf(cur) = 0 THEN neigh \ {cur} ELSE neigh
    BY <1>6, KickStep
  <2>2. \A k : LifeOf(k)' = LifeOf(k)
    BY <2>1 DEF LifeOf
  <2>3. ASSUME NEW q \in Pids, q # pid[cur] \/ LifeOf(cur) # 0 PROVE Left(q)' = Left(q)
    <3>1. \A k : (k \in Filled /\ pid[k] = q) <=> (k \in Filled' /\ pid'[k] = q)
      BY <2>1, <2>3
    <3> QED BY <2>2, <3>1, SamePeer
  <2>4. ASSUME NEW q \in Pids, q = pid[cur], LifeOf(cur) = 0 PROVE Left(q)' = Left(q)
    <3>1. Left(q) = 0
      BY <2>1, <2>4 DEF LeftInv
    <3>2. \A k \in neigh \ {cur} : pid[k] # q
      BY <2>1, <2>4 DEF PidInv, UniquePids
    <3>3. q \notin Known'
      BY <2>1, <2>4, <3>2 DEF Known
    <3>4. Left(q)' = 0
      BY <3>3 DEF LeftInv
    <3> QED BY <3>1, <3>4
  <2>5. \A q \in Pids : Left(q)' = Left(q)
    BY <2>3, <2>4
  <2> QED BY <2>5, AbstractStutter
<1> QED BY <1>1, <1>2, <1>3, <1>4, <1>5, <1>6, Steps

(* The neighbour table implements PeerTable: through every interleaving of *)
(* joins, ageing and walkers, a peer stays as long as its last frame       *)
(* allows and not a tick longer, and nobody is evicted for a newcomer.     *)
THEOREM TableIsAPeerTable == Spec => ImplementsPeerTable
<1>1. Init => PidInv /\ LifeInv /\ NoStaleAlert
  BY DEF Init, PidInv, UniquePids, Filled, LifeInv, NoStaleAlert
<1>2. Init => PT!Init
  <2> SUFFICES ASSUME Init PROVE PT!Init
    OBVIOUS
  <2>1. Known = {}
    BY DEF Init, Known, Filled
  <2>2. \A p \in Pids : Left(p) = 0
    BY <2>1 DEF Left
  <2> QED BY <2>2 DEF PT!Init
<1>3. TableInv /\ NoStaleAlert /\ LifeInv /\ PidInv /\ [Next]_vars
        => NoStaleAlert' /\ LifeInv' /\ PidInv'
  BY NextNoStaleAlert, NextLife, NextPidInv
<1>4. TableInv /\ PidInv => LeftInv
  BY LeftIsLife
<1>5. TableInv /\ TableInv' /\ PidInv /\ LifeInv /\ LeftInv /\ LeftInv' /\ [Next]_vars
        => [PT!Next]_([p \in Pids |-> Left(p)])
  BY PeerStep
<1> QED BY <1>1, <1>2, <1>3, <1>4, <1>5, TableInvariant, PTL
        DEF Spec, ImplementsPeerTable, PT!Spec

-----------------------------------------------------------------------------
(* The frames in a queue. *)
FramesIn(q) == Cardinality({i \in DOMAIN q : q[i] \in Frame})

LEMMA FramesAppended ==
  ASSUME NEW q \in Seq(Message), NEW m \in Message
  PROVE  /\ FramesIn(q) \in Nat
         /\ FramesIn(Append(q, m)) = FramesIn(q) + (IF m \in Frame THEN 1 ELSE 0)
<1> DEFINE n == Len(q)
           S == {i \in DOMAIN q : q[i] \in Frame}
           r == Append(q, m)
           T == {i \in DOMAIN r : r[i] \in Frame}
<1>1. n \in Nat /\ DOMAIN q = 1..n /\ DOMAIN r = 1..(n + 1)
  OBVIOUS
<1>2. r[n + 1] = m /\ \A i \in 1..n : r[i] = q[i]
  OBVIOUS
<1>3. S \in SUBSET (1..n)
  BY <1>1
<1>4. IsFiniteSet(S) /\ Cardinality(S) \in Nat
  <2>1. IsFiniteSet(1..n)
    BY <1>1, FS_Interval
  <2> QED BY <1>3, <2>1, FS_Subset, FS_CardinalityType
<1>5. n + 1 \notin S
  BY <1>1, <1>3
<1>6. T = IF m \in Frame THEN S \cup {n + 1} ELSE S
  <2>1. \A i : i \in 1..(n + 1) <=> i \in 1..n \/ i = n + 1
    BY <1>1
  <2>2. \A i : i \in T <=> i \in S \/ (i = n + 1 /\ m \in Frame)
    BY <1>1, <1>2, <2>1
  <2> QED BY <2>2
<1> HIDE DEF S, T, n
<1>7. Cardinality(S \cup {n + 1}) = Cardinality(S) + 1
  BY <1>4, <1>5, FS_AddElement
<1>8. Cardinality(T) = Cardinality(S) + (IF m \in Frame THEN 1 ELSE 0)
  BY <1>4, <1>6, <1>7
<1> QED BY <1>4, <1>8 DEF FramesIn, S, T

LEMMA FramesTaken ==
  ASSUME NEW q \in Seq(Message), q # <<>>
  PROVE  /\ FramesIn(q) \in Nat /\ FramesIn(Tail(q)) \in Nat
         /\ FramesIn(q) = FramesIn(Tail(q)) + (IF Head(q) \in Frame THEN 1 ELSE 0)
<1> DEFINE n == Len(q)
           r == Tail(q)
           S == {i \in DOMAIN r : r[i] \in Frame}
           T == {i \in DOMAIN q : q[i] \in Frame}
           U == T \ {1}
           f == [i \in S |-> i + 1]
<1>1. n \in Nat /\ n > 0 /\ DOMAIN q = 1..n /\ DOMAIN r = 1..(n - 1) /\ Head(q) = q[1]
  OBVIOUS
<1>2. \A i \in 1..(n - 1) : r[i] = q[i + 1]
  OBVIOUS
<1>3. S \in SUBSET (1..(n - 1)) /\ T \in SUBSET (1..n)
  BY <1>1
<1>4. IsFiniteSet(T) /\ Cardinality(T) \in Nat /\ IsFiniteSet(S) /\ Cardinality(S) \in Nat
  <2>1. IsFiniteSet(1..n) /\ IsFiniteSet(1..(n - 1))
    BY <1>1, FS_Interval
  <2> QED BY <1>3, <2>1, FS_Subset, FS_CardinalityType
<1>5. \A i \in S : i \in Nat /\ i + 1 \in U
  BY <1>1, <1>2, <1>3
<1>6. \A i \in U : i \in Nat /\ i - 1 \in S /\ (i - 1) + 1 = i
  <2> SUFFICES ASSUME NEW i \in U PROVE i \in Nat /\ i - 1 \in S /\ (i - 1) + 1 = i
    OBVIOUS
  <2>1. i \in 1..n /\ i # 1 /\ q[i] \in Frame
    BY <1>1
  <2>2. i - 1 \in 1..(n - 1) /\ (i - 1) + 1 = i /\ i \in Nat
    BY <1>1, <2>1
  <2> QED BY <1>1, <1>2, <2>1, <2>2
<1>7. 1 \in T <=> Head(q) \in Frame
  BY <1>1
<1> HIDE DEF S, T, n
<1>8. f \in Injection(S, U) /\ f \in Surjection(S, U)
  <2>1. f \in [S -> U] /\ \A i \in S : f[i] = i + 1
    BY <1>5
  <2>2. \A i, j \in S : f[i] = f[j] => i = j
    BY <1>5, <2>1
  <2>3. \A u \in U : \E i \in S : f[i] = u
    BY <1>6, <2>1
  <2> HIDE DEF f, U
  <2> QED BY <2>1, <2>2, <2>3 DEF Injection, IsInjective, Surjection
<1>9. IsFiniteSet(U) /\ Cardinality(U) = IF 1 \in T THEN Cardinality(T) - 1 ELSE Cardinality(T)
  BY <1>4, FS_RemoveElement
<1> HIDE DEF f, U
<1>10. Cardinality(S) = Cardinality(U)
  BY <1>8, <1>9, FS_Injection
<1>11. Cardinality(T) = Cardinality(S) + (IF Head(q) \in Frame THEN 1 ELSE 0)
  BY <1>4, <1>7, <1>9, <1>10
<1> QED BY <1>4, <1>11 DEF FramesIn, S, T

(* Whose frame the VAM thread works on; the queue is within its size. *)
MsgInv ==
  /\ Len(queue) <= QueueSize
  /\ IF vpc \in {"join", "fill", "alarm"} THEN msg \in Frame ELSE msg = Idle

InHand == IF msg \in Frame THEN 1 ELSE 0

(* The messages that carry a frame. *)
LEMMA FrameTypes ==
  /\ Idle \notin Frame /\ Frame \subseteq Message
  /\ \A m \in Message : m \in Frame <=> m.type \in Heard \cup {"other"}
<1>1. \A f \in Frame : f.type \in Heard \cup {"other"}
  BY DEF Frame, Heard
<1>2. \A m \in Message \ Frame : m.type \in {"start", "stop", "timeout"}
  BY DEF Message
<1>3. Idle.type = "idle"
  BY DEF Idle
<1> QED BY <1>1, <1>2, <1>3 DEF Message, Heard

(* A message put into the queue, or dropped at its end. *)
LEMMA EnqueueCount ==
  ASSUME TableInv, MsgInv, NEW m \in Message, Enqueue(m)
  PROVE  /\ Len(queue') <= QueueSize
         /\ FramesIn(queue) \in Nat
         /\ \/ Len(queue) = QueueSize
            \/ FramesIn(queue') = FramesIn(queue) + (IF m \in Frame THEN 1 ELSE 0)
<1>1. queue \in Seq(Message) /\ Len(queue) \in Nat /\ Len(queue) <= QueueSize /\ QueueSize \in Nat
  BY VamNeighbourAssumption DEF TableInv, TypeOK, MsgInv
<1>2. FramesIn(queue) \in Nat
  BY <1>1, FramesAppended
<1>3. CASE Len(queue) < QueueSize
  <2>1. queue' = Append(queue, m)
    BY <1>3 DEF Enqueue
  <2>2. Len(queue') = Len(queue) + 1
    BY <1>1, <2>1
  <2>3. FramesIn(queue') = FramesIn(queue) + (IF m \in Frame THEN 1 ELSE 0)
    BY <1>1, <2>1, FramesAppended
  <2> QED BY <1>1, <1>2, <1>3, <2>2, <2>3
<1>4. CASE ~(Len(queue) < QueueSize)
  BY <1>1, <1>2, <1>4 DEF Enqueue
<1> QED BY <1>3, <1>4

(* The message taken out of it. *)
LEMMA DequeueCount ==
  ASSUME TableInv, MsgInv, queue # <<>>, queue' = Tail(queue)
  PROVE  /\ Len(queue') <= QueueSize
         /\ Head(queue) \in Message
         /\ FramesIn(queue) \in Nat /\ FramesIn(queue') \in Nat
         /\ FramesIn(queue) = FramesIn(queue') + (IF Head(queue) \in Frame THEN 1 ELSE 0)
<1>1. queue \in Seq(Message) /\ QueueSize \in Nat /\ Len(queue) <= QueueSize
  BY VamNeighbourAssumption DEF TableInv, TypeOK, MsgInv
<1>2. Len(queue') = Len(queue) - 1 /\ Len(queue) \in Nat /\ Head(queue) \in Message
  BY <1>1
<1>3. /\ FramesIn(queue) \in Nat /\ FramesIn(queue') \in Nat
      /\ FramesIn(queue) = FramesIn(queue') + (IF Head(queue) \in Frame THEN 1 ELSE 0)
  BY <1>1, FramesTaken
<1> QED BY <1>1, <1>2, <1>3

(* What becomes of the frame that Parse is given. *)
LEMMA ParseHand ==
  ASSUME NEW m \in Frame, NEW n, Parse(m, n)
  PROVE  \/ vpc' = "alarm" /\ msg' = m /\ rxfree' = rxfree
         \/ vpc' = "recv" /\ msg' = Idle /\ rxfree' = rxfree + 1
BY DEF Parse, FrameDone

(* What a step does to the frames in the queue and in hand. *)
Balanced ==
  /\ MsgInv'
  /\ \/ Len(queue) = QueueSize
     \/ rxfree' + (FramesIn(queue') + InHand') = rxfree + (FramesIn(queue) + InHand)

LEMMA FrameBalance ==
  ASSUME TableInv, MsgInv, [Next]_vars
  PROVE  Balanced
<1> USE DEF TableInv
<1>0. /\ vpc \in VamPC /\ rxfree \in Nat /\ queue \in Seq(Message)
  BY DEF TypeOK
<1>c. \A t \in {"start", "stop", "timeout"} :
        [type |-> t] \in Message /\ [type |-> t] \notin Frame
  <2> SUFFICES ASSUME NEW t \in {"start", "stop", "timeout"}
               PROVE  [type |-> t] \in Message /\ [type |-> t] \notin Frame
    OBVIOUS
  <2>1. [type |-> t] \in Message /\ [type |-> t].type = t
    BY DEF Message
  <2> QED BY <2>1, FrameTypes DEF Heard
<1>q. FramesIn(queue) \in Nat
  BY <1>0, <1>c, FramesAppended
<1>1. ASSUME UNCHANGED <<queue, rxfree, msg>>,
             vpc' = vpc \/ {vpc, vpc'} \subseteq {"recv", "update", "age", "kick", "ageAlarm"}
                        \/ {vpc, vpc'} \subseteq {"join", "fill"}
      PROVE  Balanced
  BY <1>1 DEF Balanced, MsgInv, InHand
<1>2. ASSUME NEW f \in Frame, Receive(f) PROVE Balanced
  <2>1. f \in Message /\ rxfree' = rxfree - 1 /\ UNCHANGED <<vpc, msg>> /\ Enqueue(f)
    BY <1>2, FrameTypes DEF Receive, vamVars
  <2>2. /\ Len(queue') <= QueueSize
        /\ Len(queue) = QueueSize \/ FramesIn(queue') = FramesIn(queue) + 1
    BY <2>1, EnqueueCount
  <2>3. MsgInv'
    BY <2>1, <2>2 DEF MsgInv
  <2>4. InHand' = InHand /\ InHand \in {0, 1}
    BY <2>1 DEF InHand
  <2>5. CASE Len(queue) = QueueSize
    BY <2>3, <2>5 DEF Balanced
  <2>6. CASE FramesIn(queue') = FramesIn(queue) + 1
    <3>1. rxfree' + (FramesIn(queue') + InHand') = rxfree + (FramesIn(queue) + InHand)
      BY <1>0, <1>q, <2>1, <2>4, <2>6
    <3> QED BY <2>3, <3>1 DEF Balanced
  <2> QED BY <2>2, <2>5, <2>6
<1>3. ASSUME NEW t \in {"start", "stop", "timeout"}, Enqueue([type |-> t]),
             UNCHANGED <<rxfree, vpc, msg>>
      PROVE  Balanced
  <2>1. /\ Len(queue') <= QueueSize
        /\ Len(queue) = QueueSize \/ FramesIn(queue') = FramesIn(queue) + 0
    BY <1>3, <1>c, EnqueueCount
  <2>2. MsgInv'
    BY <1>3, <2>1 DEF MsgInv
  <2>3. InHand' = InHand
    BY <1>3 DEF InHand
  <2> QED BY <1>3, <1>q, <2>1, <2>2, <2>3 DEF Balanced
<1>4. CASE NeighTick
  BY <1>0, <1>3, <1>4 DEF NeighTick, vamVars
<1>5. CASE SysStart
  BY <1>3, <1>5 DEF SysStart, vamVars
<1>6. CASE Stop
  BY <1>3, <1>6 DEF Stop, vamVars
<1>7. ASSUME NEW t \in {"start", "stop", "timeout"}, At(t), queue' = Tail(queue),
             UNCHANGED <<rxfree, msg>>, vpc' \in {"recv", "update"}
      PROVE  Balanced
  <2>1. queue # <<>> /\ Head(queue).type = t /\ vpc = "recv"
    BY <1>7 DEF At
  <2>2. /\ Len(queue') <= QueueSize /\ Head(queue) \in Message
        /\ FramesIn(queue) \in Nat /\ FramesIn(queue') \in Nat
        /\ FramesIn(queue) = FramesIn(queue') + (IF Head(queue) \in Frame THEN 1 ELSE 0)
    BY <1>7, <2>1, DequeueCount
  <2>3. Head(queue) \notin Frame
    BY <2>1, <2>2, FrameTypes DEF Heard
  <2>4. MsgInv'
    BY <1>7, <2>1, <2>2 DEF MsgInv
  <2>5. FramesIn(queue') = FramesIn(queue)
    BY <2>2, <2>3
  <2> QED BY <1>7, <2>4, <2>5 DEF Balanced, InHand
<1>8. CASE VamStart \/ VamStop \/ VamTimeout
  <2>1. CASE VamStart
    BY <1>7, <2>1 DEF VamStart, At
  <2>2. CASE VamStop
    BY <1>7, <2>2 DEF VamStop, At
  <2>3. CASE VamTimeout
    BY <1>7, <2>3 DEF VamTimeout
  <2> QED BY <1>8, <2>1, <2>2, <2>3
(* A frame is taken out of the queue, and done or in hand. *)
<1>9. ASSUME NEW t \in Heard \cup {"other"}, At(t), queue' = Tail(queue),
             \/ vpc' \in {"alarm", "join"} /\ msg' = Head(queue) /\ rxfree' = rxfree
             \/ vpc' = "recv" /\ msg' = Idle /\ rxfree' = rxfree + 1
      PROVE  Balanced
  <2>1. queue # <<>> /\ Head(queue).type = t /\ vpc = "recv" /\ msg = Idle
    BY <1>9 DEF At, MsgInv
  <2>2. /\ Len(queue') <= QueueSize /\ Head(queue) \in Message
        /\ FramesIn(queue) \in Nat /\ FramesIn(queue') \in Nat
        /\ FramesIn(queue) = FramesIn(queue') + (IF Head(queue) \in Frame THEN 1 ELSE 0)
    BY <1>9, <2>1, DequeueCount
  <2>3. Head(queue) \in Frame
    BY <2>1, <2>2, FrameTypes
  <2>4. FramesIn(queue) = FramesIn(queue') + 1
    BY <2>2, <2>3
  <2>5. InHand = 0
    BY <2>1, FrameTypes DEF InHand
  <2>6. CASE vpc' \in {"alarm", "join"} /\ msg' = Head(queue) /\ rxfree' = rxfree
    <3>1. MsgInv'
      BY <2>2, <2>3, <2>6 DEF MsgInv
    <3>2. InHand' = 1
      BY <2>3, <2>6 DEF InHand
    <3> QED BY <1>0, <2>2, <2>4, <2>5, <2>6, <3>1, <3>2 DEF Balanced
  <2>7. CASE vpc' = "recv" /\ msg' = Idle /\ rxfree' = rxfree + 1
    <3>1. MsgInv'
      BY <2>2, <2>7 DEF MsgInv
    <3>2. InHand' = 0
      BY <2>7, FrameTypes DEF InHand
    <3> QED BY <1>0, <2>2, <2>4, <2>5, <2>7, <3>1, <3>2 DEF Balanced
  <2> QED BY <1>9, <2>6, <2>7
<1>10. CASE VamOther
  <2>1. vpc = "recv" /\ vpc' = vpc /\ msg' = msg /\ queue' = Tail(queue) /\ rxfree' = rxfree + 1
    BY <1>10 DEF VamOther, At, vamVars
  <2>2. msg = Idle
    BY <2>1 DEF MsgInv
  <2> QED BY <1>9, <1>10, <2>1, <2>2 DEF VamOther
<1>11. CASE VamHearNew
  BY <1>9, <1>11 DEF VamHearNew, Heard
<1>12. CASE VamHearKnown
  <2>1. PICK t \in Heard : At(t)
    BY <1>12 DEF VamHearKnown, Heard
  <2>2. queue' = Tail(queue) /\ \E n \in neigh : Parse(Head(queue), n)
    BY <1>12 DEF VamHearKnown
  <2>3. Head(queue) \in Frame
    <3>1. queue # <<>> /\ Head(queue).type = t
      BY <2>1 DEF At
    <3> QED BY <1>0, <2>1, <3>1, DequeueType, FrameTypes
  <2>4. \/ vpc' = "alarm" /\ msg' = Head(queue) /\ rxfree' = rxfree
        \/ vpc' = "recv" /\ msg' = Idle /\ rxfree' = rxfree + 1
    BY <2>2, <2>3, ParseHand
  <2> QED BY <1>9, <2>1, <2>2, <2>4
(* The frame in hand stays there, or is done. *)
<1>13. ASSUME vpc \in {"join", "fill", "alarm"}, queue' = queue,
              \/ vpc' = "alarm" /\ msg' = msg /\ rxfree' = rxfree
              \/ vpc' = "recv" /\ msg' = Idle /\ rxfree' = rxfree + 1
       PROVE  Balanced
  <2>1. InHand = 1
    BY <1>13 DEF MsgInv, InHand
  <2>2. CASE vpc' = "alarm" /\ msg' = msg /\ rxfree' = rxfree
    BY <1>13, <2>2 DEF Balanced, MsgInv, InHand
  <2>3. CASE vpc' = "recv" /\ msg' = Idle /\ rxfree' = rxfree + 1
    <3>1. InHand' = 0
      BY <2>3, FrameTypes DEF InHand
    <3>2. MsgInv'
      BY <1>13, <2>3 DEF MsgInv
    <3> QED BY <1>0, <1>q, <1>13, <2>1, <2>3, <3>1, <3>2 DEF Balanced
  <2> QED BY <1>13, <2>2, <2>3
<1>14. CASE VamFill
  <2>1. vpc = "fill" /\ queue' = queue /\ Parse(msg, cur) /\ msg \in Frame
    BY <1>14 DEF VamFill, MsgInv
  <2> QED BY <1>13, <2>1, ParseHand
<1>15. CASE VamNoFree
  BY <1>13, <1>15 DEF VamNoFree, FrameDone
<1>16. CASE VamAlarm
  <2>1. CASE vpc = "alarm"
    BY <1>13, <1>16, <2>1 DEF VamAlarm, FrameDone
  <2>2. CASE vpc = "ageAlarm"
    BY <1>1, <1>16, <2>2 DEF VamAlarm
  <2> QED BY <1>16, <2>1, <2>2 DEF VamAlarm
<1>17. CASE VamJoin
  BY <1>1, <1>17 DEF VamJoin, input
<1>18. CASE VamUpdate \/ VamUpdateEmpty \/ VamAge \/ VamKick \/ VamUpdateDone
  <2>1. UNCHANGED <<queue, rxfree, msg>>
    BY <1>18 DEF VamUpdate, VamUpdateEmpty, VamAge, VamKick, VamUpdateDone, input
  <2>2. {vpc, vpc'} \subseteq {"recv", "update", "age", "kick", "ageAlarm"}
    BY <1>18 DEF VamUpdate, VamUpdateEmpty, VamAge, VamKick, VamUpdateDone
  <2> QED BY <1>1, <2>1, <2>2
<1>19. ASSUME NEW r \in Readers, ReadNext(r) PROVE Balanced
  <2>1. UNCHANGED <<queue, rxfree, msg, vpc>>
    BY <1>19
    DEF ReadNext, ReadTakePids, ReadPids, ReadTakePeer, ReadFound, ReadRelease, ReadDone,
        vamVars, input
  <2> QED BY <1>1, <2>1
<1>20. CASE UNCHANGED vars
  BY <1>1, <1>20 DEF vars, vamVars, input
<1> QED
  BY <1>2, <1>4, <1>5, <1>6, <1>8, <1>10, <1>11, <1>12, <1>14, <1>15, <1>16, <1>17, <1>18,
     <1>19, <1>20 DEF Next, VamNext

(* Every receive buffer is free, in the queue or in hand, but for those    *)
(* whose frame met a full queue: vam_rcp_recv is the only place that loses *)
(* one.                                                                    *)
THEOREM RxLostOnlyThere == Spec => RxLostOnlyWhenFull
<1>1. Init => MsgInv
  BY VamNeighbourAssumption DEF Init, MsgInv
<1>2. TableInv /\ MsgInv /\ [Next]_vars => MsgInv'
  BY FrameBalance DEF Balanced
<1>3. TableInv /\ MsgInv /\ [Next]_vars
        => [rxfree' + FramesHeld' = rxfree + FramesHeld \/ Len(queue) = QueueSize]_vars
  BY FrameBalance DEF Balanced, FramesHeld, FramesIn, InHand
<1> QED BY <1>1, <1>2, <1>3, TableInvariant, PTL DEF Spec, RxLostOnlyWhenFull
=============================================================================
