------------------------------- MODULE WnetRx -------------------------------
(***************************************************************************)
(* Reception in the WNET layer (cv_wnet_fp.c): a frame from the USB host   *)
(* thread is copied into an RXBUF and put into the waiting list, the       *)
(* thread "wnrx" takes it through LLC and DSMP to the queue of the VAM     *)
(* thread, and that thread releases the RXBUF when it has parsed it.       *)
(*   - the list operations run with interrupts disabled: one step each;    *)
(*   - no thread here interrupts the USB host thread (priority 12): fp_recv *)
(*     is one step;                                                        *)
(*   - the VAM thread (22) runs only while wnrx (20) is blocked.           *)
(***************************************************************************)
EXTENDS Naturals, Sequences, FiniteSets

CONSTANTS
  RxBufs,      \* the RXBUFs of the pool (RXBUF_NUM)
  QueueSize,   \* VAM_QUEUE_SIZE
  OtherMax,    \* messages other than frames that may be in the VAM queue
  NoBuf,       \* the NULL pointer
  Other        \* a message other than a received frame

ASSUME WnetRxAssumption ==
  /\ IsFiniteSet(RxBufs) /\ NoBuf \notin RxBufs /\ Other \notin RxBufs \cup {NoBuf}
  /\ QueueSize \in Nat \ {0} /\ OtherMax \in 0..QueueSize

VARIABLES
  rxFree,      \* rxbuf_free_list, whose order does not matter
  rxWaiting,   \* rxbuf_waiting_list
  sem,         \* value of sem_wnet_rx
  rpc, rbuf,   \* wnrx: where it is, the RXBUF it delivers
  queue,       \* queue_vam
  vmsg,        \* message the VAM thread works on, NoBuf when it waits
  arrived      \* history: <<a, b>> when the frames in a and b are still to be
               \* parsed and that in a was accepted no later

wnrx == <<rpc, rbuf>>
vam  == <<queue, vmsg>>
vars == <<rxFree, rxWaiting, sem, wnrx, vam, arrived>>

RxPC == {"wait", "pick", "deliver"}

Outstanding == {b \in RxBufs : <<b, b>> \in arrived}
Forget(b)   == {p \in arrived : b \notin {p[1], p[2]}}

-----------------------------------------------------------------------------
LinkRxFirst(b) == <<b>> \o rxWaiting     \* mutation: list_add for list_add_tail
LinkRx(b) == Append(rxWaiting, b)

(* Mutation: a wake-up only when the list was empty. *)
KickRxIfEmpty == sem' = IF rxWaiting = <<>> THEN sem + 1 ELSE sem
KickRx == sem' = sem + 1

(* wnet_recv, fp_recv: with no RXBUF free the frame is dropped. *)
UsbRecv ==
  \E b \in rxFree :
    /\ rxFree' = rxFree \ {b}
    /\ rxWaiting' = LinkRx(b)
    /\ KickRx
    /\ arrived' = arrived \cup ((Outstanding \cup {b}) \X {b})
    /\ UNCHANGED <<wnrx, vam>>

(* Thread wnrx: wnet_rx_thread_entry, fp_rx_handler. *)
RxTake ==
  /\ rpc = "wait" /\ sem > 0
  /\ sem' = sem - 1
  /\ rpc' = "pick"
  /\ UNCHANGED <<rxFree, rxWaiting, rbuf, vam, arrived>>

RxPick ==
  /\ rpc = "pick"
  /\ IF rxWaiting # <<>>
       THEN rbuf' = Head(rxWaiting) /\ rxWaiting' = Tail(rxWaiting) /\ rpc' = "deliver"
       ELSE rpc' = "wait" /\ UNCHANGED <<rbuf, rxWaiting>>
  /\ UNCHANGED <<rxFree, sem, vam, arrived>>

RxIdle == rpc' = "wait" /\ rbuf' = NoBuf

(* Mutation: the refused frame's RXBUF is not released. *)
RxRefuseKeeps ==
  /\ rpc = "deliver"
  /\ arrived' = Forget(rbuf)
  /\ RxIdle
  /\ UNCHANGED <<rxFree, rxWaiting, sem, vam>>

(* llc_recv or dsmp_recv refuses the frame: fp_release_rxbuf. *)
RxRefuse ==
  /\ rpc = "deliver"
  /\ rxFree' = rxFree \cup {rbuf}
  /\ arrived' = Forget(rbuf)
  /\ RxIdle
  /\ UNCHANGED <<rxWaiting, sem, vam>>

QueueRoomOneMore == Len(queue) <= QueueSize     \* mutation: off by one
QueueRoom == Len(queue) < QueueSize

(* Mutation: the RXBUF is released although the frame was queued. *)
RxDeliverReleases ==
  /\ rpc = "deliver"
  /\ QueueRoom
  /\ queue' = Append(queue, rbuf)
  /\ rxFree' = rxFree \cup {rbuf}
  /\ RxIdle
  /\ UNCHANGED <<rxWaiting, sem, vmsg, arrived>>

(* vam_rcp_recv, vam_add_event_queue: it returns 0 whether or not the      *)
(* queue had room, so that fp_rx_handler never releases the RXBUF.         *)
RxDeliver ==
  /\ rpc = "deliver"
  /\ IF QueueRoom
       THEN queue' = Append(queue, rbuf) /\ UNCHANGED arrived
       ELSE arrived' = Forget(rbuf) /\ UNCHANGED queue
  /\ RxIdle
  /\ UNCHANGED <<rxFree, rxWaiting, sem, vmsg>>

-----------------------------------------------------------------------------
(* Timers and the GPS receiver use the same queue. *)
Others == Cardinality({i \in DOMAIN queue : queue[i] = Other})

QueueOther ==
  /\ QueueRoom /\ Others < OtherMax
  /\ queue' = Append(queue, Other)
  /\ UNCHANGED <<rxFree, rxWaiting, sem, wnrx, vmsg, arrived>>

(* vam_thread_entry: the queue is served in order. *)
CpuFree == rpc = "wait" /\ sem = 0

VamTake ==
  /\ CpuFree /\ vmsg = NoBuf /\ queue # <<>>
  /\ vmsg' = Head(queue)
  /\ queue' = Tail(queue)
  /\ UNCHANGED <<rxFree, rxWaiting, sem, wnrx, arrived>>

(* vam_main_proc: a frame is parsed and its RXBUF released. *)
VamDone ==
  /\ CpuFree /\ vmsg # NoBuf
  /\ rxFree' = rxFree \cup ({vmsg} \cap RxBufs)
  /\ arrived' = Forget(vmsg)
  /\ vmsg' = NoBuf
  /\ UNCHANGED <<rxWaiting, sem, wnrx, queue>>

-----------------------------------------------------------------------------
(* wnet_init. *)
Init ==
  /\ rxFree = RxBufs /\ rxWaiting = <<>> /\ sem = 0
  /\ rpc = "wait" /\ rbuf = NoBuf
  /\ queue = <<>> /\ vmsg = NoBuf
  /\ arrived = {}

RxStep  == RxTake \/ RxPick \/ RxRefuse \/ RxDeliver
VamStep == VamTake \/ VamDone

Next == UsbRecv \/ RxStep \/ QueueOther \/ VamStep

Spec == Init /\ [][Next]_vars

(* wnrx runs whenever it can; the radio leaves pauses in which the VAM     *)
(* thread gets the processor.                                              *)
FairSpec == Spec /\ WF_vars(RxStep) /\ SF_vars(VamStep) /\ []<>CpuFree

-----------------------------------------------------------------------------
Elements(s) == {s[i] : i \in DOMAIN s}

TypeOK ==
  /\ rxFree \subseteq RxBufs
  /\ rxWaiting \in Seq(RxBufs) /\ arrived \subseteq RxBufs \X RxBufs
  /\ sem \in 0..Cardinality(RxBufs)
  /\ rpc \in RxPC /\ rbuf \in RxBufs \cup {NoBuf}
  /\ queue \in Seq(RxBufs \cup {Other}) /\ Len(queue) <= QueueSize
  /\ vmsg \in RxBufs \cup {Other, NoBuf}

(* A frame being parsed or queued is not overwritten by a new one: its     *)
(* RXBUF is nowhere else.                                                  *)
Pending == <<vmsg>> \o queue \o <<rbuf>> \o rxWaiting

NoRxbufOverwritten ==
  /\ \A i, j \in DOMAIN Pending :
       Pending[i] \in RxBufs /\ Pending[i] = Pending[j] => i = j
  /\ Elements(Pending) \cap rxFree = {}

(* Frames reach the VAM thread in the order the radio received them. *)
Before(s, a, b) == \E i, j \in DOMAIN s : i <= j /\ s[i] = a /\ s[j] = b

FramesInOrder == arrived = {p \in RxBufs \X RxBufs : Before(Pending, p[1], p[2])}

(* One wake-up for every waiting frame: none is lost, none is idle, however *)
(* the arrivals fall between the steps of wnrx.                            *)
OneKickPerFrame == sem + (IF rpc = "pick" THEN 1 ELSE 0) = Len(rxWaiting)

(* A full VAM queue keeps the RXBUF for ever.  VAM_QUEUE_SIZE exceeds       *)
(* RXBUF_NUM so that the frames alone never fill it: an RXBUF is lost only *)
(* when messages of other kinds hold more than the places left over.       *)
InSystem == rxFree \cup (Elements(Pending) \cap RxBufs)

RxbufLostOnlyToOthers ==
  [][InSystem \subseteq InSystem' \/ Others + Cardinality(RxBufs) > QueueSize]_vars

(* A received frame does not stay: its RXBUF comes back to the pool, or is *)
(* lost at the full queue.                                                 *)
EveryFrameIsDone ==
  \A b \in RxBufs : b \in Elements(Pending) ~> b \notin Elements(Pending)
=============================================================================
