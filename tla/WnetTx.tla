------------------------------- MODULE WnetTx -------------------------------
(***************************************************************************)
(* Transmission in the WNET layer (cv_wnet_fp.c): a pool of TXBUFs, the    *)
(* waiting list, the thread "wntx" that hands the head of the list to the  *)
(* radio, and the completion that returns it to the pool.                  *)
(*   - the list operations run with interrupts disabled: one step each;    *)
(*   - the USB host thread (priority 12) is interrupted by no thread here: *)
(*     a completion, its kick included, is one step;                       *)
(*   - wntx (20) and the senders interleave as their priorities let them.  *)
(* There is one USB request; usb_bulkout does not look whether it is idle. *)
(***************************************************************************)
EXTENDS Integers, Sequences, FiniteSets

CONSTANTS
  TxBufs,      \* the TXBUFs of the pool (TXBUF_NUM)
  Senders,     \* threads that send frames
  Preempting,  \* senders of a higher priority than wntx
  Priorities,  \* WNET_TRANS_RRORITY_ in use
  Hops,        \* hops in the frames of other vehicles
  SemMax,      \* bound: no preempting sender sends while so many kicks pend
  NoBuf        \* the NULL pointer

ASSUME WnetTxAssumption ==
  /\ IsFiniteSet(TxBufs) /\ NoBuf \notin TxBufs
  /\ Preempting \subseteq Senders
  /\ SemMax \in Nat \ {0}
  /\ Priorities \subseteq {"normal", "emergency"}
  /\ Hops \subseteq 0..255

VARIABLES
  free,        \* txbuf_free_list
  waiting,     \* txbuf_waiting_list
  processing,  \* TXBUFs with TXBUF_FLAG_PROCESSING
  prio,        \* info.prority of the TXBUFs
  held,        \* TXBUF each sender has allocated and not yet sent
  dropped,     \* TXBUFs that nobody has any more (mda_handle)
  sem,         \* value of sem_wnet_tx
  tpc, tbuf,   \* wntx: where it is, the TXBUF it works on
  usb,         \* TXBUF whose frame is in the USB request, NoBuf when idle
  ready        \* init_complete of the radio

pool == <<free, waiting, processing, prio>>
wntx == <<tpc, tbuf>>
vars == <<pool, held, dropped, sem, wntx, usb, ready>>

TxPC == {"wait", "pick", "send", "fail", "kick"}

-----------------------------------------------------------------------------
(* A sender below wntx runs only while wntx is blocked on its semaphore. *)
CpuFor(s) == s \in Preempting \/ (tpc = "wait" /\ sem = 0)

(* fp_get_txbuf; on an empty pool the caller gives up. *)
GetTxbuf(s) ==
  /\ CpuFor(s) /\ held[s] = NoBuf /\ free # <<>>
  /\ held' = [held EXCEPT ![s] = Head(free)]
  /\ free' = Tail(free)
  /\ UNCHANGED <<waiting, processing, prio, dropped, sem, wntx, usb, ready>>

(* The place of a frame in the waiting list: an EMERGENCY one goes in      *)
(* front of the first NORMAL one.  The test of PROCESSING there is of the  *)
(* new TXBUF, whose flag has just been cleared, so that it always passes.  *)
Insert(b, p) ==
  LET normal == {i \in DOMAIN waiting : prio[waiting[i]] # "emergency"}
      first  == CHOOSE i \in normal : \A j \in normal : i <= j
  IN IF p = "emergency" /\ normal # {}
       THEN SubSeq(waiting, 1, first - 1) \o <<b>> \o SubSeq(waiting, first, Len(waiting))
       ELSE Append(waiting, b)

(* wnet_send, dsmp_send, llc_send, fp_send. *)
Send(s) ==
  /\ CpuFor(s) /\ held[s] # NoBuf /\ sem < SemMax
  /\ \E p \in Priorities :
       /\ prio' = [prio EXCEPT ![held[s]] = p]
       /\ waiting' = Insert(held[s], p)
  /\ processing' = processing \ {held[s]}
  /\ held' = [held EXCEPT ![s] = NoBuf]
  /\ sem' = sem + 1
  /\ UNCHANGED <<free, dropped, wntx, usb, ready>>

(* A frame of another vehicle that may travel further: rcp_mda_process     *)
(* counts the hop in 8 bits, mda_handle makes a copy in a new TXBUF and    *)
(* takes the success for a failure: it forgets the TXBUF.                  *)
Forwarded(h) == (h - 1) % 256 >= 1

MdaHandle(s) ==
  /\ s \notin Preempting /\ CpuFor(s) /\ held[s] = NoBuf
  /\ \E h \in Hops : Forwarded(h)
  /\ free # <<>>
  /\ dropped' = dropped \cup {Head(free)}
  /\ free' = Tail(free)
  /\ UNCHANGED <<waiting, processing, prio, held, sem, wntx, usb, ready>>

-----------------------------------------------------------------------------
(* Thread wntx: wnet_tx_thread_entry, fp_tx_handler. *)
TxTake ==
  /\ tpc = "wait" /\ sem > 0
  /\ sem' = sem - 1
  /\ tpc' = "pick"
  /\ UNCHANGED <<pool, held, dropped, tbuf, usb, ready>>

Sendable == waiting # <<>> /\ Head(waiting) \notin processing

TxPick ==
  /\ tpc = "pick"
  /\ IF Sendable
       THEN /\ processing' = processing \cup {Head(waiting)}
            /\ tbuf' = Head(waiting)
            /\ tpc' = "send"
       ELSE tpc' = "wait" /\ UNCHANGED <<processing, tbuf>>
  /\ UNCHANGED <<free, waiting, prio, held, dropped, sem, usb, ready>>

(* drv_wifi_send: down to usb_bulkout once the radio is initialised. *)
TxSend ==
  /\ tpc = "send"
  /\ IF ready THEN usb' = tbuf /\ tpc' = "wait" ELSE tpc' = "fail" /\ UNCHANGED usb
  /\ tbuf' = IF ready THEN NoBuf ELSE tbuf
  /\ UNCHANGED <<pool, held, dropped, sem, ready>>

(* Mutation: list_add_tail in place of list_move_tail. *)
CompleteLinksTwice ==
  IF waiting = <<>> THEN UNCHANGED <<free, waiting, processing>>
  ELSE /\ free' = Append(free, Head(waiting))
       /\ processing' = processing \ {Head(waiting)}
       /\ UNCHANGED waiting

(* fp_tx_complete: the head of the waiting list, whichever it is.  The     *)
(* list is then looked at again, outside the critical section.             *)
Complete ==
  IF waiting = <<>> THEN UNCHANGED <<free, waiting, processing>>
  ELSE /\ waiting' = Tail(waiting)
       /\ processing' = processing \ {Head(waiting)}
       /\ free' = Append(free, Head(waiting))

KickFromTwo(w) == sem' = IF Len(w) > 1 THEN sem + 1 ELSE sem   \* mutation
KickEach(w) == sem' = sem + Len(w)                              \* mutation

Kick(w) == sem' = IF w # <<>> THEN sem + 1 ELSE sem

TxFail ==
  /\ tpc = "fail"
  /\ Complete
  /\ tpc' = "kick" /\ tbuf' = NoBuf
  /\ UNCHANGED <<prio, held, dropped, sem, usb, ready>>

TxKick ==
  /\ tpc = "kick"
  /\ Kick(waiting)
  /\ tpc' = "wait"
  /\ UNCHANGED <<pool, held, dropped, tbuf, usb, ready>>

-----------------------------------------------------------------------------
(* RTUSBBulkSendDone, wnet_send_complete. *)
SendDone ==
  /\ usb' = NoBuf
  /\ Complete
  /\ Kick(waiting')
  /\ UNCHANGED <<prio, held, dropped, wntx, ready>>

(* The USB transfer ends, sent or given up; in detail: UsbBulkOut. *)
UsbDone == usb # NoBuf /\ SendDone

(* The radio's initialisation is over. *)
RadioReady ==
  /\ ~ready
  /\ ready' = TRUE
  /\ UNCHANGED <<pool, held, dropped, sem, wntx, usb>>

-----------------------------------------------------------------------------
(* wnet_init puts the TXBUFs into the free list in one order. *)
Init ==
  /\ free \in {s \in [1..Cardinality(TxBufs) -> TxBufs] :
                 \A i, j \in 1..Cardinality(TxBufs) : s[i] = s[j] => i = j}
  /\ waiting = <<>> /\ processing = {}
  /\ prio = [b \in TxBufs |-> "normal"]
  /\ held = [s \in Senders |-> NoBuf] /\ dropped = {}
  /\ sem = 0
  /\ tpc = "wait" /\ tbuf = NoBuf
  /\ usb = NoBuf /\ ready = FALSE

TxStep == TxTake \/ TxPick \/ TxSend \/ TxFail \/ TxKick

SenderStep == \E s \in Senders : GetTxbuf(s) \/ Send(s) \/ MdaHandle(s)

Next == SenderStep \/ TxStep \/ UsbDone \/ RadioReady

Spec == Init /\ [][Next]_vars

-----------------------------------------------------------------------------
Elements(s) == {s[i] : i \in DOMAIN s}
NoRepeat(s) == \A i, j \in DOMAIN s : s[i] = s[j] => i = j

TypeOK ==
  /\ free \in Seq(TxBufs) /\ waiting \in Seq(TxBufs)
  /\ processing \subseteq TxBufs /\ dropped \subseteq TxBufs
  /\ prio \in [TxBufs -> {"normal", "emergency"}]
  /\ held \in [Senders -> TxBufs \cup {NoBuf}]
  /\ sem \in 0..(SemMax + Cardinality(TxBufs))
  /\ tpc \in TxPC
  /\ tbuf \in TxBufs \cup {NoBuf} /\ usb \in TxBufs \cup {NoBuf}
  /\ ready \in BOOLEAN

(* Every TXBUF is in exactly one place, whatever order allocation, sending *)
(* and completion come in: none is linked twice, and none is lost but those *)
(* that mda_handle drops.                                                  *)
EachTxbufOwnedOnce ==
  /\ NoRepeat(free) /\ NoRepeat(waiting)
  /\ Elements(free) \cap Elements(waiting) = {}
  /\ dropped \cap (Elements(free) \cup Elements(waiting)) = {}
  /\ \A s \in Senders : held[s] # NoBuf =>
       /\ held[s] \notin Elements(free) \cup Elements(waiting) \cup dropped
       /\ \A t \in Senders : held[t] = held[s] => t = s
  /\ TxBufs \subseteq Elements(free) \cup Elements(waiting) \cup dropped
                    \cup {held[s] : s \in Senders}

(* wntx and the USB request never work on two frames at a time: usb_bulkout *)
(* would overwrite a transfer under way.                                   *)
OneFrameInFlight == ~(usb # NoBuf /\ tpc \in {"send", "fail"})

(* fp_tx_complete names no frame, it frees the head of the waiting list:   *)
(* the frame that wntx or the USB request has is there, marked, until then. *)
InFlightIsHead ==
  \A b \in {usb, tbuf} \ {NoBuf} :
    waiting # <<>> /\ Head(waiting) = b /\ b \in processing

(* No wake-up is lost: while frames wait, somebody is about to look at the *)
(* list again, or a completion is to come.                                 *)
NoLostKick ==
  waiting # <<>> => sem > 0 \/ tpc # "wait" \/ usb # NoBuf
=============================================================================
