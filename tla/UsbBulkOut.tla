------------------------------ MODULE UsbBulkOut ------------------------------
(***************************************************************************)
(* WnetTx with the USB transfer in detail: _usb_bulkout_request_handle of  *)
(* cv_drv_wifi_usb.c, which the USB host thread calls at least once a tick *)
(* because bulk-in is always waiting, and the interrupt of the OUT channel *)
(* (usb_hcd_int.c).  A frame goes out in packets; each packet is answered, *)
(* refused for now (NAK), refused (STALL) or meets a bus error.            *)
(***************************************************************************)
EXTENDS WnetTx

CONSTANTS
  MaxPackets,             \* packets of the longest frame
  FirstRetry, NextRetry,  \* retries of the first and of a later packet: 3, 10
  ErrLimit                \* bus errors that end a packet: 3

ASSUME UsbBulkOutAssumption ==
  {MaxPackets, FirstRetry, NextRetry, ErrLimit} \subseteq Nat \ {0}

VARIABLES
  state, left, retry,  \* of usb_tx_req; left: packets of len
  urb,                 \* URB_State of the channel
  enabled,             \* the channel is working on a packet
  errcnt               \* ErrCnt of the channel

req == <<state, left, retry>>
chan == <<urb, enabled, errcnt>>
bvars == <<vars, req, chan>>

(* USBH_BulkSendData, HCD_SubmitRequest. *)
SendPacket == urb' = "idle" /\ enabled' = TRUE /\ UNCHANGED errcnt

(* drv_wifi_send with usb_bulkout at its end: a new request. *)
BulkOut ==
  /\ TxSend
  /\ IF ready THEN state' = "request" /\ left' \in 1..MaxPackets
              ELSE UNCHANGED <<state, left>>
  /\ UNCHANGED <<retry, chan>>

-----------------------------------------------------------------------------
(* USB_OTG_USBH_handle_hc_n_Out_ISR: the channel halts, and URB_State says *)
(* why.  A bus error is told from the ErrLimit-th on; until then the state *)
(* stays idle, and the channel halted.                                     *)
Outcome == [done |-> "done", nak |-> "notready", stall |-> "stall"]

Answer(a) ==
  /\ enabled /\ enabled' = FALSE
  /\ urb' = Outcome[a]
  /\ errcnt' = IF a = "stall" THEN errcnt ELSE 0
  /\ UNCHANGED <<vars, req>>

BusError ==
  /\ enabled /\ enabled' = FALSE
  /\ IF errcnt + 1 = ErrLimit THEN urb' = "error" /\ errcnt' = 0
                              ELSE errcnt' = errcnt + 1 /\ UNCHANGED urb
  /\ UNCHANGED <<vars, req>>

-----------------------------------------------------------------------------
(* The states of the request. *)
Request ==
  /\ state = "request"
  /\ state' = "wait" /\ retry' = FirstRetry
  /\ SendPacket
  /\ UNCHANGED <<vars, left>>

(* _usb_bulkout_complete. *)
Finish == state' = "idle" /\ SendDone /\ UNCHANGED <<retry, chan>>

(* Mutation: the request stays as it is after the last packet. *)
PacketDoneStays ==
  /\ state = "wait" /\ urb = "done"
  /\ IF left = 1
       THEN SendDone /\ UNCHANGED <<req, chan>>
       ELSE left' = left - 1 /\ retry' = NextRetry /\ SendPacket /\ UNCHANGED <<vars, state>>

PacketDone ==
  /\ state = "wait" /\ urb = "done"
  /\ left' = left - 1
  /\ \/ left' = 0 /\ Finish
     \/ /\ left' > 0
        /\ retry' = NextRetry
        /\ SendPacket
        /\ UNCHANGED <<vars, state>>

NotReady ==
  /\ state = "wait" /\ urb = "notready"
  /\ SendPacket
  /\ UNCHANGED <<vars, req>>

(* Mutation: STALL is not looked at. *)
FailedByErrorOnly ==
  /\ state = "wait" /\ urb = "error"
  /\ state' = "error"
  /\ UNCHANGED <<vars, left, retry, chan>>

Failed ==
  /\ state = "wait" /\ urb \in {"error", "stall"}
  /\ state' = "error"
  /\ UNCHANGED <<vars, left, retry, chan>>

(* Mutation: the state after the last retry is REQUEST, as the line above  *)
(* the one that counts has it.                                             *)
GiveUpRequests ==
  /\ state = "error" /\ retry = 0
  /\ SendDone /\ state' = "request"
  /\ UNCHANGED <<left, retry, chan>>

(* Unsent, and completed like a frame that was sent. *)
GiveUp ==
  /\ state = "error" /\ retry = 0
  /\ Finish /\ UNCHANGED left

Retry ==
  /\ state = "error" /\ retry > 0
  /\ retry' = retry - 1
  /\ state' = "wait"
  /\ SendPacket
  /\ UNCHANGED <<vars, left>>

Host == Request \/ PacketDone \/ NotReady \/ Failed \/ GiveUp \/ Retry

-----------------------------------------------------------------------------
BInit ==
  /\ Init
  /\ state = "idle" /\ left = 0 /\ retry = 0
  /\ urb = "idle" /\ enabled = FALSE /\ errcnt = 0

Others ==
  /\ SenderStep \/ TxTake \/ TxPick \/ TxFail \/ TxKick \/ RadioReady
  /\ UNCHANGED <<req, chan>>

Device == (\E a \in DOMAIN Outcome : Answer(a)) \/ BusError

BNext == Others \/ BulkOut \/ Host \/ Device

BSpec == BInit /\ [][BNext]_bvars

(* The threads run; every packet is answered, and a packet refused again   *)
(* and again is taken in the end.                                          *)
BFairSpec ==
  /\ BSpec
  /\ WF_bvars(BulkOut \/ (TxStep /\ UNCHANGED <<req, chan>>))
  /\ WF_bvars(Host) /\ WF_bvars(Device) /\ SF_bvars(Answer("done"))

-----------------------------------------------------------------------------
BTypeOK ==
  /\ TypeOK
  /\ state \in {"idle", "request", "wait", "error"}
  /\ left \in 0..MaxPackets
  /\ retry \in 0..FirstRetry \cup 0..NextRetry
  /\ urb \in {"idle", "done", "notready", "stall", "error"}
  /\ enabled \in BOOLEAN /\ errcnt \in 0..(ErrLimit - 1)

(* The transfer that WnetTx takes for one step keeps that promise: however *)
(* many packets, refusals and retries it takes, each frame is completed    *)
(* once, and the sender never overwrites a request that is not over.       *)
ImplementsWnetTx == Spec

(* The channel has halted on a bus error below the limit: URB_State stays  *)
(* idle, the driver waits for it to change, and nothing checks the delay   *)
(* timer that "enables timeout for data stage completion".                 *)
Halted == state = "wait" /\ urb = "idle" /\ ~enabled

(* "Kick out next frame": every frame put into the waiting list leaves it, *)
(* unless the channel has halted: nothing else stops transmission.         *)
EveryFrameLeavesOrHalted ==
  \A b \in TxBufs : b \in Elements(waiting) ~> (b \notin Elements(waiting) \/ Halted)

(* The driver knows which transfer is under way: a request that is not     *)
(* idle belongs to the frame wntx handed over, the head of the list, and   *)
(* wntx has no other frame on its way to overwrite it.                     *)
RequestHoldsHead ==
  /\ state # "idle" <=> usb # NoBuf
  /\ InFlightIsHead
  /\ OneFrameInFlight
=============================================================================
