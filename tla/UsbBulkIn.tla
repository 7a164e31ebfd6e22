------------------------------ MODULE UsbBulkIn ------------------------------
(***************************************************************************)
(* WnetRx with the USB transfer in detail: _usb_bulkin_request_handle of   *)
(* cv_drv_wifi_usb.c, the interrupt of the IN channel (usb_hcd_int.c) and  *)
(* the radio behind it.  The radio sends a frame as full packets and a     *)
(* short one; a packet that met an error it sends again.  A NAK is dealt   *)
(* with by the hardware.                                                   *)
(* Of the buffer the model has the number of the packet at its head and    *)
(* how many packets follow one another there; len counts packets as well.  *)
(***************************************************************************)
EXTENDS WnetRx

CONSTANTS
  MaxPackets,  \* packets of the longest frame of the radio
  Room         \* packets in NOSWIFI_USB_RX_BUFFER_MAX_LEN

ASSUME UsbBulkInAssumption == {MaxPackets, Room} \subseteq Nat \ {0}

VARIABLES
  state, len,  \* of usb_rx_req; len: packets
  first, fill, \* the packets in its buffer: first, first + 1, ... : fill of them
  urb,         \* URB_State of the channel, with xfer_count
  enabled,     \* the channel waits for a packet
  told,        \* radio: packets of the frame under way that it is rid of
  cut          \* history: an error or the end of the buffer cut that frame

buffer == <<first, fill>>
chan  == <<urb, enabled>>
radio == <<told, cut>>
bvars == <<vars, state, len, buffer, chan, radio>>

(* USBH_BulkReceiveData, HCD_SubmitRequest. *)
ReceivePacket == urb' = "idle" /\ enabled' = TRUE

(* Mutation: the length of the frame before is kept. *)
BulkInKeepsLen == state' = "request" /\ UNCHANGED len

(* usb_bulkin. *)
BulkIn == state' = "request" /\ len' = 0

(* rt28xx_init starts reception. *)
StartRx ==
  /\ state = "idle"
  /\ BulkIn
  /\ UNCHANGED <<vars, buffer, chan, radio>>

-----------------------------------------------------------------------------
(* The radio sends a packet: full, or short, which ends the frame. *)
FullPacket ==
  /\ enabled /\ enabled' = FALSE
  /\ told + 1 < MaxPackets
  /\ urb' = "full" /\ told' = told + 1
  /\ UNCHANGED <<vars, state, len, buffer, cut>>

ShortPacket ==
  /\ enabled /\ enabled' = FALSE
  /\ urb' = "short"
  /\ UNCHANGED <<vars, state, len, buffer, radio>>

(* A bus error, a wrong toggle or STALL: each ends the packet at once. *)
BadPacket ==
  /\ enabled /\ enabled' = FALSE
  /\ urb' \in {"error", "stall"}
  /\ cut' = (cut \/ told > 0)
  /\ UNCHANGED <<vars, state, len, buffer, told>>

-----------------------------------------------------------------------------
(* The states of the request. *)
Request ==
  /\ state = "request"
  /\ state' = "wait"
  /\ first' = told + 1 /\ fill' = 0
  /\ ReceivePacket
  /\ UNCHANGED <<vars, len, radio>>

(* RTUSBBulkReceive: STARxDoneInterruptHandle hands a frame it likes to    *)
(* wnet_recv; no length is too short for all.  Then the next request.      *)
HandUp(n) ==
  /\ UNCHANGED vars \/ (n > 0 /\ UsbRecv)
  /\ BulkIn
  /\ UNCHANGED chan

LastPacket ==
  /\ state = "wait" /\ urb = "short"
  /\ fill' = fill + 1
  /\ HandUp(len + 1)
  /\ told' = 0 /\ cut' = FALSE
  /\ UNCHANGED first

(* Another packet fits, or the length is forgotten and what has arrived is *)
(* handed up as nothing: the radio goes on with the rest of the frame.     *)
NextPacket ==
  /\ state = "wait" /\ urb = "full"
  /\ fill' = fill + 1
  /\ \/ /\ len + 2 <= Room
        /\ len' = len + 1
        /\ ReceivePacket
        /\ UNCHANGED <<vars, state, cut>>
     \/ /\ len + 2 > Room
        /\ HandUp(0)
        /\ cut' = TRUE
  /\ UNCHANGED <<first, told>>

(* Mutation: STALL is not looked at. *)
FailedByErrorOnly ==
  /\ state = "wait" /\ urb = "error"
  /\ state' = "error"
  /\ UNCHANGED <<vars, len, buffer, chan, radio>>

Failed ==
  /\ state = "wait" /\ urb \in {"error", "stall"}
  /\ state' = "error"
  /\ UNCHANGED <<vars, len, buffer, chan, radio>>

(* The request starts again at the head of the buffer, with three retries  *)
(* as in the beginning: they never run out.  len stays.                    *)
Retry ==
  /\ state = "error"
  /\ state' = "request"
  /\ UNCHANGED <<vars, len, buffer, chan, radio>>

Host == Request \/ LastPacket \/ NextPacket \/ Failed \/ Retry

-----------------------------------------------------------------------------
BInit ==
  /\ Init
  /\ state = "idle" /\ len = 0
  /\ first = 0 /\ fill = 0
  /\ urb = "idle" /\ enabled = FALSE
  /\ told = 0 /\ cut = FALSE

OverUsb ==
  /\ RxStep \/ QueueOther \/ VamStep
  /\ UNCHANGED <<state, len, buffer, chan, radio>>

Device == FullPacket \/ ShortPacket \/ BadPacket

BNext == OverUsb \/ StartRx \/ Host \/ Device

BSpec == BInit /\ [][BNext]_bvars

(* The USB host thread is woken at least once a millisecond; of the rest   *)
(* as in WnetRx.                                                           *)
BFairSpec ==
  /\ BSpec
  /\ WF_bvars(Host)
  /\ WF_bvars(RxStep /\ OverUsb) /\ SF_bvars(VamStep /\ OverUsb) /\ []<>CpuFree

-----------------------------------------------------------------------------
BTypeOK ==
  /\ TypeOK
  /\ state \in {"idle", "request", "wait", "error"}
  /\ len \in 0..(Room - 1)
  /\ first \in 0..MaxPackets /\ fill \in 0..MaxPackets
  /\ urb \in {"idle", "full", "short", "error", "stall"}
  /\ enabled \in BOOLEAN
  /\ told \in 0..(MaxPackets - 1) /\ cut \in BOOLEAN

(* What is handed up is a frame of the radio, from its first packet to its *)
(* last and with its length, unless an error cut this frame: a frame that  *)
(* was cut does no harm to the next one.                                   *)
HandedUpIsWhole ==
  [][LastPacket /\ ~cut => first = 1 /\ fill' = told + 1 /\ len = told]_bvars

(* Once started, reception never stops: whatever errors, frames too long,  *)
(* frames nobody wants and empty pools come, the channel is opened again.  *)
ReceptionGoesOn == state # "idle" ~> enabled
=============================================================================
