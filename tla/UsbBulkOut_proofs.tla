-------------------------- MODULE UsbBulkOut_proofs --------------------------
(***************************************************************************)
(* The USB transfer in detail implements the one step it is in WnetTx, for *)
(* any length of frames, any budget of retries and any pool; what is       *)
(* proved of WnetTx carries over, with the priorities it is proved for.    *)
(***************************************************************************)
EXTENDS UsbBulkOut, WnetTx_proofs

(* Who is in the request: nobody exactly while it is idle. *)
ReqInv == Owned /\ (state # "idle" <=> usb # NoBuf)

(* The host and the channel either leave the layer above alone or complete *)
(* the transfer under way.                                                 *)
LEMMA HostStep ==
  ASSUME ReqInv, Host \/ Device
  PROVE  \/ UsbDone /\ state' = "idle"
         \/ UNCHANGED vars /\ (state' # "idle" <=> state # "idle")
<1>1. CASE PacketDone
  BY <1>1 DEF PacketDone, Finish, UsbDone, ReqInv
<1>2. CASE GiveUp
  BY <1>2 DEF GiveUp, Finish, UsbDone, ReqInv
<1>3. CASE Request \/ NotReady \/ Failed \/ Retry
  BY <1>3 DEF Request, NotReady, Failed, Retry, req
<1>4. CASE Device
  BY <1>4 DEF Device, Answer, BusError, req
<1> QED BY <1>1, <1>2, <1>3, <1>4 DEF Host

(* Each step is a step of WnetTx, or none. *)
LEMMA StepRefines ==
  ASSUME ReqInv, [BNext]_bvars
  PROVE  [Next]_vars
<1>1. CASE Others
  BY <1>1 DEF Others, Next, TxStep
<1>2. CASE BulkOut
  BY <1>2 DEF BulkOut, Next, TxStep
<1>3. CASE Host \/ Device
  BY <1>3, HostStep DEF Next
<1>4. CASE UNCHANGED bvars
  BY <1>4 DEF bvars
<1> QED BY <1>1, <1>2, <1>3, <1>4 DEF BNext

(* The request is idle exactly when nobody is in it. *)
LEMMA ReqInvKept ==
  ASSUME ReqInv, [BNext]_bvars
  PROVE  ReqInv'
<1>1. Owned'
  BY StepRefines, NextOwned DEF ReqInv
<1>2. CASE Others
  <2>1. state' = state
    BY <1>2 DEF Others, req
  <2>2. usb' = usb
    BY <1>2 DEF Others, SenderStep, GetTxbuf, Send, MdaHandle, TxTake, TxPick, TxFail, TxKick,
                RadioReady
  <2> QED BY <1>1, <2>1, <2>2 DEF ReqInv
<1>3. CASE BulkOut
  <2>1. tbuf # NoBuf
    BY <1>3 DEF BulkOut, TxSend, ReqInv, Owned
  <2> QED BY <1>1, <1>3, <2>1 DEF BulkOut, TxSend, ReqInv
<1>4. CASE Host \/ Device
  BY <1>1, <1>4, HostStep DEF ReqInv, UsbDone, SendDone, vars
<1>5. CASE UNCHANGED bvars
  BY <1>1, <1>5 DEF ReqInv, bvars, vars, req
<1> QED BY <1>2, <1>3, <1>4, <1>5 DEF BNext

LEMMA InitReqInv == BInit => ReqInv
BY InitInv, InvOwned DEF BInit, Init, ReqInv

-----------------------------------------------------------------------------
(* The transfer keeps the promise WnetTx relies on: every frame handed to  *)
(* usb_bulkout is completed at most once, and only while it is in the      *)
(* request.                                                                *)
THEOREM TransferImplementsWnetTx == BSpec => ImplementsWnetTx
<1>1. BInit => Init /\ ReqInv
  BY InitReqInv DEF BInit
<1>2. ReqInv /\ [BNext]_bvars => ReqInv' /\ [Next]_vars
  BY ReqInvKept, StepRefines
<1> QED BY <1>1, <1>2, PTL DEF BSpec, Spec, ImplementsWnetTx

(* A request that is not idle belongs to the head of the waiting list, and *)
(* no other frame is on its way.                                           *)
THEOREM RequestAlwaysHoldsHead ==
  ASSUME Priorities \subseteq {"normal"}
  PROVE  BSpec => []RequestHoldsHead
<1>1. BInit => ReqInv /\ TxInv
  BY InitReqInv, InitInv DEF BInit
<1>2. ReqInv /\ TxInv /\ [BNext]_bvars => ReqInv' /\ TxInv'
  BY ReqInvKept, StepRefines, NextInv
<1>3. ReqInv /\ TxInv => RequestHoldsHead
  BY DEF ReqInv, TxInv, Flight, RequestHoldsHead
<1> QED BY <1>1, <1>2, <1>3, PTL DEF BSpec

(* The pool, the one frame and the wake-ups, with the transfer in detail. *)
THEOREM TransferKeepsPool ==
  ASSUME Priorities \subseteq {"normal"}
  PROVE  BSpec => [](EachTxbufOwnedOnce /\ OneFrameInFlight /\ NoLostKick)
<1>1. BSpec => Spec
  BY TransferImplementsWnetTx DEF ImplementsWnetTx
<1>2. Spec => []EachTxbufOwnedOnce
  BY TxbufsOwnedOnce
<1>3. Spec => []OneFrameInFlight
  BY OneFrameAtATime
<1>4. Spec => []NoLostKick
  BY NoKickIsLost
<1> QED BY <1>1, <1>2, <1>3, <1>4, PTL
-----------------------------------------------------------------------------
(* The fields of the request and of the channel; a request that is not     *)
(* idle has packets left, so that PacketDone never counts below zero.      *)
Transfer ==
  /\ state \in {"idle", "request", "wait", "error"}
  /\ left \in 0..MaxPackets /\ (state # "idle" => left > 0)
  /\ retry \in 0..FirstRetry \cup 0..NextRetry
  /\ urb \in {"idle", "done", "notready", "stall", "error"}
  /\ enabled \in BOOLEAN /\ errcnt \in 0..(ErrLimit - 1)

LEMMA TransferKept ==
  ASSUME Transfer, [BNext]_bvars
  PROVE  Transfer'
<1>1. /\ MaxPackets \in Nat \ {0} /\ FirstRetry \in Nat \ {0} /\ NextRetry \in Nat \ {0}
      /\ ErrLimit \in Nat \ {0}
  BY UsbBulkOutAssumption
<1>2. CASE Others \/ UNCHANGED bvars
  BY <1>2 DEF Others, bvars, req, chan, Transfer
<1>3. CASE BulkOut
  BY <1>1, <1>3 DEF BulkOut, chan, Transfer
<1>4. CASE Request
  BY <1>1, <1>4 DEF Request, SendPacket, Transfer
<1>5. CASE PacketDone
  <2>1. left \in 1..MaxPackets /\ left' = left - 1
    BY <1>1, <1>5 DEF PacketDone, Transfer
  <2>2. left' \in 0..MaxPackets
    BY <1>1, <2>1
  <2>3. CASE left' = 0 /\ Finish
    BY <2>2, <2>3 DEF Finish, chan, Transfer
  <2>4. CASE left' > 0 /\ retry' = NextRetry /\ SendPacket /\ UNCHANGED <<vars, state>>
    <3>1. retry' \in 0..NextRetry
      BY <1>1, <2>4
    <3> QED BY <2>2, <2>4, <3>1 DEF SendPacket, Transfer
  <2> QED BY <1>5, <2>3, <2>4 DEF PacketDone
<1>6. CASE NotReady
  BY <1>6 DEF NotReady, SendPacket, req, Transfer
<1>7. CASE Failed
  BY <1>7 DEF Failed, chan, Transfer
<1>8. CASE GiveUp
  BY <1>8 DEF GiveUp, Finish, chan, Transfer
<1>9. CASE Retry
  BY <1>1, <1>9 DEF Retry, SendPacket, Transfer
<1>10. CASE \E a \in DOMAIN Outcome : Answer(a)
  <2> PICK a \in DOMAIN Outcome : Answer(a)
    BY <1>10
  <2>1. urb' \in {"done", "notready", "stall"} /\ enabled' = FALSE /\ UNCHANGED req
    BY DEF Answer, Outcome
  <2>2. errcnt' \in 0..(ErrLimit - 1)
    BY <1>1 DEF Answer, Transfer
  <2> QED BY <2>1, <2>2 DEF req, Transfer
<1>11. CASE BusError
  <2>1. errcnt' \in 0..(ErrLimit - 1) /\ urb' \in {urb, "error"}
    BY <1>1, <1>11 DEF BusError, Transfer
  <2>2. enabled' = FALSE /\ UNCHANGED req
    BY <1>11 DEF BusError
  <2> QED BY <2>1, <2>2 DEF req, Transfer
<1> QED
  BY <1>2, <1>3, <1>4, <1>5, <1>6, <1>7, <1>8, <1>9, <1>10, <1>11 DEF BNext, Host, Device

LEMMA InitTransfer == BInit => Transfer
<1> SUFFICES ASSUME BInit PROVE Transfer
  OBVIOUS
<1>1. MaxPackets \in Nat /\ FirstRetry \in Nat /\ ErrLimit \in Nat \ {0}
  BY UsbBulkOutAssumption
<1>2. 0 \in 0..MaxPackets /\ 0 \in 0..FirstRetry /\ 0 \in 0..(ErrLimit - 1)
  BY <1>1
<1> QED BY <1>2 DEF BInit, Transfer

(* The types, with the transfer in detail: no packet is sent or counted    *)
(* beyond the frame, no retry beyond the budget, and the error count of    *)
(* the channel stays below its limit.                                      *)
THEOREM TransferTypes ==
  ASSUME Priorities \subseteq {"normal"}
  PROVE  BSpec => []BTypeOK
<1>1. BInit => Transfer
  BY InitTransfer
<1>2. Transfer /\ [BNext]_bvars => Transfer'
  BY TransferKept
<1>3. BSpec => Spec
  BY TransferImplementsWnetTx DEF ImplementsWnetTx
<1>4. Spec => []TypeOK
  BY TransmissionTypes
<1>5. TypeOK /\ Transfer => BTypeOK
  BY DEF Transfer, BTypeOK
<1> QED BY <1>1, <1>2, <1>3, <1>4, <1>5, PTL DEF BSpec
=============================================================================
