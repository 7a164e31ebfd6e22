------------------------------ MODULE UsbCtrl ------------------------------
(***************************************************************************)
(* Control requests of the Wi-Fi driver (cv_drv_wifi_usb.c): the thread    *)
(* that calls usb_control_msg waits, with a time-out, for the USB host     *)
(* thread to take the one request through its state machine.               *)
(* The USB host thread polls: it makes one step of the machine, sleeps a   *)
(* tick while the machine is busy, and the caller and the hardware move in *)
(* between.  A call's writes to the request are one step.                  *)
(* RTUSB_VendorRequest, which repeats a call that timed out, is code of    *)
(* the radio's vendor; it is the caller here.                              *)
(***************************************************************************)
EXTENDS Naturals

CONSTANTS
  Kinds,       \* kinds of request: "read", "write", "command" (no data)
  MaxTries,    \* MAX_VENDOR_REQ_RETRY_COUNT
  Retries      \* usb_ctrl_req.retry, set once when the device is probed

ASSUME UsbCtrlAssumption ==
  /\ Kinds \subseteq {"read", "write", "command"}
  /\ MaxTries \in Nat \ {0} /\ Retries \in Nat

VARIABLES
  state,       \* usb_ctrl_req.state
  kind,        \* request type and length in ctrlreq
  urb,         \* HCD_GetURB_State of the two control channels
  retry,       \* usb_ctrl_req.retry
  waiting,     \* usb_ctrl_req.waiting_for_complete
  sem,         \* value of USB_CtrlReq_Semphore
  cpc, tries,  \* the caller: where it is, calls made for this request
  answered     \* history: the request of this call has been completed

request == <<state, kind, urb, retry>>
caller  == <<cpc, tries>>
vars    == <<request, waiting, sem, caller, answered>>

Issuing  == {"setup", "dataIn", "dataOut", "statusIn", "statusOut"}
Waiting  == {"setupWait", "dataInWait", "dataOutWait", "statusInWait", "statusOutWait"}
State    == {"idle", "error"} \cup Issuing \cup Waiting
UrbState == {"idle", "done", "notready", "error", "stall"}

-----------------------------------------------------------------------------
(* usb_control_msg. *)
Submit ==
  /\ \/ cpc = "idle" /\ kind' \in Kinds /\ tries' = 1
     \/ cpc = "again" /\ kind' = kind /\ tries' = tries + 1
  /\ state' = "setup"
  /\ waiting' = TRUE
  /\ answered' = FALSE
  /\ cpc' = "wait"
  /\ UNCHANGED <<urb, retry, sem>>

CallReturns ==
  /\ cpc = "wait" /\ sem > 0
  /\ sem' = sem - 1
  /\ waiting' = FALSE
  /\ cpc' = "idle"
  /\ UNCHANGED <<request, tries, answered>>

(* The time-out makes the caller ready; the USB host thread, of a higher   *)
(* priority, may run before the caller does.                               *)
Expire ==
  /\ cpc = "wait" /\ sem = 0
  /\ cpc' = "expired"
  /\ UNCHANGED <<request, waiting, sem, tries, answered>>

StillWaiting == TRUE       \* mutation: waiting_for_complete is not reset
NotWaiting   == FALSE

CallTimesOut ==
  /\ cpc = "expired"
  /\ waiting' = NotWaiting
  /\ cpc' = IF tries < MaxTries THEN "again" ELSE "idle"
  /\ UNCHANGED <<request, sem, tries, answered>>

-----------------------------------------------------------------------------
(* _usb_ctrl_request_handle, one step at a time. *)
Channel(s) == IF s \in {"dataIn", "dataInWait", "statusIn", "statusInWait"} THEN "in" ELSE "out"

WaitOf == [setup |-> "setupWait", dataIn |-> "dataInWait", dataOut |-> "dataOutWait",
           statusIn |-> "statusInWait", statusOut |-> "statusOutWait"]

(* A packet is issued on a channel. *)
CtrlIssue ==
  /\ state \in Issuing
  /\ urb' = [urb EXCEPT ![Channel(state)] = "idle"]
  /\ state' = WaitOf[state]
  /\ UNCHANGED <<kind, retry, waiting, sem, caller, answered>>

(* Mutation: the length of the request is not looked at. *)
AfterSetupIgnoresLength == IF kind = "write" THEN "dataOut" ELSE "dataIn"

AfterSetup ==
  CASE kind = "read"  -> "dataIn"
    [] kind = "write" -> "dataOut"
    [] OTHER          -> "statusIn"

(* Where the state of the channel takes the machine.  In the status stage  *)
(* of a request without data in, a STALL stores URB_STALL, which is the    *)
(* number of CTRL_DATA_IN_WAIT, into the state.                            *)
Reaction(s, u) ==
  CASE u = "error"                                            -> "error"
    [] u = "stall" /\ s \in {"dataInWait", "dataOutWait"}     -> "error"
    [] u = "stall" /\ s = "statusInWait"                      -> "dataInWait"
    [] u = "notready" /\ s = "dataOutWait"                    -> "dataOut"
    [] u = "notready" /\ s = "statusOutWait"                  -> "statusOut"
    [] u = "done" /\ s = "setupWait"                          -> AfterSetup
    [] u = "done" /\ s = "dataInWait"                         -> "statusOut"
    [] u = "done" /\ s = "dataOutWait"                        -> "statusIn"
    [] OTHER                                                  -> s

Finished == state \in {"statusInWait", "statusOutWait"} /\ urb[Channel(state)] = "done"

CtrlPoll ==
  /\ state \in Waiting /\ ~Finished
  /\ state' = Reaction(state, urb[Channel(state)])
  /\ UNCHANGED <<kind, urb, retry, waiting, sem, caller, answered>>

(* _usb_control_complete. *)
Wake ==
  IF waiting THEN waiting' = FALSE /\ sem' = sem + 1 ELSE UNCHANGED <<waiting, sem>>

RetriesLeftOneMore == retry >= 0      \* mutation: off by one
RetriesLeft == retry > 0

CtrlComplete ==
  /\ \/ Finished
     \/ state = "error" /\ ~RetriesLeft
  /\ state' = "idle"
  /\ Wake
  /\ answered' = TRUE
  /\ UNCHANGED <<kind, urb, retry, caller>>

CtrlRetry ==
  /\ state = "error" /\ RetriesLeft
  /\ retry' = retry - 1
  /\ state' = "setup"
  /\ UNCHANGED <<kind, urb, waiting, sem, caller, answered>>

(* The host controller ends a transfer on a channel. *)
UrbEnds ==
  /\ state \in Waiting /\ urb[Channel(state)] = "idle"
  /\ \E u \in UrbState \ {"idle"} : urb' = [urb EXCEPT ![Channel(state)] = u]
  /\ UNCHANGED <<state, kind, retry, waiting, sem, caller, answered>>

-----------------------------------------------------------------------------
(* _dev_probe_entry. *)
Init ==
  /\ state = "idle" /\ kind \in Kinds /\ urb = [c \in {"in", "out"} |-> "idle"]
  /\ retry = Retries /\ waiting = FALSE /\ sem = 0
  /\ cpc = "idle" /\ tries = 0
  /\ answered = FALSE

CtrlStep == CtrlIssue \/ CtrlPoll \/ CtrlComplete \/ CtrlRetry

Next == Submit \/ CallReturns \/ Expire \/ CallTimesOut \/ CtrlStep \/ UrbEnds

Spec == Init /\ [][Next]_vars

-----------------------------------------------------------------------------
(* USB_CtrlReq_Semphore collects at most one answer too many. *)
TypeOK ==
  /\ state \in State /\ kind \in Kinds
  /\ urb \in [{"in", "out"} -> UrbState]
  /\ retry \in 0..Retries /\ waiting \in BOOLEAN /\ sem \in 0..2
  /\ cpc \in {"idle", "wait", "expired", "again"} /\ tries \in 0..MaxTries
  /\ answered \in BOOLEAN

(* "here maybe a error to be fixed": the status stage's STALL leads to     *)
(* CTRL_DATA_IN_WAIT, but there the same STALL is seen again, so that no   *)
(* request without data to read is ever taken for one with it.             *)
StalledStatusIsAnError ==
  state = "dataInWait" /\ kind # "read" => urb["in"] = "stall"

(* The answer to a call that has returned wakes nobody: it is not taken    *)
(* for the answer to the next call.                                        *)
LateAnswerIsSilent ==
  [][CtrlComplete /\ cpc \in {"idle", "again"} => sem' = sem]_vars

(* "waits for the message to complete, or time-out": a call that does not  *)
(* time out returns after its own request has been completed.              *)
CallWaitsForCompletion == [][CallReturns => answered]_vars
=============================================================================
