--------------------------- MODULE UsbCtrl_proofs ---------------------------
(***************************************************************************)
(* Control requests, for every set of kinds and every number of calls and  *)
(* retries.                                                                *)
(***************************************************************************)
EXTENDS UsbCtrl, TLAPS

(* The semaphore against the flag waiting_for_complete: an answer that has *)
(* been given and not taken cleared the flag, so that in a call there is   *)
(* one of the two, and at most one answer of an earlier call besides.      *)
SemInv ==
  /\ cpc \in {"idle", "again"} => ~waiting /\ sem <= 1
  /\ cpc = "wait" => IF waiting THEN sem <= 1 ELSE sem >= 1
  /\ cpc = "expired" => IF waiting THEN sem = 0 ELSE sem = 1
  /\ cpc = "again" => tries < MaxTries

(* The data stage is entered by requests that have one.                    *)
DataInv ==
  /\ state = "dataIn" => kind = "read"
  /\ StalledStatusIsAnError

CtrlInv == TypeOK /\ SemInv /\ DataInv

-----------------------------------------------------------------------------
LEMMA CtrlInit == Init => CtrlInv
  <1> SUFFICES ASSUME Init PROVE CtrlInv
    OBVIOUS
  <1> USE UsbCtrlAssumption DEF Init
  <1>1. urb \in [{"in", "out"} -> UrbState]
    BY DEF UrbState
  <1>2. retry \in 0..Retries /\ sem \in 0..2 /\ tries \in 0..MaxTries
    OBVIOUS
  <1>3. TypeOK
    BY <1>1, <1>2 DEF TypeOK, State
  <1>4. QED
    BY <1>3 DEF CtrlInv, SemInv, DataInv, StalledStatusIsAnError

(* The values the machine's helpers have.                                  *)
LEMMA Stages ==
  /\ \A s \in Issuing : WaitOf[s] \in Waiting
  /\ \A s \in Issuing : WaitOf[s] = "dataInWait" => s = "dataIn"
  /\ \A s : Channel(s) \in {"in", "out"}
  /\ \A s \in Waiting, u \in UrbState : Reaction(s, u) \in State
  /\ "in" = Channel("dataInWait")
  BY DEF Issuing, Waiting, State, WaitOf, Channel, Reaction, AfterSetup, UrbState

(* Only the status stage's STALL takes the machine to CTRL_DATA_IN_WAIT,   *)
(* and only the end of the setup stage of a read to the data stage.        *)
LEMMA IntoData ==
  ASSUME NEW s \in Waiting, NEW u \in UrbState
  PROVE  /\ Reaction(s, u) = "dataIn" => kind = "read"
         /\ Reaction(s, u) = "dataInWait" =>
              \/ s = "dataInWait" /\ u \notin {"error", "stall", "done"}
              \/ s = "statusInWait" /\ u = "stall"
  BY DEF Waiting, Reaction, AfterSetup, UrbState

-----------------------------------------------------------------------------
(* The types, with what the call and the machine are up to.                *)
LEMMA TypeStep == CtrlInv /\ [Next]_vars => TypeOK'
  <1> SUFFICES ASSUME CtrlInv, [Next]_vars PROVE TypeOK'
    OBVIOUS
  <1> USE UsbCtrlAssumption DEF CtrlInv, TypeOK
  <1>1. CASE Submit
    <2>1. tries' \in 0..MaxTries
      BY <1>1 DEF Submit, SemInv
    <2>2. kind' \in Kinds /\ state' \in State
      BY <1>1 DEF Submit, State, Issuing
    <2>3. QED
      BY <1>1, <2>1, <2>2 DEF Submit
  <1>2. CASE CallReturns
    <2>1. sem' \in 0..2
      BY <1>2 DEF CallReturns
    <2>2. QED
      BY <1>2, <2>1 DEF CallReturns, request
  <1>3. CASE Expire
    BY <1>3 DEF Expire, request
  <1>4. CASE CallTimesOut
    BY <1>4 DEF CallTimesOut, request, NotWaiting
  <1>5. CASE CtrlIssue
    BY <1>5, Stages DEF CtrlIssue, caller, State, UrbState
  <1>6. CASE CtrlPoll
    <2>1. urb[Channel(state)] \in UrbState
      BY Stages
    <2>2. state' \in State
      BY <1>6, <2>1, Stages DEF CtrlPoll
    <2>3. QED
      BY <1>6, <2>2 DEF CtrlPoll, caller
  <1>7. CASE CtrlComplete
    <2>1. waiting => sem <= 1
      BY DEF SemInv
    <2>2. sem' \in 0..2
      BY <1>7, <2>1 DEF CtrlComplete, Wake
    <2>3. waiting' \in BOOLEAN
      BY <1>7 DEF CtrlComplete, Wake
    <2>4. QED
      BY <1>7, <2>2, <2>3 DEF CtrlComplete, caller, State
  <1>8. CASE CtrlRetry
    BY <1>8 DEF CtrlRetry, RetriesLeft, caller, State, Issuing
  <1>9. CASE UrbEnds
    BY <1>9, Stages DEF UrbEnds, caller
  <1>10. CASE UNCHANGED vars
    BY <1>10 DEF vars, request, caller
  <1>11. QED
    BY <1>1, <1>2, <1>3, <1>4, <1>5, <1>6, <1>7, <1>8, <1>9, <1>10 DEF Next, CtrlStep

LEMMA SemStep == CtrlInv /\ [Next]_vars => SemInv'
  <1> SUFFICES ASSUME CtrlInv, [Next]_vars PROVE SemInv'
    OBVIOUS
  <1> USE UsbCtrlAssumption DEF CtrlInv, TypeOK, SemInv
  <1>1. CASE Submit
    BY <1>1 DEF Submit
  <1>2. CASE CallReturns
    BY <1>2 DEF CallReturns
  <1>3. CASE Expire
    BY <1>3 DEF Expire
  <1>4. CASE CallTimesOut
    BY <1>4 DEF CallTimesOut, NotWaiting
  <1>5. CASE CtrlComplete
    BY <1>5 DEF CtrlComplete, Wake, caller
  <1>6. CASE CtrlIssue \/ CtrlPoll \/ CtrlRetry \/ UrbEnds \/ UNCHANGED vars
    <2>1. UNCHANGED <<waiting, sem, cpc, tries>>
      BY <1>6 DEF CtrlIssue, CtrlPoll, CtrlRetry, UrbEnds, caller, vars
    <2>2. QED
      BY <2>1
  <1>7. QED
    BY <1>1, <1>2, <1>3, <1>4, <1>5, <1>6 DEF Next, CtrlStep

LEMMA DataStep == CtrlInv /\ [Next]_vars => DataInv'
  <1> SUFFICES ASSUME CtrlInv, [Next]_vars PROVE DataInv'
    OBVIOUS
  <1> USE DEF CtrlInv, DataInv, StalledStatusIsAnError
  <1>1. CASE CtrlIssue
    <2>1. state' = "dataInWait" => kind' = "read"
      BY <1>1, Stages DEF CtrlIssue
    <2>2. state' # "dataIn"
      BY <1>1, Stages DEF CtrlIssue, Waiting
    <2>3. QED
      BY <2>1, <2>2
  <1>2. CASE CtrlPoll
    <2>1. urb[Channel(state)] \in UrbState
      BY Stages DEF TypeOK
    <2>2. state' = "dataIn" => kind' = "read"
      BY <1>2, <2>1, IntoData DEF CtrlPoll
    <2>3. ASSUME state' = "dataInWait", kind' # "read" PROVE urb'["in"] = "stall"
      <3>1. CASE state = "dataInWait"
        BY <1>2, <2>3, <3>1 DEF CtrlPoll
      <3>2. CASE state = "statusInWait" /\ urb[Channel(state)] = "stall"
        BY <1>2, <3>2 DEF CtrlPoll, Channel
      <3>3. QED
        BY <1>2, <2>1, <2>3, <3>1, <3>2, IntoData DEF CtrlPoll
    <2>4. QED
      BY <2>2, <2>3
  <1>3. CASE UrbEnds
    <2>1. UNCHANGED <<state, kind>>
      BY <1>3 DEF UrbEnds
    <2>2. state = "dataInWait" => urb["in"] # "stall"
      BY <1>3, Stages DEF UrbEnds
    <2>3. QED
      BY <2>1, <2>2
  <1>4. CASE Submit \/ CtrlComplete \/ CtrlRetry
    BY <1>4 DEF Submit, CtrlComplete, CtrlRetry
  <1>5. CASE CallReturns \/ Expire \/ CallTimesOut \/ UNCHANGED vars
    BY <1>5 DEF CallReturns, Expire, CallTimesOut, vars, request
  <1>6. QED
    BY <1>1, <1>2, <1>3, <1>4, <1>5 DEF Next, CtrlStep

THEOREM CtrlInvariant == Spec => []CtrlInv
  <1>1. CtrlInv /\ [Next]_vars => CtrlInv'
    BY TypeStep, SemStep, DataStep DEF CtrlInv
  <1>2. QED
    BY CtrlInit, <1>1, PTL DEF Spec

-----------------------------------------------------------------------------
(* The request, the channels, the semaphore and the counters stay in their *)
(* ranges; the semaphore never holds more than two answers                 *)
(* (usb_control_msg, _usb_ctrl_request_handle).                            *)
THEOREM CtrlTypes == Spec => []TypeOK
  <1>1. CtrlInv => TypeOK
    BY DEF CtrlInv
  <1>2. QED
    BY CtrlInvariant, <1>1, PTL

(* A request without data to read is in CTRL_DATA_IN_WAIT only with the    *)
(* STALL that brought it there, so that the next step makes it an error    *)
(* (_usb_ctrl_request_handle).                                             *)
THEOREM StallIsNotData == Spec => []StalledStatusIsAnError
  <1>1. CtrlInv => StalledStatusIsAnError
    BY DEF CtrlInv, DataInv
  <1>2. QED
    BY CtrlInvariant, <1>1, PTL

(* The answer to a call that has returned wakes nobody                     *)
(* (_usb_control_complete after the time-out of usb_control_msg).          *)
THEOREM LateAnswersWakeNobody == Spec => LateAnswerIsSilent
  <1>1. CtrlInv /\ [Next]_vars => [CtrlComplete /\ cpc \in {"idle", "again"} => sem' = sem]_vars
    BY DEF CtrlInv, SemInv, CtrlComplete, Wake
  <1>2. QED
    BY CtrlInvariant, <1>1, PTL DEF Spec, LateAnswerIsSilent
=============================================================================
