---------------------------- MODULE VamBsm_proofs ----------------------------
(***************************************************************************)
(* Theorems about VamBsm for every mode, queue size and set of inputs and  *)
(* alerts.  Two facts carry them: t-vsa-r does not run while the VAM       *)
(* thread is between a load and a store, and no interrupt touches TX or    *)
(* sets ALERT.                                                             *)
(***************************************************************************)
EXTENDS VamBsm, TLAPS

USE VamBsmAssumption DEF Flags

(* The down counter stays within its width, 0 - 1 included. *)
LEMMA CountDownType == \A c \in 0..(CountMod - 1) : CountDown(c) \in 0..(CountMod - 1)
<1> SUFFICES ASSUME NEW c \in 0..(CountMod - 1) PROVE CountDown(c) \in 0..(CountMod - 1)
  OBVIOUS
<1>1. CountMod \in Nat /\ CountMod > 0
  OBVIOUS
<1>2. c + CountMod - 1 \in Nat
  BY <1>1
<1> QED BY <1>1, <1>2 DEF CountDown

(* vam_add_event_queue keeps the queue typed and within its size. *)
LEMMA EnqueueType ==
  \A q \in Seq(Inputs \cup {"tx"}), m \in Inputs \cup {"tx"} :
    Len(q) <= QueueSize
      => Enqueue(q, m) \in Seq(Inputs \cup {"tx"}) /\ Len(Enqueue(q, m)) <= QueueSize
BY DEF Enqueue

(* The period is one of the three the code computes. *)
LEMMA UpdateType == \A f : Update(f) \in Periods
BY DEF Update, Periods

(* Every step keeps every variable in its type. *)
LEMMA NextType == TypeOK /\ [Next]_vars => TypeOK'
<1> SUFFICES ASSUME TypeOK, [Next]_vars PROVE TypeOK'
  OBVIOUS
<1> USE UpdateType DEF TypeOK, VamPC, AlertPC
<1>1. CASE UNCHANGED vars
  BY <1>1 DEF vars, timers, vam, alerter
<1>2. ASSUME NEW m \in Inputs, Request(m) PROVE TypeOK'
  BY <1>2, EnqueueType DEF Request, timers, vam, alerter
<1>3. CASE SendBsm
  <2>1. count' \in 0..(CountMod - 1)
    BY <1>3, CountDownType DEF SendBsm
  <2>2. queue' \in Seq(Inputs \cup {"tx"}) /\ Len(queue') <= QueueSize
    BY <1>3, EnqueueType DEF SendBsm
  <2>3. flag' \subseteq Flags /\ period' \in Periods
    BY <1>3 DEF SendBsm
  <2> QED BY <1>3, <2>1, <2>2, <2>3 DEF SendBsm, timers, vam, alerter
<1>4. CASE PauseEnds \/ GpsLost \/ EbdEnds
  BY <1>4 DEF PauseEnds, GpsLost, EbdEnds, vam, alerter
<1>5. CASE VamStep
  <2>1. CASE StartLoad \/ StopLoad \/ Transmit \/ PauseLoad \/ GpsLoad
    <3>1. queue' \in Seq(Inputs \cup {"tx"}) /\ Len(queue') <= QueueSize
      <4>1. queue # <<>> /\ queue' = Tail(queue)
        BY <2>1 DEF StartLoad, StopLoad, Transmit, PauseLoad, GpsLoad, Take
      <4>2. Len(queue') = Len(queue) - 1 /\ Len(queue) \in Nat /\ Len(queue) <= QueueSize
        BY <4>1
      <4> QED BY <4>1, <4>2
    <3>2. CASE StartLoad
      BY <3>1, <3>2 DEF StartLoad, Take, timers, alerter
    <3>3. CASE StopLoad
      BY <3>1, <3>3 DEF StopLoad, Take, timers, alerter
    <3>4. CASE Transmit \/ PauseLoad
      BY <3>1, <3>4 DEF Transmit, PauseLoad, Take, timers, alerter
    <3>5. CASE GpsLoad
      BY <3>1, <3>5 DEF GpsLoad, Take, timers, alerter
    <3> QED BY <2>1, <3>2, <3>3, <3>4, <3>5
  <2>2. CASE StartStore \/ StopStore \/ PauseStore
    <3>1. CASE StartStore
      BY <3>1 DEF StartStore, Done, timers, alerter
    <3>2. CASE StopStore
      BY <3>2 DEF StopStore, Done, timers, alerter
    <3>3. CASE PauseStore
      BY <3>3 DEF PauseStore, Done, timers, alerter
    <3> QED BY <2>2, <3>1, <3>2, <3>3
  <2>3. CASE GpsStore
    BY <2>3 DEF GpsStore, Done, timers, alerter
  <2> QED BY <1>5, <2>1, <2>2, <2>3 DEF VamStep
<1>6. CASE AlertStep
  <2>1. CASE ActivateLoad \/ ActivateMask \/ ActivateCheck
    <3>1. CASE ActivateLoad
      BY <3>1 DEF ActivateLoad, AlertMoves, timers, vam
    <3>2. CASE ActivateMask \/ ActivateCheck
      BY <3>2 DEF ActivateMask, ActivateCheck, AlertMoves, timers, vam
    <3> QED BY <2>1, <3>1, <3>2
  <2>2. CASE ActivateFlag \/ ActivateEnd \/ CancelLoad \/ CancelStore
    <3>1. CASE ActivateFlag
      BY <3>1 DEF ActivateFlag, AlertMoves, timers, vam
    <3>2. CASE ActivateEnd
      BY <3>2 DEF ActivateEnd, AlertMoves, timers, vam
    <3>3. CASE CancelLoad \/ CancelStore
      BY <3>3 DEF CancelLoad, CancelStore, AlertMoves, timers, vam
    <3> QED BY <2>2, <3>1, <3>2, <3>3
  <2> QED BY <1>6, <2>1, <2>2 DEF AlertStep
<1> QED BY <1>1, <1>2, <1>3, <1>4, <1>5, <1>6 DEF Next, Callback

(* Every variable keeps its type; the counter and the queue stay in bounds. *)
THEOREM BsmTypeCorrect == Spec => []TypeOK
<1>1. Init => TypeOK
  <2> SUFFICES ASSUME Init PROVE TypeOK
    OBVIOUS
  <2>1. TxTimes \in 0..(CountMod - 1)
    OBVIOUS
  <2>2. queue \in Seq(Inputs \cup {"tx"}) /\ Len(queue) <= QueueSize
    BY DEF Init
  <2>3. {bsmTimer, pauseTimer, gpsTimer, ebdTimer, started} \subseteq BOOLEAN
    BY DEF Init
  <2> QED BY <2>1, <2>2, <2>3 DEF Init, TypeOK, Periods, VamPC, AlertPC
<1> QED BY <1>1, NextType, PTL DEF Spec

-----------------------------------------------------------------------------
(* ALERT and the break-down bit.  While the VAM thread is between a load   *)
(* and a store nobody sets ALERT, so that what it writes back has not lost *)
(* it.                                                                     *)
Steady == apc \in {"idle", "end", "cancel"}

AlertInv ==
  /\ "VBD" \in mask /\ Steady => "ALERT" \in flag
  /\ vpc \in {"start", "stop", "pause", "gps"} /\ "ALERT" \in flag => "ALERT" \in vreg

(* Every step keeps AlertInv. *)
LEMMA NextAlertInv == TypeOK /\ AlertInv /\ [Next]_vars => AlertInv'
<1> SUFFICES ASSUME TypeOK, AlertInv, [Next]_vars PROVE AlertInv'
  OBVIOUS
<1> USE DEF AlertInv, Steady
<1>1. CASE UNCHANGED vars
  BY <1>1 DEF vars, timers, vam, alerter
<1>2. ASSUME NEW m \in Inputs, Request(m) PROVE AlertInv'
  BY <1>2 DEF Request, timers, vam, alerter
<1>3. CASE SendBsm
  BY <1>3 DEF SendBsm, AllClear, vam, alerter
<1>4. CASE PauseEnds \/ GpsLost \/ EbdEnds
  BY <1>4 DEF PauseEnds, GpsLost, EbdEnds, vam, alerter
<1>5. CASE VamStep
  <2>1. CASE StartLoad \/ StopLoad \/ Transmit \/ PauseLoad \/ GpsLoad
    BY <2>1 DEF StartLoad, StopLoad, Transmit, PauseLoad, GpsLoad, Take, alerter
  <2>2. CASE StartStore \/ StopStore \/ PauseStore
    BY <2>2 DEF StartStore, StopStore, PauseStore, Done, alerter
  <2>3. CASE GpsStore
    BY <2>3 DEF GpsStore, Done, alerter
  <2> QED BY <1>5, <2>1, <2>2, <2>3 DEF VamStep
<1>6. CASE AlertStep
  <2>1. vpc = "recv" /\ vpc' = "recv" /\ vreg' = vreg
    BY <1>6
    DEF AlertStep, ActivateLoad, ActivateMask, ActivateCheck, ActivateFlag, ActivateEnd,
        CancelLoad, CancelStore, AlertMoves, CpuFree, vam
  <2>2. "VBD" \in mask' /\ Steady' => "ALERT" \in flag'
    BY <1>6
    DEF AlertStep, ActivateLoad, ActivateMask, ActivateCheck, ActivateFlag, ActivateEnd,
        CancelLoad, CancelStore, AlertMoves
  <2> QED BY <2>1, <2>2
<1> QED BY <1>1, <1>2, <1>3, <1>4, <1>5, <1>6 DEF Next, Callback

(* A break-down alert in the mask goes out with every message, whatever    *)
(* interrupts and handlers do to the flag word meanwhile.                  *)
THEOREM BreakdownAlwaysAdvertised == Spec => []BreakdownAdvertised
<1>1. Init => AlertInv
  BY DEF Init, AlertInv
<1>2. AlertInv => BreakdownAdvertised
  BY DEF AlertInv, Steady, BreakdownAdvertised
<1> QED BY <1>1, <1>2, BsmTypeCorrect, NextAlertInv, PTL DEF Spec

-----------------------------------------------------------------------------
(* TX and the timer.  t-vsa-r may put a TX bit back that STOP has cleared, *)
(* but then STOP has stopped the timer too.                                *)
StopInv ==
  /\ bsmTimer /\ ~started => "TX" \notin flag
  /\ bsmTimer /\ apc = "flag" /\ "TX" \in areg => "TX" \in flag
  /\ vpc \in {"start", "stop", "pause", "gps"} => ("TX" \in flag <=> "TX" \in vreg)
  /\ vpc = "stop" /\ bsmTimer => "TX" \notin flag

(* Every step keeps StopInv. *)
LEMMA NextStopInv == TypeOK /\ StopInv /\ [Next]_vars => StopInv'
<1> SUFFICES ASSUME TypeOK, StopInv, [Next]_vars PROVE StopInv'
  OBVIOUS
<1> USE DEF StopInv
<1>1. CASE UNCHANGED vars
  BY <1>1 DEF vars, timers, vam, alerter
<1>2. ASSUME NEW m \in Inputs, Request(m) PROVE StopInv'
  BY <1>2 DEF Request, timers, vam, alerter
<1>3. CASE Callback
  BY <1>3 DEF Callback, SendBsm, PauseEnds, GpsLost, EbdEnds, timers, vam, alerter
<1>4. CASE VamStep
  <2>1. CASE StartLoad \/ Transmit \/ PauseLoad \/ GpsLoad
    BY <2>1 DEF StartLoad, Transmit, PauseLoad, GpsLoad, Take, timers, alerter
  <2>2. CASE StopLoad
    BY <2>2 DEF StopLoad, StopsTimer, Take, alerter
  <2>3. CASE StartStore
    BY <2>3 DEF StartStore, Done, alerter
  <2>4. CASE StopStore
    BY <2>4 DEF StopStore, Done, timers, alerter
  <2>5. CASE PauseStore \/ GpsStore
    BY <2>5 DEF PauseStore, GpsStore, Done, timers, alerter
  <2> QED BY <1>4, <2>1, <2>2, <2>3, <2>4, <2>5 DEF VamStep
<1>5. CASE AlertStep
  BY <1>5
  DEF AlertStep, ActivateLoad, ActivateMask, ActivateCheck, ActivateFlag, ActivateEnd,
      CancelLoad, CancelStore, AlertMoves, CpuFree, timers, vam
<1> QED BY <1>1, <1>2, <1>3, <1>4, <1>5 DEF Next

(* No message is queued between the handling of STOP and the next START.   *)
THEOREM StoppedIsSilent == Spec => NoBsmWhileStopped
<1>1. Init => StopInv
  BY DEF Init, StopInv
<1>2. StopInv => [SendBsm /\ queue' # queue => started]_vars
  <2> SUFFICES ASSUME StopInv, SendBsm, queue' # queue PROVE started
    OBVIOUS
  <2> QED BY DEF StopInv, SendBsm
<1> QED BY <1>1, <1>2, BsmTypeCorrect, NextStopInv, PTL DEF Spec, NoBsmWhileStopped

=============================================================================
