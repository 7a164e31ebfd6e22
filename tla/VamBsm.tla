------------------------------- MODULE VamBsm -------------------------------
(***************************************************************************)
(* Broadcasting of the basic safety message: the flag word and the local   *)
(* alert mask of vam_envar_t, and everyone who writes them without a lock. *)
(*   - the VAM thread (priority 22): START, STOP, RCPTX, EVAM, GPSDATA;    *)
(*   - the timer callbacks, in interrupt context;                          *)
(*   - the thread t-vsa-r (priority 23), through vam_active_alert and      *)
(*     vam_cancel_alert.                                                   *)
(* "flag |= x" and "mask &= ~x" compile to a load, an operation and a      *)
(* store.  An interrupt may fall between load and store of a thread, and   *)
(* the VAM thread may preempt t-vsa-r there; t-vsa-r never preempts the    *)
(* VAM thread.  Two updates of one handler with nothing another actor can  *)
(* tell apart between them are one load and one store.                     *)
(* The neighbour table, whose timer START and STOP also drive, is the      *)
(* subject of VamNeighbour.                                                *)
(***************************************************************************)
EXTENDS Naturals, Sequences, FiniteSets

CONSTANTS
  Mode,        \* bsm_boardcast_mode: "disable", "auto" or "fixed"
  TxTimes,     \* VAM_NO_ALERT_EVAM_TX_TIMES
  CountMod,    \* values of the uint8_t count in timer_send_bsm_callback
  QueueSize,   \* VAM_QUEUE_SIZE
  Inputs,      \* kinds of request that reach the VAM queue
  Alerts       \* alerts this vehicle may raise

ASSUME VamBsmAssumption ==
  /\ Mode \in {"disable", "auto", "fixed"}
  /\ TxTimes \in Nat /\ CountMod \in Nat /\ TxTimes < CountMod
  /\ QueueSize \in Nat \ {0}
  /\ Inputs \subseteq {"start", "stop", "evam", "gps"}
  /\ Alerts \subseteq {"VBD", "EBD"}

VARIABLES
  flag,        \* VAM_FLAG_ bits that are set
  mask,        \* local.alert_mask
  count,       \* static uint8_t count of timer_send_bsm_callback
  period,      \* period set in timer_send_bsm (and bsm_send_period_ticks)
  bsmTimer, pauseTimer, gpsTimer, ebdTimer,   \* the timer is running
  queue,       \* queue_vam
  vpc, vreg,   \* VAM thread: where it is, the word it loaded
  apc, areg,   \* t-vsa-r: where it is, the word it loaded
  want,        \* t-vsa-r: the alert it raises
  started      \* history: the request handled last is START

timers  == <<bsmTimer, pauseTimer, gpsTimer, ebdTimer>>
vam     == <<vpc, vreg>>
alerter == <<apc, areg, want>>
vars    == <<flag, mask, count, period, timers, queue, vam, alerter, started>>

Flags   == {"RX", "TX", "ALERT", "PAUSE", "GPS"}
Periods == {"auto", "bsm", "evam"}
VamPC   == {"recv", "start", "stop", "pause", "gps"}
AlertPC == {"idle", "mask", "check", "flag", "end", "cancel"}

-----------------------------------------------------------------------------
(* vsm_update_bsm_bcast_timer; setting the period of a timer does not      *)
(* start it.                                                               *)
Update(f) == CASE Mode = "auto"      -> "auto"
               [] "ALERT" \in f      -> "evam"
               [] OTHER              -> "bsm"

(* Mutation: one element more than the queue has room for. *)
EnqueueOneMore(q, m) == IF Len(q) <= QueueSize THEN Append(q, m) ELSE q

Enqueue(q, m) == IF Len(q) < QueueSize THEN Append(q, m) ELSE q

(* vam_start, vam_stop, a received EVAM, a line of the GPS receiver. *)
Request(m) ==
  /\ queue' = Enqueue(queue, m)
  /\ UNCHANGED <<flag, mask, count, period, timers, vam, alerter, started>>

-----------------------------------------------------------------------------
(* Timer callbacks. *)

(* The last alert is gone but the extension is still sent; every callback  *)
(* then counts down, "0 == count--" included: count wraps.                 *)
AllClearIgnoresMask(f, k) == "ALERT" \in f          \* mutation: mask not tested
AllClear(f, k) == "ALERT" \in f /\ k = {}

CountDownReloads(c) == TxTimes                      \* mutation: set anew each time
CountDown(c) == (c + CountMod - 1) % CountMod

(* timer_send_bsm_callback. *)
SendBsm ==
  LET last    == AllClear(flag, mask) /\ count = 0
      flagNow == IF last THEN flag \ {"ALERT"} ELSE flag
  IN /\ bsmTimer
     /\ flag' = flagNow
     /\ count' = IF AllClear(flag, mask) THEN CountDown(count) ELSE count
     /\ period' = IF last THEN Update(flagNow) ELSE period
     /\ queue' = IF "TX" \in flagNow /\ "PAUSE" \notin flagNow
                   THEN Enqueue(queue, "tx") ELSE queue
     /\ UNCHANGED <<mask, timers, vam, alerter, started>>

(* timer_bsm_pause_callback: an armed one-shot timer. *)
PauseEnds ==
  /\ pauseTimer
  /\ pauseTimer' = FALSE
  /\ flag' = IF "TX" \in flag THEN flag \ {"PAUSE"} ELSE flag
  /\ UNCHANGED <<mask, count, period, bsmTimer, gpsTimer, ebdTimer, queue, vam, alerter,
                 started>>

(* timer_gps_life_callback. *)
GpsLost ==
  /\ gpsTimer
  /\ gpsTimer' = FALSE
  /\ flag' = flag \ {"GPS"}
  /\ UNCHANGED <<mask, count, period, bsmTimer, pauseTimer, ebdTimer, queue, vam, alerter,
                 started>>

(* timer_ebd_send_callback: vam_cancel_alert in interrupt context. *)
EbdEnds ==
  /\ ebdTimer
  /\ ebdTimer' = FALSE
  /\ mask' = mask \ {"EBD"}
  /\ UNCHANGED <<flag, count, period, bsmTimer, pauseTimer, gpsTimer, queue, vam, alerter,
                 started>>

-----------------------------------------------------------------------------
(* VAM thread. *)
Take(m, pc, word) ==
  /\ vpc = "recv" /\ queue # <<>> /\ Head(queue) = m
  /\ queue' = Tail(queue)
  /\ vpc' = pc
  /\ vreg' = IF pc = "recv" THEN {} ELSE word

Done == vpc' = "recv" /\ vreg' = {}

StartLoad ==
  /\ Take("start", "start", flag)
  /\ UNCHANGED <<flag, mask, count, period, timers, alerter, started>>

(* RX and, unless broadcasting is disabled, TX and vsm_start_bsm_broadcast *)
(* with the normal period: it does not look at ALERT.                      *)
StartStore ==
  /\ vpc = "start"
  /\ IF Mode = "disable"
       THEN flag' = vreg \cup {"RX"} /\ UNCHANGED <<period, bsmTimer>>
       ELSE /\ flag' = vreg \cup {"RX", "TX"}
            /\ period' = Update({})
            /\ bsmTimer' = TRUE
  /\ started' = TRUE
  /\ Done
  /\ UNCHANGED <<mask, count, pauseTimer, gpsTimer, ebdTimer, queue, alerter>>

(* "if (flag && VAM_FLAG_TX_BSM)": any bit of the flag word will do. *)
StopsNoTimer(f) == FALSE     \* mutation: clearing the flag is thought to do
StopsTimer(f) == f # {}

StopLoad ==
  /\ Take("stop", "stop", flag)
  /\ bsmTimer' = (bsmTimer /\ ~StopsTimer(flag))
  /\ UNCHANGED <<flag, mask, count, period, pauseTimer, gpsTimer, ebdTimer, alerter, started>>

StopStore ==
  /\ vpc = "stop"
  /\ flag' = vreg \ {"RX", "TX"}
  /\ started' = FALSE
  /\ Done
  /\ UNCHANGED <<mask, count, period, timers, queue, alerter>>

(* rcp_send_bsm hands the message to the WNET layer. *)
Transmit ==
  /\ Take("tx", "recv", {})
  /\ UNCHANGED <<flag, mask, count, period, timers, alerter, started>>

(* rcp_parse_msg on an EVAM, bsm_pause_mode 2: vsm_pause_bsm_broadcast. *)
PauseLoad ==
  /\ Take("evam", IF "PAUSE" \in flag THEN "recv" ELSE "pause", flag)
  /\ UNCHANGED <<flag, mask, count, period, timers, alerter, started>>

PauseStore ==
  /\ vpc = "pause"
  /\ flag' = vreg \cup {"PAUSE"}
  /\ pauseTimer' = TRUE
  /\ Done
  /\ UNCHANGED <<mask, count, period, bsmTimer, gpsTimer, ebdTimer, queue, alerter, started>>

(* lip_update_local: a new speed updates the broadcast period.  The branch *)
(* that would copy a dead-reckoned status, old alert mask included, over   *)
(* local is not taken, because lip_rmc_valid_check finds every fix valid.  *)
GpsLoad ==
  /\ Take("gps", "gps", flag)
  /\ \E newSpeed \in BOOLEAN : period' = IF newSpeed THEN Update(flag) ELSE period
  /\ UNCHANGED <<flag, mask, count, timers, alerter, started>>

GpsStore ==
  /\ vpc = "gps"
  /\ flag' = IF "GPS" \in vreg THEN flag ELSE vreg \cup {"GPS"}
  /\ gpsTimer' = TRUE
  /\ Done
  /\ UNCHANGED <<mask, count, period, bsmTimer, pauseTimer, ebdTimer, queue, alerter, started>>

-----------------------------------------------------------------------------
(* t-vsa-r runs only while the VAM thread is blocked on its queue. *)
CpuFree == vpc = "recv" /\ queue = <<>>

AlertMoves(pc, word) ==
  /\ CpuFree
  /\ apc' = pc /\ areg' = word

(* vsa_manual_broadcast_proc or vsa_eebl_broadcast_proc: vam_active_alert. *)
ActivateLoad ==
  /\ apc = "idle" /\ AlertMoves("mask", mask)
  /\ \E a \in Alerts : want' = a
  /\ UNCHANGED <<flag, mask, count, period, timers, queue, vam, started>>

ActivateMask ==
  /\ apc = "mask" /\ AlertMoves("check", {})
  /\ mask' = areg \cup {want}
  /\ UNCHANGED <<flag, count, period, timers, queue, vam, want, started>>

ActivateCheck ==
  /\ apc = "check"
  /\ IF "ALERT" \in flag THEN AlertMoves("end", {}) ELSE AlertMoves("flag", flag)
  /\ UNCHANGED <<flag, mask, count, period, timers, queue, vam, want, started>>

ActivateFlag ==
  /\ apc = "flag" /\ AlertMoves("end", {})
  /\ flag' = areg \cup {"ALERT"}
  /\ period' = Update(flag')
  /\ UNCHANGED <<mask, count, timers, queue, vam, want, started>>

(* An emergency-brake alert is held for timer_ebd_send. *)
ActivateEnd ==
  /\ apc = "end" /\ AlertMoves("idle", {})
  /\ ebdTimer' = (ebdTimer \/ want = "EBD")
  /\ want' = "none"
  /\ UNCHANGED <<flag, mask, count, period, bsmTimer, pauseTimer, gpsTimer, queue, vam, started>>

(* The driver cancels the break-down alert: vam_cancel_alert. *)
CancelLoad ==
  /\ apc = "idle" /\ AlertMoves("cancel", mask)
  /\ "VBD" \in Alerts
  /\ UNCHANGED <<flag, mask, count, period, timers, queue, vam, want, started>>

CancelStore ==
  /\ apc = "cancel" /\ AlertMoves("idle", {})
  /\ mask' = areg \ {"VBD"}
  /\ UNCHANGED <<flag, count, period, timers, queue, vam, want, started>>

-----------------------------------------------------------------------------
Init ==
  /\ flag = {} /\ mask = {} /\ count = TxTimes /\ period = "bsm"
  /\ bsmTimer = FALSE /\ pauseTimer = FALSE /\ gpsTimer = FALSE /\ ebdTimer = FALSE
  /\ queue = <<>>
  /\ vpc = "recv" /\ vreg = {}
  /\ apc = "idle" /\ areg = {} /\ want = "none"
  /\ started = FALSE

Callback == SendBsm \/ PauseEnds \/ GpsLost \/ EbdEnds

VamStep ==
  \/ StartLoad \/ StartStore \/ StopLoad \/ StopStore \/ Transmit
  \/ PauseLoad \/ PauseStore \/ GpsLoad \/ GpsStore

AlertStep ==
  \/ ActivateLoad \/ ActivateMask \/ ActivateCheck \/ ActivateFlag \/ ActivateEnd
  \/ CancelLoad \/ CancelStore

Next == (\E m \in Inputs : Request(m)) \/ Callback \/ VamStep \/ AlertStep

Spec == Init /\ [][Next]_vars

(* A running timer fires.  Nothing is assumed of the threads. *)
FairSpec == Spec /\ WF_vars(SendBsm)

-----------------------------------------------------------------------------
TypeOK ==
  /\ flag \subseteq Flags /\ mask \subseteq Alerts
  /\ count \in 0..(CountMod - 1) /\ period \in Periods
  /\ {bsmTimer, pauseTimer, gpsTimer, ebdTimer, started} \subseteq BOOLEAN
  /\ queue \in Seq(Inputs \cup {"tx"}) /\ Len(queue) <= QueueSize
  /\ vpc \in VamPC /\ vreg \subseteq Flags
  /\ apc \in AlertPC /\ areg \subseteq (IF apc = "flag" THEN Flags ELSE Alerts)
  /\ want \in (IF apc \in {"idle", "cancel"} THEN {"none"} ELSE Alerts)

(* No message is queued between the handling of STOP and that of the next  *)
(* START, although t-vsa-r may put a stale TX bit back into the flag word. *)
NoBsmWhileStopped ==
  [][SendBsm /\ queue' # queue => started]_vars

(* A break-down alert that is in the mask goes out: ALERT is set whenever  *)
(* vam_active_alert is not under way, whatever callbacks and VAM handlers  *)
(* did to the flag word meanwhile.                                         *)
BreakdownAdvertised ==
  "VBD" \in mask /\ apc \in {"idle", "end", "cancel"} => "ALERT" \in flag

(* After the last alert is cancelled the extension stops being sent.       *)
AllClearEnds ==
  ("ALERT" \in flag /\ mask = {} /\ bsmTimer)
    ~> ("ALERT" \notin flag \/ mask # {} \/ ~bsmTimer)

(* bsm_pause_hold_time: broadcasting is paused only while the timer that   *)
(* ends the pause runs.                                                    *)
PauseIsHeldByTimer == "PAUSE" \in flag /\ vpc = "recv" => pauseTimer
=============================================================================
