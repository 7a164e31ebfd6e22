----------------------------- MODULE VsaWarning -----------------------------
(***************************************************************************)
(* From a neighbour's alert to the driver's lamp and voice: vsa_receive_-  *)
(* alarm_update in the VAM thread, the thread t-vsa-r that serves queue_vsa, *)
(* the thread t-vsa-l that judges collisions, the system manager that      *)
(* forwards and the human-interface thread t-hi that shows.                *)
(*   - the VAM thread (22), the acceleration sensor, the key and the timer *)
(*     interrupt preempt the two VSA threads (23) anywhere;                *)
(*   - the two VSA threads have one priority and an endless time slice:    *)
(*     neither preempts the other;                                         *)
(*   - t-hi (25) runs when all of them wait;                               *)
(*   - the system manager (15) forwards an event as soon as it is sent.    *)
(* The time-out of a neighbour's alert, in which the VAM thread stops, is  *)
(* the subject of VamNeighbour; the mask of this vehicle's own alerts that *)
(* of VamBsm. They pass through the same two queues to other lamps and are   *)
(* left out.                                                               *)
(***************************************************************************)
EXTENDS Naturals, Sequences

CONSTANTS
  Slots,       \* VAM_NEIGHBOUR_MAXNUM
  QueueSize,   \* VSA_QUEUE_SIZE
  HiSize       \* SYS_QUEUE_SIZE, of queue_sys_hi

ASSUME VsaWarningAssumption ==
  /\ Slots \in Nat \ {0} /\ QueueSize \in Nat \ {0} /\ HiSize \in Nat \ {0}

VARIABLES
  heard,       \* the or of the neighbours' alert masks, vam_get_peer_alert_status
  queue,       \* queue_vsa
  rmsg,        \* message t-vsa-r works on, <<>> when it waits
  pend,        \* alert_pend: warnings the system was told to give
  next,        \* t-vsa-l: position_node[] it judges next, 0 when it waits
  danger,      \* vsa_id of position_node[] is not VSA_ID_NONE
  hiq,         \* queue_sys_hi
  lamp,        \* led_priority: the warnings shown
  voice,       \* timer_voc runs
  dropped      \* history: queue_sys_hi has refused an event

judging == <<next, danger>>
driver  == <<lamp, voice>>
vars    == <<heard, queue, rmsg, pend, judging, hiq, driver, dropped>>

Alerts   == {"VBD", "EBD"}
Warnings == Alerts \cup {"CRD"}
Orders   == {"start", "stop"}
Messages == Orders \X Alerts
Events   == Orders \X Warnings

Init ==
  /\ heard = {}
  /\ queue = <<>> /\ rmsg = <<>> /\ pend = {}
  /\ next = 0
  /\ danger = [i \in 1..Slots |-> FALSE]
  /\ hiq = <<>> /\ lamp = {} /\ voice = FALSE /\ dropped = FALSE

-----------------------------------------------------------------------------
(* A plausible bug: the limit is tested one too late. *)
EnqueueOneMore(q, m) == IF Len(q) <= QueueSize THEN Append(q, m) ELSE q

(* vsa_add_event_queue: a message too many is refused. *)
Enqueue(q, m) == IF Len(q) < QueueSize THEN Append(q, m) ELSE q

(* sys_add_event_queue, sys_manage_proc, hi_add_event_queue. *)
Tell(e) ==
  /\ hiq' = IF Len(hiq) < HiSize THEN Append(hiq, e) ELSE hiq
  /\ dropped' = (dropped \/ Len(hiq) >= HiSize)

TellNothing == UNCHANGED <<hiq, dropped>>

-----------------------------------------------------------------------------
(* The VAM thread: a neighbour's BSM with its alert mask. With it the or of  *)
(* all masks may become anything.                                           *)

(* The message vsa_receive_alarm_update sends about one alert, if any; it   *)
(* compares with alert_pend, which t-vsa-r sets when it handles the message. *)
Report(q, a, mask) ==
  CASE a \in mask /\ a \notin pend -> Enqueue(q, <<"start", a>>)
    [] a \notin mask /\ a \in pend -> Enqueue(q, <<"stop", a>>)
    [] OTHER -> q

(* A plausible bug: only an alert that has just changed is reported. *)
HearEdge(mask) ==
  /\ heard' = mask
  /\ queue' = IF mask # heard THEN Report(Report(queue, "VBD", mask), "EBD", mask) ELSE queue
  /\ TellNothing
  /\ UNCHANGED <<rmsg, pend, judging, driver>>

Hear(mask) ==
  /\ heard' = mask
  /\ queue' = Report(Report(queue, "VBD", mask), "EBD", mask)
  /\ TellNothing
  /\ UNCHANGED <<rmsg, pend, judging, driver>>

-----------------------------------------------------------------------------
(* t-vsa-r: vsa_thread_entry and its handlers.                             *)

Take ==
  /\ rmsg = <<>> /\ queue # <<>> /\ next = 0
  /\ rmsg' = Head(queue) /\ queue' = Tail(queue)
  /\ TellNothing
  /\ UNCHANGED <<heard, pend, judging, driver>>

(* vsa_accident_recieve_proc and vsa_eebl_recieve_proc: vbd_judge always     *)
(* agrees, ebd_judge depends on speeds and distance.                        *)
StartWarning ==
  /\ rmsg[1] = "start"
  /\ \/ pend' = pend \cup {rmsg[2]} /\ Tell(rmsg)
     \/ rmsg[2] = "EBD" /\ TellNothing /\ UNCHANGED pend

StopWarning ==
  /\ rmsg[1] = "stop"
  /\ pend' = pend \ {rmsg[2]}
  /\ Tell(rmsg)

Apply ==
  /\ rmsg # <<>> /\ rmsg' = <<>>
  /\ StartWarning \/ StopWarning
  /\ UNCHANGED <<heard, queue, judging, driver>>

-----------------------------------------------------------------------------
(* t-vsa-l: vsa_base_proc. *)

LStart ==
  /\ rmsg = <<>> /\ next = 0
  /\ next' = 1
  /\ TellNothing
  /\ UNCHANGED <<heard, queue, rmsg, pend, danger, driver>>

(* ccw_add_list, without the nodes of crd_list, which nothing else reads. *)
WarnCollision ==
  IF "CRD" \in pend THEN TellNothing /\ UNCHANGED pend
  ELSE pend' = pend \cup {"CRD"} /\ Tell(<<"start", "CRD">>)

Danger ==
  /\ danger' = [danger EXCEPT ![next] = TRUE]
  /\ WarnCollision

(* ccw_del_list is called with warning_id 0 and returns at once. *)
NoDanger ==
  /\ danger' = [danger EXCEPT ![next] = FALSE]
  /\ TellNothing /\ UNCHANGED pend

LJudge ==
  /\ next # 0
  /\ Danger \/ NoDanger
  /\ next' \in {0, next + 1} /\ next' <= Slots
  /\ UNCHANGED <<heard, queue, rmsg, driver>>

-----------------------------------------------------------------------------
(* t-hi: sys_human_interface_proc, when the VSA threads wait.               *)

(* Plausible bugs: a cancel puts every lamp out, as HI_OUT_CANCEL_ALERT does; *)
(* a cancel stops the voice whatever else is pending.                        *)
LampedCancelsAll(e) == IF e[1] = "start" THEN lamp \cup {e[2]} ELSE {}
VoicedStops(e) == IF e[1] = "start" THEN e[2] # "CRD" \/ voice ELSE FALSE

Lamped(e) ==
  CASE e[1] = "start" -> lamp \cup {e[2]}
    [] OTHER -> lamp \ {e[2]}

Voiced(e) ==
  CASE e[1] = "start" /\ e[2] # "CRD" -> TRUE
    [] e[1] = "stop" /\ pend = {} -> FALSE
    [] OTHER -> voice

Show ==
  /\ rmsg = <<>> /\ queue = <<>> /\ next = 0
  /\ hiq # <<>> /\ hiq' = Tail(hiq)
  /\ lamp' = Lamped(Head(hiq))
  /\ voice' = Voiced(Head(hiq))
  /\ UNCHANGED <<heard, queue, rmsg, pend, judging, dropped>>

-----------------------------------------------------------------------------
Next ==
  \/ \E mask \in SUBSET Alerts : Hear(mask)
  \/ Take \/ Apply
  \/ LStart \/ LJudge
  \/ Show

Spec == Init /\ [][Next]_vars

(* The threads of the VSA run when they can, and t-vsa-l, whose pass is far   *)
(* shorter than VSA_POS_PERIOD, waits in between and lets t-vsa-r run; a     *)
(* neighbour repeats its BSM, and not always just when queue_vsa is full.    *)
Fairness ==
  /\ SF_vars(Take) /\ WF_vars(Apply) /\ WF_vars(LJudge)
  /\ SF_vars(Len(queue) < QueueSize /\ Hear(heard))
FairSpec == Spec /\ Fairness

-----------------------------------------------------------------------------
(* The types of the variables. *)
TypeOK ==
  /\ heard \in SUBSET Alerts
  /\ queue \in Seq(Messages) /\ Len(queue) <= QueueSize
  /\ rmsg \in Messages \cup {<<>>}
  /\ pend \in SUBSET Warnings
  /\ next \in 0..Slots
  /\ danger \in [1..Slots -> BOOLEAN]
  /\ hiq \in Seq(Events) /\ Len(hiq) <= HiSize
  /\ lamp \in SUBSET Warnings
  /\ voice \in BOOLEAN /\ dropped \in BOOLEAN

(* What t-hi has yet to show of a warning decides, else what is lit. *)
Lit(a) ==
  \/ \E i \in 1..Len(hiq) : /\ hiq[i] = <<"start", a>>
                            /\ \A j \in i + 1..Len(hiq) : hiq[j][2] # a
  \/ a \in lamp /\ \A i \in 1..Len(hiq) : hiq[i][2] # a

(* The lamps catch up with alert_pend: as long as no event was refused,     *)
(* what the driver sees once t-hi has worked off its queue is what the two   *)
(* VSA threads hold pending, whatever order alerts, cancels and collisions   *)
(* came in and however many stale messages t-vsa-r served                    *)
(* (sys_human_interface_proc, vsa_accident_recieve_proc, ccw_add_list).      *)
LampAgrees == ~dropped => \A a \in Warnings : Lit(a) <=> a \in pend

(* The repeating voice sounds while a breakdown or braking warning is        *)
(* pending and is silent when nothing is: t-hi stops timer_voc by looking at *)
(* alert_pend as it is when it works on the cancel, not as it was when the   *)
(* cancel was sent (sys_human_interface_proc, HI_OUT_*_CANCEL).              *)
VoiceFollowsWarnings ==
  ~dropped /\ hiq = <<>> =>
     /\ pend \cap Alerts # {} => voice
     /\ pend = {} => ~voice

(* A neighbour's breakdown alert reaches the driver, or is over: a message   *)
(* refused by a full queue_vsa and a cancel served late are made good by the *)
(* next BSM, because vsa_receive_alarm_update compares levels, not edges.    *)
EveryBreakdownWarned ==
  "VBD" \in heard ~> ("VBD" \in pend \/ "VBD" \notin heard)

(* "inform system to stop alert": a collision warning ends once no vehicle   *)
(* is in danger (ccw_del_list, vsa_base_proc).                              *)
CrdWarningEnds ==
  ("CRD" \in pend /\ \A i \in 1..Slots : ~danger[i])
     ~> ("CRD" \notin pend \/ \E i \in 1..Slots : danger[i])
=============================================================================
