-------------------------- MODULE VsaWarning_proofs --------------------------
(***************************************************************************)
(* Lamps and voice follow the pending warnings, for every number of         *)
(* position slots and every size of the two queues.                         *)
(***************************************************************************)
EXTENDS VsaWarning, TLAPS

(* What is lit of warning a once the events q have been shown on lamps l. *)
LitIn(q, l, a) ==
  \/ \E i \in 1..Len(q) : /\ q[i] = <<"start", a>>
                          /\ \A j \in i + 1..Len(q) : q[j][2] # a
  \/ a \in l /\ \A i \in 1..Len(q) : q[i][2] # a

LEMMA EventParts ==
  ASSUME NEW e \in Events
  PROVE  /\ e = <<e[1], e[2]>> /\ e[1] \in Orders /\ e[2] \in Warnings
         /\ \A a : e = <<"start", a>> <=> e[1] = "start" /\ e[2] = a
  BY DEF Events, Orders

(* A new event decides about its own warning and about no other.           *)
LEMMA LitAppend ==
  ASSUME NEW q \in Seq(Events), NEW e \in Events, NEW l, NEW a
  PROVE  LitIn(Append(q, e), l, a) <=> IF e[2] = a THEN e[1] = "start" ELSE LitIn(q, l, a)
  <1> DEFINE Q == Append(q, e)
             n == Len(q)
  <1>1. n \in Nat /\ Len(Q) = n + 1
    OBVIOUS
  <1>2. \A i \in 1..n : Q[i] = q[i]
    OBVIOUS
  <1>3. Q[n + 1] = e
    OBVIOUS
  <1> HIDE DEF Q, n
  <1>4. 1..Len(Q) = 1..n \cup {n + 1}
    BY <1>1
  <1>5. \A i \in 1..n : i + 1..Len(Q) = i + 1..n \cup {n + 1} /\ i + 1..n \subseteq 1..n
    BY <1>1
  <1>6. n + 1 + 1..Len(Q) = {}
    BY <1>1
  <1>7. CASE e[2] = a
    <2>1. ASSUME LitIn(Q, l, a) PROVE e[1] = "start"
      <3>1. PICK i \in 1..Len(Q) : Q[i] = <<"start", a>> /\ \A j \in i + 1..Len(Q) : Q[j][2] # a
        BY <1>3, <1>4, <1>7, <2>1 DEF LitIn
      <3>2. i = n + 1
        BY <1>3, <1>4, <1>5, <1>7, <3>1
      <3>3. QED
        BY <1>3, <3>1, <3>2, EventParts
    <2>2. ASSUME e[1] = "start" PROVE LitIn(Q, l, a)
      <3>1. Q[n + 1] = <<"start", a>>
        BY <1>3, <1>7, <2>2, EventParts
      <3>2. \A j \in n + 1 + 1..Len(Q) : Q[j][2] # a
        BY <1>6
      <3>3. n + 1 \in 1..Len(Q)
        BY <1>4
      <3>4. QED
        BY <3>1, <3>2, <3>3 DEF LitIn
    <2>3. QED
      BY <1>7, <2>1, <2>2 DEF Q
  <1>8. CASE e[2] # a
    <2>1. Q[n + 1] # <<"start", a>> /\ Q[n + 1][2] # a
      BY <1>3, <1>8, EventParts
    <2>2. (\A i \in 1..Len(Q) : Q[i][2] # a) <=> \A i \in 1..n : q[i][2] # a
      BY <1>2, <1>4, <2>1
    <2>3. \A i \in 1..n : (\A j \in i + 1..Len(Q) : Q[j][2] # a)
                            <=> \A j \in i + 1..n : q[j][2] # a
      BY <1>2, <1>5, <2>1
    <2>4. (\E i \in 1..Len(Q) : /\ Q[i] = <<"start", a>>
                                /\ \A j \in i + 1..Len(Q) : Q[j][2] # a)
            <=> \E i \in 1..n : /\ q[i] = <<"start", a>>
                                /\ \A j \in i + 1..n : q[j][2] # a
      BY <1>2, <1>4, <2>1, <2>3
    <2>5. LitIn(Q, l, a) <=> LitIn(q, l, a)
      BY <2>2, <2>4 DEF LitIn, n
    <2>6. QED
      BY <1>8, <2>5 DEF Q
  <1>9. QED
    BY <1>7, <1>8

(* Showing the oldest event changes nothing about what will be lit.        *)
LEMMA LitTail ==
  ASSUME NEW q \in Seq(Events), q # <<>>, NEW l, NEW a
  PROVE  LitIn(Tail(q), IF Head(q)[1] = "start" THEN l \cup {Head(q)[2]} ELSE l \ {Head(q)[2]}, a)
           <=> LitIn(q, l, a)
  <1> DEFINE t == Tail(q)
             e == Head(q)
             n == Len(t)
             k == IF e[1] = "start" THEN l \cup {e[2]} ELSE l \ {e[2]}
  <1>1. n \in Nat /\ Len(q) = n + 1
    OBVIOUS
  <1>2. \A i \in 1..n : t[i] = q[i + 1]
    OBVIOUS
  <1>3. q[1] = e /\ e \in Events
    OBVIOUS
  <1> HIDE DEF t, e, n
  <1>4. \A i \in 2..Len(q) : i - 1 \in 1..n /\ t[i - 1] = q[i]
    BY <1>1, <1>2
  <1>5. 1..Len(q) = {1} \cup 2..Len(q) /\ 1 + 1..Len(q) = 2..Len(q)
    BY <1>1
  <1>6. \A i \in 1..n : i + 1 \in 2..Len(q)
    BY <1>1
  <1>7. (\A i \in 2..Len(q) : q[i][2] # a) <=> \A i \in 1..n : t[i][2] # a
    BY <1>2, <1>4, <1>6
  <1>8. \A i \in 1..n : (\A j \in i + 1 + 1..Len(q) : q[j][2] # a)
                          <=> \A j \in i + 1..n : t[j][2] # a
    <2> TAKE i \in 1..n
    <2>1. \A j \in i + 1 + 1..Len(q) : j \in 2..Len(q) /\ j - 1 \in i + 1..n
      BY <1>1
    <2>2. \A j \in i + 1..n : j \in 1..n /\ j + 1 \in i + 1 + 1..Len(q)
      <3> TAKE j \in i + 1..n
      <3>1. j \in 1..n
        OBVIOUS
      <3>2. j + 1 \in i + 1 + 1..n + 1
        BY <1>1
      <3>3. QED
        BY <1>1, <3>1, <3>2
    <2>3. ASSUME \A j \in i + 1 + 1..Len(q) : q[j][2] # a, NEW j \in i + 1..n
          PROVE  t[j][2] # a
      BY <1>2, <2>2, <2>3
    <2>4. ASSUME \A j \in i + 1..n : t[j][2] # a, NEW j \in i + 1 + 1..Len(q)
          PROVE  q[j][2] # a
      BY <1>4, <2>1, <2>4
    <2>5. QED
      BY <2>3, <2>4
  <1>9. (\E i \in 2..Len(q) : /\ q[i] = <<"start", a>>
                              /\ \A j \in i + 1..Len(q) : q[j][2] # a)
          <=> \E i \in 1..n : /\ t[i] = <<"start", a>>
                              /\ \A j \in i + 1..n : t[j][2] # a
    <2>1. ASSUME NEW i \in 2..Len(q), q[i] = <<"start", a>>, \A j \in i + 1..Len(q) : q[j][2] # a
          PROVE  \E m \in 1..n : t[m] = <<"start", a>> /\ \A j \in m + 1..n : t[j][2] # a
      <3>1. i - 1 \in 1..n /\ t[i - 1] = <<"start", a>>
        BY <1>4, <2>1
      <3>2. i - 1 + 1 + 1 = i + 1
        BY <1>1
      <3>3. \A j \in i - 1 + 1..n : t[j][2] # a
        BY <1>8, <2>1, <3>1, <3>2
      <3>4. QED
        BY <3>1, <3>3
    <2>2. ASSUME NEW i \in 1..n, t[i] = <<"start", a>>, \A j \in i + 1..n : t[j][2] # a
          PROVE  \E m \in 2..Len(q) : q[m] = <<"start", a>> /\ \A j \in m + 1..Len(q) : q[j][2] # a
      <3>1. i + 1 \in 2..Len(q) /\ q[i + 1] = <<"start", a>>
        BY <1>2, <1>6, <2>2
      <3>2. \A j \in i + 1 + 1..Len(q) : q[j][2] # a
        BY <1>8, <2>2
      <3>3. QED
        BY <3>1, <3>2
    <2>3. QED
      BY <2>1, <2>2
  <1>10. (\A i \in 1..Len(q) : q[i][2] # a) <=> e[2] # a /\ \A i \in 2..Len(q) : q[i][2] # a
    BY <1>3, <1>5
  <1>11. (\E i \in 1..Len(q) : q[i] = <<"start", a>> /\ \A j \in i + 1..Len(q) : q[j][2] # a)
           <=> \/ e[1] = "start" /\ e[2] = a /\ \A j \in 2..Len(q) : q[j][2] # a
               \/ \E i \in 2..Len(q) : q[i] = <<"start", a>> /\ \A j \in i + 1..Len(q) : q[j][2] # a
    <2> DEFINE Last(i) == q[i] = <<"start", a>> /\ \A j \in i + 1..Len(q) : q[j][2] # a
    <2>1. Last(1) <=> e[1] = "start" /\ e[2] = a /\ \A j \in 2..Len(q) : q[j][2] # a
      BY <1>3, <1>5, EventParts
    <2> HIDE DEF Last
    <2>2. (\E i \in 1..Len(q) : Last(i)) <=> Last(1) \/ \E i \in 2..Len(q) : Last(i)
      BY <1>5
    <2>3. QED
      BY <2>1, <2>2 DEF Last
  <1>12. a \in k <=> IF e[2] = a THEN e[1] = "start" ELSE a \in l
    OBVIOUS
  <1>13. LitIn(t, k, a) <=> LitIn(q, l, a)
    <2> HIDE DEF k
    <2>1. LitIn(t, k, a) <=>
            \/ \E i \in 2..Len(q) : q[i] = <<"start", a>> /\ \A j \in i + 1..Len(q) : q[j][2] # a
            \/ a \in k /\ \A i \in 2..Len(q) : q[i][2] # a
      BY <1>7, <1>9 DEF LitIn, n
    <2>2. LitIn(q, l, a) <=>
            \/ e[1] = "start" /\ e[2] = a /\ \A j \in 2..Len(q) : q[j][2] # a
            \/ \E i \in 2..Len(q) : q[i] = <<"start", a>> /\ \A j \in i + 1..Len(q) : q[j][2] # a
            \/ a \in l /\ e[2] # a /\ \A i \in 2..Len(q) : q[i][2] # a
      BY <1>10, <1>11 DEF LitIn
    <2>3. QED
      BY <1>12, <2>1, <2>2, Zenon
  <1>14. QED
    BY <1>13 DEF t, e, k
-----------------------------------------------------------------------------
LEMMA QueueTypes ==
  ASSUME TypeOK
  PROVE  /\ \A m \in Messages : Enqueue(queue, m) \in Seq(Messages)
         /\ \A q \in Seq(Messages), m \in Messages :
              Len(q) <= QueueSize =>
                /\ Enqueue(q, m) \in Seq(Messages) /\ Len(Enqueue(q, m)) <= QueueSize
  BY VsaWarningAssumption DEF TypeOK, Enqueue

(* What the system manager is told, it adds to the events or drops.        *)
LEMMA TellTypes ==
  ASSUME TypeOK, NEW e \in Events, Tell(e)
  PROVE  /\ hiq' \in Seq(Events) /\ Len(hiq') <= HiSize /\ dropped' \in BOOLEAN
         /\ ~dropped' => ~dropped /\ hiq' = Append(hiq, e)
  <1>1. Append(hiq, e) \in Seq(Events) /\ Len(Append(hiq, e)) = Len(hiq) + 1 /\ Len(hiq) \in Nat
    BY DEF TypeOK
  <1>2. CASE Len(hiq) < HiSize
    BY <1>1, <1>2, VsaWarningAssumption DEF TypeOK, Tell
  <1>3. CASE ~(Len(hiq) < HiSize)
    <2>1. hiq' = hiq
      BY <1>3 DEF Tell
    <2>2. Len(hiq) >= HiSize
      BY <1>1, <1>3, VsaWarningAssumption
    <2>3. dropped' = TRUE
      BY <2>2, Zenon DEF Tell
    <2>4. QED
      BY <2>1, <2>3 DEF TypeOK
  <1>4. QED
    BY <1>2, <1>3

LEMMA MessageParts ==
  ASSUME NEW m \in Messages
  PROVE  /\ m \in Events /\ m # <<>> /\ m = <<m[1], m[2]>>
         /\ m[1] \in Orders /\ m[2] \in Alerts
  BY DEF Messages, Events, Orders, Warnings

-----------------------------------------------------------------------------
(* The types. *)
LEMMA TypeInit == Init => TypeOK
  <1> SUFFICES ASSUME Init PROVE TypeOK
    OBVIOUS
  <1>1. danger \in [1..Slots -> BOOLEAN]
    BY DEF Init
  <1>2. queue \in Seq(Messages) /\ hiq \in Seq(Events) /\ Len(queue) = 0 /\ Len(hiq) = 0
    BY DEF Init
  <1>3. Len(queue) <= QueueSize /\ Len(hiq) <= HiSize /\ next \in 0..Slots
    BY <1>2, VsaWarningAssumption DEF Init
  <1>4. QED
    BY <1>1, <1>2, <1>3, Zenon DEF Init, TypeOK

LEMMA TypeStep == TypeOK /\ [Next]_vars => TypeOK'
  <1> SUFFICES ASSUME TypeOK, [Next]_vars PROVE TypeOK'
    OBVIOUS
  <1> USE VsaWarningAssumption
  <1>1. ASSUME NEW mask \in SUBSET Alerts, Hear(mask) PROVE TypeOK'
    <2>1. \A a \in Alerts, q \in Seq(Messages) :
            Len(q) <= QueueSize => /\ Report(q, a, mask) \in Seq(Messages)
                                   /\ Len(Report(q, a, mask)) <= QueueSize
      BY QueueTypes DEF Report, Messages, Orders
    <2>2. "VBD" \in Alerts /\ "EBD" \in Alerts
      BY DEF Alerts
    <2>3. queue \in Seq(Messages) /\ Len(queue) <= QueueSize
      BY DEF TypeOK
    <2>4. queue' \in Seq(Messages) /\ Len(queue') <= QueueSize
      BY <1>1, <2>1, <2>2, <2>3 DEF Hear
    <2>5. QED
      BY <1>1, <2>4 DEF Hear, TellNothing, judging, driver, TypeOK
  <1>2. CASE Take
    <2>1. Head(queue) \in Messages /\ Tail(queue) \in Seq(Messages)
          /\ Len(Tail(queue)) <= QueueSize
      BY <1>2 DEF Take, TypeOK
    <2>2. QED
      BY <1>2, <2>1 DEF Take, TellNothing, judging, driver, TypeOK
  <1>3. CASE Apply
    <2>1. rmsg \in Messages
      BY <1>3 DEF Apply, TypeOK
    <2>2. pend' \in SUBSET Warnings
      BY <1>3, <2>1, MessageParts DEF Apply, StartWarning, StopWarning, TypeOK, Warnings
    <2>3. Tell(rmsg) \/ TellNothing
      BY <1>3 DEF Apply, StartWarning, StopWarning
    <2>4. hiq' \in Seq(Events) /\ Len(hiq') <= HiSize /\ dropped' \in BOOLEAN
      BY <2>1, <2>3, MessageParts, TellTypes DEF TellNothing, TypeOK
    <2>5. QED
      BY <1>3, <2>2, <2>4 DEF Apply, judging, driver, TypeOK
  <1>4. CASE LStart
    BY <1>4 DEF LStart, TellNothing, driver, TypeOK
  <1>5. CASE LJudge
    <2>1. next' \in 0..Slots
      BY <1>5 DEF LJudge, TypeOK
    <2>2. danger' \in [1..Slots -> BOOLEAN]
      BY <1>5 DEF LJudge, Danger, NoDanger, TypeOK
    <2>3. <<"start", "CRD">> \in Events
      BY DEF Events, Orders, Warnings
    <2>4. pend' \in SUBSET Warnings
      BY <1>5 DEF LJudge, Danger, NoDanger, WarnCollision, TypeOK, Warnings
    <2>5. Tell(<<"start", "CRD">>) \/ TellNothing
      BY <1>5 DEF LJudge, Danger, NoDanger, WarnCollision
    <2>6. hiq' \in Seq(Events) /\ Len(hiq') <= HiSize /\ dropped' \in BOOLEAN
      BY <2>3, <2>5, TellTypes DEF TellNothing, TypeOK
    <2>7. QED
      BY <1>5, <2>1, <2>2, <2>4, <2>6 DEF LJudge, driver, TypeOK
  <1>6. CASE Show
    <2>1. Head(hiq) \in Events /\ Tail(hiq) \in Seq(Events) /\ Len(Tail(hiq)) <= HiSize
      BY <1>6 DEF Show, TypeOK
    <2>2. lamp' \in SUBSET Warnings
      BY <1>6, <2>1, EventParts DEF Show, Lamped, TypeOK
    <2>3. voice' \in BOOLEAN
      BY <1>6 DEF Show, Voiced, TypeOK
    <2>4. QED
      BY <1>6, <2>1, <2>2, <2>3 DEF Show, judging, TypeOK
  <1>7. CASE UNCHANGED vars
    BY <1>7 DEF vars, judging, driver, TypeOK
  <1>8. QED
    BY <1>1, <1>2, <1>3, <1>4, <1>5, <1>6, <1>7 DEF Next

(* The queues keep within VSA_QUEUE_SIZE and SYS_QUEUE_SIZE and hold         *)
(* messages and events only (vsa_add_event_queue, sys_add_event_queue).     *)
THEOREM WarningTypes == Spec => []TypeOK
  <1>1. QED
    BY TypeInit, TypeStep, PTL DEF Spec

-----------------------------------------------------------------------------
(* The VSA threads and the driver's side meet in the events only: a step    *)
(* changes nothing the driver will see, or reports what it does to          *)
(* alert_pend, or shows an event.                                           *)
Reports(e) ==
  /\ Tell(e) /\ UNCHANGED driver
  /\ pend' = IF e[1] = "start" THEN pend \cup {e[2]} ELSE pend \ {e[2]}

LEMMA ThreeKinds ==
  ASSUME TypeOK, [Next]_vars
  PROVE  \/ UNCHANGED <<pend, hiq, dropped, lamp, voice>>
         \/ \E e \in Events : Reports(e)
         \/ Show
  <1>1. CASE \E mask \in SUBSET Alerts : Hear(mask)
    BY <1>1 DEF Hear, TellNothing, driver
  <1>2. CASE Take \/ LStart \/ UNCHANGED vars
    BY <1>2 DEF Take, LStart, TellNothing, driver, vars
  <1>3. CASE Apply
    <2>1. rmsg \in Messages
      BY <1>3 DEF Apply, TypeOK
    <2>2. CASE StartWarning
      BY <1>3, <2>1, <2>2, MessageParts DEF Apply, StartWarning, TellNothing, Reports, driver
    <2>3. CASE StopWarning
      BY <1>3, <2>1, <2>3, MessageParts DEF Apply, StopWarning, Reports
    <2>4. QED
      BY <1>3, <2>2, <2>3 DEF Apply
  <1>4. CASE LJudge
    <2>1. <<"start", "CRD">> \in Events
      BY DEF Events, Orders, Warnings
    <2>2. CASE Danger /\ "CRD" \notin pend
      BY <1>4, <2>1, <2>2 DEF LJudge, Danger, WarnCollision, Reports
    <2>3. CASE NoDanger \/ (Danger /\ "CRD" \in pend)
      BY <1>4, <2>3 DEF LJudge, Danger, NoDanger, WarnCollision, TellNothing, driver
    <2>4. QED
      BY <1>4, <2>2, <2>3 DEF LJudge
  <1>5. QED
    BY <1>1, <1>2, <1>3, <1>4 DEF Next

-----------------------------------------------------------------------------
LEMMA LitIs == \A a : Lit(a) <=> LitIn(hiq, lamp, a)
  BY DEF Lit, LitIn

LEMMA LampInit == Init => LampAgrees
  BY DEF Init, LampAgrees, Lit

LEMMA LampStep == TypeOK /\ LampAgrees /\ [Next]_vars => LampAgrees'
  <1> SUFFICES ASSUME TypeOK, LampAgrees, [Next]_vars, ~dropped', NEW a \in Warnings
               PROVE  Lit(a)' <=> a \in pend'
    BY DEF LampAgrees
  <1>1. ~dropped => (LitIn(hiq, lamp, a) <=> a \in pend)
    BY LitIs DEF LampAgrees
  <1>2. hiq \in Seq(Events)
    BY DEF TypeOK
  <1>3. LitIn(hiq', lamp', a) <=> a \in pend'
    <2>1. CASE UNCHANGED <<pend, hiq, dropped, lamp, voice>>
      BY <1>1, <2>1
    <2>2. CASE \E e \in Events : Reports(e)
      <3>1. PICK e \in Events : Reports(e)
        BY <2>2
      <3>2. ~dropped /\ hiq' = Append(hiq, e)
        BY <3>1, TellTypes DEF Reports
      <3>3. lamp' = lamp /\ pend' = IF e[1] = "start" THEN pend \cup {e[2]} ELSE pend \ {e[2]}
        BY <3>1 DEF Reports, driver
      <3>4. LitIn(hiq', lamp, a) <=> IF e[2] = a THEN e[1] = "start" ELSE LitIn(hiq, lamp, a)
        BY <1>2, <3>2, LitAppend
      <3>5. a \in pend' <=> IF e[2] = a THEN e[1] = "start" ELSE a \in pend
        BY <3>3
      <3>6. QED
        BY <1>1, <3>2, <3>3, <3>4, <3>5
    <2>3. CASE Show
      <3>1. hiq # <<>> /\ hiq' = Tail(hiq) /\ pend' = pend /\ dropped' = dropped
        BY <2>3 DEF Show
      <3>2. lamp' = IF Head(hiq)[1] = "start" THEN lamp \cup {Head(hiq)[2]}
                    ELSE lamp \ {Head(hiq)[2]}
        BY <2>3 DEF Show, Lamped
      <3>3. LitIn(hiq', lamp', a) <=> LitIn(hiq, lamp, a)
        BY <1>2, <3>1, <3>2, LitTail
      <3>4. QED
        BY <1>1, <3>1, <3>3
    <2>4. QED
      BY <2>1, <2>2, <2>3, ThreeKinds
  <1>4. QED
    BY <1>3 DEF Lit, LitIn

(* The lamps the driver sees once t-hi has worked off its queue are the     *)
(* warnings the VSA threads hold pending, as long as no event was refused   *)
(* (sys_human_interface_proc, vsa_accident_recieve_proc, ccw_add_list).     *)
THEOREM LampsFollow == Spec => []LampAgrees
  <1>1. QED
    BY LampInit, LampStep, WarningTypes, PTL DEF Spec

-----------------------------------------------------------------------------
(* What keeps the voice right while events are under way: an alert pending  *)
(* is sounded or its start is queued; when nothing is pending, what has     *)
(* started the voice, or will, has a stop behind it.                        *)
StartOfAlert(e) == e[1] = "start" /\ e[2] \in Alerts

VoiceInv ==
  ~dropped =>
    /\ pend \cap Alerts # {} => voice = TRUE \/ \E i \in 1..Len(hiq) : StartOfAlert(hiq[i])
    /\ pend = {} =>
         /\ voice = TRUE => \E i \in 1..Len(hiq) : hiq[i][1] = "stop"
         /\ \A i \in 1..Len(hiq) :
              StartOfAlert(hiq[i]) => \E j \in i + 1..Len(hiq) : hiq[j][1] = "stop"

LEMMA VoiceInit == Init => VoiceInv
  BY DEF Init, VoiceInv

LEMMA VoiceReports ==
  ASSUME TypeOK, VoiceInv, ~dropped', NEW e \in Events, Reports(e)
  PROVE  VoiceInv'
  <1> DEFINE n == Len(hiq)
             Q == Append(hiq, e)
  <1>1. ~dropped /\ hiq' = Q /\ voice' = voice
        /\ pend' = IF e[1] = "start" THEN pend \cup {e[2]} ELSE pend \ {e[2]}
    BY TellTypes DEF Reports, driver
  <1>2. n \in Nat /\ Len(Q) = n + 1 /\ Q[n + 1] = e /\ \A i \in 1..n : Q[i] = hiq[i]
    BY DEF TypeOK
  <1> HIDE DEF Q, n
  <1>3. n + 1 \in 1..Len(Q) /\ \A i \in 1..n : i \in 1..Len(Q) /\ n + 1 \in i + 1..Len(Q)
    BY <1>2
  <1>4. 1..Len(Q) = 1..n \cup {n + 1}
    BY <1>2
  <1>5. ASSUME pend' \cap Alerts # {}
        PROVE  voice' = TRUE \/ \E i \in 1..Len(hiq') : StartOfAlert(hiq'[i])
    <2>1. CASE pend \cap Alerts # {}
      BY <1>1, <1>2, <1>3, <2>1 DEF VoiceInv, n
    <2>2. CASE pend \cap Alerts = {}
      <3>1. StartOfAlert(e)
        BY <1>1, <1>5, <2>2 DEF StartOfAlert
      <3>2. QED
        BY <1>1, <1>2, <1>3, <3>1
    <2>3. QED
      BY <2>1, <2>2
  <1>6. ASSUME pend' = {}
        PROVE  e[1] = "stop"
    BY <1>1, <1>6, EventParts DEF Orders
  <1>7. ASSUME pend' = {}
        PROVE  /\ \E i \in 1..Len(hiq') : hiq'[i][1] = "stop"
               /\ \A i \in 1..Len(hiq') :
                    StartOfAlert(hiq'[i]) => \E j \in i + 1..Len(hiq') : hiq'[j][1] = "stop"
    <2>1. Q[n + 1][1] = "stop"
      BY <1>2, <1>6, <1>7
    <2>2. ~StartOfAlert(Q[n + 1])
      BY <2>1 DEF StartOfAlert
    <2>3. QED
      BY <1>1, <1>3, <1>4, <2>1, <2>2
  <1>8. QED
    BY <1>5, <1>7 DEF VoiceInv

LEMMA VoiceShow ==
  ASSUME TypeOK, VoiceInv, ~dropped', Show
  PROVE  VoiceInv'
  <1> DEFINE n == Len(Tail(hiq))
             t == Tail(hiq)
             e == Head(hiq)
  <1>1. ~dropped /\ hiq # <<>> /\ hiq' = t /\ voice' = Voiced(e) /\ pend' = pend
    BY DEF Show
  <1>2. n \in Nat /\ Len(hiq) = n + 1 /\ hiq[1] = e /\ e \in Events
        /\ Len(t) = n /\ \A i \in 1..n : t[i] = hiq[i + 1]
    BY <1>1 DEF TypeOK
  <1> HIDE DEF n, t, e
  <1>3. \A i \in 1..Len(hiq) : i = 1 \/ (i - 1 \in 1..n /\ t[i - 1] = hiq[i])
    BY <1>2
  <1>4. 1 \in 1..Len(hiq) /\ \A i \in 1..n : i + 1 \in 1..Len(hiq)
    BY <1>2
  <1>5. e[1] \in Orders /\ e[2] \in Warnings
    BY <1>2, EventParts
  <1>6. ASSUME pend' \cap Alerts # {}
        PROVE  voice' = TRUE \/ \E i \in 1..Len(hiq') : StartOfAlert(hiq'[i])
    <2>1. CASE StartOfAlert(e)
      BY <1>1, <2>1 DEF Voiced, StartOfAlert, Alerts
    <2>2. CASE ~StartOfAlert(e)
      <3>1. voice = TRUE => voice' = TRUE
        BY <1>1, <1>6, <2>2 DEF Voiced, StartOfAlert
      <3>2. \A i \in 1..Len(hiq) : StartOfAlert(hiq[i]) => i - 1 \in 1..n /\ StartOfAlert(t[i - 1])
        BY <1>2, <1>3, <2>2
      <3>3. QED
        BY <1>1, <1>2, <1>6, <3>1, <3>2 DEF VoiceInv
    <2>3. QED
      BY <2>1, <2>2
  <1>7. ASSUME pend' = {}, voice' = TRUE
        PROVE  \E i \in 1..Len(hiq') : hiq'[i][1] = "stop"
    <2>1. e[1] = "start"
      BY <1>1, <1>5, <1>7 DEF Voiced, Orders
    <2>2. \E i \in 1..Len(hiq) : i # 1 /\ hiq[i][1] = "stop"
      <3>1. CASE StartOfAlert(e)
        <4>1. PICK j \in 1 + 1..Len(hiq) : hiq[j][1] = "stop"
          BY <1>1, <1>2, <1>4, <1>7, <3>1 DEF VoiceInv
        <4>2. j \in 1..Len(hiq) /\ j # 1
          BY <1>2
        <4>3. QED
          BY <4>1, <4>2
      <3>2. CASE ~StartOfAlert(e)
        <4>1. voice = TRUE
          BY <1>1, <1>5, <1>7, <2>1, <3>2 DEF Voiced, StartOfAlert, Alerts, Warnings
        <4>2. QED
          BY <1>1, <1>2, <1>7, <2>1, <4>1 DEF VoiceInv
      <3>3. QED
        BY <3>1, <3>2
    <2>3. QED
      BY <1>1, <1>2, <1>3, <2>2
  <1>8. ASSUME pend' = {}, NEW i \in 1..Len(hiq'), StartOfAlert(hiq'[i])
        PROVE  \E j \in i + 1..Len(hiq') : hiq'[j][1] = "stop"
    <2>1. i \in 1..n /\ StartOfAlert(hiq[i + 1])
      BY <1>1, <1>2, <1>8
    <2>2. PICK j \in i + 1 + 1..Len(hiq) : hiq[j][1] = "stop"
      BY <1>1, <1>4, <1>8, <2>1 DEF VoiceInv
    <2>3. j - 1 \in i + 1..n /\ j \in 1..Len(hiq) /\ j # 1
      BY <1>2, <2>1
    <2>4. QED
      BY <1>1, <1>2, <1>3, <2>2, <2>3
  <1>9. QED
    BY <1>6, <1>7, <1>8 DEF VoiceInv

LEMMA VoiceStep == TypeOK /\ VoiceInv /\ [Next]_vars => VoiceInv'
  <1> SUFFICES ASSUME TypeOK, VoiceInv, [Next]_vars, ~dropped' PROVE VoiceInv'
    BY DEF VoiceInv
  <1>1. CASE UNCHANGED <<pend, hiq, dropped, lamp, voice>>
    BY <1>1 DEF VoiceInv
  <1>2. QED
    BY <1>1, VoiceReports, VoiceShow, ThreeKinds

THEOREM VoiceInvariant == Spec => []VoiceInv
  <1>1. QED
    BY VoiceInit, VoiceStep, WarningTypes, PTL DEF Spec

(* When t-hi has nothing left to show, the repeating voice sounds if a      *)
(* breakdown or braking warning is pending and is silent if nothing is      *)
(* (sys_human_interface_proc, HI_OUT_*_CANCEL).                             *)
THEOREM VoiceFollows == Spec => []VoiceFollowsWarnings
  <1>1. TypeOK /\ VoiceInv => VoiceFollowsWarnings
    BY DEF TypeOK, VoiceInv, VoiceFollowsWarnings
  <1>2. QED
    BY VoiceInvariant, WarningTypes, <1>1, PTL
=============================================================================
