---------------------------- MODULE WnetTx_proofs ----------------------------
(***************************************************************************)
(* Theorems about WnetTx for every pool, every set of senders and any      *)
(* number of wake-ups.  Ownership of the TXBUFs holds for frames of any    *)
(* priority; what is said of the head of the list, and the wake-ups that   *)
(* depend on it, holds as long as all frames are NORMAL: an EMERGENCY      *)
(* frame may be put in front of the one that is being sent.                *)
(***************************************************************************)
EXTENDS WnetTx, FiniteSetTheorems, TLAPS

USE WnetTxAssumption

(* A list that gets one more element at its end. *)
LEMMA AppendElements ==
  ASSUME NEW s \in Seq(TxBufs), NEW b \in TxBufs
  PROVE  /\ Append(s, b) \in Seq(TxBufs) /\ Append(s, b) # <<>>
         /\ Elements(Append(s, b)) = Elements(s) \cup {b}
         /\ NoRepeat(s) /\ b \notin Elements(s) => NoRepeat(Append(s, b))
         /\ Head(Append(s, b)) = IF s = <<>> THEN b ELSE Head(s)
<1>1. Append(s, b) \in Seq(TxBufs) /\ Append(s, b) # <<>>
  OBVIOUS
<1>2. DOMAIN Append(s, b) = 1..(Len(s) + 1) /\ DOMAIN s = 1..Len(s) /\ Len(s) \in Nat
  OBVIOUS
<1>3. \A i \in 1..Len(s) : Append(s, b)[i] = s[i]
  OBVIOUS
<1>4. Append(s, b)[Len(s) + 1] = b
  OBVIOUS
<1>5. \A i \in 1..(Len(s) + 1) : i \in 1..Len(s) \/ i = Len(s) + 1
  BY <1>2
<1>6. Elements(Append(s, b)) = Elements(s) \cup {b}
  BY <1>2, <1>3, <1>4, <1>5 DEF Elements
<1>7. NoRepeat(s) /\ b \notin Elements(s) => NoRepeat(Append(s, b))
  BY <1>2, <1>3, <1>4, <1>5 DEF Elements, NoRepeat
<1>8. Head(Append(s, b)) = IF s = <<>> THEN b ELSE Head(s)
  OBVIOUS
<1> QED BY <1>1, <1>6, <1>7, <1>8

(* A list that loses its head. *)
LEMMA TailElements ==
  ASSUME NEW s \in Seq(TxBufs), s # <<>>
  PROVE  /\ Head(s) \in TxBufs /\ Tail(s) \in Seq(TxBufs)
         /\ Elements(s) = {Head(s)} \cup Elements(Tail(s))
         /\ NoRepeat(s) => NoRepeat(Tail(s)) /\ Head(s) \notin Elements(Tail(s))
<1>1. Head(s) \in TxBufs /\ Tail(s) \in Seq(TxBufs)
  OBVIOUS
<1>2. Len(s) \in Nat /\ Len(s) > 0 /\ DOMAIN s = 1..Len(s) /\ DOMAIN Tail(s) = 1..(Len(s) - 1)
  OBVIOUS
<1>3. \A i \in 1..(Len(s) - 1) : Tail(s)[i] = s[i + 1]
  OBVIOUS
<1>4. Head(s) = s[1]
  OBVIOUS
<1>5. \A i \in 1..Len(s) : i = 1 \/ (i - 1 \in 1..(Len(s) - 1) /\ s[i] = Tail(s)[i - 1])
  BY <1>2, <1>3
<1>6. \A i \in 1..(Len(s) - 1) : i + 1 \in 1..Len(s) /\ i + 1 # 1
  BY <1>2
<1>7. Elements(s) = {Head(s)} \cup Elements(Tail(s))
  <2>1. \A x \in Elements(s) : x = Head(s) \/ x \in Elements(Tail(s))
    <3> SUFFICES ASSUME NEW x \in Elements(s), x # Head(s) PROVE x \in Elements(Tail(s))
      OBVIOUS
    <3>1. PICK i \in 1..Len(s) : x = s[i]
      BY <1>2 DEF Elements
    <3>2. i - 1 \in DOMAIN Tail(s) /\ x = Tail(s)[i - 1]
      BY <1>2, <1>4, <1>5, <3>1
    <3> QED BY <3>2 DEF Elements
  <2>2. Head(s) \in Elements(s)
    BY <1>2, <1>4 DEF Elements
  <2>3. \A x \in Elements(Tail(s)) : x \in Elements(s)
    BY <1>2, <1>3, <1>6 DEF Elements
  <2> QED BY <2>1, <2>2, <2>3
<1>8. ASSUME NoRepeat(s) PROVE NoRepeat(Tail(s)) /\ Head(s) \notin Elements(Tail(s))
  <2>1. \A i, j \in 1..(Len(s) - 1) : Tail(s)[i] = Tail(s)[j] => i + 1 = j + 1
    BY <1>2, <1>3, <1>6, <1>8 DEF NoRepeat
  <2>2. \A i \in 1..(Len(s) - 1) : Tail(s)[i] # s[1]
    BY <1>2, <1>3, <1>6, <1>8 DEF NoRepeat
  <2>3. NoRepeat(Tail(s))
    BY <1>2, <2>1 DEF NoRepeat
  <2> QED BY <1>2, <1>4, <2>2, <2>3 DEF Elements
<1> QED BY <1>1, <1>7, <1>8

(* An empty list has no elements, and no two equal ones. *)
LEMMA EmptyElements == Elements(<<>>) = {} /\ NoRepeat(<<>>) /\ <<>> \in Seq(TxBufs)
BY DEF Elements, NoRepeat
-----------------------------------------------------------------------------
(* The types, with any number of wake-ups. *)
Typed ==
  /\ free \in Seq(TxBufs) /\ waiting \in Seq(TxBufs)
  /\ processing \subseteq TxBufs /\ dropped \subseteq TxBufs
  /\ held \in [Senders -> TxBufs \cup {NoBuf}]
  /\ sem \in Nat /\ tpc \in TxPC
  /\ tbuf \in TxBufs \cup {NoBuf} /\ usb \in TxBufs \cup {NoBuf}

(* One frame is on its way: wntx has a TXBUF exactly between its choice    *)
(* and the transfer, and nothing else is marked.                           *)
Flight ==
  /\ tbuf # NoBuf <=> tpc \in {"send", "fail"}
  /\ OneFrameInFlight /\ InFlightIsHead
  /\ processing \subseteq {usb, tbuf}

TxInv == Typed /\ EachTxbufOwnedOnce /\ Flight

(* The part of it that does not depend on the order of the waiting list. *)
Owned == Typed /\ EachTxbufOwnedOnce /\ (tbuf # NoBuf <=> tpc \in {"send", "fail"})

LEMMA InvOwned == TxInv => Owned
BY DEF TxInv, Flight, Owned

-----------------------------------------------------------------------------
(* A set of list positions has a first one. *)
LEMMA FirstPosition ==
  ASSUME NEW T, T \subseteq Nat, T # {}
  PROVE  \E i \in T : \A j \in T : i <= j
<1>1. PICK i \in T : \A j \in T : ~(<<j, i>> \in OpToRel(<, Nat))
  BY NatLessThanWellFounded, WFMin
<1>2. \A j \in T : ~(j < i)
  BY <1>1 DEF OpToRel
<1>3. \A j \in T : i <= j
  BY <1>2
<1> QED BY <1>3

(* A list that gets one more element somewhere in the middle. *)
LEMMA InsertedElements ==
  ASSUME NEW s \in Seq(TxBufs), NEW b \in TxBufs, NEW k \in DOMAIN s
  PROVE  LET r == SubSeq(s, 1, k - 1) \o <<b>> \o SubSeq(s, k, Len(s))
         IN /\ r \in Seq(TxBufs) /\ r # <<>>
            /\ Elements(r) = Elements(s) \cup {b}
            /\ NoRepeat(s) /\ b \notin Elements(s) => NoRepeat(r)
<1> DEFINE u == SubSeq(s, 1, k - 1)
           v == SubSeq(s, k, Len(s))
           t == u \o <<b>>
           r == t \o v
           n == Len(s)
<1>1. n \in Nat /\ k \in 1..n /\ k \in Nat /\ DOMAIN s = 1..n
  OBVIOUS
<1>2. u \in Seq(TxBufs) /\ Len(u) = k - 1 /\ \A i \in 1..(k - 1) : u[i] = s[i]
  BY <1>1
<1>3. v \in Seq(TxBufs) /\ Len(v) = n - k + 1 /\ \A i \in 1..(n - k + 1) : v[i] = s[i + k - 1]
  BY <1>1
<1> HIDE DEF u, v, n
<1>4. <<b>> \in Seq(TxBufs) /\ Len(<<b>>) = 1 /\ <<b>>[1] = b
  OBVIOUS
<1>5. /\ t \in Seq(TxBufs) /\ Len(t) = k /\ t[k] = b
      /\ \A i \in 1..(k - 1) : t[i] = u[i]
  BY <1>1, <1>2, <1>4
<1> HIDE DEF t
<1>6. /\ r \in Seq(TxBufs) /\ Len(r) = n + 1 /\ DOMAIN r = 1..(n + 1)
      /\ \A i \in 1..k : r[i] = t[i]
      /\ \A i \in (k + 1)..(n + 1) : r[i] = v[i - k]
  <2>0. t \in Seq(TxBufs) /\ v \in Seq(TxBufs)
    BY <1>3, <1>5
  <2>1. r \in Seq(TxBufs) /\ Len(r) = Len(t) + Len(v) /\ DOMAIN r = 1..Len(r)
    <3>1. r \in Seq(TxBufs) /\ Len(r) = Len(t) + Len(v)
      BY <2>0
    <3> QED BY <3>1
  <2>2. Len(r) = n + 1
    BY <1>1, <1>3, <1>5, <2>1
  <2>3. \A i \in 1..Len(r) : r[i] = IF i <= Len(t) THEN t[i] ELSE v[i - Len(t)]
    BY <2>0, <2>1
  <2>4. \A i \in 1..k : r[i] = t[i]
    BY <1>1, <1>5, <2>2, <2>3
  <2>5. \A i \in (k + 1)..(n + 1) : r[i] = v[i - k]
    BY <1>1, <1>5, <2>2, <2>3
  <2> QED BY <2>1, <2>2, <2>4, <2>5
<1>7. /\ r[k] = b /\ k \in 1..(n + 1)
      /\ \A i \in 1..(k - 1) : r[i] = s[i]
      /\ \A i \in (k + 1)..(n + 1) : r[i] = s[i - 1]
  <2>1. ASSUME NEW i \in 1..(k - 1) PROVE r[i] = s[i]
    BY <1>1, <1>2, <1>5, <1>6
  <2>2. ASSUME NEW i \in (k + 1)..(n + 1) PROVE r[i] = s[i - 1]
    <3>1. i - k \in 1..(n - k + 1) /\ (i - k) + k - 1 = i - 1
      BY <1>1
    <3> QED BY <1>3, <1>6, <3>1
  <2>3. r[k] = b /\ k \in 1..(n + 1)
    BY <1>1, <1>5, <1>6
  <2> QED BY <2>1, <2>2, <2>3
<1> DEFINE from(i) == IF i < k THEN i ELSE i - 1
           to(i) == IF i < k THEN i ELSE i + 1
<1> HIDE DEF r
<1>8. \A i \in 1..(n + 1) : i # k => from(i) \in 1..n /\ r[i] = s[from(i)]
  <2> SUFFICES ASSUME NEW i \in 1..(n + 1), i # k
               PROVE  from(i) \in 1..n /\ r[i] = s[from(i)]
    OBVIOUS
  <2>1. CASE i < k
    BY <1>1, <1>7, <2>1
  <2>2. CASE ~(i < k)
    <3>1. i \in (k + 1)..(n + 1) /\ i - 1 \in 1..n
      BY <1>1, <2>2
    <3> QED BY <1>7, <2>2, <3>1
  <2> QED BY <2>1, <2>2
<1>9. \A i \in 1..n : to(i) \in 1..(n + 1) /\ r[to(i)] = s[i]
  <2> SUFFICES ASSUME NEW i \in 1..n PROVE to(i) \in 1..(n + 1) /\ r[to(i)] = s[i]
    OBVIOUS
  <2>1. CASE i < k
    BY <1>1, <1>7, <2>1
  <2>2. CASE ~(i < k)
    <3>1. i + 1 \in (k + 1)..(n + 1) /\ (i + 1) - 1 = i /\ i + 1 \in 1..(n + 1)
      BY <1>1, <2>2
    <3> QED BY <1>7, <2>2, <3>1
  <2> QED BY <2>1, <2>2
<1>10. \A i, j \in 1..(n + 1) : i # k /\ j # k /\ from(i) = from(j) => i = j
  BY <1>1
<1> HIDE DEF from, to
<1>11. Elements(r) = Elements(s) \cup {b}
  <2>1. \A x \in Elements(r) : x \in Elements(s) \cup {b}
    BY <1>1, <1>6, <1>7, <1>8 DEF Elements
  <2>2. ASSUME NEW i \in 1..n PROVE s[i] \in Elements(r)
    BY <1>6, <1>9 DEF Elements
  <2>3. b \in Elements(r)
    BY <1>1, <1>6, <1>7 DEF Elements
  <2>4. Elements(s) \subseteq Elements(r)
    BY <1>1, <2>2 DEF Elements
  <2> QED BY <2>1, <2>3, <2>4
<1>12. ASSUME NoRepeat(s), b \notin Elements(s) PROVE NoRepeat(r)
  <2>1. \A i \in 1..(n + 1) : i # k => r[i] # b
    BY <1>1, <1>8, <1>12 DEF Elements
  <2>2. \A i, j \in 1..(n + 1) : i # k /\ j # k /\ r[i] = r[j] => i = j
    BY <1>1, <1>8, <1>10, <1>12 DEF NoRepeat
  <2> QED BY <1>6, <1>7, <2>1, <2>2 DEF NoRepeat
<1>13. r # <<>>
  BY <1>1, <1>6
<1> QED BY <1>6, <1>11, <1>12, <1>13 DEF r, t, u, v, n

(* Wherever fp_send puts the new frame. *)
LEMMA InsertElements ==
  ASSUME waiting \in Seq(TxBufs), NEW b \in TxBufs, NEW p
  PROVE  /\ Insert(b, p) \in Seq(TxBufs) /\ Insert(b, p) # <<>>
         /\ Elements(Insert(b, p)) = Elements(waiting) \cup {b}
         /\ NoRepeat(waiting) /\ b \notin Elements(waiting) => NoRepeat(Insert(b, p))
<1> DEFINE normal == {i \in DOMAIN waiting : prio[waiting[i]] # "emergency"}
           first == CHOOSE i \in normal : \A j \in normal : i <= j
<1>1. CASE p = "emergency" /\ normal # {}
  <2>1. normal \subseteq Nat
    OBVIOUS
  <2>2. first \in normal
    <3>1. \E i \in normal : \A j \in normal : i <= j
      BY <1>1, <2>1, FirstPosition
    <3> QED BY <3>1
  <2>3. first \in DOMAIN waiting
    BY <2>2
  <2>4. Insert(b, p) = SubSeq(waiting, 1, first - 1) \o <<b>> \o SubSeq(waiting, first, Len(waiting))
    BY <1>1 DEF Insert
  <2> HIDE DEF first
  <2> QED BY <2>3, <2>4, InsertedElements
<1>2. CASE ~(p = "emergency" /\ normal # {})
  <2>1. Insert(b, p) = Append(waiting, b)
    BY <1>2 DEF Insert
  <2> QED BY <2>1, AppendElements
<1> QED BY <1>1, <1>2

(* Without an EMERGENCY frame it goes to the end of the list. *)
LEMMA InsertAtEnd ==
  ASSUME NEW b, Priorities \subseteq {"normal"}, NEW p \in Priorities
  PROVE  Insert(b, p) = Append(waiting, b)
BY DEF Insert

(* What fp_tx_complete does to the lists. *)
LEMMA CompleteMoves ==
  ASSUME Owned, Complete, waiting # <<>>
  PROVE  LET h == Head(waiting)
         IN /\ h \in TxBufs /\ free' \in Seq(TxBufs) /\ waiting' \in Seq(TxBufs)
            /\ Elements(waiting) = {h} \cup Elements(waiting')
            /\ h \notin Elements(waiting')
            /\ Elements(free') = Elements(free) \cup {h}
            /\ NoRepeat(free') /\ NoRepeat(waiting')
            /\ processing' = processing \ {h}
<1> DEFINE h == Head(waiting)
<1>1. free \in Seq(TxBufs) /\ waiting \in Seq(TxBufs) /\ NoRepeat(free) /\ NoRepeat(waiting)
      /\ Elements(free) \cap Elements(waiting) = {}
  BY DEF Owned, Typed, EachTxbufOwnedOnce
<1>2. waiting' = Tail(waiting) /\ free' = Append(free, h) /\ processing' = processing \ {h}
  BY DEF Complete
<1>3. /\ h \in TxBufs /\ Tail(waiting) \in Seq(TxBufs)
      /\ Elements(waiting) = {h} \cup Elements(Tail(waiting))
      /\ NoRepeat(Tail(waiting)) /\ h \notin Elements(Tail(waiting))
  BY <1>1, TailElements
<1>4. h \notin Elements(free)
  BY <1>1, <1>3
<1>5. /\ Append(free, h) \in Seq(TxBufs)
      /\ Elements(Append(free, h)) = Elements(free) \cup {h}
      /\ NoRepeat(Append(free, h))
  BY <1>1, <1>3, <1>4, AppendElements
<1> QED BY <1>2, <1>3, <1>5

-----------------------------------------------------------------------------
(* wnet_init links every TXBUF once. *)
LEMMA InitInv == Init => TxInv
<1> SUFFICES ASSUME Init PROVE TxInv
  OBVIOUS
<1> DEFINE n == Cardinality(TxBufs)
<1>1. n \in Nat /\ IsFiniteSet(1..n) /\ Cardinality(1..n) = n
  BY FS_CardinalityType, FS_Interval
<1>2. free \in [1..n -> TxBufs] /\ \A i, j \in 1..n : free[i] = free[j] => i = j
  BY DEF Init
<1>3. free \in Seq(TxBufs) /\ DOMAIN free = 1..n
  BY <1>1, <1>2
<1>4. free \in Injection(1..n, TxBufs)
  BY <1>2 DEF Injection, IsInjective
<1>5. free \in Surjection(1..n, TxBufs)
  BY <1>1, <1>4, FS_Injection
<1>6. \A b \in TxBufs : \E i \in 1..n : free[i] = b
  BY <1>5 DEF Surjection
<1>7. TxBufs \subseteq Elements(free) /\ NoRepeat(free)
  BY <1>2, <1>3, <1>6 DEF Elements, NoRepeat
<1>8. Typed
  BY <1>3, EmptyElements DEF Init, Typed, TxPC
<1>9. EachTxbufOwnedOnce
  <2>1. waiting = <<>> /\ dropped = {} /\ \A s \in Senders : held[s] = NoBuf
    BY DEF Init
  <2> QED BY <1>7, <2>1, EmptyElements DEF EachTxbufOwnedOnce
<1>10. Flight
  BY DEF Init, Flight, OneFrameInFlight, InFlightIsHead
<1> QED BY <1>8, <1>9, <1>10 DEF TxInv

(* A sender takes a TXBUF out of the pool; mda_handle does, and drops it. *)
LEMMA TakeOwned ==
  ASSUME Owned, NEW s \in Senders, GetTxbuf(s) \/ MdaHandle(s)
  PROVE  Owned'
<1> DEFINE h == Head(free)
<1>1. free \in Seq(TxBufs) /\ free # <<>> /\ held[s] = NoBuf /\ free' = Tail(free)
  BY DEF GetTxbuf, MdaHandle, Owned, Typed
<1>2. /\ h \in TxBufs /\ free' \in Seq(TxBufs)
      /\ Elements(free) = {h} \cup Elements(free')
      /\ NoRepeat(free) => NoRepeat(free') /\ h \notin Elements(free')
  BY <1>1, TailElements
<1>3. UNCHANGED <<waiting, processing, sem, tpc, tbuf, usb>>
  BY DEF GetTxbuf, MdaHandle, wntx
<1>4. (tbuf # NoBuf <=> tpc \in {"send", "fail"})'
  BY <1>3 DEF Owned
<1>5. CASE GetTxbuf(s)
  <2>1. held' = [held EXCEPT ![s] = h] /\ dropped' = dropped
    BY <1>5 DEF GetTxbuf
  <2>2. Typed'
    BY <1>2, <1>3, <2>1 DEF Owned, Typed
  <2>3. h # NoBuf /\ held'[s] = h /\ \A t \in Senders \ {s} : held'[t] = held[t]
    BY <1>2, <2>1 DEF Owned, Typed
  <2>4. h \notin Elements(waiting) \cup dropped /\ \A t \in Senders : held[t] # h
    BY <1>2, <2>3 DEF Owned, EachTxbufOwnedOnce
  <2>5. {held[t] : t \in Senders} \ {NoBuf} \subseteq {held'[t] : t \in Senders}
    BY <1>1, <2>3
  <2>6. EachTxbufOwnedOnce'
    <3>1. TxBufs \subseteq (Elements(free) \cup Elements(waiting) \cup dropped
                                \cup {held[t] : t \in Senders}) \ {NoBuf}
      BY DEF Owned, EachTxbufOwnedOnce
    <3>2. h \in {held'[t] : t \in Senders}
      BY <2>3
    <3>3. TxBufs \subseteq Elements(free') \cup Elements(waiting) \cup dropped
                                \cup {held'[t] : t \in Senders}
      BY <1>2, <2>5, <3>1, <3>2
    <3>4. \A t \in Senders : held'[t] # NoBuf =>
            /\ held'[t] \notin Elements(free') \cup Elements(waiting) \cup dropped
            /\ \A u \in Senders : held'[u] = held'[t] => u = t
      BY <1>2, <2>3, <2>4 DEF Owned, EachTxbufOwnedOnce
    <3> QED BY <1>2, <1>3, <2>1, <3>3, <3>4 DEF Owned, EachTxbufOwnedOnce
  <2> QED BY <1>4, <2>2, <2>6 DEF Owned
<1>6. CASE MdaHandle(s)
  <2>1. held' = held /\ dropped' = dropped \cup {h}
    BY <1>6 DEF MdaHandle
  <2>2. Typed'
    BY <1>2, <1>3, <2>1 DEF Owned, Typed
  <2>3. h \notin Elements(waiting) \cup dropped /\ \A t \in Senders : held[t] # h
    BY <1>2 DEF Owned, EachTxbufOwnedOnce
  <2>4. EachTxbufOwnedOnce'
    BY <1>2, <1>3, <2>1, <2>3 DEF Owned, EachTxbufOwnedOnce
  <2> QED BY <1>4, <2>2, <2>4 DEF Owned
<1> QED BY <1>5, <1>6

(* fp_send: the TXBUF of the sender goes into the waiting list. *)
LEMMA SendOwned ==
  ASSUME Owned, NEW s \in Senders, Send(s)
  PROVE  Owned'
<1> DEFINE b == held[s]
<1>1. b \in TxBufs /\ b # NoBuf /\ waiting \in Seq(TxBufs)
  BY DEF Send, Owned, Typed
<1>2. PICK p \in Priorities : waiting' = Insert(b, p)
  BY DEF Send
<1>3. b \notin Elements(free) \cup Elements(waiting) \cup dropped
      /\ \A t \in Senders \ {s} : held[t] # b
  BY <1>1 DEF Owned, EachTxbufOwnedOnce
<1>4. /\ waiting' \in Seq(TxBufs) /\ waiting' # <<>>
      /\ Elements(waiting') = Elements(waiting) \cup {b}
      /\ NoRepeat(waiting')
  BY <1>1, <1>2, <1>3, InsertElements DEF Owned, EachTxbufOwnedOnce
<1>5. /\ UNCHANGED <<free, dropped, tpc, tbuf, usb>> /\ sem' = sem + 1
      /\ held' = [held EXCEPT ![s] = NoBuf] /\ processing' = processing \ {b}
  BY DEF Send, wntx
<1>6. held'[s] = NoBuf /\ \A t \in Senders \ {s} : held'[t] = held[t]
  BY <1>5 DEF Owned, Typed
<1>7. Typed'
  BY <1>4, <1>5 DEF Owned, Typed
<1>8. EachTxbufOwnedOnce'
  <2>1. {held[t] : t \in Senders} \subseteq {b} \cup {held'[t] : t \in Senders}
    BY <1>6
  <2>2. TxBufs \subseteq Elements(free) \cup Elements(waiting') \cup dropped
                                \cup {held'[t] : t \in Senders}
    BY <1>4, <2>1 DEF Owned, EachTxbufOwnedOnce
  <2>3. \A t \in Senders : held'[t] # NoBuf =>
          /\ held'[t] \notin Elements(free) \cup Elements(waiting') \cup dropped
          /\ \A u \in Senders : held'[u] = held'[t] => u = t
    BY <1>3, <1>4, <1>6 DEF Owned, EachTxbufOwnedOnce
  <2> QED BY <1>3, <1>4, <1>5, <2>2, <2>3 DEF Owned, EachTxbufOwnedOnce
<1> QED BY <1>5, <1>7, <1>8 DEF Owned

(* fp_tx_complete, after a transfer or in place of one: the head of the    *)
(* list, if there is one, returns to the pool.                             *)
LEMMA CompleteOwned ==
  ASSUME Owned, UsbDone \/ TxFail
  PROVE  Owned'
<1> DEFINE h == Head(waiting)
<1>1. Complete /\ held' = held /\ dropped' = dropped
  BY DEF UsbDone, SendDone, TxFail
<1>2. /\ usb' \in TxBufs \cup {NoBuf} /\ tbuf' \in TxBufs \cup {NoBuf}
      /\ (tbuf' # NoBuf <=> tpc' \in {"send", "fail"}) /\ tpc' \in TxPC /\ sem' \in Nat
  BY DEF UsbDone, SendDone, TxFail, Kick, Owned, Typed, wntx, TxPC
<1>3. CASE waiting = <<>>
  <2>1. UNCHANGED <<free, waiting, processing>>
    BY <1>1, <1>3 DEF Complete
  <2> QED BY <1>1, <1>2, <2>1 DEF Owned, Typed, EachTxbufOwnedOnce
<1>4. CASE waiting # <<>>
  <2>1. /\ h \in TxBufs /\ free' \in Seq(TxBufs) /\ waiting' \in Seq(TxBufs)
        /\ Elements(waiting) = {h} \cup Elements(waiting')
        /\ h \notin Elements(waiting')
        /\ Elements(free') = Elements(free) \cup {h}
        /\ NoRepeat(free') /\ NoRepeat(waiting')
        /\ processing' = processing \ {h}
    BY <1>1, <1>4, CompleteMoves
  <2>2. Typed'
    BY <1>1, <1>2, <2>1 DEF Owned, Typed
  <2>3. EachTxbufOwnedOnce'
    BY <1>1, <2>1 DEF Owned, EachTxbufOwnedOnce
  <2> QED BY <1>2, <2>2, <2>3 DEF Owned
<1> QED BY <1>3, <1>4

(* wntx up to the transfer, and the radio: the lists stay as they are. *)
LEMMA MoveOwned ==
  ASSUME Owned, TxTake \/ TxPick \/ TxSend \/ TxKick \/ RadioReady \/ UNCHANGED vars
  PROVE  Owned'
<1>1. UNCHANGED <<free, waiting, held, dropped>>
  BY DEF TxTake, TxPick, TxSend, TxKick, RadioReady, vars, pool
<1>2. waiting # <<>> => Head(waiting) \in TxBufs
  BY TailElements DEF Owned, Typed
<1>3. Typed'
  BY <1>1, <1>2 DEF TxTake, TxPick, TxSend, TxKick, RadioReady, vars, pool, wntx, Kick,
                    Sendable, Owned, Typed, TxPC
<1>4. EachTxbufOwnedOnce'
  BY <1>1 DEF Owned, EachTxbufOwnedOnce
<1>5. (tbuf # NoBuf <=> tpc \in {"send", "fail"})'
  BY <1>2 DEF TxTake, TxPick, TxSend, TxKick, RadioReady, vars, wntx, Sendable, Owned
<1> QED BY <1>3, <1>4, <1>5 DEF Owned

(* Every step keeps every TXBUF in one place. *)
LEMMA NextOwned ==
  ASSUME Owned, [Next]_vars
  PROVE  Owned'
BY TakeOwned, SendOwned, CompleteOwned, MoveOwned DEF Next, SenderStep, TxStep

(* Every TXBUF has one owner, in any pool, with any senders and frames of  *)
(* any priority, also where the order of the list goes wrong.              *)
THEOREM TxbufsOwnedOnce == Spec => []EachTxbufOwnedOnce
<1>1. Init => Owned
  BY InitInv, InvOwned
<1>2. Owned /\ [Next]_vars => Owned'
  BY NextOwned
<1>3. Owned => EachTxbufOwnedOnce
  BY DEF Owned
<1> QED BY <1>1, <1>2, <1>3, PTL DEF Spec

-----------------------------------------------------------------------------
(* The frame on its way stays the head of the list, and the only one that  *)
(* is marked, as long as no EMERGENCY frame is put in front of it.         *)
LEMMA SendFlight ==
  ASSUME TxInv, Priorities \subseteq {"normal"}, NEW s \in Senders, Send(s)
  PROVE  Flight'
<1> DEFINE b == held[s]
<1>1. b \in TxBufs /\ waiting \in Seq(TxBufs) /\ waiting' = Append(waiting, b)
  BY InsertAtEnd DEF Send, TxInv, Typed
<1>2. b \notin Elements(waiting)
  BY <1>1 DEF Send, TxInv, EachTxbufOwnedOnce
<1>3. waiting' # <<>> /\ (waiting # <<>> => Head(waiting') = Head(waiting))
  BY <1>1, AppendElements
<1>4. UNCHANGED <<tpc, tbuf, usb>> /\ processing' = processing \ {b}
  BY DEF Send, wntx
<1>5. \A x \in {usb, tbuf} \ {NoBuf} : waiting # <<>> /\ Head(waiting) = x /\ x \in processing
  BY DEF TxInv, Flight, InFlightIsHead
<1>6. waiting # <<>> => Head(waiting) \in Elements(waiting)
  BY <1>1, TailElements
<1>7. InFlightIsHead'
  BY <1>2, <1>3, <1>4, <1>5, <1>6 DEF InFlightIsHead
<1> QED BY <1>4, <1>7 DEF TxInv, Flight, OneFrameInFlight

(* The TXBUF that returns to the pool is the one that was on its way. *)
LEMMA CompleteFlight ==
  ASSUME TxInv, UsbDone \/ TxFail
  PROVE  Flight'
<1> DEFINE h == Head(waiting)
<1>1. waiting # <<>> /\ {usb, tbuf} \ {NoBuf} = {h} /\ Complete
  BY DEF UsbDone, SendDone, TxFail, TxInv, Flight, InFlightIsHead, OneFrameInFlight
<1>2. processing' = processing \ {h}
  BY <1>1 DEF Complete
<1>3. usb' = NoBuf /\ tbuf' = NoBuf /\ tpc' \notin {"send", "fail"}
  BY DEF UsbDone, SendDone, TxFail, TxInv, Typed, Flight, OneFrameInFlight, wntx, TxPC
<1>4. processing' = {}
  BY <1>1, <1>2 DEF TxInv, Typed, Flight
<1> QED BY <1>3, <1>4 DEF Flight, OneFrameInFlight, InFlightIsHead

LEMMA MoveFlight ==
  ASSUME TxInv,
         \/ TxTake \/ TxPick \/ TxSend \/ TxKick \/ RadioReady \/ UNCHANGED vars
         \/ \E s \in Senders : GetTxbuf(s) \/ MdaHandle(s)
  PROVE  Flight'
<1>1. UNCHANGED waiting
  BY DEF TxTake, TxPick, TxSend, TxKick, RadioReady, vars, pool, GetTxbuf, MdaHandle
<1>2. waiting # <<>> => Head(waiting) \in TxBufs
  BY TailElements DEF TxInv, Typed
<1>3. CASE TxPick
  <2>1. CASE Sendable
    <3>1. usb = NoBuf
      BY <2>1 DEF Sendable, TxInv, Flight, InFlightIsHead, Typed
    <3>2. tbuf = NoBuf /\ processing = {}
      BY <1>3, <3>1 DEF TxPick, TxInv, Typed, Flight
    <3>3. /\ processing' = {Head(waiting)} /\ tbuf' = Head(waiting) /\ tpc' = "send"
          /\ usb' = NoBuf
      BY <1>3, <2>1, <3>1, <3>2 DEF TxPick
    <3>4. Head(waiting) \in TxBufs /\ waiting # <<>>
      BY <1>2, <2>1 DEF Sendable
    <3> QED BY <1>1, <3>3, <3>4 DEF Flight, OneFrameInFlight, InFlightIsHead
  <2>2. CASE ~Sendable
    BY <1>1, <1>3, <2>2 DEF TxPick, TxInv, Flight, OneFrameInFlight, InFlightIsHead
  <2> QED BY <2>1, <2>2
<1>4. CASE TxSend
  <2>1. tbuf # NoBuf /\ usb = NoBuf /\ tbuf = Head(waiting) /\ waiting # <<>>
        /\ tbuf \in processing /\ processing \subseteq {tbuf, NoBuf} /\ processing' = processing
    BY <1>4 DEF TxSend, TxInv, Flight, OneFrameInFlight, InFlightIsHead, pool
  <2>2. \/ usb' = tbuf /\ tbuf' = NoBuf /\ tpc' = "wait"
        \/ usb' = NoBuf /\ tbuf' = tbuf /\ tpc' = "fail"
    BY <1>4, <2>1 DEF TxSend
  <2> QED BY <1>1, <2>1, <2>2 DEF TxInv, Typed, Flight, OneFrameInFlight, InFlightIsHead
<1>5. CASE TxTake \/ TxKick \/ RadioReady \/ UNCHANGED vars
  BY <1>1, <1>5 DEF TxTake, TxKick, RadioReady, vars, pool, wntx,
                    TxInv, Flight, OneFrameInFlight, InFlightIsHead
<1>6. CASE \E s \in Senders : GetTxbuf(s) \/ MdaHandle(s)
  <2>1. UNCHANGED <<waiting, processing, tpc, tbuf, usb>>
    BY <1>6 DEF GetTxbuf, MdaHandle, wntx
  <2> QED BY <2>1 DEF TxInv, Flight, OneFrameInFlight, InFlightIsHead
<1> QED BY <1>3, <1>4, <1>5, <1>6

(* The invariant is inductive. *)
LEMMA NextInv ==
  ASSUME TxInv, Priorities \subseteq {"normal"}, [Next]_vars
  PROVE  TxInv'
<1>1. Owned'
  BY InvOwned, NextOwned
<1>2. Flight'
  BY SendFlight, CompleteFlight, MoveFlight DEF Next, SenderStep, TxStep
<1> QED BY <1>1, <1>2 DEF Owned, TxInv

(* wntx and the USB request never have two frames between them. *)
THEOREM OneFrameAtATime ==
  ASSUME Priorities \subseteq {"normal"}
  PROVE  Spec => []OneFrameInFlight
<1>1. Init => TxInv
  BY InitInv
<1>2. TxInv /\ [Next]_vars => TxInv'
  BY NextInv
<1>3. TxInv => OneFrameInFlight
  BY DEF TxInv, Flight
<1> QED BY <1>1, <1>2, <1>3, PTL DEF Spec

(* What fp_tx_complete frees is the frame that was on its way. *)
THEOREM CompletedIsHead ==
  ASSUME Priorities \subseteq {"normal"}
  PROVE  Spec => []InFlightIsHead
<1>1. Init => TxInv
  BY InitInv
<1>2. TxInv /\ [Next]_vars => TxInv'
  BY NextInv
<1>3. TxInv => InFlightIsHead
  BY DEF TxInv, Flight
<1> QED BY <1>1, <1>2, <1>3, PTL DEF Spec

(* A step that leaves frames waiting leaves a wake-up, or something that   *)
(* will give one.  wntx goes back to sleep without a frame only if the     *)
(* head of the list is marked, and then that is the frame in the request.  *)
LEMMA KickKept ==
  ASSUME TxInv, NoLostKick, [Next]_vars
  PROVE  NoLostKick'
<1>1. sem \in Nat /\ waiting \in Seq(TxBufs)
  BY DEF TxInv, Typed
<1>2. CASE \E s \in Senders : GetTxbuf(s) \/ MdaHandle(s)
  BY <1>2 DEF GetTxbuf, MdaHandle, NoLostKick, wntx
<1>3. CASE \E s \in Senders : Send(s)
  BY <1>1, <1>3 DEF Send, NoLostKick
<1>4. CASE TxPick
  <2>1. CASE Sendable
    BY <1>4, <2>1 DEF TxPick, NoLostKick
  <2>2. CASE ~Sendable
    <3>1. tbuf = NoBuf /\ waiting' = waiting /\ usb' = usb
      BY <1>4 DEF TxPick, TxInv, Flight
    <3>2. waiting # <<>> => Head(waiting) \in TxBufs /\ Head(waiting) \in {usb, NoBuf}
      BY <1>1, <2>2, <3>1, TailElements DEF Sendable, TxInv, Flight
    <3> QED BY <3>1, <3>2 DEF NoLostKick
  <2> QED BY <2>1, <2>2
<1>5. CASE TxSend
  <2>1. tbuf # NoBuf
    BY <1>5 DEF TxSend, TxInv, Flight
  <2> QED BY <1>5, <2>1 DEF TxSend, NoLostKick, pool
<1>6. CASE TxTake \/ TxFail
  BY <1>6 DEF TxTake, TxFail, NoLostKick
<1>7. CASE TxKick \/ UsbDone
  BY <1>1, <1>7 DEF TxKick, UsbDone, SendDone, Kick, NoLostKick, pool
<1>8. CASE RadioReady \/ UNCHANGED vars
  BY <1>8 DEF RadioReady, NoLostKick, vars, pool, wntx
<1> QED BY <1>2, <1>3, <1>4, <1>5, <1>6, <1>7, <1>8 DEF Next, SenderStep, TxStep

(* No wake-up is lost: as long as frames wait somebody looks at them. *)
THEOREM NoKickIsLost ==
  ASSUME Priorities \subseteq {"normal"}
  PROVE  Spec => []NoLostKick
<1>1. Init => TxInv /\ NoLostKick
  BY InitInv DEF Init, NoLostKick
<1>2. TxInv /\ NoLostKick /\ [Next]_vars => TxInv' /\ NoLostKick'
  BY NextInv, KickKept
<1> QED BY <1>1, <1>2, PTL DEF Spec
-----------------------------------------------------------------------------
(* The wake-ups there are: those that pend, the one wntx works on, and the *)
(* one the transfer under way may give.  A step turns one into another;    *)
(* only Send adds to them, and it needs a TXBUF besides the one in the     *)
(* request.                                                                *)
WakeUps == sem + (IF tpc # "wait" THEN 1 ELSE 0) + (IF usb # NoBuf THEN 1 ELSE 0)

WakeInv ==
  /\ prio \in [TxBufs -> {"normal", "emergency"}] /\ ready \in BOOLEAN
  /\ WakeUps <= SemMax + Cardinality(TxBufs)

(* A TXBUF to send, and another one in the request, are in the pool. *)
LEMMA PoolHolds ==
  ASSUME TxInv, NEW s \in Senders, held[s] # NoBuf
  PROVE  Cardinality(TxBufs) >= IF usb # NoBuf THEN 2 ELSE 1
<1> DEFINE b == held[s]
<1>1. b \in TxBufs /\ Cardinality(TxBufs) \in Nat
  BY FS_CardinalityType DEF TxInv, Typed
<1>2. TxBufs # {} /\ Cardinality(TxBufs) # 0
  BY <1>1, FS_EmptySet
<1>3. CASE usb = NoBuf
  BY <1>1, <1>2, <1>3
<1>4. CASE usb # NoBuf
  <2>1. usb \in TxBufs /\ waiting \in Seq(TxBufs) /\ waiting # <<>> /\ Head(waiting) = usb
    BY <1>4 DEF TxInv, Typed, Flight, InFlightIsHead
  <2>2. usb \in Elements(waiting)
    BY <2>1, TailElements
  <2>3. b # usb
    BY <1>1, <2>2 DEF TxInv, EachTxbufOwnedOnce
  <2>4. /\ IsFiniteSet(TxBufs \ {b}) /\ usb \in TxBufs \ {b}
        /\ Cardinality(TxBufs \ {b}) = Cardinality(TxBufs) - 1
    BY <1>1, <2>1, <2>3, FS_RemoveElement
  <2>5. Cardinality(TxBufs \ {b}) # 0
    BY <2>4, FS_EmptySet
  <2> QED BY <1>1, <1>2, <1>4, <2>4, <2>5
<1> QED BY <1>3, <1>4

(* No step brings more wake-ups than the pool has room for. *)
LEMMA WakeKept ==
  ASSUME TxInv, WakeInv, [Next]_vars
  PROVE  WakeInv'
<1> DEFINE K == Cardinality(TxBufs)
<1>1. sem \in Nat /\ K \in Nat /\ SemMax \in Nat /\ tpc \in TxPC
  BY FS_CardinalityType DEF TxInv, Typed
<1> HIDE DEF K
<1>2. CASE \E s \in Senders : Send(s)
  <2> PICK s \in Senders : Send(s)
    BY <1>2
  <2>1. K >= IF usb # NoBuf THEN 2 ELSE 1
    BY PoolHolds DEF Send, K
  <2>2. sem < SemMax /\ sem' = sem + 1 /\ UNCHANGED <<tpc, usb, ready>>
    BY DEF Send, wntx
  <2>3. prio' \in [TxBufs -> {"normal", "emergency"}]
    BY DEF Send, WakeInv
  <2>4. WakeUps' <= SemMax + K
    BY <1>1, <2>1, <2>2 DEF WakeUps
  <2> QED BY <2>2, <2>3, <2>4 DEF WakeInv, K
<1>3. CASE \E s \in Senders : GetTxbuf(s) \/ MdaHandle(s)
  <2>1. UNCHANGED <<prio, sem, tpc, usb, ready>>
    BY <1>3 DEF GetTxbuf, MdaHandle, wntx
  <2> QED BY <2>1 DEF WakeInv, WakeUps
<1>4. CASE TxStep \/ UsbDone
  <2>1. UNCHANGED <<prio, ready>>
    BY <1>4 DEF TxStep, TxTake, TxPick, TxSend, TxFail, TxKick, UsbDone, SendDone, pool
  <2>2. {WakeUps, WakeUps'} \subseteq Int /\ WakeUps' <= WakeUps
    <3>1. CASE TxTake
      BY <1>1, <3>1 DEF TxTake, WakeUps, TxPC
    <3>2. CASE TxPick
      BY <1>1, <3>2 DEF TxPick, WakeUps, TxPC
    <3>3. CASE TxSend
      BY <1>1, <3>3 DEF TxSend, WakeUps, TxPC
    <3>4. CASE TxFail
      BY <1>1, <3>4 DEF TxFail, WakeUps, TxPC
    <3>5. CASE TxKick
      BY <1>1, <3>5 DEF TxKick, Kick, WakeUps, TxPC
    <3>6. CASE UsbDone
      BY <1>1, <3>6 DEF UsbDone, SendDone, Kick, WakeUps, TxPC, wntx
    <3> QED BY <1>4, <3>1, <3>2, <3>3, <3>4, <3>5, <3>6 DEF TxStep
  <2>3. WakeUps <= SemMax + K
    BY DEF WakeInv, K
  <2>4. WakeUps' <= SemMax + K
    BY <1>1, <2>2, <2>3
  <2> QED BY <2>1, <2>4 DEF WakeInv, K
<1>5. CASE RadioReady \/ UNCHANGED vars
  <2>1. UNCHANGED <<prio, sem, tpc, usb>> /\ ready' \in BOOLEAN
    BY <1>5 DEF RadioReady, vars, pool, wntx, WakeInv
  <2> QED BY <2>1 DEF WakeInv, WakeUps
<1> QED BY <1>2, <1>3, <1>4, <1>5 DEF Next, SenderStep

LEMMA InitWake == Init => WakeInv
<1>1. Cardinality(TxBufs) \in Nat
  BY FS_CardinalityType
<1> SUFFICES ASSUME Init PROVE WakeInv
  OBVIOUS
<1>2. prio = [b \in TxBufs |-> "normal"] /\ ready = FALSE
  BY DEF Init
<1>3. sem = 0 /\ tpc = "wait" /\ usb = NoBuf
  BY DEF Init
<1>4. WakeUps <= SemMax + Cardinality(TxBufs)
  BY <1>1, <1>3 DEF WakeUps
<1> QED BY <1>2, <1>4 DEF WakeInv

(* Wake-ups within the bound are those the type says. *)
LEMMA WakeTypes == TxInv /\ WakeInv => TypeOK
<1> SUFFICES ASSUME TxInv, WakeInv PROVE TypeOK
  OBVIOUS
<1> DEFINE K == Cardinality(TxBufs)
<1>1. sem \in Nat /\ K \in Nat /\ SemMax \in Nat /\ WakeUps <= SemMax + K
  BY FS_CardinalityType DEF TxInv, Typed, WakeInv
<1> HIDE DEF K
<1>2. sem \in 0..(SemMax + K)
  BY <1>1 DEF WakeUps
<1> QED BY <1>2 DEF TypeOK, TxInv, Typed, WakeInv, K

(* The types of WnetTx; sem_wnet_tx, which counts a wake-up for every frame *)
(* sent and every completion that leaves frames waiting, stays within the  *)
(* wake-ups of the senders and the number of TXBUFs.                       *)
THEOREM TransmissionTypes ==
  ASSUME Priorities \subseteq {"normal"}
  PROVE  Spec => []TypeOK
<1>1. Init => TxInv /\ WakeInv
  BY InitInv, InitWake
<1>2. TxInv /\ WakeInv /\ [Next]_vars => TxInv' /\ WakeInv'
  BY NextInv, WakeKept
<1>3. TxInv /\ WakeInv => TypeOK
  BY WakeTypes
<1> QED BY <1>1, <1>2, <1>3, PTL DEF Spec
=============================================================================
