---------------------------- MODULE WnetRx_proofs ----------------------------
(***************************************************************************)
(* Theorems about reception for every pool, every size of the VAM queue    *)
(* and every length of frames, with the USB transfer in detail: what holds *)
(* of WnetRx holds of UsbBulkIn, which adds to it only how the frames come *)
(* about.  Ownership of the RXBUFs comes first, then the order of frames,  *)
(* the bounds of the lists and the packets of the transfer.                *)
(***************************************************************************)
EXTENDS UsbBulkIn, FiniteSetTheorems, TLAPS

USE WnetRxAssumption

(* No buffer twice in a list. *)
Single(s) == \A i, j \in DOMAIN s : s[i] \in RxBufs /\ s[i] = s[j] => i = j

LEMMA AppendElements ==
  ASSUME NEW S, NEW s \in Seq(S), NEW b \in S
  PROVE  /\ Append(s, b) \in Seq(S) /\ Elements(Append(s, b)) = Elements(s) \cup {b}
         /\ Single(s) /\ b \notin Elements(s) \cap RxBufs => Single(Append(s, b))
<1>1. Append(s, b) \in Seq(S)
  OBVIOUS
<1>2. DOMAIN Append(s, b) = 1..(Len(s) + 1) /\ DOMAIN s = 1..Len(s) /\ Len(s) \in Nat
  OBVIOUS
<1>3. \A i \in 1..Len(s) : Append(s, b)[i] = s[i]
  OBVIOUS
<1>4. Append(s, b)[Len(s) + 1] = b
  OBVIOUS
<1>5. \A i \in 1..(Len(s) + 1) : i \in 1..Len(s) \/ i = Len(s) + 1
  BY <1>2
<1>6. Elements(Append(s, b)) = Elements(s) \cup {b}
  BY <1>2, <1>3, <1>4, <1>5 DEF Elements
<1>7. Single(s) /\ b \notin Elements(s) \cap RxBufs => Single(Append(s, b))
  BY <1>2, <1>3, <1>4, <1>5 DEF Elements, Single
<1> QED BY <1>1, <1>6, <1>7

LEMMA TailElements ==
  ASSUME NEW S, NEW s \in Seq(S), s # <<>>
  PROVE  /\ Head(s) \in S /\ Tail(s) \in Seq(S) /\ Len(Tail(s)) = Len(s) - 1
         /\ Head(s) \in Elements(s) /\ Elements(Tail(s)) \subseteq Elements(s)
         /\ Single(s) => /\ Single(Tail(s))
                         /\ Head(s) \in RxBufs => Head(s) \notin Elements(Tail(s))
<1>1. Head(s) \in S /\ Tail(s) \in Seq(S) /\ Len(Tail(s)) = Len(s) - 1
  OBVIOUS
<1>2. Len(s) \in Nat /\ Len(s) > 0 /\ DOMAIN s = 1..Len(s) /\ DOMAIN Tail(s) = 1..(Len(s) - 1)
  OBVIOUS
<1>3. \A i \in 1..(Len(s) - 1) : Tail(s)[i] = s[i + 1]
  OBVIOUS
<1>4. Head(s) = s[1]
  OBVIOUS
<1>5. \A i \in 1..(Len(s) - 1) : i + 1 \in 1..Len(s) /\ i + 1 # 1
  BY <1>2
<1>6. Head(s) \in Elements(s)
  BY <1>2, <1>4 DEF Elements
<1>7. Elements(Tail(s)) \subseteq Elements(s)
  BY <1>2, <1>3, <1>5 DEF Elements
<1>8. ASSUME Single(s) PROVE Single(Tail(s))
  <2>1. \A i, j \in 1..(Len(s) - 1) :
          Tail(s)[i] \in RxBufs /\ Tail(s)[i] = Tail(s)[j] => i + 1 = j + 1
    BY <1>2, <1>3, <1>5, <1>8 DEF Single
  <2> QED BY <1>2, <2>1 DEF Single
<1>9. ASSUME Single(s), Head(s) \in RxBufs PROVE Head(s) \notin Elements(Tail(s))
  <2>1. 1 \in 1..Len(s)
    BY <1>2
  <2>2. \A i \in 1..(Len(s) - 1) : Tail(s)[i] # s[1]
    BY <1>2, <1>3, <1>4, <1>5, <1>9, <2>1 DEF Single
  <2> QED BY <1>2, <1>4, <2>2 DEF Elements
<1> QED BY <1>1, <1>6, <1>7, <1>8, <1>9

LEMMA EmptyElements == Elements(<<>>) = {} /\ Single(<<>>) /\ \A S : <<>> \in Seq(S)
BY DEF Elements, Single

-----------------------------------------------------------------------------
Types ==
  /\ rxFree \subseteq RxBufs /\ rxWaiting \in Seq(RxBufs)
  /\ sem \in Nat /\ rpc \in RxPC
  /\ rbuf \in RxBufs \cup {NoBuf} /\ (rpc = "deliver" <=> rbuf # NoBuf)
  /\ queue \in Seq(RxBufs \cup {Other})
  /\ vmsg \in RxBufs \cup {Other, NoBuf}

(* Every RXBUF is in one place at most: in the pool, in the waiting list,  *)
(* with wnrx, in the queue or with the VAM thread.                         *)
OnePlace ==
  /\ Single(rxWaiting) /\ Single(queue)
  /\ Elements(rxWaiting) \cap rxFree = {} /\ Elements(queue) \cap rxFree = {}
  /\ Elements(rxWaiting) \cap Elements(queue) = {}
  /\ rbuf \notin rxFree \cup Elements(rxWaiting) \cup Elements(queue)
  /\ vmsg \notin rxFree \cup Elements(rxWaiting)
  /\ vmsg \in RxBufs => vmsg # rbuf /\ vmsg \notin Elements(queue)

RxInv == Types /\ OnePlace /\ OneKickPerFrame

LEMMA RxInit == Init => RxInv
BY EmptyElements DEF Init, RxInv, Types, OnePlace, OneKickPerFrame, RxPC

LEMMA ArrivalInv == RxInv /\ UsbRecv => RxInv'
<1> SUFFICES ASSUME RxInv, UsbRecv PROVE RxInv'
  OBVIOUS
<1>1. PICK b \in rxFree : /\ rxFree' = rxFree \ {b} /\ rxWaiting' = Append(rxWaiting, b)
                          /\ sem' = sem + 1 /\ UNCHANGED <<rpc, rbuf, queue, vmsg>>
  BY DEF UsbRecv, LinkRx, KickRx, wnrx, vam
<1>2. b \in RxBufs /\ b \notin Elements(rxWaiting) \cup Elements(queue) /\ b # rbuf /\ b # vmsg
  BY DEF RxInv, Types, OnePlace
<1>3. /\ rxWaiting' \in Seq(RxBufs) /\ Elements(rxWaiting') = Elements(rxWaiting) \cup {b}
      /\ Single(rxWaiting') /\ Len(rxWaiting') = Len(rxWaiting) + 1
  BY <1>1, <1>2, AppendElements DEF RxInv, Types, OnePlace
<1>4. Types'
  BY <1>1, <1>3 DEF RxInv, Types
<1>5. OnePlace'
  BY <1>1, <1>2, <1>3 DEF RxInv, OnePlace
<1>6. OneKickPerFrame'
  BY <1>1, <1>3 DEF RxInv, Types, OneKickPerFrame
<1> QED BY <1>4, <1>5, <1>6 DEF RxInv

LEMMA WnrxInv == RxInv /\ RxStep => RxInv'
<1> SUFFICES ASSUME RxInv, RxStep PROVE RxInv'
  OBVIOUS
<1>a. NoBuf \notin RxBufs /\ Other \notin RxBufs /\ Other # NoBuf
  OBVIOUS
<1>1. CASE RxTake
  <2>1. /\ rpc = "wait" /\ sem > 0 /\ sem' = sem - 1 /\ rpc' = "pick"
        /\ UNCHANGED <<rxFree, rxWaiting, rbuf, queue, vmsg>>
    BY <1>1 DEF RxTake, vam
  <2>2. Types'
    BY <2>1 DEF RxInv, Types, RxPC
  <2>3. OnePlace'
    BY <2>1 DEF RxInv, OnePlace
  <2>4. OneKickPerFrame'
    BY <2>1 DEF RxInv, Types, OneKickPerFrame
  <2> QED BY <2>2, <2>3, <2>4 DEF RxInv
<1>2. CASE RxPick /\ rxWaiting # <<>>
  <2>1. /\ rpc = "pick" /\ rpc' = "deliver" /\ rbuf' = Head(rxWaiting)
        /\ rxWaiting' = Tail(rxWaiting) /\ UNCHANGED <<rxFree, sem, queue, vmsg>>
    BY <1>2 DEF RxPick, vam
  <2>2. /\ rbuf' \in RxBufs /\ rxWaiting' \in Seq(RxBufs) /\ Len(rxWaiting') = Len(rxWaiting) - 1
        /\ rbuf' \in Elements(rxWaiting) /\ Elements(rxWaiting') \subseteq Elements(rxWaiting)
        /\ Single(rxWaiting') /\ rbuf' \notin Elements(rxWaiting')
    BY <1>2, <2>1, TailElements DEF RxInv, Types, OnePlace
  <2>3. Types'
    BY <2>1, <2>2 DEF RxInv, Types, RxPC
  <2>4. OnePlace'
    BY <2>1, <2>2 DEF RxInv, OnePlace
  <2>5. OneKickPerFrame'
    BY <2>1, <2>2 DEF RxInv, Types, OneKickPerFrame
  <2> QED BY <2>3, <2>4, <2>5 DEF RxInv
<1>3. CASE RxPick /\ rxWaiting = <<>>
  <2>1. rpc = "pick" /\ sem \in Nat /\ Len(rxWaiting) = 0
    BY <1>3 DEF RxPick, RxInv, Types
  <2>2. sem + 1 = Len(rxWaiting)
    BY <2>1 DEF RxInv, OneKickPerFrame
  <2> QED BY <2>1, <2>2
<1>4. CASE RxRefuse \/ RxDeliver
  <2>1. /\ rpc = "deliver" /\ rpc' = "wait" /\ rbuf' = NoBuf
        /\ UNCHANGED <<rxWaiting, sem, vmsg>>
    BY <1>4 DEF RxRefuse, RxDeliver, RxIdle, vam
  <2>2. /\ rbuf \in RxBufs \cup {NoBuf} /\ queue \in Seq(RxBufs \cup {Other})
        /\ Elements(queue) \subseteq RxBufs \cup {Other}
        /\ Elements(rxWaiting) \subseteq RxBufs
    BY DEF RxInv, Types, Elements
  <2>3. rbuf # NoBuf => \/ rxFree' \subseteq rxFree \cup {rbuf} /\ queue' = queue
                        \/ rxFree' = rxFree /\ queue' = Append(queue, rbuf)
    BY <1>4 DEF RxRefuse, RxDeliver, vam
  <2>4. rbuf \in RxBufs
    BY <1>4 DEF RxInv, Types, RxRefuse, RxDeliver
  <2>5. OneKickPerFrame'
    BY <2>1 DEF RxInv, OneKickPerFrame
  <2>6. CASE rxFree' \subseteq rxFree \cup {rbuf} /\ queue' = queue
    <3>1. Types'
      BY <2>1, <2>4, <2>6 DEF RxInv, Types, RxPC
    <3>2. OnePlace'
      BY <1>a, <2>1, <2>2, <2>4, <2>6, <3>1 DEF RxInv, OnePlace, Types
    <3> QED BY <2>5, <3>1, <3>2 DEF RxInv
  <2>7. CASE rxFree' = rxFree /\ queue' = Append(queue, rbuf)
    <3>1. /\ queue' \in Seq(RxBufs \cup {Other})
          /\ Elements(queue') = Elements(queue) \cup {rbuf} /\ Single(queue')
      <4>1. rbuf \in RxBufs \cup {Other} /\ rbuf \notin Elements(queue) /\ Single(queue)
        BY <2>4 DEF RxInv, OnePlace
      <4> QED BY <2>2, <2>7, <4>1, AppendElements
    <3>2. Types'
      BY <2>1, <2>7, <3>1 DEF RxInv, Types, RxPC
    <3>3. OnePlace'
      BY <1>a, <2>1, <2>2, <2>4, <2>7, <3>1, <3>2 DEF RxInv, OnePlace, Types
    <3> QED BY <2>5, <3>2, <3>3 DEF RxInv
  <2> QED BY <1>a, <2>3, <2>4, <2>6, <2>7
<1> QED BY <1>1, <1>2, <1>3, <1>4 DEF RxStep

LEMMA QueueInv == RxInv /\ (QueueOther \/ VamStep) => RxInv'
<1> SUFFICES ASSUME RxInv, QueueOther \/ VamStep PROVE RxInv'
  OBVIOUS
<1>a. NoBuf \notin RxBufs /\ Other \notin RxBufs /\ Other # NoBuf
  OBVIOUS
<1>b. /\ Elements(queue) \subseteq RxBufs \cup {Other} /\ Elements(rxWaiting) \subseteq RxBufs
      /\ rxFree \subseteq RxBufs /\ rbuf \in RxBufs \cup {NoBuf}
  BY DEF RxInv, Types, Elements
<1>1. UNCHANGED <<rxWaiting, sem, rpc, rbuf>>
  BY DEF QueueOther, VamStep, VamTake, VamDone, wnrx
<1>2. OneKickPerFrame'
  BY <1>1 DEF RxInv, OneKickPerFrame
<1>3. CASE QueueOther
  <2>1. queue' = Append(queue, Other) /\ UNCHANGED <<rxFree, vmsg>>
    BY <1>3 DEF QueueOther
  <2>2. /\ queue' \in Seq(RxBufs \cup {Other})
        /\ Elements(queue') = Elements(queue) \cup {Other} /\ Single(queue')
    <3>1. Other \in RxBufs \cup {Other} /\ Other \notin Elements(queue) \cap RxBufs
          /\ queue \in Seq(RxBufs \cup {Other}) /\ Single(queue)
      BY <1>a DEF RxInv, Types, OnePlace
    <3> QED BY <2>1, <3>1, AppendElements
  <2>3. Types'
    BY <1>1, <2>1, <2>2 DEF RxInv, Types
  <2>4. OnePlace'
    BY <1>a, <1>b, <1>1, <2>1, <2>2 DEF RxInv, OnePlace
  <2> QED BY <1>2, <2>3, <2>4 DEF RxInv
<1>4. CASE VamTake
  <2>1. queue # <<>> /\ vmsg' = Head(queue) /\ queue' = Tail(queue) /\ rxFree' = rxFree
    BY <1>4 DEF VamTake
  <2>2. /\ vmsg' \in RxBufs \cup {Other} /\ queue' \in Seq(RxBufs \cup {Other})
        /\ vmsg' \in Elements(queue) /\ Elements(queue') \subseteq Elements(queue)
        /\ Single(queue') /\ (vmsg' \in RxBufs => vmsg' \notin Elements(queue'))
    <3>1. queue \in Seq(RxBufs \cup {Other}) /\ Single(queue)
      BY DEF RxInv, Types, OnePlace
    <3> QED BY <2>1, <3>1, TailElements
  <2>3. Types'
    BY <1>1, <2>1, <2>2 DEF RxInv, Types
  <2>4. OnePlace'
    BY <1>a, <1>b, <1>1, <2>1, <2>2 DEF RxInv, OnePlace
  <2> QED BY <1>2, <2>3, <2>4 DEF RxInv
<1>5. CASE VamDone
  <2>1. queue' = queue /\ vmsg' = NoBuf /\ rxFree' = rxFree \cup ({vmsg} \cap RxBufs)
    BY <1>5 DEF VamDone
  <2>2. Types'
    BY <1>1, <2>1 DEF RxInv, Types
  <2>3. OnePlace'
    BY <1>a, <1>b, <1>1, <2>1 DEF RxInv, OnePlace
  <2> QED BY <1>2, <2>2, <2>3 DEF RxInv
<1> QED BY <1>3, <1>4, <1>5 DEF VamStep

LEMMA RxNext == RxInv /\ [Next]_vars => RxInv'
<1>1. RxInv /\ UNCHANGED vars => RxInv'
  BY DEF RxInv, Types, OnePlace, OneKickPerFrame, vars, wnrx, vam
<1> QED BY <1>1, ArrivalInv, WnrxInv, QueueInv DEF Next

-----------------------------------------------------------------------------
(* The list of all frames on their way, place by place. *)
LEMMA PendingPlaces ==
  ASSUME Types
  PROVE  LET n == Len(queue)
             m == Len(rxWaiting)
         IN /\ n \in Nat /\ m \in Nat
            /\ DOMAIN queue = 1..n /\ DOMAIN rxWaiting = 1..m
            /\ DOMAIN Pending = 1..(n + m + 2)
            /\ Pending[1] = vmsg /\ Pending[n + 2] = rbuf
            /\ \A i \in 2..(n + 1) : i - 1 \in 1..n /\ Pending[i] = queue[i - 1]
            /\ \A i \in (n + 3)..(n + m + 2) :
                 i - n - 2 \in 1..m /\ Pending[i] = rxWaiting[i - n - 2]
<1> DEFINE n == Len(queue)
           m == Len(rxWaiting)
           A == RxBufs \cup {Other, NoBuf}
           p == <<vmsg>> \o queue
           q == p \o <<rbuf>>
<1>1. /\ n \in Nat /\ m \in Nat /\ DOMAIN queue = 1..n /\ DOMAIN rxWaiting = 1..m
      /\ queue \in Seq(A) /\ rxWaiting \in Seq(A) /\ <<vmsg>> \in Seq(A) /\ <<rbuf>> \in Seq(A)
  <2>1. queue \in Seq(RxBufs \cup {Other}) /\ rxWaiting \in Seq(RxBufs) /\ vmsg \in A /\ rbuf \in A
    BY DEF Types
  <2> QED BY <2>1
<1>2. /\ p \in Seq(A) /\ Len(p) = n + 1 /\ p[1] = vmsg
      /\ \A i \in 2..(n + 1) : p[i] = queue[i - 1]
  BY <1>1
<1> HIDE DEF p
<1>3. /\ q \in Seq(A) /\ Len(q) = n + 2 /\ q[n + 2] = rbuf
      /\ \A i \in 1..(n + 1) : q[i] = p[i]
  BY <1>1, <1>2
<1> HIDE DEF q
<1>4. Pending = q \o rxWaiting
  BY DEF Pending, p, q
<1>5. /\ Pending \in Seq(A) /\ Len(Pending) = n + m + 2
      /\ \A i \in 1..(n + 2) : Pending[i] = q[i]
      /\ \A i \in (n + 3)..(n + m + 2) : Pending[i] = rxWaiting[i - (n + 2)]
  <2> DEFINE r == q \o rxWaiting
  <2>1. r \in Seq(A) /\ Len(r) = (n + 2) + m
    BY <1>1, <1>3
  <2>2. \A i \in 1..(n + 2) : r[i] = q[i]
    BY <1>1, <1>3
  <2>3. \A i \in (n + 3)..(n + m + 2) : r[i] = rxWaiting[i - (n + 2)]
    <3> SUFFICES ASSUME NEW i \in (n + 3)..(n + m + 2) PROVE r[i] = rxWaiting[i - (n + 2)]
      OBVIOUS
    <3>1. Len(q) = n + 2 /\ i \in (Len(q) + 1)..(Len(q) + Len(rxWaiting))
      BY <1>1, <1>3
    <3> QED BY <1>1, <1>3, <3>1
  <2> HIDE DEF r
  <2>4. Pending = r
    BY <1>4 DEF r
  <2> QED BY <1>1, <2>1, <2>2, <2>3, <2>4
<1>6. DOMAIN Pending = 1..(n + m + 2)
  BY <1>5
<1> HIDE DEF n, m
<1>7. Pending[1] = vmsg /\ Pending[n + 2] = rbuf
  BY <1>1, <1>2, <1>3, <1>5
<1>8. \A i \in 2..(n + 1) : i - 1 \in 1..n /\ Pending[i] = queue[i - 1]
  BY <1>1, <1>2, <1>3, <1>5
<1>9. \A i \in (n + 3)..(n + m + 2) : i - n - 2 \in 1..m /\ Pending[i] = rxWaiting[i - n - 2]
  <2> SUFFICES ASSUME NEW i \in (n + 3)..(n + m + 2)
               PROVE  i - n - 2 \in 1..m /\ Pending[i] = rxWaiting[i - n - 2]
    OBVIOUS
  <2>1. i - (n + 2) = i - n - 2 /\ i - n - 2 \in 1..m
    BY <1>1
  <2> QED BY <1>5, <2>1
<1> QED BY <1>1, <1>6, <1>7, <1>8, <1>9 DEF n, m

LEMMA InvOwns == RxInv => NoRxbufOverwritten
<1> SUFFICES ASSUME RxInv PROVE NoRxbufOverwritten
  OBVIOUS
<1> DEFINE n == Len(queue)
           m == Len(rxWaiting)
<1>1. /\ n \in Nat /\ m \in Nat
      /\ DOMAIN queue = 1..n /\ DOMAIN rxWaiting = 1..m /\ DOMAIN Pending = 1..(n + m + 2)
      /\ Pending[1] = vmsg /\ Pending[n + 2] = rbuf
      /\ \A i \in 2..(n + 1) : i - 1 \in 1..n /\ Pending[i] = queue[i - 1]
      /\ \A i \in (n + 3)..(n + m + 2) :
           i - n - 2 \in 1..m /\ Pending[i] = rxWaiting[i - n - 2]
  BY PendingPlaces DEF RxInv
<1> HIDE DEF n, m
<1>2. /\ \A i \in 1..n : queue[i] \in Elements(queue)
      /\ \A i \in 1..m : rxWaiting[i] \in Elements(rxWaiting)
  BY <1>1 DEF Elements
<1>3. \A i \in 1..(n + m + 2) :
        i = 1 \/ i = n + 2 \/ i \in 2..(n + 1) \/ i \in (n + 3)..(n + m + 2)
  BY <1>1
<1>4. ASSUME NEW i \in 1..(n + m + 2) PROVE Pending[i] \notin rxFree
  <2>1. \A x : x \in Elements(queue) \cup Elements(rxWaiting) \cup {vmsg, rbuf} => x \notin rxFree
    BY DEF RxInv, OnePlace
  <2>2. Pending[i] \in Elements(queue) \cup Elements(rxWaiting) \cup {vmsg, rbuf}
    BY <1>1, <1>2, <1>3
  <2> QED BY <2>1, <2>2
<1>5. ASSUME NEW i \in 1..(n + m + 2), NEW j \in 1..(n + m + 2),
             Pending[i] \in RxBufs, Pending[i] = Pending[j]
      PROVE  i = j
  <2> DEFINE x == Pending[i]
  <2>1. /\ x = vmsg => x # rbuf /\ x \notin Elements(queue) \cup Elements(rxWaiting)
        /\ x = rbuf => x \notin Elements(queue) \cup Elements(rxWaiting)
        /\ x \in Elements(queue) => x \notin Elements(rxWaiting)
    BY <1>5 DEF RxInv, OnePlace
  <2>2. ASSUME i \in 2..(n + 1), j \in 2..(n + 1) PROVE i = j
    <3>1. i - 1 \in 1..n /\ j - 1 \in 1..n /\ queue[i - 1] \in RxBufs /\ queue[i - 1] = queue[j - 1]
      BY <1>1, <1>5, <2>2
    <3>2. i - 1 = j - 1
      BY <1>1, <3>1 DEF RxInv, OnePlace, Single
    <3> QED BY <2>2, <3>2
  <2>3. ASSUME i \in (n + 3)..(n + m + 2), j \in (n + 3)..(n + m + 2) PROVE i = j
    <3>1. i - n - 2 \in 1..m /\ j - n - 2 \in 1..m
          /\ rxWaiting[i - n - 2] \in RxBufs /\ rxWaiting[i - n - 2] = rxWaiting[j - n - 2]
      BY <1>1, <1>5, <2>3
    <3>2. i - n - 2 = j - n - 2
      BY <1>1, <3>1 DEF RxInv, OnePlace, Single
    <3> QED BY <1>1, <2>3, <3>2
  <2>4. ASSUME NEW k \in {i, j}
        PROVE  \/ k = 1 /\ x = vmsg
               \/ k = n + 2 /\ x = rbuf
               \/ k \in 2..(n + 1) /\ x \in Elements(queue)
               \/ k \in (n + 3)..(n + m + 2) /\ x \in Elements(rxWaiting)
    <3>1. k \in 1..(n + m + 2) /\ x = Pending[k]
      BY <1>5
    <3>2. k \in 2..(n + 1) => x \in Elements(queue)
      BY <1>1, <1>2, <3>1
    <3>3. k \in (n + 3)..(n + m + 2) => x \in Elements(rxWaiting)
      BY <1>1, <1>2, <3>1
    <3> HIDE DEF x
    <3> QED BY <1>1, <1>3, <3>1, <3>2, <3>3
  <2> HIDE DEF x
  <2>5. CASE i = 1 /\ x = vmsg
    BY <2>1, <2>4, <2>5
  <2>6. CASE i = n + 2 /\ x = rbuf
    BY <2>1, <2>4, <2>6
  <2>7. CASE i \in 2..(n + 1) /\ x \in Elements(queue)
    BY <2>1, <2>2, <2>4, <2>7
  <2>8. CASE i \in (n + 3)..(n + m + 2) /\ x \in Elements(rxWaiting)
    BY <2>1, <2>3, <2>4, <2>8
  <2> QED BY <2>4, <2>5, <2>6, <2>7, <2>8
<1> QED BY <1>1, <1>4, <1>5 DEF NoRxbufOverwritten, Elements

-----------------------------------------------------------------------------
(* A step with the USB transfer in detail is a step of WnetRx or leaves it *)
(* alone.                                                                  *)
LEMMA TransferStep == [BNext]_bvars => [Next]_vars
BY DEF BNext, bvars, OverUsb, StartRx, Host, Device, Request, LastPacket, NextPacket, HandUp,
       Failed, Retry, FullPacket, ShortPacket, BadPacket, Next

LEMMA TransferInv == BSpec => []RxInv
<1>1. BInit => RxInv
  BY RxInit DEF BInit
<1>2. RxInv /\ [BNext]_bvars => RxInv'
  BY TransferStep, RxNext
<1> QED BY <1>1, <1>2, PTL DEF BSpec

(* A frame that is queued or being parsed is never overwritten by a new    *)
(* one: no RXBUF is in two places or in the pool while it is in one, for   *)
(* any pool, any queue and any frames and errors on the USB.               *)
THEOREM RxbufsInOnePlace == BSpec => []NoRxbufOverwritten
BY TransferInv, InvOwns, PTL

(* Each frame in the waiting list has its own wake-up of wnrx: none waits  *)
(* for the next arrival.                                                   *)
THEOREM WakeUpForEveryFrame == BSpec => []OneKickPerFrame
<1>1. RxInv => OneKickPerFrame
  BY DEF RxInv
<1> QED BY <1>1, TransferInv, PTL

-----------------------------------------------------------------------------
(* The order in a list. *)
LEMMA AppendBefore ==
  ASSUME NEW S, NEW s \in Seq(S), NEW x \in S
  PROVE  \A a, b : Before(Append(s, x), a, b)
                     <=> Before(s, a, b) \/ (b = x /\ a \in Elements(s) \cup {x})
<1> DEFINE t == Append(s, x)
           n == Len(s)
<1>1. n \in Nat /\ DOMAIN s = 1..n /\ DOMAIN t = 1..(n + 1)
  OBVIOUS
<1>2. t[n + 1] = x /\ \A i \in 1..n : t[i] = s[i]
  OBVIOUS
<1> HIDE DEF t, n
<1>3. ASSUME NEW a, NEW b, Before(t, a, b)
      PROVE  Before(s, a, b) \/ (b = x /\ a \in Elements(s) \cup {x})
  <2>1. PICK i \in 1..(n + 1), j \in 1..(n + 1) : i <= j /\ t[i] = a /\ t[j] = b
    BY <1>1, <1>3 DEF Before
  <2>2. (i \in 1..n \/ i = n + 1) /\ (j \in 1..n \/ j = n + 1) /\ (i = n + 1 => j = n + 1)
    BY <1>1, <2>1
  <2>3. CASE j = n + 1
    BY <1>1, <1>2, <2>1, <2>2, <2>3 DEF Elements
  <2>4. CASE j \in 1..n /\ i \in 1..n
    BY <1>1, <1>2, <2>1, <2>4 DEF Before
  <2>5. n + 1 \notin 1..n
    BY <1>1
  <2> QED BY <2>2, <2>3, <2>4, <2>5
<1>4. ASSUME NEW a, NEW b, Before(s, a, b)
      PROVE  Before(t, a, b)
  <2>1. PICK i \in 1..n, j \in 1..n : i <= j /\ s[i] = a /\ s[j] = b
    BY <1>1, <1>4 DEF Before
  <2>2. i \in 1..(n + 1) /\ j \in 1..(n + 1)
    BY <1>1
  <2> QED BY <1>1, <1>2, <2>1, <2>2 DEF Before
<1>5. ASSUME NEW a \in Elements(s) \cup {x}
      PROVE  Before(t, a, x)
  <2>1. PICK i \in 1..(n + 1) : t[i] = a
    <3>1. \A i \in 1..n : i \in 1..(n + 1)
      BY <1>1
    <3>2. n + 1 \in 1..(n + 1)
      BY <1>1
    <3> QED BY <1>1, <1>2, <1>5, <3>1, <3>2 DEF Elements
  <2>2. i <= n + 1 /\ n + 1 \in 1..(n + 1)
    BY <1>1
  <2> QED BY <1>1, <1>2, <2>1, <2>2 DEF Before
<1> QED BY <1>3, <1>4, <1>5 DEF t

LEMMA HeadBefore ==
  ASSUME NEW S, NEW s \in Seq(S), s # <<>>
  PROVE  /\ Elements(s) = {Head(s)} \cup Elements(Tail(s))
         /\ \A a, b : Before(s, a, b)
                        <=> (a = Head(s) /\ b \in Elements(s)) \/ Before(Tail(s), a, b)
<1> DEFINE t == Tail(s)
           n == Len(s)
           h == Head(s)
<1>1. n \in Nat /\ n > 0 /\ DOMAIN s = 1..n /\ DOMAIN t = 1..(n - 1)
  OBVIOUS
<1>2. h = s[1] /\ \A i \in 1..(n - 1) : t[i] = s[i + 1]
  OBVIOUS
<1> HIDE DEF t, n, h
<1>3. /\ 1 \in 1..n
      /\ \A i \in 1..n : i = 1 \/ (i - 1 \in 1..(n - 1) /\ (i - 1) + 1 = i)
      /\ \A i \in 1..(n - 1) : i + 1 \in 1..n
  BY <1>1
<1>4. Elements(s) = {h} \cup Elements(t)
  <2>1. \A i \in 1..n : s[i] = h \/ (i - 1 \in 1..(n - 1) /\ s[i] = t[i - 1])
    BY <1>2, <1>3
  <2>2. Elements(s) = {s[i] : i \in 1..n} /\ Elements(t) = {t[i] : i \in 1..(n - 1)}
    BY <1>1 DEF Elements
  <2>3. Elements(s) \subseteq {h} \cup Elements(t)
    BY <2>1, <2>2
  <2>4. {h} \cup Elements(t) \subseteq Elements(s)
    BY <1>2, <1>3, <2>2
  <2> QED BY <2>3, <2>4
<1>5. ASSUME NEW a, NEW b, Before(s, a, b)
      PROVE  (a = h /\ b \in Elements(s)) \/ Before(t, a, b)
  <2>1. PICK i \in 1..n, j \in 1..n : i <= j /\ s[i] = a /\ s[j] = b
    BY <1>1, <1>5 DEF Before
  <2>2. CASE i = 1
    BY <1>1, <1>2, <2>1, <2>2 DEF Elements
  <2>3. CASE i # 1
    <3>1. /\ i - 1 \in 1..(n - 1) /\ (i - 1) + 1 = i /\ j - 1 \in 1..(n - 1) /\ (j - 1) + 1 = j
          /\ i - 1 <= j - 1
      BY <1>1, <2>1, <2>3
    <3>2. t[i - 1] = a /\ t[j - 1] = b
      BY <1>2, <2>1, <3>1
    <3> QED BY <1>1, <3>1, <3>2 DEF Before
  <2> QED BY <2>2, <2>3
<1>6. ASSUME NEW b \in Elements(s) PROVE Before(s, h, b)
  <2>1. PICK j \in 1..n : s[j] = b
    BY <1>1, <1>6 DEF Elements
  <2>2. 1 <= j
    BY <1>1
  <2> QED BY <1>1, <1>2, <1>3, <2>1, <2>2 DEF Before
<1>7. ASSUME NEW a, NEW b, Before(t, a, b) PROVE Before(s, a, b)
  <2>1. PICK i \in 1..(n - 1), j \in 1..(n - 1) : i <= j /\ t[i] = a /\ t[j] = b
    BY <1>1, <1>7 DEF Before
  <2>2. i + 1 <= j + 1 /\ i + 1 \in 1..n /\ j + 1 \in 1..n
    BY <1>1, <2>1
  <2> QED BY <1>1, <1>2, <2>1, <2>2 DEF Before
<1> QED BY <1>4, <1>5, <1>6, <1>7 DEF t, h

LEMMA BeforeIn ==
  ASSUME NEW S, NEW s \in Seq(S)
  PROVE  /\ \A a, b : Before(s, a, b) => a \in Elements(s) /\ b \in Elements(s)
         /\ \A a : Before(s, a, a) <=> a \in Elements(s)
<1>1. \A i \in DOMAIN s : i <= i
  OBVIOUS
<1> QED BY <1>1 DEF Before, Elements

(* The order of the frames on their way, place by place. *)
Places == {vmsg, rbuf} \cup Elements(queue) \cup Elements(rxWaiting)

Placed(a, b) ==
  \/ a = vmsg /\ b \in Places
  \/ Before(queue, a, b)
  \/ a \in Elements(queue) /\ b \in {rbuf} \cup Elements(rxWaiting)
  \/ a = rbuf /\ b \in {rbuf} \cup Elements(rxWaiting)
  \/ Before(rxWaiting, a, b)

LEMMA PendingPlaced ==
  ASSUME Types
  PROVE  Elements(Pending) = Places /\ \A a, b : Before(Pending, a, b) <=> Placed(a, b)
<1> DEFINE n == Len(queue)
           m == Len(rxWaiting)
<1>1. /\ n \in Nat /\ m \in Nat
      /\ DOMAIN queue = 1..n /\ DOMAIN rxWaiting = 1..m /\ DOMAIN Pending = 1..(n + m + 2)
      /\ Pending[1] = vmsg /\ Pending[n + 2] = rbuf
      /\ \A i \in 2..(n + 1) : i - 1 \in 1..n /\ Pending[i] = queue[i - 1]
      /\ \A i \in (n + 3)..(n + m + 2) :
           i - n - 2 \in 1..m /\ Pending[i] = rxWaiting[i - n - 2]
  BY PendingPlaces
<1> HIDE DEF n, m
<1> DEFINE P == Pending
           D == 1..(n + m + 2)
<1>2. \A i \in D : i = 1 \/ i = n + 2 \/ i \in 2..(n + 1) \/ i \in (n + 3)..(n + m + 2)
  BY <1>1
<1>3. \A i \in D : /\ i = 1 => P[i] = vmsg
                   /\ i = n + 2 => P[i] = rbuf
                   /\ i \in 2..(n + 1) => P[i] \in Elements(queue)
                   /\ i \in (n + 3)..(n + m + 2) => P[i] \in Elements(rxWaiting)
  BY <1>1 DEF Elements
<1>4. /\ 1 \in D /\ n + 2 \in D
      /\ \A k \in 1..n : k + 1 \in D /\ k + 1 \in 2..(n + 1) /\ P[k + 1] = queue[k]
      /\ \A k \in 1..m : /\ k + n + 2 \in D /\ k + n + 2 \in (n + 3)..(n + m + 2)
                         /\ P[k + n + 2] = rxWaiting[k]
  <2>1. 1 \in D /\ n + 2 \in D
    BY <1>1
  <2>2. \A k \in 1..n : k + 1 \in D /\ k + 1 \in 2..(n + 1) /\ (k + 1) - 1 = k
    BY <1>1
  <2>3. \A k \in 1..m : /\ k + n + 2 \in D /\ k + n + 2 \in (n + 3)..(n + m + 2)
                        /\ (k + n + 2) - n - 2 = k
    BY <1>1
  <2>4. \A k \in 1..n : P[k + 1] = queue[k]
    BY <1>1, <2>2
  <2>5. \A k \in 1..m : P[k + n + 2] = rxWaiting[k]
    BY <1>1, <2>3
  <2> QED BY <2>1, <2>2, <2>3, <2>4, <2>5
<1>a. /\ \A x \in Elements(queue) : \E i \in 2..(n + 1) : i \in D /\ P[i] = x
      /\ \A x \in Elements(rxWaiting) : \E i \in (n + 3)..(n + m + 2) : i \in D /\ P[i] = x
  BY <1>1, <1>4 DEF Elements
<1>5. Elements(Pending) = Places
  <2>1. \A x : x \in Places => \E i \in D : P[i] = x
    BY <1>1, <1>4, <1>a DEF Places
  <2>2. \A i \in D : P[i] \in Places
    BY <1>2, <1>3 DEF Places
  <2>3. Elements(Pending) = {P[i] : i \in D}
    BY <1>1 DEF Elements
  <2> QED BY <2>1, <2>2, <2>3
<1>6. ASSUME NEW a, NEW b, Before(Pending, a, b) PROVE Placed(a, b)
  <2>1. PICK i \in D, j \in D : i <= j /\ P[i] = a /\ P[j] = b
    BY <1>1, <1>6 DEF Before
  <2>2. a \in Places /\ b \in Places
    BY <1>1, <1>5, <2>1 DEF Elements
  <2>3. CASE i = 1
    BY <1>1, <2>1, <2>2, <2>3 DEF Placed
  <2>4. CASE i \in 2..(n + 1)
    <3>1. CASE j \in 2..(n + 1)
      <4>1. i - 1 \in 1..n /\ j - 1 \in 1..n /\ i - 1 <= j - 1
        BY <1>1, <2>1, <2>4, <3>1
      <4>2. queue[i - 1] = a /\ queue[j - 1] = b
        BY <1>1, <2>1, <2>4, <3>1
      <4>3. Before(queue, a, b)
        BY <1>1, <4>1, <4>2 DEF Before
      <4> QED BY <4>3 DEF Placed
    <3>2. CASE j = n + 2 \/ j \in (n + 3)..(n + m + 2)
      BY <1>3, <2>1, <2>4, <3>2 DEF Placed
    <3>3. j # 1
      BY <1>1, <2>1, <2>4
    <3> QED BY <1>2, <3>1, <3>2, <3>3
  <2>5. CASE i = n + 2
    <3>1. j = n + 2 \/ j \in (n + 3)..(n + m + 2)
      BY <1>1, <2>1, <2>5
    <3> QED BY <1>3, <2>1, <2>5, <3>1 DEF Placed
  <2>6. CASE i \in (n + 3)..(n + m + 2)
    <3>1. j \in (n + 3)..(n + m + 2)
      BY <1>1, <2>1, <2>6
    <3>2. i - n - 2 \in 1..m /\ j - n - 2 \in 1..m /\ i - n - 2 <= j - n - 2
      BY <1>1, <2>1, <2>6, <3>1
    <3>3. rxWaiting[i - n - 2] = a /\ rxWaiting[j - n - 2] = b
      BY <1>1, <2>1, <2>6, <3>1
    <3>4. Before(rxWaiting, a, b)
      BY <1>1, <3>2, <3>3 DEF Before
    <3> QED BY <3>4 DEF Placed
  <2> QED BY <1>2, <2>3, <2>4, <2>5, <2>6
<1>7. ASSUME NEW a, NEW b, Placed(a, b) PROVE Before(Pending, a, b)
  <2> SUFFICES \E i, j \in D : i <= j /\ P[i] = a /\ P[j] = b
    BY <1>1 DEF Before
  <2>1. CASE a = vmsg /\ b \in Places
    <3>1. PICK j \in D : P[j] = b
      BY <1>1, <1>5, <2>1 DEF Elements
    <3>2. 1 <= j
      BY <1>1
    <3> QED BY <1>1, <1>4, <2>1, <3>1, <3>2
  <2>2. CASE Before(queue, a, b)
    <3>1. PICK i \in 1..n, j \in 1..n : i <= j /\ queue[i] = a /\ queue[j] = b
      BY <1>1, <2>2 DEF Before
    <3>2. i + 1 <= j + 1
      BY <1>1, <3>1
    <3> QED BY <1>4, <3>1, <3>2
  <2>3. CASE a \in Elements(queue) /\ b \in {rbuf} \cup Elements(rxWaiting)
    <3>1. PICK i \in 2..(n + 1) : i \in D /\ P[i] = a
      BY <1>a, <2>3
    <3>2. PICK j \in (n + 2)..(n + m + 2) : j \in D /\ P[j] = b
      <4>1. n + 2 \in (n + 2)..(n + m + 2) /\ \A k \in (n + 3)..(n + m + 2) : k \in (n + 2)..(n + m + 2)
        BY <1>1
      <4> QED BY <1>1, <1>4, <1>a, <2>3, <4>1
    <3>3. i <= j
      BY <1>1
    <3> QED BY <3>1, <3>2, <3>3
  <2>4. CASE a = rbuf /\ b \in {rbuf} \cup Elements(rxWaiting)
    <3>2. PICK j \in (n + 2)..(n + m + 2) : j \in D /\ P[j] = b
      <4>1. n + 2 \in (n + 2)..(n + m + 2) /\ \A k \in (n + 3)..(n + m + 2) : k \in (n + 2)..(n + m + 2)
        BY <1>1
      <4> QED BY <1>1, <1>4, <1>a, <2>4, <4>1
    <3>3. n + 2 <= j
      BY <1>1
    <3> QED BY <1>1, <1>4, <2>4, <3>2, <3>3
  <2>5. CASE Before(rxWaiting, a, b)
    <3>1. PICK i \in 1..m, j \in 1..m : i <= j /\ rxWaiting[i] = a /\ rxWaiting[j] = b
      BY <1>1, <2>5 DEF Before
    <3>2. i + n + 2 <= j + n + 2
      BY <1>1, <3>1
    <3> QED BY <1>4, <3>1, <3>2
  <2> QED BY <1>7, <2>1, <2>2, <2>3, <2>4, <2>5 DEF Placed
<1> QED BY <1>5, <1>6, <1>7

-----------------------------------------------------------------------------
(* The history is the order of the frames on their way. *)
OrderInv ==
  /\ arrived \subseteq RxBufs \X RxBufs
  /\ \A a, b \in RxBufs : <<a, b>> \in arrived <=> Placed(a, b)

LEMMA OrderHolds == Types /\ OrderInv => FramesInOrder
<1> SUFFICES ASSUME Types, OrderInv PROVE FramesInOrder
  OBVIOUS
<1>1. \A a, b \in RxBufs : <<a, b>> \in arrived <=> Before(Pending, a, b)
  BY PendingPlaced DEF OrderInv
<1>2. \A p \in RxBufs \X RxBufs : p \in arrived <=> Before(Pending, p[1], p[2])
  BY <1>1
<1> QED BY <1>2 DEF OrderInv, FramesInOrder

(* Who is in a list stands in it no later than itself. *)
LEMMA PlacedIn ==
  ASSUME Types
  PROVE  /\ \A a, b : Placed(a, b) => a \in Places /\ b \in Places
         /\ \A a : Placed(a, a) <=> a \in Places
<1>1. queue \in Seq(RxBufs \cup {Other}) /\ rxWaiting \in Seq(RxBufs)
  BY DEF Types
<1>2. /\ \A a, b : Before(queue, a, b) => a \in Elements(queue) /\ b \in Elements(queue)
      /\ \A a : Before(queue, a, a) <=> a \in Elements(queue)
  BY <1>1, BeforeIn
<1>3. /\ \A a, b : Before(rxWaiting, a, b) => a \in Elements(rxWaiting) /\ b \in Elements(rxWaiting)
      /\ \A a : Before(rxWaiting, a, a) <=> a \in Elements(rxWaiting)
  BY <1>1, BeforeIn
<1> QED BY <1>2, <1>3 DEF Placed, Places

(* Frames on their way that stay so keep their order. *)
LEMMA OrderMoves ==
  ASSUME OrderInv, UNCHANGED arrived,
         \A a, b \in RxBufs : Placed(a, b)' <=> Placed(a, b)
  PROVE  OrderInv'
BY DEF OrderInv

(* A frame that leaves. *)
LEMMA OrderLeaves ==
  ASSUME OrderInv, NEW x, arrived' = Forget(x),
         \A a, b \in RxBufs : Placed(a, b)' <=> Placed(a, b) /\ a # x /\ b # x
  PROVE  OrderInv'
<1>1. arrived' \subseteq RxBufs \X RxBufs
  BY DEF OrderInv, Forget
<1>2. \A a, b \in RxBufs : <<a, b>> \in arrived' <=> <<a, b>> \in arrived /\ a # x /\ b # x
  BY DEF Forget
<1> QED BY <1>1, <1>2 DEF OrderInv

LEMMA ArrivalOrder == RxInv /\ OrderInv /\ UsbRecv => OrderInv'
<1> SUFFICES ASSUME RxInv, OrderInv, UsbRecv PROVE OrderInv'
  OBVIOUS
<1>1. PICK b \in rxFree : /\ rxWaiting' = Append(rxWaiting, b)
                          /\ arrived' = arrived \cup ((Outstanding \cup {b}) \X {b})
                          /\ UNCHANGED <<rbuf, queue, vmsg>>
  BY DEF UsbRecv, LinkRx, wnrx, vam
<1>2. b \in RxBufs /\ rxWaiting \in Seq(RxBufs) /\ Types
  BY DEF RxInv, Types
<1>3. \A x, y : Before(rxWaiting, x, y)' <=>
                  Before(rxWaiting, x, y) \/ (y = b /\ x \in Elements(rxWaiting) \cup {b})
  BY <1>1, <1>2, AppendBefore
<1>4. Elements(rxWaiting)' = Elements(rxWaiting) \cup {b}
  BY <1>1, <1>2, AppendElements
<1>5. \A x, y : Placed(x, y)' <=> Placed(x, y) \/ (y = b /\ x \in Places \cup {b})
  BY <1>1, <1>3, <1>4 DEF Placed, Places
<1>6. \A x \in RxBufs : x \in Outstanding <=> x \in Places
  BY <1>2, PlacedIn DEF Outstanding, OrderInv
<1>7. arrived' \subseteq RxBufs \X RxBufs
  BY <1>1, <1>2 DEF OrderInv, Outstanding
<1>8. \A x, y \in RxBufs : <<x, y>> \in arrived' <=>
                             <<x, y>> \in arrived \/ (y = b /\ x \in Outstanding \cup {b})
  BY <1>1
<1> QED BY <1>5, <1>6, <1>7, <1>8 DEF OrderInv

LEMMA WnrxOrder == RxInv /\ OrderInv /\ RxStep => OrderInv'
<1> SUFFICES ASSUME RxInv, OrderInv, RxStep PROVE OrderInv'
  OBVIOUS
<1>t. /\ Types /\ OnePlace /\ queue \in Seq(RxBufs \cup {Other}) /\ rxWaiting \in Seq(RxBufs)
      /\ NoBuf \notin RxBufs
  BY DEF RxInv, Types
<1>1. CASE RxTake \/ (RxPick /\ rxWaiting = <<>>)
  <2>1. UNCHANGED <<rbuf, vmsg, queue, rxWaiting, arrived>>
    BY <1>1 DEF RxTake, RxPick, vam
  <2> QED BY <2>1, OrderMoves DEF Placed, Places
<1>2. CASE RxPick /\ rxWaiting # <<>>
  <2>1. /\ rbuf = NoBuf /\ rbuf' = Head(rxWaiting) /\ rxWaiting' = Tail(rxWaiting)
        /\ UNCHANGED <<queue, vmsg, arrived>>
    BY <1>2, <1>t DEF RxPick, vam, Types
  <2>2. /\ Elements(rxWaiting) = {rbuf'} \cup Elements(rxWaiting)'
        /\ \A a, b : Before(rxWaiting, a, b)
                       <=> (a = rbuf' /\ b \in Elements(rxWaiting)) \/ Before(rxWaiting, a, b)'
    BY <1>2, <1>t, <2>1, HeadBefore
  <2>3. \A a, b \in RxBufs : Placed(a, b)' <=> Placed(a, b)
    BY <1>t, <2>1, <2>2 DEF Placed, Places
  <2> QED BY <2>1, <2>3, OrderMoves
<1>3. CASE RxDeliver /\ QueueRoom
  <2>1. /\ rbuf \in RxBufs /\ rbuf' = NoBuf /\ queue' = Append(queue, rbuf)
        /\ UNCHANGED <<rxWaiting, vmsg, arrived>>
    BY <1>3, <1>t DEF RxDeliver, RxIdle, Types
  <2>2. /\ Elements(queue)' = Elements(queue) \cup {rbuf}
        /\ \A a, b : Before(queue, a, b)' <=>
                       Before(queue, a, b) \/ (b = rbuf /\ a \in Elements(queue) \cup {rbuf})
    <3>1. rbuf \in RxBufs \cup {Other}
      BY <2>1
    <3> QED BY <1>t, <2>1, <3>1, AppendBefore, AppendElements
  <2>3. \A a, b \in RxBufs : Placed(a, b)' <=> Placed(a, b)
    BY <1>t, <2>1, <2>2 DEF Placed, Places
  <2> QED BY <2>1, <2>3, OrderMoves
<1>4. CASE RxRefuse \/ (RxDeliver /\ ~QueueRoom)
  <2>1. /\ rbuf \in RxBufs /\ rbuf' = NoBuf /\ arrived' = Forget(rbuf)
        /\ UNCHANGED <<rxWaiting, queue, vmsg>>
    BY <1>4, <1>t DEF RxRefuse, RxDeliver, RxIdle, vam, Types
  <2>2. rbuf # vmsg /\ rbuf \notin Elements(queue) /\ rbuf \notin Elements(rxWaiting)
    BY <1>t, <2>1 DEF OnePlace
  <2>3. /\ \A a, b : Before(queue, a, b) => a \in Elements(queue) /\ b \in Elements(queue)
        /\ \A a, b : Before(rxWaiting, a, b) => a \in Elements(rxWaiting) /\ b \in Elements(rxWaiting)
    BY <1>t, BeforeIn
  <2>4. \A a, b \in RxBufs : Placed(a, b)' <=> Placed(a, b) /\ a # rbuf /\ b # rbuf
    BY <1>t, <2>1, <2>2, <2>3 DEF Placed, Places
  <2> QED BY <2>1, <2>4, OrderLeaves
<1> QED BY <1>1, <1>2, <1>3, <1>4 DEF RxStep

LEMMA QueueOrder == RxInv /\ OrderInv /\ (QueueOther \/ VamStep) => OrderInv'
<1> SUFFICES ASSUME RxInv, OrderInv, QueueOther \/ VamStep PROVE OrderInv'
  OBVIOUS
<1>t. /\ Types /\ OnePlace /\ queue \in Seq(RxBufs \cup {Other}) /\ rxWaiting \in Seq(RxBufs)
      /\ NoBuf \notin RxBufs /\ Other \notin RxBufs
  BY DEF RxInv, Types
<1>1. UNCHANGED <<rxWaiting, rbuf>>
  BY DEF QueueOther, VamStep, VamTake, VamDone, wnrx
<1>2. CASE QueueOther
  <2>1. queue' = Append(queue, Other) /\ UNCHANGED <<vmsg, arrived>>
    BY <1>2 DEF QueueOther
  <2>2. /\ Elements(queue)' = Elements(queue) \cup {Other}
        /\ \A a, b : Before(queue, a, b)' <=>
                       Before(queue, a, b) \/ (b = Other /\ a \in Elements(queue) \cup {Other})
    <3>1. Other \in RxBufs \cup {Other}
      OBVIOUS
    <3> QED BY <1>t, <2>1, <3>1, AppendBefore, AppendElements
  <2>3. \A a, b \in RxBufs : Placed(a, b)' <=> Placed(a, b)
    BY <1>t, <1>1, <2>1, <2>2 DEF Placed, Places
  <2> QED BY <2>1, <2>3, OrderMoves
<1>3. CASE VamTake
  <2>1. /\ vmsg = NoBuf /\ queue # <<>> /\ vmsg' = Head(queue) /\ queue' = Tail(queue)
        /\ UNCHANGED arrived
    BY <1>3 DEF VamTake
  <2>2. /\ Elements(queue) = {vmsg'} \cup Elements(queue)'
        /\ \A a, b : Before(queue, a, b)
                       <=> (a = vmsg' /\ b \in Elements(queue)) \/ Before(queue, a, b)'
    BY <1>t, <2>1, HeadBefore
  <2>3. \A a, b \in RxBufs : Placed(a, b)' <=> Placed(a, b)
    BY <1>t, <1>1, <2>1, <2>2 DEF Placed, Places
  <2> QED BY <2>1, <2>3, OrderMoves
<1>4. CASE VamDone
  <2>1. vmsg' = NoBuf /\ arrived' = Forget(vmsg) /\ queue' = queue
    BY <1>4 DEF VamDone
  <2>2. /\ \A a, b : Before(queue, a, b) => a \in Elements(queue) /\ b \in Elements(queue)
        /\ \A a, b : Before(rxWaiting, a, b) => a \in Elements(rxWaiting) /\ b \in Elements(rxWaiting)
    BY <1>t, BeforeIn
  <2>3. vmsg \in RxBufs => /\ vmsg # rbuf /\ vmsg \notin Elements(queue)
                           /\ vmsg \notin Elements(rxWaiting)
    BY <1>t DEF OnePlace
  <2>4. \A a, b \in RxBufs : Placed(a, b)' <=> Placed(a, b) /\ a # vmsg /\ b # vmsg
    BY <1>t, <1>1, <2>1, <2>2, <2>3 DEF Placed, Places
  <2> QED BY <2>1, <2>4, OrderLeaves
<1> QED BY <1>2, <1>3, <1>4 DEF VamStep

LEMMA OrderInit == Init => OrderInv
<1> SUFFICES ASSUME Init PROVE OrderInv
  OBVIOUS
<1>1. vmsg = NoBuf /\ rbuf = NoBuf /\ queue = <<>> /\ rxWaiting = <<>> /\ arrived = {}
      /\ NoBuf \notin RxBufs
  BY DEF Init
<1>2. Elements(queue) = {} /\ Elements(rxWaiting) = {}
  BY <1>1, EmptyElements
<1>3. \A a, b : ~Before(queue, a, b) /\ ~Before(rxWaiting, a, b)
  BY <1>1 DEF Before
<1> QED BY <1>1, <1>2, <1>3 DEF OrderInv, Placed, Places

LEMMA OrderNext == RxInv /\ OrderInv /\ [Next]_vars => OrderInv'
<1>1. OrderInv /\ UNCHANGED vars => OrderInv'
  BY DEF OrderInv, Placed, Places, vars, wnrx, vam
<1> QED BY <1>1, ArrivalOrder, WnrxOrder, QueueOrder DEF Next

-----------------------------------------------------------------------------
(* How many there can be. *)
LEMMA SingleBound ==
  ASSUME NEW s \in Seq(RxBufs), Single(s)
  PROVE  Len(s) <= Cardinality(RxBufs)
<1> DEFINE n == Len(s)
<1>1. n \in Nat /\ DOMAIN s = 1..n /\ s \in [1..n -> RxBufs]
  OBVIOUS
<1>2. IsFiniteSet(1..n) /\ Cardinality(1..n) = n
  <2>1. IsFiniteSet(1..n) /\ Cardinality(1..n) = IF 1 > n THEN 0 ELSE n - 1 + 1
    BY <1>1, FS_Interval
  <2> QED BY <1>1, <2>1
<1>3. IsFiniteSet(RxBufs) /\ Cardinality(RxBufs) \in Nat
  BY FS_CardinalityType
<1>4. ~(Cardinality(RxBufs) < Cardinality(1..n))
  <2> SUFFICES ASSUME Cardinality(RxBufs) < Cardinality(1..n) PROVE FALSE
    OBVIOUS
  <2>1. \E i, j \in 1..n : i # j /\ s[i] = s[j]
    BY <1>1, <1>2, <1>3, FS_PigeonHole
  <2> QED BY <1>1, <2>1 DEF Single
<1> QED BY <1>1, <1>2, <1>3, <1>4

(* A full queue in which a frame is missing holds that many other messages. *)
LEMMA FullQueue ==
  ASSUME Types, OnePlace, rbuf \in RxBufs, Len(queue) >= QueueSize
  PROVE  Others + Cardinality(RxBufs) > QueueSize
<1> DEFINE n == Len(queue)
           O == {i \in 1..n : queue[i] = Other}
           F == {i \in 1..n : queue[i] # Other}
           T == RxBufs \ {rbuf}
<1>1. n \in Nat /\ DOMAIN queue = 1..n /\ \A i \in 1..n : queue[i] \in RxBufs \cup {Other}
  <2>1. queue \in Seq(RxBufs \cup {Other})
    BY DEF Types
  <2> QED BY <2>1
<1>2. IsFiniteSet(1..n) /\ Cardinality(1..n) = n
  <2>1. IsFiniteSet(1..n) /\ Cardinality(1..n) = IF 1 > n THEN 0 ELSE n - 1 + 1
    BY <1>1, FS_Interval
  <2> QED BY <1>1, <2>1
<1>3. /\ IsFiniteSet(O) /\ IsFiniteSet(F) /\ Cardinality(O) \in Nat /\ Cardinality(F) \in Nat
  <2>1. O \in SUBSET (1..n) /\ F \in SUBSET (1..n)
    OBVIOUS
  <2>2. IsFiniteSet(O) /\ IsFiniteSet(F)
    BY <1>2, <2>1, FS_Subset
  <2> QED BY <2>2, FS_CardinalityType
<1>4. n = Cardinality(O) + Cardinality(F)
  <2>1. O \cup F = 1..n /\ O \cap F = {}
    OBVIOUS
  <2>2. Cardinality(O \cup F) = Cardinality(O) + Cardinality(F) - Cardinality(O \cap F)
    BY <1>3, FS_Union
  <2>3. Cardinality(O \cap F) = 0
    BY <2>1, FS_EmptySet
  <2>4. Cardinality(O \cup F) = n
    BY <1>2, <2>1, Zenon
  <2> HIDE DEF O, F, n
  <2> QED BY <1>3, <2>2, <2>3, <2>4
<1>5. IsFiniteSet(T) /\ Cardinality(T) = Cardinality(RxBufs) - 1 /\ Cardinality(RxBufs) \in Nat
      /\ Cardinality(T) \in Nat
  <2>1. IsFiniteSet(RxBufs)
    OBVIOUS
  <2>2. IsFiniteSet(T) /\ Cardinality(T) = Cardinality(RxBufs) - 1
    BY <2>1, FS_RemoveElement
  <2> QED BY <2>1, <2>2, FS_CardinalityType
<1>6. Cardinality(F) <= Cardinality(T)
  <2> DEFINE f == [i \in F |-> queue[i]]
  <2>1. f \in [F -> T]
    <3>1. \A i \in F : queue[i] \in RxBufs /\ queue[i] \in Elements(queue)
      BY <1>1 DEF Elements
    <3> QED BY <3>1 DEF OnePlace
  <2>2. \A i, j \in F : f[i] = f[j] => i = j
    BY <1>1, <2>1 DEF OnePlace, Single
  <2> HIDE DEF f
  <2>3. ~(Cardinality(T) < Cardinality(F))
    <3> SUFFICES ASSUME Cardinality(T) < Cardinality(F) PROVE FALSE
      OBVIOUS
    <3>1. \E i, j \in F : i # j /\ f[i] = f[j]
      BY <1>3, <1>5, <2>1, FS_PigeonHole
    <3> QED BY <2>2, <3>1
  <2> QED BY <1>3, <1>5, <2>3
<1>7. Others = Cardinality(O)
  BY <1>1 DEF Others
<1> HIDE DEF O, F, T
<1> QED BY <1>1, <1>3, <1>4, <1>5, <1>6, <1>7

-----------------------------------------------------------------------------
(* The transfer.  Of a frame no error has cut the buffer holds all packets *)
(* the radio is rid of, and len counts those before the last one arrived.  *)
Whole ==
  ~cut => /\ state \in {"idle", "request", "error"} => told = 0 /\ len = 0
          /\ state = "wait" => /\ first = 1 /\ len = fill
                               /\ urb \in {"error", "stall"} => told = 0

Transfer ==
  /\ state \in {"idle", "request", "wait", "error"}
  /\ len \in 0..(Room - 1) /\ first \in 0..MaxPackets /\ fill \in 0..MaxPackets
  /\ urb \in {"idle", "full", "short", "error", "stall"}
  /\ enabled \in BOOLEAN /\ told \in 0..(MaxPackets - 1) /\ cut \in BOOLEAN
  /\ enabled => state = "wait" /\ urb = "idle"
  /\ state = "wait" => first >= 1 /\ fill + first = IF urb = "full" THEN told ELSE told + 1
  /\ Whole

USE UsbBulkInAssumption

LEMMA TransferInit == BInit => Transfer
<1> SUFFICES ASSUME BInit PROVE Transfer
  OBVIOUS
<1>1. enabled \in BOOLEAN /\ cut \in BOOLEAN /\ ~enabled
  BY DEF BInit
<1> QED BY <1>1 DEF BInit, Transfer, Whole

LEMMA TransferNext == Transfer /\ [BNext]_bvars => Transfer'
<1> SUFFICES ASSUME Transfer, [BNext]_bvars PROVE Transfer'
  OBVIOUS
<1>c. MaxPackets \in Nat \ {0} /\ Room \in Nat \ {0}
  OBVIOUS
<1>1. CASE OverUsb
  BY <1>1 DEF OverUsb, buffer, chan, radio, Transfer, Whole
<1>2. CASE StartRx
  BY <1>2, <1>c DEF StartRx, BulkIn, buffer, chan, radio, Transfer, Whole
<1>3. CASE FullPacket
  <2>1. enabled' \in BOOLEAN /\ ~enabled' /\ cut' = cut
    BY <1>3 DEF FullPacket
  <2>2. state = "wait" /\ urb = "idle"
    BY <1>3 DEF FullPacket, Transfer
  <2> QED BY <1>3, <1>c, <2>1, <2>2 DEF FullPacket, buffer, Transfer, Whole
<1>4. CASE ShortPacket
  BY <1>4, <1>c DEF ShortPacket, buffer, radio, Transfer, Whole
<1>5. CASE BadPacket
  <2>1. /\ enabled' \in BOOLEAN /\ ~enabled' /\ cut' \in BOOLEAN
        /\ cut' <=> cut \/ told > 0
    BY <1>5 DEF BadPacket
  <2>2. /\ state = "wait" /\ urb = "idle" /\ urb' \in {"error", "stall"}
        /\ UNCHANGED <<state, len, first, fill, told>>
    BY <1>5 DEF BadPacket, buffer, Transfer
  <2> QED BY <1>c, <2>1, <2>2 DEF Transfer, Whole
<1>6. CASE Request
  BY <1>6, <1>c DEF Request, ReceivePacket, radio, Transfer, Whole
<1>7. CASE LastPacket
  <2>1. cut' \in BOOLEAN /\ ~cut' /\ enabled' = enabled /\ enabled \in BOOLEAN /\ ~enabled
    BY <1>7 DEF LastPacket, HandUp, chan, Transfer
  <2>2. /\ state = "wait" /\ urb = "short" /\ fill' = fill + 1 /\ told' = 0
        /\ state' = "request" /\ len' = 0 /\ UNCHANGED <<first, urb>>
    BY <1>7 DEF LastPacket, HandUp, BulkIn, chan
  <2>3. fill' \in 0..MaxPackets
    BY <1>c, <2>2 DEF Transfer
  <2> QED BY <1>c, <2>1, <2>2, <2>3 DEF Transfer, Whole
<1>8. CASE NextPacket
  <2>1. /\ state = "wait" /\ urb = "full" /\ fill' = fill + 1 /\ UNCHANGED <<first, told>>
        /\ ~enabled
    BY <1>8 DEF NextPacket, Transfer
  <2>2. fill' \in 0..MaxPackets /\ fill' + first = told + 1
    BY <1>c, <2>1 DEF Transfer
  <2>3. CASE len + 2 <= Room /\ len' = len + 1 /\ ReceivePacket /\ UNCHANGED <<state, cut>>
    <3>1. enabled' \in BOOLEAN /\ urb' = "idle"
      BY <2>3 DEF ReceivePacket
    <3>2. Whole'
      BY <1>c, <2>1, <2>3, <3>1 DEF Transfer, Whole
    <3> QED BY <1>c, <2>1, <2>2, <2>3, <3>1, <3>2 DEF Transfer
  <2>4. CASE HandUp(0) /\ cut' = TRUE
    <3>1. /\ cut' \in BOOLEAN /\ cut' /\ enabled' = enabled /\ state' = "request"
          /\ len' = 0 /\ urb' = urb
      BY <2>4 DEF HandUp, BulkIn, chan
    <3> QED BY <1>c, <2>1, <2>2, <3>1 DEF Transfer, Whole
  <2> QED BY <1>8, <2>3, <2>4 DEF NextPacket
<1>9. CASE Failed
  BY <1>9, <1>c DEF Failed, buffer, chan, radio, Transfer, Whole
<1>10. CASE Retry
  BY <1>10, <1>c DEF Retry, buffer, chan, radio, Transfer, Whole
<1>11. CASE UNCHANGED bvars
  BY <1>11 DEF bvars, buffer, chan, radio, Transfer, Whole
<1> QED BY <1>1, <1>2, <1>3, <1>4, <1>5, <1>6, <1>7, <1>8, <1>9, <1>10, <1>11
       DEF BNext, Host, Device

-----------------------------------------------------------------------------
QueueBound == Len(queue) <= QueueSize

LEMMA BoundNext == RxInv /\ QueueBound /\ [Next]_vars => QueueBound'
<1> SUFFICES ASSUME RxInv, QueueBound, [Next]_vars PROVE QueueBound'
  OBVIOUS
<1>1. queue \in Seq(RxBufs \cup {Other}) /\ Len(queue) \in Nat
  BY DEF RxInv, Types
<1>2. CASE queue' = queue
  BY <1>2 DEF QueueBound
<1>3. ASSUME NEW x \in RxBufs \cup {Other}, QueueRoom, queue' = Append(queue, x)
      PROVE  QueueBound'
  <2>1. Len(queue') = Len(queue) + 1
    BY <1>1, <1>3
  <2> QED BY <1>1, <1>3, <2>1 DEF QueueRoom, QueueBound
<1>4. CASE queue # <<>> /\ queue' = Tail(queue)
  <2>1. Len(queue') = Len(queue) - 1
    BY <1>1, <1>4, TailElements
  <2> QED BY <1>1, <2>1 DEF QueueBound
<1>5. \/ queue' = queue
      \/ queue # <<>> /\ queue' = Tail(queue)
      \/ \E x \in RxBufs \cup {Other} : QueueRoom /\ queue' = Append(queue, x)
  <2>1. rpc = "deliver" => rbuf \in RxBufs
    BY DEF RxInv, Types
  <2> QED BY <2>1 DEF Next, UsbRecv, RxStep, RxTake, RxPick, RxRefuse, RxDeliver, QueueOther, VamStep,
                      VamTake, VamDone, vars, vam
<1> QED BY <1>2, <1>3, <1>4, <1>5

(* All of reception. *)
BulkInInv ==
  /\ RxInv /\ OrderInv /\ QueueBound /\ Transfer
  /\ Elements(Pending) = Places

LEMMA BulkInHolds == BSpec => []BulkInInv
<1> DEFINE I == RxInv /\ OrderInv /\ QueueBound /\ Transfer
<1>1. BInit => I
  BY RxInit, OrderInit, TransferInit DEF BInit, Init, QueueBound
<1>2. I /\ [BNext]_bvars => I'
  BY TransferStep, RxNext, OrderNext, BoundNext, TransferNext
<1>3. I => BulkInInv
  BY PendingPlaced DEF BulkInInv, RxInv
<1> QED BY <1>1, <1>2, <1>3, PTL DEF BSpec

(* Pool, lists, queue and transfer keep their types and their bounds: no   *)
(* more wake-ups than RXBUFs, no index beyond the buffer of the transfer,  *)
(* however long the frames of the radio and whatever errors cut them.      *)
THEOREM ReceptionTypes == BSpec => []BTypeOK
<1>1. BulkInInv => BTypeOK
  <2> SUFFICES ASSUME BulkInInv PROVE BTypeOK
    OBVIOUS
  <2>1. Len(rxWaiting) <= Cardinality(RxBufs) /\ Len(rxWaiting) \in Nat
        /\ Cardinality(RxBufs) \in Nat
    BY SingleBound, FS_CardinalityType DEF BulkInInv, RxInv, Types, OnePlace
  <2>2. sem \in 0..Cardinality(RxBufs)
    BY <2>1 DEF BulkInInv, RxInv, Types, OneKickPerFrame
  <2>3. TypeOK
    BY <2>2 DEF TypeOK, BulkInInv, RxInv, Types, OrderInv, QueueBound
  <2> QED BY <2>3 DEF BTypeOK, BulkInInv, Transfer
<1> QED BY <1>1, BulkInHolds, PTL

(* Frames reach the VAM thread in the order in which the radio received    *)
(* them: the list, the wake-ups and the queue reorder none.                *)
THEOREM FramesStayInOrder == BSpec => []FramesInOrder
<1>1. BulkInInv => FramesInOrder
  BY OrderHolds DEF BulkInInv, RxInv
<1> QED BY <1>1, BulkInHolds, PTL

(* An RXBUF is lost at the full VAM queue only, and only while other       *)
(* messages hold more places than the frames leave over: with fewer of     *)
(* them no RXBUF is ever lost.                                             *)
THEOREM RxbufsNotLost == BSpec => RxbufLostOnlyToOthers
<1>1. BulkInInv /\ BulkInInv' /\ [BNext]_bvars
        => [InSystem \subseteq InSystem' \/ Others + Cardinality(RxBufs) > QueueSize]_vars
  <2> SUFFICES ASSUME BulkInInv, BulkInInv', [Next]_vars
               PROVE  [InSystem \subseteq InSystem' \/ Others + Cardinality(RxBufs) > QueueSize]_vars
    BY TransferStep
  <2>1. /\ InSystem = rxFree \cup (Places \cap RxBufs)
        /\ InSystem' = rxFree' \cup (Places' \cap RxBufs)
    BY DEF BulkInInv, InSystem
  <2>t. /\ Types /\ OnePlace /\ queue \in Seq(RxBufs \cup {Other}) /\ rxWaiting \in Seq(RxBufs)
        /\ NoBuf \notin RxBufs /\ Other \notin RxBufs
    BY DEF BulkInInv, RxInv, Types
  <2>2. CASE UsbRecv
    <3>1. PICK b \in rxFree : /\ rxFree' = rxFree \ {b} /\ rxWaiting' = Append(rxWaiting, b)
                              /\ UNCHANGED <<rbuf, queue, vmsg>>
      BY <2>2 DEF UsbRecv, LinkRx, wnrx, vam
    <3>2. b \in RxBufs
      BY <2>t DEF Types
    <3>3. Elements(rxWaiting)' = Elements(rxWaiting) \cup {b}
      BY <2>t, <3>1, <3>2, AppendElements
    <3> QED BY <2>1, <3>1, <3>2, <3>3 DEF Places
  <2>3. CASE RxPick /\ rxWaiting # <<>>
    <3>1. rbuf = NoBuf /\ rbuf' = Head(rxWaiting) /\ rxWaiting' = Tail(rxWaiting)
          /\ UNCHANGED <<rxFree, queue, vmsg>>
      BY <2>3, <2>t DEF RxPick, vam, Types
    <3>2. Elements(rxWaiting) = {rbuf'} \cup Elements(rxWaiting)'
      BY <2>t, <2>3, <3>1, HeadBefore
    <3> QED BY <2>1, <2>t, <3>1, <3>2 DEF Places
  <2>4. CASE RxTake \/ (RxPick /\ rxWaiting = <<>>) \/ UNCHANGED vars
    <3>1. UNCHANGED <<rxFree, rbuf, vmsg, queue, rxWaiting>>
      BY <2>4 DEF RxTake, RxPick, vam, vars, wnrx
    <3> QED BY <2>1, <3>1 DEF Places
  <2>5. CASE RxRefuse
    <3>1. rxFree' = rxFree \cup {rbuf} /\ UNCHANGED <<vmsg, queue, rxWaiting>>
      BY <2>5 DEF RxRefuse, vam
    <3> QED BY <2>1, <3>1 DEF Places
  <2>6. CASE RxDeliver /\ QueueRoom
    <3>1. /\ rbuf \in RxBufs \cup {Other} /\ queue' = Append(queue, rbuf)
          /\ UNCHANGED <<rxFree, rxWaiting, vmsg>>
      BY <2>6, <2>t DEF RxDeliver, Types
    <3>2. Elements(queue)' = Elements(queue) \cup {rbuf}
      BY <2>t, <3>1, AppendElements
    <3> QED BY <2>1, <3>1, <3>2 DEF Places
  <2>7. CASE RxDeliver /\ ~QueueRoom
    <3>1. rbuf \in RxBufs /\ Len(queue) >= QueueSize
      BY <2>7, <2>t DEF RxDeliver, Types, QueueRoom
    <3> QED BY <2>t, <3>1, FullQueue
  <2>8. CASE QueueOther
    <3>1. queue' = Append(queue, Other) /\ UNCHANGED <<rxFree, rxWaiting, vmsg, rbuf>>
      BY <2>8 DEF QueueOther, wnrx
    <3>2. Elements(queue)' = Elements(queue) \cup {Other}
      <4>1. Other \in RxBufs \cup {Other}
        OBVIOUS
      <4> QED BY <2>t, <3>1, <4>1, AppendElements
    <3> QED BY <2>1, <3>1, <3>2 DEF Places
  <2>9. CASE VamTake
    <3>1. vmsg = NoBuf /\ queue # <<>> /\ vmsg' = Head(queue) /\ queue' = Tail(queue)
          /\ UNCHANGED <<rxFree, rxWaiting, rbuf>>
      BY <2>9 DEF VamTake, wnrx
    <3>2. Elements(queue) = {vmsg'} \cup Elements(queue)'
      BY <2>t, <3>1, HeadBefore
    <3> QED BY <2>1, <2>t, <3>1, <3>2 DEF Places
  <2>10. CASE VamDone
    <3>1. rxFree' = rxFree \cup ({vmsg} \cap RxBufs) /\ UNCHANGED <<rxWaiting, rbuf, queue>>
      BY <2>10 DEF VamDone, wnrx
    <3> QED BY <2>1, <3>1 DEF Places
  <2> QED BY <2>2, <2>3, <2>4, <2>5, <2>6, <2>7, <2>8, <2>9, <2>10 DEF Next, RxStep, VamStep
<1> QED BY <1>1, BulkInHolds, PTL DEF BSpec, RxbufLostOnlyToOthers

(* A frame that is handed up is one of the radio's, from its first packet  *)
(* to its last and with its length, unless an error cut this very frame,   *)
(* for any length of frames and any size of the buffer.                    *)
THEOREM OnlyWholeFrames == BSpec => HandedUpIsWhole
<1>1. BulkInInv /\ [BNext]_bvars
        => [LastPacket /\ ~cut => first = 1 /\ fill' = told + 1 /\ len = told]_bvars
  <2> SUFFICES ASSUME Transfer, LastPacket, ~cut
               PROVE  first = 1 /\ fill' = told + 1 /\ len = told
    BY DEF BulkInInv
  <2>1. state = "wait" /\ urb = "short" /\ fill' = fill + 1
    BY DEF LastPacket
  <2> QED BY <2>1 DEF Transfer, Whole
<1> QED BY <1>1, BulkInHolds, PTL DEF BSpec, HandedUpIsWhole
=============================================================================
