------------------------ MODULE LockFreeQueueProofs ------------------------
(***************************************************************************)
(* Proofs about LockFreeQueue for every capacity, every set of events and,  *)
(* where a theorem does not say otherwise, every set of threads.            *)
(***************************************************************************)
EXTENDS LockFreeQueue, SequenceTheorems, TLAPS

(* The next slot of the ring, with the remainder worked out. *)
LEMMA FollowingSlot ==
    ASSUME NEW i \in Slots
    PROVE  Following(i) = IF i + 1 = Capacity THEN 0 ELSE i + 1
<1>1. CASE i + 1 = Capacity
  BY <1>1, CapacityAssumption, SMT DEF Following, Slots
<1>2. CASE i + 1 # Capacity
  <2>1. /\ i + 1 \in Nat
        /\ i + 1 < Capacity
    BY <1>2, CapacityAssumption DEF Slots
  <2>2. (i + 1) % Capacity = i + 1
    BY <2>1, CapacityAssumption, SMT
  <2> QED BY <1>2, <2>2 DEF Following
<1> QED BY <1>1, <1>2

(* Both indices of the ring are slots, and stay so when they advance. *)
LEMMA FollowingType ==
    ASSUME NEW i \in Slots
    PROVE  Following(i) \in Slots
BY FollowingSlot, CapacityAssumption DEF Slots

LEMMA FollowingInjective ==
    ASSUME NEW i \in Slots, NEW j \in Slots, Following(i) = Following(j)
    PROVE  i = j
BY FollowingSlot, CapacityAssumption DEF Slots

LEMMA DistanceType ==
    ASSUME NEW h \in Slots, NEW t \in Slots
    PROVE  /\ Distance(h, t) \in Slots
           /\ Distance(h, t) = 0 <=> h = t
           /\ Distance(h, t) = Capacity - 1 <=> Following(t) = h
BY FollowingSlot, CapacityAssumption DEF Slots, Distance

(* Publishing makes the ring one longer, releasing one shorter. *)
LEMMA DistanceStep ==
    ASSUME NEW h \in Slots, NEW t \in Slots
    PROVE  /\ Following(t) # h => Distance(h, Following(t)) = Distance(h, t) + 1
           /\ h # t => Distance(Following(h), t) = Distance(h, t) - 1
BY FollowingSlot, CapacityAssumption DEF Slots, Distance

(* The unread slots are told apart from the slot at tail_, and move up by one  *)
(* when head_ does.                                                            *)
LEMMA OffsetFacts ==
    ASSUME NEW h \in Slots, NEW t \in Slots, NEW k \in Nat, k < Distance(h, t)
    PROVE  /\ Offset(h, k) \in Slots
           /\ Offset(h, k) # t
           /\ k = 0 => Offset(h, k) = h
           /\ k + 1 < Capacity => Offset(Following(h), k) = Offset(h, k + 1)
BY FollowingSlot, CapacityAssumption DEF Slots, Distance, Offset

LEMMA OffsetTail ==
    ASSUME NEW h \in Slots, NEW t \in Slots
    PROVE  Offset(h, Distance(h, t)) = t
BY CapacityAssumption DEF Slots, Distance, Offset
-----------------------------------------------------------------------------
(* Whatever the threads do, even several producers or several consumers, every *)
(* variable keeps its type: no index leaves the ring.                          *)
THEOREM TypeCorrect == Spec => []TypeOK
<1>1. Init => TypeOK
  BY CapacityAssumption DEF Init, TypeOK, Slots, PushSteps, PopSteps, Threads
<1>2. TypeOK /\ [Next]_vars => TypeOK'
  <2> SUFFICES ASSUME TypeOK, [Next]_vars
               PROVE  TypeOK'
    OBVIOUS
  <2> USE ThreadAssumption DEF TypeOK, PushSteps, PopSteps
  <2>1. ASSUME NEW p \in Producers, Push(p)
        PROVE  TypeOK'
    <3>1. p \in Threads
      BY DEF Threads
    <3>2. ASSUME NEW e \in Events, PushLoadTail(p, e)
          PROVE  TypeOK'
      BY <3>1, <3>2 DEF PushLoadTail
    <3>3. CASE PushFull(p)
      BY <3>1, <3>3 DEF PushFull
    <3>4. CASE PushHasRoom(p)
      BY <3>1, <3>4 DEF PushHasRoom
    <3>5. CASE PushWrite(p)
      BY <3>1, <3>5 DEF PushWrite
    <3>6. CASE PushStoreTail(p)
      BY <3>1, <3>6, FollowingType DEF PushStoreTail
    <3> QED BY <2>1, <3>2, <3>3, <3>4, <3>5, <3>6 DEF Push
  <2>2. ASSUME NEW c \in Consumers, Pop(c)
        PROVE  TypeOK'
    <3>1. c \in Threads
      BY DEF Threads
    <3>2. CASE PopLoadHead(c)
      BY <3>1, <3>2 DEF PopLoadHead
    <3>3. CASE PopEmpty(c)
      BY <3>1, <3>3 DEF PopEmpty
    <3>4. CASE PopHasEvent(c)
      BY <3>1, <3>4 DEF PopHasEvent
    <3>5. CASE PopRead(c)
      BY <3>1, <3>5 DEF PopRead
    <3>6. CASE PopStoreHead(c)
      BY <3>1, <3>6, FollowingType DEF PopStoreHead
    <3> QED BY <2>2, <3>2, <3>3, <3>4, <3>5, <3>6 DEF Pop
  <2>3. ASSUME NEW t \in Threads, Size(t)
        PROVE  TypeOK'
    <3>1. CASE SizeLoadHead(t)
      BY <3>1 DEF SizeLoadHead
    <3>2. CASE SizeLoadTail(t)
      BY <3>2, DistanceType DEF SizeLoadTail
    <3> QED BY <2>3, <3>1, <3>2 DEF Size
  <2>4. CASE UNCHANGED vars
    BY <2>4 DEF vars
  <2> QED BY <2>1, <2>2, <2>3, <2>4 DEF Next
<1> QED BY <1>1, <1>2, PTL DEF Spec
-----------------------------------------------------------------------------
(* The inductive invariant.  NoDataRace alone is not inductive: that the slots  *)
(* in use differ follows from the test each thread made, which must be carried  *)
(* along to the copy.                                                           *)
RingInv == TypeOK /\ TestsStayTrue

LEMMA RingInvInit == Init => RingInv
BY CapacityAssumption DEF Init, RingInv, TypeOK, TestsStayTrue, Slots, PushSteps, PopSteps, Threads

LEMMA RingInvStep ==
    ASSUME SingleEnds, ThreadAssumption, RingInv, TypeOK', [Next]_vars
    PROVE  TestsStayTrue'
<1> USE DEF RingInv, TypeOK, TestsStayTrue, PushSteps, PopSteps
<1>0. /\ \A p \in Producers : p \in Threads /\ p \notin Consumers
      /\ \A c \in Consumers : c \in Threads /\ c \notin Producers
      /\ \A t \in Threads : t \in Producers \/ t \in Consumers
  BY ThreadAssumption DEF Threads
<1>1. ASSUME NEW p \in Producers, Push(p)
      PROVE  TestsStayTrue'
  <2>1. \A q \in Producers : q = p
    BY DEF SingleEnds
  <2>2. ASSUME NEW e \in Events, PushLoadTail(p, e)
        PROVE  TestsStayTrue'
    BY <1>0, <2>1, <2>2 DEF PushLoadTail, Occupancy
  <2>3. CASE PushFull(p)
    BY <1>0, <2>1, <2>3 DEF PushFull, Occupancy
  <2>4. CASE PushHasRoom(p)
    BY <1>0, <2>1, <2>4 DEF PushHasRoom, Occupancy
  <2>5. CASE PushWrite(p)
    BY <1>0, <2>1, <2>5 DEF PushWrite, Occupancy
  <2>6. CASE PushStoreTail(p)
    <3>1. Following(tail) # tail
      BY <1>0, <2>6, FollowingSlot, CapacityAssumption DEF PushStoreTail, Slots
    <3>2. \A c \in Consumers : pc[c] \in {"read", "release"} => head # tail'
      BY <1>0, <2>6 DEF PushStoreTail
    <3> QED BY <1>0, <2>1, <2>6, <3>1, <3>2 DEF PushStoreTail
  <2> QED BY <1>1, <2>2, <2>3, <2>4, <2>5, <2>6 DEF Push
<1>2. ASSUME NEW c \in Consumers, Pop(c)
      PROVE  TestsStayTrue'
  <2>1. \A d \in Consumers : d = c
    BY DEF SingleEnds
  <2>2. CASE PopLoadHead(c)
    BY <1>0, <2>1, <2>2 DEF PopLoadHead, Occupancy
  <2>3. CASE PopEmpty(c)
    BY <1>0, <2>1, <2>3 DEF PopEmpty, Occupancy
  <2>4. CASE PopHasEvent(c)
    BY <1>0, <2>1, <2>4 DEF PopHasEvent, Occupancy
  <2>5. CASE PopRead(c)
    BY <1>0, <2>1, <2>5 DEF PopRead, Occupancy
  <2>6. CASE PopStoreHead(c)
    <3>1. head # tail /\ head' = Following(head) /\ tail' = tail
      BY <1>0, <2>6 DEF PopStoreHead
    <3>2. /\ Occupancy' = Occupancy - 1
          /\ Following(tail) # head'
          /\ Occupancy \in Slots
          /\ Occupancy' \in Slots
      <4> HIDE DEF TestsStayTrue
      <4>1. head \in Slots /\ tail \in Slots /\ head' \in Slots
        OBVIOUS
      <4> HIDE DEF TypeOK, RingInv
      <4> QED BY <3>1, <4>1, DistanceStep, DistanceType, FollowingInjective DEF Occupancy
    <3>3. ASSUME NEW p \in Producers, pc'[p] = "size"
          PROVE  Distance(at'[p], tail') >= Occupancy'
      <4>1. /\ at'[p] = at[p] /\ pc[p] = "size"
        BY <1>0, <2>6, <3>3 DEF PopStoreHead
      <4>2. Distance(at[p], tail) >= Occupancy
        BY <4>1
      <4>3. at[p] \in Slots /\ tail \in Slots
        BY <1>0
      <4> HIDE DEF TypeOK, RingInv, TestsStayTrue
      <4>4. Distance(at'[p], tail') = Distance(at[p], tail)
        BY <3>1, <4>1
      <4>5. Distance(at[p], tail) \in Slots
        BY <4>3, DistanceType
      <4> QED BY <3>2, <4>2, <4>4, <4>5, CapacityAssumption DEF Slots
    <3> QED BY <1>0, <2>1, <2>6, <3>1, <3>2, <3>3 DEF PopStoreHead
  <2> QED BY <1>2, <2>2, <2>3, <2>4, <2>5, <2>6 DEF Pop
<1>3. ASSUME NEW t \in Threads, Size(t)
      PROVE  TestsStayTrue'
  <2>1. CASE SizeLoadHead(t)
    <3>1. Distance(head, tail) >= Distance(head, tail)
      BY DistanceType, CapacityAssumption DEF Slots
    <3> QED BY <1>0, <2>1, <3>1 DEF SizeLoadHead, Occupancy
  <2>2. CASE SizeLoadTail(t)
    BY <1>0, <2>2 DEF SizeLoadTail, Occupancy
  <2> QED BY <1>3, <2>1, <2>2 DEF Size
<1>4. CASE UNCHANGED vars
  BY <1>4 DEF vars, Occupancy
<1> QED BY <1>1, <1>2, <1>3, <1>4 DEF Next

(* What a thread's test found stays true until its call is done, for every      *)
(* capacity, as long as one thread pushes and one thread pops.                  *)
THEOREM TestsHold ==
    ASSUME SingleEnds
    PROVE  Spec => []TestsStayTrue
<1>1. Spec => []TypeOK
  BY TypeCorrect
<1>2. RingInv /\ TypeOK' /\ [Next]_vars => RingInv'
  BY RingInvStep, ThreadAssumption DEF RingInv
<1>3. RingInv => TestsStayTrue
  BY DEF RingInv
<1> QED BY <1>1, <1>2, <1>3, RingInvInit, PTL DEF Spec
-----------------------------------------------------------------------------
(* One producer and one consumer never copy into or out of the same slot at     *)
(* once, whatever the capacity of the ring.                                     *)
THEOREM RaceFree ==
    ASSUME SingleEnds
    PROVE  Spec => []NoDataRace
<1>1. TypeOK /\ TestsStayTrue => NoDataRace
  BY ThreadAssumption, CapacityAssumption
     DEF TypeOK, TestsStayTrue, NoDataRace, SingleEnds, Threads, PushSteps, PopSteps
<1> QED BY <1>1, TypeCorrect, TestsHold, PTL

(* An event that push has published stays in its slot until pop releases it.    *)
THEOREM UnreadKept ==
    ASSUME SingleEnds
    PROVE  Spec => UnreadIsKept
<1> DEFINE Kept == \A k \in 1 .. Occupancy :
                      LET i == Offset(head, k - 1) IN buffer'[i] = buffer[i]
<1>1. TypeOK /\ TestsStayTrue /\ [Next]_vars => [Kept]_vars
  <2> SUFFICES ASSUME TypeOK, TestsStayTrue, [Next]_vars, NEW k \in 1 .. Occupancy
               PROVE  buffer'[Offset(head, k - 1)] = buffer[Offset(head, k - 1)]
    OBVIOUS
  <2>1. CASE \E p \in Producers : PushWrite(p)
    <3>1. PICK p \in Producers : PushWrite(p)
      BY <2>1
    <3>2. buffer' = [buffer EXCEPT ![tail] = event[p]]
      BY <3>1 DEF PushWrite, TestsStayTrue
    <3>3. /\ head \in Slots /\ tail \in Slots
          /\ buffer \in [Slots -> Events \cup {Nullopt}]
      BY DEF TypeOK
    <3>4. Occupancy \in Slots
      BY <3>3, DistanceType DEF Occupancy
    <3>5. k - 1 \in Nat /\ k - 1 < Distance(head, tail)
      BY <3>4, CapacityAssumption DEF Occupancy, Slots
    <3>6. Offset(head, k - 1) \in Slots /\ Offset(head, k - 1) # tail
      BY <3>3, <3>5, OffsetFacts
    <3> QED BY <3>2, <3>3, <3>6
  <2>2. CASE ~ \E p \in Producers : PushWrite(p)
    <3>1. buffer' = buffer
      BY <2>2 DEF Next, vars, Push, PushLoadTail, PushFull, PushHasRoom, PushStoreTail,
            Pop, PopLoadHead, PopEmpty, PopHasEvent, PopRead, PopStoreHead,
            Size, SizeLoadHead, SizeLoadTail
    <3> QED BY <3>1
  <2> QED BY <2>1, <2>2
<1> QED BY <1>1, TypeCorrect, TestsHold, PTL DEF Spec, UnreadIsKept

(* size() never promises the consumer more than is there, nor the producer more *)
(* room than there is.                                                          *)
THEOREM SizeSafe ==
    ASSUME SingleEnds
    PROVE  Spec => SizeIsSafe
<1> DEFINE Safe == \A t \in Threads : SizeLoadTail(t) =>
                      /\ t \in Consumers => count'[t] <= Occupancy
                      /\ t \in Producers => count'[t] >= Occupancy
<1>1. TypeOK /\ TestsStayTrue /\ [Next]_vars => [Safe]_vars
  <2> SUFFICES ASSUME TypeOK, TestsStayTrue, NEW t \in Threads, SizeLoadTail(t)
               PROVE  /\ t \in Consumers => count'[t] <= Occupancy
                      /\ t \in Producers => count'[t] >= Occupancy
    OBVIOUS
  <2>1. count'[t] = Distance(at[t], tail) /\ pc[t] = "size"
    BY DEF SizeLoadTail, TypeOK
  <2>2. Occupancy \in Nat
    <3>1. Occupancy \in Slots
      BY DistanceType DEF Occupancy, TypeOK
    <3> QED BY <3>1, CapacityAssumption DEF Slots
  <2>3. t \in Consumers => count'[t] = Occupancy
    BY <2>1 DEF TestsStayTrue, Occupancy
  <2>4. t \in Producers => count'[t] >= Occupancy
    BY <2>1 DEF TestsStayTrue
  <2> QED BY <2>2, <2>3, <2>4
<1> QED BY <1>1, TypeCorrect, TestsHold, PTL DEF Spec, SizeIsSafe
-----------------------------------------------------------------------------
(* The four ways in which a step of the ring shows in the abstract queue. *)

LEMMA UnreadLength ==
    ASSUME TypeOK
    PROVE  /\ Occupancy \in 0 .. Capacity - 1
           /\ Len(Unread) = Occupancy
           /\ Unread \in Seq(Events \cup {Nullopt})
<1>1. Occupancy \in Slots
  BY DistanceType DEF TypeOK, Occupancy
<1>2. ASSUME NEW k \in 1 .. Occupancy
      PROVE  buffer[Offset(head, k - 1)] \in Events \cup {Nullopt}
  <2>1. /\ k - 1 \in Nat
        /\ k - 1 < Distance(head, tail)
    BY <1>1, CapacityAssumption DEF Slots, Occupancy
  <2>2. Offset(head, k - 1) \in Slots
    BY <2>1, OffsetFacts DEF TypeOK
  <2> QED BY <2>2 DEF TypeOK
<1> QED BY <1>1, <1>2, CapacityAssumption DEF Unread, Slots

LEMMA UnreadLengthNext ==
    TypeOK' => (/\ Len(Unread) = Occupancy
                /\ Unread \in Seq(Events \cup {Nullopt}))'
<1>1. TypeOK => /\ Len(Unread) = Occupancy
                /\ Unread \in Seq(Events \cup {Nullopt})
  BY UnreadLength
<1> QED BY <1>1, PTL

LEMMA PublishAppends ==
    ASSUME TypeOK, TypeOK', NEW e \in Events,
           Following(tail) # head, tail' = Following(tail), buffer[tail] = e,
           UNCHANGED <<buffer, head>>
    PROVE  Unread' = Append(Unread, e)
<1>1. /\ Occupancy \in Nat
      /\ Len(Unread) = Occupancy
      /\ Unread \in Seq(Events \cup {Nullopt})
  BY UnreadLength, CapacityAssumption
<1>2. /\ Occupancy' = Occupancy + 1
      /\ Len(Unread') = Occupancy'
      /\ Unread' \in Seq(Events \cup {Nullopt})
  BY UnreadLengthNext, DistanceStep DEF TypeOK, Occupancy
<1>3. Offset(head, Occupancy) = tail
  BY OffsetTail DEF TypeOK, Occupancy
<1>4. /\ Append(Unread, e) \in Seq(Events \cup {Nullopt})
      /\ Len(Append(Unread, e)) = Occupancy + 1
      /\ \A k \in 1 .. Occupancy : Append(Unread, e)[k] = Unread[k]
      /\ Append(Unread, e)[Occupancy + 1] = e
  BY <1>1, AppendProperties
<1>5. ASSUME NEW k \in 1 .. Occupancy + 1
      PROVE  Unread'[k] = Append(Unread, e)[k]
  <2>1. Unread'[k] = buffer[Offset(head, k - 1)]
    BY <1>2 DEF Unread, Offset
  <2>2. CASE k = Occupancy + 1
    <3>1. k - 1 = Occupancy
      BY <1>1, <2>2
    <3> QED BY <2>1, <2>2, <3>1, <1>3, <1>4
  <2>3. CASE k # Occupancy + 1
    <3>1. k \in 1 .. Occupancy
      BY <1>1, <2>3
    <3> QED BY <1>4, <2>1, <3>1 DEF Unread
  <2> QED BY <2>2, <2>3
<1> QED BY <1>2, <1>4, <1>5, SeqEqual

LEMMA ReleaseRemovesHead ==
    ASSUME TypeOK, TypeOK', head # tail, head' = Following(head),
           UNCHANGED <<buffer, tail>>
    PROVE  /\ Unread # <<>>
           /\ Head(Unread) = buffer[head]
           /\ Unread' = Tail(Unread)
<1>1. /\ Occupancy \in 0 .. Capacity - 1
      /\ Len(Unread) = Occupancy
      /\ Unread \in Seq(Events \cup {Nullopt})
  BY UnreadLength
<1>2. /\ Occupancy' = Occupancy - 1
      /\ Occupancy # 0
  BY DistanceStep, DistanceType DEF TypeOK, Occupancy
<1>3. Offset(head, 0) = head
  BY CapacityAssumption DEF Offset, TypeOK, Slots
<1>4. Unread # <<>> /\ Head(Unread) = Unread[1]
  BY <1>1, <1>2, CapacityAssumption
<1>5. Unread[1] = buffer[head]
  <2>1. 1 \in 1 .. Occupancy /\ 1 - 1 = 0
    BY <1>1, <1>2, CapacityAssumption
  <2> QED BY <2>1, <1>3 DEF Unread
<1>6. /\ Tail(Unread) \in Seq(Events \cup {Nullopt})
      /\ Len(Tail(Unread)) = Occupancy - 1
      /\ \A k \in 1 .. Occupancy - 1 : Tail(Unread)[k] = Unread[k + 1]
  BY <1>1, <1>4, HeadTailProperties
<1>7. /\ Len(Unread') = Occupancy'
      /\ Unread' \in Seq(Events \cup {Nullopt})
  BY UnreadLengthNext
<1>8. ASSUME NEW k \in 1 .. Occupancy - 1
      PROVE  Unread'[k] = Tail(Unread)[k]
  <2>1. /\ k - 1 \in Nat
        /\ k - 1 < Occupancy
        /\ (k - 1) + 1 < Capacity
        /\ (k - 1) + 1 = (k + 1) - 1
        /\ k + 1 \in 1 .. Occupancy
    BY <1>1, CapacityAssumption
  <2>2. Offset(Following(head), k - 1) = Offset(head, (k + 1) - 1)
    BY <2>1, OffsetFacts DEF TypeOK, Occupancy
  <2>3. Unread'[k] = buffer[Offset(Following(head), k - 1)]
    BY <1>2 DEF Unread, Offset
  <2>4. Unread[k + 1] = buffer[Offset(head, (k + 1) - 1)]
    BY <2>1 DEF Unread
  <2> QED BY <1>6, <2>2, <2>3, <2>4
<1> QED BY <1>2, <1>4, <1>5, <1>6, <1>7, <1>8, SeqEqual
(* Every step but the two that move an index leaves the unread events alone.    *)
LEMMA UnreadUnchanged ==
    ASSUME TypeOK, UNCHANGED <<head, tail>>,
           \A i \in Slots : i # tail => buffer'[i] = buffer[i]
    PROVE  UNCHANGED Unread
<1>1. Occupancy' = Occupancy
  BY DEF Occupancy
<1>2. ASSUME NEW k \in 1 .. Occupancy
      PROVE  buffer'[Offset(head, k - 1)] = buffer[Offset(head, k - 1)]
  <2>1. Occupancy \in 0 .. Capacity - 1
    BY UnreadLength
  <2>2. k - 1 \in Nat /\ k - 1 < Distance(head, tail)
    BY <2>1, CapacityAssumption DEF Occupancy
  <2>3. Offset(head, k - 1) \in Slots /\ Offset(head, k - 1) # tail
    BY <2>2, OffsetFacts DEF TypeOK
  <2> QED BY <2>3
<1> QED BY <1>1, <1>2 DEF Unread, Offset

(* With one thread at each end the ring implements the bounded queue: nothing   *)
(* is lost, repeated or reordered, and a push or pop fails only when the queue  *)
(* is full or empty at that very instant.                                       *)
THEOREM Refinement ==
    ASSUME SingleEnds
    PROVE  Spec => ImplementsFifo
<1>1. Init => Fifo!Init
  <2> SUFFICES ASSUME Init
               PROVE  Fifo!Init
    OBVIOUS
  <2>1. Occupancy = 0
    BY CapacityAssumption DEF Init, Occupancy, Distance
  <2>2. Unread = <<>>
    BY <2>1 DEF Unread
  <2> QED BY <2>2 DEF Init, Fifo!Init, Threads
<1>2. TypeOK /\ TypeOK' /\ TestsStayTrue /\ [Next]_vars => [Fifo!Next]_(Fifo!vars)
  <2> SUFFICES ASSUME TypeOK, TypeOK', TestsStayTrue, [Next]_vars
               PROVE  Fifo!Next \/ UNCHANGED <<Unread, answer>>
    BY DEF Fifo!vars
  <2>1. Len(Unread) = Occupancy /\ head \in Slots /\ tail \in Slots
    BY UnreadLength DEF TypeOK
  <2>2. ASSUME NEW p \in Producers, Push(p)
        PROVE  Fifo!Next \/ UNCHANGED <<Unread, answer>>
    <3>1. CASE \/ \E e \in Events : PushLoadTail(p, e)
               \/ PushHasRoom(p)
      BY <3>1, UnreadUnchanged DEF PushLoadTail, PushHasRoom
    <3>2. CASE PushFull(p)
      <4>1. Len(Unread) = Capacity - 1
        BY <2>1, <3>2, DistanceType DEF PushFull, TestsStayTrue, Occupancy
      <4>2. UNCHANGED Unread
        BY <3>2, UnreadUnchanged DEF PushFull
      <4>3. Fifo!Refuse(p)
        BY <3>2, <4>1, <4>2 DEF PushFull, Fifo!Refuse
      <4> QED BY <4>3 DEF Fifo!Next
    <3>3. CASE PushWrite(p)
      <4>1. \A i \in Slots : i # tail => buffer'[i] = buffer[i]
        BY <3>3 DEF PushWrite, TestsStayTrue, TypeOK
      <4> QED BY <3>3, <4>1, UnreadUnchanged DEF PushWrite
    <3>4. CASE PushStoreTail(p)
      <4>1. /\ tail' = Following(tail)
            /\ Following(tail) # head
            /\ buffer[tail] = event[p]
            /\ event[p] \in Events
            /\ UNCHANGED <<buffer, head>>
        BY <3>4 DEF PushStoreTail, TestsStayTrue
      <4>2. Unread' = Append(Unread, event[p])
        BY <4>1, PublishAppends
      <4>3. Len(Unread) < Capacity - 1
        <5>1. Occupancy # Capacity - 1 /\ Occupancy \in Slots
          BY <2>1, <4>1, DistanceType DEF Occupancy
        <5> QED BY <2>1, <5>1, CapacityAssumption DEF Slots
      <4>4. Fifo!Push(p, event[p])
        BY <3>4, <4>2, <4>3 DEF PushStoreTail, Fifo!Push
      <4> QED BY <4>1, <4>4 DEF Fifo!Next
    <3> QED BY <2>2, <3>1, <3>2, <3>3, <3>4 DEF Push
  <2>3. ASSUME NEW c \in Consumers, Pop(c)
        PROVE  Fifo!Next \/ UNCHANGED <<Unread, answer>>
    <3>1. CASE PopLoadHead(c) \/ PopHasEvent(c) \/ PopRead(c)
      BY <3>1, UnreadUnchanged DEF PopLoadHead, PopHasEvent, PopRead
    <3>2. CASE PopEmpty(c)
      <4>1. Unread = <<>>
        <5>1. Occupancy = 0
          BY <2>1, <3>2, DistanceType DEF PopEmpty, TestsStayTrue, Occupancy
        <5> QED BY <5>1 DEF Unread
      <4>2. UNCHANGED Unread
        BY <3>2, UnreadUnchanged DEF PopEmpty
      <4>3. Fifo!ComeBackEmpty(c)
        BY <3>2, <4>1, <4>2 DEF PopEmpty, Fifo!ComeBackEmpty
      <4> QED BY <4>3 DEF Fifo!Next
    <3>3. CASE PopStoreHead(c)
      <4>1. /\ head' = Following(head)
            /\ head # tail
            /\ event[c] = buffer[head]
            /\ UNCHANGED <<buffer, tail>>
        BY <3>3 DEF PopStoreHead, TestsStayTrue
      <4>2. /\ Unread # <<>>
            /\ Head(Unread) = event[c]
            /\ Unread' = Tail(Unread)
        BY <4>1, ReleaseRemovesHead
      <4>3. Fifo!Pop(c)
        BY <3>3, <4>2 DEF PopStoreHead, Fifo!Pop
      <4> QED BY <4>3 DEF Fifo!Next
    <3> QED BY <2>3, <3>1, <3>2, <3>3 DEF Pop
  <2>4. ASSUME NEW t \in Threads, Size(t)
        PROVE  Fifo!Next \/ UNCHANGED <<Unread, answer>>
    BY <2>4, UnreadUnchanged DEF Size, SizeLoadHead, SizeLoadTail
  <2>5. CASE UNCHANGED vars
    BY <2>5, UnreadUnchanged DEF vars
  <2> QED BY <2>2, <2>3, <2>4, <2>5 DEF Next
<1> QED BY <1>1, <1>2, TypeCorrect, TestsHold, PTL DEF Spec, ImplementsFifo, Fifo!Spec
=============================================================================
