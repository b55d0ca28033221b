-------------------- MODULE NetworkIngestReceiverProofs --------------------
(* The datagram path for every buffer, width, datagram and declared count.     *)
EXTENDS NetworkIngestReceiver, Integers, TLAPS

(* What recvfrom leaves behind: it returns the length of the part that fits,    *)
(* and has written exactly that many bytes from the start of the buffer.        *)
Fits == /\ len = Smaller(sent, BufferSize)
        /\ pc = "check" => \A i \in Positions : i < len => writer[i] = received
        /\ pc = "check" => received > 0

ReceiverInv == TypeOK /\ Fits

(* The length that a declared count requires is the true one: in the width of    *)
(* size_t the sum never wraps.                                                  *)
LEMMA NoWrap == ASSUME NEW n \in Counts
                PROVE  /\ n \in Nat
                       /\ RequiredBytes(n) = HeaderSize + n * FloatSize
<1>1. /\ n \in Nat
      /\ HeaderSize + n * FloatSize \in 0 .. 2 ^ SizeBits - 1
  <2> DEFINE c == 2 ^ CountBits
             m == 2 ^ SizeBits
  <2>1. /\ c \in Nat /\ m \in Nat
        /\ n \in 0 .. c - 1
        /\ 20 + 4 * (c - 1) < m
    BY WidthAssumption
  <2> HIDE DEF c, m
  <2>2. n \in Nat /\ 20 + n * 4 \in 0 .. m - 1
    BY <2>1
  <2> QED
    BY <2>2 DEF HeaderSize, FloatSize, m
<1> DEFINE m == 2 ^ SizeBits
           x == HeaderSize + n * FloatSize
<1>2. m \in Nat
  BY WidthAssumption
<1>3. x \in 0 .. m - 1
  BY <1>1
<1> HIDE DEF m, x
<1>4. x % m = x
  BY <1>2, <1>3
<1> QED
  BY <1>1, <1>4 DEF RequiredBytes, m, x

LEMMA SmallerFits == ASSUME NEW size \in Nat
                     PROVE  Smaller(size, BufferSize) \in 0 .. BufferSize
BY BufferAssumption DEF Smaller

LEMMA InitInv == Init => ReceiverInv
<1> SUFFICES ASSUME Init PROVE ReceiverInv
  OBVIOUS
<1>1. header \in Headers
  <2>1. PICK h \in Headers : TRUE
    <3>1. [magic |-> "SLAB", count |-> CHOOSE n \in Counts : TRUE,
           label |-> CHOOSE l \in Labels : TRUE] \in Headers
      BY InputsAssumption DEF Headers, Magics
    <3> QED  BY <3>1
  <2> QED  BY <2>1 DEF Init, NoHeader
<1>2. pushed \in Seq([datagram : 1 .. received, label : Labels, features : Counts])
  BY DEF Init
<1>3. writer \in [Positions -> 0 .. received]
  BY DEF Init
<1>4. Smaller(0, BufferSize) = 0
  BY BufferAssumption DEF Smaller
<1>5. received \in 0 .. MaxDatagrams /\ len \in 0 .. BufferSize
  BY BufferAssumption, BoundAssumption DEF Init
<1> QED
  BY <1>1, <1>2, <1>3, <1>4, <1>5 DEF Init, ReceiverInv, TypeOK, Fits

(* An event of an earlier datagram stays one when more datagrams come.           *)
Event(r) == [datagram : 1 .. r, label : Labels, features : Counts]

LEMMA ReceiveInv == ASSUME ReceiverInv, NEW size \in Sizes, NEW h \in Headers, Receive(size, h)
                    PROVE  ReceiverInv'
<1> USE DEF ReceiverInv, TypeOK, Fits
<1>1. size \in Nat /\ Smaller(size, BufferSize) \in 0 .. BufferSize
  BY SizesAssumption, SmallerFits
<1>2. received' = received + 1 /\ received \in Nat /\ received' \in 1 .. MaxDatagrams
  BY BoundAssumption DEF Receive
<1>3. writer' \in [Positions -> 0 .. received']
  BY <1>1, <1>2 DEF Receive
<1>4. pushed' \in Seq([datagram : 1 .. received', label : Labels, features : Counts])
  <2>1. pushed' = pushed /\ pushed \in Seq(Event(received))
    BY DEF Receive, Event
  <2>2. Event(received) \subseteq Event(received')
    BY <1>2 DEF Event
  <2>3. Seq(Event(received)) \subseteq Seq(Event(received'))
    BY <2>2
  <2> QED
    BY <2>1, <2>3 DEF Event
<1>5. Fits'
  BY <1>1, <1>2 DEF Receive, Positions
<1> QED
  BY <1>1, <1>2, <1>3, <1>4, <1>5 DEF Receive

LEMMA DiscardInv == ReceiverInv /\ Discard => ReceiverInv'
BY DEF ReceiverInv, TypeOK, Fits, Discard

LEMMA DeliverInv == ASSUME ReceiverInv, Deliver PROVE ReceiverInv'
BY DEF ReceiverInv, TypeOK, Fits, Deliver, Headers

LEMMA NextInv == ReceiverInv /\ [Next]_vars => ReceiverInv'
<1> SUFFICES ASSUME ReceiverInv, [Next]_vars PROVE ReceiverInv'
  OBVIOUS
<1>1. ASSUME NEW size \in Sizes, NEW h \in Headers, Receive(size, h) PROVE ReceiverInv'
  BY <1>1, ReceiveInv
<1>2. CASE Discard
  BY <1>2, DiscardInv
<1>3. CASE Deliver
  BY <1>3, DeliverInv
<1>4. CASE UNCHANGED vars
  BY <1>4 DEF ReceiverInv, TypeOK, Fits, vars
<1> QED
  BY <1>1, <1>2, <1>3, <1>4 DEF Next

LEMMA Invariance == Spec => []ReceiverInv
BY InitInv, NextInv, PTL DEF Spec
-----------------------------------------------------------------------------
(* Every variable keeps its type; in particular len never exceeds the buffer     *)
(* and an event carries a count that some datagram declared.                     *)
THEOREM TypeCorrect == Spec => []TypeOK
<1>1. ReceiverInv => TypeOK
  BY DEF ReceiverInv
<1> QED
  BY <1>1, Invariance, PTL

(* An event is made of bytes of its own datagram only, whatever number of        *)
(* features its header declares and whatever the buffer held before.             *)
THEOREM OwnBytes == Spec => []OwnBytesOnly
<1>1. ReceiverInv => OwnBytesOnly
  <2> SUFFICES ASSUME ReceiverInv, pc = "check", Accepted,
                      NEW i \in 0 .. HeaderSize + header.count * FloatSize - 1
               PROVE  i \in Positions /\ writer[i] = received
    BY DEF OwnBytesOnly
  <2>1. header.count \in Counts
    BY DEF ReceiverInv, TypeOK, Headers
  <2>2. /\ header.count \in Nat
        /\ RequiredBytes(header.count) = HeaderSize + header.count * FloatSize
    BY <2>1, NoWrap
  <2>3. len >= HeaderSize + header.count * FloatSize
    BY <2>2 DEF Accepted
  <2>4. len \in 0 .. BufferSize
    BY DEF ReceiverInv, TypeOK
  <2>5. i \in Nat /\ i < len /\ i \in Positions
    BY <2>2, <2>3, <2>4, BufferAssumption DEF HeaderSize, FloatSize, Positions
  <2> QED
    BY <2>5 DEF ReceiverInv, Fits
<1> QED
  BY <1>1, Invariance, PTL

(* A datagram that carries all the features it declares, no more of them than    *)
(* the documents allow, and fits the buffer is never discarded.                 *)
THEOREM WholeAccepted == Spec => WholeDatagramsAccepted
<1> DEFINE whole == HeaderSize + header.count * FloatSize
           framed == header.magic = "SLAB" /\ header.count \in 1 .. MaxDimensions
<1>1. ASSUME ReceiverInv, Discard, framed
      PROVE  sent < whole \/ BufferSize < whole
  <2>1. header.count \in Counts
    BY <1>1 DEF ReceiverInv, TypeOK, Headers
  <2>2. header.count \in Nat /\ RequiredBytes(header.count) = whole
    BY <2>1, NoWrap
  <2>3. whole \in Nat /\ whole >= HeaderSize
    BY <2>2 DEF HeaderSize, FloatSize
  <2>4. sent \in Nat /\ BufferSize \in Nat /\ len = Smaller(sent, BufferSize)
    BY <1>1, SizesAssumption, BufferAssumption DEF ReceiverInv, TypeOK, Fits
  <2>5. len < whole
    <3>1. len < HeaderSize \/ len < RequiredBytes(header.count)
      BY <1>1, <2>2, <2>3, <2>4 DEF Discard, Accepted, Smaller, HeaderSize
    <3> QED
      BY <3>1, <2>2, <2>3, <2>4 DEF Smaller, HeaderSize
  <2> QED
    BY <2>4, <2>5, <2>3 DEF Smaller
<1>2. ReceiverInv /\ [Next]_vars =>
          [Discard /\ framed => sent < whole \/ BufferSize < whole]_vars
  BY <1>1
<1> QED
  BY <1>2, Invariance, PTL DEF Spec, WholeDatagramsAccepted
=============================================================================
