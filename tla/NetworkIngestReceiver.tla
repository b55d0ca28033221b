----------------------- MODULE NetworkIngestReceiver -----------------------
(***************************************************************************)
(* The datagram path of the ingest listener (src/network_ingest.cpp): one   *)
(* stack buffer is reused for every datagram, a header of 20 bytes declares  *)
(* how many floats follow, and the floats are copied out of the buffer.     *)
(*                                                                         *)
(* The bytes themselves do not matter; who wrote them does.  writer[i] is    *)
(* the number of the datagram that last wrote byte i of the buffer, 0 for    *)
(* never, so a read of stale or foreign bytes can be told from a good one.  *)
(***************************************************************************)
EXTENDS Naturals, Sequences

CONSTANTS BufferSize,    \* sizeof(buffer)
          CountBits,     \* width of the uint32_t feature count
          SizeBits,      \* width of size_t, in which 20 + n * 4 is computed
          Sizes,         \* datagram sizes that arrive
          Counts,        \* feature counts that datagrams declare
          Labels,        \* ground-truth labels that datagrams carry
          MaxDimensions, \* the most features a frame has by the documents
          MaxDatagrams   \* bound: datagrams received

ASSUME BufferAssumption == BufferSize \in Nat /\ BufferSize >= 20
ASSUME WidthAssumption == /\ 2 ^ CountBits \in Nat /\ 2 ^ SizeBits \in Nat
                          /\ Counts \subseteq 0 .. 2 ^ CountBits - 1
                          /\ 20 + 4 * (2 ^ CountBits - 1) < 2 ^ SizeBits
ASSUME SizesAssumption == Sizes \subseteq Nat
ASSUME InputsAssumption == Counts # {} /\ Labels # {}
ASSUME DimensionsAssumption == MaxDimensions \in Nat \ {0}
ASSUME BoundAssumption == MaxDatagrams \in Nat

HeaderSize == 20
FloatSize == 4
Magics == {"SLAB", "other"}
Positions == 0 .. BufferSize - 1

VARIABLES received,   \* datagrams received so far
          sent,       \* size of the last datagram on the wire
          len,        \* what recvfrom returned for it
          header,     \* the header in the buffer
          writer,     \* which datagram wrote each byte of the buffer
          pc,         \* "recv": in recvfrom, "check": the buffer is examined
          pushed      \* events handed to queue_.push, oldest first

vars == <<received, sent, len, header, writer, pc, pushed>>

Headers == [magic : Magics, count : Counts, label : Labels]
NoHeader == CHOOSE h \in Headers : TRUE

Init == /\ received = 0
        /\ sent = 0
        /\ len = 0
        /\ header = NoHeader
        /\ writer = [i \in Positions |-> 0]
        /\ pc = "recv"
        /\ pushed = <<>>
-----------------------------------------------------------------------------
Smaller(a, b) == IF a < b THEN a ELSE b

(* recvfrom: a datagram longer than the buffer is cut off, a shorter one leaves *)
(* the rest of the buffer as it was.                                            *)
Receive(size, h) ==
    /\ pc = "recv"
    /\ received < MaxDatagrams
    /\ received' = received + 1
    /\ sent' = size
    /\ len' = Smaller(size, BufferSize)
    /\ header' = h
    /\ writer' = [i \in Positions |-> IF i < len' THEN received' ELSE writer[i]]
    /\ pc' = "check"
    /\ UNCHANGED pushed

(* Wrong on purpose, as is RequiredBytesWrongBound below: computed in the width   *)
(* of the count.                                                                *)
RequiredBytesWrong(n) == (HeaderSize + n * FloatSize) % 2 ^ CountBits

(* one float too many *)
RequiredBytesWrongBound(n) == (HeaderSize + (n + 1) * FloatSize) % 2 ^ SizeBits

(* 20 + n * sizeof(float), computed in size_t *)
RequiredBytes(n) == (HeaderSize + n * FloatSize) % 2 ^ SizeBits

Accepted == /\ len >= HeaderSize
            /\ header.magic = "SLAB"
            /\ len >= RequiredBytes(header.count)

Discard == /\ pc = "check"
           /\ ~ Accepted
           /\ pc' = "recv"
           /\ UNCHANGED <<received, sent, len, header, writer, pushed>>

Deliver == /\ pc = "check"
           /\ Accepted
           /\ pushed' = Append(pushed, [datagram |-> received,
                                        label    |-> header.label,
                                        features |-> header.count])
           /\ pc' = "recv"
           /\ UNCHANGED <<received, sent, len, header, writer>>

Next == \/ \E size \in Sizes, h \in Headers : Receive(size, h)
        \/ Discard
        \/ Deliver

Spec == Init /\ [][Next]_vars
-----------------------------------------------------------------------------
TypeOK == /\ received \in 0 .. MaxDatagrams
          /\ sent \in Sizes \cup {0}
          /\ len \in 0 .. BufferSize
          /\ header \in Headers
          /\ writer \in [Positions -> 0 .. received]
          /\ pc \in {"recv", "check"}
          /\ pushed \in Seq([datagram : 1 .. received, label : Labels, features : Counts])

(* An event is made of bytes of its own datagram only: nothing is copied from   *)
(* beyond the buffer, and nothing left over from an earlier, longer datagram,   *)
(* whatever number of features the header declares.                             *)
OwnBytesOnly ==
    pc = "check" /\ Accepted =>
        \A i \in 0 .. HeaderSize + header.count * FloatSize - 1 :
            i \in Positions /\ writer[i] = received

(* A datagram that carries all the features it declares, of which there are as  *)
(* many as the documents allow, and that fits the buffer, is never discarded:    *)
(* what the streaming scripts send arrives in the queue.                        *)
WholeDatagramsAccepted ==
    [][Discard /\ header.magic = "SLAB" /\ header.count \in 1 .. MaxDimensions =>
          LET whole == HeaderSize + header.count * FloatSize
          IN  sent < whole \/ BufferSize < whole]_vars

(* docs/slab-protocol/protocol-validation-checks.md, checks 3 and 4, and with     *)
(* them check 1: a packet with more than 1024 dimensions, or shorter than a       *)
(* header of 24 bytes and its payload, is dropped.                              *)
DocumentedHeaderSize == 24

DocumentedChecks ==
    [][Deliver => /\ header.count <= MaxDimensions
                  /\ len >= DocumentedHeaderSize + header.count * FloatSize]_vars
=============================================================================
