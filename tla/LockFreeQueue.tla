--------------------------- MODULE LockFreeQueue ---------------------------
(***************************************************************************)
(* The event queue between the ingest receiver and the inference worker     *)
(* (include/sentinel_lab/ring_buffer.hpp): a ring of Capacity slots with    *)
(* one atomic index for each end and no lock.                               *)
(*                                                                         *)
(* Every load and store of an atomic index is a step of its own, and so is  *)
(* the copy of an event into or out of a slot, so the steps of the threads  *)
(* interleave as they do in the program.  A thread whose program counter is *)
(* "write" or "read" is in the middle of that copy, which is neither atomic *)
(* nor guarded: two threads in the middle of a copy of the same slot are a  *)
(* data race.                                                              *)
(***************************************************************************)
EXTENDS Naturals, Sequences

CONSTANTS Capacity,    \* capacity_: slots of the ring
          Events,      \* the values a BenchmarkEvent takes
          Producers,   \* threads that call push
          Consumers,   \* threads that call pop
          True, False, \* what push returns
          Nullopt      \* the std::nullopt of pop, and a slot never written

ASSUME CapacityAssumption == Capacity \in Nat \ {0}
ASSUME ThreadAssumption == Producers \cap Consumers = {}
ASSUME NulloptAssumption == Nullopt \notin Events

VARIABLES buffer,      \* buffer_
          head, tail,  \* head_ and tail_
          pc,          \* the step each thread is about to take
          at,          \* current_tail or current_head of the call under way
          event,       \* the event being pushed, or the one just copied out
          answer,      \* what the last push or pop of each thread returned
          count        \* what the last size() of each thread returned

vars == <<buffer, head, tail, pc, at, event, answer, count>>

Threads == Producers \cup Consumers
Slots == 0 .. Capacity - 1
PushSteps == {"idle", "full", "write", "publish", "size"}
PopSteps == {"idle", "empty", "read", "release", "size"}

(* Wrong on purpose, as are the definitions named ...Wrong below: no wrap-around. *)
FollowingWrong(i) == i + 1

Following(i) == (i + 1) % Capacity

(* The number of unread events between a head and a tail index: the expression *)
(* size() returns.                                                             *)
Distance(h, t) == IF t >= h THEN t - h ELSE Capacity - h + t

Init == /\ buffer = [i \in Slots |-> Nullopt]
        /\ head = 0
        /\ tail = 0
        /\ pc = [t \in Threads |-> "idle"]
        /\ at = [t \in Threads |-> 0]
        /\ event = [t \in Threads |-> Nullopt]
        /\ answer = [t \in Threads |-> Nullopt]
        /\ count = [t \in Threads |-> 0]
-----------------------------------------------------------------------------
(* push(event) *)
PushLoadTail(p, e) ==
    /\ pc[p] = "idle"
    /\ at' = [at EXCEPT ![p] = tail]
    /\ event' = [event EXCEPT ![p] = e]
    /\ pc' = [pc EXCEPT ![p] = "full"]
    /\ UNCHANGED <<buffer, head, tail, answer, count>>

PushFull(p) ==
    /\ pc[p] = "full"
    /\ Following(at[p]) = head
    /\ answer' = [answer EXCEPT ![p] = False]
    /\ pc' = [pc EXCEPT ![p] = "idle"]
    /\ UNCHANGED <<buffer, head, tail, at, event, count>>

(* without the test for a full queue *)
PushHasRoomWrong(p) ==
    /\ pc[p] = "full"
    /\ pc' = [pc EXCEPT ![p] = "write"]
    /\ UNCHANGED <<buffer, head, tail, at, event, answer, count>>

(* publishes before it has written *)
PushHasRoomWrongOrder(p) ==
    /\ pc[p] = "full"
    /\ Following(at[p]) # head
    /\ pc' = [pc EXCEPT ![p] = "publish"]
    /\ UNCHANGED <<buffer, head, tail, at, event, answer, count>>

PushHasRoom(p) ==
    /\ pc[p] = "full"
    /\ Following(at[p]) # head
    /\ pc' = [pc EXCEPT ![p] = "write"]
    /\ UNCHANGED <<buffer, head, tail, at, event, answer, count>>

(* one slot too low *)
PushWriteWrong(p) ==
    /\ pc[p] = "write"
    /\ buffer' = [buffer EXCEPT ![(at[p] + Capacity - 1) % Capacity] = event[p]]
    /\ pc' = [pc EXCEPT ![p] = "publish"]
    /\ UNCHANGED <<head, tail, at, event, answer, count>>

PushWrite(p) ==
    /\ pc[p] = "write"
    /\ buffer' = [buffer EXCEPT ![at[p]] = event[p]]
    /\ pc' = [pc EXCEPT ![p] = "publish"]
    /\ UNCHANGED <<head, tail, at, event, answer, count>>

PushStoreTail(p) ==
    /\ pc[p] = "publish"
    /\ tail' = Following(at[p])
    /\ answer' = [answer EXCEPT ![p] = True]
    /\ pc' = [pc EXCEPT ![p] = "idle"]
    /\ UNCHANGED <<buffer, head, at, event, count>>
-----------------------------------------------------------------------------
(* pop() *)
PopLoadHead(c) ==
    /\ pc[c] = "idle"
    /\ at' = [at EXCEPT ![c] = head]
    /\ pc' = [pc EXCEPT ![c] = "empty"]
    /\ UNCHANGED <<buffer, head, tail, event, answer, count>>

PopEmpty(c) ==
    /\ pc[c] = "empty"
    /\ at[c] = tail
    /\ answer' = [answer EXCEPT ![c] = Nullopt]
    /\ pc' = [pc EXCEPT ![c] = "idle"]
    /\ UNCHANGED <<buffer, head, tail, at, event, count>>

(* without the test for an empty queue *)
PopHasEventWrong(c) ==
    /\ pc[c] = "empty"
    /\ pc' = [pc EXCEPT ![c] = "read"]
    /\ UNCHANGED <<buffer, head, tail, at, event, answer, count>>

PopHasEvent(c) ==
    /\ pc[c] = "empty"
    /\ at[c] # tail
    /\ pc' = [pc EXCEPT ![c] = "read"]
    /\ UNCHANGED <<buffer, head, tail, at, event, answer, count>>

PopRead(c) ==
    /\ pc[c] = "read"
    /\ event' = [event EXCEPT ![c] = buffer[at[c]]]
    /\ pc' = [pc EXCEPT ![c] = "release"]
    /\ UNCHANGED <<buffer, head, tail, at, answer, count>>

PopStoreHead(c) ==
    /\ pc[c] = "release"
    /\ head' = Following(at[c])
    /\ answer' = [answer EXCEPT ![c] = event[c]]
    /\ pc' = [pc EXCEPT ![c] = "idle"]
    /\ UNCHANGED <<buffer, tail, at, event, count>>
-----------------------------------------------------------------------------
(* size(), called by a thread that also pushes or pops.  head_ is loaded first; *)
(* the other thread may run before tail_ is.                                    *)
SizeLoadHead(t) ==
    /\ pc[t] = "idle"
    /\ at' = [at EXCEPT ![t] = head]
    /\ pc' = [pc EXCEPT ![t] = "size"]
    /\ UNCHANGED <<buffer, head, tail, event, answer, count>>

(* the case of a tail that has wrapped around is forgotten *)
SizeLoadTailWrong(t) ==
    /\ pc[t] = "size"
    /\ count' = [count EXCEPT ![t] = IF tail >= at[t] THEN tail - at[t] ELSE 0]
    /\ pc' = [pc EXCEPT ![t] = "idle"]
    /\ UNCHANGED <<buffer, head, tail, at, event, answer>>

SizeLoadTail(t) ==
    /\ pc[t] = "size"
    /\ count' = [count EXCEPT ![t] = Distance(at[t], tail)]
    /\ pc' = [pc EXCEPT ![t] = "idle"]
    /\ UNCHANGED <<buffer, head, tail, at, event, answer>>
-----------------------------------------------------------------------------
Push(p) == \/ \E e \in Events : PushLoadTail(p, e)
           \/ PushFull(p)
           \/ PushHasRoom(p)
           \/ PushWrite(p)
           \/ PushStoreTail(p)

Pop(c) == \/ PopLoadHead(c)
          \/ PopEmpty(c)
          \/ PopHasEvent(c)
          \/ PopRead(c)
          \/ PopStoreHead(c)

Size(t) == SizeLoadHead(t) \/ SizeLoadTail(t)

Next == \/ \E p \in Producers : Push(p)
        \/ \E c \in Consumers : Pop(c)
        \/ \E t \in Threads : Size(t)

Spec == Init /\ [][Next]_vars
-----------------------------------------------------------------------------
Occupancy == Distance(head, tail)

(* The slot k places after i, and what the ring holds between its two indices. *)
Offset(i, k) == IF i + k < Capacity THEN i + k ELSE i + k - Capacity
Unread == [k \in 1 .. Occupancy |-> buffer[Offset(head, k - 1)]]

TypeOK == /\ buffer \in [Slots -> Events \cup {Nullopt}]
          /\ head \in Slots
          /\ tail \in Slots
          /\ pc \in [Threads -> PushSteps \cup PopSteps]
          /\ \A p \in Producers : pc[p] \in PushSteps
          /\ \A c \in Consumers : pc[c] \in PopSteps
          /\ at \in [Threads -> Slots]
          /\ event \in [Threads -> Events \cup {Nullopt}]
          /\ answer \in [Threads -> Events \cup {True, False, Nullopt}]
          /\ count \in [Threads -> Slots]

(* How main.cpp uses the queue: the listener pushes and the worker pops. *)
SingleEnds == /\ \A p, q \in Producers : p = q
              /\ \A c, d \in Consumers : c = d

(* A thread tests an index once and acts on the answer several steps later.  Its *)
(* own index has not moved since, and what the test found still holds: there is  *)
(* room for the event of a push, an event for a pop, and the slot in hand has    *)
(* the content the call is about.  With a second producer none of this is true.  *)
TestsStayTrue ==
    /\ \A p \in Producers :
          /\ pc[p] \in {"full", "write", "publish"} =>
                at[p] = tail /\ event[p] \in Events
          /\ pc[p] \in {"write", "publish"} => Following(tail) # head
          /\ pc[p] = "publish" => buffer[tail] = event[p]
          /\ pc[p] = "size" => Distance(at[p], tail) >= Occupancy
    /\ \A c \in Consumers :
          /\ pc[c] \in {"empty", "read", "release", "size"} => at[c] = head
          /\ pc[c] \in {"read", "release"} => head # tail
          /\ pc[c] = "release" => event[c] = buffer[head]

(* No data race: while one thread copies an event into a slot, no other thread  *)
(* copies into or out of that slot.  The only thing that keeps them apart is    *)
(* the full test of push and the empty test of pop, each made on an index that  *)
(* may be stale by the time the copy is made.                                   *)
NoDataRace ==
    \A p \in Producers, t \in Threads :
        p # t /\ pc[p] = "write" /\ pc[t] \in {"write", "read"} => at[p] # at[t]

(* An unread event is never overwritten: between the instant push publishes an  *)
(* event and the instant pop releases its slot, the slot keeps its content.     *)
UnreadIsKept ==
    [][\A k \in 1 .. Occupancy :
          LET i == Offset(head, k - 1) IN buffer'[i] = buffer[i]]_vars

(* size() errs on the safe side for either end: while the consumer has popped   *)
(* nothing since, at least that many events are there for it, and while the     *)
(* producer has pushed nothing since, at least Capacity - 1 - size() pushes     *)
(* will be accepted, whatever the other thread did between the two loads.       *)
SizeIsSafe ==
    [][\A t \in Threads : SizeLoadTail(t) =>
          /\ t \in Consumers => count'[t] <= Occupancy
          /\ t \in Producers => count'[t] >= Occupancy]_vars

(* The ring implements the bounded queue of BoundedFifo: every call takes       *)
(* effect in one instant, Capacity - 1 events fit, push fails only on a full    *)
(* queue, pop returns the oldest event and nullopt only from an empty queue.    *)
Fifo == INSTANCE BoundedFifo WITH items <- Unread, Bound <- Capacity - 1
ImplementsFifo == Fifo!Spec
=============================================================================
