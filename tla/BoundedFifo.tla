---------------------------- MODULE BoundedFifo ----------------------------
(***************************************************************************)
(* What a user of the event queue may rely on: a bounded first-in first-out *)
(* buffer whose operations take effect at one instant.  A push is refused   *)
(* only when the buffer is full, a pop comes back empty-handed only when    *)
(* the buffer is empty, and whatever a pop returns is the oldest element.   *)
(***************************************************************************)
EXTENDS Naturals, Sequences

CONSTANTS Bound,       \* elements the buffer can hold
          Events,      \* the elements
          Producers,   \* threads that push
          Consumers,   \* threads that pop
          True, False, \* the two answers of a push
          Nullopt      \* a pop that found nothing

VARIABLES items,       \* the buffer, oldest element first
          answer       \* what the last call of each thread returned

vars == <<items, answer>>

Init == /\ items = <<>>
        /\ answer = [t \in Producers \cup Consumers |-> Nullopt]

Push(p, e) == /\ Len(items) < Bound
              /\ items' = Append(items, e)
              /\ answer' = [answer EXCEPT ![p] = True]

Refuse(p) == /\ Len(items) = Bound
             /\ answer' = [answer EXCEPT ![p] = False]
             /\ UNCHANGED items

Pop(c) == /\ items # <<>>
          /\ items' = Tail(items)
          /\ answer' = [answer EXCEPT ![c] = Head(items)]

ComeBackEmpty(c) == /\ items = <<>>
                    /\ answer' = [answer EXCEPT ![c] = Nullopt]
                    /\ UNCHANGED items

Next == \/ \E p \in Producers : Refuse(p) \/ \E e \in Events : Push(p, e)
        \/ \E c \in Consumers : Pop(c) \/ ComeBackEmpty(c)

Spec == Init /\ [][Next]_vars
=============================================================================
