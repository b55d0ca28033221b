--------------------------- MODULE StatefulFuzzer ---------------------------
(***************************************************************************)
(* The generator of SCADA sessions (src/stateful_fuzzer.cpp): connect, set   *)
(* up, poll, inject, and over again.  A frame is the state it stands for and *)
(* its number; the bytes of the payload and the delay follow from the state. *)
(***************************************************************************)
EXTENDS Naturals, Sequences

CONSTANTS SeqBits,   \* width of the uint16_t sequence number
          Cycles     \* values that benign_polling_cycles may have

VARIABLES cycles,         \* config_.benign_polling_cycles
          currentState,   \* current_state_
          seqNum,         \* seq_num_
          pollingCount,   \* polling_count_
          session         \* history: the frames since the last connect or reset

vars == <<cycles, currentState, seqNum, pollingCount, session>>

Init == /\ cycles \in Cycles
        /\ currentState = "UNCONNECTED"
        /\ seqNum = 0
        /\ pollingCount = 0
        /\ session = <<>>
-----------------------------------------------------------------------------
NextNumber == (seqNum + 1) % 2 ^ SeqBits
Frame(state) == [state |-> state, number |-> NextNumber]

Connect == /\ currentState = "UNCONNECTED"
           /\ currentState' = "COTP_ESTABLISHED"
           /\ seqNum' = NextNumber
           /\ session' = <<Frame("UNCONNECTED")>>
           /\ UNCHANGED <<cycles, pollingCount>>

SetUp == /\ currentState = "COTP_ESTABLISHED"
         /\ currentState' = "S7_SESSION_READY"
         /\ seqNum' = NextNumber
         /\ session' = Append(session, Frame("COTP_ESTABLISHED"))
         /\ UNCHANGED <<cycles, pollingCount>>

Poll == /\ currentState \in {"S7_SESSION_READY", "BENIGN_POLLING"}
        /\ pollingCount' = pollingCount + 1
        /\ currentState' = IF pollingCount' >= cycles THEN "STEALTH_INJECTION"
                           ELSE "BENIGN_POLLING"
        /\ seqNum' = NextNumber
        /\ session' = Append(session, Frame("BENIGN_POLLING"))
        /\ UNCHANGED cycles

(* Wrong on purpose: the polls of the session before are still counted. *)
ForgetWrong == currentState' = "UNCONNECTED" /\ seqNum' = 0 /\ UNCHANGED pollingCount

Forget == currentState' = "UNCONNECTED" /\ seqNum' = 0 /\ pollingCount' = 0

Inject == /\ currentState = "STEALTH_INJECTION"
          /\ session' = Append(session, Frame("STEALTH_INJECTION"))
          /\ Forget
          /\ UNCHANGED cycles

ResetSession == /\ Forget
                /\ session' = <<>>
                /\ UNCHANGED cycles

GenerateNextSessionFrame == Connect \/ SetUp \/ Poll \/ Inject

Next == GenerateNextSessionFrame \/ ResetSession

Spec == Init /\ [][Next]_vars
-----------------------------------------------------------------------------
Polls == IF cycles = 0 THEN 1 ELSE cycles

Script == [i \in 1 .. Polls + 3 |->
              [state  |-> IF i = 1 THEN "UNCONNECTED"
                          ELSE IF i = 2 THEN "COTP_ESTABLISHED"
                          ELSE IF i = Polls + 3 THEN "STEALTH_INJECTION"
                          ELSE "BENIGN_POLLING",
               number |-> i % 2 ^ SeqBits]]

(* Every session, the first as well as the tenth, and after a reset at any point, *)
(* plays the same script with the configured number of polls, numbered from 1;     *)
(* it is left only when the script is complete or the caller resets it.           *)
SessionFollowsScript ==
    /\ Len(session) <= Len(Script)
    /\ \A i \in 1 .. Len(session) : session[i] = Script[i]
    /\ currentState = "UNCONNECTED" => session \in {<<>>, Script}
=============================================================================
