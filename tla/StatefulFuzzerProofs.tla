------------------------ MODULE StatefulFuzzerProofs ------------------------
(* The session generator for every width of the number and every configured     *)
(* number of polls.                                                             *)
EXTENDS StatefulFuzzer, Integers, TLAPS

Modulus == 2 ^ SeqBits
Sized == Cycles \subseteq Nat /\ Modulus \in Nat \ {0}

TypeOK == /\ cycles \in Cycles
          /\ currentState \in {"UNCONNECTED", "COTP_ESTABLISHED", "S7_SESSION_READY",
                               "BENIGN_POLLING", "STEALTH_INJECTION"}
          /\ seqNum \in Nat
          /\ pollingCount \in Nat

(* The frames so far are the beginning of the script. *)
OnScript(n) == /\ n \in 0 .. Polls + 3
               /\ session = [i \in 1 .. n |-> Script[i]]
               /\ Len(session) = n

(* The number s is what n frames bring the counter to. *)
Counted(n, s) == s \in 0 .. Modulus - 1 /\ \E q \in Nat : n = q * Modulus + s

(* How far the session is, in each state, and what the two counters say of it.    *)
Place ==
    /\ currentState = "UNCONNECTED" =>
          (session = <<>> \/ session = Script) /\ Counted(0, seqNum) /\ pollingCount = 0
    /\ currentState = "COTP_ESTABLISHED" =>
          OnScript(1) /\ Counted(1, seqNum) /\ pollingCount = 0
    /\ currentState = "S7_SESSION_READY" =>
          OnScript(2) /\ Counted(2, seqNum) /\ pollingCount = 0
    /\ currentState = "BENIGN_POLLING" =>
          /\ OnScript(pollingCount + 2) /\ Counted(pollingCount + 2, seqNum)
          /\ pollingCount < Polls
    /\ currentState = "STEALTH_INJECTION" =>
          /\ OnScript(pollingCount + 2) /\ Counted(pollingCount + 2, seqNum)
          /\ pollingCount = Polls

FuzzerInv == TypeOK /\ Place

LEMMA Remainder == ASSUME NEW M \in Nat \ {0}, NEW q \in Nat, NEW s \in 0 .. M - 1
                   PROVE  /\ (q * M + s) % M = s
                          /\ (s + 1) % M \in 0 .. M - 1
                          /\ \E p \in Nat : q * M + s + 1 = p * M + ((s + 1) % M)
<1>1. (q * M + s) % M = s
  BY SMTT(30)
<1>2. CASE s + 1 < M
  <2>1. (s + 1) % M = s + 1 /\ s + 1 \in 0 .. M - 1
    BY <1>2
  <2>2. \E p \in Nat : q * M + s + 1 = p * M + (s + 1)
    OBVIOUS
  <2> QED
    BY <1>1, <2>1, <2>2
<1>3. CASE s + 1 = M
  <2>1. (s + 1) % M = 0 /\ 0 \in 0 .. M - 1
    BY <1>3
  <2>2. q * M + s + 1 = (q + 1) * M + 0 /\ q + 1 \in Nat
    BY <1>3
  <2>3. \E p \in Nat : q * M + s + 1 = p * M + 0
    BY <2>2
  <2> QED
    BY <1>1, <2>1, <2>3
<1> QED
  BY <1>2, <1>3

(* Incrementing a number that wraps keeps it the remainder of the count.          *)
LEMMA CountOn == ASSUME Sized, NEW n \in Nat, NEW s, Counted(n, s)
                 PROVE  n % Modulus = s /\ Counted(n + 1, (s + 1) % Modulus)
<1>1. PICK q \in Nat : n = q * Modulus + s
  BY DEF Counted
<1>2. Modulus \in Nat \ {0} /\ s \in 0 .. Modulus - 1
  BY DEF Counted, Sized
<1>3. /\ (q * Modulus + s) % Modulus = s
      /\ (s + 1) % Modulus \in 0 .. Modulus - 1
      /\ \E p \in Nat : q * Modulus + s + 1 = p * Modulus + ((s + 1) % Modulus)
  BY <1>2, Remainder
<1> QED
  BY <1>1, <1>3 DEF Counted

(* A frame that the script has next prolongs the session on the script.          *)
LEMMA Longer == ASSUME Sized, TypeOK, NEW n \in Nat, OnScript(n), n < Polls + 3,
                       session' = Append(session, Script[n + 1]), UNCHANGED cycles
                PROVE  OnScript(n + 1)'
<1>1. Polls \in Nat /\ Polls' = Polls /\ Script' = Script
  BY DEF Sized, TypeOK, Polls, Script
<1>2. session = [i \in 1 .. n |-> Script[i]]
  BY DEF OnScript
<1> DEFINE S == Script
<1> HIDE DEF S
<1>3. session' = [i \in 1 .. n + 1 |-> S[i]] /\ Len(session') = n + 1
  <2>1. session = [i \in 1 .. n |-> S[i]] /\ session' = Append(session, S[n + 1])
    BY <1>2 DEF S
  <2> QED
    BY <2>1
<1> QED
  BY <1>1, <1>3 DEF OnScript, S

(* What the script has at each place. *)
LEMMA Scripted == ASSUME Sized, TypeOK, NEW n \in 1 .. Polls + 3
                  PROVE  /\ Polls \in Nat \ {0}
                         /\ Script[n].number = n % Modulus
                         /\ Script[n] = [state |-> Script[n].state, number |-> Script[n].number]
                         /\ n = 1 => Script[n].state = "UNCONNECTED"
                         /\ n = 2 => Script[n].state = "COTP_ESTABLISHED"
                         /\ n \in 3 .. Polls + 2 => Script[n].state = "BENIGN_POLLING"
                         /\ n = Polls + 3 => Script[n].state = "STEALTH_INJECTION"
<1>1. Polls \in Nat \ {0}
  BY DEF Sized, TypeOK, Polls
<1> QED
  BY <1>1 DEF Script, Modulus

LEMMA InitInv == Sized /\ Init => FuzzerInv
BY SMTT(30) DEF Sized, Init, FuzzerInv, TypeOK, Place, Counted

(* The frame that the generator builds after n frames is the script's next, when *)
(* it carries the state the script has there.                                    *)
LEMMA NextFrame == ASSUME Sized, TypeOK, NEW n \in 0 .. Polls + 2, Counted(n, seqNum),
                          NEW state, state = Script[n + 1].state
                   PROVE  /\ Frame(state) = Script[n + 1]
                          /\ Counted(n + 1, NextNumber)
                          /\ NextNumber \in Nat
<1>1. Polls \in Nat \ {0}
  BY DEF Sized, TypeOK, Polls
<1>2. n + 1 \in 1 .. Polls + 3 /\ n \in Nat
  BY <1>1
<1>3. Counted(n + 1, NextNumber)
  BY <1>2, CountOn DEF NextNumber, Modulus
<1>4. NextNumber = (n + 1) % Modulus
  BY <1>2, <1>3, CountOn
<1>5. Script[n + 1].number = (n + 1) % Modulus
      /\ Script[n + 1] = [state |-> Script[n + 1].state, number |-> Script[n + 1].number]
  BY <1>2, Scripted
<1>6. NextNumber \in Nat
  BY <1>3 DEF Counted, Sized
<1> QED
  BY <1>3, <1>4, <1>5, <1>6 DEF Frame

LEMMA ConnectInv == Sized /\ FuzzerInv /\ Connect => FuzzerInv'
<1> SUFFICES ASSUME Sized, FuzzerInv, Connect PROVE FuzzerInv'
  OBVIOUS
<1>1. TypeOK /\ Counted(0, seqNum) /\ pollingCount = 0 /\ Polls \in Nat \ {0}
  BY DEF FuzzerInv, Place, Connect, TypeOK, Polls, Sized
<1>2. Script[1].state = "UNCONNECTED" /\ 0 \in 0 .. Polls + 2
  <2>1. 1 \in 1 .. Polls + 3 /\ 0 \in 0 .. Polls + 2
    BY <1>1
  <2> QED
    BY <1>1, <2>1, Scripted
<1>3. Frame("UNCONNECTED") = Script[0 + 1] /\ Counted(0 + 1, NextNumber) /\ NextNumber \in Nat
  BY <1>1, <1>2, NextFrame
<1>4. OnScript(1)'
  <2>1. Script' = Script /\ Polls' = Polls
    BY DEF Connect, Script, Polls
  <2>2. <<Script[1]>> = [i \in 1 .. 1 |-> Script[i]]
    OBVIOUS
  <2> QED
    BY <1>1, <1>3, <2>1, <2>2 DEF OnScript, Connect
<1>5. Counted(1, seqNum)'
  BY <1>3 DEF Counted, Modulus, Connect
<1> QED
  BY <1>1, <1>3, <1>4, <1>5 DEF FuzzerInv, TypeOK, Place, Connect

LEMMA SetUpInv == Sized /\ FuzzerInv /\ SetUp => FuzzerInv'
<1> SUFFICES ASSUME Sized, FuzzerInv, SetUp PROVE FuzzerInv'
  OBVIOUS
<1>1. /\ TypeOK /\ OnScript(1) /\ Counted(1, seqNum) /\ pollingCount = 0
      /\ Polls \in Nat \ {0}
  BY DEF FuzzerInv, Place, SetUp, TypeOK, Polls, Sized
<1>2. Script[2].state = "COTP_ESTABLISHED" /\ 1 \in 0 .. Polls + 2
  <2>1. 2 \in 1 .. Polls + 3 /\ 1 \in 0 .. Polls + 2
    BY <1>1
  <2> QED
    BY <1>1, <2>1, Scripted
<1>3. /\ Frame("COTP_ESTABLISHED") = Script[1 + 1] /\ Counted(1 + 1, NextNumber)
      /\ NextNumber \in Nat
  BY <1>1, <1>2, NextFrame
<1>4. OnScript(1 + 1)'
  BY <1>1, <1>3, Longer DEF SetUp
<1>5. Counted(2, seqNum)'
  BY <1>3 DEF Counted, Modulus, SetUp
<1>6. OnScript(2)'
  BY <1>4
<1> QED
  BY <1>1, <1>3, <1>5, <1>6 DEF FuzzerInv, TypeOK, Place, SetUp

LEMMA PollInv == Sized /\ FuzzerInv /\ Poll => FuzzerInv'
<1> SUFFICES ASSUME Sized, FuzzerInv, Poll PROVE FuzzerInv'
  OBVIOUS
<1>1. Polls \in Nat \ {0} /\ TypeOK
  BY DEF FuzzerInv, TypeOK, Polls, Sized
<1>2. /\ OnScript(pollingCount + 2) /\ Counted(pollingCount + 2, seqNum)
      /\ pollingCount < Polls /\ pollingCount \in Nat
  BY <1>1 DEF FuzzerInv, Place, Poll, TypeOK
<1>0. PICK n \in Nat : n = pollingCount + 2
  BY <1>2
<1>3. n \in 0 .. Polls + 2 /\ n + 1 \in 3 .. Polls + 2 /\ n + 1 \in 1 .. Polls + 3
  BY <1>0, <1>1, <1>2
<1>4. Script[n + 1].state = "BENIGN_POLLING"
  BY <1>1, <1>3, Scripted
<1>5. Frame("BENIGN_POLLING") = Script[n + 1] /\ Counted(n + 1, NextNumber) /\ NextNumber \in Nat
  BY <1>0, <1>1, <1>2, <1>3, <1>4, NextFrame
<1>6. OnScript(n + 1)'
  <2>1. n < Polls + 3 /\ OnScript(n)
    BY <1>0, <1>1, <1>2
  <2>2. session' = Append(session, Script[n + 1]) /\ UNCHANGED cycles
    BY <1>5 DEF Poll
  <2> QED
    BY <1>1, <2>1, <2>2, Longer
<1>7. n + 1 = pollingCount' + 2 /\ pollingCount' \in Nat
  BY <1>0, <1>2 DEF Poll
<1>8. OnScript(pollingCount + 2)' /\ Counted(pollingCount + 2, seqNum)'
  BY <1>5, <1>6, <1>7 DEF OnScript, Counted, Modulus, Poll
<1>9. Polls' = Polls
  BY DEF Polls, Poll
<1>10. CASE pollingCount' >= cycles
  <2>1. pollingCount' = Polls
    BY <1>1, <1>2, <1>10 DEF Polls, Poll, TypeOK, Sized
  <2> QED
    BY <1>1, <1>5, <1>7, <1>8, <1>9, <1>10, <2>1 DEF FuzzerInv, TypeOK, Place, Poll
<1>11. CASE ~ (pollingCount' >= cycles)
  <2>1. pollingCount' < Polls
    BY <1>1, <1>2, <1>11 DEF Polls, Poll, TypeOK, Sized
  <2> QED
    BY <1>1, <1>5, <1>7, <1>8, <1>9, <1>11, <2>1 DEF FuzzerInv, TypeOK, Place, Poll
<1> QED
  BY <1>10, <1>11

(* What the end of a session and a reset leave behind: nothing of the session.   *)
LEMMA Forgotten == ASSUME Sized, TypeOK, Forget, UNCHANGED cycles,
                          session' = <<>> \/ session' = Script
                   PROVE  FuzzerInv'
<1>1. Script' = Script
  BY DEF Script, Polls
<1>2. Counted(0, 0)'
  BY DEF Sized, Counted
<1> QED
  BY <1>1, <1>2 DEF FuzzerInv, TypeOK, Place, Forget

LEMMA InjectInv == Sized /\ FuzzerInv /\ Inject => FuzzerInv'
<1> SUFFICES ASSUME Sized, FuzzerInv, Inject PROVE FuzzerInv'
  OBVIOUS
<1>1. Polls \in Nat \ {0} /\ TypeOK
  BY DEF FuzzerInv, TypeOK, Polls, Sized
<1>2. OnScript(Polls + 2) /\ Counted(Polls + 2, seqNum)
  BY <1>1 DEF FuzzerInv, Place, Inject
<1>3. Polls + 2 \in 0 .. Polls + 2 /\ Polls + 3 \in 1 .. Polls + 3 /\ (Polls + 2) + 1 = Polls + 3
  BY <1>1
<1>4. Script[Polls + 3].state = "STEALTH_INJECTION"
  BY <1>1, <1>3, Scripted
<1>5. Frame("STEALTH_INJECTION") = Script[(Polls + 2) + 1]
  BY <1>1, <1>2, <1>3, <1>4, NextFrame
<1>6. OnScript((Polls + 2) + 1)'
  <2>1. UNCHANGED cycles /\ session' = Append(session, Script[(Polls + 2) + 1])
    BY <1>5 DEF Inject
  <2>2. Polls + 2 < Polls + 3 /\ Polls + 2 \in Nat
    BY <1>1
  <2>3. ASSUME NEW n \in Nat, n = Polls + 2 PROVE OnScript(n + 1)'
    BY <1>1, <1>2, <2>1, <2>2, <2>3, Longer
  <2>4. Polls' = Polls
    BY DEF Polls, Inject
  <2> QED
    BY <2>2, <2>3, <2>4 DEF OnScript
<1>7. session' = Script
  <2>1. Polls' = Polls /\ Script' = Script
    BY DEF Inject, Polls, Script
  <2>2. session' = [i \in 1 .. Polls + 3 |-> Script[i]]
    BY <1>3, <1>6, <2>1 DEF OnScript
  <2> QED
    BY <2>2 DEF Script
<1> QED
  BY <1>1, <1>7, Forgotten DEF Inject

LEMMA ResetInv == Sized /\ FuzzerInv /\ ResetSession => FuzzerInv'
BY Forgotten DEF FuzzerInv, ResetSession

LEMMA NextInv == Sized /\ FuzzerInv /\ [Next]_vars => FuzzerInv'
<1> SUFFICES ASSUME Sized, FuzzerInv, [Next]_vars PROVE FuzzerInv'
  OBVIOUS
<1>1. CASE UNCHANGED vars
  <2>1. /\ Polls' = Polls /\ Script' = Script /\ session' = session /\ seqNum' = seqNum
        /\ pollingCount' = pollingCount /\ currentState' = currentState /\ cycles' = cycles
    BY <1>1 DEF vars, Polls, Script
  <2>2. \A n : OnScript(n)' <=> OnScript(n)
    BY <2>1 DEF OnScript
  <2>3. \A n, s : Counted(n, s)' <=> Counted(n, s)
    BY DEF Counted, Modulus
  <2> QED
    BY <2>1, <2>2, <2>3 DEF FuzzerInv, TypeOK, Place, OnScript, Counted, Modulus
<1> QED
  BY <1>1, ConnectInv, SetUpInv, PollInv, InjectInv, ResetInv
     DEF Next, GenerateNextSessionFrame

LEMMA InvGoal == Sized /\ FuzzerInv => SessionFollowsScript
<1> SUFFICES ASSUME Sized, FuzzerInv PROVE SessionFollowsScript
  OBVIOUS
<1>1. Polls \in Nat \ {0} /\ TypeOK
  BY DEF FuzzerInv, TypeOK, Polls, Sized
<1>2. Len(Script) = Polls + 3 /\ Len(<<>>) = 0
  BY <1>1 DEF Script
<1>3. ASSUME NEW n, OnScript(n) PROVE Len(session) <= Len(Script)
                                      /\ \A i \in 1 .. Len(session) : session[i] = Script[i]
  <2>1. n \in 0 .. Polls + 3 /\ Len(session) = n
    BY <1>3 DEF OnScript
  <2>2. ASSUME NEW i \in 1 .. n PROVE session[i] = Script[i]
    BY <1>3, <2>2 DEF OnScript
  <2> QED
    BY <1>1, <1>2, <2>1, <2>2
<1>4. CASE currentState = "UNCONNECTED"
  <2>1. session = <<>> \/ session = Script
    BY <1>4 DEF FuzzerInv, Place
  <2> QED
    BY <1>1, <1>2, <1>4, <2>1 DEF SessionFollowsScript
<1>5. CASE currentState # "UNCONNECTED"
  <2>1. \E n : OnScript(n)
    BY <1>1, <1>5 DEF FuzzerInv, Place, TypeOK
  <2> QED
    BY <1>3, <1>5, <2>1 DEF SessionFollowsScript
<1> QED
  BY <1>4, <1>5

(* However many sessions the generator plays and wherever the caller resets it,  *)
(* every session is the script, for every width of the number (it may wrap in    *)
(* the middle of a session) and every configured number of polls.                *)
THEOREM FollowsScript == ASSUME Sized PROVE Spec => []SessionFollowsScript
<1>1. Init => FuzzerInv
  BY InitInv
<1>2. FuzzerInv /\ [Next]_vars => FuzzerInv'
  BY NextInv
<1>3. FuzzerInv => SessionFollowsScript
  BY InvGoal
<1> QED
  BY <1>1, <1>2, <1>3, PTL DEF Spec
=============================================================================
