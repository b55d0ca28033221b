------------------------- MODULE AttackConsoleProofs -------------------------
(* The console for any set of attacks and any number of threads.               *)
EXTENDS AttackConsole, TLAPS

TypeOK == /\ active \in [Attacks -> BOOLEAN]
          /\ worker \in [Attacks -> [Threads -> Phases]]
          /\ main \in {"menu", "start", "stop", "exited"}
          /\ key \in Attacks \cup {NoAttack}
          /\ left \subseteq Attacks
          /\ main = "start" => key \in Attacks

(* A flag that is set has a thread that goes on with it, or is about to get one,  *)
(* or is about to be cleared.                                                   *)
Sustained == \A k \in Attacks : active[k] => \/ \E t \in Threads : Goes(k, t)
                                             \/ main = "start" /\ key = k
                                             \/ main = "stop"

(* What stop_all has passed stays cleared until it is through, and once it is     *)
(* through on the way out there is nothing left to set a flag.                   *)
Cleared == /\ main = "stop" => \A k \in Attacks \ left : ~ active[k]
           /\ main = "exited" => \A k \in Attacks : ~ active[k]

ConsoleInv == TypeOK /\ Sustained /\ Cleared

LEMMA InitInv == Init => ConsoleInv
BY DEF Init, ConsoleInv, TypeOK, Sustained, Cleared, Phases

LEMMA ToggleInv == ASSUME ConsoleInv, NEW k \in Attacks, ToggleOff(k) \/ ToggleOn(k)
                   PROVE  ConsoleInv'
BY DEF ConsoleInv, TypeOK, Sustained, Cleared, ToggleOff, ToggleOn, mainVars, Goes

LEMMA StartInv == ConsoleInv /\ StartThread => ConsoleInv'
<1> SUFFICES ASSUME ConsoleInv, StartThread PROVE ConsoleInv'
  OBVIOUS
<1>1. PICK t \in Threads : worker' = [worker EXCEPT ![key][t] = "test"]
  BY DEF StartThread
<1>2. key \in Attacks /\ main' = "menu" /\ active' = active
  BY DEF ConsoleInv, TypeOK, StartThread
<1>3. TypeOK'
  BY <1>1, <1>2 DEF ConsoleInv, TypeOK, StartThread, Phases
<1>4. Sustained'
  <2> SUFFICES ASSUME NEW k \in Attacks, active[k]
               PROVE  \E u \in Threads : Goes(k, u)'
    BY <1>2 DEF Sustained
  <2>1. CASE k = key
    BY <1>1, <1>2, <2>1 DEF ConsoleInv, TypeOK, Goes
  <2>2. CASE k # key
    <3>1. PICK u \in Threads : Goes(k, u)
      BY <2>2 DEF ConsoleInv, Sustained, StartThread
    <3> QED
      BY <1>1, <2>2, <3>1 DEF ConsoleInv, TypeOK, Goes
  <2> QED
    BY <2>1, <2>2
<1> QED
  BY <1>2, <1>3, <1>4 DEF ConsoleInv, Cleared

LEMMA StopInv == ASSUME ConsoleInv,
                        (\E leave \in BOOLEAN : StopAll(leave)) \/ KeyboardInterrupt
                 PROVE  ConsoleInv'
BY DEF ConsoleInv, TypeOK, Sustained, Cleared, StopAll, KeyboardInterrupt

LEMMA ClearInv == ConsoleInv /\ ClearFlag => ConsoleInv'
BY DEF ConsoleInv, TypeOK, Sustained, Cleared, ClearFlag

LEMMA StoppedInv == ConsoleInv /\ AllStopped => ConsoleInv'
BY DEF ConsoleInv, TypeOK, Sustained, Cleared, AllStopped, Goes

LEMMA ExitInv == ConsoleInv /\ Exit => ConsoleInv'
BY DEF ConsoleInv, TypeOK, Sustained, Cleared, Exit, Phases

(* A thread stops going on with its attack only when it finds the flag cleared,   *)
(* or when the interpreter has ended and no flag is set any more.                *)
LEMMA WorkerInv == ASSUME ConsoleInv, NEW k \in Attacks, NEW t \in Threads, Worker(k, t)
                   PROVE  ConsoleInv'
<1>1. PICK phase \in Phases : Move(k, t, phase) /\ (phase \in {"none", "leaving"} => ~ active[k] \/ ~ Goes(k, t))
  BY DEF Worker, Test, CommandEnds, Wake, Leave, Phases, Goes, ConsoleInv, Cleared
<1>2. worker' = [worker EXCEPT ![k][t] = phase] /\ UNCHANGED <<active, mainVars>>
  BY <1>1 DEF Move
<1>3. TypeOK'
  BY <1>2 DEF ConsoleInv, TypeOK, mainVars
<1>4. \A a \in Attacks, u \in Threads : active[a] /\ Goes(a, u) => Goes(a, u)'
  BY <1>1, <1>2 DEF ConsoleInv, TypeOK, Goes, Phases
<1> QED
  BY <1>2, <1>3, <1>4 DEF ConsoleInv, Sustained, Cleared, mainVars

LEMMA NextInv == ConsoleInv /\ [Next]_vars => ConsoleInv'
<1> SUFFICES ASSUME ConsoleInv, [Next]_vars PROVE ConsoleInv'
  OBVIOUS
<1>1. CASE User
  BY <1>1, ToggleInv, StopInv DEF User
<1>2. CASE Console
  BY <1>2, StartInv, ClearInv, StoppedInv, ExitInv DEF Console
<1>3. ASSUME NEW k \in Attacks, NEW t \in Threads, Worker(k, t) PROVE ConsoleInv'
  BY <1>3, WorkerInv
<1>4. CASE UNCHANGED vars
  BY <1>4 DEF ConsoleInv, TypeOK, Sustained, Cleared, Goes, vars, mainVars
<1> QED
  BY <1>1, <1>2, <1>3, <1>4 DEF Next
-----------------------------------------------------------------------------
(* The menu never shows an attack as active that no thread goes on with, however   *)
(* it was toggled and wherever Ctrl+C came.                                      *)
THEOREM ActiveIsCarried == Spec => []ActiveHasWorker
<1>1. ConsoleInv => ActiveHasWorker
  BY DEF ConsoleInv, Sustained, ActiveHasWorker
<1> QED
  BY <1>1, InitInv, NextInv, PTL DEF Spec
=============================================================================
