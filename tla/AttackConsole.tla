--------------------------- MODULE AttackConsole ---------------------------
(***************************************************************************)
(* The attack console (simulation/attack_console.py): a menu toggles flags,  *)
(* and every toggle to "active" starts one more daemon thread, which runs a  *)
(* command over and over while it finds its flag set.                       *)
(*                                                                         *)
(* A thread is "none" before it starts and after it has ended, at the "test" *)
(* of its flag, in its "command", in its "sleep", or "leaving" its loop.     *)
(***************************************************************************)
EXTENDS FiniteSets

CONSTANTS Attacks,   \* the keys of attacks_active
          Threads,   \* bound: threads of one attack that live at a time
          NoAttack

ASSUME AttackAssumption == NoAttack \notin Attacks

VARIABLES active,    \* attacks_active
          worker,    \* what each thread of each attack is doing
          main,      \* "menu", "start": flag set, thread not, "stop": in stop_all
          key,       \* the attack being started
          left,      \* the flags stop_all still has to clear
          exiting    \* stop_all was called on the way out

mainVars == <<main, key, left, exiting>>
vars == <<active, worker, mainVars>>

Phases == {"none", "test", "command", "sleep", "leaving"}

Init == /\ active = [k \in Attacks |-> FALSE]
        /\ worker = [k \in Attacks |-> [t \in Threads |-> "none"]]
        /\ main = "menu"
        /\ key = NoAttack
        /\ left = {}
        /\ exiting = FALSE
-----------------------------------------------------------------------------
(* toggle_attack *)
ToggleOff(k) == /\ main = "menu"
                /\ active[k]
                /\ active' = [active EXCEPT ![k] = FALSE]
                /\ UNCHANGED <<worker, mainVars>>

ToggleOn(k) == /\ main = "menu"
               /\ ~ active[k]
               /\ \E t \in Threads : worker[k][t] = "none"
               /\ active' = [active EXCEPT ![k] = TRUE]
               /\ main' = "start"
               /\ key' = k
               /\ UNCHANGED <<worker, left, exiting>>

(* Wrong on purpose, as are the definitions named ...Wrong below: no second      *)
(* thread is started while one is alive.                                        *)
StartThreadWrong ==
    /\ main = "start"
    /\ IF \A t \in Threads : worker[key][t] = "none"
       THEN \E t \in Threads : worker' = [worker EXCEPT ![key][t] = "test"]
       ELSE UNCHANGED worker
    /\ main' = "menu"
    /\ key' = NoAttack
    /\ UNCHANGED <<active, left, exiting>>

StartThread ==
    /\ main = "start"
    /\ \E t \in Threads :
          /\ worker[key][t] = "none"
          /\ worker' = [worker EXCEPT ![key][t] = "test"]
    /\ main' = "menu"
    /\ key' = NoAttack
    /\ UNCHANGED <<active, left, exiting>>

(* stop_all from the menu (choices 4 and 5), or on Ctrl+C wherever main is. *)
StopAll(leave) == /\ main = "menu"
                  /\ main' = "stop"
                  /\ left' = Attacks
                  /\ exiting' = leave
                  /\ UNCHANGED <<active, worker, key>>

KeyboardInterrupt == /\ main \in {"menu", "start", "stop"}
                     /\ ~ exiting
                     /\ main' = "stop"
                     /\ left' = Attacks
                     /\ exiting' = TRUE
                     /\ key' = NoAttack
                     /\ UNCHANGED <<active, worker>>

ClearFlag == /\ main = "stop"
             /\ \E k \in left : /\ active' = [active EXCEPT ![k] = FALSE]
                                /\ left' = left \ {k}
             /\ UNCHANGED <<worker, main, key, exiting>>

AllStopped == /\ main = "stop"
              /\ left = {}
              /\ ~ exiting
              /\ main' = "menu"
              /\ UNCHANGED <<active, worker, key, left, exiting>>

(* Daemon threads end with the interpreter; a command they started does not.    *)
Exit == /\ main = "stop"
        /\ left = {}
        /\ exiting
        /\ main' = "exited"
        /\ worker' = [k \in Attacks |-> [t \in Threads |->
                         IF worker[k][t] = "command" THEN "command" ELSE "none"]]
        /\ UNCHANGED <<active, key, left, exiting>>
-----------------------------------------------------------------------------
Move(k, t, phase) == /\ worker' = [worker EXCEPT ![k][t] = phase]
                     /\ UNCHANGED <<active, mainVars>>

(* any flag keeps the worker going *)
TestWrong(k, t) ==
    /\ worker[k][t] = "test"
    /\ Move(k, t, IF \E a \in Attacks : active[a] THEN "command" ELSE "leaving")

Test(k, t) == /\ worker[k][t] = "test"
              /\ Move(k, t, IF active[k] THEN "command" ELSE "leaving")

CommandEnds(k, t) == /\ worker[k][t] = "command"
                     /\ Move(k, t, IF main = "exited" THEN "none" ELSE "sleep")

Wake(k, t) == worker[k][t] = "sleep" /\ Move(k, t, "test")

Leave(k, t) == worker[k][t] = "leaving" /\ Move(k, t, "none")

Worker(k, t) == Test(k, t) \/ CommandEnds(k, t) \/ Wake(k, t) \/ Leave(k, t)

(* What main does once the user has chosen. *)
Console == StartThread \/ ClearFlag \/ AllStopped \/ Exit

User == \/ \E k \in Attacks : ToggleOff(k) \/ ToggleOn(k)
        \/ \E leave \in BOOLEAN : StopAll(leave)
        \/ KeyboardInterrupt

Next == User \/ Console \/ \E k \in Attacks, t \in Threads : Worker(k, t)

(* Python runs every thread that can run, and every command the workers start    *)
(* is bounded: five ports, a timeout of a second, a thousand packets.           *)
Fairness == /\ WF_vars(Console)
            /\ \A k \in Attacks, t \in Threads : WF_vars(Worker(k, t))

Spec == Init /\ [][Next]_vars /\ Fairness
-----------------------------------------------------------------------------
Goes(k, t) == worker[k][t] \in {"test", "command", "sleep"}
Quiet(k) == \A t \in Threads : worker[k][t] = "none"

(* The menu never says ACTIVE of an attack that no thread goes on with, however   *)
(* quickly it was toggled: a thread that is on its way out does not count.        *)
ActiveHasWorker ==
    main = "menu" => \A k \in Attacks : active[k] => \E t \in Threads : Goes(k, t)

(* An attack that is switched off and left off comes to rest, with every thread   *)
(* it ever had and every command they started, and so does the console once it    *)
(* is told to exit.                                                              *)
StoppedComesToRest ==
    /\ \A k \in Attacks : <>[](~ active[k]) => <>[]Quiet(k)
    /\ exiting ~> (main = "exited" /\ \A k \in Attacks : Quiet(k))
=============================================================================
