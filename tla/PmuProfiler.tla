---------------------------- MODULE PmuProfiler ----------------------------
(***************************************************************************)
(* The hardware counter profiler (src/pmu_profiler.cpp): five descriptors    *)
(* of perf events, opened by start, read by read_current and closed by stop. *)
(* Each of the two halves of stop takes pmu_mutex_ for itself.               *)
(*                                                                         *)
(* The kernel counts between any two system calls, and the rest of the       *)
(* process opens and closes descriptors of its own, which reuse the numbers  *)
(* the profiler has closed.                                                 *)
(***************************************************************************)
EXTENDS Naturals, Sequences

CONSTANTS Callers,      \* threads that use the profiler
          Descriptors,  \* descriptor numbers of the process
          MaxCount,     \* bound: events a counter counts
          Closed,       \* -1
          Unused,       \* a descriptor number that is not open
          Other,        \* a file of the rest of the process
          Nobody        \* pmu_mutex_ is free

Order == <<"cycles", "instructions", "llc refs", "llc misses", "bus cycles">>
Counters == {Order[k] : k \in 1 .. Len(Order)}

ASSUME DescriptorAssumption == Descriptors \subseteq Nat /\ Closed \notin Descriptors
ASSUME CallerAssumption == Nobody \notin Callers
ASSUME MaxCountAssumption == MaxCount \in Nat
ASSUME FileAssumption == /\ Unused \notin Counters
                         /\ Other \notin Counters

VARIABLES fd,          \* fd_cycles_, fd_instructions_, ...: a number or Closed
          active,      \* is_active_
          table,       \* what is behind each descriptor number
          running,     \* the perf events that are enabled, by number
          value,       \* what the perf events have counted, by number
          mutex,       \* who holds pmu_mutex_
          pc,          \* the step each caller is about to take
          next,        \* the counter a caller opens or reads next
          stopping,    \* the callers whose read is the first half of a stop
          result       \* the metrics each caller is filling in, or got last

kernelVars == <<table, running, value>>
vars == <<fd, active, kernelVars, mutex, pc, next, stopping, result>>

Required == {"cycles", "instructions"}
Started == Counters \ {"bus cycles"}   \* the counters start resets and enables

NoMetrics == [valid |-> FALSE, count |-> [c \in Counters |-> 0]]

Init == /\ fd = [c \in Counters |-> Closed]
        /\ active = FALSE
        /\ table = [d \in Descriptors |-> Unused]
        /\ running = {}
        /\ value = [d \in Descriptors |-> 0]
        /\ mutex = Nobody
        /\ pc = [t \in Callers |-> "idle"]
        /\ next = [t \in Callers |-> 1]
        /\ stopping = {}
        /\ result = [t \in Callers |-> NoMetrics]
-----------------------------------------------------------------------------
Held == {fd[c] : c \in Counters} \ {Closed}

(* Wrong on purpose, as are the definitions named ...Wrong below: the numbers   *)
(* are kept.                                                                    *)
CloseFdsWrong ==
    /\ fd' = fd
    /\ table' = [d \in Descriptors |-> IF d \in Held THEN Unused ELSE table[d]]
    /\ running' = running \ Held
    /\ value' = [d \in Descriptors |-> IF d \in Held THEN 0 ELSE value[d]]

CloseFds ==
    /\ fd' = [c \in Counters |-> Closed]
    /\ table' = [d \in Descriptors |-> IF d \in Held THEN Unused ELSE table[d]]
    /\ running' = running \ Held
    /\ value' = [d \in Descriptors |-> IF d \in Held THEN 0 ELSE value[d]]

(* The kernel hands out the lowest number that is free. *)
IsLowest(d) == /\ table[d] = Unused
               /\ \A e \in Descriptors : table[e] = Unused => d <= e
-----------------------------------------------------------------------------
(* start *)
StartEnter(t) ==
    /\ pc[t] = "idle"
    /\ mutex = Nobody
    /\ mutex' = t
    /\ CloseFds
    /\ pc' = [pc EXCEPT ![t] = "open"]
    /\ UNCHANGED <<active, next, stopping, result>>

(* one round too many *)
OpenedWrong(t) ==
    /\ pc' = [pc EXCEPT ![t] = IF next[t] > Len(Order) THEN "started" ELSE "open"]
    /\ next' = [next EXCEPT ![t] = IF @ > Len(Order) THEN 1 ELSE @ + 1]

(* One counter after the other; next is 1 again after the last. *)
Opened(t) ==
    /\ pc' = [pc EXCEPT ![t] = IF next[t] = Len(Order) THEN "started" ELSE "open"]
    /\ next' = [next EXCEPT ![t] = IF @ = Len(Order) THEN 1 ELSE @ + 1]

Open(t) ==
    /\ pc[t] = "open"
    /\ \E d \in Descriptors :
          /\ IsLowest(d)
          /\ fd' = [fd EXCEPT ![Order[next[t]]] = d]
          /\ table' = [table EXCEPT ![d] = Order[next[t]]]
    /\ Opened(t)
    /\ UNCHANGED <<active, running, value, mutex, stopping, result>>

OpenFails(t) ==
    /\ pc[t] = "open"
    /\ Opened(t)
    /\ UNCHANGED <<fd, active, kernelVars, mutex, stopping, result>>

(* the counters that were opened stay open *)
StartFailsWrong(t) ==
    /\ pc[t] = "started"
    /\ \E c \in Required : fd[c] = Closed
    /\ active' = FALSE
    /\ fd' = [c \in Counters |-> Closed]
    /\ mutex' = Nobody
    /\ pc' = [pc EXCEPT ![t] = "idle"]
    /\ UNCHANGED <<kernelVars, next, stopping, result>>

StartFails(t) ==
    /\ pc[t] = "started"
    /\ \E c \in Required : fd[c] = Closed
    /\ active' = FALSE
    /\ CloseFds
    /\ mutex' = Nobody
    /\ pc' = [pc EXCEPT ![t] = "idle"]
    /\ UNCHANGED <<next, stopping, result>>

(* A perf event counts from 0 and only once it is enabled. *)
Enable(t) ==
    /\ pc[t] = "started"
    /\ \A c \in Required : fd[c] # Closed
    /\ running' = running \cup ({fd[c] : c \in Started} \ {Closed})
    /\ active' = TRUE
    /\ mutex' = Nobody
    /\ pc' = [pc EXCEPT ![t] = "idle"]
    /\ UNCHANGED <<fd, table, value, next, stopping, result>>
-----------------------------------------------------------------------------
(* read_current, alone or as the first half of stop; here the metrics are not   *)
(* cleared.                                                                     *)
ReadEnterWrong(t, stop) ==
    /\ pc[t] = "idle"
    /\ mutex = Nobody
    /\ stopping' = IF stop THEN stopping \cup {t} ELSE stopping
    /\ IF active
       THEN mutex' = t /\ pc' = [pc EXCEPT ![t] = "read"]
       ELSE mutex' = mutex /\ pc' = [pc EXCEPT ![t] = IF stop THEN "stop" ELSE "idle"]
    /\ UNCHANGED <<fd, active, kernelVars, next, result>>

ReadEnter(t, stop) ==
    /\ pc[t] = "idle"
    /\ mutex = Nobody
    /\ result' = [result EXCEPT ![t] = NoMetrics]
    /\ stopping' = IF stop THEN stopping \cup {t} ELSE stopping
    /\ IF active
       THEN mutex' = t /\ pc' = [pc EXCEPT ![t] = "read"]
       ELSE mutex' = mutex /\ pc' = [pc EXCEPT ![t] = IF stop THEN "stop" ELSE "idle"]
    /\ UNCHANGED <<fd, active, kernelVars, next>>

Read(t) ==
    /\ pc[t] = "read"
    /\ next[t] <= Len(Order)
    /\ LET c == Order[next[t]]
       IN  result' = IF fd[c] = Closed THEN result
                     ELSE [result EXCEPT ![t].count[c] = value[fd[c]]]
    /\ next' = [next EXCEPT ![t] = @ + 1]
    /\ UNCHANGED <<fd, active, kernelVars, mutex, pc, stopping>>

ReadReturn(t) ==
    /\ pc[t] = "read"
    /\ next[t] > Len(Order)
    /\ result' = [result EXCEPT ![t].valid = TRUE]
    /\ mutex' = Nobody
    /\ next' = [next EXCEPT ![t] = 1]
    /\ pc' = [pc EXCEPT ![t] = IF t \in stopping THEN "stop" ELSE "idle"]
    /\ UNCHANGED <<fd, active, kernelVars, stopping>>

(* without pmu_mutex_ *)
StopWrong(t) ==
    /\ pc[t] = "stop"
    /\ active' = FALSE
    /\ CloseFds
    /\ stopping' = stopping \ {t}
    /\ pc' = [pc EXCEPT ![t] = "idle"]
    /\ UNCHANGED <<mutex, next, result>>

(* The second half of stop: disable and close, whatever is open by now. *)
Stop(t) ==
    /\ pc[t] = "stop"
    /\ mutex = Nobody
    /\ active' = FALSE
    /\ CloseFds
    /\ stopping' = stopping \ {t}
    /\ pc' = [pc EXCEPT ![t] = "idle"]
    /\ UNCHANGED <<mutex, next, result>>
-----------------------------------------------------------------------------
(* The processor: what counts a cycle may count an instruction with it, and a   *)
(* miss of the last-level cache is a reference to it.                           *)
Happenings == {{"cycles"}, {"cycles", "instructions"}, {"llc refs"},
               {"llc refs", "llc misses"}, {"bus cycles"}}

Tick == \E what \in Happenings :
          LET counting == {d \in running : table[d] \in what}
          IN  /\ counting # {}
              /\ \A d \in counting : value[d] < MaxCount
              /\ value' = [d \in Descriptors |->
                              IF d \in counting THEN value[d] + 1 ELSE value[d]]
              /\ UNCHANGED <<fd, active, table, running, mutex, pc, next, stopping, result>>

(* The rest of the process. *)
OtherOpens == /\ \E d \in Descriptors : IsLowest(d) /\ table' = [table EXCEPT ![d] = Other]
              /\ UNCHANGED <<fd, active, running, value, mutex, pc, next, stopping, result>>

OtherCloses == /\ \E d \in Descriptors :
                      table[d] = Other /\ table' = [table EXCEPT ![d] = Unused]
               /\ UNCHANGED <<fd, active, running, value, mutex, pc, next, stopping, result>>

Call(t) == \/ StartEnter(t) \/ Open(t) \/ OpenFails(t) \/ StartFails(t) \/ Enable(t)
           \/ \E stop \in BOOLEAN : ReadEnter(t, stop)
           \/ Read(t) \/ ReadReturn(t) \/ Stop(t)

Next == \/ \E t \in Callers : Call(t)
        \/ Tick \/ OtherOpens \/ OtherCloses

Spec == Init /\ [][Next]_vars
-----------------------------------------------------------------------------
TypeOK == /\ fd \in [Counters -> Descriptors \cup {Closed}]
          /\ active \in BOOLEAN
          /\ table \in [Descriptors -> Counters \cup {Unused, Other}]
          /\ running \subseteq Descriptors
          /\ value \in [Descriptors -> 0 .. MaxCount]
          /\ mutex \in Callers \cup {Nobody}
          /\ pc \in [Callers -> {"idle", "open", "started", "read", "stop"}]
          /\ next \in [Callers -> 1 .. Len(Order) + 1]
          /\ \A t \in Callers : pc[t] = "open" => next[t] <= Len(Order)
          /\ stopping \subseteq Callers
          /\ result \in [Callers -> [valid : BOOLEAN,
                                     count : [Counters -> 0 .. MaxCount]]]

(* The profiler never uses, and never closes, a descriptor of the rest of the   *)
(* process, although numbers are reused as soon as they are closed: every       *)
(* number it holds is that of its own perf event.                               *)
OwnDescriptors == \A c \in Counters : fd[c] # Closed => table[fd[c]] = c

(* No perf event is left open that the profiler does not hold, whichever        *)
(* counters could not be opened and in whatever order the calls came.           *)
NoLeak == \A d \in Descriptors : table[d] \in Counters => fd[table[d]] = d

(* Metrics are only marked valid for a session that is on: from the first to    *)
(* the last counter that read_current reads, no other caller ends the session,  *)
(* and cycles and instructions are being counted.                               *)
ReadsLiveSession ==
    \A t \in Callers : pc[t] = "read" =>
        active /\ \A c \in Required : fd[c] \in running

(* The metrics are of this session alone: no counter exceeds what the kernel    *)
(* has counted for it since start, and one that could not be opened reads 0,    *)
(* whatever earlier sessions measured.                                          *)
MeasuredThisSession ==
    \A t \in Callers, c \in Counters : pc[t] = "read" =>
        result[t].count[c] <= IF fd[c] = Closed THEN 0 ELSE value[fd[c]]

(* temp/features_report.md: PERF_COUNT_HW_BUS_CYCLES is among the hardware      *)
(* counters profiled.                                                           *)
BusCyclesAreProfiled ==
    active /\ mutex = Nobody /\ fd["bus cycles"] # Closed => fd["bus cycles"] \in running
=============================================================================
