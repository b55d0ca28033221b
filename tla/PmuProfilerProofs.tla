------------------------- MODULE PmuProfilerProofs -------------------------
(***************************************************************************)
(* Proofs about PmuProfiler for every set of callers, every set of           *)
(* descriptor numbers and every bound on what a counter counts.              *)
(***************************************************************************)
EXTENDS PmuProfiler, TLAPS

(* Each counter has one place in the order in which start opens them. *)
LEMMA OrderFacts ==
    /\ Len(Order) = 5
    /\ \A k \in 1 .. 5 : Order[k] \in Counters
    /\ \A j, k \in 1 .. 5 : Order[j] = Order[k] => j = k
    /\ Required \subseteq Counters
    /\ Started \subseteq Counters
    /\ Required \subseteq Started
    /\ \A c \in Required : c = Order[1] \/ c = Order[2]
<1>1. Len(Order) = 5
  BY DEF Order
<1>2. /\ Order[1] = "cycles" /\ Order[2] = "instructions" /\ Order[3] = "llc refs"
      /\ Order[4] = "llc misses" /\ Order[5] = "bus cycles"
  BY DEF Order
<1>3. \A k \in 1 .. 5 : Order[k] \in Counters
  BY <1>1 DEF Counters
<1>0. "cycles" \in Counters /\ "instructions" \in Counters
  <2>1. Order[1] \in Counters /\ Order[2] \in Counters
    BY <1>3
  <2> QED BY <1>2, <2>1
<1>4. \A j, k \in 1 .. 5 : Order[j] = Order[k] => j = k
  <2>1. \A k \in 1 .. 5 : k = 1 \/ k = 2 \/ k = 3 \/ k = 4 \/ k = 5
    OBVIOUS
  <2> QED BY <1>2, <2>1
<1>5. Required \subseteq Counters /\ Started \subseteq Counters
  BY <1>0 DEF Required, Started
<1>6. Required \subseteq Started
  BY <1>5 DEF Required, Started
<1>7. \A c \in Required : c = Order[1] \/ c = Order[2]
  BY <1>2 DEF Required
<1> QED BY <1>1, <1>3, <1>4, <1>5, <1>6, <1>7

(* Which counter a caller is at, and who may be at one. *)
MutexHeld == \A t \in Callers : pc[t] \in {"open", "started", "read"} <=> mutex = t

Places == \A t \in Callers :
            /\ pc[t] \notin {"open", "read"} => next[t] = 1
            /\ pc[t] = "open" => \A k \in next[t] .. Len(Order) : fd[Order[k]] = Closed

(* Outside start, an active session counts what it must count. *)
SessionOn == active /\ (\A t \in Callers : pc[t] \notin {"open", "started"}) =>
                \A c \in Required : fd[c] \in running

(* The inductive invariant. *)
PmuInv == /\ TypeOK /\ MutexHeld /\ Places
          /\ OwnDescriptors /\ NoLeak
          /\ SessionOn /\ ReadsLiveSession /\ MeasuredThisSession

LEMMA InitInv == Init => PmuInv
<1> SUFFICES ASSUME Init PROVE PmuInv
  OBVIOUS
<1> USE OrderFacts, DescriptorAssumption, CallerAssumption, MaxCountAssumption,
        FileAssumption DEF Init
<1>1. TypeOK
  <2>1. NoMetrics \in [valid : BOOLEAN, count : [Counters -> 0 .. MaxCount]]
    BY DEF NoMetrics
  <2>2. pc \in [Callers -> {"idle", "open", "started", "read", "stop"}]
    OBVIOUS
  <2>3. next \in [Callers -> 1 .. Len(Order) + 1]
    OBVIOUS
  <2>4. value \in [Descriptors -> 0 .. MaxCount]
    OBVIOUS
  <2>5. fd \in [Counters -> Descriptors \cup {Closed}]
    OBVIOUS
  <2>6. table \in [Descriptors -> Counters \cup {Unused, Other}]
    OBVIOUS
  <2>7. \A t \in Callers : pc[t] # "open"
    OBVIOUS
  <2> QED BY <2>1, <2>2, <2>3, <2>4, <2>5, <2>6, <2>7 DEF TypeOK
<1>2. MutexHeld /\ Places
  BY DEF MutexHeld, Places
<1>3. OwnDescriptors /\ NoLeak
  BY DEF OwnDescriptors, NoLeak
<1>4. SessionOn /\ ReadsLiveSession /\ MeasuredThisSession
  BY DEF SessionOn, ReadsLiveSession, MeasuredThisSession
<1> QED BY <1>1, <1>2, <1>3, <1>4 DEF PmuInv

(* What closing leaves behind: nothing of the profiler. *)
LEMMA ClosingClears ==
    ASSUME TypeOK, OwnDescriptors, NoLeak, CloseFds
    PROVE  /\ fd' \in [Counters -> Descriptors \cup {Closed}]
           /\ table' \in [Descriptors -> Counters \cup {Unused, Other}]
           /\ running' \subseteq Descriptors
           /\ value' \in [Descriptors -> 0 .. MaxCount]
           /\ \A c \in Counters : fd'[c] = Closed
           /\ OwnDescriptors'
           /\ NoLeak'
<1> USE DescriptorAssumption, MaxCountAssumption, FileAssumption
<1>1. /\ fd' \in [Counters -> Descriptors \cup {Closed}]
      /\ table' \in [Descriptors -> Counters \cup {Unused, Other}]
      /\ running' \subseteq Descriptors
      /\ value' \in [Descriptors -> 0 .. MaxCount]
      /\ \A c \in Counters : fd'[c] = Closed
  <2>1. 0 \in 0 .. MaxCount
    OBVIOUS
  <2>2. value' \in [Descriptors -> 0 .. MaxCount]
    BY <2>1 DEF CloseFds, TypeOK
  <2>3. table' \in [Descriptors -> Counters \cup {Unused, Other}]
    BY DEF CloseFds, TypeOK
  <2> QED BY <2>2, <2>3 DEF CloseFds, TypeOK
<1>2. OwnDescriptors'
  BY <1>1 DEF OwnDescriptors
<1>3. NoLeak'
  <2> SUFFICES ASSUME NEW d \in Descriptors, table'[d] \in Counters
               PROVE  FALSE
    BY DEF NoLeak
  <2>1. CASE d \in Held
    BY <2>1 DEF CloseFds
  <2>2. CASE d \notin Held
    BY <2>2 DEF CloseFds, NoLeak, Held
  <2> QED BY <2>1, <2>2
<1> QED BY <1>1, <1>2, <1>3

(* The steps of start, one at a time. *)
LEMMA StartSteps ==
    ASSUME PmuInv, NEW t \in Callers,
           \/ StartEnter(t) \/ Open(t) \/ OpenFails(t) \/ StartFails(t) \/ Enable(t)
    PROVE  PmuInv'
<1> USE OrderFacts, DescriptorAssumption, CallerAssumption, MaxCountAssumption,
        FileAssumption
<1>0. TypeOK /\ MutexHeld /\ Places /\ OwnDescriptors /\ NoLeak
  BY DEF PmuInv
<1>1. CASE StartEnter(t)
  <2>1. /\ CloseFds
        /\ mutex' = t /\ mutex = Nobody /\ pc[t] = "idle"
        /\ pc' = [pc EXCEPT ![t] = "open"]
        /\ UNCHANGED <<active, next, stopping, result>>
    BY <1>1 DEF StartEnter
  <2>2. \A u \in Callers : pc[u] \notin {"open", "started", "read"}
    BY <1>0, <2>1 DEF MutexHeld
  <2>3. TypeOK'
    BY <1>0, <2>1, ClosingClears DEF TypeOK, Places
  <2>4. MutexHeld' /\ Places'
    BY <1>0, <2>1, <2>2, ClosingClears DEF TypeOK, MutexHeld, Places
  <2>5. SessionOn' /\ ReadsLiveSession' /\ MeasuredThisSession'
    BY <1>0, <2>1, <2>2 DEF TypeOK, SessionOn, ReadsLiveSession, MeasuredThisSession
  <2> QED BY <1>0, <2>1, <2>3, <2>4, <2>5, ClosingClears DEF PmuInv
<1>2. CASE Open(t) \/ OpenFails(t)
  <2>1. /\ pc[t] = "open" /\ mutex = t /\ Opened(t)
        /\ UNCHANGED <<active, running, value, mutex, stopping, result>>
    BY <1>0, <1>2 DEF Open, OpenFails, MutexHeld, kernelVars
  <2>2. /\ pc' \in [Callers -> {"idle", "open", "started", "read", "stop"}]
        /\ next' \in [Callers -> 1 .. Len(Order) + 1]
        /\ pc'[t] \in {"open", "started"}
        /\ pc'[t] = "open" => next[t] < Len(Order) /\ next'[t] = next[t] + 1
        /\ pc'[t] = "started" => next'[t] = 1
        /\ \A u \in Callers \ {t} : pc'[u] = pc[u] /\ next'[u] = next[u]
    <3>1. next[t] \in 1 .. 5
      BY <1>0, <2>1 DEF TypeOK
    <3>2. /\ pc' = [pc EXCEPT ![t] = IF next[t] = 5 THEN "started" ELSE "open"]
          /\ next' = [next EXCEPT ![t] = IF next[t] = 5 THEN 1 ELSE next[t] + 1]
      BY <2>1 DEF Opened
    <3>3. pc \in [Callers -> {"idle", "open", "started", "read", "stop"}]
      BY <1>0 DEF TypeOK
    <3>4. next \in [Callers -> 1 .. 6]
      BY <1>0 DEF TypeOK
    <3>5. pc' \in [Callers -> {"idle", "open", "started", "read", "stop"}]
      BY <3>2, <3>3
    <3>6. next' \in [Callers -> 1 .. 6]
      BY <3>1, <3>2, <3>4
    <3>7. CASE next[t] = 5
      BY <3>2, <3>3, <3>4, <3>5, <3>6, <3>7
    <3>8. CASE next[t] # 5
      BY <3>1, <3>2, <3>3, <3>4, <3>5, <3>6, <3>8
    <3> QED BY <3>7, <3>8
  <2>3. \A u \in Callers \ {t} : pc[u] \notin {"open", "started", "read"}
    BY <1>0, <2>1 DEF MutexHeld
  <2>4. next[t] \in 1 .. 5 /\ Order[next[t]] \in Counters /\ fd[Order[next[t]]] = Closed
    <3>1. next[t] \in 1 .. 5
      BY <1>0, <2>1 DEF TypeOK
    <3> QED BY <1>0, <2>1, <3>1 DEF Places
  <2>5. MutexHeld'
    BY <1>0, <2>1, <2>2, <2>3 DEF MutexHeld
  <2>6. SessionOn' /\ ReadsLiveSession' /\ MeasuredThisSession'
    BY <2>2, <2>3 DEF SessionOn, ReadsLiveSession, MeasuredThisSession
  <2>7. CASE OpenFails(t)
    <3>1. UNCHANGED <<fd, table>>
      BY <2>7 DEF OpenFails, kernelVars
    <3>2. TypeOK'
      BY <1>0, <2>1, <2>2, <2>3, <3>1 DEF TypeOK
    <3>3. Places'
      BY <1>0, <2>1, <2>2, <2>3, <2>4, <3>1 DEF Places
    <3>4. OwnDescriptors' /\ NoLeak'
      BY <1>0, <3>1 DEF OwnDescriptors, NoLeak
    <3> QED BY <2>5, <2>6, <3>2, <3>3, <3>4 DEF PmuInv
  <2>8. CASE Open(t)
    <3>1. PICK d \in Descriptors :
             /\ table[d] = Unused
             /\ fd' = [fd EXCEPT ![Order[next[t]]] = d]
             /\ table' = [table EXCEPT ![d] = Order[next[t]]]
      BY <2>8 DEF Open, IsLowest
    <3>2. TypeOK'
      BY <1>0, <2>1, <2>2, <2>3, <2>4, <3>1 DEF TypeOK
    <3>3. Places'
      <4>1. ASSUME pc'[t] = "open", NEW k \in next'[t] .. Len(Order)
            PROVE  fd'[Order[k]] = Closed
        <5>1. k \in 1 .. 5 /\ k # next[t] /\ k \in next[t] .. Len(Order)
          BY <2>2, <2>4, <4>1
        <5>2. Order[k] # Order[next[t]]
          BY <2>4, <5>1
        <5>3. fd[Order[k]] = Closed
          BY <1>0, <2>1, <5>1 DEF Places
        <5> QED BY <1>0, <3>1, <5>1, <5>2, <5>3 DEF TypeOK
      <4> QED BY <1>0, <2>2, <2>3, <4>1 DEF Places
    <3>4. OwnDescriptors'
      BY <1>0, <2>4, <3>1 DEF OwnDescriptors, TypeOK
    <3>5. NoLeak'
      BY <1>0, <2>4, <3>1 DEF NoLeak, TypeOK
    <3> QED BY <2>5, <2>6, <3>2, <3>3, <3>4, <3>5 DEF PmuInv
  <2> QED BY <1>2, <2>7, <2>8
<1>3. CASE StartFails(t)
  <2>1. /\ CloseFds /\ pc[t] = "started" /\ mutex = t /\ mutex' = Nobody
        /\ active' = FALSE /\ pc' = [pc EXCEPT ![t] = "idle"]
        /\ UNCHANGED <<next, stopping, result>>
    BY <1>0, <1>3 DEF StartFails, MutexHeld
  <2>2. \A u \in Callers \ {t} : pc[u] \notin {"open", "started", "read"}
    BY <1>0, <2>1 DEF MutexHeld
  <2>3. TypeOK'
    BY <1>0, <2>1, ClosingClears DEF TypeOK
  <2>4. MutexHeld' /\ Places'
    BY <1>0, <2>1, <2>2 DEF TypeOK, MutexHeld, Places
  <2>5. SessionOn' /\ ReadsLiveSession' /\ MeasuredThisSession'
    BY <1>0, <2>1, <2>2 DEF TypeOK, SessionOn, ReadsLiveSession, MeasuredThisSession
  <2> QED BY <1>0, <2>1, <2>3, <2>4, <2>5, ClosingClears DEF PmuInv
<1>4. CASE Enable(t)
  <2>1. /\ pc[t] = "started" /\ mutex = t /\ mutex' = Nobody /\ active' = TRUE
        /\ \A c \in Required : fd[c] # Closed
        /\ running' = running \cup ({fd[c] : c \in Started} \ {Closed})
        /\ pc' = [pc EXCEPT ![t] = "idle"]
        /\ UNCHANGED <<fd, table, value, next, stopping, result>>
    BY <1>0, <1>4 DEF Enable, MutexHeld
  <2>2. \A u \in Callers \ {t} : pc[u] \notin {"open", "started", "read"}
    BY <1>0, <2>1 DEF MutexHeld
  <2>3. TypeOK'
    <3>1. \A c \in Started : fd[c] \in Descriptors \cup {Closed}
      BY <1>0 DEF TypeOK
    <3>2. {fd[c] : c \in Started} \ {Closed} \subseteq Descriptors
      BY <3>1
    <3>3. running' \subseteq Descriptors
      BY <1>0, <2>1, <3>2 DEF TypeOK
    <3> QED BY <1>0, <2>1, <3>3 DEF TypeOK
  <2>4. MutexHeld' /\ Places'
    BY <1>0, <2>1, <2>2 DEF TypeOK, MutexHeld, Places
  <2>5. OwnDescriptors' /\ NoLeak'
    BY <1>0, <2>1 DEF OwnDescriptors, NoLeak
  <2>6. SessionOn'
    BY <1>0, <2>1 DEF SessionOn
  <2>7. ReadsLiveSession' /\ MeasuredThisSession'
    BY <1>0, <2>1, <2>2 DEF TypeOK, ReadsLiveSession, MeasuredThisSession
  <2> QED BY <2>3, <2>4, <2>5, <2>6, <2>7 DEF PmuInv
<1> QED BY <1>1, <1>2, <1>3, <1>4

(* The steps of read_current and of stop. *)
LEMMA ReadSteps ==
    ASSUME PmuInv, NEW t \in Callers,
           \/ \E stop \in BOOLEAN : ReadEnter(t, stop)
           \/ Read(t) \/ ReadReturn(t) \/ Stop(t)
    PROVE  PmuInv'
<1> USE OrderFacts, DescriptorAssumption, CallerAssumption, MaxCountAssumption,
        FileAssumption
<1>0. TypeOK /\ MutexHeld /\ Places /\ OwnDescriptors /\ NoLeak /\ SessionOn
      /\ ReadsLiveSession /\ MeasuredThisSession
  BY DEF PmuInv
<1>1. ASSUME NEW stop \in BOOLEAN, ReadEnter(t, stop)
      PROVE  PmuInv'
  <2>1. /\ pc[t] = "idle" /\ mutex = Nobody
        /\ result' = [result EXCEPT ![t] = NoMetrics]
        /\ UNCHANGED <<fd, active, table, running, value, next>>
    BY <1>1 DEF ReadEnter, kernelVars
  <2>2. \A u \in Callers : pc[u] \notin {"open", "started", "read"}
    BY <1>0, <2>1 DEF MutexHeld
  <2>3. \/ active /\ mutex' = t /\ pc' = [pc EXCEPT ![t] = "read"]
        \/ mutex' = mutex /\ pc' = [pc EXCEPT ![t] = "stop"]
        \/ mutex' = mutex /\ pc' = [pc EXCEPT ![t] = "idle"]
    BY <1>1 DEF ReadEnter
  <2>4. TypeOK'
    <3>1. NoMetrics \in [valid : BOOLEAN, count : [Counters -> 0 .. MaxCount]]
      BY DEF NoMetrics
    <3>2. stopping' \subseteq Callers
      BY <1>0, <1>1 DEF ReadEnter, TypeOK
    <3>3. result' \in [Callers -> [valid : BOOLEAN, count : [Counters -> 0 .. MaxCount]]]
      BY <1>0, <2>1, <3>1 DEF TypeOK
    <3> QED BY <1>0, <2>1, <2>2, <2>3, <3>2, <3>3 DEF TypeOK
  <2>5. MutexHeld' /\ Places'
    BY <1>0, <2>1, <2>2, <2>3 DEF TypeOK, MutexHeld, Places
  <2>6. OwnDescriptors' /\ NoLeak' /\ SessionOn'
    BY <1>0, <2>1, <2>2, <2>3 DEF OwnDescriptors, NoLeak, SessionOn
  <2>7. ReadsLiveSession'
    BY <1>0, <2>1, <2>2, <2>3 DEF TypeOK, ReadsLiveSession, SessionOn
  <2>8. MeasuredThisSession'
    <3> SUFFICES ASSUME NEW u \in Callers, NEW c \in Counters, pc'[u] = "read"
                 PROVE  result'[u].count[c] <= IF fd[c] = Closed THEN 0 ELSE value[fd[c]]
      BY <2>1 DEF MeasuredThisSession
    <3>1. u = t
      BY <1>0, <2>2, <2>3 DEF TypeOK
    <3>2. result'[t].count[c] = 0
      BY <1>0, <2>1 DEF TypeOK, NoMetrics
    <3>3. fd[c] # Closed => value[fd[c]] \in 0 .. MaxCount
      BY <1>0 DEF TypeOK
    <3> QED BY <3>1, <3>2, <3>3
  <2> QED BY <2>4, <2>5, <2>6, <2>7, <2>8 DEF PmuInv
<1>2. CASE Read(t)
  <2> DEFINE c == Order[next[t]]
  <2>1. /\ pc[t] = "read" /\ mutex = t /\ next[t] \in 1 .. 5 /\ c \in Counters
        /\ next' = [next EXCEPT ![t] = next[t] + 1]
        /\ result' = IF fd[c] = Closed THEN result
                     ELSE [result EXCEPT ![t].count[c] = value[fd[c]]]
        /\ UNCHANGED <<fd, active, table, running, value, mutex, pc, stopping>>
    <3>1. pc[t] = "read" /\ next[t] <= 5 /\ next[t] \in 1 .. 6
      BY <1>0, <1>2 DEF Read, TypeOK
    <3> QED BY <1>0, <1>2, <3>1 DEF Read, MutexHeld, kernelVars
  <2> HIDE DEF c
  <2>2. fd[c] # Closed => value[fd[c]] \in 0 .. MaxCount
    BY <1>0, <2>1 DEF TypeOK
  <2>3. TypeOK'
    <3>1. result' \in [Callers -> [valid : BOOLEAN, count : [Counters -> 0 .. MaxCount]]]
      BY <1>0, <2>1, <2>2 DEF TypeOK
    <3>2. next' \in [Callers -> 1 .. 6]
      BY <1>0, <2>1 DEF TypeOK
    <3> QED BY <1>0, <2>1, <3>1, <3>2 DEF TypeOK
  <2>4. MutexHeld' /\ Places'
    BY <1>0, <2>1 DEF TypeOK, MutexHeld, Places
  <2>5. OwnDescriptors' /\ NoLeak' /\ SessionOn' /\ ReadsLiveSession'
    BY <1>0, <2>1 DEF OwnDescriptors, NoLeak, SessionOn, ReadsLiveSession
  <2>6. MeasuredThisSession'
    <3> SUFFICES ASSUME NEW u \in Callers, NEW b \in Counters, pc[u] = "read"
                 PROVE  result'[u].count[b] <= IF fd[b] = Closed THEN 0 ELSE value[fd[b]]
      BY <2>1 DEF MeasuredThisSession
    <3>1. result[u].count[b] <= IF fd[b] = Closed THEN 0 ELSE value[fd[b]]
      BY <1>0 DEF MeasuredThisSession
    <3>2. CASE fd[c] = Closed
      BY <2>1, <3>1, <3>2
    <3>3. CASE fd[c] # Closed
      <4>1. result'[u].count[b] = IF u = t /\ b = c THEN value[fd[c]]
                                  ELSE result[u].count[b]
        BY <1>0, <2>1, <3>3 DEF TypeOK
      <4> QED BY <2>2, <3>1, <3>3, <4>1
    <3> QED BY <3>2, <3>3
  <2> QED BY <2>3, <2>4, <2>5, <2>6 DEF PmuInv
<1>3. CASE ReadReturn(t)
  <2>1. /\ pc[t] = "read" /\ mutex = t /\ mutex' = Nobody
        /\ next' = [next EXCEPT ![t] = 1]
        /\ result' = [result EXCEPT ![t].valid = TRUE]
        /\ UNCHANGED <<fd, active, table, running, value, stopping>>
    BY <1>0, <1>3 DEF ReadReturn, MutexHeld, kernelVars
  <2>2. \/ pc' = [pc EXCEPT ![t] = "stop"] \/ pc' = [pc EXCEPT ![t] = "idle"]
    BY <1>3 DEF ReadReturn
  <2>3. \A u \in Callers \ {t} : pc[u] \notin {"open", "started", "read"}
    BY <1>0, <2>1 DEF MutexHeld
  <2>4. TypeOK'
    <3>1. result' \in [Callers -> [valid : BOOLEAN, count : [Counters -> 0 .. MaxCount]]]
      BY <1>0, <2>1 DEF TypeOK
    <3>2. next' \in [Callers -> 1 .. 6]
      BY <1>0, <2>1 DEF TypeOK
    <3>3. pc' \in [Callers -> {"idle", "open", "started", "read", "stop"}]
      BY <1>0, <2>2 DEF TypeOK
    <3>4. \A u \in Callers : pc'[u] # "open"
      BY <1>0, <2>1, <2>2, <2>3 DEF TypeOK
    <3> QED BY <1>0, <2>1, <3>1, <3>2, <3>3, <3>4 DEF TypeOK
  <2>5. MutexHeld' /\ Places'
    BY <1>0, <2>1, <2>2, <2>3 DEF TypeOK, MutexHeld, Places
  <2>6. OwnDescriptors' /\ NoLeak'
    BY <1>0, <2>1 DEF OwnDescriptors, NoLeak
  <2>7. SessionOn' /\ ReadsLiveSession'
    BY <1>0, <2>1, <2>2, <2>3 DEF TypeOK, SessionOn, ReadsLiveSession
  <2>8. MeasuredThisSession'
    BY <1>0, <2>1, <2>2, <2>3 DEF TypeOK, MeasuredThisSession
  <2> QED BY <2>4, <2>5, <2>6, <2>7, <2>8 DEF PmuInv
<1>4. CASE Stop(t)
  <2>1. /\ pc[t] = "stop" /\ mutex = Nobody /\ mutex' = Nobody /\ active' = FALSE
        /\ CloseFds /\ pc' = [pc EXCEPT ![t] = "idle"]
        /\ stopping' = stopping \ {t}
        /\ UNCHANGED <<next, result>>
    BY <1>4 DEF Stop
  <2>2. \A u \in Callers : pc[u] \notin {"open", "started", "read"}
    BY <1>0, <2>1 DEF MutexHeld
  <2>3. TypeOK'
    BY <1>0, <2>1, ClosingClears DEF TypeOK
  <2>4. MutexHeld' /\ Places'
    BY <1>0, <2>1, <2>2 DEF TypeOK, MutexHeld, Places
  <2>5. SessionOn' /\ ReadsLiveSession' /\ MeasuredThisSession'
    BY <1>0, <2>1, <2>2 DEF TypeOK, SessionOn, ReadsLiveSession, MeasuredThisSession
  <2> QED BY <1>0, <2>1, <2>3, <2>4, <2>5, ClosingClears DEF PmuInv
<1> QED BY <1>1, <1>2, <1>3, <1>4

(* The steps the profiler has no part in. *)
LEMMA OtherSteps ==
    ASSUME PmuInv, Tick \/ OtherOpens \/ OtherCloses \/ UNCHANGED vars
    PROVE  PmuInv'
<1> USE OrderFacts, DescriptorAssumption, CallerAssumption, MaxCountAssumption,
        FileAssumption
<1>0. TypeOK /\ MutexHeld /\ Places /\ OwnDescriptors /\ NoLeak /\ SessionOn
      /\ ReadsLiveSession /\ MeasuredThisSession
  BY DEF PmuInv
<1>1. CASE Tick
  <2>1. UNCHANGED <<fd, active, table, running, mutex, pc, next, stopping, result>>
    BY <1>1 DEF Tick
  <2>2. /\ value' \in [Descriptors -> 0 .. MaxCount]
        /\ \A d \in Descriptors : value[d] <= value'[d]
    <3>1. PICK counting \in SUBSET running :
             /\ \A d \in counting : value[d] < MaxCount
             /\ value' = [d \in Descriptors |->
                             IF d \in counting THEN value[d] + 1 ELSE value[d]]
      BY <1>1 DEF Tick
    <3>2. \A d \in Descriptors : value[d] \in 0 .. MaxCount
      BY <1>0 DEF TypeOK
    <3>3. \A d \in Descriptors : value'[d] \in 0 .. MaxCount /\ value[d] <= value'[d]
      BY <3>1, <3>2
    <3> QED BY <3>1, <3>3
  <2>3. TypeOK'
    BY <1>0, <2>1, <2>2 DEF TypeOK
  <2>4. MutexHeld' /\ Places' /\ OwnDescriptors' /\ NoLeak' /\ SessionOn' /\ ReadsLiveSession'
    BY <1>0, <2>1
       DEF MutexHeld, Places, OwnDescriptors, NoLeak, SessionOn, ReadsLiveSession
  <2>5. MeasuredThisSession'
    <3> SUFFICES ASSUME NEW u \in Callers, NEW c \in Counters, pc[u] = "read"
                 PROVE  result[u].count[c] <= IF fd[c] = Closed THEN 0 ELSE value'[fd[c]]
      BY <2>1 DEF MeasuredThisSession
    <3>1. result[u].count[c] <= IF fd[c] = Closed THEN 0 ELSE value[fd[c]]
      BY <1>0 DEF MeasuredThisSession
    <3>2. result[u].count[c] \in 0 .. MaxCount
      BY <1>0 DEF TypeOK
    <3>3. CASE fd[c] = Closed
      BY <3>1, <3>3
    <3>4. CASE fd[c] # Closed
      <4>1. fd[c] \in Descriptors
        BY <1>0, <3>4 DEF TypeOK
      <4>2. value[fd[c]] \in 0 .. MaxCount /\ value'[fd[c]] \in 0 .. MaxCount
            /\ value[fd[c]] <= value'[fd[c]]
        BY <1>0, <2>2, <4>1 DEF TypeOK
      <4> QED BY <3>1, <3>2, <3>4, <4>2
    <3> QED BY <3>3, <3>4
  <2> QED BY <2>3, <2>4, <2>5 DEF PmuInv
<1>2. CASE OtherOpens \/ OtherCloses
  <2>1. UNCHANGED <<fd, active, running, value, mutex, pc, next, stopping, result>>
    BY <1>2 DEF OtherOpens, OtherCloses
  <2>2. PICK d \in Descriptors, f \in {Unused, Other} :
           table[d] \in {Unused, Other} /\ table' = [table EXCEPT ![d] = f]
    BY <1>2 DEF OtherOpens, OtherCloses, IsLowest
  <2>3. TypeOK'
    BY <1>0, <2>1, <2>2 DEF TypeOK
  <2>4. OwnDescriptors'
    BY <1>0, <2>1, <2>2 DEF OwnDescriptors, TypeOK
  <2>5. NoLeak'
    BY <1>0, <2>1, <2>2 DEF NoLeak, TypeOK
  <2>6. MutexHeld' /\ Places' /\ SessionOn' /\ ReadsLiveSession' /\ MeasuredThisSession'
    BY <1>0, <2>1
       DEF MutexHeld, Places, SessionOn, ReadsLiveSession, MeasuredThisSession
  <2> QED BY <2>3, <2>4, <2>5, <2>6 DEF PmuInv
<1>3. CASE UNCHANGED vars
  BY <1>0, <1>3 DEF vars, kernelVars, PmuInv, TypeOK, MutexHeld, Places, OwnDescriptors,
                    NoLeak, SessionOn, ReadsLiveSession, MeasuredThisSession
<1> QED BY <1>1, <1>2, <1>3

LEMMA Invariance == Spec => []PmuInv
<1>1. PmuInv /\ [Next]_vars => PmuInv'
  BY StartSteps, ReadSteps, OtherSteps DEF Next, Call
<1> QED BY <1>1, InitInv, PTL DEF Spec
-----------------------------------------------------------------------------
(* Every variable keeps its type: in particular no caller opens a sixth counter. *)
THEOREM TypeCorrect == Spec => []TypeOK
<1>1. PmuInv => TypeOK
  BY DEF PmuInv
<1> QED BY <1>1, Invariance, PTL

(* The profiler only holds descriptors of its own perf events, for any number of *)
(* callers and however the rest of the process opens and closes files.           *)
THEOREM DescriptorsAreOwn == Spec => []OwnDescriptors
<1>1. PmuInv => OwnDescriptors
  BY DEF PmuInv
<1> QED BY <1>1, Invariance, PTL

(* No perf event outlives the descriptors the profiler holds, whichever counters *)
(* could be opened.                                                              *)
THEOREM NothingLeaks == Spec => []NoLeak
<1>1. PmuInv => NoLeak
  BY DEF PmuInv
<1> QED BY <1>1, Invariance, PTL

(* Whoever reads, reads from a session that stays on until the last counter. *)
THEOREM SessionIsLive == Spec => []ReadsLiveSession
<1>1. PmuInv => ReadsLiveSession
  BY DEF PmuInv
<1> QED BY <1>1, Invariance, PTL

(* What is read was counted since this session began. *)
THEOREM OfThisSession == Spec => []MeasuredThisSession
<1>1. PmuInv => MeasuredThisSession
  BY DEF PmuInv
<1> QED BY <1>1, Invariance, PTL
=============================================================================
