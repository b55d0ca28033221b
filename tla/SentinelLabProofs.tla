------------------------- MODULE SentinelLabProofs -------------------------
(***************************************************************************)
(* The daemon, for any sources, labels and scores, any number of frames and  *)
(* any sizes of the queue, the socket's buffer and the kernel's map.         *)
(***************************************************************************)
EXTENDS SentinelLab, TLAPS, FiniteSetTheorems, SequenceTheorems

FP == INSTANCE EBPFFilterHarnessProofs WITH
          Callers <- {"worker"}, Ips <- Sources, Malformed <- {},
          MaxDrops <- 1, pc <- filterPc
-----------------------------------------------------------------------------
(* The parts of the inductive invariant.  What main has behind it: it starts the *)
(* threads and ends the joins in this order.                                     *)
BeforeWorker == {"load", "start rest", "start receiver", "start worker"}
ReceiverJoined == {"stop rest", "join rest", "join worker", "report", "export",
                   "destroy", "exited", "killed"}
RestJoined == {"join worker", "report", "export", "destroy", "exited", "killed"}
WorkerJoined == {"report", "export", "destroy", "exited", "killed"}

Lifecycle ==
    /\ main \in BeforeWorker \cup {"sleep", "stop receiver", "join receiver"} \cup ReceiverJoined
    /\ listener \in {"off", "bind", "test", "recvfrom", "check", "close", "ended"}
    /\ rest \in {"off", "bind", "test", "accept", "read", "metrics", "count", "ended"}
    /\ worker \in {"off", "test", "pop", "predict", "decide", "block", "record", "ended"}
    /\ {running, recvRunning, restRunning} \subseteq BOOLEAN
    /\ main \in BeforeWorker <=> worker = "off"
    /\ main \in ReceiverJoined => listener = "ended"
    /\ main \in RestJoined => rest = "ended"
    /\ main \in WorkerJoined => worker = "ended"

(* The listener's thread does not exist before main starts the receiver.          *)
NoListener == main \in {"load", "start rest", "start receiver"} => listener = "off"

(* The listener leaves its loop, and main the sleep, only after Ctrl+C.            *)
Stopping ==
    /\ main \in {"stop receiver", "join receiver", "stop rest", "join rest", "join worker",
                "report", "export", "destroy", "exited"} => running = FALSE
    /\ listener \notin {"off", "ended"} /\ recvRunning = FALSE => running = FALSE
    /\ listener = "close" => running = FALSE

(* The harness is at the step that main is at, and the worker's call of block_ip  *)
(* is for the source of the event in hand.                                       *)
InStep ==
    /\ main = "load" => owner \in {"new", "attach"}
    /\ main = "destroy" => owner \in {"ready", "close"}
    /\ main = "exited" => owner = "gone"
    /\ main = "killed" => owner = "killed"
    /\ main \notin {"load", "destroy", "exited", "killed"} => owner = "ready"
    /\ worker = "block" => /\ filterPc["worker"] \in {"block", "insert"}
                           /\ ip["worker"] = event.frame.source
                           /\ Verdict(event.score) = "KernelDropped"
    /\ worker # "block" => filterPc["worker"] = "idle"

(* What each thread has in hand. *)
Hands ==
    /\ frames \in 0 .. MaxFrames
    /\ inbox \in Seq(Frame \cup Noises) /\ Len(inbox) <= SocketBuffer
    /\ datagram \in Frame \cup Noises \cup {Nothing}
    /\ queue \in Seq(Frame) /\ Len(queue) <= QueueBound
    /\ popped = [t \in {"listener", "worker"} |-> popped[t]]
    /\ popped["listener"] \in BOOLEAN \cup {Nothing}
    /\ popped["worker"] \in Frame \cup {Nothing}
    /\ event \in [frame : Frame, score : Scores] \cup {Nothing}
    /\ recorded \in Seq([frame : Frame, action : Verdicts])
    /\ listener = "check" => datagram \in Frame \cup Noises
    /\ worker = "predict" => popped["worker"] \in Frame
    /\ worker \in {"decide", "block", "record"} => event \in [frame : Frame, score : Scores]

(* Before there is a report, nothing was left behind; with it, nothing moves.     *)
Final ==
    /\ main = "load" => recorded = <<>>
    /\ report # Nothing => main \in WorkerJoined /\ report = Len(recorded)
    /\ csv # Nothing => main \in WorkerJoined /\ csv = recorded

(* The kernel holds s back, or it has no map, or no room. *)
Backed(s) == s \in FP!InMap \/ mapFd < 0 \/ Cardinality(FP!InMap) = MapEntries

Backing ==
    /\ IsFiniteSet(FP!InMap) /\ Cardinality(FP!InMap) <= MapEntries
    /\ owner = "ready" =>
          /\ \A k \in 1 .. Len(recorded) :
                recorded[k].action = "KernelDropped" => Backed(recorded[k].frame.source)
          /\ worker = "record" /\ Verdict(event.score) = "KernelDropped"
                => Backed(event.frame.source)

(* What a client was told is no more than what the telemetry thread has seen, and  *)
(* that no more than there is.                                                   *)
Told ==
    /\ snapshot \in Nat
    /\ response \in [total : Nat, blocked : Nat]
    /\ response.total <= snapshot /\ snapshot <= Len(recorded)
    /\ response.blocked <= Cardinality(blockedIps)

Refused == dropped \subseteq 1 .. frames /\ unread \subseteq 1 .. frames

(* Numbers on record rise, so there are no more of them than frames.              *)
FewRecorded == Len(recorded) <= MaxFrames

DaemonInv == /\ Lifecycle /\ NoListener /\ Stopping /\ FP!HarnessInv /\ InStep /\ Hands /\ Final
             /\ Backing /\ Told /\ Refused /\ Accounting /\ FewRecorded
-----------------------------------------------------------------------------
(* Each instance has the cardinality of the library.                             *)
LEMMA SameCardinality == \A S : /\ Filter!Cardinality(S) = Cardinality(S)
                                /\ FP!Cardinality(S) = Cardinality(S)
BY DEF Filter!Cardinality, FP!Cardinality, Cardinality

(* The proofs about the harness are about the harness that the daemon uses.     *)
LEMMA SameHarness == /\ Filter!Init <=> FP!Init
                     /\ [Filter!Next]_(Filter!vars) <=> [FP!Next]_(FP!vars)
                     /\ Filter!TypeOK <=> FP!TypeOK
                     /\ Filter!InMap = FP!InMap
<1>1. Filter!InMap = FP!InMap
  BY DEF Filter!InMap, FP!InMap
<1>2. Filter!Init <=> FP!Init
  BY DEF Filter!Init, FP!Init
<1>3. Filter!TypeOK <=> FP!TypeOK
  BY <1>1 DEF Filter!TypeOK, FP!TypeOK, Filter!Fd, FP!Fd, Filter!Strings, FP!Strings
<1>4. Filter!vars = FP!vars /\ Filter!vars' = FP!vars'
  BY DEF Filter!vars, FP!vars, Filter!ownerVars, FP!ownerVars, Filter!callVars, FP!callVars
<1>5. Filter!Own <=> FP!Own
  BY DEF Filter!Own, FP!Own, Filter!LoadFails, FP!LoadFails, Filter!LoadObject, FP!LoadObject,
         Filter!Attach, FP!Attach, Filter!AttachFails, FP!AttachFails, Filter!DetachProgram,
         FP!DetachProgram, Filter!Detach, FP!Detach, Filter!CloseObject, FP!CloseObject,
         Filter!KeptByProgram, FP!KeptByProgram, Filter!Killed, FP!Killed, Filter!callVars, FP!callVars,
         Filter!Fd, FP!Fd
<1>6. ASSUME NEW t \in {"worker"} PROVE Filter!Block(t) <=> FP!Block(t)
  <2> USE <1>1 DEF Filter!ownerVars, FP!ownerVars, Filter!Return, FP!Return
  <2>1. \A s : Filter!KernelTakes(s) <=> FP!KernelTakes(s)
    BY SameCardinality DEF Filter!KernelTakes, FP!KernelTakes
  <2>2. \A s : Filter!BlockEnter(t, s) <=> FP!BlockEnter(t, s)
    BY DEF Filter!BlockEnter, FP!BlockEnter, Filter!Enter, FP!Enter
  <2>3. /\ Filter!BlockKnown(t) <=> FP!BlockKnown(t)
        /\ Filter!BlockRefused(t) <=> FP!BlockRefused(t)
        /\ Filter!BlockInsert(t) <=> FP!BlockInsert(t)
    BY DEF Filter!BlockKnown, FP!BlockKnown, Filter!BlockRefused, FP!BlockRefused,
           Filter!BlockInsert, FP!BlockInsert
  <2>4. Filter!BlockUpdateFails(t) <=> FP!BlockUpdateFails(t)
    BY <2>1 DEF Filter!BlockUpdateFails, FP!BlockUpdateFails
  <2>5. Filter!BlockUpdate(t) <=> FP!BlockUpdate(t)
    BY <2>1 DEF Filter!BlockUpdate, FP!BlockUpdate
  <2> QED
    BY <2>2, <2>3, <2>4, <2>5 DEF Filter!Block, FP!Block, Filter!Strings, FP!Strings
<1>7. \A t \in {"worker"} : Filter!Unblock(t) <=> FP!Unblock(t)
  BY <1>1 DEF Filter!Unblock, FP!Unblock, Filter!UnblockEnter, FP!UnblockEnter, Filter!Enter,
         FP!Enter, Filter!UnblockRefused, FP!UnblockRefused, Filter!UnblockDelete,
         FP!UnblockDelete, Filter!UnblockErase, FP!UnblockErase, Filter!Return, FP!Return,
         Filter!Strings, FP!Strings, Filter!ownerVars, FP!ownerVars
<1>8. \A s \in Sources : Filter!XdpFirewall(s) <=> FP!XdpFirewall(s)
  BY <1>1 DEF Filter!XdpFirewall, FP!XdpFirewall, Filter!XdpDrops, FP!XdpDrops,
         Filter!ownerVars, FP!ownerVars, Filter!callVars, FP!callVars
<1>9. Filter!Next <=> FP!Next
  BY <1>5, <1>6, <1>7, <1>8 DEF Filter!Next, FP!Next
<1>10. [Filter!Next]_(Filter!vars) <=> [FP!Next]_(FP!vars)
  BY <1>4, <1>9
<1> QED
  BY <1>1, <1>2, <1>3, <1>10

LEMMA HarnessStep == FP!HarnessInv /\ [Filter!Next]_(Filter!vars) => FP!HarnessInv'
BY SameHarness, FP!HarnessStep, MapAssumption, NobodyAssumption
-----------------------------------------------------------------------------
(* Which steps of the daemon move the harness. *)
Quiet == UNCHANGED filterVars

LEMMA WhoMovesHarness ==
    [Next]_vars => \/ Quiet \/ Load \/ Destroy \/ StartBlock \/ BlockStep \/ FrameDropped
                   \/ BrokenPipe
<1> SUFFICES ASSUME [Next]_vars, ~ Load, ~ Destroy, ~ StartBlock, ~ BlockStep, ~ FrameDropped,
                    ~ BrokenPipe
             PROVE  Quiet
  OBVIOUS
<1> USE DEF Quiet
<1>1. CASE Main
  BY <1>1 DEF Main, StartRest, StartReceiver, StartWorker, LeaveSleep, StopReceiver,
              JoinReceiver, StopRest, JoinRest, JoinWorker, Report, Export, MainOnly
<1>2. CASE Listener
  BY <1>2 DEF Listener, ListenerBinds, ListenerTests, CloseSocket, Receive, Discard, Push, ListenerOnly
<1>3. CASE Worker
  BY <1>3 DEF Worker, WorkerTests, Pop, PopNothing, Predict, LetPass, Record
<1>4. CASE Rest
  BY <1>4 DEF Rest, RestBinds, RestTests, RestMetrics, RestAnswers, RestSendFails, RestOnly
<1>5. CASE Environment
  BY <1>5 DEF Environment, Signal, ClientConnects, ClientSends, BrokenPipe, RestOnly, FrameArrives,
              NoiseArrives, Arrives
<1>6. CASE UNCHANGED vars
  BY <1>6 DEF vars
<1> QED
  BY <1>1, <1>2, <1>3, <1>4, <1>5, <1>6 DEF Next

(* Every step of the daemon is a step of the harness, or leaves it alone.         *)
LEMMA FilterMoves == Hands /\ [Next]_vars => [Filter!Next]_(Filter!vars)
<1> SUFFICES ASSUME Hands, [Next]_vars PROVE [Filter!Next]_(Filter!vars)
  OBVIOUS
<1>1. CASE Quiet
  BY <1>1 DEF Quiet, filterVars, Filter!vars, Filter!ownerVars, Filter!callVars
<1>2. CASE Load \/ Destroy
  BY <1>2 DEF Load, Destroy, Filter!Next, Filter!Own
<1>3. CASE StartBlock
  <2>1. event.frame.source \in Filter!Strings
    BY <1>3 DEF StartBlock, Hands, Frame, Filter!Strings
  <2> QED
    BY <1>3, <2>1 DEF StartBlock, Filter!Next, Filter!Block
<1>4. CASE BlockStep
  BY <1>4 DEF BlockStep, Filter!Next, Filter!Block
<1>5. CASE FrameDropped
  BY <1>5 DEF FrameDropped, Filter!Next
<1>6. CASE BrokenPipe
  BY <1>6 DEF BrokenPipe, Filter!Next, Filter!Own
<1> QED
  BY <1>1, <1>2, <1>3, <1>4, <1>5, <1>6, WhoMovesHarness

LEMMA LifecycleStep == Lifecycle /\ InStep /\ [Next]_vars => Lifecycle'
<1> SUFFICES ASSUME Lifecycle, InStep, [Next]_vars PROVE Lifecycle'
  OBVIOUS
<1> USE DEF Lifecycle, BeforeWorker, ReceiverJoined, RestJoined, WorkerJoined
<1>1. CASE Main
  <2>1. CASE Load
    BY <2>1 DEF Load, flagVars
  <2>2. CASE Destroy
    BY <2>2 DEF Destroy, flagVars
  <2> QED
    BY <1>1, <2>1, <2>2 DEF Main, StartRest, StartReceiver, StartWorker, LeaveSleep,
           StopReceiver, JoinReceiver, StopRest, JoinRest, JoinWorker, Report, Export, flagVars
<1>2. CASE Listener
  BY <1>2 DEF Listener, ListenerBinds, ListenerTests, CloseSocket, Receive, Discard, Push, ListenerOnly,
              flagVars
<1>3. CASE Worker
  BY <1>3 DEF Worker, WorkerTests, Pop, PopNothing, Predict, StartBlock, BlockStep, LetPass,
              Record, WorkerOnly, flagVars
<1>4. CASE Rest
  BY <1>4 DEF Rest, RestBinds, RestTests, RestMetrics, RestAnswers, RestSendFails, RestOnly, flagVars
<1>5. CASE Environment
  <2>1. CASE Signal \/ FrameDropped
    BY <2>1 DEF Signal, FrameDropped, threadVars, flagVars
  <2>2. CASE ClientConnects \/ ClientSends \/ BrokenPipe
    BY <2>2 DEF ClientConnects, ClientSends, BrokenPipe, RestOnly, flagVars
  <2>3. CASE FrameArrives \/ NoiseArrives
    <3>1. \E d : Arrives(d)
      BY <2>3 DEF FrameArrives, NoiseArrives
    <3> QED
      BY <3>1 DEF Arrives, threadVars, flagVars
  <2> QED
    BY <1>5, <2>1, <2>2, <2>3 DEF Environment
<1>6. CASE UNCHANGED vars
  BY <1>6 DEF vars, threadVars, flagVars
<1> QED
  BY <1>1, <1>2, <1>3, <1>4, <1>5, <1>6 DEF Next

LEMMA NoListenerStep == NoListener /\ [Next]_vars => NoListener'
<1> SUFFICES ASSUME NoListener, [Next]_vars PROVE NoListener'
  OBVIOUS
<1> USE DEF NoListener
<1>1. CASE Main
  BY <1>1 DEF Main, Load, StartRest, StartReceiver, StartWorker, LeaveSleep, StopReceiver,
         JoinReceiver, StopRest, JoinRest, JoinWorker, Report, Export, Destroy
<1>2. CASE Listener
  BY <1>2 DEF Listener, ListenerBinds, ListenerTests, CloseSocket, Receive, Discard, Push, ListenerOnly
<1>3. CASE Worker
  BY <1>3 DEF Worker, WorkerTests, Pop, PopNothing, Predict, StartBlock, BlockStep, LetPass,
              Record, WorkerOnly
<1>4. CASE Rest
  BY <1>4 DEF Rest, RestBinds, RestTests, RestMetrics, RestAnswers, RestSendFails, RestOnly
<1>5. ASSUME NEW d, Arrives(d) PROVE UNCHANGED threadVars
  BY <1>5 DEF Arrives
<1>6. CASE Environment
  BY <1>5, <1>6 DEF Environment, Signal, ClientConnects, ClientSends, BrokenPipe, RestOnly, FrameArrives,
                    NoiseArrives, FrameDropped, threadVars
<1>7. CASE UNCHANGED vars
  BY <1>7 DEF vars, threadVars
<1> QED
  BY <1>1, <1>2, <1>3, <1>4, <1>6, <1>7 DEF Next

(* Ctrl+C is never taken back, and main alone moves the receiver's flag.          *)
LEMMA FlagsMove ==
    [Next]_vars => /\ running' = running \/ running' = FALSE
                   /\ \/ recvRunning' = recvRunning
                      \/ recvRunning' = TRUE /\ StartReceiver
                      \/ recvRunning' = FALSE /\ StopReceiver
<1> SUFFICES ASSUME [Next]_vars
             PROVE  /\ running' = running \/ running' = FALSE
                    /\ \/ recvRunning' = recvRunning
                       \/ recvRunning' = TRUE /\ StartReceiver
                       \/ recvRunning' = FALSE /\ StopReceiver
  OBVIOUS
<1>1. CASE Main
  <2>1. CASE StartReceiver \/ StopReceiver
    BY <2>1 DEF StartReceiver, StopReceiver
  <2>2. CASE Load \/ Destroy
    BY <2>2 DEF Load, Destroy, flagVars
  <2> QED
    BY <1>1, <2>1, <2>2 DEF Main, StartRest, StartWorker, LeaveSleep,
       JoinReceiver, StopRest, JoinRest, JoinWorker, Report, Export, flagVars
<1>2. CASE Listener
  BY <1>2 DEF Listener, ListenerBinds, ListenerTests, CloseSocket, Receive, Discard, Push,
              ListenerOnly, flagVars
<1>3. CASE Worker
  BY <1>3 DEF Worker, WorkerTests, Pop, PopNothing, Predict, StartBlock, BlockStep, LetPass,
              Record, WorkerOnly, flagVars
<1>4. CASE Rest
  BY <1>4 DEF Rest, RestBinds, RestTests, RestMetrics, RestAnswers, RestSendFails, RestOnly,
              flagVars
<1>5. ASSUME NEW d, Arrives(d) PROVE UNCHANGED flagVars
  BY <1>5 DEF Arrives
<1>6. CASE Environment
  BY <1>5, <1>6 DEF Environment, Signal, ClientConnects, ClientSends, BrokenPipe, RestOnly,
                    FrameArrives, NoiseArrives, FrameDropped, flagVars
<1>7. CASE UNCHANGED vars
  BY <1>7 DEF vars, flagVars
<1> QED
  BY <1>1, <1>2, <1>3, <1>4, <1>6, <1>7 DEF Next

(* Which steps move the listener's thread, and which take main to its shutdown.    *)
LEMMA WhoMoves ==
    [Next]_vars => /\ \/ listener' = listener
                      \/ StartReceiver /\ listener' = "bind"
                      \/ ListenerTests
                      \/ listener \notin {"off", "ended"} /\ listener' # "close"
                      \/ listener' = "ended"
                   /\ \/ main' \in {"load", "start rest", "start receiver", "start worker",
                                    "sleep", "killed"}
                      \/ LeaveSleep
                      \/ main' = main
                      \/ main \in {"stop receiver", "join receiver", "stop rest", "join rest",
                                   "join worker", "report", "export", "destroy"}
                   /\ StopReceiver => main = "stop receiver"
<1> SUFFICES ASSUME [Next]_vars
             PROVE  /\ \/ listener' = listener
                       \/ StartReceiver /\ listener' = "bind"
                       \/ ListenerTests
                       \/ listener \notin {"off", "ended"} /\ listener' # "close"
                       \/ listener' = "ended"
                    /\ \/ main' \in {"load", "start rest", "start receiver", "start worker",
                                     "sleep", "killed"}
                       \/ LeaveSleep
                       \/ main' = main
                       \/ main \in {"stop receiver", "join receiver", "stop rest", "join rest",
                                    "join worker", "report", "export", "destroy"}
                    /\ StopReceiver => main = "stop receiver"
  OBVIOUS
<1>0. StopReceiver => main = "stop receiver"
  BY DEF StopReceiver
<1>1. CASE Main
  <2>1. CASE Load \/ Destroy
    BY <1>0, <2>1 DEF Load, Destroy
  <2>2. CASE StartReceiver
    BY <1>0, <2>2 DEF StartReceiver
  <2>3. CASE LeaveSleep
    BY <1>0, <2>3 DEF LeaveSleep
  <2> QED
    BY <1>0, <1>1, <2>1, <2>2, <2>3 DEF Main, StartRest, StartWorker, StopReceiver,
       JoinReceiver, StopRest, JoinRest, JoinWorker, Report, Export
<1>2. CASE Listener
  BY <1>0, <1>2 DEF Listener, ListenerBinds, ListenerTests, CloseSocket, Receive, Discard, Push,
              ListenerOnly
<1>3. CASE Worker
  BY <1>0, <1>3 DEF Worker, WorkerTests, Pop, PopNothing, Predict, StartBlock, BlockStep, LetPass,
              Record, WorkerOnly
<1>4. CASE Rest
  BY <1>0, <1>4 DEF Rest, RestBinds, RestTests, RestMetrics, RestAnswers, RestSendFails, RestOnly
<1>5. ASSUME NEW d, Arrives(d) PROVE UNCHANGED threadVars
  BY <1>5 DEF Arrives
<1>6. CASE Environment
  BY <1>0, <1>5, <1>6 DEF Environment, Signal, ClientConnects, ClientSends, BrokenPipe, RestOnly,
                    FrameArrives, NoiseArrives, FrameDropped, threadVars
<1>7. CASE UNCHANGED vars
  BY <1>0, <1>7 DEF vars, threadVars
<1> QED
  BY <1>1, <1>2, <1>3, <1>4, <1>6, <1>7 DEF Next

LEMMA StoppingStep == Lifecycle /\ NoListener /\ Stopping /\ [Next]_vars => Stopping'
<1> SUFFICES ASSUME Lifecycle, NoListener, Stopping, [Next]_vars PROVE Stopping'
  OBVIOUS
<1> USE DEF Stopping
<1>0. running \in BOOLEAN /\ recvRunning \in BOOLEAN
  BY DEF Lifecycle
<1>1. running = FALSE => running' = FALSE
  BY FlagsMove
<1>2. LeaveSleep => running = FALSE
  BY <1>0 DEF LeaveSleep
<1>3. ListenerTests => /\ listener = "test"
                       /\ recvRunning = FALSE \/ listener' = "recvfrom"
  BY <1>0 DEF ListenerTests
<1>4. StopReceiver => running = FALSE
  BY WhoMoves
<1>5. StartReceiver => listener = "off" /\ listener' = "bind" /\ recvRunning' = TRUE
  BY DEF StartReceiver, NoListener
<1>6. main' \in {"stop receiver", "join receiver", "stop rest", "join rest", "join worker",
                 "report", "export", "destroy", "exited"} => running' = FALSE
  BY <1>1, <1>2, WhoMoves
<1>7. listener' = "close" => running' = FALSE
  BY <1>1, <1>3, WhoMoves
<1>8. listener' \notin {"off", "ended"} /\ recvRunning' = FALSE => running' = FALSE
  <2> SUFFICES ASSUME listener' \notin {"off", "ended"}, recvRunning' = FALSE, running # FALSE
               PROVE  FALSE
    BY <1>1
  <2>1. recvRunning' = recvRunning
    BY <1>4, <1>5, FlagsMove
  <2> QED
    BY <1>3, <1>5, <2>1, WhoMoves
<1> QED
  BY <1>6, <1>7, <1>8

LEMMA InStepStep == DaemonInv /\ FP!HarnessInv' /\ [Next]_vars => InStep'
<1> SUFFICES ASSUME Lifecycle, FP!HarnessInv, InStep, FP!HarnessInv', [Next]_vars PROVE InStep'
  BY DEF DaemonInv
<1> USE DEF InStep
<1>0. /\ filterPc \in [{"worker"} -> {"idle", "block", "insert", "unblock", "erase"}]
      /\ ip \in [{"worker"} -> FP!Strings \cup {Nobody}]
  BY DEF FP!HarnessInv, FP!TypeOK
<1>1. CASE Load
  BY <1>1 DEF Load, Lifecycle, BeforeWorker, Filter!LoadFails, Filter!LoadObject,
              Filter!Attach, Filter!AttachFails, Filter!callVars, resultVars
<1>2. CASE Destroy
  BY <1>2 DEF Destroy, Filter!DetachProgram, Filter!Detach, Filter!CloseObject, Filter!callVars, resultVars
<1>3. CASE StartBlock
  BY <1>0, <1>3 DEF StartBlock, Filter!BlockEnter, Filter!Enter, Filter!ownerVars, WorkerOnly
<1>4. CASE BlockStep
  BY <1>0, <1>4 DEF BlockStep, Filter!BlockKnown, Filter!BlockRefused, Filter!BlockUpdateFails,
              Filter!BlockUpdate, Filter!BlockInsert, Filter!Return, Filter!ownerVars, WorkerOnly
<1>5. CASE FrameDropped
  BY <1>5 DEF FrameDropped, Filter!XdpFirewall, Filter!ownerVars, Filter!callVars, threadVars,
              resultVars
<1>6. CASE Quiet /\ Main /\ ~ Load /\ ~ Destroy
  BY <1>6 DEF Lifecycle, BeforeWorker, Quiet, filterVars, Main, StartRest, StartReceiver,
         StartWorker, LeaveSleep,
         StopReceiver, JoinReceiver, StopRest, JoinRest, JoinWorker, Report, Export, MainOnly
<1>7. CASE Quiet /\ Listener
  BY <1>7 DEF Quiet, filterVars, Listener, ListenerBinds, ListenerTests, CloseSocket, Receive, Discard, Push,
         ListenerOnly, resultVars
<1>8. CASE Quiet /\ Worker /\ ~ StartBlock /\ ~ BlockStep
  BY <1>8 DEF Quiet, filterVars, Worker, WorkerTests, Pop, PopNothing, Predict, LetPass, Record,
         WorkerOnly
<1>9. CASE Quiet /\ Rest
  BY <1>9 DEF Quiet, filterVars, Rest, RestBinds, RestTests, RestMetrics, RestAnswers, RestSendFails, RestOnly,
         resultVars
<1>10. CASE Quiet /\ Environment /\ ~ BrokenPipe
  BY <1>10 DEF Quiet, filterVars, Environment, Signal, ClientConnects, ClientSends, RestOnly,
         FrameArrives, NoiseArrives, FrameDropped, Arrives, threadVars, resultVars
<1>11. CASE UNCHANGED vars
  BY <1>11 DEF vars, filterVars, threadVars, resultVars
<1>12. CASE BrokenPipe
  BY <1>12 DEF BrokenPipe, Filter!Killed
<1> QED
  BY <1>1, <1>2, <1>3, <1>4, <1>5, <1>6, <1>7, <1>8, <1>9, <1>10, <1>11, <1>12, WhoMovesHarness
     DEF Next

LEMMA HandsStep == Lifecycle /\ Hands /\ [Next]_vars => Hands'
<1> SUFFICES ASSUME Lifecycle, Hands, [Next]_vars PROVE Hands'
  OBVIOUS
<1> USE DEF Hands
<1>0. <<>> \in Seq(Frame \cup Noises) /\ Len(<<>>) <= SocketBuffer
  BY EmptySeq, SocketAssumption
<1>1. CASE Main
  <2>1. CASE Load
    BY <2>1 DEF Load, ingestVars, queueVars, resultVars
  <2>2. CASE Destroy
    BY <2>2 DEF Destroy, ingestVars, queueVars, resultVars
  <2>3. CASE StartReceiver \/ StartWorker
    BY <2>3 DEF StartReceiver, StartWorker, MainOnly, ingestVars, queueVars
  <2> QED
    BY <1>1, <2>1, <2>2, <2>3 DEF Main, StartRest, LeaveSleep, StopReceiver, JoinReceiver,
           StopRest, JoinRest, JoinWorker, Report, Export, MainOnly, ingestVars, queueVars
<1>2. CASE Listener
  <2>1. CASE ListenerBinds \/ ListenerTests \/ Discard
    BY <2>1 DEF ListenerBinds, ListenerTests, Discard, ListenerOnly, queueVars, resultVars
  <2>4. CASE CloseSocket
    BY <1>0, <2>4 DEF CloseSocket, ListenerOnly, queueVars, resultVars
  <2>2. CASE Receive
    <3>1. /\ Head(inbox) \in Frame \cup Noises
          /\ Tail(inbox) \in Seq(Frame \cup Noises) /\ Len(Tail(inbox)) = Len(inbox) - 1
      BY <2>2, HeadTailProperties DEF Receive
    <3> QED
      BY <2>2, <3>1, SocketAssumption
         DEF Receive, ListenerOnly, queueVars, resultVars
  <2>3. CASE Push
    <3>1. datagram \in Frame
      BY <2>3 DEF Push
    <3>2. /\ popped' = [popped EXCEPT !["listener"] = popped'["listener"]]
          /\ popped'["listener"] \in BOOLEAN
      BY <2>3 DEF Push, Queue!Push, Queue!Refuse
    <3>3. queue' \in Seq(Frame) /\ Len(queue') <= QueueBound
      <4>1. CASE queue' = queue
        BY <4>1
      <4>2. CASE queue' = Append(queue, datagram) /\ Len(queue) < QueueBound
        BY <3>1, <4>2, AppendProperties, QueueAssumption
      <4> QED
        BY <2>3, <4>1, <4>2 DEF Push, Queue!Push, Queue!Refuse
    <3> QED
      BY <2>3, <3>2, <3>3 DEF Push, ListenerOnly, resultVars
  <2> QED
    BY <1>2, <2>1, <2>2, <2>3, <2>4 DEF Listener
<1>3. CASE Worker
  <2>1. CASE WorkerTests \/ StartBlock \/ BlockStep \/ LetPass
    BY <2>1 DEF WorkerTests, StartBlock, BlockStep, LetPass, WorkerOnly, ingestVars
  <2>2. CASE Pop
    <3>1. Head(queue) \in Frame /\ Tail(queue) \in Seq(Frame) /\ Len(Tail(queue)) = Len(queue) - 1
      BY <2>2, HeadTailProperties DEF Pop, Queue!Pop
    <3>2. queue' = Tail(queue) /\ Len(queue') <= QueueBound
      BY <2>2, <3>1, QueueAssumption DEF Pop, Queue!Pop
    <3>3. popped' = [popped EXCEPT !["worker"] = Head(queue)]
      BY <2>2 DEF Pop, Queue!Pop
    <3> QED
      BY <2>2, <3>1, <3>2, <3>3 DEF Pop, WorkerOnly, ingestVars
  <2>3. CASE PopNothing
    BY <2>3 DEF PopNothing, Queue!ComeBackEmpty, WorkerOnly, ingestVars
  <2>4. CASE Predict
    <3>1. event' \in [frame : Frame, score : Scores]
      BY <2>4 DEF Predict
    <3> QED
      BY <2>4, <3>1 DEF Predict, WorkerOnly, ingestVars
  <2>5. CASE Record
    <3>1. [frame |-> event.frame, action |-> Verdict(event.score)]
             \in [frame : Frame, action : Verdicts]
      BY <2>5 DEF Record, Verdict, Verdicts
    <3>2. recorded' \in Seq([frame : Frame, action : Verdicts])
      BY <2>5, <3>1, AppendProperties DEF Record
    <3> QED
      BY <2>5, <3>2 DEF Record, WorkerOnly, ingestVars
  <2> QED
    BY <1>3, <2>1, <2>2, <2>3, <2>4, <2>5 DEF Worker
<1>4. CASE Rest
  BY <1>4 DEF Rest, RestBinds, RestTests, RestMetrics, RestAnswers, RestSendFails, RestOnly, ingestVars,
              queueVars, resultVars
<1>5. CASE Environment
  <2>1. CASE Signal \/ FrameDropped
    BY <2>1 DEF Signal, FrameDropped, threadVars, ingestVars, queueVars, resultVars
  <2>2. CASE ClientConnects \/ ClientSends
    BY <2>2 DEF ClientConnects, ClientSends, RestOnly, ingestVars, queueVars, resultVars
  <2>4. CASE BrokenPipe
    BY <1>0, <2>4 DEF BrokenPipe, queueVars, resultVars
  <2>3. CASE FrameArrives \/ NoiseArrives
    <3>1. /\ frames' \in 0 .. MaxFrames
          /\ \E d \in Frame \cup Noises : Arrives(d)
      <4>1. CASE FrameArrives
        <5>1. PICK s \in Sources, l \in Labels :
                     Arrives([id |-> frames + 1, source |-> s, label |-> l])
          BY <4>1 DEF FrameArrives
        <5>2. frames + 1 \in 1 .. MaxFrames
          BY <4>1, FramesAssumption DEF FrameArrives
        <5> QED
          BY <4>1, <5>1, <5>2 DEF FrameArrives, Frame
      <4>2. CASE NoiseArrives
        BY <4>2 DEF NoiseArrives
      <4> QED
        BY <2>3, <4>1, <4>2
    <3>2. PICK d \in Frame \cup Noises : Arrives(d)
      BY <3>1
    <3>3. inbox' \in Seq(Frame \cup Noises) /\ Len(inbox') <= SocketBuffer
      BY <3>2, SocketAssumption DEF Arrives
    <3> QED
      BY <3>1, <3>2, <3>3 DEF Arrives, threadVars, queueVars, resultVars
  <2> QED
    BY <1>5, <2>1, <2>2, <2>3, <2>4 DEF Environment
<1>6. CASE UNCHANGED vars
  BY <1>6 DEF vars, threadVars, ingestVars, queueVars, resultVars
<1> QED
  BY <1>1, <1>2, <1>3, <1>4, <1>5, <1>6 DEF Next

(* Only the worker records, only main writes what it leaves behind, and main never *)
(* comes back.                                                                   *)
LEMMA WhoWritesResults ==
    [Next]_vars => /\ recorded' = recorded \/ Record
                   /\ UNCHANGED <<report, csv>> \/ Report \/ Export
                   /\ main' = "load" => main = "load"
                   /\ main \in WorkerJoined => main' \in WorkerJoined
<1> SUFFICES ASSUME [Next]_vars
             PROVE  /\ recorded' = recorded \/ Record
                    /\ UNCHANGED <<report, csv>> \/ Report \/ Export
                    /\ main' = "load" => main = "load"
                    /\ main \in WorkerJoined => main' \in WorkerJoined
  OBVIOUS
<1> USE DEF WorkerJoined
<1>1. CASE Main
  <2>1. CASE Load \/ Destroy
    BY <2>1 DEF Load, Destroy, resultVars
  <2> QED
    BY <1>1, <2>1 DEF Main, StartRest, StartReceiver, StartWorker, LeaveSleep, StopReceiver,
           JoinReceiver, StopRest, JoinRest, JoinWorker, Report, Export, MainOnly
<1>2. CASE Listener
  BY <1>2 DEF Listener, ListenerBinds, ListenerTests, CloseSocket, Receive, Discard, Push, ListenerOnly,
              resultVars
<1>3. CASE Worker
  BY <1>3 DEF Worker, WorkerTests, Pop, PopNothing, Predict, StartBlock, BlockStep, LetPass,
              Record, WorkerOnly
<1>4. CASE Rest
  BY <1>4 DEF Rest, RestBinds, RestTests, RestMetrics, RestAnswers, RestSendFails, RestOnly, resultVars
<1>5. CASE Environment
  <2>1. CASE Signal \/ FrameDropped
    BY <2>1 DEF Signal, FrameDropped, threadVars, resultVars
  <2>2. CASE ClientConnects \/ ClientSends \/ BrokenPipe
    BY <2>2 DEF ClientConnects, ClientSends, BrokenPipe, RestOnly, resultVars
  <2>3. ASSUME NEW d, Arrives(d)
        PROVE  UNCHANGED <<main, recorded, report, csv>>
    BY <2>3 DEF Arrives, threadVars, resultVars
  <2> QED
    BY <1>5, <2>1, <2>2, <2>3 DEF Environment, FrameArrives, NoiseArrives
<1>6. CASE UNCHANGED vars
  BY <1>6 DEF vars, threadVars, resultVars
<1> QED
  BY <1>1, <1>2, <1>3, <1>4, <1>5, <1>6 DEF Next

LEMMA FinalStep == Lifecycle /\ Final /\ [Next]_vars => Final'
<1> SUFFICES ASSUME Lifecycle, Final, [Next]_vars PROVE Final'
  OBVIOUS
<1> USE DEF Final
<1>1. main \in WorkerJoined \cup BeforeWorker => recorded' = recorded
  BY WhoWritesResults DEF Record, Lifecycle, ReceiverJoined
<1>2. CASE UNCHANGED <<report, csv>>
  BY <1>1, <1>2, WhoWritesResults DEF BeforeWorker
<1>3. CASE Report
  BY <1>1, <1>3 DEF Report, WorkerJoined
<1>4. CASE Export
  BY <1>1, <1>4 DEF Export, WorkerJoined
<1> QED
  BY <1>2, <1>3, <1>4, WhoWritesResults

(* The mirror only grows: nobody in the daemon unblocks an address.               *)
LEMMA MirrorGrows == Hands /\ FP!HarnessInv /\ FP!HarnessInv' /\ [Next]_vars =>
                         /\ blockedIps \subseteq blockedIps'
                         /\ IsFiniteSet(blockedIps')
                         /\ Cardinality(blockedIps) \in Nat
                         /\ Cardinality(blockedIps') \in Nat
                         /\ Cardinality(blockedIps) <= Cardinality(blockedIps')
                         /\ Cardinality(blockedIps) <= Cardinality(Sources)
<1> SUFFICES ASSUME Hands, FP!HarnessInv, FP!HarnessInv', [Next]_vars
             PROVE  /\ blockedIps \subseteq blockedIps'
                    /\ IsFiniteSet(blockedIps')
                    /\ Cardinality(blockedIps) \in Nat
                    /\ Cardinality(blockedIps') \in Nat
                    /\ Cardinality(blockedIps) <= Cardinality(blockedIps')
                    /\ Cardinality(blockedIps) <= Cardinality(Sources)
  OBVIOUS
<1>1. blockedIps \subseteq Sources /\ blockedIps' \subseteq Sources
  BY DEF FP!HarnessInv, FP!TypeOK
<1>2. blockedIps \subseteq blockedIps'
  <2>1. CASE Quiet
    BY <2>1 DEF Quiet, filterVars
  <2>2. CASE Load
    BY <2>2 DEF Load, Filter!LoadFails, Filter!LoadObject, Filter!Attach, Filter!AttachFails
  <2>3. CASE Destroy
    BY <2>3 DEF Destroy, Filter!DetachProgram, Filter!Detach, Filter!CloseObject
  <2>4. CASE StartBlock
    BY <2>4 DEF StartBlock, Filter!BlockEnter, Filter!Enter
  <2>5. CASE BlockStep
    BY <2>5 DEF BlockStep, Filter!BlockKnown, Filter!BlockRefused, Filter!BlockUpdateFails,
                Filter!BlockUpdate, Filter!BlockInsert
  <2>6. CASE FrameDropped
    BY <2>6 DEF FrameDropped, Filter!XdpFirewall
  <2>7. CASE BrokenPipe
    BY <2>7 DEF BrokenPipe, Filter!Killed
  <2> QED
    BY <2>1, <2>2, <2>3, <2>4, <2>5, <2>6, <2>7, WhoMovesHarness
<1>3. IsFiniteSet(blockedIps) /\ IsFiniteSet(blockedIps')
  BY <1>1, SourceAssumption, FS_Subset
<1> QED
  BY <1>1, <1>2, <1>3, SourceAssumption, FS_Subset, FS_CardinalityType

LEMMA ToldStep ==
    Hands /\ FP!HarnessInv /\ FP!HarnessInv' /\ Told /\ [Next]_vars
        => Told' /\ response'.total >= response.total /\ response'.blocked >= response.blocked
<1> SUFFICES ASSUME Hands, FP!HarnessInv, FP!HarnessInv', Told, [Next]_vars
             PROVE  /\ Told'
                    /\ response'.total >= response.total
                    /\ response'.blocked >= response.blocked
  OBVIOUS
<1> USE DEF Told
<1>1. /\ Cardinality(blockedIps) \in Nat /\ Cardinality(blockedIps') \in Nat
      /\ Cardinality(blockedIps) <= Cardinality(blockedIps')
  BY MirrorGrows
<1>2. Len(recorded) \in Nat /\ Len(recorded') \in Nat /\ Len(recorded) <= Len(recorded')
  <2>1. CASE recorded' = recorded
    BY <2>1 DEF Hands
  <2>2. CASE Record
    <3>1. [frame |-> event.frame, action |-> Verdict(event.score)]
             \in [frame : Frame, action : Verdicts]
      BY <2>2 DEF Record, Verdict, Verdicts, Hands
    <3> QED
      BY <2>2, <3>1, AppendProperties DEF Record, Hands
  <2> QED
    BY <2>1, <2>2, WhoWritesResults
<1>3. CASE UNCHANGED restVars
  BY <1>1, <1>2, <1>3 DEF restVars
<1>4. CASE RestMetrics
  BY <1>1, <1>2, <1>4 DEF RestMetrics, RestOnly, resultVars
<1>5. CASE RestAnswers
  <2>1. recorded' = recorded /\ blockedIps' = blockedIps
    BY <1>5 DEF RestAnswers, RestOnly, resultVars, filterVars
  <2> QED
    BY <1>1, <1>2, <1>5, <2>1 DEF RestAnswers
<1>6. UNCHANGED restVars \/ RestMetrics \/ RestAnswers
  <2>1. CASE Main
    BY <2>1 DEF Main, Load, StartRest, StartReceiver, StartWorker, LeaveSleep, StopReceiver,
           JoinReceiver, StopRest, JoinRest, JoinWorker, Report, Export, Destroy, MainOnly
  <2>2. CASE Listener
    BY <2>2 DEF Listener, ListenerBinds, ListenerTests, CloseSocket, Receive, Discard, Push, ListenerOnly
  <2>3. CASE Worker
    BY <2>3 DEF Worker, WorkerTests, Pop, PopNothing, Predict, StartBlock, BlockStep, LetPass,
                Record, WorkerOnly
  <2>4. CASE Rest
    BY <2>4 DEF Rest, RestBinds, RestTests, RestSendFails
  <2>5. ASSUME NEW d, Arrives(d) PROVE UNCHANGED restVars
    BY <2>5 DEF Arrives
  <2>6. CASE Environment
    BY <2>5, <2>6 DEF Environment, Signal, ClientConnects, ClientSends, BrokenPipe, FrameArrives,
                      NoiseArrives, FrameDropped
  <2>7. CASE UNCHANGED vars
    BY <2>7 DEF vars
  <2> QED
    BY <2>1, <2>2, <2>3, <2>4, <2>6, <2>7 DEF Next
<1> QED
  BY <1>3, <1>4, <1>5, <1>6
-----------------------------------------------------------------------------
(* What one more address does to the kernel's map.                              *)
LEMMA RoomForOne == ASSUME NEW S, IsFiniteSet(S), NEW s, Cardinality(S) <= MapEntries,
                           s \in S \/ Cardinality(S) < MapEntries
                    PROVE  /\ IsFiniteSet(S \cup {s}) /\ Cardinality(S \cup {s}) <= MapEntries
                           /\ Cardinality(S) = MapEntries => S \cup {s} = S
<1>1. Cardinality(S) \in Nat
  BY FS_CardinalityType
<1>2. /\ IsFiniteSet(S \cup {s})
      /\ Cardinality(S \cup {s}) = IF s \in S THEN Cardinality(S) ELSE Cardinality(S) + 1
  BY FS_AddElement
<1>3. CASE s \in S
  BY <1>2, <1>3
<1>4. CASE s \notin S
  BY <1>1, <1>2, <1>4, MapAssumption
<1> QED
  BY <1>3, <1>4

(* The map stays within its bounds; and while the harness is in use, an address   *)
(* that is held back stays so.                                                  *)
LEMMA MapStep ==
    FP!HarnessInv /\ InStep /\ Backing /\ [Next]_vars =>
        /\ IsFiniteSet(FP!InMap') /\ Cardinality(FP!InMap') <= MapEntries
        /\ owner = "ready" /\ owner' = "ready" => \A s : Backed(s) => Backed(s)'
        /\ owner # "ready" /\ owner' = "ready" => Load
<1> SUFFICES ASSUME FP!HarnessInv, InStep, Backing, [Next]_vars
             PROVE  /\ IsFiniteSet(FP!InMap') /\ Cardinality(FP!InMap') <= MapEntries
                    /\ owner = "ready" /\ owner' = "ready" => \A s : Backed(s) => Backed(s)'
                    /\ owner # "ready" /\ owner' = "ready" => Load
  OBVIOUS
<1> USE DEF Backing, Backed
<1>1. CASE UNCHANGED <<FP!InMap, mapFd, owner>>
  BY <1>1
<1>2. CASE Load
  <2>1. FP!InMap' = FP!InMap /\ owner # "ready"
    BY <1>2 DEF Load, Filter!LoadFails, Filter!LoadObject, Filter!Attach, Filter!AttachFails,
                FP!InMap
  <2> QED
    BY <1>2, <2>1
<1>3. CASE Destroy \/ BrokenPipe
  <2>1. owner' # "ready" /\ (FP!InMap' = FP!InMap \/ FP!InMap' = {})
    <3>1. CASE Filter!DetachProgram
      BY <3>1 DEF Filter!DetachProgram, Filter!Detach, FP!InMap
    <3>2. CASE Filter!CloseObject \/ Filter!Killed
      <4>1. owner' # "ready" /\ (dropCount' = dropCount \/ dropCount' = [i \in {} |-> 0])
        BY <3>2 DEF Filter!CloseObject, Filter!Killed, Filter!KeptByProgram
      <4>2. DOMAIN dropCount' = DOMAIN dropCount \/ DOMAIN dropCount' = {}
        BY <4>1
      <4> QED
        BY <4>1, <4>2 DEF FP!InMap
    <3> QED
      BY <1>3, <3>1, <3>2 DEF Destroy, BrokenPipe
  <2>2. IsFiniteSet({}) /\ Cardinality({}) <= MapEntries
    BY FS_EmptySet, MapAssumption
  <2> QED
    BY <2>1, <2>2
<1>4. CASE BlockStep /\ Filter!BlockUpdate("worker")
  <2> DEFINE s == ip["worker"]
  <2>1. /\ FP!InMap' = FP!InMap \cup {s}
        /\ s \in FP!InMap \/ Cardinality(FP!InMap) < MapEntries
        /\ UNCHANGED <<mapFd, owner>>
    BY <1>4, SameHarness, SameCardinality
       DEF Filter!BlockUpdate, Filter!KernelTakes, Filter!ownerVars, FP!InMap
  <2> QED
    BY <2>1, RoomForOne
<1>5. CASE BlockStep /\ ~ Filter!BlockUpdate("worker")
  <2>1. UNCHANGED <<FP!InMap, mapFd, owner>>
    BY <1>5 DEF BlockStep, Filter!BlockKnown, Filter!BlockRefused, Filter!BlockUpdateFails,
                Filter!BlockInsert, Filter!Return, Filter!ownerVars, FP!InMap
  <2> QED
    BY <1>1, <2>1
<1>6. CASE FrameDropped
  <2>1. UNCHANGED <<mapFd, owner>> /\ DOMAIN dropCount' = DOMAIN dropCount
    BY <1>6 DEF FrameDropped, Filter!XdpFirewall, Filter!ownerVars
  <2> QED
    BY <1>1, <2>1 DEF FP!InMap
<1>7. CASE StartBlock
  BY <1>1, <1>7 DEF StartBlock, Filter!BlockEnter, Filter!Enter, Filter!ownerVars, FP!InMap
<1>8. CASE Quiet
  BY <1>1, <1>8 DEF Quiet, filterVars, FP!InMap
<1> QED
  BY <1>2, <1>3, <1>4, <1>5, <1>6, <1>7, <1>8, WhoMovesHarness

(* When block_ip has come back, the kernel holds the address back as far as it     *)
(* could, whatever the answer was.                                              *)
LEMMA BlockingBacks ==
    FP!HarnessInv /\ InStep /\ Backing /\ BlockStep /\ worker' = "record"
        => Backed(event.frame.source)'
<1> SUFFICES ASSUME FP!HarnessInv, InStep, Backing, BlockStep, worker' = "record"
             PROVE  Backed(event.frame.source)'
  OBVIOUS
<1> DEFINE s == ip["worker"]
<1>1. /\ s = event.frame.source
      /\ event' = event /\ mutex = "worker" /\ owner = "ready"
      /\ filterPc["worker"] \in {"block", "insert"}
  BY NobodyAssumption DEF InStep, BlockStep, FP!HarnessInv, FP!MutexHeld, FP!Descriptors
<1>2. /\ filterPc["worker"] = "block" => blockedIps = FP!InMap
      /\ filterPc["worker"] = "insert" => s \in FP!InMap
  BY <1>1 DEF FP!HarnessInv, FP!MirrorAgrees
<1>3. ~ Filter!BlockUpdate("worker")
  BY DEF BlockStep, Filter!BlockUpdate, FP!HarnessInv, FP!TypeOK
<1>4. UNCHANGED <<FP!InMap, mapFd>>
  BY <1>3 DEF BlockStep, Filter!BlockKnown, Filter!BlockRefused, Filter!BlockUpdateFails,
              Filter!BlockInsert, Filter!Return, Filter!ownerVars, FP!InMap
<1>5. Backed(s)
  <2>1. CASE Filter!BlockKnown("worker") \/ Filter!BlockInsert("worker")
    BY <1>1, <1>2, <2>1 DEF Filter!BlockKnown, Filter!BlockInsert, Backed
  <2>2. CASE Filter!BlockRefused("worker")
    BY <2>2 DEF Filter!BlockRefused, Backed
  <2>3. CASE Filter!BlockUpdateFails("worker")
    <3>1. loaded
      BY <1>1, <2>3 DEF Filter!BlockUpdateFails, FP!HarnessInv, FP!Descriptors
    <3>2. ~ (Cardinality(FP!InMap) < MapEntries)
      BY <2>3, <3>1, SameHarness, SameCardinality DEF Filter!BlockUpdateFails, Filter!KernelTakes
    <3> QED
      BY <3>2, MapAssumption, FS_CardinalityType DEF Backing, Backed
  <2> QED
    BY <1>3, <2>1, <2>2, <2>3 DEF BlockStep
<1> QED
  BY <1>1, <1>4, <1>5 DEF Backed

LEMMA BackingStep ==
    Lifecycle /\ FP!HarnessInv /\ InStep /\ Hands /\ Final /\ Backing /\ [Next]_vars => Backing'
<1> SUFFICES ASSUME Lifecycle, FP!HarnessInv, InStep, Hands, Final, Backing, [Next]_vars,
                    owner' = "ready"
             PROVE  /\ \A k \in 1 .. Len(recorded') :
                          recorded'[k].action = "KernelDropped"
                              => Backed(recorded[k].frame.source)'
                    /\ worker' = "record" /\ Verdict(event'.score) = "KernelDropped"
                          => Backed(event.frame.source)'
  BY MapStep DEF Backing, Verdict
<1>1. CASE owner # "ready"
  <2>1. Load
    BY <1>1, MapStep
  <2>2. recorded' = <<>> /\ worker' = "off"
    BY <2>1 DEF Load, Final, resultVars, Lifecycle, BeforeWorker
  <2> QED
    BY <2>2
<1>2. CASE owner = "ready"
  <2>1. \A s : Backed(s) => Backed(s)'
    BY <1>2, MapStep
  <2>2. /\ \A k \in 1 .. Len(recorded) :
              recorded[k].action = "KernelDropped" => Backed(recorded[k].frame.source)
        /\ worker = "record" /\ Verdict(event.score) = "KernelDropped"
              => Backed(event.frame.source)
    BY <1>2 DEF Backing
  <2>3. CASE Record
    <3> DEFINE r == [frame |-> event.frame, action |-> Verdict(event.score)]
    <3>1. r \in [frame : Frame, action : Verdicts]
      BY <2>3 DEF Record, Verdict, Verdicts, Hands
    <3>2. ASSUME NEW k \in 1 .. Len(recorded'), recorded'[k].action = "KernelDropped"
          PROVE  Backed(recorded[k].frame.source)'
      <4>1. recorded' = Append(recorded, r)
        BY <2>3 DEF Record
      <4>2. CASE k \in 1 .. Len(recorded)
        <5>1. recorded'[k] = recorded[k]
          BY <3>1, <4>1, <4>2, AppendProperties DEF Hands
        <5>2. Backed(recorded[k].frame.source)
          BY <2>2, <3>2, <4>2, <5>1
        <5> QED
          BY <2>1, <5>1, <5>2 DEF Backed
      <4>3. CASE k = Len(recorded) + 1
        <5>1. recorded'[k] = r
          BY <3>1, <4>1, <4>3, AppendProperties DEF Hands
        <5>2. Backed(event.frame.source)
          BY <2>2, <2>3, <3>2, <5>1 DEF Record
        <5> QED
          BY <2>1, <5>1, <5>2 DEF Backed
      <4> QED
        BY <3>1, <4>1, <4>2, <4>3, AppendProperties DEF Hands
    <3> QED
      BY <2>3, <3>2 DEF Record
  <2>4. CASE recorded' = recorded
    <3>1. ASSUME NEW k \in 1 .. Len(recorded'), recorded'[k].action = "KernelDropped"
          PROVE  Backed(recorded[k].frame.source)'
      BY <2>1, <2>2, <2>4, <3>1 DEF Backed
    <3>2. ASSUME worker' = "record", Verdict(event'.score) = "KernelDropped"
          PROVE  Backed(event.frame.source)'
      <4>1. BlockStep \/ LetPass \/ (worker = "record" /\ event' = event)
        <5>1. CASE Main
          BY <3>2, <5>1 DEF Main, Load, StartRest, StartReceiver, StartWorker, LeaveSleep,
             StopReceiver, JoinReceiver, StopRest, JoinRest, JoinWorker, Report, Export, Destroy,
             MainOnly, resultVars
        <5>2. CASE Listener
          BY <3>2, <5>2 DEF Listener, ListenerBinds, ListenerTests, CloseSocket, Receive, Discard, Push,
             ListenerOnly, resultVars
        <5>3. CASE Worker
          BY <3>2, <5>3 DEF Worker, WorkerTests, Pop, PopNothing, Predict, StartBlock, Record
        <5>4. CASE Rest
          BY <3>2, <5>4 DEF Rest, RestBinds, RestTests, RestMetrics, RestAnswers, RestSendFails, RestOnly,
             resultVars
        <5>5. ASSUME NEW d, Arrives(d) PROVE UNCHANGED <<worker, event>>
          BY <5>5 DEF Arrives, threadVars, resultVars
        <5>6. CASE Environment
          BY <3>2, <5>5, <5>6 DEF Environment, Signal, ClientConnects, ClientSends, BrokenPipe, RestOnly,
             FrameArrives, NoiseArrives, FrameDropped, threadVars, resultVars
        <5>7. CASE UNCHANGED vars
          BY <3>2, <5>7 DEF vars, threadVars, resultVars
        <5> QED
          BY <5>1, <5>2, <5>3, <5>4, <5>6, <5>7 DEF Next
      <4>2. CASE BlockStep
        BY <3>2, <4>2, BlockingBacks
      <4>3. CASE LetPass
        BY <3>2, <4>3 DEF LetPass
      <4>4. CASE worker = "record" /\ event' = event
        BY <2>1, <2>2, <3>2, <4>4 DEF Backed
      <4> QED
        BY <4>1, <4>2, <4>3, <4>4
    <3> QED
      BY <3>1, <3>2
  <2> QED
    BY <2>3, <2>4, WhoWritesResults
<1> QED
  BY <1>1, <1>2
-----------------------------------------------------------------------------
(* The two halves of Accounting, of any sequence of numbers.                     *)
Rising(s) == \A j, k \in 1 .. Len(s) : j < k /\ s[k] # 0 => s[j] < s[k]
Numbers(s) == {s[k] : k \in 1 .. Len(s)} \ {0}

LEMMA ConcatPlaces ==
    ASSUME NEW s \in Seq(Nat), NEW t \in Seq(Nat)
    PROVE  /\ s \o t \in Seq(Nat) /\ Len(s \o t) = Len(s) + Len(t)
           /\ Len(s) \in Nat /\ Len(t) \in Nat
           /\ \A k \in 1 .. Len(s) : k \in 1 .. Len(s \o t) /\ (s \o t)[k] = s[k]
           /\ \A k \in 1 .. Len(t) : /\ Len(s) + k \in 1 .. Len(s \o t)
                                     /\ (s \o t)[Len(s) + k] = t[k]
           /\ \A k \in 1 .. Len(s \o t) :
                 k \in 1 .. Len(s) \/ \E i \in 1 .. Len(t) : k = Len(s) + i
<1>1. /\ s \o t \in Seq(Nat) /\ Len(s \o t) = Len(s) + Len(t)
      /\ Len(s) \in Nat /\ Len(t) \in Nat
      /\ \A k \in 1 .. Len(s) : (s \o t)[k] = s[k]
      /\ \A k \in 1 .. Len(t) : (s \o t)[Len(s) + k] = t[k]
  BY ConcatProperties
<1>2. ASSUME NEW k \in 1 .. Len(s \o t)
      PROVE  k \in 1 .. Len(s) \/ \E i \in 1 .. Len(t) : k = Len(s) + i
  <2>1. CASE k <= Len(s)
    BY <1>1, <2>1
  <2>2. CASE k > Len(s)
    <3>1. k - Len(s) \in 1 .. Len(t) /\ k = Len(s) + (k - Len(s))
      BY <1>1, <2>2
    <3> QED
      BY <3>1
  <2> QED
    BY <1>1, <2>1, <2>2
<1>3. /\ \A k \in 1 .. Len(s) : k \in 1 .. Len(s \o t)
      /\ \A k \in 1 .. Len(t) : Len(s) + k \in 1 .. Len(s \o t)
  BY <1>1
<1> QED
  BY <1>1, <1>2, <1>3

LEMMA RisingConcat ==
    ASSUME NEW s \in Seq(Nat), NEW t \in Seq(Nat)
    PROVE  Rising(s \o t) <=> /\ Rising(s) /\ Rising(t)
                              /\ \A j \in 1 .. Len(s), k \in 1 .. Len(t) :
                                    t[k] # 0 => s[j] < t[k]
<1> DEFINE u == s \o t
           Apart == \A j \in 1 .. Len(s), k \in 1 .. Len(t) : t[k] # 0 => s[j] < t[k]
<1>1. /\ Len(s) \in Nat /\ Len(t) \in Nat
      /\ \A k \in 1 .. Len(s) : k \in 1 .. Len(u) /\ u[k] = s[k]
      /\ \A k \in 1 .. Len(t) : Len(s) + k \in 1 .. Len(u) /\ u[Len(s) + k] = t[k]
      /\ \A k \in 1 .. Len(u) : k \in 1 .. Len(s) \/ \E i \in 1 .. Len(t) : k = Len(s) + i
  BY ConcatPlaces
<1> HIDE DEF u
<1>2. ASSUME Rising(u) PROVE Rising(s) /\ Rising(t) /\ Apart
  <2>1. ASSUME NEW j \in 1 .. Len(s), NEW k \in 1 .. Len(s), j < k, s[k] # 0
        PROVE  s[j] < s[k]
    <3>1. j \in 1 .. Len(u) /\ u[j] = s[j] /\ k \in 1 .. Len(u) /\ u[k] = s[k]
      BY <1>1
    <3> QED
      BY <1>2, <2>1, <3>1 DEF Rising
  <2>2. ASSUME NEW j \in 1 .. Len(t), NEW k \in 1 .. Len(t), j < k, t[k] # 0
        PROVE  t[j] < t[k]
    <3>1. /\ Len(s) + j \in 1 .. Len(u) /\ u[Len(s) + j] = t[j]
          /\ Len(s) + k \in 1 .. Len(u) /\ u[Len(s) + k] = t[k]
          /\ Len(s) + j < Len(s) + k
      BY <1>1, <2>2
    <3> QED
      BY <1>2, <2>2, <3>1 DEF Rising
  <2>3. ASSUME NEW j \in 1 .. Len(s), NEW k \in 1 .. Len(t), t[k] # 0
        PROVE  s[j] < t[k]
    <3>1. /\ j \in 1 .. Len(u) /\ u[j] = s[j]
          /\ Len(s) + k \in 1 .. Len(u) /\ u[Len(s) + k] = t[k]
      BY <1>1
    <3>2. j < Len(s) + k
      BY <1>1
    <3> QED
      BY <1>2, <2>3, <3>1, <3>2 DEF Rising
  <2> QED
    BY <2>1, <2>2, <2>3 DEF Rising
<1>3. ASSUME Rising(s), Rising(t), Apart PROVE Rising(u)
  <2> SUFFICES ASSUME NEW j \in 1 .. Len(u), NEW k \in 1 .. Len(u), j < k, u[k] # 0
               PROVE  u[j] < u[k]
    BY DEF Rising
  <2>1. CASE k \in 1 .. Len(s)
    <3>1. j \in 1 .. Len(s)
      BY <1>1, <2>1
    <3>2. u[j] = s[j] /\ u[k] = s[k]
      BY <1>1, <2>1, <3>1
    <3> QED
      BY <1>3, <2>1, <3>1, <3>2 DEF Rising
  <2>2. ASSUME NEW i \in 1 .. Len(t), k = Len(s) + i PROVE u[j] < u[k]
    <3>1. u[k] = t[i]
      BY <1>1, <2>2
    <3>2. CASE j \in 1 .. Len(s)
      <4>1. u[j] = s[j]
        BY <1>1, <3>2
      <4> QED
        BY <1>3, <3>1, <3>2, <4>1
    <3>3. ASSUME NEW h \in 1 .. Len(t), j = Len(s) + h PROVE u[j] < u[k]
      <4>1. u[j] = t[h] /\ h < i
        BY <1>1, <2>2, <3>3
      <4> QED
        BY <1>3, <3>1, <4>1 DEF Rising
    <3> QED
      BY <1>1, <3>2, <3>3
  <2> QED
    BY <1>1, <2>1, <2>2
<1> QED
  BY <1>2, <1>3 DEF u

LEMMA NumbersConcat ==
    ASSUME NEW s \in Seq(Nat), NEW t \in Seq(Nat)
    PROVE  Numbers(s \o t) = Numbers(s) \cup Numbers(t)
<1> DEFINE u == s \o t
<1>1. /\ \A k \in 1 .. Len(s) : k \in 1 .. Len(u) /\ u[k] = s[k]
      /\ \A k \in 1 .. Len(t) : Len(s) + k \in 1 .. Len(u) /\ u[Len(s) + k] = t[k]
      /\ \A k \in 1 .. Len(u) : k \in 1 .. Len(s) \/ \E i \in 1 .. Len(t) : k = Len(s) + i
  BY ConcatPlaces
<1> HIDE DEF u
<1>2. ASSUME NEW k \in 1 .. Len(u), u[k] # 0 PROVE u[k] \in Numbers(s) \cup Numbers(t)
  <2>1. CASE k \in 1 .. Len(s)
    BY <1>1, <1>2, <2>1 DEF Numbers
  <2>2. ASSUME NEW i \in 1 .. Len(t), k = Len(s) + i PROVE u[k] \in Numbers(t)
    <3>1. u[k] = t[i]
      BY <1>1, <2>2
    <3> QED
      BY <1>2, <3>1 DEF Numbers
  <2> QED
    BY <1>1, <2>1, <2>2
<1>3. ASSUME NEW k \in 1 .. Len(s), s[k] # 0 PROVE s[k] \in Numbers(u)
  BY <1>1, <1>3 DEF Numbers
<1>4. ASSUME NEW k \in 1 .. Len(t), t[k] # 0 PROVE t[k] \in Numbers(u)
  <2>1. Len(s) + k \in 1 .. Len(u) /\ u[Len(s) + k] = t[k]
    BY <1>1
  <2> QED
    BY <1>4, <2>1 DEF Numbers
<1>5. Numbers(u) \subseteq Numbers(s) \cup Numbers(t)
  BY <1>2 DEF Numbers
<1>6. Numbers(s) \subseteq Numbers(u) /\ Numbers(t) \subseteq Numbers(u)
  BY <1>3, <1>4 DEF Numbers
<1> QED
  BY <1>5, <1>6 DEF u

LEMMA NumbersOfOne == ASSUME NEW x \in Nat
                      PROVE  /\ Rising(<<x>>) /\ Numbers(<<x>>) = {x} \ {0}
                             /\ <<x>> \in Seq(Nat) /\ Len(<<x>>) = 1 /\ <<x>>[1] = x
BY DEF Rising, Numbers

(* What is left when a number leaves the middle of a rising sequence: it stays     *)
(* rising, and the number was there only once.                                  *)
LEMMA LeavesMiddle ==
    ASSUME NEW s \in Seq(Nat), NEW t \in Seq(Nat), NEW x \in Nat, Rising((s \o <<x>>) \o t)
    PROVE  /\ Rising(s \o t)
           /\ Numbers(s \o t) = Numbers((s \o <<x>>) \o t) \ {x}
<1> DEFINE o == <<x>>
           u == s \o o
<1>1. Numbers(o) = {x} \ {0} /\ o \in Seq(Nat) /\ Len(o) = 1 /\ o[1] = x /\ 1 \in 1 .. Len(o)
  BY NumbersOfOne
<1> HIDE DEF o
<1>2. /\ u \in Seq(Nat) /\ Len(s) \in Nat
      /\ \A k \in 1 .. Len(s) : k \in 1 .. Len(u) /\ u[k] = s[k]
      /\ \A k \in 1 .. Len(o) : Len(s) + k \in 1 .. Len(u) /\ u[Len(s) + k] = o[k]
  BY <1>1, ConcatPlaces
<1>3. Len(s) + 1 \in 1 .. Len(u) /\ u[Len(s) + 1] = x
  BY <1>1, <1>2
<1> HIDE DEF u
<1>4. /\ Rising(u) /\ Rising(t)
      /\ \A j \in 1 .. Len(u), k \in 1 .. Len(t) : t[k] # 0 => u[j] < t[k]
  BY <1>2, RisingConcat DEF o, u
<1>5. /\ Rising(s)
      /\ \A j \in 1 .. Len(s) : x # 0 => s[j] < x
  <2>1. /\ Rising(s)
        /\ \A j \in 1 .. Len(s), k \in 1 .. Len(o) : o[k] # 0 => s[j] < o[k]
    BY <1>1, <1>4, RisingConcat DEF u
  <2> QED
    BY <1>1, <2>1
<1>6. ASSUME NEW k \in 1 .. Len(t), t[k] # 0
      PROVE  x < t[k] /\ \A j \in 1 .. Len(s) : s[j] < t[k]
  <2>1. x < t[k]
    BY <1>3, <1>4, <1>6
  <2> QED
    BY <1>2, <1>4, <1>6, <2>1
<1>7. Rising(s \o t)
  BY <1>4, <1>5, <1>6, RisingConcat
<1>8. Numbers(u \o t) = Numbers(s) \cup ({x} \ {0}) \cup Numbers(t)
  <2>1. Numbers(u) = Numbers(s) \cup Numbers(o)
    BY <1>1, NumbersConcat DEF u
  <2> QED
    BY <1>1, <1>2, <2>1, NumbersConcat
<1>9. x \notin Numbers(s)
  <2> SUFFICES ASSUME NEW k \in 1 .. Len(s), s[k] = x, x # 0 PROVE FALSE
    BY DEF Numbers
  <2> QED
    BY <1>5
<1>10. x \notin Numbers(t)
  <2> SUFFICES ASSUME NEW k \in 1 .. Len(t), t[k] = x, x # 0 PROVE FALSE
    BY DEF Numbers
  <2> QED
    BY <1>6
<1>11. Numbers(s \o t) = Numbers(s) \cup Numbers(t)
  BY NumbersConcat
<1> QED
  BY <1>7, <1>8, <1>9, <1>10, <1>11 DEF o, u

(* A number that is greater than all that are there goes to the end.             *)
LEMMA JoinsEnd ==
    ASSUME NEW s \in Seq(Nat), NEW x \in Nat, Rising(s), x # 0 => \A n \in Numbers(s) : n < x
    PROVE  Rising(s \o <<x>>) /\ Numbers(s \o <<x>>) = Numbers(s) \cup ({x} \ {0})
<1> DEFINE o == <<x>>
<1>1. /\ Rising(o) /\ Numbers(o) = {x} \ {0} /\ o \in Seq(Nat)
      /\ \A k \in 1 .. Len(o) : o[k] = x
  BY NumbersOfOne
<1> HIDE DEF o
<1>2. ASSUME NEW j \in 1 .. Len(s), x # 0 PROVE s[j] < x
  <2>1. s[j] \in Nat
    OBVIOUS
  <2> QED
    BY <1>2, <2>1 DEF Numbers
<1>3. Rising(s \o o)
  BY <1>1, <1>2, RisingConcat
<1>4. Numbers(s \o o) = Numbers(s) \cup Numbers(o)
  BY <1>1, NumbersConcat
<1> QED
  BY <1>1, <1>3, <1>4 DEF o
-----------------------------------------------------------------------------
(* The segments of the pipeline. *)
Datagram == Frame \cup Noises

LEMMA DatagramId == \A d \in Datagram : d.id \in Nat
BY FramesAssumption DEF Datagram, Frame, Noises

LEMMA IdsInSeq == ASSUME NEW s \in Seq(Datagram)
                  PROVE  /\ Ids(s) \in Seq(Nat) /\ Len(Ids(s)) = Len(s) /\ Len(s) \in Nat
                         /\ \A k \in 1 .. Len(s) : Ids(s)[k] = s[k].id
<1>1. Len(s) \in Nat /\ \A k \in 1 .. Len(s) : s[k] \in Datagram
  BY LenProperties, ElementOfSeq
<1>2. Ids(s) \in [1 .. Len(s) -> Nat]
  BY <1>1, DatagramId DEF Ids
<1>3. Ids(s) \in Seq(Nat) /\ Len(Ids(s)) = Len(s)
  BY <1>1, <1>2, IsASeq
<1> QED
  BY <1>1, <1>3 DEF Ids

LEMMA IdsAppend == ASSUME NEW s \in Seq(Datagram), NEW d \in Datagram
                   PROVE  Ids(Append(s, d)) = Ids(s) \o <<d.id>>
<1> DEFINE u == Append(s, d)
           o == <<d.id>>
           v == Ids(s) \o o
<1>1. /\ u \in Seq(Datagram) /\ Len(u) = Len(s) + 1
      /\ \A k \in 1 .. Len(s) : u[k] = s[k]
      /\ u[Len(s) + 1] = d
  BY AppendProperties
<1>2. o \in Seq(Nat) /\ Len(o) = 1 /\ o[1] = d.id
  BY DatagramId, NumbersOfOne
<1> HIDE DEF u, o
<1>3. /\ Ids(s) \in Seq(Nat) /\ Len(Ids(s)) = Len(s) /\ Len(s) \in Nat
      /\ \A k \in 1 .. Len(s) : Ids(s)[k] = s[k].id
  BY IdsInSeq
<1>4. /\ v \in Seq(Nat) /\ Len(v) = Len(s) + 1
      /\ \A k \in 1 .. Len(s) : v[k] = s[k].id
      /\ v[Len(s) + 1] = d.id
  <2>1. /\ v \in Seq(Nat) /\ Len(v) = Len(Ids(s)) + Len(o)
        /\ \A k \in 1 .. Len(Ids(s)) : v[k] = Ids(s)[k]
        /\ \A k \in 1 .. Len(o) : v[Len(Ids(s)) + k] = o[k]
    BY <1>2, <1>3, ConcatPlaces
  <2>2. v[Len(s) + 1] = o[1]
    BY <1>2, <1>3, <2>1
  <2> HIDE DEF v
  <2> QED
    BY <1>2, <1>3, <2>1, <2>2
<1> HIDE DEF v
<1>5. /\ Ids(u) \in Seq(Nat) /\ Len(Ids(u)) = Len(s) + 1
      /\ \A k \in 1 .. Len(s) + 1 : Ids(u)[k] = u[k].id
  BY <1>1, IdsInSeq
<1>6. ASSUME NEW k \in 1 .. Len(s) + 1 PROVE Ids(u)[k] = v[k]
  <2>1. CASE k \in 1 .. Len(s)
    BY <1>1, <1>4, <1>5, <2>1
  <2>2. CASE k = Len(s) + 1
    BY <1>1, <1>4, <1>5, <2>2
  <2> QED
    BY <1>3, <2>1, <2>2
<1>7. Ids(u) = v
  BY <1>4, <1>5, <1>6, SeqEqual
<1> QED
  BY <1>7 DEF u, o, v

LEMMA IdsHead == ASSUME NEW s \in Seq(Datagram), s # <<>>
                 PROVE  Ids(s) = <<Head(s).id>> \o Ids(Tail(s))
<1> DEFINE o == <<Head(s).id>>
           u == Tail(s)
           v == o \o Ids(u)
<1>1. /\ Head(s) \in Datagram /\ Head(s) = s[1]
      /\ u \in Seq(Datagram) /\ Len(u) = Len(s) - 1
      /\ \A k \in 1 .. Len(u) : u[k] = s[k + 1]
  BY HeadTailProperties
<1>2. o \in Seq(Nat) /\ Len(o) = 1 /\ o[1] = s[1].id
  BY <1>1, DatagramId, NumbersOfOne
<1> HIDE DEF u, o
<1>3. /\ Ids(u) \in Seq(Nat) /\ Len(Ids(u)) = Len(u) /\ Len(u) \in Nat
      /\ \A k \in 1 .. Len(u) : Ids(u)[k] = u[k].id
  BY <1>1, IdsInSeq
<1>4. /\ v \in Seq(Nat) /\ Len(v) = Len(s)
      /\ v[1] = s[1].id
      /\ \A k \in 1 .. Len(u) : v[1 + k] = u[k].id
  <2>1. /\ v \in Seq(Nat) /\ Len(v) = Len(o) + Len(Ids(u))
        /\ \A k \in 1 .. Len(o) : v[k] = o[k]
        /\ \A k \in 1 .. Len(Ids(u)) : v[Len(o) + k] = Ids(u)[k]
    BY <1>2, <1>3, ConcatPlaces
  <2>2. v[1] = o[1]
    BY <1>2, <2>1
  <2> HIDE DEF v
  <2>3. Len(s) \in Nat
    BY LenProperties
  <2> QED
    BY <1>1, <1>2, <1>3, <2>1, <2>2, <2>3
<1> HIDE DEF v
<1>5. /\ Ids(s) \in Seq(Nat) /\ Len(Ids(s)) = Len(s) /\ Len(s) \in Nat
      /\ \A k \in 1 .. Len(s) : Ids(s)[k] = s[k].id
  BY IdsInSeq
<1>6. ASSUME NEW k \in 1 .. Len(s) PROVE Ids(s)[k] = v[k]
  <2>1. CASE k = 1
    BY <1>4, <1>5, <2>1
  <2>2. CASE k # 1
    <3>1. k - 1 \in 1 .. Len(u) /\ 1 + (k - 1) = k /\ (k - 1) + 1 = k
      BY <1>1, <1>3, <1>5, <2>2
    <3> DEFINE i == k - 1
    <3>2. u[i] = s[i + 1] /\ v[1 + i] = u[i].id
      BY <1>1, <1>4, <3>1
    <3> QED
      BY <1>5, <3>1, <3>2
  <2> QED
    BY <2>1, <2>2
<1>7. Ids(s) = v
  BY <1>4, <1>5, <1>6, SeqEqual
<1> QED
  BY <1>7 DEF u, o, v

LEMMA RecordedInSeq ==
    Hands => /\ RecordedIds \in Seq(Nat) /\ Len(RecordedIds) = Len(recorded)
             /\ Len(recorded) \in Nat
             /\ \A k \in 1 .. Len(recorded) : RecordedIds[k] = recorded[k].frame.id
<1> SUFFICES ASSUME Hands
             PROVE  /\ RecordedIds \in Seq(Nat) /\ Len(RecordedIds) = Len(recorded)
                    /\ Len(recorded) \in Nat
                    /\ \A k \in 1 .. Len(recorded) : RecordedIds[k] = recorded[k].frame.id
  OBVIOUS
<1>1. /\ Len(recorded) \in Nat
      /\ \A k \in 1 .. Len(recorded) : recorded[k] \in [frame : Frame, action : Verdicts]
  BY LenProperties, ElementOfSeq DEF Hands
<1>2. \A k \in 1 .. Len(recorded) : recorded[k].frame.id \in Nat
  BY <1>1, DatagramId DEF Datagram
<1>3. RecordedIds \in [1 .. Len(recorded) -> Nat]
  BY <1>2 DEF RecordedIds
<1>4. RecordedIds \in Seq(Nat) /\ Len(RecordedIds) = Len(recorded)
  BY <1>1, <1>3, IsASeq
<1> QED
  BY <1>1, <1>4 DEF RecordedIds

LEMMA RecordedAppend ==
    Hands /\ Record => RecordedIds' = RecordedIds \o <<event.frame.id>>
<1> SUFFICES ASSUME Hands, Record PROVE RecordedIds' = RecordedIds \o <<event.frame.id>>
  OBVIOUS
<1> DEFINE r == [frame |-> event.frame, action |-> Verdict(event.score)]
           o == <<event.frame.id>>
           v == RecordedIds \o o
<1>1. r \in [frame : Frame, action : Verdicts] /\ event.frame \in Frame
  BY DEF Record, Verdict, Verdicts, Hands
<1>2. r.frame.id = event.frame.id
  OBVIOUS
<1>3. /\ recorded' \in Seq([frame : Frame, action : Verdicts])
      /\ Len(recorded') = Len(recorded) + 1
      /\ \A k \in 1 .. Len(recorded) : recorded'[k] = recorded[k]
      /\ recorded'[Len(recorded) + 1] = r
  BY <1>1, AppendProperties DEF Record, Hands
<1>4. o \in Seq(Nat) /\ Len(o) = 1 /\ o[1] = event.frame.id
  BY <1>1, DatagramId, NumbersOfOne DEF Datagram
<1> HIDE DEF r, o
<1>5. /\ RecordedIds \in Seq(Nat) /\ Len(RecordedIds) = Len(recorded) /\ Len(recorded) \in Nat
      /\ \A k \in 1 .. Len(recorded) : RecordedIds[k] = recorded[k].frame.id
  BY RecordedInSeq
<1>6. /\ v \in Seq(Nat) /\ Len(v) = Len(recorded) + 1
      /\ \A k \in 1 .. Len(recorded) : v[k] = recorded[k].frame.id
      /\ v[Len(recorded) + 1] = event.frame.id
  <2>1. /\ v \in Seq(Nat) /\ Len(v) = Len(RecordedIds) + Len(o)
        /\ \A k \in 1 .. Len(RecordedIds) : v[k] = RecordedIds[k]
        /\ \A k \in 1 .. Len(o) : v[Len(RecordedIds) + k] = o[k]
    BY <1>4, <1>5, ConcatPlaces
  <2>2. v[Len(recorded) + 1] = o[1]
    BY <1>4, <1>5, <2>1
  <2> HIDE DEF v
  <2> QED
    BY <1>4, <1>5, <2>1, <2>2
<1> HIDE DEF v
<1>7. RecordedIds' = [k \in 1 .. Len(recorded) + 1 |-> recorded'[k].frame.id]
  BY <1>3 DEF RecordedIds
<1>8. ASSUME NEW k \in 1 .. Len(recorded) + 1 PROVE recorded'[k].frame.id = v[k]
  <2>1. CASE k \in 1 .. Len(recorded)
    BY <1>3, <1>6, <2>1
  <2>2. CASE k = Len(recorded) + 1
    BY <1>2, <1>3, <1>6, <2>2
  <2> QED
    BY <1>5, <2>1, <2>2
<1>9. v = [k \in 1 .. Len(recorded) + 1 |-> v[k]]
  BY <1>6, LenProperties
<1> QED
  BY <1>7, <1>8, <1>9 DEF v, o

LEMMA DatagramsInHand ==
    Hands => /\ queue \in Seq(Datagram) /\ inbox \in Seq(Datagram)
             /\ listener = "check" => datagram \in Datagram /\ datagram.id \in Nat
             /\ worker = "predict" => popped["worker"].id \in Nat
             /\ worker \in {"decide", "block", "record"} => event.frame.id \in Nat
<1> SUFFICES ASSUME Hands
             PROVE  /\ queue \in Seq(Datagram) /\ inbox \in Seq(Datagram)
                    /\ listener = "check" => datagram \in Datagram /\ datagram.id \in Nat
                    /\ worker = "predict" => popped["worker"].id \in Nat
                    /\ worker \in {"decide", "block", "record"} => event.frame.id \in Nat
  OBVIOUS
<1>1. queue \in Seq(Datagram)
  BY SeqMonotonic DEF Hands, Datagram
<1> QED
  BY <1>1, DatagramId DEF Hands, Datagram

LEMMA Segments ==
    Hands => /\ RecordedIds \in Seq(Nat) /\ InWorker \in Seq(Nat) /\ Ids(queue) \in Seq(Nat)
             /\ InListener \in Seq(Nat) /\ Ids(inbox) \in Seq(Nat)
<1> SUFFICES ASSUME Hands
             PROVE  /\ RecordedIds \in Seq(Nat) /\ InWorker \in Seq(Nat)
                    /\ Ids(queue) \in Seq(Nat)
                    /\ InListener \in Seq(Nat) /\ Ids(inbox) \in Seq(Nat)
  OBVIOUS
<1>1. RecordedIds \in Seq(Nat) /\ Ids(queue) \in Seq(Nat) /\ Ids(inbox) \in Seq(Nat)
  BY RecordedInSeq, IdsInSeq, DatagramsInHand
<1>2. <<>> \in Seq(Nat)
  OBVIOUS
<1>3. InWorker \in Seq(Nat)
  BY <1>2, DatagramsInHand, NumbersOfOne DEF InWorker
<1>4. InListener \in Seq(Nat)
  BY <1>2, DatagramsInHand, NumbersOfOne DEF InListener
<1> QED
  BY <1>1, <1>3, <1>4

(* How a number changes its segment without moving in the pipeline. *)
LEMMA Regroup ==
    ASSUME NEW a \in Seq(Nat), NEW b \in Seq(Nat), NEW c \in Seq(Nat)
    PROVE  (a \o b) \o c = a \o (b \o c) /\ a \o b \in Seq(Nat) /\ a \o <<>> = a
<1>1. (a \o b) \o c = a \o (b \o c)
  BY ConcatAssociative
<1>2. a \o b \in Seq(Nat)
  BY ConcatProperties
<1>3. a \o <<>> = a
  BY ConcatEmptySeq
<1> QED
  BY <1>1, <1>2, <1>3

LEMMA ConcatMoves == \A a, b, c \in Seq(Nat) : (a \o b) \o c = a \o (b \o c)
BY Regroup

(* The four things that can happen to the pipeline of a daemon that lives. *)
Stays == Pipeline' = Pipeline /\ UNCHANGED <<frames, dropped, unread>>
Loses == \E s, t \in Seq(Nat), x \in Nat :
            /\ Pipeline = (s \o <<x>>) \o t /\ Pipeline' = s \o t
            /\ frames' = frames /\ dropped' = dropped \cup ({x} \ {0}) /\ unread' = unread
Closes == \E s, t \in Seq(Nat) :
             /\ Pipeline = s \o t /\ Pipeline' = s
             /\ frames' = frames /\ dropped' = dropped /\ unread' = unread \cup Numbers(t)
             /\ listener = "close" /\ listener' = "ended" /\ running' = running
Gain(x) == /\ Pipeline' = Pipeline \o <<x>> /\ dropped' = dropped /\ unread' = unread
           /\ (x = 0 /\ frames' = frames) \/ (x = frames + 1 /\ frames' = frames + 1)
Gains == \E x \in Nat : Gain(x)

LEMMA ListenerMoves == Hands /\ Listener => Stays \/ Loses \/ Closes
<1> SUFFICES ASSUME Hands, Listener PROVE Stays \/ Loses \/ Closes
  OBVIOUS
<1>1. /\ RecordedIds \in Seq(Nat) /\ InWorker \in Seq(Nat) /\ Ids(queue) \in Seq(Nat)
      /\ InListener \in Seq(Nat) /\ Ids(inbox) \in Seq(Nat)
  BY Segments
<1>2. /\ RecordedIds' = RecordedIds /\ InWorker' = InWorker /\ frames' = frames
      /\ unread' = unread \/ CloseSocket
  BY DEF Listener, ListenerBinds, ListenerTests, CloseSocket, Receive, Discard, Push, Queue!Push,
         Queue!Refuse, ListenerOnly, queueVars, resultVars, Hands, RecordedIds, InWorker
<1> DEFINE r == RecordedIds
           w == InWorker
           q == Ids(queue)
           i == Ids(inbox)
           rw == r \o w
           rwq == rw \o q
<1>3. rw \in Seq(Nat) /\ rwq \in Seq(Nat)
  BY <1>1, Regroup
<1>4. CASE ListenerBinds \/ ListenerTests
  BY <1>2, <1>4 DEF ListenerBinds, ListenerTests, ListenerOnly, queueVars, Stays, Pipeline,
                    InListener, Ids
<1>5. CASE Receive
  <2>1. Ids(inbox) = <<Head(inbox).id>> \o Ids(Tail(inbox))
    BY <1>5, IdsHead, DatagramsInHand DEF Receive
  <2>2. Head(inbox) \in Datagram /\ Tail(inbox) \in Seq(Datagram)
    BY <1>5, HeadTailProperties, DatagramsInHand DEF Receive
  <2> DEFINE h == <<Head(inbox).id>>
             u == Ids(Tail(inbox))
  <2>3. h \in Seq(Nat) /\ u \in Seq(Nat)
    BY <2>2, DatagramId, NumbersOfOne, IdsInSeq
  <2>4. Pipeline = (rwq \o <<>>) \o i
    BY <1>5 DEF Receive, Pipeline, InListener
  <2>5. Pipeline' = (rwq \o h) \o u
    BY <1>2, <1>5 DEF Receive, Pipeline, InListener, queueVars, Ids
  <2>6. dropped' = dropped /\ unread' = unread
    BY <1>5 DEF Receive, queueVars
  <2> HIDE DEF h, u, rwq, rw, i
  <2>7. rwq \o <<>> = rwq
    BY <1>3, Regroup
  <2>8. (rwq \o h) \o u = rwq \o (h \o u)
    <3>1. rwq \in Seq(Nat) /\ h \in Seq(Nat) /\ u \in Seq(Nat)
      BY <1>3, <2>3
    <3> QED
      BY ONLY <3>1, ConcatMoves
  <2> QED
    BY <1>2, <2>1, <2>4, <2>5, <2>6, <2>7, <2>8 DEF Stays, h, u, i
<1>6. CASE Discard
  <2>1. /\ datagram.id = 0 /\ 0 \in Nat
        /\ Pipeline = (rwq \o <<0>>) \o i
    BY <1>6 DEF Discard, Noises, Pipeline, InListener
  <2>2. Pipeline' = (rwq \o <<>>) \o i
    BY <1>2, <1>6 DEF Discard, Pipeline, InListener, queueVars, Ids
  <2>3. dropped' = dropped \cup ({0} \ {0}) /\ unread' = unread
    BY <1>6 DEF Discard, queueVars
  <2> HIDE DEF rwq, rw, i
  <2>4. rwq \o <<>> = rwq
    BY <1>3, Regroup
  <2>5. i \in Seq(Nat)
    BY <1>1 DEF i
  <2> QED
    BY <1>2, <1>3, <2>1, <2>2, <2>3, <2>4, <2>5 DEF Loses
<1>7. CASE Push
  <2>1. /\ datagram \in Frame /\ datagram \in Datagram /\ datagram.id \in Nat /\ datagram.id # 0
        /\ listener = "check" /\ listener' = "test" /\ inbox' = inbox /\ unread' = unread
    BY <1>7, FramesAssumption DEF Push, Hands, Datagram, Frame
  <2> DEFINE o == <<datagram.id>>
  <2>2. o \in Seq(Nat)
    BY <2>1, NumbersOfOne
  <2>3. Pipeline = (rwq \o o) \o i
    BY <2>1 DEF Pipeline, InListener
  <2>4. CASE Queue!Push("listener", datagram) /\ UNCHANGED dropped
    <3>1. Ids(queue') = q \o o
      <4>1. queue' = Append(queue, datagram)
        BY <2>4 DEF Queue!Push
      <4> QED
        BY <2>1, <4>1, IdsAppend, DatagramsInHand
    <3>2. Pipeline' = ((rw \o (q \o o)) \o <<>>) \o i
      BY <1>2, <2>1, <3>1 DEF Pipeline, InListener, Ids
    <3> HIDE DEF o, q, rw, i
    <3>3. q \in Seq(Nat)
      BY <1>1 DEF q
    <3>4. (rw \o q) \o o = rw \o (q \o o) /\ q \o o \in Seq(Nat)
      BY <1>3, <2>2, <3>3, Regroup
    <3>5. rw \o (q \o o) \in Seq(Nat)
      BY <1>3, <3>4, Regroup
    <3>6. (rw \o (q \o o)) \o <<>> = rw \o (q \o o)
      BY <3>5, Regroup
    <3> QED
      BY <1>2, <2>1, <2>3, <2>4, <3>2, <3>4, <3>6 DEF Stays
  <2>5. CASE Queue!Refuse("listener") /\ dropped' = dropped \cup {datagram.id}
    <3>1. Pipeline' = (rwq \o <<>>) \o i
      BY <1>2, <2>1, <2>5 DEF Queue!Refuse, Pipeline, InListener, Ids
    <3>2. dropped' = dropped \cup ({datagram.id} \ {0})
      BY <2>1, <2>5
    <3> HIDE DEF rwq, rw, i
    <3>3. rwq \o <<>> = rwq
      BY <1>3, Regroup
    <3>4. i \in Seq(Nat)
      BY <1>1 DEF i
    <3> QED
      BY <1>2, <1>3, <2>1, <2>3, <3>1, <3>2, <3>3, <3>4 DEF Loses
  <2> QED
    BY <1>7, <2>4, <2>5 DEF Push
<1>8. CASE CloseSocket
  <2> DEFINE rwql == rwq \o InListener
  <2>1. InListener = <<>> /\ InListener' = <<>> /\ Ids(<<>>) = <<>>
    BY <1>8 DEF CloseSocket, InListener, Ids
  <2>2. Pipeline = rwql \o i
    BY DEF Pipeline
  <2>3. Pipeline' = (rwq \o <<>>) \o <<>>
    BY <1>2, <1>8, <2>1 DEF CloseSocket, queueVars, Pipeline, Ids
  <2>4. rwql = rwq \o <<>>
    BY <2>1
  <2>5. rwql \in Seq(Nat) /\ i \in Seq(Nat)
    BY <1>1, <1>3, Regroup
  <2>6. /\ unread' = unread \cup Numbers(i)
    <3>1. {inbox[k].id : k \in 1 .. Len(inbox)} = {i[k] : k \in 1 .. Len(i)}
      BY IdsInSeq, DatagramsInHand
    <3> QED
      BY <1>8, <3>1 DEF CloseSocket, Numbers
  <2>7. /\ dropped' = dropped /\ running' = running
        /\ listener = "close" /\ listener' = "ended"
    BY <1>8 DEF CloseSocket, ListenerOnly, queueVars, flagVars
  <2> HIDE DEF rwql, rwq, rw, i
  <2>8. rwql \o <<>> = rwql
    BY <2>5, Regroup
  <2> QED
    BY <1>2, <2>2, <2>3, <2>4, <2>5, <2>6, <2>7, <2>8 DEF Closes
<1> QED
  BY <1>4, <1>5, <1>6, <1>7, <1>8 DEF Listener

LEMMA WorkerMoves == Hands /\ Worker => Stays
<1> SUFFICES ASSUME Hands, Worker PROVE Pipeline' = Pipeline /\ UNCHANGED <<frames, dropped, unread>>
  BY DEF Stays
<1>1. /\ RecordedIds \in Seq(Nat) /\ InWorker \in Seq(Nat) /\ Ids(queue) \in Seq(Nat)
      /\ InListener \in Seq(Nat) /\ Ids(inbox) \in Seq(Nat)
  BY Segments
<1>2. /\ InListener' = InListener /\ Ids(inbox') = Ids(inbox)
      /\ UNCHANGED <<frames, dropped, unread>>
  BY DEF Worker, WorkerTests, Pop, PopNothing, Predict, StartBlock, BlockStep, LetPass, Record,
         WorkerOnly, ingestVars, InListener
<1> DEFINE r == RecordedIds
           q == Ids(queue)
<1>3. CASE WorkerTests \/ PopNothing \/ Predict \/ StartBlock \/ BlockStep \/ LetPass
  <2>1. RecordedIds' = RecordedIds /\ Ids(queue') = Ids(queue)
    BY <1>3 DEF WorkerTests, PopNothing, Queue!ComeBackEmpty, Predict, StartBlock, BlockStep,
                LetPass, RecordedIds
  <2>2. InWorker' = InWorker
    BY <1>3 DEF WorkerTests, PopNothing, Predict, StartBlock, BlockStep, LetPass, InWorker
  <2> QED
    BY <1>2, <2>1, <2>2 DEF Pipeline, Ids
<1>4. CASE Pop
  <2> DEFINE h == <<Head(queue).id>>
             u == Ids(Tail(queue))
  <2>1. q = h \o u
    BY <1>4, IdsHead, DatagramsInHand DEF Pop, Queue!Pop
  <2>2. Head(queue) \in Datagram /\ Tail(queue) \in Seq(Datagram)
    BY <1>4, HeadTailProperties, DatagramsInHand DEF Pop, Queue!Pop
  <2>3. h \in Seq(Nat) /\ u \in Seq(Nat)
    BY <2>2, DatagramId, NumbersOfOne, IdsInSeq
  <2>4. InWorker = <<>>
    BY <1>4 DEF Pop, InWorker
  <2>5. InWorker' = h
    BY <1>4 DEF Pop, Queue!Pop, InWorker, Hands
  <2>6. RecordedIds' = RecordedIds /\ Ids(queue)' = u
    BY <1>4 DEF Pop, Queue!Pop, RecordedIds, Ids
  <2> HIDE DEF h, u
  <2>7. RecordedIds \o <<>> = RecordedIds
    BY <1>1, Regroup
  <2>8. (RecordedIds \o h) \o u = RecordedIds \o (h \o u)
    <3>1. RecordedIds \in Seq(Nat) /\ h \in Seq(Nat) /\ u \in Seq(Nat)
      BY <1>1, <2>3
    <3> QED
      BY ONLY <3>1, ConcatMoves
  <2> HIDE DEF q
  <2>9. RecordedIds \o InWorker \o Ids(queue) = (RecordedIds \o InWorker \o Ids(queue))'
    BY <2>1, <2>4, <2>5, <2>6, <2>7, <2>8 DEF q
  <2> QED
    BY <1>2, <2>9 DEF Pipeline, Ids
<1>5. CASE Record
  <2> DEFINE o == <<event.frame.id>>
  <2>1. InWorker = o /\ InWorker' = <<>>
    BY <1>5 DEF Record, InWorker
  <2>2. RecordedIds' = RecordedIds \o o
    BY <1>5, RecordedAppend
  <2>3. Ids(queue)' = Ids(queue)
    BY <1>5 DEF Record, Ids
  <2>4. RecordedIds \o o \in Seq(Nat)
    BY <1>1, <2>1, Regroup
  <2> HIDE DEF o
  <2>5. (RecordedIds \o o) \o <<>> = RecordedIds \o o
    BY <2>4, Regroup
  <2>6. RecordedIds \o InWorker = (RecordedIds \o InWorker)'
    BY <2>1, <2>2, <2>5
  <2> QED
    BY <1>2, <2>3, <2>6 DEF Pipeline, Ids
<1> QED
  BY <1>3, <1>4, <1>5 DEF Worker

LEMMA NetworkMoves == Hands /\ (FrameArrives \/ NoiseArrives) => Gains
<1> SUFFICES ASSUME Hands, FrameArrives \/ NoiseArrives PROVE Gains
  OBVIOUS
<1>1. ASSUME NEW d \in Datagram, Arrives(d)
      PROVE  Pipeline' = Pipeline \o <<d.id>> /\ dropped' = dropped /\ unread' = unread
  <2>1. inbox' = Append(inbox, d)
    BY <1>1 DEF Arrives
  <2>2. Ids(inbox)' = Ids(inbox) \o <<d.id>>
    BY <2>1, IdsAppend, DatagramsInHand DEF Ids
  <2> DEFINE a == RecordedIds \o InWorker \o Ids(queue) \o InListener
             o == <<d.id>>
             i == Ids(inbox)
  <2>3. a \in Seq(Nat) /\ i \in Seq(Nat) /\ o \in Seq(Nat)
    BY Segments, ConcatProperties, DatagramId, NumbersOfOne
  <2>4. a' = a /\ dropped' = dropped /\ unread' = unread
    BY <1>1 DEF Arrives, threadVars, queueVars, resultVars, RecordedIds, InWorker, InListener, Ids
  <2>5. Pipeline' = a \o (i \o o) /\ Pipeline = a \o i
    BY <2>2, <2>4 DEF Pipeline
  <2> HIDE DEF a, o, i
  <2>6. (a \o i) \o o = a \o (i \o o)
    BY ONLY <2>3, ConcatMoves
  <2> QED
    BY <2>4, <2>5, <2>6 DEF o
<1>2. CASE FrameArrives
  <2>1. PICK s \in Sources, l \in Labels :
               Arrives([id |-> frames + 1, source |-> s, label |-> l])
    BY <1>2 DEF FrameArrives
  <2> DEFINE d == [id |-> frames + 1, source |-> s, label |-> l]
  <2>2. frames' = frames + 1 /\ frames + 1 \in Nat /\ frames + 1 \in 1 .. MaxFrames
    BY <1>2, FramesAssumption DEF FrameArrives, Hands
  <2>3. d \in Datagram /\ d.id = frames + 1
    BY <2>2 DEF Frame, Datagram
  <2> HIDE DEF d
  <2>4. Pipeline' = Pipeline \o <<d.id>> /\ dropped' = dropped /\ unread' = unread
    BY <1>1, <2>1, <2>3 DEF d
  <2> QED
    BY <2>2, <2>3, <2>4 DEF Gains, Gain
<1>3. CASE NoiseArrives
  <2>1. PICK d \in Noises : Arrives(d)
    BY <1>3 DEF NoiseArrives
  <2>2. d \in Datagram /\ d.id = 0
    BY DEF Noises, Datagram
  <2>3. 0 \in Nat /\ frames' = frames
    BY <1>3 DEF NoiseArrives
  <2>4. Pipeline' = Pipeline \o <<d.id>> /\ dropped' = dropped /\ unread' = unread
    BY <1>1, <2>1, <2>2
  <2> QED
    BY <2>2, <2>3, <2>4 DEF Gains, Gain
<1> QED
  BY <1>2, <1>3

(* No step of anyone else moves a frame. *)
LEMMA PipelineMoves ==
    Lifecycle /\ NoListener /\ Hands /\ [Next]_vars
        => Stays \/ Loses \/ Closes \/ Gains \/ BrokenPipe
<1> SUFFICES ASSUME Lifecycle, NoListener, Hands, [Next]_vars, ~ BrokenPipe
             PROVE  Stays \/ Loses \/ Closes \/ Gains
  OBVIOUS
<1> DEFINE Idle == UNCHANGED <<frames, dropped, unread, recorded, InWorker, queue, InListener,
                              inbox>>
<1>1. CASE Idle
  BY <1>1 DEF Stays, Pipeline, RecordedIds, Ids
<1>2. CASE Main
  <2>1. InListener' = InListener
    <3>1. CASE StartReceiver
      BY <3>1 DEF StartReceiver, NoListener, InListener, MainOnly, ingestVars
    <3>2. CASE ~ StartReceiver
      BY <1>2, <3>2 DEF Main, Load, StartRest, StartWorker, LeaveSleep, StopReceiver,
             JoinReceiver, StopRest, JoinRest, JoinWorker, Report, Export, Destroy, MainOnly,
             ingestVars, InListener
    <3> QED
      BY <3>1, <3>2
  <2>2. InWorker' = InWorker
    <3>1. CASE StartWorker
      BY <3>1 DEF StartWorker, Lifecycle, BeforeWorker, InWorker, MainOnly
    <3>2. CASE ~ StartWorker
      BY <1>2, <3>2 DEF Main, Load, StartRest, StartReceiver, LeaveSleep, StopReceiver,
             JoinReceiver, StopRest, JoinRest, JoinWorker, Report, Export, Destroy, MainOnly,
             queueVars, resultVars, InWorker
    <3> QED
      BY <3>1, <3>2
  <2>3. UNCHANGED <<frames, dropped, unread, recorded, queue, inbox>>
    BY <1>2 DEF Main, Load, StartRest, StartReceiver, StartWorker, LeaveSleep, StopReceiver,
           JoinReceiver, StopRest, JoinRest, JoinWorker, Report, Export, Destroy, MainOnly,
           ingestVars, queueVars, resultVars
  <2> QED
    BY <1>1, <2>1, <2>2, <2>3
<1>3. CASE Rest
  BY <1>1, <1>3 DEF Rest, RestBinds, RestTests, RestMetrics, RestAnswers, RestSendFails, RestOnly, ingestVars,
                    queueVars, resultVars, InWorker, InListener
<1>4. CASE Environment /\ ~ FrameArrives /\ ~ NoiseArrives
  BY <1>1, <1>4 DEF Environment, Signal, ClientConnects, ClientSends, FrameDropped, RestOnly,
                    threadVars, ingestVars, queueVars, resultVars, InWorker, InListener
<1>5. CASE UNCHANGED vars
  BY <1>1, <1>5 DEF vars, threadVars, ingestVars, queueVars, resultVars, InWorker, InListener
<1> QED
  BY <1>2, <1>3, <1>4, <1>5, ListenerMoves, WorkerMoves, NetworkMoves DEF Next

LEMMA PipelineIsSeq == Hands => Pipeline \in Seq(Nat)
BY Segments, ConcatProperties DEF Pipeline

(* Accounting, for a daemon that lives. *)
InPlace == Rising(Pipeline) /\ Numbers(Pipeline) = (1 .. frames) \ (dropped \cup unread)
Lost == dropped \cap unread = {} /\ (unread # {} => listener = "ended" /\ ~ running)

LEMMA AccountingMeans == Accounting <=> (main # "killed" => InPlace /\ Lost)
BY DEF Accounting, InPlace, Lost, Rising, Numbers

(* What has ended does not begin again, and who is dead does nothing.             *)
LEMMA EndsStay ==
    Lifecycle /\ NoListener /\ [Next]_vars
        => /\ listener = "ended" /\ ~ running => listener' = "ended" /\ ~ running'
           /\ BrokenPipe => main' = "killed"
           /\ BrokenPipe \/ main = "killed" =>
                 main' = "killed" /\ UNCHANGED <<frames, dropped, unread, recorded>>
<1> SUFFICES ASSUME Lifecycle, NoListener, [Next]_vars
             PROVE  /\ listener = "ended" /\ ~ running => listener' = "ended" /\ ~ running'
                    /\ BrokenPipe \/ main = "killed" =>
                          main' = "killed" /\ UNCHANGED <<frames, dropped, unread, recorded>>
  OBVIOUS
<1>0. main = "killed" => listener = "ended" /\ rest = "ended" /\ worker = "ended"
  BY DEF Lifecycle, ReceiverJoined, RestJoined, WorkerJoined
<1>1. listener = "ended" /\ ~ running => listener' = "ended" /\ ~ running'
  <2> SUFFICES ASSUME listener = "ended", ~ running PROVE listener' = "ended" /\ ~ running'
    OBVIOUS
  <2>1. running = FALSE
    BY DEF Lifecycle
  <2>2. running' = FALSE
    BY <2>1, FlagsMove
  <2>3. ~ StartReceiver /\ ~ ListenerTests
    BY DEF StartReceiver, ListenerTests, NoListener
  <2>4. listener' = "ended"
    BY <2>3, WhoMoves
  <2> QED
    BY <2>2, <2>4
<1>2. CASE BrokenPipe
  BY <1>1, <1>2 DEF BrokenPipe, queueVars, resultVars
<1>3. ASSUME main = "killed", ~ BrokenPipe
      PROVE  main' = "killed" /\ UNCHANGED <<frames, dropped, unread, recorded>>
  <2>1. ~ Main
    BY <1>3 DEF Main, Load, StartRest, StartReceiver, StartWorker, LeaveSleep, StopReceiver,
       JoinReceiver, StopRest, JoinRest, JoinWorker, Report, Export, Destroy
  <2>2. ~ Listener /\ ~ Worker
    BY <1>0, <1>3 DEF Listener, ListenerBinds, ListenerTests, CloseSocket, Receive, Discard, Push,
       Worker, WorkerTests, Pop, PopNothing, Predict, StartBlock, BlockStep, LetPass, Record
  <2>3. ~ Rest
    BY <1>0, <1>3 DEF Rest, RestBinds, RestTests, RestMetrics, RestAnswers, RestSendFails
  <2>4. ~ FrameArrives /\ ~ NoiseArrives
    BY <1>0, <1>3 DEF FrameArrives, NoiseArrives, Arrives
  <2>5. CASE Environment
    BY <1>0, <1>3, <2>4, <2>5 DEF Environment, Signal, ClientConnects, ClientSends, RestOnly,
       FrameDropped, threadVars, ingestVars, queueVars, resultVars
  <2>6. CASE UNCHANGED vars
    BY <1>3, <2>6 DEF vars, threadVars, ingestVars, queueVars, resultVars
  <2> QED
    BY <2>1, <2>2, <2>3, <2>5, <2>6 DEF Next
<1> QED
  BY <1>1, <1>2, <1>3

LEMMA AccountingStep ==
    Lifecycle /\ NoListener /\ Stopping /\ Hands /\ Refused /\ Accounting /\ [Next]_vars
        => Refused' /\ Accounting'
<1> SUFFICES ASSUME Lifecycle, NoListener, Stopping, Hands, Refused, Accounting, [Next]_vars
             PROVE  Refused' /\ Accounting'
  OBVIOUS
<1>0. CASE BrokenPipe \/ main = "killed"
  BY <1>0, EndsStay DEF Refused, Accounting
<1> SUFFICES ASSUME ~ BrokenPipe, main # "killed" PROVE Refused' /\ Accounting'
  BY <1>0
<1>1. /\ Pipeline \in Seq(Nat) /\ frames \in Nat
      /\ dropped \subseteq 1 .. frames /\ unread \subseteq 1 .. frames
  BY PipelineIsSeq, FramesAssumption DEF Hands, Refused
<1>2. /\ Rising(Pipeline) /\ Numbers(Pipeline) = (1 .. frames) \ (dropped \cup unread)
      /\ Lost
  BY AccountingMeans DEF InPlace
<1>3. (Accounting <=> (main # "killed" => InPlace /\ Lost))'
  BY AccountingMeans, PTL
<1>4. InPlace' <=> /\ Rising(Pipeline')
                   /\ Numbers(Pipeline') = (1 .. frames') \ (dropped' \cup unread')
  BY DEF InPlace, Rising, Numbers
<1>5. Lost' <=> /\ dropped' \cap unread' = {}
                /\ unread' # {} => listener' = "ended" /\ ~ running'
  BY DEF Lost
<1>6. unread # {} => listener' = "ended" /\ ~ running'
  BY <1>2, EndsStay DEF Lost
<1>7. CASE Stays
  BY <1>1, <1>2, <1>3, <1>4, <1>5, <1>6, <1>7 DEF Stays, Refused, Lost
<1>8. CASE Loses
  <2>1. PICK s \in Seq(Nat), t \in Seq(Nat), x \in Nat :
               /\ Pipeline = (s \o <<x>>) \o t /\ Pipeline' = s \o t
               /\ frames' = frames /\ dropped' = dropped \cup ({x} \ {0}) /\ unread' = unread
    BY <1>8 DEF Loses
  <2>2. Rising(Pipeline') /\ Numbers(Pipeline') = Numbers(Pipeline) \ {x}
    BY <1>2, <2>1, LeavesMiddle
  <2>3. x = 0 \/ x \in Numbers(Pipeline)
    <3> DEFINE o == <<x>>
    <3>1. o \in Seq(Nat) /\ Numbers(o) = {x} \ {0}
      BY NumbersOfOne
    <3> HIDE DEF o
    <3>2. s \o o \in Seq(Nat) /\ Numbers(s \o o) = Numbers(s) \cup Numbers(o)
      BY <3>1, ConcatPlaces, NumbersConcat
    <3>3. Numbers((s \o o) \o t) = Numbers(s \o o) \cup Numbers(t)
      BY <3>2, NumbersConcat
    <3> QED
      BY <2>1, <3>1, <3>2, <3>3 DEF o
  <2>4. dropped' \subseteq 1 .. frames' /\ unread' \subseteq 1 .. frames'
    BY <1>1, <1>2, <2>1, <2>3
  <2>5. Numbers(Pipeline') = (1 .. frames') \ (dropped' \cup unread')
    <3>1. 0 \notin 1 .. frames
      BY <1>1
    <3> QED
      BY <1>2, <2>1, <2>2, <3>1
  <2>6. dropped' \cap unread' = {}
    BY <1>2, <2>1, <2>3 DEF Lost
  <2> QED
    BY <1>3, <1>4, <1>5, <1>6, <2>1, <2>2, <2>4, <2>5, <2>6 DEF Refused
<1>9. CASE Closes
  <2>1. PICK s \in Seq(Nat), t \in Seq(Nat) :
               /\ Pipeline = s \o t /\ Pipeline' = s
               /\ frames' = frames /\ dropped' = dropped /\ unread' = unread \cup Numbers(t)
               /\ listener = "close" /\ listener' = "ended" /\ running' = running
    BY <1>9 DEF Closes
  <2>2. Rising(s) /\ Numbers(s) \cap Numbers(t) = {}
    <3>1. /\ Rising(s)
          /\ \A j \in 1 .. Len(s), k \in 1 .. Len(t) : t[k] # 0 => s[j] < t[k]
      BY <1>2, <2>1, RisingConcat
    <3>2. ASSUME NEW j \in 1 .. Len(s), NEW k \in 1 .. Len(t), t[k] # 0 PROVE s[j] # t[k]
      <4>1. s[j] < t[k] /\ s[j] \in Nat
        BY <3>1, <3>2
      <4> QED
        BY <4>1
    <3> QED
      BY <3>1, <3>2 DEF Numbers
  <2>3. Numbers(Pipeline) = Numbers(s) \cup Numbers(t)
    BY <2>1, NumbersConcat
  <2>4. ~ running'
    BY <2>1 DEF Stopping
  <2>5. dropped' \subseteq 1 .. frames' /\ unread' \subseteq 1 .. frames'
    BY <1>1, <1>2, <2>1, <2>3
  <2>6. /\ Numbers(Pipeline') = (1 .. frames') \ (dropped' \cup unread')
        /\ dropped' \cap unread' = {}
    BY <1>2, <2>1, <2>2, <2>3 DEF Lost
  <2> QED
    BY <1>3, <1>4, <1>5, <2>1, <2>2, <2>4, <2>5, <2>6 DEF Refused
<1>10. CASE Gains
  <2>1. PICK x \in Nat :
               /\ Pipeline' = Pipeline \o <<x>> /\ dropped' = dropped /\ unread' = unread
               /\ (x = 0 /\ frames' = frames) \/ (x = frames + 1 /\ frames' = frames + 1)
    BY <1>10 DEF Gains, Gain
  <2>2. x # 0 => \A n \in Numbers(Pipeline) : n < x
    BY <1>1, <1>2, <2>1
  <2>3. Rising(Pipeline') /\ Numbers(Pipeline') = Numbers(Pipeline) \cup ({x} \ {0})
    BY <1>1, <1>2, <2>1, <2>2, JoinsEnd
  <2>4. dropped' \subseteq 1 .. frames' /\ unread' \subseteq 1 .. frames'
    BY <1>1, <2>1
  <2>5. Numbers(Pipeline') = (1 .. frames') \ (dropped' \cup unread')
    BY <1>1, <1>2, <2>1, <2>3
  <2> QED
    BY <1>2, <1>3, <1>4, <1>5, <1>6, <2>1, <2>3, <2>4, <2>5 DEF Refused, Lost
<1> QED
  BY <1>7, <1>8, <1>9, <1>10, PipelineMoves
-----------------------------------------------------------------------------
LEMMA InitInv == Init => DaemonInv
<1> SUFFICES ASSUME Init PROVE DaemonInv
  OBVIOUS
<1>1. Lifecycle /\ NoListener /\ Stopping
  BY DEF Init, Lifecycle, NoListener, Stopping, BeforeWorker, ReceiverJoined, RestJoined, WorkerJoined
<1>2. FP!HarnessInv
  BY SameHarness, FP!HarnessInit, MapAssumption, NobodyAssumption DEF Init
<1>3. InStep /\ Final
  BY DEF Init, InStep, Final, Filter!Init
<1>4. Hands
  BY FramesAssumption, SocketAssumption, QueueAssumption DEF Init, Hands, Queue!Init
<1>5. Backing
  <2>1. FP!InMap = {} /\ owner = "new"
    BY DEF Init, Filter!Init, FP!InMap
  <2> QED
    BY <2>1, FS_EmptySet, MapAssumption DEF Backing
<1>6. Told
  <2>1. recorded = <<>> /\ Len(recorded) = 0 /\ blockedIps = {}
    BY DEF Init, Filter!Init
  <2> QED
    BY <2>1, FS_EmptySet DEF Init, Told
<1>7. Refused /\ Accounting /\ FewRecorded
  <2>1. frames = 0 /\ dropped = {} /\ unread = {} /\ InWorker = <<>> /\ InListener = <<>>
        /\ recorded = <<>> /\ inbox = <<>> /\ queue = <<>>
    BY DEF Init, Queue!Init, InWorker, InListener
  <2>2. RecordedIds = <<>> /\ Ids(<<>>) = <<>>
    BY <2>1 DEF RecordedIds, Ids
  <2>3. Pipeline = <<>>
    BY <2>1, <2>2 DEF Pipeline
  <2>4. Rising(<<>>) /\ Numbers(<<>>) = {}
    BY DEF Rising, Numbers
  <2> QED
    BY <2>1, <2>3, <2>4, AccountingMeans, FramesAssumption
       DEF Refused, InPlace, Lost, FewRecorded
<1> QED
  BY <1>1, <1>2, <1>3, <1>4, <1>5, <1>6, <1>7 DEF DaemonInv

(* No more frames are on record than can arrive: their numbers rise.             *)
LEMMA RecordedBounded == Hands /\ Accounting /\ main # "killed" => FewRecorded
<1> SUFFICES ASSUME Hands, Accounting, main # "killed" PROVE Len(recorded) <= MaxFrames
  BY DEF FewRecorded
<1> DEFINE n == Len(recorded)
           w == InWorker
           q == Ids(queue)
           l == InListener
           i == Ids(inbox)
<1>1. Rising((((RecordedIds \o w) \o q) \o l) \o i)
  BY AccountingMeans DEF InPlace, Pipeline
<1>2. RecordedIds \in Seq(Nat) /\ w \in Seq(Nat) /\ q \in Seq(Nat) /\ l \in Seq(Nat) /\ i \in Seq(Nat)
  BY Segments
<1> HIDE DEF w, q, l, i
<1>3. Rising(RecordedIds)
  <2>1. /\ RecordedIds \o w \in Seq(Nat) /\ (RecordedIds \o w) \o q \in Seq(Nat)
        /\ ((RecordedIds \o w) \o q) \o l \in Seq(Nat)
    BY <1>2, Regroup
  <2>2. Rising(((RecordedIds \o w) \o q) \o l)
    BY <1>1, <1>2, <2>1, RisingConcat
  <2>3. Rising((RecordedIds \o w) \o q)
    BY <1>2, <2>1, <2>2, RisingConcat
  <2>4. Rising(RecordedIds \o w)
    BY <1>2, <2>1, <2>3, RisingConcat
  <2> QED
    BY <1>2, <2>4, RisingConcat
<1>4. /\ n \in Nat /\ Len(RecordedIds) = n
      /\ \A k \in 1 .. n : RecordedIds[k] = recorded[k].frame.id
  BY RecordedInSeq
<1>5. \A k \in 1 .. n : RecordedIds[k] \in 1 .. MaxFrames
  <2> SUFFICES ASSUME NEW k \in 1 .. n PROVE recorded[k].frame.id \in 1 .. MaxFrames
    BY <1>4
  <2>1. recorded[k] \in [frame : Frame, action : Verdicts]
    BY ElementOfSeq DEF Hands
  <2> QED
    BY <2>1 DEF Frame
<1>6. \A j, k \in 1 .. n : j < k => RecordedIds[j] < RecordedIds[k]
  BY <1>3, <1>4, <1>5, FramesAssumption DEF Rising
<1>7. RecordedIds \in [1 .. n -> 1 .. MaxFrames]
  BY <1>5 DEF RecordedIds
<1>8. ASSUME NEW j \in 1 .. n, NEW k \in 1 .. n, j # k PROVE RecordedIds[j] # RecordedIds[k]
  <2>1. j < k \/ k < j
    BY <1>4, <1>8
  <2> QED
    BY <1>5, <1>6, <2>1, FramesAssumption
<1>9. RecordedIds \in Injection(1 .. n, 1 .. MaxFrames)
  BY <1>7, <1>8 DEF Injection, IsInjective
<1> HIDE DEF n
<1>10. /\ IsFiniteSet(1 .. MaxFrames) /\ Cardinality(1 .. MaxFrames) = MaxFrames
       /\ Cardinality(1 .. n) = n
  <2>1. ASSUME NEW m \in Nat PROVE IsFiniteSet(1 .. m) /\ Cardinality(1 .. m) = m
    <3>1. /\ IsFiniteSet(1 .. m)
          /\ Cardinality(1 .. m) = IF 1 > m THEN 0 ELSE m - 1 + 1
      BY FS_Interval
    <3> QED
      BY <3>1
  <2> QED
    BY <1>4, <2>1, FramesAssumption
<1>11. Cardinality(1 .. n) <= Cardinality(1 .. MaxFrames)
  BY <1>9, <1>10, FS_Injection
<1> QED
  BY <1>10, <1>11 DEF n

(* Nothing but a broken pipe kills the daemon. *)
LEMMA WhoKills == [Next]_vars /\ main' = "killed" => main = "killed" \/ BrokenPipe
<1> SUFFICES ASSUME [Next]_vars, main # "killed", ~ BrokenPipe PROVE main' # "killed"
  OBVIOUS
<1>1. CASE Main
  BY <1>1 DEF Main, Load, StartRest, StartReceiver, StartWorker, LeaveSleep, StopReceiver,
     JoinReceiver, StopRest, JoinRest, JoinWorker, Report, Export, Destroy
<1>2. CASE Listener
  BY <1>2 DEF Listener, ListenerBinds, ListenerTests, CloseSocket, Receive, Discard, Push,
              ListenerOnly
<1>3. CASE Worker
  BY <1>3 DEF Worker, WorkerTests, Pop, PopNothing, Predict, StartBlock, BlockStep, LetPass,
              Record, WorkerOnly
<1>4. CASE Rest
  BY <1>4 DEF Rest, RestBinds, RestTests, RestMetrics, RestAnswers, RestSendFails, RestOnly
<1>5. ASSUME NEW d, Arrives(d) PROVE UNCHANGED threadVars
  BY <1>5 DEF Arrives
<1>6. CASE Environment
  BY <1>5, <1>6 DEF Environment, Signal, ClientConnects, ClientSends, RestOnly,
                    FrameArrives, NoiseArrives, FrameDropped, threadVars
<1>7. CASE UNCHANGED vars
  BY <1>7 DEF vars, threadVars
<1> QED
  BY <1>1, <1>2, <1>3, <1>4, <1>6, <1>7 DEF Next

LEMMA NextInv == DaemonInv /\ [Next]_vars => DaemonInv'
<1> SUFFICES ASSUME DaemonInv, [Next]_vars PROVE DaemonInv'
  OBVIOUS
<1>1. Lifecycle' /\ NoListener' /\ Stopping'
  BY LifecycleStep, NoListenerStep, StoppingStep DEF DaemonInv
<1>2. FP!HarnessInv'
  BY FilterMoves, HarnessStep DEF DaemonInv
<1>3. InStep'
  BY <1>2, InStepStep
<1>4. Hands' /\ Final' /\ Backing'
  BY HandsStep, FinalStep, BackingStep DEF DaemonInv
<1>5. Told'
  BY <1>2, ToldStep DEF DaemonInv
<1>6. Refused' /\ Accounting'
  BY AccountingStep DEF DaemonInv
<1>7. FewRecorded'
  <2>1. CASE main' # "killed"
    <3>1. (Hands /\ Accounting /\ main # "killed" => FewRecorded)'
      BY RecordedBounded, PTL
    <3> QED
      BY <1>4, <1>6, <2>1, <3>1
  <2>2. CASE main' = "killed"
    <3>1. main = "killed" \/ BrokenPipe
      BY <2>2, WhoKills DEF DaemonInv
    <3>2. recorded' = recorded
      BY <3>1, EndsStay DEF DaemonInv
    <3> QED
      BY <3>2 DEF DaemonInv, FewRecorded
  <2> QED
    BY <2>1, <2>2
<1> QED
  BY <1>1, <1>2, <1>3, <1>4, <1>5, <1>6, <1>7 DEF DaemonInv

LEMMA Invariance == Safety => []DaemonInv
BY InitInv, NextInv, PTL DEF Safety

(* Whatever the threads do, every variable of the daemon and of the harness in it  *)
(* keeps its type: what a client is told stays within the frames that arrived and *)
(* the addresses there are.                                                     *)
THEOREM TypeCorrect == Safety => []TypeOK
<1>1. DaemonInv => TypeOK
  <2> SUFFICES ASSUME DaemonInv PROVE TypeOK
    OBVIOUS
  <2>1. /\ main \in {"load", "start rest", "start receiver", "start worker", "sleep",
                     "stop receiver", "join receiver", "stop rest", "join rest",
                     "join worker", "report", "export", "destroy", "exited", "killed"}
        /\ listener \in {"off", "bind", "test", "recvfrom", "check", "close", "ended"}
        /\ rest \in {"off", "bind", "test", "accept", "read", "metrics", "count", "ended"}
        /\ worker \in {"off", "test", "pop", "predict", "decide", "block", "record", "ended"}
        /\ {running, recvRunning, restRunning} \subseteq BOOLEAN
    BY DEF DaemonInv, Lifecycle, BeforeWorker, ReceiverJoined
  <2>2. Filter!TypeOK
    BY SameHarness DEF DaemonInv, FP!HarnessInv
  <2>3. dropped \subseteq 1 .. MaxFrames /\ unread \subseteq 1 .. MaxFrames
    BY FramesAssumption DEF DaemonInv, Refused, Hands
  <2>4. snapshot \in 0 .. MaxFrames /\ response.total \in 0 .. MaxFrames
    <3>1. Len(recorded) \in Nat /\ Len(recorded) <= MaxFrames
      BY RecordedInSeq DEF DaemonInv, FewRecorded
    <3> QED
      BY <3>1, FramesAssumption DEF DaemonInv, Told
  <2>5. response.blocked \in 0 .. Cardinality(Sources)
    <3>1. blockedIps \subseteq Sources
      BY DEF DaemonInv, FP!HarnessInv, FP!TypeOK
    <3>2. /\ Cardinality(blockedIps) \in Nat /\ Cardinality(Sources) \in Nat
          /\ Cardinality(blockedIps) <= Cardinality(Sources)
      BY <3>1, SourceAssumption, FS_Subset, FS_CardinalityType
    <3> QED
      BY <3>2 DEF DaemonInv, Told
  <2>6. response \in [total : 0 .. MaxFrames, blocked : 0 .. Cardinality(Sources)]
    BY <2>4, <2>5 DEF DaemonInv, Told
  <2> QED
    BY <2>1, <2>2, <2>3, <2>4, <2>6 DEF TypeOK, DaemonInv, Hands
<1> QED
  BY <1>1, Invariance, PTL

(* For any traffic and any size of the buffers: every frame that reached the socket *)
(* is in one place only or was refused by a full queue, and frames are recorded in *)
(* the order in which they arrived.                                             *)
THEOREM FramesAccountedFor == Safety => []Accounting
<1>1. DaemonInv => Accounting
  BY DEF DaemonInv
<1> QED
  BY <1>1, Invariance, PTL

(* Although nobody looks at block_ip's answer, a recorded KernelDropped means that  *)
(* the kernel holds the source back, has no map, or has a full one.              *)
THEOREM DropsAreBacked == Safety => []VerdictsAreBacked
<1>1. DaemonInv => VerdictsAreBacked
  BY SameHarness, SameCardinality DEF DaemonInv, Backing, Backed, VerdictsAreBacked
<1> QED
  BY <1>1, Invariance, PTL

(* Nothing is recorded after the metrics of the report have been computed.        *)
THEOREM ReportStays == Safety => []ReportIsFinal
<1>1. DaemonInv => ReportIsFinal
  BY DEF DaemonInv, Final, ReportIsFinal
<1> QED
  BY <1>1, Invariance, PTL

(* main's objects outlive the three threads that hold them by reference.          *)
THEOREM ObjectsOutliveThreads == Safety => []NoUseAfterDestroy
<1>1. DaemonInv => NoUseAfterDestroy
  BY DEF DaemonInv, Lifecycle, ReceiverJoined, RestJoined, WorkerJoined, NoUseAfterDestroy
<1> QED
  BY <1>1, Invariance, PTL

(* No poll is answered with fewer events or fewer blocked addresses than an earlier *)
(* one, although the answer is put together from two moments.                    *)
THEOREM PollsNeverFall == Safety => TelemetryMonotone
<1> DEFINE Mono == response'.total >= response.total /\ response'.blocked >= response.blocked
<1>1. DaemonInv /\ DaemonInv' /\ [Next]_vars => [Mono]_vars
  BY ToldStep DEF DaemonInv
<1> QED
  BY <1>1, Invariance, PTL DEF Safety, TelemetryMonotone

(* The daemon uses the mitigation back end only by its operations, in an order that *)
(* EBPFFilterHarness allows: main loads it before there is a worker and destroys it *)
(* after, so what is proved of the harness holds of the harness in the daemon.   *)
THEOREM UsesHarness == Safety => Filter!Spec
<1>1. Init => Filter!Init
  BY DEF Init
<1>2. DaemonInv /\ [Next]_vars => [Filter!Next]_(Filter!vars)
  BY FilterMoves DEF DaemonInv
<1> QED
  BY <1>1, <1>2, Invariance, PTL DEF Safety, Filter!Spec

(* The listener and the worker use the queue only as a bounded first-in first-out  *)
(* buffer with one producer and one consumer may be used, and only frames go in. *)
THEOREM UsesQueue == Safety => Queue!Spec
<1>1. Init => Queue!Init
  BY DEF Init
<1>2. DaemonInv /\ [Next]_vars => [Queue!Next]_(Queue!vars)
  <2> SUFFICES ASSUME DaemonInv, [Next]_vars PROVE [Queue!Next]_(Queue!vars)
    OBVIOUS
  <2>1. CASE UNCHANGED <<queue, popped>>
    BY <2>1 DEF Queue!vars
  <2>2. CASE Push
    <3>1. datagram \in Frame
      BY <2>2 DEF DaemonInv, Hands, Push
    <3> QED
      BY <2>2, <3>1 DEF Push, Queue!Next
  <2>3. CASE Pop \/ PopNothing
    BY <2>3 DEF Pop, PopNothing, Queue!Next
  <2>4. UNCHANGED <<queue, popped>> \/ Push \/ Pop \/ PopNothing
    <3>1. CASE Main
      BY <3>1 DEF Main, Load, StartRest, StartReceiver, StartWorker, LeaveSleep, StopReceiver,
             JoinReceiver, StopRest, JoinRest, JoinWorker, Report, Export, Destroy, MainOnly,
             queueVars
    <3>2. CASE Listener
      BY <3>2 DEF Listener, ListenerBinds, ListenerTests, CloseSocket, Receive, Discard, queueVars
    <3>3. CASE Worker
      BY <3>3 DEF Worker, WorkerTests, Predict, StartBlock, BlockStep, LetPass, Record
    <3>4. CASE Rest
      BY <3>4 DEF Rest, RestBinds, RestTests, RestMetrics, RestAnswers, RestSendFails, RestOnly, queueVars
    <3>5. ASSUME NEW d, Arrives(d) PROVE UNCHANGED <<queue, popped>>
      BY <3>5 DEF Arrives, queueVars
    <3>6. CASE Environment
      BY <3>5, <3>6 DEF Environment, Signal, ClientConnects, ClientSends, BrokenPipe, RestOnly,
             FrameArrives, NoiseArrives, FrameDropped, queueVars
    <3>7. CASE UNCHANGED vars
      BY <3>7 DEF vars, queueVars
    <3> QED
      BY <3>1, <3>2, <3>3, <3>4, <3>6, <3>7 DEF Next
  <2> QED
    BY <2>1, <2>2, <2>3, <2>4
<1> QED
  BY <1>1, <1>2, Invariance, PTL DEF Safety, Queue!Spec
=============================================================================
