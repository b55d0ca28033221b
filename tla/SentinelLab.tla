---------------------------- MODULE SentinelLab ----------------------------
(***************************************************************************)
(* The daemon (src/main.cpp): the main thread starts and stops the parts,    *)
(* the ingest listener receives datagrams and pushes events, the worker pops *)
(* them, asks the model for a score, blocks sources and records verdicts,    *)
(* and the telemetry server answers clients.  The event queue is the         *)
(* BoundedFifo that LockFreeQueue implements, the mitigation back end is     *)
(* EBPFFilterHarness with the worker as its only caller.                     *)
(***************************************************************************)
EXTENDS Integers, Sequences, FiniteSets

CONSTANTS Sources,       \* addresses datagrams come from
          Labels,        \* ground-truth labels that frames carry
          Noise,         \* an address that sends no SLAB frames
          QueueBound,    \* events the queue can hold
          SocketBuffer,  \* datagrams the kernel keeps for the listener
          MapEntries,    \* max_entries of blocked_ip_map
          MaxFrames,     \* bound: SLAB frames that arrive
          Scores,        \* anomaly scores in percent that the model may return
          Nobody,        \* the filter's mutex is free
          Nothing        \* no datagram, no event, no report yet

ASSUME QueueAssumption == QueueBound \in Nat \ {0}
ASSUME SocketAssumption == SocketBuffer \in Nat \ {0}
ASSUME ScoreAssumption == Scores \subseteq 0 .. 100 /\ 10 \in Scores
ASSUME SourceAssumption == IsFiniteSet(Sources) /\ Noise \notin Sources
ASSUME MapAssumption == MapEntries \in Nat
ASSUME NobodyAssumption == Nobody # "worker"
ASSUME FramesAssumption == MaxFrames \in Nat

VARIABLES main, listener, rest, worker, \* the step each thread is about to take
          running,                      \* g_lab_running
          recvRunning, restRunning,     \* running_ of the two servers
          frames,                       \* SLAB frames that arrived so far
          inbox,                        \* the listener's socket buffer
          unread,                       \* frames lost when the socket is closed
          datagram,                     \* the datagram recvfrom returned
          queue, popped,                \* the queue and what its calls returned
          dropped,                      \* frames push refused: nobody looks
          event,                        \* the event the worker is evaluating
          recorded,                     \* the benchmarker's recorded_events_
          snapshot, response,           \* metrics in hand, last answer sent
          report, csv                   \* what the daemon leaves behind

VARIABLES owner, ifindex, loaded, mapFd, progFd, attached, refused, dropCount,
          blockedIps, mutex, filterPc, ip, answer

threadVars == <<main, listener, rest, worker>>
filterVars == <<owner, ifindex, loaded, mapFd, progFd, attached, refused, dropCount,
                blockedIps, mutex, filterPc, ip, answer>>
ingestVars == <<frames, inbox, unread, datagram>>
queueVars == <<queue, popped, dropped>>
resultVars == <<event, recorded, report, csv>>
restVars == <<snapshot, response>>
flagVars == <<running, recvRunning, restRunning>>
vars == <<threadVars, flagVars, ingestVars, queueVars, resultVars, restVars, filterVars>>

Verdicts == {"Passed", "Logged", "KernelDropped"}
Frame == [id : 1 .. MaxFrames, source : Sources, label : Labels]
Noises == [id : {0}, source : {Noise}, label : {0}]

Queue == INSTANCE BoundedFifo WITH
             items <- queue, answer <- popped, Bound <- QueueBound,
             Events <- Frame, Producers <- {"listener"}, Consumers <- {"worker"},
             True <- TRUE, False <- FALSE, Nullopt <- Nothing

Filter == INSTANCE EBPFFilterHarness WITH
             Callers <- {"worker"}, Ips <- Sources, Malformed <- {},
             MaxDrops <- 1, pc <- filterPc

Init == /\ main = "load"
        /\ listener = "off" /\ rest = "off" /\ worker = "off"
        /\ running = TRUE /\ recvRunning = FALSE /\ restRunning = FALSE
        /\ frames = 0 /\ inbox = <<>> /\ unread = {} /\ datagram = Nothing
        /\ Queue!Init /\ dropped = {}
        /\ event = Nothing /\ recorded = <<>>
        /\ snapshot = 0 /\ response = [total |-> 0, blocked |-> 0]
        /\ report = Nothing /\ csv = Nothing
        /\ Filter!Init
-----------------------------------------------------------------------------
(* The main thread.  stop() of a server clears its flag and joins its thread. *)
Load == /\ main = "load"
        /\ \/ Filter!LoadFails \/ Filter!LoadObject
           \/ Filter!Attach \/ Filter!AttachFails
        /\ main' = IF owner' = "ready" THEN "start rest" ELSE "load"
        /\ UNCHANGED <<listener, rest, worker, flagVars, ingestVars, queueVars,
                       resultVars, restVars>>

MainOnly == UNCHANGED <<ingestVars, queueVars, event, recorded, restVars, filterVars>>

StartRest == /\ main = "start rest"
             /\ restRunning' = TRUE
             /\ rest' = "bind"
             /\ main' = "start receiver"
             /\ UNCHANGED <<listener, worker, running, recvRunning, report, csv>>
             /\ MainOnly

StartReceiver == /\ main = "start receiver"
                 /\ recvRunning' = TRUE
                 /\ listener' = "bind"
                 /\ main' = "start worker"
                 /\ UNCHANGED <<rest, worker, running, restRunning, report, csv>>
                 /\ MainOnly

StartWorker == /\ main = "start worker"
               /\ worker' = "test"
               /\ main' = "sleep"
               /\ UNCHANGED <<listener, rest, flagVars, report, csv>>
               /\ MainOnly

LeaveSleep == /\ main = "sleep"
              /\ ~ running
              /\ main' = "stop receiver"
              /\ UNCHANGED <<listener, rest, worker, flagVars, report, csv>>
              /\ MainOnly

StopReceiver == /\ main = "stop receiver"
                /\ recvRunning' = FALSE
                /\ main' = "join receiver"
                /\ UNCHANGED <<listener, rest, worker, running, restRunning, report, csv>>
                /\ MainOnly

JoinReceiver == /\ main = "join receiver"
                /\ listener = "ended"
                /\ main' = "stop rest"
                /\ UNCHANGED <<listener, rest, worker, flagVars, report, csv>>
                /\ MainOnly

StopRest == /\ main = "stop rest"
            /\ restRunning' = FALSE
            /\ main' = "join rest"
            /\ UNCHANGED <<listener, rest, worker, running, recvRunning, report, csv>>
            /\ MainOnly

(* Wrong on purpose, as are the definitions named ...Wrong below: the server's  *)
(* thread is not waited for.                                                    *)
JoinRestWrong == /\ main = "join rest"
                 /\ main' = "join worker"
                 /\ UNCHANGED <<listener, rest, worker, flagVars, report, csv>>
                 /\ MainOnly

JoinRest == /\ main = "join rest"
            /\ rest = "ended"
            /\ main' = "join worker"
            /\ UNCHANGED <<listener, rest, worker, flagVars, report, csv>>
            /\ MainOnly

JoinWorkerWrong == /\ main = "join worker"
                   /\ main' = "report"
                   /\ UNCHANGED <<listener, rest, worker, flagVars, report, csv>>
                   /\ MainOnly

JoinWorker == /\ main = "join worker"
              /\ worker = "ended"
              /\ main' = "report"
              /\ UNCHANGED <<listener, rest, worker, flagVars, report, csv>>
              /\ MainOnly

Report == /\ main = "report"
          /\ report' = Len(recorded)
          /\ main' = "export"
          /\ UNCHANGED <<listener, rest, worker, flagVars, csv>>
          /\ MainOnly

(* A file that cannot be opened is not written, and nobody is told. *)
Export == /\ main = "export"
          /\ csv' = recorded \/ UNCHANGED csv
          /\ main' = "destroy"
          /\ UNCHANGED <<listener, rest, worker, flagVars, report>>
          /\ MainOnly

Destroy == /\ main = "destroy"
           /\ Filter!DetachProgram \/ Filter!CloseObject
           /\ main' = IF owner' = "gone" THEN "exited" ELSE "destroy"
           /\ UNCHANGED <<listener, rest, worker, flagVars, ingestVars, queueVars,
                          resultVars, restVars>>

Main == \/ Load \/ StartRest \/ StartReceiver \/ StartWorker
        \/ LeaveSleep
        \/ StopReceiver \/ JoinReceiver \/ StopRest \/ JoinRest \/ JoinWorker
        \/ Report \/ Export \/ Destroy
-----------------------------------------------------------------------------
(* The listener thread of NetworkIngestReceiver. *)
ListenerOnly == UNCHANGED <<main, rest, worker, flagVars, frames, resultVars,
                            restVars, filterVars>>

ListenerBinds == /\ listener = "bind"
                 /\ listener' \in {"test", "ended"}
                 /\ UNCHANGED <<inbox, unread, datagram, queueVars>>
                 /\ ListenerOnly

ListenerTests == /\ listener = "test"
                 /\ listener' = IF recvRunning THEN "recvfrom" ELSE "close"
                 /\ UNCHANGED <<inbox, unread, datagram, queueVars>>
                 /\ ListenerOnly

(* The datagrams that still wait in the socket go with it. *)
CloseSocket == /\ listener = "close"
               /\ unread' = unread \cup ({inbox[k].id : k \in 1 .. Len(inbox)} \ {0})
               /\ inbox' = <<>>
               /\ listener' = "ended"
               /\ UNCHANGED <<datagram, queueVars>>
               /\ ListenerOnly

Receive == /\ listener = "recvfrom"
           /\ inbox # <<>>
           /\ datagram' = Head(inbox)
           /\ inbox' = Tail(inbox)
           /\ listener' = "check"
           /\ UNCHANGED <<unread, queueVars>>
           /\ ListenerOnly

DiscardWrong == /\ listener = "check"
                /\ datagram' = Nothing
                /\ listener' = "test"
                /\ UNCHANGED <<inbox, unread, queueVars>>
                /\ ListenerOnly

(* Not a SLAB frame, or not all of one. *)
Discard == /\ listener = "check"
           /\ datagram \in Noises
           /\ datagram' = Nothing
           /\ listener' = "test"
           /\ UNCHANGED <<inbox, unread, queueVars>>
           /\ ListenerOnly

Push == /\ listener = "check"
        /\ datagram \notin Noises
        /\ \/ Queue!Push("listener", datagram) /\ UNCHANGED dropped
           \/ Queue!Refuse("listener") /\ dropped' = dropped \cup {datagram.id}
        /\ datagram' = Nothing
        /\ listener' = "test"
        /\ UNCHANGED <<inbox, unread>>
        /\ ListenerOnly

Listener == \/ ListenerBinds \/ ListenerTests \/ CloseSocket
            \/ Receive \/ Discard \/ Push
-----------------------------------------------------------------------------
(* The worker thread. *)
WorkerOnly == UNCHANGED <<main, listener, rest, flagVars, ingestVars, dropped,
                          report, csv, restVars>>

WorkerTestsWrong == /\ worker = "test"
                    /\ worker' = "pop"
                    /\ UNCHANGED <<queue, popped, event, recorded, filterVars>>
                    /\ WorkerOnly

WorkerTests == /\ worker = "test"
               /\ worker' = IF running THEN "pop" ELSE "ended"
               /\ UNCHANGED <<queue, popped, event, recorded, filterVars>>
               /\ WorkerOnly

Pop == /\ worker = "pop"
       /\ Queue!Pop("worker")
       /\ worker' = "predict"
       /\ UNCHANGED <<event, recorded, filterVars>>
       /\ WorkerOnly

(* has_value() is not looked at *)
PopNothingWrong == /\ worker = "pop"
                   /\ Queue!ComeBackEmpty("worker")
                   /\ worker' = "predict"
                   /\ UNCHANGED <<event, recorded, filterVars>>
                   /\ WorkerOnly

(* the worker leaves its loop *)
PopNothingWrongEnd == /\ worker = "pop"
                      /\ Queue!ComeBackEmpty("worker")
                      /\ worker' = "ended"
                      /\ UNCHANGED <<event, recorded, filterVars>>
                      /\ WorkerOnly

PopNothing == /\ worker = "pop"
              /\ Queue!ComeBackEmpty("worker")
              /\ worker' = "test"
              /\ UNCHANGED <<event, recorded, filterVars>>
              /\ WorkerOnly

(* A model that is not ready, or throws, scores 10. *)
Predict == /\ worker = "predict"
           /\ \E score \in Scores :
                 event' = [frame |-> popped["worker"], score |-> score]
           /\ worker' = "decide"
           /\ UNCHANGED <<queue, popped, recorded, filterVars>>
           /\ WorkerOnly

Verdict(score) == IF score >= 85 THEN "KernelDropped"
                  ELSE IF score >= 65 THEN "Logged"
                  ELSE "Passed"

(* block_ip: its answer is not looked at. *)
StartBlock == /\ worker = "decide"
              /\ Verdict(event.score) = "KernelDropped"
              /\ Filter!BlockEnter("worker", event.frame.source)
              /\ worker' = "block"
              /\ UNCHANGED <<queue, popped, event, recorded>>
              /\ WorkerOnly

BlockStep == /\ worker = "block"
             /\ \/ Filter!BlockKnown("worker") \/ Filter!BlockRefused("worker")
                \/ Filter!BlockUpdateFails("worker") \/ Filter!BlockUpdate("worker")
                \/ Filter!BlockInsert("worker")
             /\ worker' = IF filterPc'["worker"] = "idle" THEN "record" ELSE "block"
             /\ UNCHANGED <<queue, popped, event, recorded>>
             /\ WorkerOnly

LetPassWrong == /\ worker = "decide"
                /\ worker' = "record"
                /\ UNCHANGED <<queue, popped, event, recorded, filterVars>>
                /\ WorkerOnly

LetPass == /\ worker = "decide"
           /\ Verdict(event.score) # "KernelDropped"
           /\ worker' = "record"
           /\ UNCHANGED <<queue, popped, event, recorded, filterVars>>
           /\ WorkerOnly

Record == /\ worker = "record"
          /\ recorded' = Append(recorded, [frame  |-> event.frame,
                                           action |-> Verdict(event.score)])
          /\ event' = Nothing
          /\ worker' = "test"
          /\ UNCHANGED <<queue, popped, filterVars>>
          /\ WorkerOnly

Worker == \/ WorkerTests \/ Pop \/ PopNothing \/ Predict
          \/ StartBlock \/ BlockStep \/ LetPass \/ Record
-----------------------------------------------------------------------------
(* The telemetry thread of ResearchRESTServer. *)
RestOnly == UNCHANGED <<main, listener, worker, flagVars, ingestVars, queueVars,
                        resultVars, filterVars>>

RestBinds == /\ rest = "bind"
             /\ rest' \in {"test", "ended"}
             /\ UNCHANGED restVars
             /\ RestOnly

RestTests == /\ rest = "test"
             /\ rest' = IF restRunning THEN "accept" ELSE "ended"
             /\ UNCHANGED restVars
             /\ RestOnly

(* only the events since the last poll *)
RestMetricsWrong == /\ rest = "metrics"
                    /\ snapshot' = Len(recorded) - snapshot
                    /\ rest' = "count"
                    /\ UNCHANGED response
                    /\ RestOnly

(* compute_metrics, under the benchmarker's mutex *)
RestMetrics == /\ rest = "metrics"
               /\ snapshot' = Len(recorded)
               /\ rest' = "count"
               /\ UNCHANGED response
               /\ RestOnly

(* get_blocked_count, under no mutex; then send and close *)
RestAnswers == /\ rest = "count"
               /\ response' = [total |-> snapshot, blocked |-> Cardinality(blockedIps)]
               /\ rest' = "test"
               /\ UNCHANGED snapshot
               /\ RestOnly

(* send fails, because the client has gone: nobody looks *)
RestSendFails == /\ rest = "count"
                 /\ rest' = "test"
                 /\ UNCHANGED restVars
                 /\ RestOnly

Rest == RestBinds \/ RestTests \/ RestMetrics \/ RestAnswers \/ RestSendFails
-----------------------------------------------------------------------------
(* The world outside: Ctrl+C, clients, and the network in front of the socket.  *)
Signal == /\ running
          /\ main \notin {"exited", "killed"}
          /\ running' = FALSE
          /\ UNCHANGED <<threadVars, recvRunning, restRunning, ingestVars, queueVars,
                         resultVars, restVars, filterVars>>

ClientConnects == /\ rest = "accept"
                  /\ rest' = "read"
                  /\ UNCHANGED restVars
                  /\ RestOnly

(* The client sends its request, or goes: what read returns is not looked at. *)
ClientSends == /\ rest = "read"
               /\ rest' = "metrics"
               /\ UNCHANGED restVars
               /\ RestOnly

(* The client has reset the connection when the answer is sent.  send has no    *)
(* MSG_NOSIGNAL and SIGPIPE its default action, which ends the process: no       *)
(* thread goes on, nothing is reported, no destructor runs.                     *)
BrokenPipe == /\ rest = "count"
              /\ main' = "killed"
              /\ listener' = "ended" /\ rest' = "ended" /\ worker' = "ended"
              /\ inbox' = <<>>
              /\ Filter!Killed
              /\ UNCHANGED <<flagVars, frames, unread, datagram, queueVars, resultVars,
                             restVars>>

Arrives(d) == /\ listener \notin {"off", "bind", "ended"}
              /\ Len(inbox) < SocketBuffer
              /\ ~ Filter!XdpDrops(d.source)
              /\ inbox' = Append(inbox, d)
              /\ UNCHANGED <<threadVars, flagVars, unread, datagram, queueVars,
                             resultVars, restVars, filterVars>>

FrameArrives == /\ frames < MaxFrames
                /\ frames' = frames + 1
                /\ \E s \in Sources, l \in Labels :
                      Arrives([id |-> frames + 1, source |-> s, label |-> l])

NoiseArrives == /\ UNCHANGED frames
                /\ \E d \in Noises : Arrives(d)

FrameDropped == /\ \E s \in Sources : Filter!XdpFirewall(s)
                /\ UNCHANGED <<threadVars, flagVars, ingestVars, queueVars,
                               resultVars, restVars>>

Environment == \/ Signal \/ ClientConnects \/ ClientSends \/ BrokenPipe
               \/ FrameArrives \/ NoiseArrives \/ FrameDropped

Next == Main \/ Listener \/ Worker \/ Rest \/ Environment

(* The scheduler runs every thread that can take a step.  Whether datagrams     *)
(* arrive, clients call or Ctrl+C is pressed is up to the world.                *)
Threads == WF_vars(Main) /\ WF_vars(Listener) /\ WF_vars(Worker) /\ WF_vars(Rest)

Safety == Init /\ [][Next]_vars

Spec == Safety /\ Threads

(* A lab under load: now and then a datagram reaches the port, a client         *)
(* connects, and a client that has connected sends its request.                 *)
BusySpec == /\ Spec
            /\ WF_vars(NoiseArrives)
            /\ WF_vars(ClientConnects)
            /\ WF_vars(ClientSends)
-----------------------------------------------------------------------------
TypeOK ==
    /\ main \in {"load", "start rest", "start receiver", "start worker", "sleep",
                 "stop receiver", "join receiver", "stop rest", "join rest",
                 "join worker", "report", "export", "destroy", "exited", "killed"}
    /\ listener \in {"off", "bind", "test", "recvfrom", "check", "close", "ended"}
    /\ rest \in {"off", "bind", "test", "accept", "read", "metrics", "count", "ended"}
    /\ worker \in {"off", "test", "pop", "predict", "decide", "block", "record", "ended"}
    /\ {running, recvRunning, restRunning} \subseteq BOOLEAN
    /\ frames \in 0 .. MaxFrames
    /\ inbox \in Seq(Frame \cup Noises) /\ Len(inbox) <= SocketBuffer
    /\ datagram \in Frame \cup Noises \cup {Nothing}
    /\ queue \in Seq(Frame) /\ Len(queue) <= QueueBound
    /\ popped["listener"] \in BOOLEAN \cup {Nothing}
    /\ popped["worker"] \in Frame \cup {Nothing}
    /\ dropped \subseteq 1 .. MaxFrames /\ unread \subseteq 1 .. MaxFrames
    /\ event \in [frame : Frame, score : Scores] \cup {Nothing}
    /\ recorded \in Seq([frame : Frame, action : Verdicts])
    /\ snapshot \in 0 .. MaxFrames
    /\ response \in [total : 0 .. MaxFrames, blocked : 0 .. Cardinality(Sources)]
    /\ Filter!TypeOK

(* What becomes of a frame: it waits in the socket, is in the listener's hands, *)
(* in the queue, in the worker's hands, or recorded.                            *)
InWorker == IF worker = "predict" THEN <<popped["worker"].id>>
            ELSE IF worker \in {"decide", "block", "record"} THEN <<event.frame.id>>
            ELSE <<>>
InListener == IF listener = "check" THEN <<datagram.id>> ELSE <<>>
Ids(seq) == [k \in 1 .. Len(seq) |-> seq[k].id]
RecordedIds == [k \in 1 .. Len(recorded) |-> recorded[k].frame.id]
Pipeline == RecordedIds \o InWorker \o Ids(queue) \o InListener \o Ids(inbox)

(* As long as the daemon lives, every frame that reached the socket is in        *)
(* exactly one place of the pipeline, or was refused by a full queue, or was     *)
(* still unread when the socket was closed, which nothing but a shutdown does;   *)
(* and the pipeline keeps the order of arrival, so the record is a faithful      *)
(* account of the traffic up to the worker's hand.  A datagram that is no frame  *)
(* has the number 0 and is passed over.                                         *)
Accounting ==
    main # "killed" =>
        /\ \A j, k \in 1 .. Len(Pipeline) :
              j < k /\ Pipeline[k] # 0 => Pipeline[j] < Pipeline[k]
        /\ {Pipeline[k] : k \in 1 .. Len(Pipeline)} \ {0}
              = (1 .. frames) \ (dropped \cup unread)
        /\ dropped \cap unread = {}
        /\ unread # {} => listener = "ended" /\ ~ running

(* A verdict of KernelDropped on record means that the kernel has the source in *)
(* its map, except when there is no map or it was full.                         *)
VerdictsAreBacked ==
    owner = "ready" =>
        \A k \in 1 .. Len(recorded) : recorded[k].action = "KernelDropped" =>
            \/ recorded[k].frame.source \in Filter!InMap
            \/ mapFd < 0
            \/ Cardinality(Filter!InMap) = MapEntries

(* The report and the exported file describe the same, final set of events:     *)
(* nothing is recorded once the metrics of the report have been computed.       *)
ReportIsFinal ==
    /\ report # Nothing => report = Len(recorded)
    /\ csv # Nothing => csv = recorded

(* The objects of main's frame, which the threads hold by reference, are        *)
(* destroyed only after all three threads have ended.                           *)
NoUseAfterDestroy ==
    main \in {"destroy", "exited"} =>
        listener = "ended" /\ rest = "ended" /\ worker = "ended"

(* To a client that polls, neither the number of events nor the number of       *)
(* blocked addresses ever goes down, although the two are read at different     *)
(* moments and the second under no mutex.                                       *)
TelemetryMonotone ==
    [][/\ response'.total >= response.total
       /\ response'.blocked >= response.blocked]_vars

(* An event in the queue is evaluated and recorded, unless the daemon is told   *)
(* to stop or dies.                                                             *)
QueuedIsRecorded ==
    \A i \in 1 .. MaxFrames :
        (\E k \in 1 .. Len(queue) : queue[k].id = i)
            ~> \/ \E k \in 1 .. Len(recorded) : recorded[k].frame.id = i
               \/ ~ running
               \/ main = "killed"

(* Ctrl+C leads to a report, unless a client's reset kills the daemon first.    *)
CtrlCReports == ~ running ~> report # Nothing \/ main = "killed"

(* docs/evaluation-harness/metrics-calculation.md: a true positive is a         *)
(* malicious flow "dropped by in-kernel eBPF filter".                           *)
TruePositivesAreDropped ==
    owner = "ready" =>
        \A k \in 1 .. Len(recorded) :
            recorded[k].action = "KernelDropped" /\ recorded[k].frame.label = 1
                => Filter!XdpDrops(recorded[k].frame.source)
=============================================================================
