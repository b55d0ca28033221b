# Sentinel-Lab in TLA+

Sentinel-Lab is a research daemon that receives network-flow events over UDP,
scores each with an AI model, blocks the sources of high-scoring events in the
kernel, and reports how well and how fast it did so. This directory holds its
specification: TLA+ modules that follow the C++ sources, configurations that
model-check them with TLC, and proofs checked by TLAPS. Paths below are relative
to the root of the repository.

## 1. Inventory

### The pipeline

| Part | Source | State it keeps | Operations | Used by |
|---|---|---|---|---|
| event queue `LockFreeQueue` | `include/sentinel_lab/ring_buffer.hpp` | `buffer_`, atomic `head_`, `tail_` | `push`, `pop`, `size` | listener pushes, worker pops |
| ingest receiver | `src/network_ingest.cpp` | `running_`, the socket, one 8192-byte buffer | listener thread, `start`, `stop`, `inject_batch` | main |
| inference engine | `src/engine.cpp` | `is_ready_`, the loaded model | `load_model`, `predict_anomaly` | worker |
| mitigation back end | `src/ebpf_filter.cpp`, `bpf/xdp_filter.c` | `blocked_ips_`, descriptors, the kernel's `blocked_ip_map` | `load_and_attach`, `detach`, `block_ip`, `unblock_ip`, the XDP program | main, worker, telemetry |
| metric engine `Benchmarker` | `src/benchmarker.cpp` | `latencies_us_`, `recorded_events_` | `record_event`, `reset`, `compute_metrics`, `export_to_csv`, `print_academic_report` | worker, telemetry, main |
| telemetry server | `src/rest_api.cpp` | `running_`, one client at a time | server thread, `start`, `stop` | main |
| daemon | `src/main.cpp` | `g_lab_running` | signal handler, worker loop, start-up and shutdown | |

Four threads: main, the listener, the worker, the telemetry server. They share the
queue (no lock), the benchmarker and the filter (a mutex each, except
`get_blocked_count`, which takes none), and three flags. Main joins the other
three, in a fixed order, before it reports. What is hard here:

- *Interleaving.* The ring is synchronised by two indices only; a decision on
  one of them is acted on several steps later.
- *Two copies of one truth.* `blocked_ips_` mirrors a kernel map that can refuse
  an entry, and the kernel counts in that map at the same time.
- *Partial failure.* Loading, attaching, blocking, binding and the model may each
  fail, and the daemon goes on.
- *Shutdown.* A flag is cleared and threads are joined that may be blocked in the
  kernel.
- *Boundaries.* Lengths declared by a datagram, percentile indices, empty
  rows of a confusion matrix.

There is no persistence and so no crash recovery: a signal may end the process
(`SIGPIPE` in the telemetry server), and nothing is reported then. UDP may lose datagrams,
which for the daemon are datagrams that never arrived; those that have arrived are lost
when the listener closes its socket on shutdown.

### The evaluators

Single-threaded classes that the daemon does not use (except `EvtEngine`, in the
report), each called by a Python counterpart's user or by nobody in the
repository: `EvtEngine`, `CbfVerifier`, `MatrixInspector`, `HilCoupler`,
`DriftProfiler`, `StatefulFuzzer`, `DifferentialFuzzer`, `AdversarialEngine`,
`FdiaEngine`, `FederatedEvaluator`, `PatchRegressionEngine`, `QuantProfiler`,
`PqcProfiler`, `SideChannelCorrelator`, `DimensionHandshake`, and `PmuProfiler`,
which has a mutex and kernel descriptors. Their hard parts are boundaries, sentinels
and default values, and for `PmuProfiler` calls from several threads.

### The attack console

`simulation/attack_console.py` keeps three flags. Toggling one on starts a thread that
runs a command over and over while it finds the flag set; toggling it off, "stop all"
and leaving only clear flags. What is hard is that a thread may not look at its flag
between two toggles, and that Ctrl+C comes at any moment.

### What makes each part correct

- Queue: it behaves as a bounded FIFO; no slot is touched by both ends at once;
  an unread event keeps its content; `size()` errs on the safe side.
- Receiver: an event is made of its own datagram's bytes; a whole datagram of a
  documented number of features is never discarded.
- Back end: mirror and map agree; `true` means blocked; counters only grow;
  nothing stays attached unless the kernel refused to detach it.
- Metric engine: percentiles select values of the right rank; the matrix counts the
  labelled events, and the scores are their textbook definitions.
- Evaluators: what is reported means what it says, by a definition that does not
  follow the code, at every boundary of every threshold.
- Console: an attack shown as active has a thread that goes on with it; one that is
  switched off and left off comes to rest.
- Daemon: every frame is in exactly one place, or was refused by the queue, or was unread
  when a shutdown closed the socket; a verdict is backed by the kernel where the kernel
  could; the report is final; nobody uses what main destroyed; Ctrl+C leads to a report
  while the outside world goes on and no client's reset kills the daemon.

## 2. Modules

| Module | Models | Form |
|---|---|---|
| `BoundedFifo` | what a user of the queue may rely on | abstract specification |
| `LockFreeQueue` | `ring_buffer.hpp`, one step per atomic access and per copy | detailed, implements `BoundedFifo` |
| `EBPFFilterHarness` | `ebpf_filter.cpp`, `xdp_filter.c` | state machine, callers interleaved with the kernel |
| `NetworkIngestReceiver` | the datagram path of `network_ingest.cpp` | state machine over buffer bytes |
| `Benchmarker` | `benchmarker.cpp` | recorder, metrics as operators |
| `PmuProfiler` | `pmu_profiler.cpp` | state machine, callers interleaved with the kernel and the rest of the process |
| `EvtEngine`, `CbfVerifier` | `evt_engine.cpp`, `cbf_verifier.cpp` | functions of the samples and of the trajectory |
| `MatrixInspector` | `matrix_inspector.cpp` | recorder, composes the two |
| `HilCoupler`, `DriftProfiler`, `FdiaEngine` | `hil_coupler.cpp`, `drift_profiler.cpp`, `fdia_engine.cpp` | recorders, metrics as operators |
| `StatefulFuzzer` | `stateful_fuzzer.cpp` | state machine with the frames of a session as history |
| `DimensionHandshake`, `FederatedEvaluator`, `QuantProfiler` | `dimension_handshake.cpp`, `federated_evaluator.cpp`, `quant_profiler.cpp` | functions of their input |
| `Evaluators` | composes the single-threaded evaluators; their inputs are constants | one of them moves in each behaviour |
| `AttackConsole` | `simulation/attack_console.py` | state machine, the menu interleaved with its worker threads |
| `SentinelLab` | `main.cpp`, the threads of `network_ingest.cpp` and `rest_api.cpp` | composes `BoundedFifo` and `EBPFFilterHarness` |
| `MC...` | constants for TLC, and the state constraints | where a constant is more than a literal |
| `LockFreeQueueProofs`, `EBPFFilterHarnessProofs`, `PmuProfilerProofs`, `NetworkIngestReceiverProofs`, `AttackConsoleProofs`, `StatefulFuzzerProofs` | theorems about the module of that name | TLAPS |
| `SentinelLabProofs` | theorems about the daemon as a whole, on top of the proofs of the back end | TLAPS |
| `EvaluatorsProofs` | theorems about the evaluators composed in `Evaluators`, on top of the proofs of the session generator | TLAPS |

**LockFreeQueue.** `pc` of a thread names the step it is about to take; `at` is the
local `current_tail` or `current_head`. `PushLoadTail`, `PushFull`/`PushHasRoom`,
`PushWrite`, `PushStoreTail` are lines 17, 20, 24 and 25 of `push`; `PopLoadHead`,
`PopEmpty`/`PopHasEvent`, `PopRead`, `PopStoreHead` are lines 30, 32, 36 and 37 of
`pop`; `SizeLoadHead`, `SizeLoadTail` the two loads of `size`. The copy of an event
is a step of its own that is not atomic: `NoDataRace` says that no other thread is
ready to copy the same slot. Memory is sequentially consistent in the model. The
code's acquire loads and release stores give exactly the ordering the ring needs,
but that the C++ memory model does so is taken as given.

**EBPFFilterHarness.** `owner` is the thread that constructs, loads and destroys;
`Enter` takes `filter_mutex_`, `Return` releases it. Between `BlockUpdate` and
`BlockInsert` the kernel has the address and the mirror has not; between
`UnblockDelete` and `UnblockErase` the reverse. `XdpFirewall` is the kernel counting
and dropping a packet at any of these moments. Its model of
`bpf_map_update_elem` (`KernelTakes`) is external: it succeeds if the map exists and
the key is there or there is room. The harness is loaded at most once, and no call
is under way while it is destroyed, as `main.cpp` ensures. `Detach(ok)` is `detach` for
either answer of `bpf_xdp_detach`: the code looks at neither and sets `prog_fd_` to -1.
`refused` remembers the answer for the properties; a program that stays attached keeps its
map (`KeptByProgram`, external), and `NothingLeftAttached` is limited to a kernel that did
not refuse. `Killed` (external) is the end of the process by a signal.

**NetworkIngestReceiver.** The bytes are abstracted to who wrote them: `writer[i]`
is the number of the datagram that last wrote byte `i`. `RequiredBytes` computes the
length in the width of `size_t`, and the mutant of the model computes it in the
width of the count. The header has the 20 bytes of the comment at `network_ingest.cpp:49`
and of the scripts that send to it. The documents speak of 24 bytes and of 1 to 1024
features; `MaxDimensions` is that limit, `WholeDatagramsAccepted` claims nothing beyond
it, and `ingest_doc` shows where the code accepts more.

**Benchmarker.** Ratios are pairs of a numerator and a denominator, so the textbook
identities are compared exactly. `sorted[static_cast<size_t>(n * 0.95)]` is
`sorted[(n * 95) \div 100 + 1]`: the double product rounds to the same integer for
every `n` up to 300000. `Sorted` says what `std::sort` leaves: every element at the place
that the number of smaller ones, and of its equals before it, gives it; which of two equal
latencies comes first nobody can tell.

**PmuProfiler.** `fd[c]` is the descriptor member of counter `c`; `table[d]` is what the
process has behind descriptor `d`, so that a closed number the process reuses at once
is a different file behind the same number. A call takes `pmu_mutex_` on entry
(`StartEnter`, `ReadEnter`, and twice in `stop`, whose first half is `read_current`),
and every system call in between is a step: `Open`, `OpenFails`, `Enable`, `Read`,
`Stop`. `perf_event_open` returns the lowest free number (`IsLowest`, external), the
processor counts in `Tick`. The thresholds of `load_config` are used nowhere.

**EvtEngine, CbfVerifier, MatrixInspector.** The doubles are eliminated: the verdict on
the deadline, `mean + 8.53 * deviation <= deadline`, is squared and multiplied out
(`BoundMeetsDeadline`), and the barrier condition is kept twice over. `CSquared` is the
square of the factor in tenths, 72.7, rounded down: a deadline that the code finds met the
model finds met too, which is the side `SlaCoversCompleteBlocks` has to be safe on. Block size and the threshold for asking the engine are both 1000 in the
code and one constant here.

**HilCoupler, FdiaEngine.** Both scan their samples for the first breach, with a
sentinel for "none yet": -1 in one, which no time equals, and 0 in the other, which one
does. The loops are folds from the left, in the order of the code. In `FdiaEngine` the
stream belongs to the caller (`Collect`, external), the network's score alarms above the
threshold and the evaluation at it. `ComputeHilMetrics` has the delay of the mitigation that
its callers pass, and prints it: the clearing time does not depend on it, although the
comment above it subtracts it; `ClearingIsFirstBreach` speaks of no delay.

**DriftProfiler.** `matrix` is the sparse map; `R` fills in 0. The means over `N - 1` tasks
are kept as sums and the threshold multiplied by `N - 1`. `ForgettingIsSeen` is about
complete evaluations: a score of a task that was not trained yet makes the matrix a row
larger, and the missing row reads as total forgetting.

**StatefulFuzzer.** One action per branch of the `switch`; `session` collects the frames
since the last connect, and survives the reset inside `Inject`, so that the complete
session can be compared with the script.

**FederatedEvaluator, QuantProfiler, DimensionHandshake.** A gradient has a length, and one
component that need not be zero, an integer; sorting and summing the nearest `n - k - 2`
distances is the least sum over as many neighbours. Gradients of different or no length have
the distance 0, as in the code, so one of another length than the honest ones always wins or
ties. `StaysNear` therefore asks that the gradient selected has their length: that is the
one way around its bound, and the run contains it. `std::sort` may leave ties in any order,
so `Rankings` is a set and `EvaluateBackendDrift` the set of possible verdicts; it takes the
logits and the attributions as two independent pairs, of any lengths. The cosine is squared
and multiplied out. A frame of the handshake is its size and header; features are byte offsets, and the frames
it is checked on are built from the field widths of `struct.pack("=IQIII")`.

**AttackConsole.** `worker[k][t]` says where each thread of each attack is: at the test of
its flag, in its command, asleep or leaving. `main` stands between two steps of
`toggle_attack` (flag set, thread not started) and of `stop_all`. Ctrl+C
(`KeyboardInterrupt`) may come in any of these. Daemon threads end with the
interpreter, commands they started do not.

**SentinelLab.** One program counter per thread. A call that holds a mutex from its
first line to its last is one step, except `block_ip`, whose steps are those of
`EBPFFilterHarness`, because `get_blocked_count` reads the mirror without the mutex.
The queue is the `BoundedFifo` that `LockFreeQueue` is proved to implement. The
model's score is any of `Scores`; 10 (percent) is among them because the engine
falls back to it. `Signal`, `ClientConnects`, `ClientSends`, `FrameArrives`,
`NoiseArrives` and `FrameDropped` are the outside world; a frame whose source the
attached program blocks does not reach the socket. On shutdown `CloseSocket` throws away
what the listener has not read, into `unread`. `Export` writes the file or, when it cannot
be opened, leaves no trace. An answer is sent (`RestAnswers`), is not (`RestSendFails`), or
ends the process (`BrokenPipe`): `send` has no `MSG_NOSIGNAL`, and a client that has reset
its connection raises `SIGPIPE`; every thread stops where it is, no destructor runs, and
the program stays attached. `Pipeline` lines up the numbers of the
frames on their way, from the record back to the socket's buffer, with 0 for a datagram
that is no frame: each step of a thread leaves it as it is, takes one number out or adds
one at its end.

## 3. Runs

| Run | Question | Bounds, and why they are enough |
|---|---|---|
| `queue` | data races, lost or overwritten events, linearizability | ring of 3 slots: it wraps, fills at 2 and empties; 2 events tell order and identity; 1 producer, 1 consumer, as in `main.cpp` |
| `filter` | mirror, counters, detaching and its refusal | 3 addresses for a map of 2: the map fills; 2 callers contend for the mutex; counters to 2 |
| `ingest` | stale bytes, length arithmetic | buffer of 32 bytes: header and 3 floats; sizes around every boundary; 7-bit counts, for which `20 + 4 n` in the wrong width would wrap; 2 datagrams, so that the second finds bytes of the first; a documented limit of 2 features, below what the buffer holds |
| `pmu` | descriptors, leaks, foreign sessions | 2 callers, 5 counters and 5 descriptor numbers, so that any counter can find none left; other files come and go; counts to 1 tell a counter that ran from one that did not |
| `evaluators` | does each evaluator report what its input means | *metrics*: every sample of up to 3 events over 3 labels and 3 actions, and scrambled latencies up to 110 events, past 100, where every percentile selects a distinct rank; *scorecard*: blocks of 2, up to 5 snapshots: none, one and two blocks, with and without a partial one, temperatures and latencies on both sides of every limit; *HIL, FDIA*: 4 samples and 3 frames, times that repeat and include 0; *drift*: 3 tasks and all cells up to one zero-shot column; *sessions*: 3-bit numbers and up to 7 polls, so that numbers wrap; *Krum*: up to 7 clients, so that two that collude stand against five, with gradients of another length and of none; *rankings*: logits that are equal, near, turned, opposed, null or incomparable with every two vectors of up to 3 attributions with ties, of equal and of different lengths; *frames*: every prefix of every frame of up to 4 floats for a limit of 3 |
| `console` | lost and leftover attacks | 2 attacks, 3 threads of each alive at a time: one going on, one leaving, one new; a fourth would add no new combination of the flag and the rest |
| `daemon_safety` | accounting, verdicts, final report, lifetime, telemetry | 3 frames of 2 sources for a queue of 1, a socket buffer of 1 and a map of 1: the queue refuses, the map fills, a source is seen again after it was blocked |
| `daemon_live` | evaluation and shutdown | 2 frames of 1 source, one low and one high score; every answer may fail or end the process |

Four runs show disagreements between the code and what the repository says of
it; the property of each is that statement, and TLC refutes it:

- `daemon_ctrlc`: the daemon prints that Ctrl+C gives a report "at any time"; without
  traffic or a client, main waits forever for a thread blocked in the kernel.
- `daemon_doc`: a documented true positive is dropped in the kernel; the code
  records the drop whether or not blocking worked or a program is attached.
- `ingest_doc`: the documented checks drop frames of less than `24 + 4 n` bytes and of more
  than 1024 features (`docs/slab-protocol/protocol-validation-checks.md`); the receiver
  accepts `20 + 4 n` bytes and any count that fits its buffer.
- `pmu_bus`: the bus cycle counter is listed among those profiled; it is opened and read
  and never enabled.

`CHECK_DEADLOCK FALSE` is set where the system really stops: the daemon exits, the
harness is destroyed, the bounded number of datagrams has been received.

Further disagreements that no run checks, because one reading of the code shows them:

- `tests/test_ebpf.cpp:12` asserts that a blocked address is counted; the harness of that
  test is never loaded, so `block_ip` returns false and counts nothing.
- `detach` prints that the filter is detached (`ebpf_filter.cpp:62`) whatever
  `bpf_xdp_detach` answered; `NothingLeftAttached` excepts a kernel that refused.
- The report "at any time" also fails under traffic, when a client resets its connection
  before it is answered: SIGPIPE ends the process. `CtrlCReports` names this exception.
- The comment at `hil_coupler.cpp:83` subtracts the mitigation's time from the clearing
  time; the code does not. `ClearingIsFirstBreach` is stated for no delay.
- A score with nothing to divide by is 0.0 in section 3 of
  `docs/evaluation-harness/metrics-calculation.md`; precision and recall are 1.0 in the code.
  `MatrixIsTextbook` compares scores that have a denominator.
- The receiver refuses every frame of `harness/socket_injector.py`, whose magic is packed
  the other way round and which `DimensionHandshake` accepts.
- The documented percentile is one rank below the code's.
- The constructor of `FederatedEvaluator` takes an algorithm that only the name in the
  report depends on.
- `calculate_rank_inversion_pct` is documented as a Spearman correlation and counts
  differing positions.
- The scorecard of an unsafe run reports a clearing time of 38.4 ms whatever was recorded
  (`matrix_inspector.cpp:88`).
- The patch gate subtracts unsigned counts, so fewer false positives reject a patch.
- The ML-KEM-512 sizes of `pqc_profiler.cpp` are not those of its header's comment.
- The console says "All attacks stopped" while commands still run.

In `pmu` a state constraint bounds the counts. In `evaluators` one stops a sample of more than
three events unless it is the scrambled one, a sample that goes on beside the metrics of
an earlier one, which nothing reads, and a federation with so many Byzantine clients that no
seven clients would outvote them. What
`SlaCoversCompleteBlocks` does not claim: before two blocks are complete the scorecard
says that deadlines are met, whatever the latencies, and from 75 blocks on a single
outlier may lie above a bound that is met.

**Fairness.** `Threads` is weak fairness of each of the four threads: the scheduler
of the operating system runs a thread that can run. A thread blocked in `recvfrom`,
`accept` or `read` cannot. Nothing is assumed of the outside world in `Spec`;
`BusySpec` adds that some datagram keeps arriving, that clients keep connecting and
that a connected client sends its request or goes. A client is under no obligation to
stay for the answer, so `CtrlCReports` is: a report, or the daemon was killed. It holds
under `BusySpec` (`daemon_live`) and fails under `Spec` (`daemon_ctrlc`): that difference is
the finding.
`QueuedIsRecorded` has the same exception. Neither speaks of the file, which may not open. The bounds on frames do not help it along, since noise datagrams are
unbounded. In `AttackConsole` every thread that can run does, and every command ends
(five ports, a timeout of a second, a thousand packets); the user is under no
obligation, and main acts only on what was chosen.

## 4. Proofs

Checked by TLAPS, for every value of the constants:

*LockFreeQueueProofs.* `TypeCorrect` for any set of producers and consumers. The
others assume `SingleEnds`, at most one of each, which is how `main.cpp` uses the
queue and without which they are false. The inductive invariant is `TypeOK /\
TestsStayTrue`: a thread's own index has not moved since it read it, the room or the
event it found is still there, and the slot in hand has the content the call is
about. `TypeOK` alone is not inductive for any of the others, because a step such as
`PushStoreTail` acts on a test made steps earlier. From it follow `RaceFree`,
`UnreadKept` and `SizeSafe`. `Refinement` shows that each step of the ring is a step
of `BoundedFifo` or leaves it unchanged: `PushStoreTail` is `Push`, `PopStoreHead` is
`Pop`, `PushFull` is `Refuse`, `PopEmpty` is `ComeBackEmpty`. Its lemmas say what the
indices mean: `Distance` and `Offset` wrap around together, and moving one index
appends to or takes the head off `Unread`.

*EBPFFilterHarnessProofs.* For any set of callers, addresses and any map size:
`TypeCorrect`, `MirrorInSync`, `DetachComplete`, `CountersGrow`, `TrueIsInKernel`.
The inductive invariant joins `TypeOK`, `MutexHeld` (a call is under way exactly when
the mutex is held, hence at most one), `MirrorAgrees`, and facts about the
descriptors: as long as the process lives, a program is attached only while `prog_fd_` is a
descriptor or after the kernel refused to detach it.

*PmuProfilerProofs.* For any callers, descriptors and counts: `TypeCorrect`,
`DescriptorsAreOwn`, `NothingLeaks`, `SessionIsLive`, `OfThisSession`. They need each
other: that a start opens into empty members needs `MutexHeld`, that no descriptor is
lost needs `OwnDescriptors`, that a read finds its own session needs `SessionOn` (the
flag is set only while cycles and instructions are open and enabled) and `Places` (where
a caller may stand, given the mutex). Their conjunction with `TypeOK` is the inductive
invariant `PmuInv`, proved action by action.

*NetworkIngestReceiverProofs.* For any buffer, datagram sizes and counts: `TypeCorrect`,
`OwnBytes`, `WholeAccepted`. The inductive invariant is `TypeOK /\ Fits`: between the
reception and the check, every byte below `len` is of the datagram just received, and
`len` is its size cut to the buffer. `OwnBytesOnly` alone is not inductive, because
`Deliver` reads bytes that `Receive` wrote. That the length check says what it means
rests on `NoWrap`, and that on `WidthAssumption`: the largest count times the size of a
float still fits the width of `size_t` (32 and 64 bits in the code). The other assumptions
only give the constants their types.

*AttackConsoleProofs.* `ActiveIsCarried` for any attacks and threads. `ActiveHasWorker` says
nothing of the moments between two steps of the menu, so the inductive invariant does:
`Sustained` (a set flag has its thread, or is about to get one, or is about to be
cleared) and `Cleared` (a flag that `stop_all` has passed stays cleared, and after the
exit all are).

*StatefulFuzzerProofs.* `FollowsScript` for every number of polls and every width of the
sequence number, which may wrap in the middle of a session (`Sized`: they are numbers).
`Place` says for each state how much of the script has been played, and that both counters
agree with it: the poll count exactly, the sequence number up to the modulus (`Counted`,
`CountOn`).

*SentinelLabProofs.* The daemon, for any sources, labels, scores, number of frames and sizes
of the queue, the socket's buffer and the kernel's map: `TypeCorrect`,
`FramesAccountedFor`, `DropsAreBacked`, `ReportStays`, `ObjectsOutliveThreads`,
`PollsNeverFall`, and that the daemon uses its parts as their specifications allow,
`UsesHarness` (every step is a step of `EBPFFilterHarness` or leaves it alone) and
`UsesQueue` (the same for `BoundedFifo`, which the ring implements). The assumptions are
those of the module: the sizes are numbers, the sources finitely many, a score is a
percentage, the model's fallback score is one of them. The inductive invariant is
`DaemonInv`:

- `Lifecycle` and `NoListener`: which threads exist and which have ended at each step of
  main. `NoUseAfterDestroy` follows, and the others need it: a record after the report
  would have to come from a worker that main has joined.
- `HarnessInv` of `EBPFFilterHarnessProofs`, taken over by instantiation: the lemmas
  there are stated per step, `SameHarness` says that the two instances are one, and
  `WhoMovesHarness` and `FilterMoves` that each step of the daemon is one of the
  harness's or none. `InStep` says how far the harness is for each step of main and of
  the worker's call.
- `Hands`: what each thread holds at each of its steps, so that what is popped is a frame
  and what is recorded is the event it was made into.
- `Backing`: the verdict is backed not only on record but in the worker's hand between
  the return of `block_ip` and `record_event`; that the map is full is a fact that the
  daemon never undoes, because it never unblocks.
- `Final` and `Told`: what the report and a polling client have seen is what there is, or no
  more than that. `TelemetryMonotone` follows step by step, since neither the record nor
  the mirror ever shrinks.
- `Accounting` with `Refused`. Each thread does one of these things to the pipeline
  (`ListenerMoves`, `WorkerMoves`, `NetworkMoves`): it `Stays` (a frame changes hands), it
  `Loses` a number in its middle (a full queue, noise), it `Gains` one at its end, or the
  socket `Closes` and the end is cut off into `unread`. That only a shutdown gets there is
  `Stopping`. A killed daemon accounts for nothing.
  Each keeps the order and the set of numbers (`AccountingStep`), by lemmas about
  concatenation. `RecordedBounded`, an injection into the frames, bounds the record.

*EvaluatorsProofs.* All twelve properties of the evaluators, for inputs of every length and
every value: `MatrixHolds`, `PercentilesHold`, `CertificateMeans`, `VerdictsCoincide`,
`DeadlinesHold`, `ClearingHolds`, `AlertHolds`, `ForgettingHolds`, `SessionsHold`,
`KrumHolds`, `RankingHolds`, `HandshakeHolds`. The assumptions are those of `Evaluators`:
degrees, latencies, scores, gradients and attributions are whole numbers, times are counted
from 0, an event has the type of the code's, and the plant's limit, 120 unless configured,
is not below zero (`VerdictsAgree` is false for a limit below the 0 from which the maximum
starts). The inductive invariants say what the state holds: `Recorded` (one latency for each
event), `Measured`, `Sampled` and `Collected` (samples and frames in order of time, and no
alarm below the threshold), `MatrixTyped` (finitely many cells), `Clients`, `Compared`,
`Arrived`. That order is needed: without it the first breach is not the earliest. The
work is in the lemmas about the operators:

- *Induction.* The theorems of the library that take a predicate cannot be used, so it
  goes by a least counterexample (`Least`), or by the set of numbers or of subsets for which
  the claim is true (`UpTo`, `OneByOne`). Hence minima and maxima exist (`LeastValue`,
  `GreatestValue`, `FiniteGreatest`), and a finite set has parts of every size
  (`PartOfSize`).
- *Sums.* `SumFunctionOnSet` is a recursive function on the subsets of a set, and the element
  it takes next is a `CHOOSE`. `AddsExists` shows that the function exists, `SumRemove` that
  any element may be taken out first; from these, bounds on terms bound the sum
  (`SumAtLeast`, `SumAtMost`), a part of a sum of naturals is no more than the whole
  (`SumOfPart`), steps telescope (`SumOfSteps`), and `Cauchy` is the inequality of Cauchy and
  Schwarz.
- *The fold of the first breach.* `ScanExists` and `FirstHit` treat both scans at once: the
  value kept is a sentinel as long as there was no hit, and the time of the first one from
  then on. Whether the sentinel can also be a time is what tells the two apart: `Clearing`
  has it below 0, and `Alerting` needs the premise that no breach is at time 0.
- *The worst-case bound.* If the bound is met, the deadline lies at least 8.53 deviations above
  the mean; a maximum beyond the deadline would lie further still, and by itself makes the
  deviation large (`VarianceOf`, with `Cauchy` for the others). `Outlier` compares the two
  squares: they contradict each other as long as `10 (n - 1)^2 <= 727 n`, which holds for 2 to 74
  maxima and not for 75, and is why `SlaCoversCompleteBlocks` stops there.
- *Krum.* The score of the winner is at most that of any honest client, and an honest
  one has `n - k - 1` honest others within the diameter, more than its score counts. An honest
  winner has no gap; of the `n - k - 2` nearest neighbours of a Byzantine one at most `k - 1` are
  Byzantine, and each of the others is at least the gap away (`Near`). That gradients which
  cannot be compared are at distance 0 does no harm to this argument, only to what the
  bound means, which is why the property asks for a common length.
- *Forgetting.* Each task's gain telescopes to its last score minus its first.
- *The percentiles.* The places that `Sorted` gives are injective on a finite set, hence every
  place is taken (`PlaceAll`), so the result is in order and as many elements are below a
  rank as the rank says (`SortedIs`); `RankOf` is the arithmetic of the index.
- *Rankings.* Two rankings of a strict order have no first rank in which they differ
  (`SameRanking`). A ranking is a bijection because it is injective on finitely many places
  (`RanksAll`), hence two never differ in one rank alone (`NeverOne`). Logits none of which
  kept its sign have no positive product (`Opposed`), and a vector other than zero has one
  with itself (`OwnWay`).
- *The rest.* A margin that never loses more than a 21st stays nonnegative (`NeverBelow`);
  `Counts` sees the labelled events, the alarms and the malicious ones as disjoint unions of
  the four cells, `Harmonic` and `Textbook` are the arithmetic of the F1 score; `SessionsHold` reuses the invariant of `StatefulFuzzerProofs`.

Model-checked only: liveness (`QueuedIsRecorded`, `CtrlCReports`, `StoppedComesToRest`),
which is out of reach of the prover. The operators of the model themselves, where
they stand for a loop of the code (a sum, a fold, a sort), are taken to compute what the loop
does.

## 5. Plan

1. Done: the queue and its abstract specification, the back end, the datagram path,
   the metric engine, the daemon that composes them; proofs of the first two.
2. Done: `PmuProfiler` with its proofs, and the scorecard of `MatrixInspector` with the two
   engines it composes.
3. Done: the attack console, and the evaluators `DimensionHandshake`, `StatefulFuzzer`,
   `HilCoupler`, `FdiaEngine`, `DriftProfiler`, `FederatedEvaluator` and `QuantProfiler` in
   one run with the metric engine and the scorecard.
4. Done: proofs about the receiver, the console and the session generator.
5. Done: proofs of every safety property of the daemon, of its use of the queue and of
   the back end, and of all properties of the evaluators, over constants for their inputs.
6. Open: what the ratio of two counters read one after the other may exceed, what
   `PmuProfiler::stop` loses between its two critical sections, and what `block_ip` leaves
   behind when the daemon ends.

## 6. Not modelled

Four evaluators without state and with nothing to relate: `PatchRegressionEngine` (four
comparisons), `DifferentialFuzzer` (a table of two Booleans, random bytes),
`AdversarialEngine` (one random number per feature), `PqcProfiler` (a sum of table
constants); and `SideChannelCorrelator`, a correlation over reals. Of the modelled ones: the
Lyapunov exponent, the mean square error, the loading of configuration files, and gradients
with more than one component other than zero. The Python harness (orchestration and plotting around the same
formulas), the examples and training tools, the text of reports, the model
itself (any score), real time (`throughput_eps`, latencies are given), the sockets'
options, weak memory, and the kernel beyond the map and the program. `inject_batch` has
no caller; as a second producer it would break `SingleEnds`, and `TestsStayTrue` with it. A
second `load_and_attach` has none either.
