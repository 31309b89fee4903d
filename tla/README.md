# Portable 2D-DIC: TLA+ models and proofs

This directory models the concurrent core of Portable 2D-DIC in TLA+, checks it
with TLC on small instances, and proves its main safety properties with TLAPS
for every value of the constants. Paths below are relative to `Portable-2D-DIC/`
of the repository.

## 1. The system

**DIC Edge** (`apps/dic_edge.cpp`) runs next to the camera. A capture thread
takes frames from a fixed pool and pushes them into a latest-frame queue; a
processing thread pops the newest frame, correlates it with the reference (the
first frame of the session), estimates strain, and calls back into the Edge,
which queues the result for storage and publishes it to the Studio. A worker
thread writes results to `results.p2dic`, optionally to `results.csv`, and keeps
`manifest.json`. A control server answers one-line commands (`START`, `STOP`,
`PAUSE`, `RESUME`, `RESET`, `CONFIG`, `STATUS`, `PING`, `SHUTDOWN`); two stream
servers send the latest result and the latest preview to whoever connects. **DIC
Studio** (`studio/`) is the Qt client of all three ports.

### Inventory

| Component | Code | State | Operations | What is hard | What makes it correct |
|---|---|---|---|---|---|
| Measurement pipeline | `src/pipeline.cpp` | state, stop and pause flags, `processing_active_`, reference, counters | `start` `pause` `resume` `stop`, two thread loops, `report_fault` | a condition variable notified without its mutex; faults at any point; a stop that races with a grab | no lost buffer, results in order, pause is effective, always restartable, calls return |
| Frame pool | `include/p2dic/frame_pool.hpp` | free buffers, closed | `acquire`, return, `reopen`, `close` | frames leave on seven different paths | every buffer comes back; never empty for the capture thread |
| Latest-frame queue | `include/p2dic/latest_queue.hpp` | frames, closed | `push` (evicts), `wait_pop` (skips), `reopen`, `close` | counts drops on two threads | newest first, order kept, drops counted once |
| Cameras | `src/*_camera.cpp` | device, library, streaming, files | `open` `start` `grab` `stop` `close` | `stop` and `close` from another thread, five ways out of `grab` with a driver's buffer | a grab finds the camera open; buffers, device and library are given back |
| Result writer | `src/async_result_writer.cpp` | open, accepting, stop, faulted, queue, counters | `open` `enqueue` `close`, worker | a failure at any write, close after a failure, a crash | nothing lost silently, complete means durable |
| Session files | `src/result_writer.cpp`, `src/session_binary.cpp` | streams, session_open_ | `open` `append` `flush` `close` `write_manifest` `scan` | torn records, two-step replace | a readable prefix, a truthful status |
| Edge state machine | `src/edge_state.cpp` | state | transitions with required source states | faults from other threads | a fault is sticky |
| Edge main | `apps/dic_edge.cpp` | the above, `shutdown_requested` | command handler, callbacks, shutdown | check and act around blocking calls while callbacks change the state | what the Edge shows is what it does |
| Control server | `src/tcp_control_server.cpp` | stop flag, one connection | accept, receive, dispatch | blocking `recv` | every command answered, stop returns |
| Stream servers | `src/result_stream_server.cpp` | latest packet, generation | `publish`, `run` | slow, dead and vanishing clients | latest packet delivered whole, in order; the Edge survives |
| Studio clients | `studio/*_client.cpp` | buffer, timers | connect, read, reconnect, time out | packets in pieces, half-open connections, late answers | only whole valid packets; reconnects |
| Configuration | `src/edge_config.cpp` | the values, the file with its `.partial` and `.bak` | `validate` `load` `save`, `CONFIG` | replace in several steps, each of which may fail | what was promised saved is there; a whole file survives |
| CUDA engine | `src/cuda_grid_engine.cu` | device images, point results, cached reference, fallback displacement | `process`, `allocate`, two kernels | work enqueued now and executed later; barriers; a reference kept on the device across calls that throw and across sessions | no data race; the result is of the two frames given; displacements go with the reference they were measured from |
| CPU engines | `src/zncc*.cpp`, `src/subpixel.cpp`, `src/hybrid_grid_engine.cpp` | none between calls | `process` | a refinement that leaves the image, loses texture or does not converge | reads inside the image; a valid point has converged where it was scored |
| Strain | `src/strain_estimator.cpp` | the grid and its neighbours | `apply` | the neighbours are kept from call to call | the strain is that of the field given |
| Statistics | `include/p2dic/performance_stats.hpp` | ring of samples | `add` `clear` `snapshot` | percentile index, wrap of the ring | order statistics of the last samples |

Interactions: the Edge calls the pipeline and the writer under `command_mutex`;
both call back into the Edge from their threads (`result`, `preview`, `fault`),
without that mutex; the pipeline's threads share the pool, the queue and four
atomics; the writer's producer, worker and closer share one mutex.

## 2. The modules

| Module | What it is |
|---|---|
| `Pipeline` | `ProcessingPipeline` with pool, queue, pause gate and camera flag: the caller, the capture thread and the processing thread step by step |
| `PipelineContract` | what `Pipeline` promises to its owner: states, threads, which call is pending, order of results |
| `PipelineProofs` | the invariants of `Pipeline`, and that it keeps `PipelineContract` |
| `AsyncWriter` | `AsyncResultWriter` with `SessionBinaryWriter`, `ResultWriter` and the files: producer, worker and `close` step by step, disk failures, crashes |
| `StorageContract` | what `AsyncWriter` promises to its owner |
| `ResultLog` | what `AsyncWriter` promises to a reader of the files: an append-only log with a status |
| `AsyncWriterProofs` | the invariants of `AsyncWriter`, that it implements `ResultLog` and keeps `StorageContract`, and what a reader of its files finds |
| `SessionScan` | the bytes of `results.p2dic` and `scan_session_binary`, which recovers its records |
| `SessionRecovery` | `AsyncWriter` and `SessionScan` together: the scan of whatever is on disk |
| `Edge` | the command handler, the state machine, the control server, the callbacks and the shutdown, composed with the two contracts |
| `EdgeProofs` | the invariants of `Edge` |
| `ResultStream` | `ResultStreamServer`, the TCP connections and the Studio's `ResultClient` |
| `Control` | the Studio's `EdgeClient` and the connection state of `MainWindow`, against the accept loop of `TcpControlServer` and the states of the Edge |
| `StudioProofs` | both connections of the Studio: packets stay whole and in order, the client keeps trying, and no late answer is taken for another request's |
| `GaussNewton` | `gauss_newton_kernel`, warp by warp, between its barriers |
| `CudaEngine` | `CudaGridEngine`: the host's `process`, the CUDA stream, and `GaussNewton` as the kernel it executes |
| `CudaEngineProofs` | the barriers of the kernel, for any number of warps and iterations, and what the stream will have put on the device |
| `Camera`, `CameraProofs` | `GalaxyCamera` over the GalaxySDK and `ReplayCamera`, under `start`, `stop` and the capture thread of the pipeline |
| `ConfigSave`, `ConfigSaveProofs` | `CONFIG`, `CONFIG SAVE` and the start from a file: every step of `save_edge_config` |
| `GridSearch` | `ZnccGridEngine` and `HybridGridEngine`: which pixels they read, which results they keep |
| `GridStrain` | `GridStrainEstimator` with its cache of neighbours |
| `RollingStatistics` | the class of that name |
| `Numerics`, `NumericsProofs` | the last three side by side, with values for TLC; their proofs |
| `Results` | `SessionRecovery` and `ResultStream` side by side: the two places a result goes to |
| `EdgeParts` | `Numerics`, `CudaEngine`, `Camera` and `ConfigSave` side by side: parts of the Edge that share no state |

`Results` and `EdgeParts` say nothing about how their parts interact, because the
parts do not: a behaviour is one of any part while the others rest in an initial
state, and one run checks them all. The parts keep their own specifications, of
which the proofs speak, and differ in their names for that reason (`EngineInit`,
`cameraVars`, `saveStep`, `serverOwner`).

### Correspondence to the code

*Pipeline.* One action is a stretch of one thread's code in which nothing
another thread does matters. `caller` is the thread in `start/pause/resume/stop`
(`spawnCapture` is line 70 of `pipeline.cpp`, `pauseTest` and `pauseBlock` are
the two halves of the `wait` of line 92, `closeQueue` .. `joinProcessing` are
lines 115-131); `capture` and `processing` are the places in the two loops.
`pauseMutex` is taken exactly by a thread between a failed predicate and its
blocking, because notifications are sent without the mutex; `waiting` is the
wait set of `pause_condition_`. The queue's and the pool's own condition
variables are used correctly (the flag changes under the mutex) and wait with a
timeout, so waiting on them is a guard. A frame is its number; the pool is the
number of its free buffers.

*AsyncWriter.* A result is its number in the session. `records`, `durable`,
`torn` and `badStream` are what was written to the stream of `results.p2dic`,
how much of it is on disk, whether a part of a record follows, and the stream's
error bit; a buffered stream may reach the disk at any append. `rows`, `badCsv`,
`csvOpen` are the same for the CSV, without the crash; `manifest` is the status
a reader finds. Every file operation of `close` is an action with a failing
twin. `Crash` kills the process.

*SessionScan, SessionRecovery.* A byte is the record it was written for and its
place in it, so that a checksum agrees exactly with the payload it was taken of;
`Scan` is the loop of `scan_session_binary`. `FilesOnDisk` are the files
`AsyncWriter` may have left, cut anywhere inside the record that follows the
durable ones, or inside the header.

*Edge.* `step` follows the control thread through `recv`, the handler and the
response, and then the main thread through the shutdown. The pipeline and the
storage take the steps of `PipelineContract` and `StorageContract` (`Pipe!...`,
`Store!...`), conjoined with what the Edge does at that point: `StoreResult` is
the pipeline's delivery and the storage's acceptance in one, because the
callback of the one calls the other. `telling` holds the threads inside a fault
callback: `report_fault` marks its component first and calls `state.fault()`
later, and other steps come in between.

*ResultStream.* `thread` is the place of the server's thread in `run` and
`send_all`, `serverOwner` that of the owner in `start` and `stop`; `generation` is
`generation_`, and a publication is its generation. A packet takes `Chunks`
calls of `send`. `link` is the accepted connection as the server's socket sees
it: a client that left did so with FIN, with a reset, or in silence, and a
second packet after a FIN finds the pipe broken. The server reads nothing, so it
notices such an end only when it sends. The Studio runs one event loop: every
slot of `ResultClient` is one action (`StreamConnected`, `ReadPackets`,
`ConnectionLost`, `ConnectFails`, `Reconnect`, `FailProtocol`, `Disconnect`).
Previews use a second instance of the same server class and a client of the same
text; one of the two is modelled.

*Control.* Studio is one event loop, so a slot is an action: `Issue` and `Send`
are `sendCommand` with and without a request that is active, `ReadResponse` is
`onReadyRead` with `handleResponse`, `Timeout` and `Error` end in
`handleFailure`. `label` is what the connection label says, `shown` the state in
the last `STATUS`, on which the enabled buttons (`Offered`) depend; the dialog
that confirms `RESUME` runs the event loop, so that other events come while it
is open (`asking`). Each request has its own connection, named by a token that
is used again once nothing has it. A command whose line was sent is executed
whether Studio still waits or not. The commands' effects are those `Edge` models
in detail, here as one step with an outcome.

*GaussNewton, CudaEngine.* A block of the kernel solves one grid point, and
blocks share nothing, so one block is modelled. Its warps are processes, because
the shuffles keep the threads of one together; an action is the code between two
accesses to shared memory or barriers, and `Synchronise` is `__syncthreads`.
Numbers are replaced by their origin: a displacement is the number of steps
taken and the reference it is measured from (`estimate`, `base`), a sum is the
estimate its samples were taken at, an image is its frame. `step` is the place
in `process`; `stream` holds what was enqueued and not executed, and a copy
reads its source when it is executed. `cached` is the pair of address and
timestamp by which `process` recognises the reference on the device. Any CUDA
call may fail, which ends the session and leaves the stream as it is.

*Camera.* `caller` is the place in `ProcessingPipeline::start` or `stop`,
`capture` that of the capture thread in its loop and inside `grab`; `camera` are
the members of the camera, `sdk` what the SDK holds for it: the library, the
device, the acquisition and the buffers taken and not given back. `open` of the
Galaxy camera has three phases (`Open` the library, `OpenDevice`, `SetDevice`
the eight settings); from the second on a failure runs the handler, which closes
what is open and throws (`HalfOpenClosed`), and `caller = "refused"` is the
moment between that throw and the handler of `start`, which stops and closes the
camera a second time and would hide a handler of `open` that does not. `grab` ends in
five places after it has taken a buffer (`UseBuffer`). When the processing
thread cannot be spawned, `start` stops and closes the camera under the grab of
the capture thread (`pipeline.cpp:73-77`); `processingFailed` remembers it.

*ConfigSave.* `disk` has the contents of the three files, `Torn` while one is
written; `saveStep` is the place in `save_edge_config`. Each step of `save_edge_config` is an action, `RenameFails` is followed
by the copy back of `.bak`, and `Crash` may come between any two. Three of the
values are kept, those between which `validate` has rules that `CONFIG` can
break; a rate loses digits when it is written, as the code writes it with a
fixed precision. A file that is cut off may load, because missing keys get
defaults.

*GridSearch.* One axis of the image; the code treats both alike. `stage` is the
place in the loop over the points, `reads` the pixels of the deformed image that
the last step read. What the pixels say (the best displacement, texture, the
next Gauss-Newton step, a singular system) is arbitrary. *GridStrain* computes
with exact integers, a quotient as numerator and determinant, on fields with a
constant gradient, some points of which are not valid: `NormalEquations` are the
seven sums, `Determinant` and `Solution` what `apply` makes of them.
*RollingStatistics* keeps the samples and the window; `Ascending` is the sorted
copy `snapshot` works on.

## 3. What is checked

| Run | Question | Bounds | Distinct states |
|---|---|---|---|
| `pipeline` | with every failure and with pauses: buffers, frames, pause, the refinement of `PipelineContract`, and that nothing hangs but for lost wakeups | queue 2, pool 5, 6 frames | 82013 |
| `pipeline_calls_hang` | do all calls return when nothing fails? (violation) | 3 frames | |
| `results` | the files: safety with disk failures and crashes, the refinements of `ResultLog` and `StorageContract`, the scan of every file that is left; `close` returns, accepted results are written. The stream: packets stay whole, results never go back, the client keeps trying, `stop` returns, and what, and nothing else, can keep the newest result from a Studio that connects again | files: queue 2, flush every 2, 5 results, headers and payloads of 2 bytes; stream: 3 publications of 2 chunks, 3 chunks in the wire, backlog 2, 2 faults | 93888 (files 21313, stream 72575) |
| `edge` | what the Edge shows and answers against what it does; faults end measurements; what, and nothing else, can keep a command from its answer and a shutdown from its end | 2 frames, everything may fail | 130223 |
| `edge_shutdown_blocked` | does a signal end the process when nothing fails? (violation) | 2 frames | |
| `edge_stop_error` | is `STOP` of a healthy measurement answered `OK`? (violation) | 2 frames | |
| `stream_held_back` | does the newest result reach a Studio that connects again, when nothing is lost? (violation) | 2 publications, no faults, no signals | |
| `stream_sigpipe` | does the Edge survive a Studio that leaves? (violation) | 2 publications, no faults | |
| `control` | what Studio reads is the answer it waits for, requests end, the state shown catches up with the Edge | backlog 1: three connections at once | 259926 |
| `control_not_retried` | is a failed request followed by another? (violation) | same, nothing is lost | |
| `parts` | engine: no data race, the result is of the frames given, accepted displacements and the median of a recovery pass are of the reference on the device, `process` returns. Cameras: is the camera open whenever a grab uses it, is everything given back? Configuration: does `PATH` hold what was saved, does a whole configuration survive? Numerics: strain of the field given, percentiles of the last samples, reads inside the image, valid points converged | engine: 2 warps, 2 iterations, 4 frames, 1 recovery pass, calls fail anywhere; both cameras, 2 files, everything may fail; configuration: 2 widths, 2 offsets, 2 rates, 3 failures or kills; numerics: 3 grids of 4 or 6 points, window 3 with 5 samples, width 13, radii 2 and 1, 3 refinements | 477578 (engine 239529, cameras 329, configuration 188352, numerics 49354 alone) |
| `engine_stale_fallback` | does a session's first frame start from zero, or from this reference? (violation) | 1 warp, 1 iteration, 4 frames, nothing fails | |

The bounds. A queue of two is the smallest in which `push` evicts one frame and
keeps another and in which `wait_pop` skips one; the pool is the least that
`RuntimeConfig::validate` allows. Six frames fill pool and queue and evict, and
sessions repeat without bound because `start` resets the counters. With a flush
every two results and five results there are flushed, unflushed and queued
results at the same time. The Edge does not look at frame numbers, so two are
enough to have results before and after a pause. Three publications let the
server skip one and the client still be in the middle of another; three chunks
in the wire hold one packet and a part of the next; two faults can hit the
connection that repaired the first. A backlog of one lets the Edge serve one
command Studio has given up and hold another while Studio makes a third request.
Two warps show every interleaving between thread 0 and another warp (the proofs
cover any number); four frames make two sessions of one measured frame each, or
one with three, in two buffers, so that a reference can come to the address of
the one before. Three faults in the configuration are those after which no whole
configuration is left. In the grid search there are a point that fits exactly
and one that does not, and steps that leave the image on both sides; two of the
grids have as many points at other coordinates; five samples wrap a window of
three.

Fairness. The threads and pending calls run when they can (`WF`); the mutex of
the pause gate, which is released over and over, is acquired eventually (`SF` of
`PauseTest`). Nothing obliges the operator to send a command, the camera to
deliver, a condition variable to wake spuriously, or anything to fail. In
`Edge` no client has to send its line, and no call of the pipeline has to return
that waits for a wakeup (`PauseReturns`, `ProcessingEnds`), because
`pipeline_calls_hang` shows that it need not. `CommandsAnswered` and
`ShutdownCompletes` name these two cases (`ClientSilent`, `PipelineHangs`), and
each is an excuse only when it lasts for ever; a main that ends in
`std::terminate` is one only when the storage cannot be closed. The run that
refutes `ShutdownReturns` grants the pipeline its wakeups (`PromptSpec`). In
`ResultStream` only the server's thread and a pending `start` or `stop` are
fair; `OnlyStaleLinkHoldsBack` and `NewestArrives` assume in their antecedent
that the Studio keeps handling events. The former excuses, when they last, a
process killed by SIGPIPE and a server that waits on a connection the Studio has
left (`ServesNobody`); the runs `stream_sigpipe` and `stream_held_back` show
both. In `Control` Studio handles its events and the status timer
finds the client free now and then (`SF` of `RefreshStatus`: the operator does
not take every second for a command of his own); of the Edge and the network
nothing is assumed but in the antecedent of `ShownCatchesUp` and in
`control_not_retried`, where both serve. In `CudaEngine` the thread inside
`process` and the device run on, and no failure is forced: fairness is on the
steps that do not throw. `CHECK_DEADLOCK` is off for `Edge`, whose process may
end, and where the bounds end it: for `Results` after the last publication, and
for `EdgeParts` after the last frame of the engine and the last point of the
grid. The files can always begin another session, so that they cannot stop; that
their `close` does not hang is `CloseReturns`.

### Disagreements found

1. `pause()`, `stop()` and `resume()` can each lose the wakeup of the pause gate
   (`pipeline.cpp:100-101, 112-114, 297-298`): atomics are changed and
   `notify_all` is called without `pause_mutex_` (`pipeline_calls_hang`).
   `OnlyLostWakeupsHang` shows that these are the only hangs.
2. `STOP` of a healthy measurement may be answered `ERR STORAGE` and leave the
   Edge faulted, because the camera is stopped under the capture thread
   (`pipeline.cpp:119` against `synthetic_camera.cpp:61`; `edge_stop_error`).
3. After one failed request Studio polls no more (`main_window.cpp:741, 1068`)
   and has stopped its streams, where its message says that it retries and
   `docs/architecture.md:32` that everything reconnects (`control_not_retried`).
   A command given while a poll is under way counts as such a failure, until the
   response to the poll arrives.
4. A control connection that stays silent blocks `recv`, the only control thread
   and, because `main` joins it, the shutdown (`tcp_control_server.cpp:193`),
   where `docs/jetson-deployment.md:36` says that SIGTERM closes the session
   (`edge_shutdown_blocked`). `ShutdownCompletes` shows that, besides a lost
   wakeup and a storage that cannot be closed, nothing else blocks it.
5. A server with nothing new to publish waits with the connection the Studio has
   left, and the one that replaces it gets nothing
   (`result_stream_server.cpp:220`), against `docs/acceptance-plan.md:11` and
   `docs/learning-roadmap.md:48` (`stream_held_back`). The next publication ends
   it.
6. On Linux the second send to a connection the Studio has closed raises SIGPIPE
   and ends the Edge (`result_stream_server.cpp:55`), against
   `docs/requirements.md:27` and `docs/acceptance-plan.md:11` (`stream_sigpipe`).
7. The fallback displacement of the CUDA engine survives a change of the
   reference (`cuda_grid_engine.cu:564-589`; only `allocate` clears it): the
   first frame of a session starts from the median displacement of the session
   before, where `cuda_grid_engine.hpp:21` says zero (`engine_stale_fallback`).
   The points' own displacements are reset, and a recovery pass has the median
   of its own frame (`TrackIsOfThisReference`).

Without a run, because it can be read off the code:

- `write_manifest` removes `manifest.json` before it renames its successor
  (`result_writer.cpp:156`), so a process killed in between leaves a session
  without one; after a failed final flush of the CSV the manifest stays
  `recording` (`result_writer.cpp:106`).
- After a storage failure `SHUTDOWN` and SIGTERM end in `std::terminate`,
  because nothing in `main` catches what `writer.close` throws
  (`dic_edge.cpp:604`; the state `terminated` of `main` in `Edge`).
- When the processing thread cannot be spawned, the camera is closed while the
  capture thread may be in `grab` (`pipeline.cpp:73-77`). `stop` and `close`
  share one `try` there, so that a `stop` that throws skips the `close` until
  the next stop.
- A rate is written with twelve digits, so that a configuration at the limit of
  `2 * frequency <= fps` may be refused when it is loaded again. Three failures
  can leave no whole configuration: the rename and the copy back fail, the next
  save backs up the cut-off file and cannot rename either, and the one after it
  truncates `.partial`. An empty `replay_directory` is saved as `.`.
- `latest_summary` is not reset by `START`: until the first result `STATUS`
  shows that of the session before (`dic_edge.cpp:278`).

## 4. What is proved

All theorems hold for every value of the constants that satisfies the named
assumptions of the modules: `SizesAssumption` and `EnvironmentAssumption` of
`Pipeline` (the pool has at least three buffers more than the queue, as
`RuntimeConfig::validate` requires), `ConfigAssumption` (`AsyncWriter`: positive
capacity and flush interval, as its constructor requires), `KernelAssumption`
and `EngineAssumption` (a warp and an iteration at least; a buffer is not a
staging image), `ScanSizesAssumption` (headers and payloads have bytes),
`StreamAssumption` (a packet takes a `send` at least, a connection holds a chunk
and waits in a backlog of one), `ControlAssumption` (a backlog of one at least),
`CameraAssumption`, `ConfigValuesAssumption` (numbers; contents of files differ
from configurations), `StrainAssumption` (a positive grid step; the points of a
layout are distinct) and `GridAssumption` (the sizes the engines' constructors
require).

`PipelineProofs`. `CoreInvariant` is the inductive invariant: types,
`PoolConserved`, where the threads may be while each call is pending
(`Lifecycle`), and who may be on the condition variable. It gives `TypeSafety`,
`PoolSafety`, `PoolSuffices` (a buffer count: two holders besides the queue, so
two remain) and `RestartAlwaysPossible`. `PauseInvariant` adds that a paused
pipeline whose caller has returned has an inactive processing thread, from which
`PauseIsEffective`, an action property, follows. `OrderInvariant` relates the
queue, the popped frame, the reference and the last result, for
`FramesStayInOrder` and `ResultsAreOrdered`. `LedgerInvariant` is the
bookkeeping equation of captured, counted and held frames, split at the moment a
stop is requested, for `NothingDropsSilently` and `LossIsBounded`.

`AsyncWriterProofs`. `BaseInvariant` fixes the control (which thread may be
where, which stream is open, what the manifest says meanwhile);
`ContentsInvariant` relates records, queue, worker and counters and gives
`FileStaysPrefix`, `NothingIsLostSilently` and `CrashLossIsBounded`;
`ClosingInvariant` follows `close` and gives `CompleteIsDurable`;
`WriterImplementsLog` maps every step to one of `ResultLog` or a stutter.

The reader of the files is proved about in the same module. `Scan` walks from
record to record, so that its result is defined from the end of the file to its
beginning; that there is such a function at all (`ScansExist`) and what it
returns (`ScanFinds`) is shown by the last position, or the least number of
records, for which it might be otherwise. `ReaderFindsThePrefix` then needs of
the writer only `Contents` and `Lag`: it holds for every layout of the file, and
for a last record that is cut anywhere. `ScanAccountsForTheFile` needs no writer:
of any bytes behind a header the scan returns whole records, each from its
place, stops where none begins, and reports damage exactly when bytes are left
over.

`PipelineKeepsContract` and `WriterKeepsContract`, in the first two modules,
prove that the machines `Edge` is composed of are what the detailed models do:
each step of `Pipeline` and of `AsyncWriter` is one of the contract or a
stutter, given the invariants above and one more each (`Spawned`: which threads
exist while a call is pending; `Causes`: why the worker and `close` may report
what they report).

`EdgeProofs`. `EdgeInvariant` relates the place of the control thread, the state
of the Edge, the two contracts and the threads inside fault callbacks: whoever
has marked a component as failed still has to tell the state machine. From it
follow `IdleEdgeIsQuiet`, `StorageOutlivesThePipeline`, `MeasurementsAreReal`,
and the action properties `FaultsStay` and `OkMeansComplete`.

`StudioProofs`. `StreamInvariant`: what is on its way to the Studio is one
sequence of chunks, `Stream`, the Studio's buffer followed by what the wire holds
and by what the server still has to send of its packet. It is framed: whole
packets, each newer than the one before it and than the last one received, and
none newer than the newest the server has sent (`ContentInv`), complete while
the connection is up. A step moves chunks from one part to the next and leaves
`Stream` alone, or takes whole packets from its front, or puts one behind;
neither `FramingHolds` nor `ResultsMoveOn` would survive a step without the parts
that are not in the buffer yet. `SendInv` says how far the thread is in its
packet, `LinkInv` which ends of a connection exist together; from the latter
`ReconnectPending` follows (`StudioKeepsTrying`). `StreamIsFramed` and
`ResultsNeverGoBack` hold for every size of a packet and of the wire.

Tokens of connections are used again, so an answer could be taken for that of a
later request. `ControlInvariant` says that what is on its way carries tokens
nobody else has, and that there is a free token for the next request (the
connections that exist are fewer than the tokens), from which
`NoLateAnswerIsTaken` follows for every backlog.

`CameraProofs`. `CameraInvariant` says for each pair of places of the two
threads what the camera and the SDK hold. `GrabFindsCameraOpen` and
`CameraLeaksNothing` follow; for the latter, an `open` that fails half-way has
closed what it opened when it throws (`HalfOpenClosed`), before the handler of
`start` closes the camera again.

`ConfigSaveProofs`. `FilesInvariant` says for each step of the save which of the
three files is whole and which text it has. `SavedConfigurationIsThere` holds
after any number of failures and kills, `ConfigurationSurvives` as long as there
were no more than two.

`NumericsProofs`. `NumericsInvariant` says what each of the three keeps: the
window is the last of the samples; the neighbours kept are those of the points
applied last, and the strains were computed from them; the search stays in its
window and a refinement that goes on has not converged.
`StatisticsAreOfTheLast`: every sequence has a sorted copy (each sample goes to
the place after those that come before it, `Sortable`), and the element at the
rank the code computes has at least the demanded share of the samples below it
and at most the rest above (`PercentileIsRank`). `StrainFollowsTheField`: the
sums are linear in what is summed (`SumIsLinear`, over the subsets of the
neighbours), so that the right-hand sides of the normal equations are the matrix
times the gradient; a vanishing determinant would put all usable neighbours on
one line through the point, and among its eight neighbours no three lie so
(`ThreeNeighborsSuffice`); Cramer's rule then returns the gradient. For
`ValidPointsConverged` what a refinement leaves when it ends early is not
accepted; for `EnginesReadTheImage` the search window of a visited point lies in
the image, and samples are bounded one by one.

`CudaEngineProofs`. `KernelInv` says that between two barriers all warps are in
one of five phases (`Together`), that they agree on leaving the loop although
each decides for itself (`Agreed`, which counts a warp before its decision by
what it will decide), and which sums are of the present estimate (`Sums`).
`KernelIsRaceFree` and `KernelSumsAreCurrent` follow for any number of warps and
iterations (`KernelAssumption`). For the host's side the stream is read as a
promise: `EngineInv` says what the device will have when it has run empty (the
last copy of each image is of the frame in use, every copied reference is
followed by its statistics, the kernel and the download come last), and that a
reset comes before every kernel that would meet results of another reference
(`ResetComes`). Each step of the host puts operations behind, each of the device
takes one from the head; hence the lemmas on `\o` and `Tail`.
`ResultIsOfThisPair` follows. `TracksAreReset` needs `Recovery` besides: in a
recovery pass the fallback is of this session's reference, and only its kernel
and download are left in the stream. It does not say where the points of a
session's first pass start, and must not: see disagreement 7.

Proved and not checked by a run: type correctness, `PoolNeverExhausted`,
`FramesStayInOrder`, `LossIsBounded`, `ResultsAreOrdered`,
`RestartAlwaysPossible`, `FileStaysPrefix`, `CrashLossIsBounded`,
`KernelSumsAreCurrent` and `ScanAccountsForTheFile`.

Only model-checked: liveness under fairness, which is out of the prover's reach
(`OnlyLostWakeupsHang`, `CloseReturns`, `ResultsAreWritten`, `CommandsAnswered`,
`FaultEndsMeasurement`, `ShutdownCompletes`, `OwnerReturns`, `OnlyStaleLinkHoldsBack`,
`ProcessReturns`, `RequestsEnd`, `ShownCatchesUp`). Every invariant, action
property and refinement a run checks is proved.

Inductions over data are made without the library's induction theorems, which
take an operator as a parameter that the provers cannot instantiate: the set of
counterexamples is a set, and `WFMin` gives it a least element (`LeastNumber`,
`SubsetInduction`).

## 5. What is not modelled, and the plan

Not modelled:

- Image data and the accuracy of the numerics (floating point): an image is its
  frame number or arbitrary, a displacement its origin. Displacements beyond the
  range of `int`, which `sample_bilinear` casts, are left out.
- Packets, control lines and responses: the decoders mirror the encoders byte by
  byte, without state. The summary of a result for `STATUS` is one pass over its
  points.
- The blocking clients (`send_control_command`, `ResultStreamClient`), the tools
  and the self-test: sequential programs whose server is modelled, and the
  installers.
- Widgets and drawing of the Studio; `PreviewClient`, whose code is that of
  `ResultClient`; the rendering of synthetic images; PGM files; memory
  allocation.
- An error of `exists` itself in `save_edge_config` (`edge_config.cpp:260`), which
  the code takes for a file that is not there: a failing rename would then copy
  an older `.bak` over a whole `PATH`.
- Power failures: `flush` hands data to the operating system, which is taken to
  be the disk.

What is left to do: the change of the endpoint in the Studio's clients;
`summarize_result`.
