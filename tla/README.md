# fr3_stack: a verification development

`fr3_stack` drives Franka FR3 arms. A C++ daemon (`src/main.cpp`) owns the arm: a
1 kHz real-time callback, beside it threads that receive commands, publish states and
serve recording requests. Python clients (`fr3_stack/`) send commands and read states
over ZeroMQ; on top of one client there are tasks, calibration tools and a coordinator
of two arms.

This directory holds TLA+ modules that model the parts of the stack whose correctness
depends on the order in which threads, processes and messages act, the TLC
configurations that check them, and TLAPS proofs. `PROJECT.json` maps every definition
to the lines it stands for, and lists the runs, mutants, hazards and theorems.

To check a module: `tlc -config Recording.cfg Recording.tla`; to check proofs:
`tlapm RecordingProofs.tla`.

## 1. Inventory

### The daemon

| Part | State | Operations | Who calls |
|---|---|---|---|
| Ring of frames (`ring_log.hpp`) | `head_`, `tail_`, slots, `dropped_` | `push`, `pop`, `size`, `reset` | real-time loop pushes, writer pops, `start()` resets |
| Writer (`ring_log_writer.cpp`) | `ok_`, `error_`, `stop_`, `finished_`, `written_`, `discarded_`, the file | its thread: open, header, batches, flush, close | created, stopped and joined by the manager |
| Manager (`recording.cpp/.hpp`) | `recording_id_`, `used_ids_`, `writer_`, `enabled_`, `producer_busy_`, `seq_`, `failed_` | `start`, `stop`, `shutdown`, `status`; `record()` | service thread and `main()` under a mutex; `record()` by the real-time loop without |
| Recording service (`recording_server.cpp`) | REP socket | receive, manage, reply | clients over REQ sockets of their own |
| Dispatch (`main.cpp`, `cmd_thread` and callback) | `pending`, `pending_dirty`, `boot_anchor_pending`; in the callback: `active`, `active_gen`, `stream_interp`, contact limits | receive, parse, store; take, configure, select, drive, check limits, compute | clients over a conflating socket; libfranka calls the callback |
| Streaming interpolator (`streaming_target_interpolator.hpp`) | two targets, a start, an interval | `push`, `evaluate`, `reset` | the callback |
| Controllers, rate limits, filters | filters, integrators, cached wrench | `configure`, `reset`, `compute` | the callback |
| Wrench sources (`src/sensors/`) | latest wrench, orientation | worker; `read`, `set_orientation` with `try_lock` | callback and publisher |
| Threads and shutdown (`main.cpp`) | `g_stop`, `rt_stop_requested`, `rt_running`, `rt_last_error` | signal, termination, trip, abort, joins | all threads |

### The clients

| Part | State | Operations |
|---|---|---|
| `Robot` (`robot.py`, `wire/`, `config.py`, `state.py`) | sockets, five command caches, last state, last recording id | `connect`, `close`, `set_profile`, `send_*`, hybrid tasks, recording calls, subscriber thread |
| `DualArmCoordinator` (`dual_arm.py`) | `state`, `sequence`, `stop_errors` | `arm`, `observe`, `send`, `stop`, `run` |
| `InterpolationController` (`interpolation.py`) | command queue, ready event, trajectory | `servoL`, `schedule_waypoint`, `stop`; worker process |
| `Arm`, `RobotAgent` (`client.py`, `agent.py`) | the caches of their `Robot`, `_t_next` | moves, hold, relax, loops; reset and step of an episode |
| `examples/reset.py` | the plan, a goal | countdown, Ruckig targets, settle, hold, idle |
| `examples/joint_sysid.py` | metadata and its file, deadline, slot | preview, anchor, stream, termination, record |
| NUC synchronisation (`scripts/`) | releases and images of two hosts, installed client, `latest.json` | `check`, `build`, `build-local`; inspect, upload and build on the NUC |
| `measure`, Bota tools | recorded rows, calibration files | statistics, plots, console tools |

### What is hard in it

* The callback may not block: it `try_lock`s, and record() takes no lock at all. What the
  other threads must therefore guarantee is spread over several files.
* Recordings come one after the other through one ring, one counter and one flag. What
  one leaves behind must not reach the next, and every file operation may fail.
* The command socket keeps the newest message only, `pending` is overwritten, and the
  callback keeps a trajectory, a stream and contact limits from tick to tick.
* A client that times out has not taken its request back: it is served later.
* Two arms are commanded by two calls in turn, either of which may raise; an interrupt may
  come anywhere.
* The sensor's worker, the callback and the publisher share four mutexes, and any thread but the
  callback may be preempted while it holds one.
* The shutdown joins four threads that look at different flags.
* Every command of a client is completed from caches that keep what any earlier call gave. Loops
  must keep their pace when they are held up, and take back their force however they end.
* The command socket is emptied by a thread of ZeroMQ: a program that closes it too early loses its
  last command, the one that was to make the arm safe.
* A release is prepared on two hosts over a connection that may be lost while its far end goes on,
  by invocations that nothing keeps apart, on one workstation or several, beside operators who start
  control programs at any time.
* A trajectory worker is commanded through a bounded queue while time passes, and takes one command
  per cycle.

`PROJECT.json` lists each such hazard at its line with the properties that cover it.

### When a component is correct

* *Ring*: a bounded FIFO queue that refuses when full; no slot is read while it is written.
* *Writer and manager*: every frame is accounted for; a recording reported complete is exact;
  a stop leaves nothing on its way; files are not truncated; failures reach the exit status;
  calls return.
* *Service*: what was confirmed to a client is true and remains true.
* *Dispatch*: the newest command takes effect, and nothing of an older one remains.
* *Shutdown*: it ends, and in an order in which no thread uses what another one has closed.
* *Dual arm*: no arm holds a target the other has not the counterpart of, unless the coordinator
  is at work on it or has stopped both; a fault stays.
* *Wrench sources*: what a controller uses is never older than what it used before, and is
  compensated for the orientation of the moment.
* *Trajectory worker*: a command never makes the streamed pose jump, is where it wants to be in time,
  and a stop ends the worker with the arm idle.

* *Robot client*: a task asks for what its caller asked in each of its commands, keeps its pace, and
  takes back its force.
* *Programs*: `reset.py` leaves the arm idle; `joint_sysid.py` never sends a burst, attempts a termination
  after any fault, and its record is true.
* *NUC synchronisation*: what is installed is what the last report says, an image holds the tree it is
  named after, nothing that stands is overwritten, and no build starts beside a control program (this the
  documentation promises and the code does not keep, see section 5).

## 2. Modules

| Module | Models | Kind |
|---|---|---|
| `RingQueue` | what the ring promises: a bounded queue with a count of refusals | abstract |
| `RingLog` | `push`, `pop`, `size`, `reset` at each atomic access, slot copies in two halves | detailed, implements `RingQueue` |
| `RingLogWriter` | the writer's thread over a `RingQueue` | component |
| `RecordingSession` | what the manager promises its callers: one recording at a time, ids used once | abstract |
| `Recording` | the manager, `record()` and the writer; composes `RingQueue` and `RingLogWriter` | detailed, implements `RecordingSession` |
| `RecordingService` | clients and service; composes `RecordingSession` | detailed |
| `CommandMailbox` | what the hand-over of commands promises: the newest wins | abstract |
| `Dispatch` | client socket, `cmd_thread` and one tick of the callback in three to four steps | detailed, implements `CommandMailbox` |
| `Daemon` | the threads from the start of the loop to the exit | component |
| `DualArm` | the coordinator with two endpoints | component |
| `WrenchPath` | sensor worker, callback and publisher around four mutexes | component |
| `PoseTrajectory` | `PoseTrajectoryInterpolator` as operators on plans | algorithm |
| `TrajectoryWorker` | `InterpolationController`: caller, queue and worker process; uses `PoseTrajectory` | component |
| `RobotClient` | `Robot` without its recording calls: caches, commands, socket, states, the daemon as far as a client sees it, and the clock | component |
| `ForceTasks` | `run_hybrid_force_position` and `apply_effector_forces_along_axis`; extends `RobotClient` | component |
| `ArmClient` | the callers of `Robot`, `Arm` and `RobotAgent`; extends `ForceTasks` | component |
| `ResetProgram`, `JointSysid` | the two example programs; each extends `RobotClient` | components |
| `ClientPrograms` | one of the three (a caller, `reset.py`, `joint_sysid.py`) with daemon, network and clock | composition |
| `NucSync` | the synchronisation scripts, on both hosts | component |
| `RingLogProofs`, `RecordingProofs`, `DispatchProofs`, `RecordingServiceProofs`, `WrenchPathProofs`, `NucSyncProofs` | theorems about the module each is named after; `RecordingProofs` also about `Daemon`, whose `DaemonSpec`, `DaemonNext` and so on are named so that one module can extend both | proofs |
| `ClientProofs` | theorems about `ClientPrograms` | proofs |
| `StreamingProofs` | theorems about `DualArm` and about `TrajectoryWorker`, whose `WorkerSpec`, `WorkerNext` and so on are named for the same reason | proofs |
| `MCDispatch`, `MCRecordingService`, `MCClientPrograms`, `MCNucSync` | the command shapes; selections; symmetries | for TLC |

The three modules about recordings form a tower. `RingLog` shows that the ring is a
queue, so that `RingLogWriter` and `Recording` use the queue in one step per operation;
`Recording` shows that the manager is a session, so that `RecordingService` uses the session.
`Daemon` shows that `shutdown()` comes when no tick and no request can run
(`ShutdownIsLast`), which `Recording` takes as the guard of its `Shutdown`; and
`Recording` shows that requests return (`CallsReturn`), which `Daemon` takes as the
fairness of its service.

`ClientPrograms` shares the state of `RobotClient` (caches, socket, states, daemon, clock) among the
programs, and runs one of them: two clients of one daemon do not know of each other, and what they do to the
daemon is the subject of `Dispatch`. Where `Dispatch` has the daemon step by step, `RobotClient` has
a command arrive and take effect in one step (`Deliver`).

### State and actions against the code

* **RingLog.** `head` and `tail` are the masked indices of the code, `Succ` is `(i + 1) & mask_`,
  `buffer` the slots. A slot that is half copied holds
  `Torn`. Producer and consumer have a program counter each; the steps are one load or
  store of an atomic. Loads see the latest store: the code uses acquire and release, and
  each index has one writer, so a stale load only makes the ring look fuller to the producer and
  emptier to the consumer, as an earlier load would have.
* **RingLogWriter.** The step is a stretch between two points another thread can see: a
  pop, or a store to `ok_`, `error_`, `written_`, `finished_`. Every file operation may
  fail. The file system is a function from paths to the rows written, the open is exclusive.
* **Recording.** `mpc` is where the holder of the manager's mutex is, so that two
  requests never interleave; `rpc` is where the real-time loop is in `record()`. `busy`
  and `enabled` are sequentially consistent in the code, hence their interleaving is exact.
  A request that is refused, or repeats the current one, changes nothing and is not a step.
* **RecordingService.** `wire` is a set: requests of sockets of their own arrive in any
  order or never. `TimesOut` closes the socket and leaves the request in `wire`.
  `confirmed`, `mine`, `unsure`, `asked` and `ended` are history, for the properties.
* **Dispatch.** A command is its kind, whether it is a moveTo (`generator`), is streamed
  (`lerp`) or has contact limits, and the number under which it was sent, by which its
  target is named. The tick is `Apply1` or `Contended` (the head, under `try_lock`), `Drive`
  (the target), `Check` (the contact limits) and `Compute`. `aim` is the target the torque is
  computed for, `over` is whether this tick's wrench exceeds the limits, free in every tick.
* **Daemon.** One program counter per thread, one step per access to a shared flag or socket. Of the
  error text nothing is kept: it decides nothing (see section 5 for what `main()` prints).
* **DualArm.** `op` and `pc` are the method and the place in it, `scope` the place in `run()`.
  `bad` is the set of arms a snapshot would refuse, changed by the environment at any
  time; any call may raise; `Interrupt` is enabled wherever a method is at work. `holds` names the pair
  an arm accepted last. `hurt` records that an interruption came where it keeps the coordinator from a
  stop it owes (`Harm` lists these places): `_stop_both()` and the last stop of `run()` are not shielded.

* **WrenchPath.** `at` says where each of the three threads is; a step is one `lock` or `try_lock`
  with what is read or written under it, copies in two halves. A frame is its number, an orientation
  the tick it was measured in. `read()` is the same for both readers, as in the code.
  `Select` is `reset()` of a controller that a command selects.
* **PoseTrajectory, TrajectoryWorker.** A plan is a sequence of knots; a pose is a fraction on a line,
  for which linear interpolation is exact (SLERP is linear in the angle). `clock` may advance at any moment, so
  that each cycle may overrun. `Take` is one command, `TakeNothing` a `get_nowait()` that finds none,
  which it may although one was put. `ready`, `killed` and the caller's places are there because `start()` and
  `stop()` return without the worker. An exception may come in any step (`Raises`), the end of the parent
  process too (`Exit`).
* **RobotClient.** A setting is the name of what it came from, a profile or the caller; gains, filters and
  switches of a call are one setting `K`, contact thresholds another, `caps`. The axes are two, the poses
  `Positions`. `sent` is what was handed to the socket last and stays; `waiting` is for how long it has been
  there. A cache is a record of settings; the arguments given to a call replace or join its own (`Updated`). `Deliver` takes
  the command out of the socket at any time, but within `Latency` instants, and `Close` discards it. `err` stays set, as `rt_last_error` does. A state is published and received in one step, of the present.
* **ForceTasks, ArmClient.** `task` is the call the caller is in, with the instant of the next iteration
  and, for the properties, what the call asked for and how many commands one instant has seen. A call
  begins with the clock at 0: only differences of times are used. Time may pass between any two steps, so
  that every iteration may be late, and any task may be interrupted.
* **ResetProgram, JointSysid.** `pc` follows the program; a signal, a fault or a failed write may come at
  every step of `joint_sysid.py` (`Raised`, `Unwell`) and go to the handler the code has around it.
  `healthy_state()` is the age of the state, the mode and the error; its other reasons to refuse are
  the free choice `Unwell`.
* **NucSync.** `run` is the invocation on the workstation, `job` what it started on the build host, which
  goes on when the connection is lost. A release or image is named by its tree, `sound` says whether it still holds it,
  `commit` what its manifest or label says. Invocations overlap freely: `main()` takes no lock, and each step
  is one thing another invocation, or an operator, could see or change in between. An invocation looks at the
  client three times: `Begin` and `Looks` note it for the report (`previous`), `Keeps` for the rollback (`kept`).
  `build()` is five steps: it inspects the host, verifies the release, looks for the image, has it built, and validates it; a control
  program may start between any two. `overtaken` and `loose` are history: invocations since whose last look another
  replaced the client, or whose rollback did not bring back what they report; and workstations where such
  an invocation was the last to report, or one was interrupted between replacing the client and reporting.

## 3. Runs

| Run | Shows | Bounds |
|---|---|---|
| `ring_log` | `SlotExclusive`, `SizeIsAvailable`, `ImplementsQueue` | 4 slots (3 frames), two frame values, 1 refusal counted |
| `recording` | confinement of pushes, accounting, exactness, files, implementation of the session, failures, returns | ring of 2 slots, batches of 2, 3 frames per recording, 2 ids, 2 paths |
| `dispatch` | limits, stream, trajectory, mailbox, two liveness properties | 3 commands of 9 shapes, started in Cartesian mode |
| `daemon` | order and termination of the shutdown | finite without a bound |
| `dual_arm` | the properties of the coordinator | 3 pairs |
| `dual_arm_run` | expected violation, see section 5 | 2 pairs |
| `recording_service` | what was confirmed is true and stays so | 2 clients, 2 ids, 2 paths, 3 calls |
| `wrench_path` | no torn or old wrench, no waiting in the callback | 2 frames, 2 ticks |
| `trajectory` | replanning from now, and the stop | 3 calls, period of 2, clock to 5, queue of 2 |
| `trajectory_schedule` | expected violation | waypoints at 5 and 6 |
| `client` | tasks ask for what was asked, release their force, keep their pace; the programs leave the arm as they promise | 2 calls, clock to 6, latency below 2, 2 poses, 1 signal |
| `nuc_sync` | client, image and report stay paired, nothing is overwritten | 2 workstations and a NUC, 2 invocations, 1 tree, 2 commits |

Why the bounds are enough. *ring_log*: with 4 slots the indices wrap, the ring fills and
empties; `Slot` and `Succ` depend on the distance only; and `RingLogProofs` has no bound.
*recording*: with two ids and paths there is a second recording that finds what the first left
behind; three frames overfill a ring that holds one, and are more than one batch.
*dispatch*: three commands are one in effect, one pending and one in the hand
of `cmd_thread` or in the socket, and the nine shapes are every way in which the code
distinguishes them; `DispatchProofs` has no bound on commands and any set of shapes.
*recording_service*: three calls are a start, its retry and another client's stop. It was also
checked once with four calls (10.9 million states, no error), which takes too long to be kept.
*dual_arm*: a pair in flight, one before it, and one that comes too many.
*wrench_path*: the second frame overwrites what is being read of the first, and the second tick uses
what the first has left. *trajectory*: the first command gives the plan a slope, the second replans on
the slope, at a pose that is a fraction, and the third or a stop comes behind them in a full queue;
both durations to a waypoint occur, one that is late and one that is not. The clock stops at
its bound, where cycles follow each other without time passing.

*client*: two calls are one that leaves its settings in a cache and one that finds them; the last call is therefore
never a plain one (`Simple`). Six instants hold each of the programs with one delay at any of its waits. One signal
comes on top of one fault, so that a handler can be cut short.
*nuc_sync*: two invocations are two of one workstation, overlapping or not, or of two that share the NUC at the same
time; one tree from two commits is the case in which they meet in one release and one tag. With the client from before there are two clients that an
installation or a rollback may leave (1.6 million states, two minutes). `ClientIsAsReported` was also checked once with one workstation and two
trees, so that two invocations install different ones (0.9 million states, no error); `NucSyncProofs` has no bound on any of them.

Deadlock is checked in all runs but `client`, where the calls are used up or the program has exited, `recording_service`, where the daemon may have been
stopped and all calls be used, and `trajectory`, where the worker may have ended. `Recording` ends in a `Terminated` step, `Daemon` in `Exited`.

### The properties

*Ring.* `SlotExclusive`: producer and consumer are never in the same slot.
`SizeIsAvailable`: what `size()` says the consumer may pop is there.

*Recording.* `PushesAreConfined`: a frame is pushed only while a writer will still look for it, and
once a stop was answered nothing is on its way, in the ring or in a writer.
`FramesAccounted`: each frame is in exactly one place. `CompleteIsExact`: a recording
reported complete has every frame in its file, once, in order, flushed. `RowsInOrder`: no
file mixes recordings or repeats a frame, complete or not. `FilesOnlyGrow`: nothing written
is truncated, and a complete recording stays complete. `FailureReported`: a lost frame or a
failure of any recording is in the exit status. `CallsReturn`: `start()` and `stop()` return.

*Service.* `AnswersHold` (`ConfirmedRuns` and `EndedStaysEnded`) and `DefaultStopIsMine`: a confirmed recording goes on
until somebody asks for its end; what has ended does not come back through a late request;
a stop without an id means the recording this client started.

*Dispatch.* `LimitsHold`: contact limits neither outlive their command nor fail it.
`StreamIsFresh`: the stream has no target from before its controller was selected.
`NeverDrawnBack`: the arm is drawn to the target of the command in effect or is on its way
there. `ReceivedTakesEffect`, `TargetReached`: a command received takes effect, and its
trajectory or stream ends at its target, unless another command comes.

*Daemon.* `ShutdownIsLast`: the manager is shut down when neither a tick nor a request can enter it any more.
`StopEnds`: once asked to stop, or when the loop was aborted, the daemon exits; its mutant is a `main()` that
does not raise `g_stop` after a loop that ended by itself, so that the other threads never hear of it.

*Dual arm.* `QuietUnlessRunning`: when control is back at the application and the coordinator is not
RUNNING, a stop was tried on both arms since anything was sent to them. `PairsAreWhole`: when it is
RUNNING, both arms hold the pair that was counted last (`RunningIsPaired`), and no target of a pair goes
out when an arm has been failing since before the call (`NoPairToFailedArm`). `FaultIsLatched`: only `arm()` leaves a fault,
and not while an arm is failing. `RunStops`: `run()` does not end before both stops were tried. The
first two and the last hold but for the interruptions in `Harm`; the run `dual_arm_run` shows one of these.

*Wrench.* `WrenchIsSound`: no reader is given half a frame, half an orientation or the zeros from before
the first frame (`NoTornWrench`), and the wrench a controller keeps for failed reads is one it read since it
was selected, compensated for the orientation of the tick in which it was read unless that
could not be stored (`WrenchIsCurrent`). `TickEnds`: the callback ends its tick even if every other thread stops for ever where
it is, unless it has a trip to report (`err_mu` is the one mutex it waits for).

*Trajectory.* `ReplansFromNow`: a command leaves every pose up to the next cycle alone, and the plan ends at
the target of the command, at its time unless that has passed. `StopEndsWorker`: a stop that is in the queue
ends the worker with an idle command, or the worker is killed. `PlanStands`: the times of a plan increase, however late
its commands were taken, for otherwise the constructor raises and the worker dies.

*Client.* `TaskIsAsAsked`: from its first command on, each command of a hybrid task has the force, the axes and the
settings its caller asked for, whatever calls came before; an episode moves and steps with its own stiffness.
`ForceIsReleased`: when an apply task has returned, or raised for too much drift, its last command holds the pose it began at and asks for no force, and none is applied once the socket is empty.
`Paced`: a loop that was held up sends at most the late command and the one it starts anew from; an agent that catches up
is never ahead of its clock. `ResetLeavesIdle`: when `reset.py` is through or was interrupted in its motion, the daemon
idles; aborted in the countdown, it has sent nothing. `SysidKeepsPace`: no two commands of the stream in one burst, none
after too long a pause. `RecordTellsHowItEnded`: after a command was attempted, either the whole trajectory was streamed or
a termination attempted; `completed` and exit status 0 only for what was completed.

*NUC synchronisation.* `ClientIsAsReported`: when nobody is between replacing the client and reporting, an interpreter imports what
`latest.json` names. There are three exceptions, which `loose` records until the next report: the invocation that replaced the client was
interrupted before its report; the one that reports could not roll back to the client it names; or another replaced the client after its last
look. The third is what the missing lock costs: of two overlapping builds the one that reports last need not be the one that
installed last. The property says that nothing else comes between report and client, and that an invocation which looks again, or
verifies its own client last, reports the truth however many overlap.
`ImagesAreTheirTree`: an image holds the tree it is named after, and a prepared pair has its image.
`ReleasesStand`: manifests and labels are never replaced by those of the same tree from another commit.

Each property has a mutant: a change of one definition of the kind a bug would be, under
which TLC finds the property violated.

## 4. Fairness

* `Recording`: weak fairness of the threads that run (real-time loop inside `record()`, mutex
  holder, writer): the scheduler runs them and file operations return. Strong fairness of
  `Quiet`, which polls `producer_busy_`: the loop sets and clears that flag each
  millisecond and is busy for a small part of it, so a poll that is not in step with it finds it
  clear in the end. Nothing makes the loop call `record()`, or a client ask.
* `Dispatch`: weak fairness of both threads. Strong fairness of `Apply1`: the callback's
  `try_lock` succeeds in some tick, for `cmd_thread` holds the mutex for three assignments
  only. Strong fairness of the end of a trajectory and of a segment: both end by the clock
  that every tick advances. Nothing makes a client send.
* `Daemon`: weak fairness of each thread: receives time out and sleeps end. No fairness of
  signals, messages or exceptions. `rec` relies on `CallsReturn`.
* `WrenchPath`: weak fairness of the callback, which has real-time priority, and of nothing else.
* `TrajectoryWorker`: weak fairness of the worker and of time; strong fairness of `Take`: a command that
  stays in the queue is found by one of the cycles.
* `DualArm`, `RecordingService`, `ClientPrograms` and `NucSync` have safety properties only, and no fairness.
  In `RobotClient` the guard of `Tick` bounds the time a command stays in a connected socket; that `Flush` (0.1 s in the
  programs) is no shorter is the named assumption under which `ResetLeavesIdle` and
  `RecordTellsHowItEnded` hold; the mutant of the first does without it.

## 5. Disagreements between code and documentation

* `dual_arm_run`: the docstring of `run()` says that the paired stop is always attempted, on
  interruption too. `_stop_both()` catches `Exception`, so a `KeyboardInterrupt` while the left arm is
  being stopped skips the right one.

* `trajectory_schedule`: the docstring of `schedule_waypoint()` says that later waypoints are dropped, and
  `docs/controllers.md` recommends the class for a shape across all waypoints. The code keeps only what
  is before now, so that all earlier waypoints that are still to come are dropped as well.

Five more were met while modelling; no run of the present project is about them:

* The comment of the interpolator (`streaming_target_interpolator.hpp:42`) promises that a new command does not make
  the target jump. The command that switches controllers pushes its target first and the switch
  then resets the stream (`main.cpp:1041`), so the second command finds it empty and is taken as it is.
* The comment at a trip (`main.cpp:1110`) says that the operator can recover without a restart.
  The error text is never cleared, and clients that refuse a state with an error refuse for ever.
* The header of the hybrid controller (`hybrid_force_motion_controller.hpp:34`) and a comment in its
  `compute()` say that after a change of the selection a velocity axis' residual does not bleed into an axis that is
  force-controlled from now on. The line below the comment projects by the new `Sf_`, which keeps what is on
  the new force axes and clears the others, whose velocity is computed anew in any case.
* `main()` prints "rt loop aborted, see above" whenever `rt_last_error` is not empty (`main.cpp:1246`). A malformed
  command (`:824`) and a contact trip (`:1144`) write the same text and nothing clears it: a daemon whose loop never aborted, stopped by a
  plain signal an hour later, names an abort, although the comment above the line takes it that the real-time thread has printed one.
* `sync.md:62` says that preparation is blocked while a recognized controller is running. `build()` inspects the host
  once (`_nuc_sync_remote.py:197`), then hashes the release and asks Docker for the image, and starts `docker build`
  (`:221`) without looking again. A controller that starts in between runs beside the build; `NucSync` has these states.

## 6. Proofs

Checked by TLAPS for all values of the constants that satisfy the named assumptions.

* **RingLogProofs**, from `CapacityAssumption`. The inductive invariant `IInv` states
  where the indices are relative to each other and to the local copies of either thread: what
  the producer last saw of `tail` is at most what it is now, likewise for the consumer, and the slots
  between `tail` and `head` hold whole frames. It implies `SlotExclusive`, that a popped frame
  is never torn, `SizeIsAvailable`, and, as a step simulation, that the ring implements `RingQueue`.
  The invariant is needed because each of the facts depends on a load made some steps earlier.
* **RecordingProofs**. `IInv` says which stretch of the writer's life goes with which place of
  the mutex holder and of `record()`. The heart is the line for `rpc = "push"`: capture is
  enabled, or a stop is still waiting, and in both cases the writer drains. `PushesAreConfined`
  follows. It rests on `busy` being set before `enabled` is read. A second invariant, `FInv`, is about what is
  recorded: along the way from `record()` through the ring into the file the numbers of the frames are below each other, and
  without a gap as long as nothing was dropped and no operation failed (`Numbers`, `Rows`); and a failure is in
  `failed_` before the next recording can begin (`Reports`). From both follow `FramesAccounted`, `RowsInOrder`, `CompleteIsExact`,
  `FilesOnlyGrow`, `FailureReported` and, step by step, `ImplementsSession`.
  What `Recording` takes for the guard of `Shutdown` is proved at its end, from `DaemonSpec`: `EndedInOrder` is what `main()`
  knows of the threads from the joins it has behind it, and `ShutdownIsLast` follows. The types need, beyond the two
  invariants, that a push into a full ring is refused (`Room`) and that what goes through the ring are frames (`Bounds`).
* **DispatchProofs**, from the assumptions on the shapes. `IInv` says that commands are in the order
  of their numbers along socket, hand of `cmd_thread`, `pending`, in effect; that `pending` is what was
  received; and that trajectory, limits and stream are those of the command in effect.
  `LimitsHold` and `StreamIsFresh` follow, and so does the implementation of `CommandMailbox`. `Aimed`, on top of it, says at each place
  of a tick that what draws the arm is the target in effect, a trajectory that ends there, or a stream towards it: `NeverDrawnBack`.

* **StreamingProofs**, about `DualArm`, from `MaxPairsAssumption`, hence for any number of pairs. The argument follows the exception. `Place` and
  `InRun` say which method and which clause of `run()` each place of the thread belongs to; `Owed` says who will
  still pay a stop when the coordinator is not RUNNING and no stop was tried: the handler it is on its way
  to, which is where the interruptions in `Harm` come in; `Pairs` says how far one arm may be ahead of the
  other and `Healthy` whom a pair may go to. `QuietUnlessRunning`, `RunningIsPaired`, `NoPairToFailedArm`, `FaultIsLatched` and `RunStops` follow.
  About `TrajectoryWorker`, from `WorkerAssumption` and `GapAssumption`: any period, capacity, poses, durations and times, any number
  of commands. The invariant is `PlanInvariant`: the types, that a worker in its loop has a plan, and that the times increase from
  each knot to any later one (`Ordered`), which is what `PlanStands` says of neighbours. The work is in the lemmas about plans.
  `Split`: the knots before a time are the first n. `AtFirst`, `AtLast`, `AtSegment` and `Somewhere`: what a plan is at a time, and
  that there is no other case. `DriveToKeeps`: a command leaves the plan as it was up to the time it counts from. It puts a knot
  into the segment that is under way, and what lies on the way to a pose that lies on the way lies on the way (`BetweenCut`), an
  identity of fractions whose denominators differ. `PlanStands` and `ReplansFromNow` follow.
* **RecordingServiceProofs**, from the assumptions of `RecordingService`. An answer that is on its way already has all that its client may
  rely on once it arrives (`Told`, `Endings`), and what makes it true cannot be undone: an id that is current no more never is
  again, for it is used. `Defaults` does the same for the id a stop without one means, which the client may have changed
  for a start that failed. `AnswersHold` and `DefaultStopIsMine` follow, and that the service asks of the manager only
  what a session allows (`UsesSession`).
* **WrenchPathProofs**, from `BoundAssumption` and `DistinctAssumption`. `Sections` says which thread holds which mutex at
  which place, `Stored` and `Oriented` that what is half written is written under its mutex, `Copied`, `Used` and `Sound` what the
  readers took from there. `WrenchIsSound` follows. For the types `Held` says conversely who holds each mutex, and
  `Exclusive` that no two threads are in sections of one.
* **NucSyncProofs**, from `NucSyncAssumption`, for any workstations, trees, commits and invocations. `Inv` says what each place of an
  invocation, and each step of the job it started, may rely on: `Early` and `Staged` how far they are from each other, `Building` that a build
  is of a sound release, `Built` who may count on an image. The client is the heart. `Knows` says of an invocation that nobody has overtaken
  that the client is the one its report names, or still the one it kept, at each place between its last look and its report; `Clients`
  says the same of each workstation that is not `loose` and nobody has touched. An installation or a rollback makes `Knows` void for
  all others of its workstation, because it puts them into `overtaken` (`ClientsMove`), and every other step leaves the client alone (`ClientsStay`,
  `ClientsChange`, `ClientsEnd`). No lock is assumed: any number of invocations may overlap. The three properties of the run follow.
* **ClientProofs**, from `RobotClientAssumption`, `ForceTasksAssumption`, `ResetProgramAssumption` and `JointSysidAssumption`: any positions,
  selections, durations, periods and latencies, as long as a program sleeps before `close()` for no less than a command may stay in
  the socket. `Inv` has a part for the caches and the link (`Linked`) and one for each program; `Alone` says that the others have not begun.
  `Streams` is what a hybrid task relies on between two commands: before the first, that the settings it found are still in the cache or in the
  file; after it, that the last command sent is what the cache holds, and the cache what was asked for. This is where a setting that sticks from
  an earlier call, or a first command that does not set everything, would show. The lemmas below it say what a selection does to the slots of a
  wrench, for every set of axes (`ForceAsked`). `Pace` says that a loop which has sent twice in an instant is due in a later one, and that the
  next step of an agent is as many periods after the start of its episode as it has made. `ResetInv` and `Endings` follow the commands to
  idle and to terminate through the socket: while the program sleeps its command has been there exactly as long as it has slept, so that with
  `Flush >= Latency` it has left when the sleep is over (`Flushed`). `Slots` places the last command of the stream in the period before the
  deadline; that the next slot is the first that has not begun is arithmetic (`SlotAfter`). `Endings` says for each place of `joint_sysid.py` what is
  known of the stream, the termination and the record, and where an exception takes it from there (`RaisedInv`). The six properties of the run follow.

Each invariant was checked by TLC on the instance of its run before it was proved; and each mutant of a property that
is proved makes the proof fail.

Only model-checked:

* liveness (`CallsReturn`, `ReceivedTakesEffect`, `TargetReached`, `StopEnds`, `TickEnds`, `StopEndsWorker`), which is out of the
  prover's reach.

Every safety property of a run that passes is thus stated by a theorem.

Of the type invariants, too, each that a module states is proved (`TypeCorrect`, `WorkerTypeCorrect`, `DaemonTypeCorrect`). They say more
than sets of values: that the ring holds no more frames than it has room for, that a mutex is held by exactly the
thread that is in one of its sections, that what is answered is an id that was asked for.

## 7. What is not modelled

* The linear algebra of the controllers, the polynomial of a moveTo, filters, friction and
  rate limits: functions of reals, covered by the unit tests of the repository.
* Weak memory beyond the argument for `RingLog` above.
* The text of CSV rows, log lines, the parsing of YAML and of command lines; the validation of
  ids, paths, timeouts and targets is taken to have passed.
* libfranka, the kernel, ZeroMQ itself: they appear as what the code can observe of them.
* Of the wrench sources: the stop of the worker, the choice of the calibration and its algebra. Of the
  callback in `WrenchPath`: `pending_mu`, which is in `Dispatch`.
* Of the trajectory worker: its buffer of states, and two times within a microsecond of each other,
  of which `schedule_waypoint()` would drop the later.
* Of the `Robot` client and its callers: the construction of messages but for what the model calls settings, selections and poses; the
  recorder of measurements and its statistics; `set_smoothing()`, which does to its cache what `set_stiffness()` does to another.
* Of the programs: Ruckig and the excitation trajectory, which appear as a sequence of targets; the exit code of a
  program that was interrupted (130 or 1), and signals while `main()` already handles an exception.
* Of the NUC synchronisation: an edit or removal of a release between `verify_tree()` and the end of `docker build` (`Meddling` is kept
  out of that time: nothing in the code would notice, and `ImagesAreTheirTree` would not hold); the exported image archive and its `.partial`
  file, which two local builds of one tree share; the text of the reports and manifests, the search for files, passwords. Git, SSH, rsync and Docker
  appear as steps that succeed, fail, or go on when the connection is lost.
* Controllers and filters: their state from tick to tick is a vector of reals; which of it survives a switch is decided in
  `reset()` and, for the cached wrench, modelled in `WrenchPath`.
* Start-up of the daemon: it is sequential and ends the program if it fails.
* Stand-alone control programs (one controller, no second client), the examples other than `reset.py` and `joint_sysid.py`, which
  are straight lines of calls, plotting, and build files.
* The Bota calibration scripts: least squares and console tools. Those that command the arm call `relax()` before
  `close()` and so share the hazard at `robot.py:138`, which is checked for `reset.py`.

## 8. Plan

What is left, in this order:

1. **Controllers**: what they keep from tick to tick, integrator and inner pose of the hybrid controller first (section 5), as components of
   a vector that are set, kept or cleared. It joins `WrenchPath`, whose instance has to shrink for it.
2. **Pure algorithms**, one MC module: the interval and parameter of the streaming interpolator in
   integer milliseconds, dead band, rate limit and selection matrices against reference definitions.
3. The connections of two clients to one daemon, so that a termination replaced by the command of the other is a step of `ClientPrograms`.
