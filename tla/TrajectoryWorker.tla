--------------------------- MODULE TrajectoryWorker ---------------------------
(***************************************************************************)
(* InterpolationController (interpolation.py): a process of its own that   *)
(* streams the poses of a plan to the daemon in every cycle, and takes at  *)
(* most one command per cycle from the bounded queue its caller fills.     *)
(***************************************************************************)
EXTENDS PoseTrajectory

CONSTANTS
  Dt,        \* the period of a cycle
  Capacity,  \* of the queue
  Goal,      \* poses a caller asks for, by number
  Duration,  \* of servoL(), at least Dt
  Time,      \* target times of schedule_waypoint(), on the worker's clock
  MaxTime,   \* bound on the clock, which stops there, for model checking
  MaxCalls,  \* bound on the calls that put a command, likewise
  Joints, Idle, Nothing \* what the daemon was told, other than a pose

ASSUME WorkerAssumption ==
  /\ {Dt, Capacity} \subseteq Nat \ {0}
  /\ Goal \subseteq Int
  /\ Duration \subseteq {d \in Nat : d >= Dt}
  /\ Time \subseteq Nat
  /\ {MaxTime, MaxCalls} \subseteq Nat

VARIABLES
  clock,
  worker, \* where run() is
  plan,   \* interp
  tNow,   \* t_now
  tNext,  \* t0 + iter_idx * dt
  last,   \* what was sent to the daemon last
  going,  \* keep_running
  ready,  \* _ready_event
  killed, \* the worker was terminated, and nobody is left to call it
  queue,  \* _cmd_queue
  caller, \* where the caller is
  calls

loop == <<plan, tNow, tNext, going>>
workerVars == <<clock, worker, loop, last, ready, killed, queue, caller, calls>>

Command ==
  [kind : {"servoL"}, to : Goal, time : Duration]
    \cup [kind : {"schedule"}, to : Goal, time : Time]
    \cup [kind : {"stop"}]

Stop == [kind |-> "stop"]

Running == {"connect", "anchor", "send", "take", "sleep"}

WorkerInit ==
  /\ clock = 0
  /\ worker = "new"
  /\ plan = <<>>
  /\ tNow = 0
  /\ tNext = 0
  /\ last = Nothing
  /\ going = TRUE
  /\ ready = FALSE
  /\ killed = FALSE
  /\ queue = <<>>
  /\ caller = "new"
  /\ calls = 0

Tick ==
  /\ clock < MaxTime
  /\ clock' = clock + 1
  /\ UNCHANGED <<worker, loop, last, ready, killed, queue, caller, calls>>

------------------------------------------------------------------------------
(* The caller.                                                               *)
Start ==
  /\ caller = "new" /\ ~killed
  /\ caller' = "starting"
  /\ worker' = "connect"
  /\ UNCHANGED <<clock, loop, last, ready, killed, queue, calls>>

(* start() returns when the event is set, which may mean that the worker is  *)
(* over already, ...                                                         *)
StartReturns ==
  /\ caller = "starting" /\ ~killed
  /\ ready
  /\ caller' = "using"
  /\ UNCHANGED <<clock, worker, loop, last, ready, killed, queue, calls>>

(* ... and raises when it is not set in time, with the worker still at it.   *)
StartRaises ==
  /\ caller = "starting" /\ ~killed
  /\ ~ready
  /\ caller' = "using"
  /\ UNCHANGED <<clock, worker, loop, last, ready, killed, queue, calls>>

(* put() waits while the queue is full.                                      *)
Put(c) ==
  /\ calls < MaxCalls
  /\ Len(queue) < Capacity
  /\ calls' = calls + 1
  /\ queue' = Append(queue, c)

Ask ==
  /\ caller = "using" /\ ~killed
  /\ \E c \in Command \ {Stop} : Put(c)
  /\ UNCHANGED <<clock, worker, loop, last, ready, killed, caller>>

(* stop() gives up when the queue is full; it waits for the worker, but not  *)
(* for ever.                                                                 *)
StopAsks ==
  /\ caller = "using" /\ ~killed
  /\ caller' = "joining"
  /\ \/ Put(Stop)
     \/ Len(queue) = Capacity /\ UNCHANGED <<queue, calls>>
  /\ UNCHANGED <<clock, worker, loop, last, ready, killed>>

StopReturns ==
  /\ caller = "joining" /\ ~killed
  /\ caller' = "using"
  /\ UNCHANGED <<clock, worker, loop, last, ready, killed, queue, calls>>

(* The worker is a daemon process: it is terminated with its parent, without *)
(* Finish.  So is one that is interrupted while it finishes.                 *)
Exit ==
  /\ ~killed
  /\ killed' = TRUE
  /\ worker' = "over"
  /\ UNCHANGED <<clock, loop, last, ready, queue, caller, calls>>

------------------------------------------------------------------------------
(* The worker, until its loop.                                               *)

(* With and without joints_init.                                             *)
Connect ==
  /\ worker = "connect"
  /\ worker' = "anchor"
  /\ last' \in {last, Joints}
  /\ UNCHANGED <<clock, loop, ready, killed, queue, caller, calls>>

Anchor ==
  /\ worker = "anchor"
  /\ worker' = "send"
  /\ plan' = FromPose(clock, Pose(0))
  /\ tNext' = clock
  /\ UNCHANGED <<clock, tNow, going, last, ready, killed, queue, caller, calls>>

------------------------------------------------------------------------------
(* The loop.                                                                 *)
Send ==
  /\ worker = "send"
  /\ worker' = "take"
  /\ tNow' = clock
  /\ last' = At(plan, clock)
  /\ UNCHANGED <<clock, plan, tNext, going, ready, killed, queue, caller, calls>>

(* The end of a cycle; the next is due one period after this one was.        *)
CycleEnds ==
  /\ worker' = "sleep"
  /\ ready' = TRUE
  /\ tNext' = IF tNext + Dt > MaxTime THEN MaxTime ELSE tNext + Dt
  /\ UNCHANGED <<clock, tNow, last, killed, caller, calls>>

(* A command counts from the next cycle on.                                  *)
Replan(c) ==
  plan' = IF c.kind = "servoL"
          THEN DriveTo(plan, Pose(c.to), tNow + Dt + c.time, tNow + Dt)
          ELSE ScheduleAt(plan, Pose(c.to), c.time, tNow + Dt)

(* Mutant of Take: a command is looked at, but left in the queue. *)
TakeNone ==
  /\ worker = "take"
  /\ queue # <<>>
  /\ CycleEnds
  /\ UNCHANGED <<queue, plan, going>>

Take ==
  /\ worker = "take"
  /\ queue # <<>>
  /\ queue' = Tail(queue)
  /\ IF Head(queue) = Stop
     THEN going' = FALSE /\ UNCHANGED plan
     ELSE Replan(Head(queue)) /\ UNCHANGED going
  /\ CycleEnds

(* get_nowait() finds nothing, or not yet what the caller has just put.      *)
TakeNothing ==
  /\ worker = "take"
  /\ CycleEnds
  /\ UNCHANGED <<queue, plan, going>>

Wake ==
  /\ worker = "sleep"
  /\ clock >= tNext
  /\ worker' = IF going THEN "send" ELSE "finish"
  /\ UNCHANGED <<clock, loop, last, ready, killed, queue, caller, calls>>

(* Anything may raise: no state in time, a lost manager, an interrupt.       *)
Raises ==
  /\ worker \in Running
  /\ worker' = "finish"
  /\ UNCHANGED <<clock, loop, last, ready, killed, queue, caller, calls>>

Finish ==
  /\ worker = "finish"
  /\ worker' = "over"
  /\ last' = Idle
  /\ ready' = TRUE
  /\ UNCHANGED <<clock, loop, killed, queue, caller, calls>>

Worker == Connect \/ Anchor \/ Send \/ Take \/ TakeNothing \/ Wake \/ Finish

------------------------------------------------------------------------------
WorkerNext ==
  \/ Tick
  \/ Start \/ StartReturns \/ StartRaises \/ Ask \/ StopAsks \/ StopReturns \/ Exit
  \/ Worker \/ Raises

(* The worker runs, time passes, and a command that stays in the queue is    *)
(* found in the end.  Nothing makes a caller call.                           *)
WorkerFairness == WF_workerVars(Worker) /\ WF_workerVars(Tick) /\ SF_workerVars(Take)

WorkerSpec == WorkerInit /\ [][WorkerNext]_workerVars /\ WorkerFairness

------------------------------------------------------------------------------
Moment == 0 .. MaxTime

WorkerTypeOK ==
  /\ {clock, tNow, tNext} \subseteq Moment
  /\ worker \in Running \cup {"new", "finish", "over"}
  /\ caller \in {"new", "starting", "using", "joining"}
  /\ {going, ready, killed} \subseteq BOOLEAN
  /\ calls \in 0 .. MaxCalls
  /\ queue \in Seq(Command) /\ Len(queue) <= Capacity
  /\ plan \in Seq([t : Nat, p : [n : Int, d : Nat \ {0}]])

(* The times of a plan that is streamed increase, however late the commands  *)
(* that made it were taken out of the queue: PoseTrajectoryInterpolator and  *)
(* interp1d() raise otherwise, and the worker ends in its loop.              *)
PlanStands ==
  /\ worker \in {"send", "take", "sleep"} => plan # <<>>
  /\ Increasing(plan)

(* A command leaves alone what has been streamed and what will be until it   *)
(* counts, so that the pose does not jump, and from its time on the plan is  *)
(* where the command wants it, however many commands came before             *)
(* (drive_to_waypoint: "Past samples are preserved"; "newer schedule wins"). *)
ReplansFromNow ==
  [][queue' # queue /\ plan # <<>> /\ plan' # plan =>
       /\ \A t \in 0 .. tNow + Dt : Same(At(plan', t), At(plan, t))
       /\ LastKnot(plan').p = Pose(Head(queue).to)
       /\ LastKnot(plan').t > tNow + Dt
       /\ Head(queue).kind = "schedule" /\ Head(queue).time > tNow + Dt =>
            LastKnot(plan').t = Head(queue).time]_workerVars

(* A stop that has got into the queue ends the worker behind the commands    *)
(* before it, and the arm is told to be idle, unless the worker is killed.   *)
StopEndsWorker ==
  Stop \in {queue[i] : i \in 1 .. Len(queue)} ~>
    worker = "over" /\ (last = Idle \/ killed)

(* A waypoint is inserted: it replaces those after it, and the plan still    *)
(* passes through those before it, for "a specific trajectory shape across   *)
(* all waypoints".                                                           *)
KeepsEarlierWaypoints ==
  [][queue' # queue /\ plan # <<>> /\ plan' # plan /\ Head(queue).kind = "schedule" =>
       \A i \in 1 .. Len(plan) :
         plan[i].t < Head(queue).time => Same(At(plan', plan[i].t), plan[i].p)]_workerVars
==============================================================================
