----------------------------- MODULE ForceTasks -----------------------------
(* The hybrid tasks of Robot: loops that stream hybrid commands for a while *)
(* in the thread of their caller, run_hybrid_force_position() and           *)
(* apply_effector_forces_along_axis().  One instant is one period dt.       *)
EXTENDS RobotClient

CONSTANTS
    Duration,    \* how long a task or a loop runs
    RampTime,    \* acc_duration
    Selections   \* the sets of axes that callers put under force

ASSUME ForceTasksAssumption ==
    /\ Selections \subseteq SUBSET Axes
    /\ Duration \in Nat /\ RampTime \in Nat /\ 2 * RampTime < Duration

VARIABLE task    \* what the caller is in the middle of, or did last

NoTask == [kind |-> "none", pc |-> "none"]

(* The caller may make its next call; the clock starts again with it. *)
Free == task.pc \in {"none", "returned", "raised", "refused", "interrupted", "ready"}

NextCall == Free /\ calls < MaxCalls /\ calls' = calls + 1 /\ now' = 0

UnitForce == [a \in Axes |-> 1]

(* What the caller asks for; None leaves a setting as it is. *)
Wishes == {[caps |-> given, K |-> given, profile |-> file] : given \in {None, "asked"}, file \in {None, "soft"}}

Given(wish, names) == [k \in {n \in names : wish[n] # None} |-> wish[k]]

(* The settings a task finds: of the profile it asks for, or those in use. *)
Found(wish) == [k \in {"caps", "K"} |-> Loaded(cache, "hybrid", wish.profile)["hybrid"][k]]

Began(kind, wish, forced) ==
    [kind |-> kind, pc |-> "loop", wish |-> wish, forced |-> forced, found |-> Found(wish),
     next |-> 0, first |-> TRUE, p0 |-> seen.pos, aborted |-> FALSE, burst |-> <<0, 0>>]

(* Mutant of Reanchored: the loop catches up. *)
CaughtUp(next) == next + 1

(* The end of an iteration: sleep until the next period, or, when that has  *)
(* passed, start from here instead of catching up.                          *)
Reanchored(next) == IF next + 1 > now THEN next + 1 ELSE now

(* One command more was sent, in this instant or in a later one. *)
Iterated == [task EXCEPT !.burst = <<now, IF @[1] = now THEN @[2] + 1 ELSE 1>>, !.first = FALSE, !.next = Reanchored(@)]

At(kind, pc) == task.kind = kind /\ task.pc = pc

Due == now >= task.next

---------------------------------------------------------------------------
(* run_hybrid_force_position(): settings go with the first command only.    *)

RunBegin(wish, forced) ==
    /\ NextCall
    /\ FtSensor(TRUE)
    /\ task' = Began("run", wish, forced)
    /\ UNCHANGED <<cache, link>>

(* Mutant of RunSends: every command names the profile again. *)
RunSendsProfile ==
    IF task.first
    THEN SendHybridForcePosition(task.wish.profile, Given(task.wish, {"caps", "K"}), task.forced, UnitForce, task.p0)
    ELSE SendHybridForcePosition(task.wish.profile, <<>>, task.forced, UnitForce, task.p0)

RunSends ==
    IF task.first
    THEN SendHybridForcePosition(task.wish.profile, Given(task.wish, {"caps", "K"}), task.forced, UnitForce, task.p0)
    ELSE SendHybridForcePosition(None, <<>>, task.forced, UnitForce, task.p0)

RunTick ==
    /\ At("run", "loop") /\ Due /\ now < Duration
    /\ RunSends
    /\ task' = Iterated
    /\ UNCHANGED <<calls, now>>

(* The daemon is left in hybrid control. *)
RunReturns ==
    /\ At("run", "loop") /\ Due /\ now >= Duration
    /\ task' = [task EXCEPT !.pc = "returned"]
    /\ UNCHANGED <<cache, link, calls, now>>

---------------------------------------------------------------------------
(* apply_effector_forces_along_axis(): profile and stiffness are stored     *)
(* before the sensor is looked for.                                         *)

ApplyBegin(wish, axis) ==
    /\ NextCall
    /\ cache' = Stored(Loaded(cache, "hybrid", wish.profile), "hybrid", Given(wish, {"K"}))
    /\ task' = IF FtSensor(TRUE) THEN Began("apply", wish, {axis})
                                 ELSE [Began("apply", wish, {axis}) EXCEPT !.pc = "refused"]
    /\ UNCHANGED link

(* _ramped_force(), up to 1 and back. *)
Ramped(t) == IF t < RampTime THEN t \div RampTime
             ELSE IF t > Duration - RampTime THEN (Duration - t) \div RampTime ELSE 1

Axis == CHOOSE a \in task.forced : TRUE

ApplySends(mag) ==
    LET axis == ForceAxisToTr(Axis, mag)
    IN  IF task.first THEN SendHybrid(cache, Updated(axis, Given(task.wish, {"caps"})), task.p0)
        ELSE SendHybrid(cache, [wrench |-> axis.wrench], task.p0)

Drifted == seen.valid /\ seen.pos # task.p0

ApplyTick ==
    /\ At("apply", "loop") /\ Due /\ now < Duration
    /\ ~Drifted
    /\ ApplySends(Ramped(now))
    /\ task' = Iterated
    /\ UNCHANGED <<calls, now>>

ApplyLeavesLoop ==
    /\ At("apply", "loop") /\ Due
    /\ \/ now >= Duration /\ task' = [task EXCEPT !.pc = "final"]
       \/ now < Duration /\ Drifted /\ task' = [task EXCEPT !.pc = "final", !.aborted = TRUE]
    /\ UNCHANGED <<cache, link, calls, now>>

(* Mutant of ApplyFinal: too much drift is raised at once. *)
ApplyRaisesFirst ==
    /\ At("apply", "final")
    /\ IF task.aborted THEN UNCHANGED <<cache, link>> ELSE SendHybrid(cache, [wrench |-> Zero], task.p0)
    /\ task' = [task EXCEPT !.pc = IF task.aborted THEN "raised" ELSE "returned"]
    /\ UNCHANGED <<calls, now>>

(* No force any more, in the axes of the last command; it raises when the   *)
(* loop sent nothing and an earlier n_af is out of range.                   *)
ApplyFinal ==
    /\ At("apply", "final")
    /\ SendHybrid(cache, [wrench |-> Zero], task.p0)
    /\ task' = [task EXCEPT !.pc = IF ~(cache["hybrid"].n_af \in 0 .. Cardinality(Axes)) THEN "refused"
                                   ELSE IF task.aborted THEN "raised" ELSE "returned"]
    /\ UNCHANGED <<calls, now>>

(* A KeyboardInterrupt ends a task where it is. *)
TaskInterrupted ==
    /\ ~Free
    /\ task' = [task EXCEPT !.pc = "interrupted"]
    /\ UNCHANGED <<cache, link, calls, now>>

ForceTasksNext ==
    \/ \E wish \in Wishes, forced \in Selections : RunBegin(wish, forced)
    \/ RunTick \/ RunReturns
    \/ \E wish \in Wishes, axis \in Axes : ApplyBegin(wish, axis)
    \/ ApplyTick \/ ApplyLeavesLoop \/ ApplyFinal
    \/ TaskInterrupted

---------------------------------------------------------------------------
(* As long as a task streams, every command of its loop asks for what its   *)
(* caller asked: the same force on the selected axes and none on the        *)
(* others, and the thresholds and stiffness given, or else those of the     *)
(* profile or the caches: robot.py:666, "First tick installs S /            *)
(* position_kps_cart / thresholds into the cache".                          *)
ForceTaskIsAsAsked ==
    task.kind \in {"run", "apply"} /\ task.pc = "loop" /\ ~task.first =>
        LET magnitude == IF task.kind = "run" THEN {1} ELSE {0, 1}
        IN  /\ sent.mode = "hybrid" /\ sent.pos = task.p0 /\ sensor
            /\ \E m \in magnitude : ForceOf(sent.set) = [a \in Axes |-> IF a \in task.forced THEN m ELSE 0]
            /\ \A k \in {"caps", "K"} : sent.set[k] = IF task.wish[k] # None THEN task.wish[k] ELSE task.found[k]

(* When apply_effector_forces_along_axis() has returned or raised for too   *)
(* much drift, the last command holds the pose it began at and asks for no  *)
(* force, and once the socket is empty none is applied, "for a clean        *)
(* hand-off" (robot.py:811).                                                *)
ForceIsReleased ==
    task.kind = "apply" /\ task.pc \in {"returned", "raised"} =>
        /\ sent = Command("hybrid", task.p0, cache["hybrid"], FALSE)
        /\ ForceOf(sent.set) = Zero
        /\ waiting = None => effect.force = Zero
=============================================================================
