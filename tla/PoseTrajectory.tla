---------------------------- MODULE PoseTrajectory ----------------------------
(***************************************************************************)
(* PoseTrajectoryInterpolator (interpolation.py): a path through poses at  *)
(* given times, linear in between.  Positions are interpolated linearly    *)
(* and orientations by SLERP, which is linear in the angle; either is a    *)
(* point on the segment between two poses, here a fraction on a line.      *)
(*                                                                         *)
(* Times are whole units, so that no two of them are as close as the 1e-6  *)
(* seconds below which schedule_waypoint() drops the later one.            *)
(***************************************************************************)
EXTENDS Integers, Sequences, FiniteSets

CONSTANT Gap \* the 1e-3 seconds given to a waypoint that comes too late

ASSUME GapAssumption == Gap \in Nat \ {0}

(* A pose is n / d.                                                          *)
Pose(n) == [n |-> n, d |-> 1]

Same(p, q) == p.n * q.d = q.n * p.d

(* The same pose with the least denominator, which TLC tries first.         *)
Reduced(p) ==
  LET d == CHOOSE k \in 1 .. p.d : (p.n * k) % p.d = 0
  IN [n |-> (p.n * d) \div p.d, d |-> d]

(* The pose k of m parts of the way from p to q.                             *)
Between(p, q, k, m) ==
  Reduced([n |-> p.n * q.d * (m - k) + q.n * p.d * k, d |-> p.d * q.d * m])

(* A plan is a sequence of knots with increasing times.                      *)
Knot(t, p) == [t |-> t, p |-> p]

Increasing(plan) == \A i \in 1 .. Len(plan) - 1 : plan[i].t < plan[i + 1].t

FromPose(t, p) == <<Knot(t, p)>>

LastKnot(plan) == plan[Len(plan)]

(* Nothing is extrapolated.                                                  *)
At(plan, t) ==
  CASE t <= plan[1].t -> plan[1].p
    [] t >= LastKnot(plan).t -> LastKnot(plan).p
    [] OTHER ->
         LET i == CHOOSE j \in 1 .. Len(plan) - 1 : plan[j].t <= t /\ t < plan[j + 1].t
         IN Between(plan[i].p, plan[i + 1].p, t - plan[i].t, plan[i + 1].t - plan[i].t)

(* The knots before t come first, for the times increase.                   *)
Past(plan, t) == SubSeq(plan, 1, Cardinality({i \in 1 .. Len(plan) : plan[i].t < t}))

(* Mutant of DriveTo: the new segment starts where the old plan would end. *)
DriveFromEnd(plan, p, t, now) ==
  Past(plan, now) \o <<Knot(now, LastKnot(plan).p), Knot(t, p)>>

(* drive_to_waypoint(), which refuses a time that is not after now.          *)
DriveTo(plan, p, t, now) ==
  Past(plan, now) \o <<Knot(now, At(plan, now)), Knot(t, p)>>

(* Mutant of ScheduleAt: a waypoint that comes too late is taken as it is. *)
ScheduleUnchecked(plan, p, t, now) == DriveTo(plan, p, t, now)

(* schedule_waypoint().  What it keeps is before now, so that its sort       *)
(* changes nothing and every knot after now is gone.                         *)
ScheduleAt(plan, p, t, now) ==
  DriveTo(plan, p, IF t > now THEN t ELSE now + Gap, now)
==============================================================================
