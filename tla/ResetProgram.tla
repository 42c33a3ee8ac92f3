---------------------------- MODULE ResetProgram ----------------------------
(* examples/reset.py: a process of its own that plans with Ruckig, streams  *)
(* Cartesian targets to a goal, and leaves the arm in idle.                 *)
EXTENDS RobotClient

CONSTANTS
    Countdown,    \* the time to abort before the arm moves
    Steps,        \* bound on the steps of a trajectory
    Settling      \* how long the goal is streamed after the last step

Results == {"ok", "check", "stopped", "aborted", "crashed", "killed"}

ASSUME ResetProgramAssumption ==
    /\ {Countdown, Steps, Settling} \subseteq Nat
    /\ None \notin Results

VARIABLE reset

ResetUnused == [pc |-> "unused", result |-> None]

ResetStarts(options) ==
    [pc |-> "begin", result |-> None, pos0 |-> None, goal |-> None, until |-> 0, next |-> 0, steps |-> 0,
     unsafe |-> options.unsafe, hold |-> options.hold]

ResetOptions == [unsafe : BOOLEAN, hold : BOOLEAN]

In(pcs) == reset.pc \in pcs

(* __exit__() closes the connection. *)
Exit(result) ==
    /\ Close
    /\ reset' = [reset EXCEPT !.pc = "exited", !.result = result]

Goes(pc) == reset' = [reset EXCEPT !.pc = pc]

ResetConnects == In({"begin"}) /\ Connect /\ Goes("connected")

(* The plan starts where the arm is before the countdown. *)
ReadsPose ==
    /\ In({"connected"}) /\ seen.valid
    /\ \E goal \in Positions :
         reset' = [reset EXCEPT !.pc = IF reset.unsafe THEN "plan" ELSE "countdown",
                                !.pos0 = seen.pos, !.goal = goal, !.until = now + Countdown]
    /\ UNCHANGED <<cache, open, link, seen>>

NoState == In({"connected"}) /\ ~seen.valid /\ Exit("crashed")

CountdownEnds == In({"countdown"}) /\ now >= reset.until /\ Goes("plan") /\ UNCHANGED <<cache, open, link, seen>>

Aborts == In({"countdown"}) /\ Exit("aborted")

(* A target as Ruckig shaped it, without further smoothing. *)
Target(pos) == SendCartesian(None, [K |-> "asked"], pos)

RuckigFails == In({"plan", "working"}) /\ now >= reset.next /\ Exit("crashed")

(* The first step is sent; Ruckig may be done with it. *)
FirstTarget ==
    /\ In({"plan"})
    /\ \E pos \in {reset.pos0, reset.goal} : Target(pos)
    /\ \E pc \in {"working", "arrived"} : reset' = [reset EXCEPT !.pc = pc, !.next = now]
    /\ UNCHANGED <<open, seen>>

(* One step in each period, or at once after a late one. *)
Paces(pc) == reset' = [reset EXCEPT !.pc = pc, !.steps = @ + 1, !.next = IF @ + 1 > now THEN @ + 1 ELSE now]

NextTarget ==
    /\ In({"working"}) /\ now >= reset.next /\ reset.steps < Steps
    /\ \/ (\E pos \in {reset.pos0, reset.goal} : Target(pos)) /\ Paces("working")
       \/ Target(reset.goal) /\ Paces("arrived")
    /\ UNCHANGED <<open, seen>>

SettleBegins ==
    /\ In({"arrived"}) /\ now >= reset.next
    /\ reset' = [reset EXCEPT !.pc = "settling", !.until = now + Settling]
    /\ UNCHANGED <<cache, open, link, seen>>

(* The goal is sent again in each period until the time is over. *)
Repeats(pc) ==
    /\ In({pc}) /\ now < reset.until /\ now >= reset.next
    /\ Target(reset.goal)
    /\ reset' = [reset EXCEPT !.next = now + 1]
    /\ UNCHANGED <<open, seen>>

Settles == Repeats("settling")

(* The goal was reached if the last state received says so. *)
Checks ==
    /\ In({"settling"}) /\ now >= reset.until
    /\ reset' = [reset EXCEPT !.pc = "checked", !.result = IF seen.pos = reset.goal THEN "ok" ELSE "check"]
    /\ UNCHANGED <<cache, open, link, seen>>

HoldOrIdle ==
    /\ In({"checked"})
    /\ reset' = [reset EXCEPT !.pc = IF reset.hold THEN "holding" ELSE "idle", !.until = now + Settling]
    /\ UNCHANGED <<cache, open, link, seen>>

Holds == Repeats("holding")

HoldEnds == In({"holding"}) /\ now >= reset.until /\ Goes("idle") /\ UNCHANGED <<cache, open, link, seen>>

(* Mutant of Idles: the sockets are closed right after the command. *)
IdlesAndLeaves ==
    /\ In({"idle"})
    /\ SendIdle(None, <<>>, FALSE)
    /\ reset' = [reset EXCEPT !.pc = "idling", !.until = now]
    /\ UNCHANGED <<open, seen>>

(* The last command, and a sleep that lets it leave the socket. *)
Idles ==
    /\ In({"idle"})
    /\ SendIdle(None, <<>>, FALSE)
    /\ reset' = [reset EXCEPT !.pc = "idling", !.until = now + Flush]
    /\ UNCHANGED <<open, seen>>

Leaves == In({"idling"}) /\ now >= reset.until /\ Exit(reset.result)

(* Ctrl-C: in the motion it idles the arm, in the hold it ends the hold,    *)
(* elsewhere the process ends at once.                                      *)
ResetInterrupted ==
    \/ /\ In({"plan", "working", "arrived", "settling"})
       /\ reset' = [reset EXCEPT !.pc = "idle", !.result = "stopped"]
       /\ UNCHANGED <<cache, open, link, seen>>
    \/ In({"holding"}) /\ Goes("idle") /\ UNCHANGED <<cache, open, link, seen>>
    \/ In({"connected", "checked", "idle", "idling"}) /\ Exit("killed")

ResetNext ==
    \/ ResetConnects \/ ReadsPose \/ NoState \/ CountdownEnds \/ Aborts
    \/ RuckigFails \/ FirstTarget \/ NextTarget \/ SettleBegins \/ Settles \/ Checks
    \/ HoldOrIdle \/ Holds \/ HoldEnds
    \/ Idles \/ Leaves
    \/ ResetInterrupted

(* "On exit the arm is left in idle (gravity comp)" (reset.py:29): when the *)
(* program is through, and when it was interrupted in its motion or hold,   *)
(* the daemon idles or has ended; when it was aborted in the countdown, the *)
(* arm is "untouched" (reset.py:289).  A process killed elsewhere, or whose *)
(* Ruckig failed, promises nothing.                                         *)
ResetLeavesIdle ==
    reset.pc = "exited" =>
        /\ reset.result \in {"ok", "check", "stopped"} => effect.mode \in {"idle", "ended"}
        /\ reset.result = "aborted" => sent = None
=============================================================================
