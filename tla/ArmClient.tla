----------------------------- MODULE ArmClient ------------------------------
(* The caller of a Robot, an Arm or a RobotAgent: client.py and agent.py    *)
(* over robot.py.  One instant is one period of a loop and of an agent.     *)
EXTENDS ForceTasks

CONSTANTS
    DefaultK,     \* default_stiffness of the agent, None for none
    MoveTime      \* duration of a move

ASSUME ArmClientAssumption == MoveTime \in Nat

Stiff == {None, "asked"}

(* observe() takes a state without an error, of any age. *)
Observes == seen.valid /\ ~seen.err

ObserveRaises == seen.valid /\ seen.err

(* A call that is over when it returns; the last of the calls is none of    *)
(* these, since nothing would follow that shows its effect.                 *)
Simple == NextCall /\ calls + 1 < MaxCalls /\ task' = NoTask

---------------------------------------------------------------------------
(* Calls of Robot.                                                          *)

RobotCalls ==
    /\ Simple
    /\ \/ SendIdle("base", <<>>, FALSE)
       \/ Terminate
       \/ \E file \in {None, "soft"}, K \in Stiff, pos \in Positions : SendCartesian(file, Given([K |-> K], {"K"}), pos)
       \/ \E K \in Stiff, pos \in Positions :
            \/ SendMoveTo(Given([K |-> K], {"K"}), pos)
            \/ SendJoint(None, Given([K |-> K], {"K"}), pos)
            \/ \E required \in BOOLEAN : SendAdmittance(None, Given([K |-> K], {"K"}), pos, required)

(* A value of the wrong length raises, like a wrong n_af, when something is *)
(* stored and nothing sent.                                                 *)
HybridCalls ==
    /\ Simple
    /\ \E caps \in Stiff, pos \in Positions :
         \/ \E forced \in Selections :
              FtSensor(TRUE) /\ SendHybridForcePosition(None, Given([caps |-> caps], {"caps"}), forced, UnitForce, pos)
         \/ \E n_af \in {None, 1 + Cardinality(Axes)} :
              SendHybrid(cache, Given([caps |-> caps, n_af |-> n_af], {"caps", "n_af"}), pos)

---------------------------------------------------------------------------
(* Arm.  A stiffness goes to the Cartesian and the admittance cache.        *)

SetStiffness(c, K) ==
    IF K = None THEN c ELSE Stored(Stored(c, "cartesian_impedance", [K |-> K]), "admittance", [K |-> K])

ArmSend(c, pos) == Call(c, "cartesian_impedance", pos, FALSE)

SetProfile(ctl, file) == cache' = Loaded(cache, ctl, file) /\ UNCHANGED link

ArmCalls ==
    /\ Simple
    /\ \/ \E K \in Stiff, pos \in Positions : ArmSend(SetStiffness(cache, K), pos)
       \/ Observes /\ ArmSend(cache, seen.pos)                     \* hold
       \/ SendIdle(None, <<>>, FALSE)                              \* relax
       \/ cache' = SetStiffness(cache, "asked") /\ UNCHANGED link
       \/ \E ctl \in Controllers, file \in Profiles : Loadable(ctl, file) /\ SetProfile(ctl, file)

(* move_to() sleeps for as long as the move is meant to take. *)
MoveBegin(kind, c, pos, K) ==
    /\ open
    /\ cache' = c
    /\ Hand(Command("move_to", pos, c["cartesian_impedance"], FALSE))
    /\ task' = [kind |-> kind, pc |-> "moving", until |-> MoveTime, K |-> K, next |-> 0, start |-> 0, steps |-> 0]

ArmMove(pos) == NextCall /\ MoveBegin("move", cache, pos, None)

MoveEnds ==
    /\ task.pc = "moving" /\ now >= task.until
    /\ \/ Observes /\ task' = [task EXCEPT !.pc = IF task.kind = "move" THEN "returned" ELSE "ready",
                                           !.next = now + 1, !.start = now]
       \/ ObserveRaises /\ task' = [task EXCEPT !.pc = "raised"]
    /\ UNCHANGED <<cache, link, calls, now>>

(* oscillate(), step() and disturb(): a target for each instant. *)
LoopBegin ==
    /\ NextCall
    /\ Observes
    /\ task' = [kind |-> "loop", pc |-> "loop", next |-> 0, first |-> TRUE, burst |-> <<0, 0>>]
    /\ UNCHANGED <<cache, link>>

(* With a recorder the state is observed after each target. *)
LoopTick ==
    /\ At("loop", "loop") /\ Due /\ now < Duration
    /\ \E pos \in Positions : ArmSend(cache, pos)
    /\ task' \in {Iterated} \union IF ObserveRaises THEN {[Iterated EXCEPT !.pc = "raised"]} ELSE {}
    /\ UNCHANGED <<calls, now>>

LoopReturns ==
    /\ At("loop", "loop") /\ Due /\ now >= Duration
    /\ task' = [task EXCEPT !.pc = "returned"]
    /\ UNCHANGED <<cache, link, calls, now>>

---------------------------------------------------------------------------
(* RobotAgent.  reset() gives the default stiffness again and moves home;   *)
(* step() sends one target and sleeps until the next period begins.         *)

AgentReset(home) ==
    /\ NextCall
    /\ MoveBegin("episode", SetStiffness(cache, DefaultK), home,
                 IF DefaultK # None THEN DefaultK ELSE cache["cartesian_impedance"].K)

AgentSends(pos, K) ==
    /\ At("episode", "ready")
    /\ ArmSend(SetStiffness(cache, K), pos)
    /\ task' = [task EXCEPT !.pc = "stepping", !.K = IF K # None THEN K ELSE @]
    /\ UNCHANGED <<calls, now>>

(* A period that has passed is caught up: no sleep until _t_next is in the  *)
(* future again.                                                            *)
AgentStepEnds ==
    /\ At("episode", "stepping") /\ Due
    /\ \/ Observes /\ task' = [task EXCEPT !.pc = "ready", !.next = @ + 1, !.steps = @ + 1]
       \/ ObserveRaises /\ task' = [task EXCEPT !.pc = "raised", !.next = @ + 1]
    /\ UNCHANGED <<cache, link, calls, now>>

ArmNext ==
    \/ RobotCalls \/ HybridCalls \/ ArmCalls
    \/ \E pos \in Positions : ArmMove(pos) \/ AgentReset(pos)
    \/ MoveEnds
    \/ LoopBegin \/ LoopTick \/ LoopReturns
    \/ \E pos \in Positions, K \in Stiff : AgentSends(pos, K)
    \/ AgentStepEnds

(* The calls that open and close the connection. *)
LinkNext ==
    /\ Free
    /\ \/ Connect /\ UNCHANGED calls
       \/ Close /\ calls < MaxCalls /\ calls' = calls + 1
    /\ task' = NoTask
    /\ UNCHANGED now

CallerNext ==
    \/ (ForceTasksNext \/ ArmNext) /\ UNCHANGED <<open, seen>>
    \/ LinkNext

(* Between calls time does not matter, but for a command in the socket.     *)
Timed == ~Free \/ task.pc = "ready" \/ waiting # None

---------------------------------------------------------------------------
(* A task sends what was asked for it: the hybrid tasks as above, and the   *)
(* agent moves and steps with the default stiffness after a reset and with  *)
(* the stiffness given last within the episode, "so a change inside the     *)
(* loop doesn't leak across episodes" (agent.py:30-31).                     *)
TaskIsAsAsked ==
    /\ ForceTaskIsAsAsked
    /\ task.kind = "episode" => sent.set.K = task.K

(* A loop that was held up does not catch up: it never sends more than two  *)
(* commands in one instant, the late one and the one it starts from anew.   *)
(* An agent does catch up, but is never ahead of its clock: n steps take    *)
(* n periods, or more.                                                      *)
Paced ==
    /\ task.kind \in {"run", "apply", "loop"} => task.burst[2] <= 2
    /\ task.kind = "episode" => task.steps <= now - task.start
=============================================================================
