-------------------------------- MODULE DualArm --------------------------------
(***************************************************************************)
(* DualArmCoordinator (dual_arm.py): one thread that checks two arms, sends *)
(* them pairs of targets one after the other, and stops both when anything *)
(* fails.  Every call to an endpoint may raise, and KeyboardInterrupt may  *)
(* come at any point of any method.  `hurt` records that it came where it  *)
(* keeps the coordinator from a stop it owes, see Harm.                    *)
(***************************************************************************)
EXTENDS Naturals

CONSTANT MaxPairs \* bound on the pairs sent, for model checking

ASSUME MaxPairsAssumption == MaxPairs \in Nat

Arm == {"left", "right"}

VARIABLES
  state,      \* state
  sequence,   \* sequence
  stopErrors, \* the keys of stop_errors
  scope,      \* which part of run() the thread is in: "none", "loop", "handler", "finish"
  op,         \* the method called by run() or by the application
  pc,         \* where the thread is in it
  raising,    \* an exception is on its way to the caller
  bad,        \* the arms whose state is stale, not running or in error
  badSince,   \* those that have been so since the method was called, for the properties
  holds,      \* the pair whose target each arm accepted last, 0 for none, likewise
  stopTried,  \* the arms whose stop was attempted since they were last sent to, likewise
  hurt        \* as above, likewise

latch == <<state, sequence, stopErrors>>
call == <<scope, op, raising>>
health == <<bad, badSince>>
arms == <<holds, stopTried>>
vars == <<latch, call, pc, health, arms, hurt>>

Init ==
  /\ state = "DISARMED"
  /\ sequence = 0
  /\ stopErrors = {}
  /\ scope = "none"
  /\ op = "none"
  /\ pc = "idle"
  /\ raising = FALSE
  /\ bad \in SUBSET Arm
  /\ badSince = {}
  /\ holds = [a \in Arm |-> 0]
  /\ stopTried = Arm
  /\ hurt = FALSE

------------------------------------------------------------------------------
(* The arms, whose daemons and links fail and recover by themselves.         *)
Fails(a) ==
  /\ a \notin bad
  /\ bad' = bad \cup {a}
  /\ UNCHANGED <<latch, call, pc, badSince, arms, hurt>>

Recovers(a) ==
  /\ a \in bad
  /\ bad' = bad \ {a}
  /\ badSince' = badSince \ {a}
  /\ UNCHANGED <<latch, call, pc, arms, hurt>>

------------------------------------------------------------------------------
(* Calls, which raise at once in the wrong state, and their returns.         *)
Begin(m, first) == op' = m /\ pc' = first /\ badSince' = bad /\ raising' = FALSE

Armed == state \in {"READY", "RUNNING"}

CallArm ==
  /\ pc = "idle"
  /\ state # "RUNNING"
  /\ Begin("arm", "left")
  /\ UNCHANGED <<latch, scope, bad, arms, hurt>>

CallObserve ==
  /\ pc = "idle"
  /\ Armed
  /\ Begin("observe", "left")
  /\ UNCHANGED <<latch, scope, bad, arms, hurt>>

CallSend ==
  /\ pc = "idle"
  /\ Armed
  /\ sequence < MaxPairs
  /\ Begin("send", "left")
  /\ UNCHANGED <<latch, scope, bad, arms, hurt>>

CallStop ==
  /\ pc \in {"idle", "targets"}
  /\ Begin("stop", "stopLeft")
  /\ stopErrors' = {}
  /\ UNCHANGED <<state, sequence, scope, bad, arms, hurt>>

CallRun ==
  /\ pc = "idle"
  /\ state = "READY"
  /\ scope' = "loop"
  /\ pc' = "loop"
  /\ UNCHANGED <<latch, op, raising, health, arms, hurt>>

(* What run() does after observe(), send() and stop(); the last may also     *)
(* have been called by target_fn.                                            *)
Resumes ==
  IF scope = "loop" THEN IF op = "send" THEN "loop" ELSE "targets" ELSE "idle"

Return == pc' = Resumes /\ scope' = IF scope = "loop" THEN "loop" ELSE "none"

------------------------------------------------------------------------------
(* _snapshots(): an endpoint without a state raises, and both states are     *)
(* looked at when both are there.  What else is found wrong before anything  *)
(* is sent, the skew of the two states or a target that is not finite, is    *)
(* CheckFails.                                                               *)

(* An exception in a method: arm(), observe() and send() turn to _fault().   *)
Raise == pc' = "catch" /\ raising' = TRUE

Snapshot(a) ==
  /\ pc = a
  /\ IF a \in bad THEN Raise
     ELSE pc' = (IF a = "left" THEN "right" ELSE "check") /\ UNCHANGED raising
  /\ UNCHANGED <<latch, scope, op, health, arms, hurt>>

CheckFails ==
  /\ pc = "check"
  /\ Raise
  /\ UNCHANGED <<latch, scope, op, health, arms, hurt>>

ArmEnds ==
  /\ pc = "check"
  /\ op = "arm"
  /\ state' = "READY"
  /\ stopErrors' = {}
  /\ Return
  /\ UNCHANGED <<sequence, op, raising, health, arms, hurt>>

ObserveEnds ==
  /\ pc = "check"
  /\ op = "observe"
  /\ Return
  /\ UNCHANGED <<latch, op, raising, health, arms, hurt>>

SendsPair ==
  /\ pc = "check"
  /\ op = "send"
  /\ pc' = "sendLeft"
  /\ UNCHANGED <<latch, call, health, arms, hurt>>

(* A send that succeeds, one that raises and sends nothing, and the count.   *)
Target(a) == IF a = "left" THEN "sendLeft" ELSE "sendRight"

Accepts(a) ==
  /\ holds' = [holds EXCEPT ![a] = sequence + 1]
  /\ stopTried' = stopTried \ {a}

SendArm(a) ==
  /\ pc = Target(a)
  /\ Accepts(a)
  /\ pc' = IF a = "left" THEN "sendRight" ELSE "count"
  /\ UNCHANGED <<latch, call, health, hurt>>

(* Mutant of SendRaises: the pair goes on without the arm that failed. *)
SendIgnoresError(a) ==
  /\ pc = Target(a)
  /\ pc' = IF a = "left" THEN "sendRight" ELSE "count"
  /\ UNCHANGED <<latch, call, health, arms, hurt>>

SendRaises(a) ==
  /\ pc = Target(a)
  /\ Raise
  /\ UNCHANGED <<latch, scope, op, health, arms, hurt>>

Count ==
  /\ pc = "count"
  /\ sequence' = sequence + 1
  /\ pc' = "mark"
  /\ UNCHANGED <<state, stopErrors, call, health, arms, hurt>>

SendEnds ==
  /\ pc = "mark"
  /\ state' = "RUNNING"
  /\ Return
  /\ UNCHANGED <<sequence, stopErrors, op, raising, health, arms, hurt>>

------------------------------------------------------------------------------
(* _fault() and _stop_both().                                                *)

Fault ==
  /\ state' = "FAULT"
  /\ stopErrors' = {}
  /\ pc' = "stopLeft"
  /\ UNCHANGED sequence

Catch ==
  /\ pc = "catch"
  /\ Fault
  /\ UNCHANGED <<call, health, arms, hurt>>

Stopping(a) == IF a = "left" THEN "stopLeft" ELSE "stopRight"

(* Mutant of StopArm: a failure to stop the left arm is not caught. *)
StopArmOnce(a) ==
  /\ pc = Stopping(a)
  /\ stopTried' = stopTried \cup {a}
  /\ \/ UNCHANGED stopErrors /\ pc' = IF a = "left" THEN "stopRight" ELSE "stopped"
     \/ stopErrors' = stopErrors \cup {a} /\ pc' = "stopped"
  /\ UNCHANGED <<state, sequence, call, health, holds, hurt>>

StopArm(a) ==
  /\ pc = Stopping(a)
  /\ stopTried' = stopTried \cup {a}
  /\ stopErrors' \in {stopErrors, stopErrors \cup {a}}
  /\ pc' = IF a = "left" THEN "stopRight" ELSE "stopped"
  /\ UNCHANGED <<state, sequence, call, health, holds, hurt>>

(* The end of _fault(), and of stop().                                       *)
FaultEnds ==
  /\ pc = "stopped"
  /\ raising
  /\ pc' = "raise"
  /\ UNCHANGED <<latch, call, health, arms, hurt>>

StopFails ==
  /\ pc = "stopped"
  /\ ~raising
  /\ stopErrors # {}
  /\ state' = "FAULT"
  /\ raising' = TRUE
  /\ pc' = "raise"
  /\ UNCHANGED <<sequence, stopErrors, scope, op, health, arms, hurt>>

(* Mutant of StopEnds: it always leaves the coordinator disarmed. *)
StopClearsFault ==
  /\ pc = "stopped"
  /\ ~raising
  /\ stopErrors = {}
  /\ state' = "DISARMED"
  /\ Return
  /\ UNCHANGED <<sequence, stopErrors, op, raising, health, arms, hurt>>

StopEnds ==
  /\ pc = "stopped"
  /\ ~raising
  /\ stopErrors = {}
  /\ state' = IF state = "FAULT" THEN "FAULT" ELSE "DISARMED"
  /\ Return
  /\ UNCHANGED <<sequence, stopErrors, op, raising, health, arms, hurt>>

(* The exception arrives in the caller: in run(), which faults unless that   *)
(* was done, or in the application.                                          *)

(* Mutant of Handle: run() leaves a failure of its callback to the caller. *)
HandleNothing == pc' = "idle" /\ scope' = "none" /\ UNCHANGED latch

Handle ==
  IF scope = "loop" /\ state # "FAULT"
  THEN Fault /\ scope' = "handler"
  ELSE pc' = "idle" /\ scope' = "none" /\ UNCHANGED latch

Arrives ==
  /\ pc = "raise"
  /\ Handle
  /\ UNCHANGED <<op, raising, health, arms, hurt>>

------------------------------------------------------------------------------
(* run(): observe, the callback, send, the sleep; until the duration is over.*)
DurationOver ==
  /\ pc \in {"loop", "targets"}
  /\ scope' = "finish"
  /\ Begin("stop", "stopLeft")
  /\ stopErrors' = {}
  /\ UNCHANGED <<state, sequence, bad, arms, hurt>>

(* Either may find that target_fn has stopped the arms and thereby disarmed  *)
(* the coordinator.                                                          *)
LoopCalls(m, at) ==
  /\ pc = at
  /\ sequence < MaxPairs
  /\ IF Armed
     THEN Begin(m, "left")
     ELSE op' = m /\ pc' = "raise" /\ raising' = TRUE /\ badSince' = bad
  /\ UNCHANGED <<latch, scope, bad, arms, hurt>>

RunObserves == LoopCalls("observe", "loop")

RunSends == LoopCalls("send", "targets")

TargetFnRaises ==
  /\ pc = "targets"
  /\ pc' = "raise"
  /\ raising' = TRUE
  /\ UNCHANGED <<latch, scope, op, health, arms, hurt>>

------------------------------------------------------------------------------
(* KeyboardInterrupt.  Only send() catches it, as long as it is sending; what *)
(* was being sent or stopped may have got through.                           *)
InSend == op = "send" /\ pc \in {"left", "right", "check", "sendLeft", "sendRight"}

(* Where it does harm: in _fault() and in the last stop of run(), on the way  *)
(* to either, and where a direct send() is about to count what it sent.      *)
Harm ==
  \/ pc \in {"stopLeft", "stopRight"} /\ (raising \/ scope = "finish")
  \/ pc = "catch" /\ scope = "none"
  \/ pc = "raise" /\ scope = "loop" /\ state # "FAULT"
  \/ pc \in {"count", "mark"} /\ scope = "none"

Interrupt ==
  /\ pc # "idle"
  /\ pc' = IF InSend THEN "catch"
           ELSE IF pc = "raise" /\ scope # "handler" THEN "idle" ELSE "raise"
  /\ scope' = IF pc = "raise" /\ scope # "handler" THEN "none" ELSE scope
  /\ raising' = TRUE
  /\ \/ UNCHANGED arms
     \/ \E a \in Arm : pc = Target(a) /\ Accepts(a)
     \/ \E a \in Arm : pc = Stopping(a) /\ stopTried' = stopTried \cup {a} /\ UNCHANGED holds
  /\ hurt' = (hurt \/ Harm)
  /\ UNCHANGED <<latch, op, health>>

------------------------------------------------------------------------------
Calls == CallArm \/ CallObserve \/ CallSend \/ CallStop \/ CallRun

Returns == ArmEnds \/ ObserveEnds \/ SendEnds \/ StopEnds

Steps ==
  \/ \E a \in Arm : Snapshot(a) \/ SendArm(a) \/ SendRaises(a) \/ StopArm(a)
  \/ CheckFails \/ SendsPair \/ Count
  \/ Catch \/ FaultEnds \/ StopFails \/ Arrives
  \/ DurationOver \/ RunObserves \/ RunSends \/ TargetFnRaises

Next ==
  \/ \E a \in Arm : Fails(a) \/ Recovers(a)
  \/ Calls
  \/ Returns
  \/ Steps
  \/ Interrupt

Spec == Init /\ [][Next]_vars

------------------------------------------------------------------------------
TypeOK ==
  /\ state \in {"DISARMED", "READY", "RUNNING", "FAULT"}
  /\ sequence \in 0 .. MaxPairs
  /\ stopErrors \subseteq Arm
  /\ scope \in {"none", "loop", "handler", "finish"}
  /\ op \in {"none", "arm", "observe", "send", "stop"}
  /\ pc \in {"idle", "left", "right", "check", "sendLeft", "sendRight", "count", "mark",
             "catch", "stopLeft", "stopRight", "stopped", "raise", "loop", "targets"}
  /\ raising \in BOOLEAN
  /\ bad \subseteq Arm /\ badSince \subseteq bad
  /\ holds \in [Arm -> 0 .. MaxPairs]
  /\ stopTried \subseteq Arm
  /\ hurt \in BOOLEAN

(* When the coordinator gives control back to the application and is not     *)
(* RUNNING, a stop was attempted on both arms since anything was sent to     *)
(* them: no path to FAULT, DISARMED or READY forgets an arm that may move.   *)
QuietUnlessRunning == pc = "idle" /\ ~hurt /\ state # "RUNNING" => stopTried = Arm

(* When it is RUNNING, both arms follow the pair that was counted last: none *)
(* is a pair ahead of the other.                                             *)
RunningIsPaired ==
  pc = "idle" /\ ~hurt /\ state = "RUNNING" => \A a \in Arm : holds[a] = sequence

(* Neither arm gets its target of a pair when one of the two has been        *)
(* failing ever since the pair was to be sent.                               *)
NoPairToFailedArm == pc \in {"sendLeft", "sendRight", "count"} => badSince = {}

(* Together: what the arms follow is one pair, sent to two arms that were    *)
(* well.                                                                     *)
PairsAreWhole == RunningIsPaired /\ NoPairToFailedArm

(* FAULT is left by arm() only, and not while an arm has been failing since. *)
FaultIsLatched ==
  [][state = "FAULT" /\ state' # "FAULT" =>
       op = "arm" /\ state' = "READY" /\ badSince = {}]_vars

(* run() does not end, however it ends, before a stop of both arms was       *)
(* attempted; only an interruption of the attempt itself keeps it from that. *)
RunStops == [][scope # "none" /\ scope' = "none" /\ ~hurt' => stopTried' = Arm]_vars

(* As the docstring of run() says: the paired stop is always attempted, on   *)
(* normal exit, callback failure, or interruption; here, that of the normal  *)
(* exit.                                                                     *)
RunAlwaysStops == [][scope = "finish" /\ scope' = "none" => stopTried' = Arm]_vars
==============================================================================
