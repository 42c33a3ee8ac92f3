---------------------------- MODULE StreamingProofs ----------------------------
(***************************************************************************)
(* Proofs about the two programs that stream targets to an arm or to two,  *)
(* DualArm and TrajectoryWorker.  They share no state.                     *)
(*                                                                         *)
(* DualArm, for any number of pairs: the coordinator leaves no arm moving  *)
(* that it does not know to be RUNNING, pairs are whole, FAULT is latched  *)
(* and run() ends with a stop.  The argument follows the exception: for    *)
(* each place of the thread the invariant names the debt (Owed) and who    *)
(* will still pay it, and how far one arm may be ahead.                    *)
(*                                                                         *)
(* TrajectoryWorker, for any period, capacity, poses, durations and times: *)
(* the plan stands and no command makes it jump.  The argument is about    *)
(* the plan a command leaves: it is the old one up to now, where a knot is *)
(* put into the segment that is under way, and a pose on the way to a pose *)
(* that is on the way is on the way (BetweenCut).                          *)
(***************************************************************************)
EXTENDS DualArm, TrajectoryWorker, FiniteSetTheorems, SequenceTheorems, TLAPS

------------------------------------------------------------------------------
(* The coordinator.                                                          *)
Checking == {"left", "right", "check"}
Sending == {"sendLeft", "sendRight", "count", "mark"}
Stops == {"stopLeft", "stopRight", "stopped"}

(* Which call the thread is in, and what the state is then.                  *)
Place ==
  /\ pc \in Checking =>
       op \in {"arm", "observe", "send"} /\ scope \in {"none", "loop"} /\ (op = "arm" => scope = "none")
  /\ pc \in Sending => op = "send" /\ scope \in {"none", "loop"}
  /\ pc \in Checking \cup Sending /\ op # "arm" => Armed
  /\ pc \in Checking /\ op = "arm" => state # "RUNNING"
  /\ pc = "catch" => scope \in {"none", "loop"}
  /\ pc \in {"loop", "targets"} => scope = "loop"
  /\ pc = "idle" => scope = "none"
  /\ pc \in {"catch", "raise"} => raising

(* What run() is doing: it faults only while it is being left.               *)
InRun ==
  /\ scope \in {"handler", "finish"} => pc \in Stops \cup {"raise"}
  /\ scope = "handler" => raising /\ state = "FAULT"
  /\ scope = "loop" /\ state = "FAULT" => raising /\ pc \in Stops \cup {"raise"}

(* Whoever may move will be stopped: the coordinator is RUNNING, or on its   *)
(* way there or to a stop.                                                   *)
Owed ==
  /\ pc = "stopRight" => "left" \in stopTried
  /\ pc = "stopped" => stopTried = Arm
  /\ ~hurt =>
       \/ stopTried = Arm
       \/ state = "RUNNING" /\ ~(pc = "raise" /\ scope = "finish")
       \/ pc \in {"sendRight", "count", "mark", "catch"}
       \/ pc \in {"stopLeft", "stopRight"} /\ (raising \/ scope # "none")
       \/ pc = "raise" /\ scope = "loop" /\ state # "FAULT"

(* Which pair the arms follow, and where one may be ahead of the other.      *)
Pairs ==
  /\ pc = "sendRight" => holds["left"] = sequence + 1
  /\ pc = "count" => \A a \in Arm : holds[a] = sequence + 1
  /\ pc = "count" => sequence < MaxPairs
  /\ pc \in {"sendLeft", "sendRight"} => sequence < MaxPairs
  /\ pc \in Checking /\ op = "send" => sequence < MaxPairs
  /\ pc = "mark" => \A a \in Arm : holds[a] = sequence
  /\ ~hurt /\ state = "RUNNING" =>
       \/ \A a \in Arm : holds[a] = sequence
       \/ pc \in {"sendRight", "count", "catch"}
       \/ pc = "raise" /\ scope = "loop"

(* Whom a pair may go to.                                                    *)
Healthy ==
  /\ pc = "right" => "left" \notin badSince
  /\ pc \in {"check", "sendLeft", "sendRight", "count"} => badSince = {}

Inv == TypeOK /\ Place /\ InRun /\ Owed /\ Pairs /\ Healthy

(* Every step keeps it. *)
LEMMA NextInvariant == Inv /\ [Next]_vars => Inv'
<1> SUFFICES ASSUME Inv, [Next]_vars PROVE Inv'
  OBVIOUS
<1> USE MaxPairsAssumption
<1> USE DEF Inv, TypeOK, Place, InRun, Owed, Pairs, Healthy, Arm, Armed, Checking, Sending, Stops,
            latch, call, health, arms
<1>1. ASSUME NEW a \in Arm, Fails(a) PROVE Inv'
  BY <1>1 DEF Fails
<1>2. ASSUME NEW a \in Arm, Recovers(a) PROVE Inv'
  BY <1>2 DEF Recovers
<1>3. ASSUME CallArm PROVE Inv'
  BY <1>3 DEF CallArm, Begin
<1>4. ASSUME CallObserve PROVE Inv'
  BY <1>4 DEF CallObserve, Begin
<1>5. ASSUME CallSend PROVE Inv'
  BY <1>5 DEF CallSend, Begin
<1>6. ASSUME CallStop PROVE Inv'
  BY <1>6 DEF CallStop, Begin
<1>7. ASSUME CallRun PROVE Inv'
  BY <1>7 DEF CallRun
<1>8. ASSUME ArmEnds PROVE Inv'
  BY <1>8 DEF ArmEnds, Return, Resumes
<1>9. ASSUME ObserveEnds PROVE Inv'
  BY <1>9 DEF ObserveEnds, Return, Resumes
<1>10. ASSUME SendEnds PROVE Inv'
  BY <1>10 DEF SendEnds, Return, Resumes
<1>11. ASSUME StopEnds PROVE Inv'
  BY <1>11 DEF StopEnds, Return, Resumes
<1>12. ASSUME NEW a \in Arm, Snapshot(a) PROVE Inv'
  <2>1. TypeOK'
    BY <1>12 DEF Snapshot, Raise
  <2>2. Place'
    BY <1>12 DEF Snapshot, Raise
  <2>3. InRun'
    BY <1>12 DEF Snapshot, Raise
  <2>4. Owed'
    BY <1>12 DEF Snapshot, Raise
  <2>5. Pairs'
    BY <1>12 DEF Snapshot, Raise
  <2>6. Healthy'
    BY <1>12 DEF Snapshot, Raise
  <2> QED BY <2>1, <2>2, <2>3, <2>4, <2>5, <2>6
<1>13. ASSUME NEW a \in Arm, SendArm(a) PROVE Inv'
  BY <1>13 DEF SendArm, Accepts, Target
<1>14. ASSUME NEW a \in Arm, SendRaises(a) PROVE Inv'
  BY <1>14 DEF SendRaises, Raise, Target
<1>15. ASSUME NEW a \in Arm, StopArm(a) PROVE Inv'
  <2>1. TypeOK'
    BY <1>15 DEF StopArm, Stopping
  <2>2. Place'
    BY <1>15 DEF StopArm, Stopping
  <2>3. InRun'
    BY <1>15 DEF StopArm, Stopping
  <2>4. Owed'
    <3>1. pc = "stopRight" => stopTried' = {"left", "right"}
      BY <1>15 DEF StopArm, Stopping
    <3>2. pc = "stopLeft" => "left" \in stopTried'
      BY <1>15 DEF StopArm, Stopping
    <3> QED BY <1>15, <3>1, <3>2 DEF StopArm, Stopping
  <2>5. Pairs'
    BY <1>15 DEF StopArm, Stopping
  <2>6. Healthy'
    BY <1>15 DEF StopArm, Stopping
  <2> QED BY <2>1, <2>2, <2>3, <2>4, <2>5, <2>6
<1>16. ASSUME CheckFails PROVE Inv'
  BY <1>16 DEF CheckFails, Raise
<1>17. ASSUME SendsPair PROVE Inv'
  BY <1>17 DEF SendsPair
<1>18. ASSUME Count PROVE Inv'
  BY <1>18 DEF Count
<1>19. ASSUME Catch PROVE Inv'
  BY <1>19 DEF Catch, Fault
<1>20. ASSUME FaultEnds PROVE Inv'
  BY <1>20 DEF FaultEnds
<1>21. ASSUME StopFails PROVE Inv'
  BY <1>21 DEF StopFails
<1>22. ASSUME Arrives PROVE Inv'
  BY <1>22, ZenonT(30) DEF Arrives, Handle, Fault
<1>23. ASSUME DurationOver PROVE Inv'
  BY <1>23 DEF DurationOver, Begin
<1>24. ASSUME RunObserves PROVE Inv'
  BY <1>24 DEF RunObserves, LoopCalls, Begin
<1>25. ASSUME RunSends PROVE Inv'
  BY <1>25 DEF RunSends, LoopCalls, Begin
<1>26. ASSUME TargetFnRaises PROVE Inv'
  BY <1>26 DEF TargetFnRaises
<1>27. ASSUME Interrupt PROVE Inv'
  <2>1. TypeOK'
    <3>1. holds' \in [Arm -> 0 .. MaxPairs] /\ stopTried' \subseteq Arm
      <4>1. CASE UNCHANGED arms
        BY <4>1
      <4>2. ASSUME NEW a \in Arm, pc = Target(a), Accepts(a)
            PROVE  holds' \in [Arm -> 0 .. MaxPairs] /\ stopTried' \subseteq Arm
        <5>1. sequence < MaxPairs
          BY <4>2 DEF Target
        <5> QED BY <4>2, <5>1 DEF Accepts
      <4>3. ASSUME NEW a \in Arm, stopTried' = stopTried \cup {a}, UNCHANGED holds
            PROVE  holds' \in [Arm -> 0 .. MaxPairs] /\ stopTried' \subseteq Arm
        BY <4>3
      <4> QED BY <1>27, <4>1, <4>2, <4>3 DEF Interrupt
    <3>2. hurt \in BOOLEAN /\ hurt' = (hurt \/ Harm)
      BY <1>27 DEF Interrupt
    <3>3. hurt' \in BOOLEAN
      BY <3>2
    <3> QED BY <1>27, <3>1, <3>3 DEF Interrupt, InSend
  <2>2. Place'
    BY <1>27 DEF Interrupt, InSend, Harm, Accepts, Target, Stopping
  <2>3. InRun'
    BY <1>27 DEF Interrupt, InSend, Harm, Accepts, Target, Stopping
  <2>4. Owed'
    BY <1>27, ZenonT(30) DEF Interrupt, InSend, Harm, Accepts, Target, Stopping
  <2>5. Pairs'
    BY <1>27, ZenonT(30) DEF Interrupt, InSend, Harm, Accepts, Target, Stopping
  <2>6. Healthy'
    BY <1>27 DEF Interrupt, InSend, Harm, Accepts, Target, Stopping
  <2> QED BY <2>1, <2>2, <2>3, <2>4, <2>5, <2>6
<1>28. CASE UNCHANGED vars
  BY <1>28 DEF vars
<1> QED BY <1>1, <1>2, <1>3, <1>4, <1>5, <1>6, <1>7, <1>8, <1>9, <1>10, <1>11, <1>12, <1>13, <1>14,
           <1>15, <1>16, <1>17, <1>18, <1>19, <1>20, <1>21, <1>22, <1>23, <1>24, <1>25, <1>26, <1>27,
           <1>28 DEF Next, Calls, Returns, Steps

(* The invariant holds at the start. *)
LEMMA InitInvariant == Init => Inv
<1> SUFFICES ASSUME Init PROVE Inv
  OBVIOUS
<1>1. holds = [a \in Arm |-> 0] /\ sequence = 0 /\ 0 \in 0 .. MaxPairs
  BY MaxPairsAssumption DEF Init
<1>2. holds \in [Arm -> 0 .. MaxPairs]
  BY <1>1
<1>3. pc = "idle" /\ state = "DISARMED" /\ scope = "none" /\ stopTried = Arm
  BY DEF Init
<1>4. TypeOK
  BY <1>1, <1>2 DEF Init, TypeOK
<1> QED BY <1>3, <1>4 DEF Inv, Place, InRun, Owed, Pairs, Healthy, Checking, Sending

(* So it holds always. *)
LEMMA Invariant == Spec => []Inv
BY InitInvariant, NextInvariant, PTL DEF Spec

(* Every state of the coordinator has the declared form.                     *)
THEOREM TypeCorrect == Spec => []TypeOK
<1>1. Inv => TypeOK
  BY DEF Inv
<1> QED BY <1>1, Invariant, PTL

(* For any number of pairs: when the application has control and the         *)
(* coordinator is not RUNNING, no arm is left that was sent a target and not *)
(* stopped since.                                                            *)
THEOREM QuietCorrect == Spec => []QuietUnlessRunning
<1>1. Inv => QuietUnlessRunning
  BY DEF Inv, Owed, QuietUnlessRunning
<1> QED BY <1>1, Invariant, PTL

(* For any number of pairs: both arms follow the pair counted last, and none *)
(* is sent to an arm that has been failing since the call.                   *)
THEOREM PairsCorrect == Spec => []PairsAreWhole
<1>1. Inv => PairsAreWhole
  BY DEF Inv, TypeOK, Pairs, Healthy, PairsAreWhole, RunningIsPaired, NoPairToFailedArm
<1> QED BY <1>1, Invariant, PTL

(* FAULT is left by arm() alone, once it has found both arms well.           *)
THEOREM FaultLatched == Spec => FaultIsLatched
<1> DEFINE Latched == state = "FAULT" /\ state' # "FAULT" =>
                        op = "arm" /\ state' = "READY" /\ badSince = {}
<1>1. Inv /\ [Next]_vars => [Latched]_vars
  <2> SUFFICES ASSUME Inv, Next, state = "FAULT", state' # "FAULT"
               PROVE  op = "arm" /\ state' = "READY" /\ badSince = {}
    OBVIOUS
  <2> USE DEF Inv, TypeOK, Place, Healthy, Armed, Checking, Sending, latch, call
  <2>1. CASE ArmEnds
    BY <2>1 DEF ArmEnds
  <2>2. CASE SendEnds
    BY <2>2 DEF SendEnds
  <2>3. CASE ~ArmEnds /\ ~SendEnds
    <3>1. ASSUME NEW a \in Arm, Fails(a) \/ Recovers(a) PROVE FALSE
      BY <3>1 DEF Fails, Recovers
    <3>2. ASSUME Calls PROVE FALSE
      BY <3>2 DEF Calls, CallArm, CallObserve, CallSend, CallStop, CallRun, Begin
    <3>3. ASSUME ObserveEnds \/ StopEnds \/ Interrupt PROVE FALSE
      BY <3>3 DEF ObserveEnds, StopEnds, Interrupt
    <3>4. ASSUME Steps PROVE FALSE
      BY <3>4 DEF Steps, Snapshot, SendArm, SendRaises, StopArm, CheckFails, SendsPair, Count, Catch,
         FaultEnds, StopFails, Arrives, Handle, Fault, DurationOver, RunObserves, RunSends, LoopCalls,
         TargetFnRaises, Begin, Accepts, Raise
    <3> QED BY <2>3, <3>1, <3>2, <3>3, <3>4 DEF Next, Returns
  <2> QED BY <2>1, <2>2, <2>3
<1> QED BY <1>1, Invariant, PTL DEF Spec, FaultIsLatched

(* run() does not end before a stop of both arms was attempted.              *)
THEOREM RunStopsCorrect == Spec => RunStops
<1> DEFINE Stopped == scope # "none" /\ scope' = "none" /\ ~hurt' => stopTried' = Arm
<1>1. Inv /\ [Next]_vars => [Stopped]_vars
  <2> SUFFICES ASSUME Inv, Next, scope # "none", scope' = "none", ~hurt'
               PROVE  stopTried' = Arm
    OBVIOUS
  <2> USE DEF Inv, TypeOK, Place, InRun, Owed, Checking, Sending, Stops, latch, call, arms
  <2>1. CASE Arrives
    BY <2>1 DEF Arrives, Handle, Fault
  <2>2. CASE Interrupt
    BY <2>2 DEF Interrupt, Harm, InSend, Target, Stopping
  <2>3. CASE Returns
    BY <2>3 DEF Returns, ArmEnds, ObserveEnds, SendEnds, StopEnds, Return
  <2>4. ASSUME NEW a \in Arm, Fails(a) \/ Recovers(a) PROVE FALSE
    BY <2>4 DEF Fails, Recovers
  <2>5. ASSUME Calls PROVE FALSE
    BY <2>5 DEF Calls, CallArm, CallObserve, CallSend, CallStop, CallRun, Begin
  <2>6. ASSUME Steps, ~Arrives PROVE FALSE
    BY <2>6 DEF Steps, Snapshot, SendArm, SendRaises, StopArm, CheckFails, SendsPair, Count, Catch,
       FaultEnds, StopFails, Fault, DurationOver, RunObserves, RunSends, LoopCalls, TargetFnRaises,
       Begin, Accepts, Raise
  <2> QED BY <2>1, <2>2, <2>3, <2>4, <2>5, <2>6 DEF Next
<1> QED BY <1>1, Invariant, PTL DEF Spec, RunStops

------------------------------------------------------------------------------
(* The poses of a plan.                                                      *)
Fraction == [n : Int, d : Nat \ {0}]

(* What is needed of integers.                                              *)
LEMMA Cancel ==
  ASSUME NEW x \in Int, NEW y \in Int, NEW z \in Int, z # 0, x * z = y * z
  PROVE  x = y
BY SMT

LEMMA Positive ==
  ASSUME NEW x \in Nat \ {0}, NEW y \in Nat \ {0}
  PROVE  x * y \in Nat \ {0}
BY SMT

LEMMA Divided ==
  ASSUME NEW a \in Int, NEW b \in Nat \ {0}, a % b = 0
  PROVE  a \div b \in Int /\ (a \div b) * b = a
BY SMT

LEMMA Later ==
  ASSUME NEW a \in Nat, NEW b \in Nat, a < b
  PROVE  b - a \in Nat \ {0}
BY SMT

(* Same is an equality, and Reduced changes nothing but the form.           *)
LEMMA SameTrans ==
  ASSUME NEW p \in Fraction, NEW q \in Fraction, NEW r \in Fraction, Same(p, q), Same(q, r)
  PROVE  Same(p, r)
<1> DEFINE a == p.n  b == p.d  c == q.n  d == q.d  e == r.n  f == r.d
<1>1. a \in Int /\ b \in Nat \ {0} /\ c \in Int /\ d \in Nat \ {0} /\ e \in Int /\ f \in Nat \ {0}
  BY DEF Fraction
<1>2. a * d = c * b /\ c * f = e * d
  BY DEF Same
<1> HIDE DEF a, b, c, d, e, f
<1>3. (a * f) * d = (e * b) * d
  <2>1. (a * f) * d = (a * d) * f
    BY <1>1
  <2>2. (a * d) * f = (c * f) * b
    BY <1>1, <1>2
  <2>3. (c * f) * b = (e * b) * d
    BY <1>1, <1>2
  <2> QED BY <2>1, <2>2, <2>3
<1>4. a * f = e * b
  BY <1>1, <1>3, Cancel
<1> QED BY <1>4 DEF Same, a, b, e, f

LEMMA ReducedSame ==
  ASSUME NEW p \in Fraction
  PROVE  Reduced(p) \in Fraction /\ Same(Reduced(p), p)
<1> DEFINE d == CHOOSE k \in 1 .. p.d : (p.n * k) % p.d = 0
<1>1. p.n \in Int /\ p.d \in Nat \ {0}
  BY DEF Fraction
<1>2. p.d \in 1 .. p.d /\ (p.n * p.d) % p.d = 0
  BY <1>1
<1>3. d \in 1 .. p.d /\ (p.n * d) % p.d = 0
  BY <1>2
<1>4. Reduced(p) = [n |-> (p.n * d) \div p.d, d |-> d]
  BY DEF Reduced
<1> HIDE DEF d
<1>5. (p.n * d) \div p.d \in Int /\ ((p.n * d) \div p.d) * p.d = p.n * d
  <2>1. p.n * d \in Int
    BY <1>1, <1>3
  <2> QED BY <1>1, <1>3, <2>1, Divided
<1> QED BY <1>1, <1>3, <1>4, <1>5 DEF Fraction, Same

LEMMA SameSym ==
  ASSUME NEW p, NEW q, Same(p, q)
  PROVE  Same(q, p)
BY DEF Same

LEMMA SameBoth ==
  ASSUME NEW p \in Fraction, NEW q \in Fraction, NEW r \in Fraction, Same(p, q), Same(r, q)
  PROVE  Same(p, r)
BY SameSym, SameTrans

(* The value of Between, whatever form it is reduced to.                    *)
LEMMA BetweenSame ==
  ASSUME NEW p \in Fraction, NEW q \in Fraction, NEW k \in Int, NEW m \in Nat \ {0}
  PROVE  /\ Between(p, q, k, m) \in Fraction
         /\ Same(Between(p, q, k, m), [n |-> p.n * q.d * (m - k) + q.n * p.d * k, d |-> p.d * q.d * m])
<1> DEFINE b == [n |-> p.n * q.d * (m - k) + q.n * p.d * k, d |-> p.d * q.d * m]
<1>1. p.n \in Int /\ p.d \in Nat \ {0} /\ q.n \in Int /\ q.d \in Nat \ {0}
  BY DEF Fraction
<1>2. b \in Fraction
  <2>1. p.d * q.d * m \in Nat \ {0}
    BY <1>1, Positive
  <2>2. p.n * q.d * (m - k) + q.n * p.d * k \in Int
    BY <1>1
  <2> QED BY <2>1, <2>2 DEF Fraction
<1>3. Between(p, q, k, m) = Reduced(b)
  BY DEF Between
<1> QED BY <1>2, <1>3, ReducedSame

(* How a pose is shown to be the one between two others.                     *)
LEMMA BetweenIs ==
  ASSUME NEW p \in Fraction, NEW q \in Fraction, NEW k \in Int, NEW m \in Nat \ {0}, NEW s \in Fraction,
         (p.n * q.d * (m - k) + q.n * p.d * k) * s.d = s.n * (p.d * q.d * m)
  PROVE  Same(Between(p, q, k, m), s)
<1> DEFINE b == [n |-> p.n * q.d * (m - k) + q.n * p.d * k, d |-> p.d * q.d * m]
<1>1. p.n \in Int /\ p.d \in Nat \ {0} /\ q.n \in Int /\ q.d \in Nat \ {0}
  BY DEF Fraction
<1>2. p.d * q.d * m \in Nat \ {0} /\ p.n * q.d * (m - k) + q.n * p.d * k \in Int
  BY <1>1, Positive
<1>3. b \in Fraction /\ Same(b, s)
  BY <1>2 DEF Fraction, Same
<1> QED BY <1>3, BetweenSame, SameTrans

(* The ends of a segment, and a segment that stays where it is.             *)
LEMMA BetweenEnds ==
  ASSUME NEW p \in Fraction, NEW q \in Fraction, NEW m \in Nat \ {0}
  PROVE  Same(Between(p, q, 0, m), p) /\ Same(Between(p, q, m, m), q)
<1>1. p.n \in Int /\ p.d \in Nat \ {0} /\ q.n \in Int /\ q.d \in Nat \ {0}
  BY DEF Fraction
<1>2. (p.n * q.d * (m - 0) + q.n * p.d * 0) * p.d = p.n * (p.d * q.d * m)
  BY <1>1
<1>3. (p.n * q.d * (m - m) + q.n * p.d * m) * q.d = q.n * (p.d * q.d * m)
  BY <1>1
<1> QED BY <1>2, <1>3, BetweenIs

LEMMA BetweenEqual ==
  ASSUME NEW p \in Fraction, NEW k \in Int, NEW m \in Nat \ {0}
  PROVE  Same(Between(p, p, k, m), p)
<1>1. p.n \in Int /\ p.d \in Nat \ {0}
  BY DEF Fraction
<1>2. (p.n * p.d * (m - k) + p.n * p.d * k) * p.d = p.n * (p.d * p.d * m)
  BY <1>1
<1> QED BY <1>2, BetweenIs

(* What lies on the way to a pose that lies on the way lies on the way.      *)
LEMMA BetweenCut ==
  ASSUME NEW p \in Fraction, NEW q \in Fraction, NEW s \in Fraction,
         NEW k \in Int, NEW r \in Nat \ {0}, NEW m \in Nat \ {0}, Same(s, Between(p, q, r, m))
  PROVE  Same(Between(p, s, k, r), Between(p, q, k, m))
<1> DEFINE a == p.n  b == p.d  c == q.n  e == q.d  f == s.n  g == s.d
           x == Between(p, s, k, r)
           y == Between(p, q, k, m)
           xn == x.n  xd == x.d  yn == y.n  yd == y.d
<1>1. /\ a \in Int /\ b \in Nat \ {0} /\ c \in Int /\ e \in Nat \ {0} /\ f \in Int /\ g \in Nat \ {0}
      /\ x \in Fraction /\ y \in Fraction
      /\ xn \in Int /\ xd \in Nat \ {0} /\ yn \in Int /\ yd \in Nat \ {0}
  <2>1. x \in Fraction /\ y \in Fraction
    BY BetweenSame
  <2> QED BY <2>1 DEF Fraction
<1>2. f * (b * e * m) = (a * e * (m - r) + c * b * r) * g
  <2> DEFINE z == [n |-> a * e * (m - r) + c * b * r, d |-> b * e * m]
  <2>1. b * e * m \in Nat \ {0} /\ a * e * (m - r) + c * b * r \in Int
    BY <1>1, Positive
  <2>2. z \in Fraction
    BY <2>1 DEF Fraction
  <2>3. Between(p, q, r, m) \in Fraction /\ Same(Between(p, q, r, m), z)
    BY BetweenSame
  <2>4. Same(s, z)
    BY <2>2, <2>3, SameTrans
  <2> QED BY <2>4 DEF Same
<1>3. /\ xn * (b * g * r) = (a * g * (r - k) + f * b * k) * xd
      /\ yn * (b * e * m) = (a * e * (m - k) + c * b * k) * yd
  BY BetweenSame DEF Same
<1> HIDE DEF a, b, c, e, f, g, x, y, xn, xd, yn, yd
<1>4. (a * g * (r - k) + f * b * k) * (e * m) = (g * r) * (a * e * (m - k) + c * b * k)
  <2>1. (f * b * k) * (e * m) = ((a * e * (m - r) + c * b * r) * g) * k
    <3>1. (f * b * k) * (e * m) = (f * (b * e * m)) * k
      BY <1>1
    <3> QED BY <1>2, <3>1
  <2>2. (a * g * (r - k)) * (e * m) + ((a * e * (m - r) + c * b * r) * g) * k
          = (g * r) * (a * e * (m - k) + c * b * k)
    BY <1>1
  <2>3. (a * g * (r - k) + f * b * k) * (e * m) = (a * g * (r - k)) * (e * m) + (f * b * k) * (e * m)
    BY <1>1
  <2> QED BY <2>1, <2>2, <2>3
<1>5. (xn * yd) * (b * g * r * (e * m)) = (yn * xd) * (b * g * r * (e * m))
  <2> DEFINE u == a * g * (r - k) + f * b * k
             v == a * e * (m - k) + c * b * k
  <2>1. u \in Int /\ v \in Int
    BY <1>1
  <2>2. xn * (b * g * r) = u * xd /\ yn * (b * e * m) = v * yd /\ u * (e * m) = (g * r) * v
    BY <1>3, <1>4
  <2> HIDE DEF u, v
  <2>3. (xn * yd) * (b * g * r * (e * m)) = (xn * (b * g * r)) * (yd * (e * m))
    BY <1>1
  <2>4. (u * xd) * (yd * (e * m)) = (u * (e * m)) * (xd * yd)
    BY <1>1, <2>1
  <2>5. ((g * r) * v) * (xd * yd) = (v * yd) * (xd * (g * r))
    BY <1>1, <2>1
  <2>6. (yn * (b * e * m)) * (xd * (g * r)) = (yn * xd) * (b * g * r * (e * m))
    BY <1>1
  <2> QED BY <2>2, <2>3, <2>4, <2>5, <2>6
<1>6. b * g * r * (e * m) \in Nat \ {0}
  BY <1>1, Positive
<1>7. xn * yd = yn * xd
  <2>1. xn * yd \in Int /\ yn * xd \in Int /\ b * g * r * (e * m) \in Int /\ b * g * r * (e * m) # 0
    BY <1>1, <1>6
  <2> QED BY <1>5, <2>1, Cancel
<1> QED BY <1>7 DEF Same, xn, xd, yn, yd, x, y

------------------------------------------------------------------------------
(* Plans.                                                                    *)
Knots == [t : Nat, p : Fraction]

(* A plan that stands: its times increase from each knot to any later one.   *)
Ordered(s) ==
  /\ s \in Seq(Knots)
  /\ \A i, j \in 1 .. Len(s) : i < j => s[i].t < s[j].t

(* Two facts in the form the proofs below use them.                         *)
LEMMA Interval ==
  ASSUME NEW n \in Nat
  PROVE  IsFiniteSet(1 .. n) /\ Cardinality(1 .. n) = n
<1>1. IsFiniteSet(1 .. n) /\ Cardinality(1 .. n) = IF 1 > n THEN 0 ELSE n - 1 + 1
  <2>1. \A a, b \in Int : IsFiniteSet(a .. b) /\ Cardinality(a .. b) = IF a > b THEN 0 ELSE b - a + 1
    BY FS_Interval
  <2>2. 1 \in Int /\ n \in Int
    OBVIOUS
  <2> QED BY <2>1, <2>2
<1> QED BY <1>1

LEMMA KnotFields ==
  ASSUME NEW k \in Knots
  PROVE  k.t \in Nat /\ k.p \in Fraction
BY DEF Knots

(* The knots before t are the first n.                                       *)
Before(s, t, n) ==
  /\ n \in 0 .. Len(s)
  /\ Past(s, t) = SubSeq(s, 1, n)
  /\ \A i \in 1 .. Len(s) : i <= n <=> s[i].t < t

LEMMA Split ==
  ASSUME NEW s, Ordered(s), NEW t \in Nat
  PROVE  \E n \in 0 .. Len(s) : Before(s, t, n)
<1> DEFINE before == {i \in 1 .. Len(s) : s[i].t < t}
           n == Cardinality(before)
<1>1. Len(s) \in Nat /\ \A i \in 1 .. Len(s) : s[i] \in Knots /\ s[i].t \in Nat
  BY KnotFields DEF Ordered
<1>2. IsFiniteSet(1 .. Len(s)) /\ Cardinality(1 .. Len(s)) = Len(s)
  BY <1>1, Interval
<1>3. IsFiniteSet(before) /\ n \in Nat /\ n <= Len(s)
  BY <1>2, FS_Subset, FS_CardinalityType
<1>4. ASSUME NEW i \in 1 .. Len(s), i <= n, ~(s[i].t < t) PROVE FALSE
  <2>1. before \subseteq 1 .. i - 1
    BY <1>1, <1>4 DEF Ordered
  <2>2. IsFiniteSet(1 .. i - 1) /\ Cardinality(1 .. i - 1) = i - 1
    BY <1>1, Interval
  <2>3. n <= i - 1
    BY <2>1, <2>2, FS_Subset
  <2> QED BY <1>1, <1>3, <1>4, <2>3
<1>5. ASSUME NEW i \in 1 .. Len(s), s[i].t < t, ~(i <= n) PROVE FALSE
  <2>1. 1 .. i \subseteq before
    BY <1>1, <1>5 DEF Ordered
  <2>2. IsFiniteSet(1 .. i) /\ Cardinality(1 .. i) = i
    BY <1>1, Interval
  <2>3. i <= n
    BY <1>3, <2>1, <2>2, FS_Subset
  <2> QED BY <1>5, <2>3
<1>6. Past(s, t) = SubSeq(s, 1, n)
  BY DEF Past
<1> HIDE DEF n
<1> QED BY <1>1, <1>3, <1>4, <1>5, <1>6 DEF Before

(* What At is before the first knot, behind the last, and in between.        *)
LEMMA AtFirst ==
  ASSUME NEW s, Ordered(s), s # <<>>, NEW u \in Nat, u <= s[1].t
  PROVE  At(s, u) = s[1].p
<1>1. /\ Len(s) \in Nat \ {0} /\ 1 \in 1 .. Len(s) /\ Len(s) \in 1 .. Len(s)
      /\ \A i \in 1 .. Len(s) : s[i].t \in Nat
  BY KnotFields DEF Ordered
<1>2. CASE Len(s) = 1
  BY <1>2 DEF At, LastKnot
<1>3. CASE Len(s) > 1
  <2>1. s[1].t < s[Len(s)].t
    BY <1>1, <1>3 DEF Ordered
  <2>2. ~(u >= LastKnot(s).t)
    BY <1>1, <2>1 DEF LastKnot
  <2> QED BY <2>2 DEF At
<1>4. Len(s) = 1 \/ Len(s) > 1
  <2> DEFINE n == Len(s)
  <2>1. n \in Nat \ {0}
    BY <1>1
  <2> HIDE DEF n
  <2>2. n = 1 \/ n > 1
    BY <2>1
  <2> QED BY <2>2 DEF n
<1> QED BY <1>2, <1>3, <1>4

LEMMA AtLast ==
  ASSUME NEW s, Ordered(s), s # <<>>, NEW u \in Nat, u >= LastKnot(s).t
  PROVE  At(s, u) = LastKnot(s).p
<1>1. /\ Len(s) \in Nat \ {0} /\ 1 \in 1 .. Len(s) /\ Len(s) \in 1 .. Len(s)
      /\ \A i \in 1 .. Len(s) : s[i].t \in Nat
  BY KnotFields DEF Ordered
<1>2. CASE Len(s) = 1
  BY <1>2 DEF At, LastKnot
<1>3. CASE Len(s) > 1
  <2>1. s[1].t < s[Len(s)].t
    BY <1>1, <1>3 DEF Ordered
  <2>2. ~(u <= s[1].t)
    BY <1>1, <2>1 DEF LastKnot
  <2> QED BY <2>2 DEF At
<1>4. Len(s) = 1 \/ Len(s) > 1
  <2> DEFINE n == Len(s)
  <2>1. n \in Nat \ {0}
    BY <1>1
  <2> HIDE DEF n
  <2>2. n = 1 \/ n > 1
    BY <2>1
  <2> QED BY <2>2 DEF n
<1> QED BY <1>2, <1>3, <1>4

LEMMA AtSegment ==
  ASSUME NEW s, Ordered(s), NEW u \in Nat, NEW i \in 1 .. Len(s) - 1, s[i].t <= u, u < s[i + 1].t
  PROVE  Same(At(s, u), Between(s[i].p, s[i + 1].p, u - s[i].t, s[i + 1].t - s[i].t))
<1>1. Len(s) \in Nat /\ \A j \in 1 .. Len(s) : s[j].t \in Nat /\ s[j].p \in Fraction
  BY KnotFields DEF Ordered
<1>2. /\ i \in 1 .. Len(s) /\ i + 1 \in 1 .. Len(s) /\ 1 \in 1 .. Len(s)
      /\ s[i + 1].t - s[i].t \in Nat \ {0}
  BY <1>1
<1>3. CASE u <= s[1].t
  <2>1. i = 1
    BY <1>1, <1>2, <1>3 DEF Ordered
  <2>2. u = s[i].t /\ u - s[i].t = 0
    BY <1>1, <1>2, <1>3, <2>1
  <2>3. At(s, u) = s[i].p
    BY <1>3, <2>1, AtFirst
  <2>4. Same(Between(s[i].p, s[i + 1].p, 0, s[i + 1].t - s[i].t), s[i].p)
    BY <1>1, <1>2, BetweenEnds
  <2> QED BY <2>2, <2>3, <2>4, SameSym
<1>4. CASE ~(u <= s[1].t)
  <2>1. ~(u >= LastKnot(s).t)
    <3>1. s[i + 1].t <= s[Len(s)].t
      BY <1>1, <1>2 DEF Ordered
    <3> QED BY <1>1, <1>2, <3>1 DEF LastKnot
  <2>2. \A j \in 1 .. Len(s) - 1 : s[j].t <= u /\ u < s[j + 1].t => j = i
    <3> SUFFICES ASSUME NEW j \in 1 .. Len(s) - 1, s[j].t <= u, u < s[j + 1].t PROVE j = i
      OBVIOUS
    <3>1. j \in 1 .. Len(s) /\ j + 1 \in 1 .. Len(s)
      BY <1>1
    <3>2. ~(j < i)
      <4>1. j < i => s[j + 1].t <= s[i].t
        BY <1>1, <1>2, <3>1, SMTT(30) DEF Ordered
      <4> QED BY <1>1, <1>2, <3>1, <4>1
    <3>3. ~(i < j)
      <4>1. i < j => s[i + 1].t <= s[j].t
        BY <1>1, <1>2, <3>1, SMTT(30) DEF Ordered
      <4> QED BY <1>1, <1>2, <3>1, <4>1, SMTT(30)
    <3> QED BY <3>2, <3>3
  <2>3. (CHOOSE j \in 1 .. Len(s) - 1 : s[j].t <= u /\ u < s[j + 1].t) = i
    BY <2>2
  <2>4. At(s, u) = Between(s[i].p, s[i + 1].p, u - s[i].t, s[i + 1].t - s[i].t)
    BY <1>4, <2>1, <2>3 DEF At
  <2>5. u - s[i].t \in Int
    BY <1>1, <1>2
  <2>6. Between(s[i].p, s[i + 1].p, u - s[i].t, s[i + 1].t - s[i].t) \in Fraction
    BY <1>1, <1>2, <2>5, BetweenSame
  <2> QED BY <2>4 DEF Same
<1> QED BY <1>3, <1>4

(* Whatever the time, one of the three applies.                              *)
LEMMA Somewhere ==
  ASSUME NEW s, Ordered(s), s # <<>>, NEW u \in Nat
  PROVE  \/ u <= s[1].t
         \/ u >= LastKnot(s).t
         \/ \E i \in 1 .. Len(s) - 1 : s[i].t <= u /\ u < s[i + 1].t
<1>1. Len(s) \in Nat \ {0} /\ \A i \in 1 .. Len(s) : s[i].t \in Nat
  BY KnotFields DEF Ordered
<1>2. PICK n \in 0 .. Len(s) : \A i \in 1 .. Len(s) : i <= n <=> s[i].t < u + 1
  <2>1. u + 1 \in Nat
    OBVIOUS
  <2> QED BY <2>1, Split DEF Before
<1>3. CASE n = 0
  BY <1>1, <1>2, <1>3
<1>4. CASE n = Len(s)
  BY <1>1, <1>2, <1>4 DEF LastKnot
<1>5. CASE n \in 1 .. Len(s) - 1
  BY <1>1, <1>2, <1>5
<1> QED BY <1>1, <1>3, <1>4, <1>5

(* A plan is a pose at any time, and passes through its knots.               *)
LEMMA AtType ==
  ASSUME NEW s, Ordered(s), s # <<>>, NEW u \in Nat
  PROVE  At(s, u) \in Fraction
<1>1. Len(s) \in Nat \ {0} /\ \A i \in 1 .. Len(s) : s[i].t \in Nat /\ s[i].p \in Fraction
  BY KnotFields DEF Ordered
<1>2. CASE u <= s[1].t
  BY <1>1, <1>2, AtFirst
<1>3. CASE u >= LastKnot(s).t
  BY <1>1, <1>3, AtLast DEF LastKnot
<1>4. CASE ~(u <= s[1].t) /\ ~(u >= LastKnot(s).t)
  <2> DEFINE i == CHOOSE j \in 1 .. Len(s) - 1 : s[j].t <= u /\ u < s[j + 1].t
  <2>1. i \in 1 .. Len(s) - 1 /\ s[i].t <= u /\ u < s[i + 1].t
    BY <1>4, Somewhere
  <2>2. At(s, u) = Between(s[i].p, s[i + 1].p, u - s[i].t, s[i + 1].t - s[i].t)
    BY <1>4 DEF At
  <2> HIDE DEF i
  <2>3. u - s[i].t \in Int /\ s[i + 1].t - s[i].t \in Nat \ {0} /\ s[i].p \in Fraction /\ s[i + 1].p \in Fraction
    BY <1>1, <2>1
  <2> QED BY <2>2, <2>3, BetweenSame
<1> QED BY <1>2, <1>3, <1>4

LEMMA AtKnot ==
  ASSUME NEW s, Ordered(s), NEW i \in 1 .. Len(s)
  PROVE  Same(At(s, s[i].t), s[i].p)
<1>1. Len(s) \in Nat \ {0} /\ s # <<>> /\ \A j \in 1 .. Len(s) : s[j].t \in Nat /\ s[j].p \in Fraction
  BY KnotFields DEF Ordered
<1>2. CASE i = Len(s)
  <2>1. At(s, s[i].t) = s[i].p
    BY <1>1, <1>2, AtLast DEF LastKnot
  <2> QED BY <2>1 DEF Same
<1>3. CASE i \in 1 .. Len(s) - 1
  <2> DEFINE m == s[i + 1].t - s[i].t
  <2>1. s[i].t \in Nat /\ s[i].t <= s[i].t /\ s[i].t < s[i + 1].t /\ s[i].t - s[i].t = 0
    BY <1>1, <1>3 DEF Ordered
  <2>2. m \in Nat \ {0} /\ 0 \in Int /\ s[i].p \in Fraction /\ s[i + 1].p \in Fraction
    BY <1>1, <1>3, <2>1
  <2>3. Same(At(s, s[i].t), Between(s[i].p, s[i + 1].p, 0, m))
    BY <1>3, <2>1, AtSegment
  <2> HIDE DEF m
  <2>4. Same(Between(s[i].p, s[i + 1].p, 0, m), s[i].p) /\ Between(s[i].p, s[i + 1].p, 0, m) \in Fraction
    BY <2>2, BetweenEnds, BetweenSame
  <2>5. At(s, s[i].t) \in Fraction
    BY <1>1, AtType
  <2> QED BY <2>2, <2>3, <2>4, <2>5, SameTrans
<1> QED BY <1>1, <1>2, <1>3

(* drive_to_waypoint() keeps the n knots before now, ...                     *)
LEMMA DriveToIs ==
  ASSUME NEW s, Ordered(s), s # <<>>, NEW p \in Fraction, NEW t \in Nat, NEW now \in Nat, t > now,
         NEW n, Before(s, now, n)
  PROVE  /\ DriveTo(s, p, t, now) \in Seq(Knots)
         /\ Len(DriveTo(s, p, t, now)) = n + 2
         /\ \A i \in 1 .. n : DriveTo(s, p, t, now)[i] = s[i]
         /\ DriveTo(s, p, t, now)[n + 1] = Knot(now, At(s, now))
         /\ DriveTo(s, p, t, now)[n + 2] = Knot(t, p)
         /\ Ordered(DriveTo(s, p, t, now))
<1> DEFINE past == SubSeq(s, 1, n)
           new == <<Knot(now, At(s, now)), Knot(t, p)>>
           d == past \o new
<1>1. /\ Len(s) \in Nat /\ s \in Seq(Knots) /\ \A i \in 1 .. Len(s) : s[i].t \in Nat
      /\ n \in 0 .. Len(s) /\ \A i \in 1 .. Len(s) : i <= n <=> s[i].t < now
  BY KnotFields DEF Ordered, Before
<1>2. past \in Seq(Knots) /\ Len(past) = n /\ \A i \in 1 .. n : past[i] = s[i]
  BY <1>1
<1>3. new \in Seq(Knots) /\ Len(new) = 2 /\ new[1] = Knot(now, At(s, now)) /\ new[2] = Knot(t, p)
  BY AtType DEF Knot, Knots
<1>4. DriveTo(s, p, t, now) = d
  BY <1>1 DEF DriveTo, Before
<1> HIDE DEF past, new
<1>5. /\ d \in Seq(Knots) /\ Len(d) = n + 2
      /\ \A i \in 1 .. n + 2 : d[i] = IF i <= n THEN past[i] ELSE new[i - n]
  <2>1. /\ d \in Seq(Knots) /\ Len(d) = Len(past) + Len(new)
        /\ \A i \in 1 .. Len(past) + Len(new) :
             d[i] = IF i <= Len(past) THEN past[i] ELSE new[i - Len(past)]
    BY <1>2, <1>3, ConcatProperties
  <2> HIDE DEF d
  <2> QED BY <1>2, <1>3, <2>1
<1> HIDE DEF d
<1>6. d \in Seq(Knots) /\ Len(d) = n + 2 /\ \A i \in 1 .. n : d[i] = s[i]
  BY <1>1, <1>2, <1>5
<1>7. \A k \in 1 .. 2 : d[n + k] = new[k]
  <2> SUFFICES ASSUME NEW k \in 1 .. 2 PROVE d[n + k] = new[k]
    OBVIOUS
  <2> DEFINE i == n + k
  <2>1. i \in 1 .. n + 2 /\ ~(i <= n) /\ i - n = k
    BY <1>1
  <2> HIDE DEF i
  <2>2. d[i] = IF i <= n THEN past[i] ELSE new[i - n]
    BY <1>5, <2>1
  <2>3. d[i] = new[i - n]
    BY <2>1, <2>2
  <2> QED BY <2>1, <2>3 DEF i
<1>8. d[n + 1] = Knot(now, At(s, now)) /\ d[n + 2] = Knot(t, p)
  BY <1>3, <1>7
<1>9. Ordered(d)
  <2> SUFFICES ASSUME NEW i \in 1 .. n + 2, NEW j \in 1 .. n + 2, i < j PROVE d[i].t < d[j].t
    BY <1>6 DEF Ordered
  <2>1. d[n + 1].t = now /\ d[n + 2].t = t
    BY <1>8 DEF Knot
  <2>2. CASE i <= n /\ j <= n
    <3>1. i \in 1 .. n /\ j \in 1 .. n /\ i \in 1 .. Len(s) /\ j \in 1 .. Len(s)
      BY <1>1, <2>2
    <3>2. s[i].t < s[j].t
      BY <3>1 DEF Ordered
    <3> QED BY <1>6, <3>1, <3>2
  <2>3. CASE i <= n /\ ~(j <= n)
    <3>1. i \in 1 .. n /\ i \in 1 .. Len(s) /\ j \in {n + 1, n + 2}
      BY <1>1, <2>3
    <3>2. d[i].t \in Nat /\ d[i].t < now
      BY <1>1, <1>6, <2>3, <3>1
    <3>3. d[j].t = now \/ d[j].t = t
      BY <2>1, <3>1
    <3> QED BY <3>2, <3>3
  <2>4. CASE ~(i <= n)
    <3>1. i = n + 1 /\ j = n + 2
      BY <1>1, <2>4
    <3> QED BY <2>1, <3>1
  <2> QED BY <2>2, <2>3, <2>4
<1> QED BY <1>4, <1>6, <1>8, <1>9

(* ... and where the plan is until now: the new segment starts where the     *)
(* plan is, and the one it cuts keeps its direction.                         *)
LEMMA DriveToKeeps ==
  ASSUME NEW s, Ordered(s), s # <<>>, NEW p \in Fraction, NEW t \in Nat, NEW now \in Nat, t > now,
         NEW u \in 0 .. now
  PROVE  Same(At(DriveTo(s, p, t, now), u), At(s, u))
<1> DEFINE d == DriveTo(s, p, t, now)
           q == At(s, now)
<1> SUFFICES Same(At(d, u), At(s, u))
  OBVIOUS
<1>1. /\ Len(s) \in Nat /\ 1 \in 1 .. Len(s) /\ u \in Nat
      /\ \A i \in 1 .. Len(s) : s[i].t \in Nat /\ s[i].p \in Fraction
  BY KnotFields DEF Ordered
<1>2. PICK n \in 0 .. Len(s) : Before(s, now, n)
  BY Split
<1>3. \A i \in 1 .. Len(s) : i <= n <=> s[i].t < now
  BY <1>2 DEF Before
<1>4. /\ d \in Seq(Knots) /\ Len(d) = n + 2 /\ \A i \in 1 .. n : d[i] = s[i]
      /\ d[n + 1] = Knot(now, q) /\ d[n + 2] = Knot(t, p) /\ Ordered(d)
  BY <1>2, DriveToIs
<1>5. d # <<>> /\ d[n + 1].t = now /\ d[n + 1].p = q /\ d[n + 2].t = t /\ d[n + 2].p = p
  BY <1>4 DEF Knot
<1> HIDE DEF d
<1>6. q \in Fraction /\ At(s, u) \in Fraction /\ At(d, u) \in Fraction
  BY <1>1, <1>4, <1>5, AtType
<1> HIDE DEF q
<1>7. CASE u = now
  <2>1. n + 1 \in 1 .. Len(d)
    BY <1>4
  <2>2. Same(At(d, d[n + 1].t), d[n + 1].p)
    BY <1>4, <2>1, AtKnot
  <2>3. At(s, u) = q
    BY <1>7 DEF q
  <2> QED BY <1>5, <1>7, <2>2, <2>3
<1>8. CASE u < now /\ u <= s[1].t
  <2>1. d[1].p = s[1].p /\ u <= d[1].t
    <3>1. CASE n = 0
      <4>1. ~(s[1].t < now)
        BY <1>1, <1>3, <3>1
      <4>2. now <= s[1].t
        BY <1>1, <4>1
      <4>3. q = s[1].p
        BY <4>2, AtFirst DEF q
      <4> QED BY <1>5, <1>8, <3>1, <4>3
    <3>2. CASE n # 0
      BY <1>4, <1>8, <3>2
    <3> QED BY <3>1, <3>2
  <2>2. At(d, u) = d[1].p /\ At(s, u) = s[1].p
    BY <1>1, <1>4, <1>5, <1>8, <2>1, AtFirst
  <2>3. At(d, u) = At(s, u)
    BY <2>1, <2>2
  <2> QED BY <2>3 DEF Same
<1>9. CASE u < now /\ ~(u <= s[1].t)
  <2>1. PICK i \in 1 .. n : s[i].t <= u /\ \A j \in 1 .. Len(s) : i < j => u < s[j].t
    <3>1. PICK i \in 0 .. Len(s) : \A j \in 1 .. Len(s) : j <= i <=> s[j].t < u + 1
      <4>1. u + 1 \in Nat
        BY <1>1
      <4> QED BY <4>1, Split DEF Before
    <3>2. i # 0
      BY <1>1, <1>9, <3>1
    <3>3. i \in 1 .. Len(s) /\ s[i].t <= u
      BY <1>1, <3>1, <3>2
    <3>4. i <= n
      BY <1>1, <1>3, <1>9, <3>3
    <3>5. \A j \in 1 .. Len(s) : i < j => u < s[j].t
      BY <1>1, <3>1
    <3> QED BY <3>3, <3>4, <3>5
  <2>2. i \in 1 .. Len(s) /\ d[i] = s[i] /\ s[i].t \in Nat /\ s[i].p \in Fraction /\ u - s[i].t \in Int
    BY <1>1, <1>4, <2>1
  <2>3. CASE i < n
    <3>1. i \in 1 .. Len(s) - 1 /\ i \in 1 .. Len(d) - 1 /\ i + 1 \in 1 .. n /\ i + 1 \in 1 .. Len(s)
      BY <1>1, <1>4, <2>1, <2>3
    <3>2. d[i + 1] = s[i + 1] /\ u < s[i + 1].t /\ s[i + 1].p \in Fraction /\ s[i + 1].t \in Nat
      BY <1>1, <1>4, <2>1, <3>1
    <3> DEFINE b == Between(s[i].p, s[i + 1].p, u - s[i].t, s[i + 1].t - s[i].t)
    <3>3. Same(At(s, u), b)
      BY <1>1, <2>1, <3>1, <3>2, AtSegment
    <3>4. Same(At(d, u), b)
      <4>1. Same(At(d, u), Between(d[i].p, d[i + 1].p, u - d[i].t, d[i + 1].t - d[i].t))
        BY <1>1, <1>4, <2>1, <2>2, <3>1, <3>2, AtSegment
      <4> QED BY <2>2, <3>2, <4>1
    <3>5. s[i + 1].t - s[i].t \in Nat \ {0}
      <4>1. s[i].t < s[i + 1].t
        BY <1>1, <2>1, <2>2, <3>2
      <4> QED BY <2>2, <3>2, <4>1, Later
    <3>6. b \in Fraction
      BY <2>2, <3>2, <3>5, BetweenSame
    <3> HIDE DEF b
    <3> QED BY <1>6, <3>3, <3>4, <3>6, SameBoth
  <2>4. CASE i = n
    <3> DEFINE r == now - s[i].t
               k == u - s[i].t
               x == Between(s[i].p, q, k, r)
    <3>1. r \in Nat \ {0} /\ k \in Int
      BY <1>1, <1>9, <2>1, <2>2
    <3>2. x \in Fraction
      BY <1>6, <2>2, <3>1, BetweenSame
    <3>3. Same(At(d, u), x)
      <4>1. i \in 1 .. Len(d) - 1 /\ d[i].t <= u /\ u < d[i + 1].t /\ d[i + 1].t = now /\ d[i + 1].p = q
        BY <1>4, <1>5, <1>9, <2>1, <2>2, <2>4
      <4>2. Same(At(d, u), Between(d[i].p, d[i + 1].p, u - d[i].t, d[i + 1].t - d[i].t))
        BY <1>1, <1>4, <4>1, AtSegment
      <4> QED BY <2>2, <4>1, <4>2
    <3>4. CASE n = Len(s)
      <4>1. s[i] = LastKnot(s) /\ u >= LastKnot(s).t /\ now >= LastKnot(s).t
        BY <1>1, <1>9, <2>1, <2>2, <2>4, <3>4 DEF LastKnot
      <4>2. At(s, u) = s[i].p /\ q = s[i].p
        BY <1>1, <4>1, AtLast DEF q
      <4> HIDE DEF r, k
      <4>3. Same(x, s[i].p)
        BY <2>2, <3>1, <4>2, BetweenEqual
      <4> HIDE DEF x
      <4>4. Same(At(d, u), s[i].p)
        BY <1>6, <2>2, <3>2, <3>3, <4>3, SameTrans
      <4> QED BY <4>2, <4>4
    <3>5. CASE n < Len(s)
      <4> DEFINE m == s[i + 1].t - s[i].t
                 y == Between(s[i].p, s[i + 1].p, k, m)
                 z == Between(s[i].p, s[i + 1].p, r, m)
      <4>1. i \in 1 .. Len(s) - 1 /\ i + 1 \in 1 .. Len(s) /\ ~(i + 1 <= n)
        BY <1>1, <2>1, <2>4, <3>5
      <4>2. s[i + 1].t \in Nat /\ s[i + 1].p \in Fraction /\ now <= s[i + 1].t
        BY <1>1, <1>3, <4>1
      <4>3. m \in Nat \ {0}
        <5>1. s[i].t < s[i + 1].t
          BY <1>1, <1>9, <2>1, <2>2, <4>2
        <5> QED BY <2>2, <4>2, <5>1, Later
      <4>4. Same(At(s, u), y)
        BY <1>1, <1>9, <2>1, <4>1, <4>2, AtSegment
      <4>5. Same(q, z)
        <5>1. CASE now < s[i + 1].t
          <6>1. s[i].t <= now
            BY <1>1, <1>9, <2>1, <2>2
          <6> QED BY <4>1, <5>1, <6>1, AtSegment DEF q
        <5>2. CASE now = s[i + 1].t
          <6>1. r = m
            BY <5>2
          <6>2. Same(q, s[i + 1].p)
            BY <4>1, <5>2, AtKnot DEF q
          <6> HIDE DEF r, m
          <6>3. z = Between(s[i].p, s[i + 1].p, m, m)
            BY <6>1
          <6>4. m \in Int
            BY <4>3
          <6>5. z \in Fraction /\ Same(z, s[i + 1].p)
            BY <2>2, <4>2, <4>3, <6>3, <6>4, BetweenEnds, BetweenSame
          <6> HIDE DEF z
          <6> QED BY <1>6, <4>2, <6>2, <6>5, SameBoth
        <5> QED BY <4>2, <5>1, <5>2
      <4> HIDE DEF r, k, m
      <4>6. Same(x, y) /\ y \in Fraction
        BY <1>6, <2>2, <3>1, <4>2, <4>3, <4>5, BetweenCut, BetweenSame
      <4> HIDE DEF x, y
      <4>7. Same(At(d, u), y)
        BY <1>6, <3>2, <3>3, <4>6, SameTrans
      <4> QED BY <1>6, <4>4, <4>6, <4>7, SameBoth
    <3> QED BY <1>1, <3>4, <3>5
  <2> QED BY <2>1, <2>3, <2>4
<1> QED BY <1>1, <1>7, <1>8, <1>9

------------------------------------------------------------------------------
(* The worker.                                                               *)
(* The plan holds something as soon as run() evaluates it, and its times    *)
(* increase.                                                                *)
PlanInvariant ==
  /\ WorkerTypeOK
  /\ Ordered(plan)
  /\ worker \in {"send", "take", "sleep"} => plan # <<>>

(* What knots and plans are made of.                                         *)
LEMMA KnotType ==
  ASSUME NEW t \in Nat, NEW p \in Fraction
  PROVE  Knot(t, p) \in Knots
BY DEF Knot, Knots

LEMMA PoseType ==
  ASSUME NEW n \in Int
  PROVE  Pose(n) \in Fraction
BY DEF Pose, Fraction

LEMMA FromPoseOrdered ==
  ASSUME NEW t \in Nat, NEW p \in Fraction
  PROVE  Ordered(FromPose(t, p)) /\ FromPose(t, p) # <<>>
<1>1. FromPose(t, p) \in Seq(Knots) /\ Len(FromPose(t, p)) = 1
  BY KnotType DEF FromPose
<1> QED BY <1>1 DEF Ordered

(* What a command other than a stop makes of a plan: it is led to the        *)
(* command's pose, at a time behind that from which the command counts.      *)
Due(c) ==
  CASE c.kind = "servoL" -> tNow + Dt + c.time
    [] OTHER -> IF c.time > tNow + Dt THEN c.time ELSE tNow + Dt + Gap

LEMMA ReplanIs ==
  ASSUME NEW c \in Command, c # Stop, tNow \in Nat, Replan(c)
  PROVE  /\ plan' = DriveTo(plan, Pose(c.to), Due(c), tNow + Dt)
         /\ Pose(c.to) \in Fraction
         /\ tNow + Dt \in Nat /\ Due(c) \in Nat /\ Due(c) > tNow + Dt
         /\ c.kind = "schedule" /\ c.time > tNow + Dt => Due(c) = c.time
<1> USE WorkerAssumption, GapAssumption
<1>1. tNow + Dt \in Nat
  OBVIOUS
<1>2. CASE c \in [kind : {"servoL"}, to : Goal, time : Duration]
  <2>1. c.kind = "servoL" /\ c.to \in Int /\ c.time \in Nat /\ c.time >= Dt
    BY <1>2
  <2>2. tNow + Dt + c.time \in Nat /\ tNow + Dt + c.time > tNow + Dt
    BY <1>1, <2>1
  <2> QED BY <1>1, <2>1, <2>2, PoseType DEF Replan, Due
<1>3. CASE c \in [kind : {"schedule"}, to : Goal, time : Time]
  <2>1. c.kind = "schedule" /\ c.to \in Int /\ c.time \in Nat
    BY <1>3
  <2>2. tNow + Dt + Gap \in Nat /\ tNow + Dt + Gap > tNow + Dt
    BY <1>1
  <2> QED BY <1>1, <2>1, <2>2, PoseType DEF Replan, Due, ScheduleAt
<1> QED BY <1>2, <1>3 DEF Command, Stop

(* So the plan stands, ends where the command asks and is unchanged until    *)
(* the command counts.                                                       *)
LEMMA ReplanOrdered ==
  ASSUME PlanInvariant, plan # <<>>, NEW c \in Command, c # Stop, Replan(c)
  PROVE  /\ Ordered(plan') /\ plan' # <<>>
         /\ LastKnot(plan') = Knot(Due(c), Pose(c.to))
         /\ \A t \in 0 .. tNow + Dt : Same(At(plan', t), At(plan, t))
<1>1. tNow \in Nat
  BY WorkerAssumption DEF PlanInvariant, WorkerTypeOK, Moment
<1> DEFINE now == tNow + Dt
           due == Due(c)
           p == Pose(c.to)
           d == DriveTo(plan, p, due, now)
<1>2. /\ plan' = d
      /\ p \in Fraction /\ now \in Nat /\ due \in Nat /\ due > now
  BY <1>1, ReplanIs
<1>3. Ordered(plan)
  BY DEF PlanInvariant
<1> HIDE DEF now, due, p
<1>4. PICK n \in 0 .. Len(plan) : Before(plan, now, n)
  BY <1>2, <1>3, Split
<1>5. Ordered(d) /\ Len(d) = n + 2 /\ d[n + 2] = Knot(due, p)
  BY <1>2, <1>3, <1>4, DriveToIs
<1>6. \A t \in 0 .. now : Same(At(d, t), At(plan, t))
  BY <1>2, <1>3, DriveToKeeps
<1> HIDE DEF d
<1>7. d # <<>> /\ LastKnot(d) = Knot(due, p)
  BY <1>4, <1>5 DEF LastKnot
<1> QED BY <1>2, <1>5, <1>6, <1>7 DEF now, due, p

(* The invariant holds at the start, ...                                     *)
LEMMA PlanInitial == WorkerInit => PlanInvariant
<1> SUFFICES ASSUME WorkerInit PROVE PlanInvariant
  OBVIOUS
<1> USE WorkerAssumption
<1>1. WorkerTypeOK
  <2>1. <<>> \in Seq(Command) /\ <<>> \in Seq([t : Nat, p : [n : Int, d : Nat \ {0}]]) /\ Len(<<>>) = 0
    OBVIOUS
  <2>2. 0 <= Capacity /\ 0 \in 0 .. MaxCalls /\ 0 \in Moment
    BY DEF Moment
  <2> QED BY <2>1, <2>2 DEF WorkerInit, WorkerTypeOK, Running
<1>2. Ordered(plan)
  BY DEF WorkerInit, Ordered
<1> QED BY <1>1, <1>2 DEF WorkerInit, PlanInvariant

(* ... every step keeps it, ...                                              *)
LEMMA PlanStep == PlanInvariant /\ [WorkerNext]_workerVars => PlanInvariant'
<1> SUFFICES ASSUME PlanInvariant, [WorkerNext]_workerVars PROVE PlanInvariant'
  OBVIOUS
<1> USE WorkerAssumption
<1> USE DEF WorkerTypeOK, Moment, Running, loop, PlanInvariant
<1>1. ASSUME UNCHANGED plan PROVE Ordered(plan)'
  BY <1>1 DEF Ordered
<1>2. ASSUME NEW c \in Command, Put(c) PROVE queue' \in Seq(Command) /\ Len(queue') <= Capacity /\ calls' \in 0 .. MaxCalls
  BY <1>2, SMTT(30) DEF Put
<1>3. ASSUME Tick PROVE PlanInvariant'
  BY <1>3, <1>1, SMTT(30) DEF Tick
<1>4. ASSUME Start PROVE PlanInvariant'
  BY <1>4, <1>1 DEF Start
<1>5. ASSUME StartReturns PROVE PlanInvariant'
  BY <1>5, <1>1 DEF StartReturns
<1>6. ASSUME StartRaises PROVE PlanInvariant'
  BY <1>6, <1>1 DEF StartRaises
<1>7. ASSUME Ask PROVE PlanInvariant'
  BY <1>7, <1>1, <1>2 DEF Ask
<1>8. ASSUME StopAsks PROVE PlanInvariant'
  <2>1. Stop \in Command
    BY DEF Stop, Command
  <2> QED BY <1>8, <1>1, <1>2, <2>1 DEF StopAsks
<1>9. ASSUME StopReturns PROVE PlanInvariant'
  BY <1>9, <1>1 DEF StopReturns
<1>10. ASSUME Exit PROVE PlanInvariant'
  BY <1>10, <1>1 DEF Exit
<1>11. ASSUME Connect PROVE PlanInvariant'
  BY <1>11, <1>1 DEF Connect
<1>12. ASSUME Anchor PROVE PlanInvariant'
  <2>1. clock \in Nat /\ Pose(0) \in Fraction
    BY PoseType
  <2>2. Ordered(plan)' /\ plan' # <<>> /\ plan' \in Seq(Knots)
    BY <1>12, <2>1, FromPoseOrdered DEF Anchor, Ordered
  <2> QED BY <1>12, <2>2 DEF Anchor, Knots, Fraction
<1>13. ASSUME Send PROVE PlanInvariant'
  BY <1>13, <1>1 DEF Send
<1>14. ASSUME CycleEnds PROVE tNext' \in Moment
  BY <1>14, SMTT(30) DEF CycleEnds
<1>15. ASSUME Take PROVE PlanInvariant'
  <2>1. Head(queue) \in Command /\ queue' \in Seq(Command) /\ Len(queue') <= Capacity
    BY <1>15, SMTT(30) DEF Take
  <2>2. Ordered(plan') /\ plan' # <<>> /\ plan' \in Seq(Knots) /\ going' \in BOOLEAN
    <3>1. CASE Head(queue) = Stop
      BY <1>15, <1>1, <3>1 DEF Take, Ordered
    <3>2. CASE Head(queue) # Stop
      BY <1>15, <2>1, <3>2, ReplanOrdered DEF Take, Ordered
    <3> QED BY <3>1, <3>2
  <2> QED BY <1>14, <1>15, <2>1, <2>2 DEF Take, CycleEnds, Knots, Fraction, Ordered
<1>16. ASSUME TakeNothing PROVE PlanInvariant'
  BY <1>14, <1>16, <1>1 DEF TakeNothing, CycleEnds
<1>17. ASSUME Wake PROVE PlanInvariant'
  BY <1>17, <1>1 DEF Wake
<1>18. ASSUME Raises PROVE PlanInvariant'
  BY <1>18, <1>1 DEF Raises
<1>19. ASSUME Finish PROVE PlanInvariant'
  BY <1>19, <1>1 DEF Finish
<1>20. ASSUME UNCHANGED workerVars PROVE PlanInvariant'
  BY <1>20, <1>1 DEF workerVars
<1> QED BY <1>3, <1>4, <1>5, <1>6, <1>7, <1>8, <1>9, <1>10, <1>11, <1>12, <1>13, <1>15, <1>16, <1>17, <1>18,
           <1>19, <1>20 DEF WorkerNext, Worker

(* ... so it holds always.                                                   *)
LEMMA PlanInductive == WorkerSpec => []PlanInvariant
BY PlanInitial, PlanStep, PTL DEF WorkerSpec

(* Every state of the worker, its queue and its plan has the declared form,  *)
(* and the queue never holds more than its capacity.                         *)
THEOREM WorkerTypeCorrect == WorkerSpec => []WorkerTypeOK
<1>1. PlanInvariant => WorkerTypeOK
  BY DEF PlanInvariant
<1> QED BY <1>1, PlanInductive, PTL

(* Whatever is commanded and whenever it is taken, run() never streams from  *)
(* an empty plan and the times of the plan increase.                         *)
THEOREM PlanStandsCorrect == WorkerSpec => []PlanStands
<1>1. PlanInvariant => PlanStands
  BY DEF PlanInvariant, PlanStands, Increasing, Ordered
<1> QED BY <1>1, PlanInductive, PTL

(* Whatever was commanded before, a command that is taken changes no pose of *)
(* the plan up to the time from which it counts, and the plan then ends at   *)
(* the pose it asks for, later than that and in time if it can be.           *)
THEOREM ReplansCorrect == WorkerSpec => ReplansFromNow
<1> DEFINE Replans ==
      queue' # queue /\ plan # <<>> /\ plan' # plan =>
        /\ \A t \in 0 .. tNow + Dt : Same(At(plan', t), At(plan, t))
        /\ LastKnot(plan').p = Pose(Head(queue).to)
        /\ LastKnot(plan').t > tNow + Dt
        /\ Head(queue).kind = "schedule" /\ Head(queue).time > tNow + Dt =>
             LastKnot(plan').t = Head(queue).time
<1>1. PlanInvariant /\ [WorkerNext]_workerVars => [Replans]_workerVars
  <2> SUFFICES ASSUME PlanInvariant, WorkerNext, queue' # queue, plan # <<>>, plan' # plan PROVE Replans
    OBVIOUS
  <2> DEFINE c == Head(queue)
  <2>1. Take
    BY DEF WorkerNext, Worker, Tick, Start, StartReturns, StartRaises, Ask, StopAsks, StopReturns, Exit, Raises,
           Connect, Anchor, Send, TakeNothing, Wake, Finish, loop
  <2>2. c \in Command /\ c # Stop /\ Replan(c)
    BY <2>1 DEF Take, PlanInvariant, WorkerTypeOK
  <2>3. tNow \in Nat
    BY WorkerAssumption DEF PlanInvariant, WorkerTypeOK, Moment
  <2>4. LastKnot(plan') = Knot(Due(c), Pose(c.to)) /\ \A t \in 0 .. tNow + Dt : Same(At(plan', t), At(plan, t))
    BY <2>2, ReplanOrdered
  <2>5. Due(c) > tNow + Dt /\ (c.kind = "schedule" /\ c.time > tNow + Dt => Due(c) = c.time)
    BY <2>2, <2>3, ReplanIs
  <2> QED BY <2>4, <2>5 DEF Knot
<1> QED BY <1>1, PlanInductive, PTL DEF WorkerSpec, ReplansFromNow
==============================================================================
