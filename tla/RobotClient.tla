---------------------------- MODULE RobotClient ----------------------------
(* Robot of fr3_stack/robot.py with what it talks to: the caches from which *)
(* every command is completed, the conflating command socket, the command   *)
(* in effect in the daemon, and the last state that was received.           *)
(*                                                                          *)
(* A setting is the name of what it came from: a profile, or the caller.    *)
(* The keyword arguments of a call are grouped: K stands for gains, filters *)
(* and switches, caps for contact thresholds.  Poses are Positions.         *)
EXTENDS Integers, Sequences, FiniteSets

CONSTANTS
    Positions,
    Horizon,     \* bound on the clock
    Latency,     \* a command leaves a connected socket in fewer instants
    Flush,       \* how long a program sleeps before it closes the socket
    MaxCalls,    \* bound on the calls of a caller
    None

ASSUME RobotClientAssumption ==
    /\ Horizon \in Nat /\ MaxCalls \in Nat
    /\ Latency \in Nat \ {0} /\ Flush \in Nat /\ Flush >= Latency
    /\ None \notin Nat

Axes == 1 .. 2                 \* stands for the six axes of a wrench
Profiles == {"base", "soft"}
Zero == [a \in Axes |-> 0]

VARIABLES
    cache,     \* _idle_cache, _cart_cache, ... by controller
    open,      \* the sockets exist
    sent,      \* the command handed to the socket last
    waiting,   \* for how long it has been there, None once it has left
    effect,    \* the daemon: controller and force in effect, or Ended
    err,       \* the daemon: lastError is set, for good
    sensor,    \* the daemon has a force sensor
    seen,      \* Robot._state
    now,       \* the clock, of which only differences are used
    calls      \* calls made by the caller

link == <<sent, waiting>>
daemon == <<effect, err, sensor>>

---------------------------------------------------------------------------
(* Settings in which those given replace or join the others. *)
Updated(settings, given) ==
    [k \in DOMAIN settings \union DOMAIN given |-> IF k \in DOMAIN given THEN given[k] ELSE settings[k]]

(* Selections of frankapy.  Tr lists the axes, those under force first.     *)

Ordered(axes) == CHOOSE s \in [1 .. Cardinality(axes) -> axes] : \A i, j \in DOMAIN s : i < j => s[i] < s[j]

SelectionToTr(forced) == [Tr |-> Ordered(forced) \o Ordered(Axes \ forced), n_af |-> Cardinality(forced)]

ForceToTr(forced, f) == [slot \in Axes |-> IF slot <= Cardinality(forced) THEN f[Ordered(forced)[slot]] ELSE 0]

ForceAxisToTr(axis, mag) ==
    Updated(SelectionToTr({axis}), [wrench |-> [slot \in Axes |-> IF slot = 1 THEN mag ELSE 0]])

(* The force a hybrid command asks for, axis by axis. *)
ForceOf(h) == [a \in Axes |-> IF \E slot \in 1 .. h.n_af : h.Tr[slot] = a
                              THEN h.wrench[CHOOSE slot \in 1 .. h.n_af : h.Tr[slot] = a] ELSE 0]

---------------------------------------------------------------------------
(* What a file of settings is flattened to.  Only two controllers have a    *)
(* second file.                                                             *)

FlatIdle(file)   == [K |-> file]
FlatCart(file)   == [K |-> file]
FlatJoint(file)  == [K |-> file]
FlatAdm(file)    == [K |-> file]
FlatHybrid(file) == [Tr |-> Ordered(Axes), n_af |-> 0, wrench |-> Zero, caps |-> file, K |-> file]

Controllers == {"idle", "cartesian_impedance", "joint_impedance", "admittance", "hybrid"}

Flattened(ctl, file) ==
    CASE ctl = "idle" -> FlatIdle(file)
      [] ctl = "cartesian_impedance" -> FlatCart(file)
      [] ctl = "joint_impedance" -> FlatJoint(file)
      [] ctl = "admittance" -> FlatAdm(file)
      [] ctl = "hybrid" -> FlatHybrid(file)

Loadable(ctl, file) == file = "base" \/ ctl \in {"cartesian_impedance", "hybrid"}

Unseen == [valid |-> FALSE, err |-> FALSE, pos |-> None, ft |-> FALSE]

Init ==
    /\ cache = [ctl \in Controllers |-> Flattened(ctl, "base")]
    /\ open = FALSE
    /\ sent = None /\ waiting = None
    /\ effect \in [mode : {"idle", "joint_impedance"}, force : {Zero}]
    /\ err = FALSE
    /\ sensor \in BOOLEAN
    /\ seen = Unseen
    /\ now = 0
    /\ calls = 0

---------------------------------------------------------------------------
(* set_profile() replaces a cache; keyword arguments given are stored in    *)
(* it, and stay.                                                            *)

Loaded(c, ctl, file) == IF file = None THEN c ELSE [c EXCEPT ![ctl] = Flattened(ctl, file)]

Stored(c, ctl, given) == [c EXCEPT ![ctl] = Updated(@, given)]

Command(ctl, pos, settings, termination) ==
    [mode |-> ctl, pos |-> pos, set |-> settings, termination |-> termination]

(* _send(): the socket keeps the newest command only. *)
Hand(command) == sent' = command /\ waiting' = 0

(* A call that changes the cache to c and sends its settings; without a     *)
(* connection it raises after the change.                                   *)
Call(c, ctl, pos, termination) ==
    /\ cache' = c
    /\ IF open THEN Hand(Command(ctl, pos, c[ctl], termination)) ELSE UNCHANGED link

SendIdle(profile, given, termination) ==
    Call(Stored(Loaded(cache, "idle", profile), "idle", given), "idle", None, termination)

Terminate == SendIdle(None, <<>>, TRUE)

SendCartesian(profile, given, pos) ==
    Call(Stored(Loaded(cache, "cartesian_impedance", profile), "cartesian_impedance", given), "cartesian_impedance", pos, FALSE)

SendJoint(profile, given, pos) ==
    Call(Stored(Loaded(cache, "joint_impedance", profile), "joint_impedance", given), "joint_impedance", pos, FALSE)

(* What is given to a move is used for that move only. *)
SendMoveTo(given, pos) ==
    /\ IF open THEN Hand(Command("move_to", pos, Updated(cache["cartesian_impedance"], given), FALSE)) ELSE UNCHANGED link
    /\ UNCHANGED cache

(* _require_ft_sensor() lets a call pass, as soon as a state has a wrench. *)
FtSensor(required) == required => seen.valid /\ seen.ft

SendAdmittance(profile, given, pos, required) ==
    /\ FtSensor(required)
    /\ Call(Stored(Loaded(cache, "admittance", profile), "admittance", given), "admittance", pos, FALSE)

(* n_af is looked at when everything has been stored. *)
SendHybrid(c, given, pos) ==
    LET h == Stored(c, "hybrid", given)
    IN  IF h["hybrid"].n_af \in 0 .. Cardinality(Axes) THEN Call(h, "hybrid", pos, FALSE)
                                                       ELSE cache' = h /\ UNCHANGED link

SendHybridForcePosition(profile, given, forced, f, pos) ==
    SendHybrid(Loaded(cache, "hybrid", profile),
               Updated(Updated(SelectionToTr(forced), [wrench |-> ForceToTr(forced, f)]), given), pos)

---------------------------------------------------------------------------
(* Connection, states and time.                                             *)

Connect == ~open /\ open' = TRUE /\ UNCHANGED <<cache, link, seen>>

(* close(): what has not left the socket is lost. *)
Close == open /\ open' = FALSE /\ waiting' = None /\ seen' = Unseen /\ UNCHANGED <<cache, sent>>

(* A command arrives and takes effect; a move is driven in Cartesian mode, *)
(* and a daemon that has ended does nothing any more.                       *)
Ended == [mode |-> "ended", force |-> Zero]

InEffect(command) ==
    IF command.termination \/ effect = Ended THEN Ended
    ELSE [mode |-> IF command.mode = "move_to" THEN "cartesian_impedance" ELSE command.mode,
          force |-> IF command.mode = "hybrid" THEN ForceOf(command.set) ELSE Zero]

Deliver ==
    /\ waiting # None
    /\ waiting' = None
    /\ effect' = InEffect(sent)
    /\ UNCHANGED <<sent, err, sensor, seen, cache, open, now, calls>>

(* The subscriber thread takes the newest state, with the arm anywhere; one *)
(* it cannot parse leaves the last one in place.                            *)
Receive ==
    /\ open
    /\ \E pos \in Positions :
         seen' = [valid |-> TRUE, err |-> err, pos |-> pos, ft |-> sensor]
    /\ UNCHANGED <<cache, open, link, daemon, now, calls>>

(* The contact limits of hybrid control trip, or the robot aborts control. *)
Fault ==
    /\ effect # Ended
    /\ err' = TRUE
    /\ \/ effect.mode = "hybrid" /\ effect' = [mode |-> "idle", force |-> Zero]
       \/ effect' = Ended
    /\ UNCHANGED <<sensor, cache, open, link, seen, now, calls>>

Tick ==
    /\ now < Horizon
    /\ waiting # None => waiting + 1 < Latency
    /\ now' = now + 1
    /\ waiting' = IF waiting = None THEN None ELSE waiting + 1
    /\ UNCHANGED <<cache, open, sent, daemon, seen, calls>>

TypeOK ==
    /\ \A ctl \in Controllers : DOMAIN cache[ctl] = DOMAIN Flattened(ctl, "base")
    /\ waiting \in 0 .. Latency - 1 \union {None}
=============================================================================
