------------------------------- MODULE Dispatch -------------------------------
(***************************************************************************)
(* The way of a motion command through the daemon (main.cpp): the client's *)
(* socket keeps only the newest, cmd_thread parses it and stores it in     *)
(* `pending` under pending_mu, and the 1 kHz callback of robot.control()   *)
(* takes it if it can try_lock, configures and selects a controller,       *)
(* drives its target by a generator or by the streaming interpolator, and  *)
(* gives up a hybrid controller whose contact limits are exceeded.         *)
(*                                                                         *)
(* A command stands for what distinguishes its handling; its target is     *)
(* named by the number n it was sent under.                                *)
(***************************************************************************)
EXTENDS Naturals

CONSTANTS
  Shape,       \* the commands clients send, without their numbers
  Initial,     \* --initial-controller
  MaxCommands, \* bound on the commands sent, for model checking
  None,        \* no message, no command, no generator, no target
  Plan,        \* a target on the trajectory of a generator
  Between      \* a target inside a segment of the stream

Kind == {"idle", "cart", "joint", "adm", "hybrid"}

ASSUME InitialAssumption == Initial \in Kind
ASSUME ShapeAssumption ==
  /\ Shape \subseteq [kind : Kind \cup {"bad"}, generator : BOOLEAN, lerp : BOOLEAN,
                      limited : BOOLEAN]
  /\ \A s \in Shape : (s.generator => s.kind = "cart") /\ (s.limited => s.kind = "hybrid")
ASSUME MaxCommandsAssumption == MaxCommands \in Nat

(* generator: a moveTo; lerp: linear_interp; limited: some threshold is set. *)
Command == [n : Nat, kind : Kind, generator : BOOLEAN, lerp : BOOLEAN, limited : BOOLEAN]

(* Command s, the n-th to be sent.                                           *)
Numbered(n, s) ==
  [n |-> n, kind |-> s.kind, generator |-> s.generator, lerp |-> s.lerp, limited |-> s.limited]

Message == {Numbered(n, s) : n \in 1 .. MaxCommands, s \in Shape}

ASSUME NoneAssumption ==
  {None, Plan, Between} \cap Nat = {} /\ None \notin Message \cup {Plan, Between}

VARIABLES
  wire,       \* the message in the conflating socket
  sent,       \* how many commands the client has sent
  cpc,        \* where cmd_thread is; it holds pending_mu at "store"
  inHand,     \* the command it has parsed
  pending,    \* pending
  dirty,      \* pending_dirty
  bootAnchor, \* boot_anchor_pending
  rpc,        \* where the callback is
  active,     \* active
  generator,  \* active_gen, named by its command
  limited,    \* hybrid_force_thresh or hybrid_torque_thresh is not zero
  interp,     \* stream_interp
  aim,        \* the target the active controller tracks
  over,       \* in this tick the wrench is above the limits of the command
  applied,    \* the command in effect
  received,   \* the newest command stored, for the properties only
  barrier     \* number of the last command after which a stream starts anew, likewise

client == <<wire, sent>>
receiver == <<cpc, inHand>>
mailbox == <<pending, dirty, bootAnchor, received>>
control == <<active, generator, limited, interp, applied, barrier>>
tick == <<rpc, aim, over>>
vars == <<client, receiver, mailbox, control, tick>>

(* What the daemon does before any command, and what a daemon started in     *)
(* another mode does with its first tick: the defaults of the configuration. *)
Start == [n |-> 0, kind |-> "idle", generator |-> FALSE, lerp |-> FALSE, limited |-> FALSE]
Anchor == [n |-> 0, kind |-> Initial, generator |-> FALSE, lerp |-> TRUE, limited |-> FALSE]

------------------------------------------------------------------------------
(* StreamingTargetInterpolator, up to where it is in its segment: between    *)
(* `from` and `latest`, at its very start when `fresh`, at its end when      *)
(* `settled`; `first` is the oldest target it has seen since it was reset.   *)
Unprimed == [primed |-> FALSE, first |-> 0, from |-> 0, latest |-> 0,
             fresh |-> FALSE, settled |-> FALSE]

(* Mutant of Pushed: the ends of the new segment are exchanged. *)
PushedSwapped(i, n) ==
  IF i.primed
  THEN [i EXCEPT !.from = n, !.latest = i.latest, !.fresh = TRUE, !.settled = FALSE]
  ELSE [primed |-> TRUE, first |-> n, from |-> n, latest |-> n,
        fresh |-> FALSE, settled |-> TRUE]

Pushed(i, n) ==
  IF i.primed
  THEN [i EXCEPT !.from = i.latest, !.latest = n, !.fresh = TRUE, !.settled = FALSE]
  ELSE [primed |-> TRUE, first |-> n, from |-> n, latest |-> n,
        fresh |-> FALSE, settled |-> TRUE]

(* Commands whose targets go through it.                                     *)
Streamed(c) == c.kind \in {"cart", "hybrid"} /\ c.lerp /\ ~c.generator

Init ==
  /\ wire = None
  /\ sent = 0
  /\ cpc = "recv"
  /\ inHand = None
  /\ pending = Start
  /\ dirty = FALSE
  /\ bootAnchor = (Initial # "idle")
  /\ rpc = "apply"
  /\ active = "idle"
  /\ generator = None
  /\ limited = FALSE
  /\ interp = Unprimed
  /\ aim = None
  /\ over = FALSE
  /\ applied = Start
  /\ received = None
  /\ barrier = 0

------------------------------------------------------------------------------
(* The client, and cmd_thread.                                               *)

(* Both ends of the socket are conflating: a message not yet received is     *)
(* replaced.                                                                 *)
Send(s) ==
  /\ sent < MaxCommands
  /\ sent' = sent + 1
  /\ wire' = Numbered(sent + 1, s)
  /\ UNCHANGED <<receiver, mailbox, control, tick>>

Receive ==
  /\ cpc = "recv"
  /\ wire # None
  /\ wire' = None
  /\ IF wire.kind = "bad"
     THEN UNCHANGED receiver
     ELSE inHand' = wire /\ cpc' = "lock"
  /\ UNCHANGED <<sent, mailbox, control, tick>>

LockPending ==
  /\ cpc = "lock"
  /\ cpc' = "store"
  /\ UNCHANGED <<client, inHand, mailbox, control, tick>>

(* Mutant of Store: the boot anchor is left pending. *)
StoreKeepingAnchor ==
  /\ cpc = "store"
  /\ pending' = inHand
  /\ received' = inHand
  /\ dirty' = TRUE
  /\ inHand' = None
  /\ cpc' = "recv"
  /\ UNCHANGED <<client, bootAnchor, control, tick>>

(* Mutant of Store: a command not yet taken keeps the newer one out. *)
StoreIfEmpty ==
  /\ cpc = "store"
  /\ pending' = IF dirty THEN pending ELSE inHand
  /\ received' = inHand
  /\ dirty' = TRUE
  /\ bootAnchor' = FALSE
  /\ inHand' = None
  /\ cpc' = "recv"
  /\ UNCHANGED <<client, control, tick>>

Store ==
  /\ cpc = "store"
  /\ pending' = inHand
  /\ received' = inHand
  /\ dirty' = TRUE
  /\ bootAnchor' = FALSE
  /\ inHand' = None
  /\ cpc' = "recv"
  /\ UNCHANGED <<client, control, tick>>

CmdThread == Receive \/ LockPending \/ Store

------------------------------------------------------------------------------
(* One tick of the callback, in three steps.  All but `pending` is its own.  *)

(* Configuring the controllers for command c, and selecting one.             *)
(* Mutant of InterpOf: a moveTo leaves the stream as it is. *)
InterpKeptByMove(c) ==
  IF Streamed(c) THEN Pushed(interp, c.n)
  ELSE IF c.kind \in {"cart", "hybrid"} /\ ~c.lerp THEN Unprimed
  ELSE interp

InterpOf(c) ==
  IF Streamed(c) THEN Pushed(interp, c.n)
  ELSE IF c.kind \in {"cart", "hybrid"} THEN Unprimed
  ELSE interp

(* Mutant of Select: a switch of controllers does not reset the stream. *)
SelectKeepingStream(c) ==
  /\ active' = c.kind
  /\ interp' = InterpOf(c)

Select(c) ==
  /\ active' = c.kind
  /\ interp' = IF c.kind = active THEN InterpOf(c) ELSE Unprimed

TransferGenerator(c) ==
  generator' = IF c.generator THEN c.n ELSE None

(* Mutant of SetLimits: a command that is not hybrid leaves them. *)
LimitsStay(c) ==
  limited' = IF c.kind = "hybrid" THEN c.limited ELSE limited

SetLimits(c) ==
  limited' = (c.kind = "hybrid" /\ c.limited)

Apply(c) ==
  /\ Select(c)
  /\ TransferGenerator(c)
  /\ SetLimits(c)
  /\ applied' = c
  /\ barrier' = IF c.kind = active /\ Streamed(c) THEN barrier ELSE c.n
  /\ dirty' = FALSE

(* The head of the tick: what is pending is taken, unless cmd_thread holds   *)
(* the lock; on the first tick of a daemon started in a mode, and before any *)
(* command, that is the hold on the live pose.                               *)
TakeAnchor ==
  /\ bootAnchor
  /\ ~dirty
  /\ bootAnchor' = FALSE
  /\ pending' = Anchor
  /\ Apply(Anchor)

TakePending ==
  /\ dirty
  /\ pending' = [pending EXCEPT !.generator = FALSE]
  /\ Apply(pending)
  /\ UNCHANGED bootAnchor

TakeNothing ==
  /\ ~dirty
  /\ ~bootAnchor
  /\ UNCHANGED <<pending, dirty, bootAnchor, control>>

Apply1 ==
  /\ rpc = "apply"
  /\ cpc # "store"
  /\ TakeAnchor \/ TakePending \/ TakeNothing
  /\ over' \in BOOLEAN
  /\ rpc' = "drive"
  /\ UNCHANGED <<client, receiver, received, aim>>

Contended ==
  /\ rpc = "apply"
  /\ cpc = "store"
  /\ over' \in BOOLEAN
  /\ rpc' = "drive"
  /\ UNCHANGED <<client, receiver, mailbox, control, aim>>

(* The target of this tick: from the generator, which is dropped when it     *)
(* finishes; ...                                                             *)
Moving == generator # None /\ active = "cart"

MoveRuns == Moving /\ aim' = Plan /\ UNCHANGED <<generator, interp>>

MoveEnds == Moving /\ aim' = generator /\ generator' = None /\ UNCHANGED interp

(* ... from the stream, which starts a segment where it is, ends it and then *)
(* holds; ...                                                                *)
Streaming ==
  ~Moving /\ active \in {"cart", "hybrid"} /\ applied.lerp /\ interp.primed

SegmentStarts ==
  /\ Streaming
  /\ interp.fresh
  /\ aim' \in {aim, interp.from, Between}
  /\ interp' = [interp EXCEPT !.fresh = FALSE]
  /\ UNCHANGED generator

SegmentRuns ==
  /\ Streaming
  /\ ~interp.fresh /\ ~interp.settled
  /\ aim' = Between
  /\ UNCHANGED <<generator, interp>>

SegmentEnds ==
  /\ Streaming
  /\ ~interp.fresh
  /\ aim' = interp.latest
  /\ interp' = [interp EXCEPT !.settled = TRUE]
  /\ UNCHANGED generator

(* ... or as the command gave it.                                            *)
AsConfigured ==
  /\ ~Moving /\ ~Streaming
  /\ aim' = IF active = "idle" THEN None ELSE applied.n
  /\ UNCHANGED <<generator, interp>>

Drive ==
  /\ rpc = "drive"
  /\ \/ MoveRuns
     \/ MoveEnds
     \/ SegmentStarts
     \/ SegmentRuns
     \/ SegmentEnds
     \/ AsConfigured
  /\ rpc' = "check"
  /\ UNCHANGED <<client, receiver, mailbox, active, limited, applied, barrier, over>>

(* The contact limits of hybrid: exceeded, the arm is left to gravity        *)
(* compensation before this tick's torque is computed.                       *)
Check ==
  /\ rpc = "check"
  /\ IF active = "hybrid" /\ limited /\ over
     THEN active' = "idle" /\ limited' = FALSE /\ aim' = None
     ELSE UNCHANGED <<active, limited, aim>>
  /\ rpc' = "compute"
  /\ UNCHANGED <<client, receiver, mailbox, generator, interp, applied, barrier, over>>

(* active->compute(), the recording and the return of the torque.            *)
Compute ==
  /\ rpc = "compute"
  /\ rpc' = "apply"
  /\ UNCHANGED <<client, receiver, mailbox, control, aim, over>>

RealTime == Apply1 \/ Contended \/ Drive \/ Check \/ Compute

Next ==
  \/ \E s \in Shape : Send(s)
  \/ CmdThread
  \/ RealTime

(* The threads keep running.  The callback finds pending_mu free in some     *)
(* tick: cmd_thread holds it for three assignments and is not in step with   *)
(* it.  A trajectory has a duration and a segment of the stream ends, both   *)
(* by the clock of the ticks.                                                *)
Fairness ==
  /\ WF_vars(CmdThread)
  /\ WF_vars(RealTime)
  /\ SF_vars(Apply1)
  /\ SF_vars(Drive /\ MoveEnds)
  /\ SF_vars(Drive /\ SegmentEnds)

Spec == Init /\ [][Next]_vars

FairSpec == Spec /\ Fairness

------------------------------------------------------------------------------
TypeOK ==
  /\ wire \in Message \cup {None}
  /\ sent \in 0 .. MaxCommands
  /\ cpc \in {"recv", "lock", "store"}
  /\ inHand \in (Message \cap Command) \cup {None}
  /\ pending \in Command
  /\ received \in (Message \cap Command) \cup {None}
  /\ dirty \in BOOLEAN /\ bootAnchor \in BOOLEAN
  /\ rpc \in {"apply", "drive", "check", "compute"}
  /\ active \in Kind
  /\ generator \in Nat \cup {None}
  /\ limited \in BOOLEAN
  /\ interp \in [primed : BOOLEAN, first : Nat, from : Nat, latest : Nat,
                 fresh : BOOLEAN, settled : BOOLEAN]
  /\ aim \in Nat \cup {None, Plan, Between}
  /\ over \in BOOLEAN
  /\ applied \in Command
  /\ barrier \in Nat

(* A trajectory runs only while it belongs to the command in effect: the     *)
(* next command, whatever its kind, ends it.                                 *)
MoveIsCurrent ==
  generator # None => active = "cart" /\ applied.generator /\ generator = applied.n

(* The contact limits watched are those of the command in effect, and none   *)
(* are left over by a hybrid command when another controller takes over.     *)
LimitsAreCurrent == limited = (active = "hybrid" /\ applied.limited)

(* No torque is computed by a hybrid controller in a tick in which the       *)
(* wrench exceeds the limits of the command in effect.                       *)
NoTorqueOverLimit == rpc = "compute" /\ over /\ active = "hybrid" => ~applied.limited

(* Together: contact limits neither outlive their command nor fail it.       *)
LimitsHold == LimitsAreCurrent /\ NoTorqueOverLimit

(* The stream a controller follows was sent to it since it was selected, and *)
(* since the last command that was not streamed.                             *)
StreamIsFresh ==
  active \in {"cart", "hybrid"} /\ interp.primed =>
    /\ barrier < interp.first
    /\ interp.first <= interp.from
    /\ interp.from <= interp.latest
    /\ interp.latest = applied.n

(* What the arm is drawn to is the target of the command in effect, or is on *)
(* its way there: it is never drawn back to where an earlier one had sent it.*)
NeverDrawnBack ==
  rpc \in {"check", "compute"} =>
    CASE active = "idle" -> aim = None
      [] active \in {"joint", "adm"} -> aim = applied.n
      [] OTHER -> \/ aim = applied.n
                  \/ aim = Plan /\ generator # None
                  \/ /\ aim = Between \/ aim \in barrier .. applied.n
                     /\ interp.primed /\ ~interp.settled

(* The inductive invariant from which the properties above follow: commands  *)
(* are handed on in the order in which they were sent, ...                   *)
InOrder ==
  /\ applied.n <= pending.n
  /\ pending.n <= sent
  /\ inHand # None => pending.n < inHand.n /\ inHand.n <= sent
  /\ wire # None => pending.n < wire.n /\ wire.n <= sent
  /\ inHand # None /\ wire # None => inHand.n < wire.n

(* ... `pending` holds what was received until it is taken, and the hold on  *)
(* the live pose is for a daemon to which nothing was sent.                  *)
PendingIsReceived ==
  /\ (inHand # None) = (cpc \in {"lock", "store"})
  /\ dirty => pending = received /\ applied.n < pending.n /\ ~bootAnchor
  /\ received # None => ~bootAnchor /\ received.n >= 1
  /\ received = None => applied \in {Start, Anchor} /\ ~dirty
  /\ bootAnchor => applied = Start /\ active = "idle" /\ Initial # "idle"

IInv ==
  /\ InOrder
  /\ PendingIsReceived
  /\ active = applied.kind \/ (active = "idle" /\ applied.kind = "hybrid" /\ applied.limited)
  /\ generator # None => generator = applied.n /\ applied.generator
  /\ applied.limited => applied.kind = "hybrid"
  /\ applied.generator => applied.kind = "cart"
  /\ barrier <= applied.n
  /\ MoveIsCurrent
  /\ LimitsAreCurrent
  /\ StreamIsFresh
  /\ NoTorqueOverLimit

(* What is in effect is the newest command, as CommandMailbox promises.      *)
Mailbox == INSTANCE CommandMailbox WITH
  Nothing <- None,
  Command <- Message,
  newest <- received,
  effect <- IF applied = Start THEN None ELSE applied

ImplementsMailbox == Mailbox!Spec

(* A command that was received takes effect, unless a newer one does.        *)
ReceivedTakesEffect ==
  \A n \in 1 .. MaxCommands :
    (received # None /\ received.n = n) ~> (applied.n >= n)

(* The target of the command in effect is reached, unless the command is     *)
(* superseded or given up: no trajectory and no stream goes on forever.      *)
TargetReached ==
  \A n \in 1 .. MaxCommands :
    (applied.n = n) ~> (aim = n \/ applied.n # n \/ active = "idle")

==============================================================================
