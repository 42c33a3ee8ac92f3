---------------------------- MODULE DispatchProofs ----------------------------
(***************************************************************************)
(* Proofs about Dispatch, for every set of commands and any number of      *)
(* them: the trajectory, the contact limits and the stream the callback    *)
(* works with are those of the command in effect, and what is in effect is *)
(* the newest command received when it was taken.  The argument is an      *)
(* order: every command in the pipeline is newer than the next one, so a   *)
(* number tells which of two is in effect, and a stream that was reset     *)
(* holds only numbers above the one at which it was reset.                 *)
(***************************************************************************)
EXTENDS Dispatch, TLAPS

LEMMA AnchorIsCommand ==
  /\ Start \in Command /\ Start.n = 0 /\ Start.kind = "idle" /\ ~Start.generator /\ ~Start.limited
  /\ Anchor \in Command /\ Anchor.n = 0 /\ Anchor.kind = Initial
  /\ ~Anchor.generator /\ ~Anchor.limited
  /\ Anchor # Start
BY InitialAssumption DEF Start, Anchor, Command, Kind

LEMMA MessageFields ==
  ASSUME NEW m \in Message
  PROVE  /\ m.n \in 1 .. MaxCommands
         /\ m.kind \in Kind \cup {"bad"}
         /\ m.generator \in BOOLEAN /\ m.lerp \in BOOLEAN /\ m.limited \in BOOLEAN
         /\ m.generator => m.kind = "cart"
         /\ m.limited => m.kind = "hybrid"
         /\ m.kind # "bad" => m \in Command
         /\ m # None
BY ShapeAssumption, MaxCommandsAssumption, NoneAssumption DEF Message, Numbered, Command, Kind

LEMMA NumberedIsMessage ==
  ASSUME NEW s \in Shape, NEW n \in 1 .. MaxCommands
  PROVE  Numbered(n, s) \in Message /\ Numbered(n, s).n = n
BY DEF Message, Numbered

(* What the invariant says of the callback's own state, apart from the order *)
(* of the commands.                                                          *)
ControlOK ==
  /\ active = applied.kind \/ (active = "idle" /\ applied.kind = "hybrid" /\ applied.limited)
  /\ generator # None => generator = applied.n /\ applied.generator
  /\ applied.limited => applied.kind = "hybrid"
  /\ applied.generator => applied.kind = "cart"
  /\ barrier <= applied.n
  /\ MoveIsCurrent
  /\ LimitsAreCurrent
  /\ StreamIsFresh

Inv == TypeOK /\ IInv

LEMMA InitInvariant == Init => Inv
<1> SUFFICES ASSUME Init PROVE Inv
  OBVIOUS
<1>1. Start \in Command /\ Start.n = 0 /\ Start.kind = "idle" /\ ~Start.generator /\ ~Start.limited
  BY AnchorIsCommand
<1>2. Unprimed \in [primed : BOOLEAN, first : Nat, from : Nat, latest : Nat,
                    fresh : BOOLEAN, settled : BOOLEAN] /\ ~Unprimed.primed
  BY DEF Unprimed
<1>3. bootAnchor \in BOOLEAN /\ (bootAnchor => Initial # "idle")
  BY DEF Init
<1>4. TypeOK
  <2>1. wire = None /\ inHand = None /\ received = None /\ generator = None /\ aim = None
    BY DEF Init
  <2>2. sent \in 0 .. MaxCommands /\ barrier \in Nat
    BY MaxCommandsAssumption DEF Init
  <2> QED BY <1>1, <1>2, <1>3, <2>1, <2>2 DEF Init, TypeOK, Kind
<1>5. InOrder
  BY <1>1 DEF Init, InOrder
<1>6. PendingIsReceived
  <2>1. inHand = None /\ cpc = "recv" /\ dirty = FALSE /\ received = None
        /\ applied = Start /\ active = "idle"
    BY DEF Init
  <2> QED BY <1>3, <2>1 DEF PendingIsReceived
<1>7. MoveIsCurrent /\ LimitsAreCurrent /\ StreamIsFresh /\ NoTorqueOverLimit
  BY <1>1, <1>2 DEF Init, MoveIsCurrent, LimitsAreCurrent, StreamIsFresh, NoTorqueOverLimit
<1>8. IInv
  BY <1>1, <1>5, <1>6, <1>7 DEF Init, IInv
<1> QED BY <1>4, <1>8 DEF Inv

(* Taking command c, newer than the one in effect or the very first, makes   *)
(* the callback's state that of c.                                           *)
LEMMA ApplyMakesCurrent ==
  ASSUME Inv, NEW c \in Command, Apply(c),
         c.generator => c.kind = "cart",
         c.limited => c.kind = "hybrid",
         applied.n < c.n \/ (applied.n <= c.n /\ c.kind # active)
  PROVE  /\ ControlOK'
         /\ applied' = c
         /\ active' \in Kind /\ generator' \in Nat \cup {None} /\ limited' \in BOOLEAN
         /\ interp' \in [primed : BOOLEAN, first : Nat, from : Nat, latest : Nat,
                         fresh : BOOLEAN, settled : BOOLEAN]
         /\ applied' \in Command /\ barrier' \in Nat /\ dirty' = FALSE
<1> USE DEF Inv
<1>1. /\ c.n \in Nat /\ c.kind \in Kind
      /\ c.generator \in BOOLEAN /\ c.lerp \in BOOLEAN /\ c.limited \in BOOLEAN
      /\ applied.n \in Nat /\ barrier \in Nat /\ barrier <= applied.n
  BY DEF Command, TypeOK, IInv
<1>2. /\ active' = c.kind
      /\ generator' = IF c.generator THEN c.n ELSE None
      /\ limited' = (c.kind = "hybrid" /\ c.limited)
      /\ applied' = c
      /\ barrier' = IF c.kind = active /\ Streamed(c) THEN barrier ELSE c.n
      /\ dirty' = FALSE
      /\ interp' = IF c.kind = active THEN InterpOf(c) ELSE Unprimed
  BY DEF Apply, Select, TransferGenerator, SetLimits
<1>3. Unprimed \in [primed : BOOLEAN, first : Nat, from : Nat, latest : Nat,
                    fresh : BOOLEAN, settled : BOOLEAN] /\ ~Unprimed.primed
  BY DEF Unprimed
<1>4. Pushed(interp, c.n) \in [primed : BOOLEAN, first : Nat, from : Nat, latest : Nat,
                               fresh : BOOLEAN, settled : BOOLEAN]
  BY <1>1 DEF Pushed, TypeOK
<1>5. interp' \in [primed : BOOLEAN, first : Nat, from : Nat, latest : Nat,
                   fresh : BOOLEAN, settled : BOOLEAN]
  BY <1>2, <1>3, <1>4 DEF InterpOf, TypeOK
<1>6. StreamIsFresh'
  <2> SUFFICES ASSUME c.kind \in {"cart", "hybrid"}, interp'.primed
               PROVE  /\ barrier' < interp'.first
                      /\ interp'.first <= interp'.from
                      /\ interp'.from <= interp'.latest
                      /\ interp'.latest = c.n
    BY <1>2 DEF StreamIsFresh
  <2>1. c.kind = active /\ Streamed(c) /\ interp' = Pushed(interp, c.n) /\ barrier' = barrier
    BY <1>2, <1>3 DEF InterpOf
  <2>2. applied.n < c.n
    BY <2>1
  <2>3. CASE interp.primed
    <3>1. /\ barrier < interp.first
          /\ interp.first <= interp.from
          /\ interp.from <= interp.latest
          /\ interp.latest = applied.n
      BY <2>1, <2>3 DEF IInv, StreamIsFresh
    <3>2. interp'.first = interp.first /\ interp'.from = interp.latest /\ interp'.latest = c.n
      BY <2>1, <2>3 DEF Pushed, TypeOK
    <3>3. interp.first \in Nat /\ interp.from \in Nat /\ interp.latest \in Nat
      BY DEF TypeOK
    <3> QED BY <1>1, <2>1, <2>2, <3>1, <3>2, <3>3
  <2>4. CASE ~interp.primed
    <3>1. interp'.first = c.n /\ interp'.from = c.n /\ interp'.latest = c.n
      BY <2>1, <2>4 DEF Pushed
    <3> QED BY <1>1, <2>1, <2>2, <3>1
  <2> QED BY <2>3, <2>4
<1>8. MoveIsCurrent' /\ LimitsAreCurrent'
  BY <1>1, <1>2 DEF MoveIsCurrent, LimitsAreCurrent
<1>9. barrier' \in Nat /\ barrier' <= applied'.n
  BY <1>1, <1>2
<1> QED
  BY <1>1, <1>2, <1>5, <1>6, <1>8, <1>9 DEF ControlOK

(* The client and cmd_thread do not touch the callback's own state.          *)
LEMMA ClientInvariant ==
  ASSUME Inv, NEW s \in Shape, Send(s)
  PROVE  Inv'
<1> USE DEF Inv
<1>1. sent + 1 \in 1 .. MaxCommands /\ sent \in Nat
  BY MaxCommandsAssumption DEF Send, TypeOK
<1>2. Numbered(sent + 1, s) \in Message /\ Numbered(sent + 1, s).n = sent + 1
  BY <1>1, NumberedIsMessage
<1>3. /\ sent' = sent + 1 /\ wire' = Numbered(sent + 1, s)
      /\ UNCHANGED <<receiver, mailbox, control, tick>>
  BY DEF Send
<1>4. TypeOK'
  BY <1>1, <1>2, <1>3 DEF TypeOK, receiver, mailbox, control, tick
<1>5. InOrder'
  <2>1. pending.n \in Nat /\ (inHand # None => inHand.n \in Nat)
    BY MessageFields DEF TypeOK, Command
  <2> QED BY <1>1, <1>2, <1>3, <2>1 DEF IInv, InOrder, receiver, mailbox, control
<1>6. PendingIsReceived'
  BY <1>3 DEF IInv, PendingIsReceived, receiver, mailbox, control
<1>7. IInv'
  BY <1>3, <1>5, <1>6
     DEF IInv, control, tick, MoveIsCurrent, LimitsAreCurrent, StreamIsFresh, NoTorqueOverLimit
<1> QED BY <1>4, <1>7

LEMMA CmdThreadInvariant ==
  ASSUME Inv, CmdThread
  PROVE  Inv'
<1> USE DEF Inv
<1>1. /\ wire # None => wire \in Message /\ wire.n \in Nat /\ wire # None
      /\ inHand # None => inHand \in Message \cap Command /\ inHand.n \in Nat /\ inHand.n >= 1
      /\ pending.n \in Nat /\ applied.n \in Nat
  BY MessageFields, MaxCommandsAssumption DEF TypeOK, Command
<1>2. UNCHANGED <<control, tick>>
  BY DEF CmdThread, Receive, LockPending, Store
<1>3. TypeOK' /\ InOrder' /\ PendingIsReceived'
  <2>1. CASE Receive
    <3>1. wire.kind # "bad" => wire \in Message \cap Command
      BY <1>1, <2>1, MessageFields DEF Receive
    <3>2. /\ cpc = "recv" /\ wire # None /\ wire' = None
          /\ UNCHANGED <<sent, mailbox, control, tick>>
          /\ \/ UNCHANGED receiver
             \/ wire.kind # "bad" /\ inHand' = wire /\ cpc' = "lock"
      BY <2>1 DEF Receive
    <3>3. TypeOK'
      BY <3>1, <3>2 DEF TypeOK, receiver, mailbox, control, tick
    <3>4. InOrder'
      BY <1>1, <3>2 DEF IInv, InOrder, receiver, mailbox, control
    <3>5. PendingIsReceived'
      BY <3>1, <3>2 DEF IInv, PendingIsReceived, receiver, mailbox, control
    <3> QED BY <3>3, <3>4, <3>5
  <2>2. CASE LockPending
    <3>1. TypeOK'
      BY <2>2 DEF LockPending, TypeOK, client, mailbox, control, tick
    <3>2. InOrder' /\ PendingIsReceived'
      BY <2>2 DEF LockPending, IInv, InOrder, PendingIsReceived, client, mailbox, control
    <3> QED BY <3>1, <3>2
  <2>3. CASE Store
    <3>1. /\ cpc = "store" /\ inHand # None /\ inHand \in Message \cap Command
          /\ pending' = inHand /\ received' = inHand /\ dirty' = TRUE
          /\ bootAnchor' = FALSE /\ inHand' = None /\ cpc' = "recv"
          /\ UNCHANGED <<client, control, tick>>
      BY <1>1, <2>3 DEF Store, IInv, PendingIsReceived
    <3>2. TypeOK'
      <4>1. /\ pending' \in Command /\ received' \in (Message \cap Command) \cup {None}
            /\ inHand' \in (Message \cap Command) \cup {None}
            /\ dirty' \in BOOLEAN /\ bootAnchor' \in BOOLEAN /\ cpc' \in {"recv", "lock", "store"}
        BY <3>1
      <4> QED BY <3>1, <4>1 DEF TypeOK, client, control, tick
    <3>3. applied.n < inHand.n
      BY <1>1, <3>1 DEF IInv, InOrder
    <3>4. InOrder'
      BY <1>1, <3>1, <3>3 DEF IInv, InOrder, client, control
    <3>5. PendingIsReceived'
      BY <1>1, <3>1, <3>3 DEF IInv, PendingIsReceived, client, control
    <3> QED BY <3>2, <3>4, <3>5
  <2> QED BY <2>1, <2>2, <2>3 DEF CmdThread
<1>4. IInv'
  BY <1>2, <1>3
     DEF IInv, control, tick, MoveIsCurrent, LimitsAreCurrent, StreamIsFresh, NoTorqueOverLimit
<1> QED BY <1>3, <1>4

(* The head of the tick: the live pose, or what was received, takes effect.  *)
LEMMA Apply1Invariant ==
  ASSUME Inv, Apply1
  PROVE  Inv'
<1> USE DEF Inv
<1>1. /\ over' \in BOOLEAN /\ rpc' = "drive"
      /\ UNCHANGED <<client, receiver, received, aim>>
      /\ TakeAnchor \/ TakePending \/ TakeNothing
  BY DEF Apply1
<1>2. /\ pending.n \in Nat /\ applied.n \in Nat
      /\ inHand # None => inHand.n \in Nat
      /\ wire # None => wire.n \in Nat
  BY MessageFields DEF TypeOK, Command
<1>3. NoTorqueOverLimit'
  BY <1>1 DEF NoTorqueOverLimit
<1>4. CASE TakeAnchor
  <2>1. /\ bootAnchor /\ ~dirty /\ bootAnchor' = FALSE /\ pending' = Anchor /\ Apply(Anchor)
        /\ applied = Start /\ active = "idle" /\ Initial # "idle" /\ received = None
    BY <1>4 DEF TakeAnchor, IInv, PendingIsReceived
  <2>2. /\ ControlOK' /\ applied' = Anchor
        /\ active' \in Kind /\ generator' \in Nat \cup {None} /\ limited' \in BOOLEAN
        /\ interp' \in [primed : BOOLEAN, first : Nat, from : Nat, latest : Nat,
                        fresh : BOOLEAN, settled : BOOLEAN]
        /\ applied' \in Command /\ barrier' \in Nat /\ dirty' = FALSE
    <3>1. /\ Anchor \in Command /\ Anchor.n = 0 /\ applied.n = 0 /\ Anchor.kind # active
          /\ ~Anchor.generator /\ ~Anchor.limited
      BY <2>1, AnchorIsCommand
    <3>2. PICK c \in Command : c = Anchor
      BY <3>1
    <3>3. /\ Apply(c)
          /\ c.generator => c.kind = "cart"
          /\ c.limited => c.kind = "hybrid"
          /\ applied.n <= c.n /\ c.kind # active
      BY <2>1, <3>1, <3>2
    <3> QED BY <3>2, <3>3, ApplyMakesCurrent
  <2>3. TypeOK'
    BY <1>1, <2>1, <2>2, AnchorIsCommand DEF TypeOK, client, receiver
  <2>4. InOrder'
    <3>1. sent \in Nat /\ Anchor.n = 0
      BY MaxCommandsAssumption, AnchorIsCommand DEF TypeOK
    <3>2. applied'.n = 0 /\ pending'.n = 0 /\ pending.n >= 0
      BY <1>2, <2>1, <2>2, <3>1
    <3> QED BY <1>1, <1>2, <3>1, <3>2 DEF IInv, InOrder, client, receiver
  <2>5. PendingIsReceived'
    BY <1>1, <2>1, <2>2 DEF IInv, PendingIsReceived, client, receiver
  <2> QED BY <1>3, <2>2, <2>3, <2>4, <2>5 DEF IInv, ControlOK
<1>5. CASE TakePending
  <2>1. /\ dirty /\ bootAnchor' = bootAnchor /\ ~bootAnchor /\ Apply(pending)
        /\ pending' = [pending EXCEPT !.generator = FALSE]
        /\ pending = received /\ received # None /\ applied.n < pending.n
    BY <1>5 DEF TakePending, IInv, PendingIsReceived
  <2>2. pending \in Message /\ pending \in Command
    BY <2>1 DEF TypeOK
  <2>3. (pending.generator => pending.kind = "cart") /\ (pending.limited => pending.kind = "hybrid")
    BY <2>2, MessageFields
  <2>4. /\ ControlOK' /\ applied' = pending
        /\ active' \in Kind /\ generator' \in Nat \cup {None} /\ limited' \in BOOLEAN
        /\ interp' \in [primed : BOOLEAN, first : Nat, from : Nat, latest : Nat,
                        fresh : BOOLEAN, settled : BOOLEAN]
        /\ applied' \in Command /\ barrier' \in Nat /\ dirty' = FALSE
    BY <2>1, <2>2, <2>3, ApplyMakesCurrent
  <2>5. pending' \in Command /\ pending'.n = pending.n
    BY <2>1, <2>2 DEF Command
  <2>6. TypeOK'
    BY <1>1, <2>1, <2>4, <2>5 DEF TypeOK, client, receiver
  <2>7. InOrder'
    BY <1>1, <1>2, <2>4, <2>5 DEF IInv, InOrder, client, receiver
  <2>8. PendingIsReceived'
    BY <1>1, <2>1, <2>4 DEF IInv, PendingIsReceived, client, receiver
  <2> QED BY <1>3, <2>4, <2>6, <2>7, <2>8 DEF IInv, ControlOK
<1>6. CASE TakeNothing
  <2>1. UNCHANGED <<pending, dirty, bootAnchor, control>>
    BY <1>6 DEF TakeNothing
  <2>2. TypeOK'
    BY <1>1, <2>1 DEF TypeOK, client, receiver, control
  <2>3. InOrder' /\ PendingIsReceived'
    BY <1>1, <2>1 DEF IInv, InOrder, PendingIsReceived, client, receiver, control
  <2> QED
    BY <1>3, <2>1, <2>2, <2>3
       DEF IInv, control, MoveIsCurrent, LimitsAreCurrent, StreamIsFresh
<1> QED BY <1>1, <1>4, <1>5, <1>6

(* The other steps of the tick.                                              *)
LEMMA DriveInvariant ==
  ASSUME Inv, Drive
  PROVE  Inv'
<1> USE DEF Inv
<1>1. /\ rpc = "drive" /\ rpc' = "check"
      /\ UNCHANGED <<client, receiver, mailbox, active, limited, applied, barrier, over>>
  BY DEF Drive
<1>2. /\ aim' \in Nat \cup {None, Plan, Between}
      /\ generator' \in {generator, None}
      /\ interp' \in [primed : BOOLEAN, first : Nat, from : Nat, latest : Nat,
                      fresh : BOOLEAN, settled : BOOLEAN]
      /\ interp'.primed = interp.primed /\ interp'.first = interp.first
      /\ interp'.from = interp.from /\ interp'.latest = interp.latest
  <2> USE DEF TypeOK
  <2>1. applied.n \in Nat
    BY DEF Command
  <2>2. CASE MoveRuns
    BY <2>2 DEF MoveRuns
  <2>3. CASE MoveEnds
    BY <2>3 DEF MoveEnds, Moving
  <2>4. CASE SegmentStarts
    BY <2>4 DEF SegmentStarts
  <2>5. CASE SegmentRuns
    BY <2>5 DEF SegmentRuns
  <2>6. CASE SegmentEnds
    BY <2>6 DEF SegmentEnds
  <2>7. CASE AsConfigured
    BY <2>1, <2>7 DEF AsConfigured
  <2> QED BY <2>2, <2>3, <2>4, <2>5, <2>6, <2>7 DEF Drive
<1>3. TypeOK'
  BY <1>1, <1>2 DEF TypeOK, client, receiver, mailbox
<1>4. InOrder' /\ PendingIsReceived'
  BY <1>1 DEF IInv, InOrder, PendingIsReceived, client, receiver, mailbox
<1>5. MoveIsCurrent' /\ LimitsAreCurrent' /\ StreamIsFresh' /\ NoTorqueOverLimit'
  BY <1>1, <1>2
     DEF IInv, MoveIsCurrent, LimitsAreCurrent, StreamIsFresh, NoTorqueOverLimit
<1> QED BY <1>1, <1>2, <1>3, <1>4, <1>5 DEF IInv

LEMMA CheckInvariant ==
  ASSUME Inv, Check
  PROVE  Inv'
<1> USE DEF Inv
<1>1. /\ rpc = "check" /\ rpc' = "compute"
      /\ UNCHANGED <<client, receiver, mailbox, generator, interp, applied, barrier, over>>
  BY DEF Check
<1>2. \/ /\ active = "hybrid" /\ limited /\ over
         /\ active' = "idle" /\ limited' = FALSE /\ aim' = None
      \/ /\ ~(active = "hybrid" /\ limited /\ over)
         /\ UNCHANGED <<active, limited, aim>>
  BY DEF Check
<1>3. TypeOK'
  <2>1. active' \in Kind /\ limited' \in BOOLEAN /\ aim' \in Nat \cup {None, Plan, Between}
    BY <1>2 DEF TypeOK, Kind
  <2> QED BY <1>1, <2>1 DEF TypeOK, client, receiver, mailbox
<1>4. InOrder'
  BY <1>1 DEF IInv, InOrder, client, receiver, mailbox
<1>5. PendingIsReceived'
  BY <1>1, <1>2 DEF IInv, PendingIsReceived, client, receiver, mailbox
<1>6. /\ MoveIsCurrent' /\ LimitsAreCurrent' /\ StreamIsFresh' /\ NoTorqueOverLimit'
      /\ active' = applied'.kind
           \/ (active' = "idle" /\ applied'.kind = "hybrid" /\ applied'.limited)
  BY <1>1, <1>2
     DEF IInv, MoveIsCurrent, LimitsAreCurrent, StreamIsFresh, NoTorqueOverLimit
<1> QED BY <1>1, <1>3, <1>4, <1>5, <1>6 DEF IInv

LEMMA QuietStepInvariant ==
  ASSUME Inv, Contended \/ Compute \/ UNCHANGED vars
  PROVE  Inv'
<1> USE DEF Inv
<1>1. /\ UNCHANGED <<client, receiver, mailbox, control, aim>>
      /\ \/ rpc' = "drive" /\ over' \in BOOLEAN
         \/ rpc' \in {rpc, "apply"} /\ over' = over
  <2>1. CASE Contended
    BY <2>1 DEF Contended
  <2>2. CASE Compute
    BY <2>2 DEF Compute
  <2>3. CASE UNCHANGED vars
    BY <2>3 DEF vars, tick
  <2> QED BY <2>1, <2>2, <2>3
<1>2. TypeOK'
  BY <1>1 DEF TypeOK, client, receiver, mailbox, control
<1>3. InOrder' /\ PendingIsReceived'
  BY <1>1 DEF IInv, InOrder, PendingIsReceived, client, receiver, mailbox, control
<1>4. MoveIsCurrent' /\ LimitsAreCurrent' /\ StreamIsFresh' /\ NoTorqueOverLimit'
  BY <1>1
     DEF IInv, MoveIsCurrent, LimitsAreCurrent, StreamIsFresh, NoTorqueOverLimit, control
<1> QED BY <1>1, <1>2, <1>3, <1>4 DEF IInv, control

LEMMA StepInvariant == Inv /\ [Next]_vars => Inv'
<1> SUFFICES ASSUME Inv, [Next]_vars PROVE Inv'
  OBVIOUS
<1> QED
  BY ClientInvariant, CmdThreadInvariant, Apply1Invariant, DriveInvariant, CheckInvariant,
     QuietStepInvariant DEF Next, RealTime

LEMMA InvariantAlways == Spec => []Inv
BY InitInvariant, StepInvariant, PTL DEF Spec

(* Every variable keeps its type, for any set of commands.                   *)
THEOREM TypeCorrect == Spec => []TypeOK
<1>1. Inv => TypeOK
  BY DEF Inv
<1> QED BY <1>1, InvariantAlways, PTL

(* A trajectory ends with the command it belongs to.                         *)
THEOREM MoveStaysCurrent == Spec => []MoveIsCurrent
<1>1. Inv => MoveIsCurrent
  BY DEF Inv, IInv
<1> QED BY <1>1, InvariantAlways, PTL

(* Contact limits are never left over from an earlier command, ...           *)
THEOREM LimitsStayCurrent == Spec => []LimitsAreCurrent
<1>1. Inv => LimitsAreCurrent
  BY DEF Inv, IInv
<1> QED BY <1>1, InvariantAlways, PTL

(* ... and are enforced in the tick in which they are exceeded.              *)
THEOREM LimitsEnforced == Spec => []NoTorqueOverLimit
<1>1. Inv => NoTorqueOverLimit
  BY DEF Inv, IInv
<1> QED BY <1>1, InvariantAlways, PTL

(* Both, as the run checks them.                                             *)
THEOREM LimitsAlwaysHold == Spec => []LimitsHold
BY LimitsStayCurrent, LimitsEnforced, PTL DEF LimitsHold

(* No target of an earlier stream is ever mixed into a later one.            *)
THEOREM StreamStaysFresh == Spec => []StreamIsFresh
<1>1. Inv => StreamIsFresh
  BY DEF Inv, IInv
<1> QED BY <1>1, InvariantAlways, PTL

(* Where the arm is drawn to from tick to tick.  A stream that is to start a *)
(* segment finds the last aim somewhere on the way that lies behind it, for  *)
(* only a command that continues the stream leaves one to be started.        *)
OnTheWay == aim = Between \/ aim \in barrier .. applied.n

Drawn ==
  CASE active = "idle" -> aim = None
    [] active \in {"joint", "adm"} -> aim = applied.n
    [] OTHER -> \/ aim = applied.n
                \/ aim = Plan /\ generator # None
                \/ OnTheWay /\ interp.primed /\ ~interp.settled

Aimed ==
  /\ applied.generator => ~interp.primed
  /\ interp.fresh =>
       /\ rpc = "drive"
       /\ interp.primed /\ ~interp.settled
       /\ active \in {"cart", "hybrid"} /\ applied.lerp /\ generator = None
       /\ OnTheWay
  /\ rpc # "drive" => Drawn

LEMMA InitAimed == Init => Aimed
BY DEF Init, Aimed, Drawn, Start, Unprimed

LEMMA ApplyAimed ==
  ASSUME Inv, Aimed, rpc = "apply", rpc' = "drive", aim' = aim,
         NEW c \in Command, Apply(c),
         c.generator => c.kind = "cart",
         applied.n < c.n \/ c.kind # active
  PROVE  Aimed'
<1>1. /\ c.n \in Nat /\ c.generator \in BOOLEAN /\ c.lerp \in BOOLEAN
      /\ applied.n \in Nat /\ barrier \in Nat /\ barrier <= applied.n
      /\ interp \in [primed : BOOLEAN, first : Nat, from : Nat, latest : Nat,
                     fresh : BOOLEAN, settled : BOOLEAN]
  BY DEF Inv, TypeOK, IInv, Command
<1>2. /\ active' = c.kind /\ applied' = c
      /\ generator' = IF c.generator THEN c.n ELSE None
      /\ barrier' = IF c.kind = active /\ Streamed(c) THEN barrier ELSE c.n
      /\ interp' = IF c.kind = active THEN InterpOf(c) ELSE Unprimed
  BY DEF Apply, Select, TransferGenerator
<1>3. ~interp.fresh
  BY DEF Aimed
<1>4. ~Unprimed.primed /\ ~Unprimed.fresh
  BY DEF Unprimed
<1>5. applied'.generator => ~interp'.primed
  BY <1>2, <1>4 DEF InterpOf, Streamed
<1>6. ASSUME interp'.fresh
      PROVE  /\ interp'.primed /\ ~interp'.settled
             /\ active' \in {"cart", "hybrid"} /\ applied'.lerp /\ generator' = None
             /\ OnTheWay'
  <2>1. c.kind = active /\ Streamed(c) /\ interp' = Pushed(interp, c.n)
    BY <1>2, <1>3, <1>4, <1>6 DEF InterpOf
  <2>2. interp.primed /\ interp'.primed /\ ~interp'.settled
    BY <1>1, <1>6, <2>1 DEF Pushed
  <2>3. aim = applied.n \/ OnTheWay
    <3>1. ~applied.generator /\ generator = None
      BY <2>2 DEF Aimed, Inv, IInv
    <3> QED BY <2>1, <3>1 DEF Aimed, Drawn, Streamed
  <2>4. OnTheWay'
    <3>1. barrier' = barrier /\ applied'.n = c.n /\ applied.n < c.n
      BY <1>2, <2>1
    <3> QED BY <1>1, <2>3, <3>1 DEF OnTheWay
  <2> QED BY <1>2, <2>1, <2>2, <2>4 DEF Streamed
<1> QED BY <1>5, <1>6 DEF Aimed

LEMMA DriveAimed ==
  ASSUME Inv, Aimed, Drive
  PROVE  Aimed'
<1>1. /\ rpc = "drive" /\ rpc' = "check"
      /\ UNCHANGED <<active, applied, barrier>>
  BY DEF Drive
<1>2. /\ active \in Kind /\ applied.n \in Nat /\ barrier \in Nat /\ barrier <= applied.n
      /\ interp \in [primed : BOOLEAN, first : Nat, from : Nat, latest : Nat,
                     fresh : BOOLEAN, settled : BOOLEAN]
  BY DEF Inv, TypeOK, IInv, Command
<1>3. CASE MoveRuns \/ MoveEnds
  <2>1. /\ active = "cart" /\ generator # None /\ generator = applied.n /\ interp' = interp
        /\ (aim' = Plan /\ generator' = generator) \/ aim' = applied.n
    BY <1>3 DEF MoveRuns, MoveEnds, Moving, Inv, IInv
  <2>2. ~interp.fresh
    BY <2>1 DEF Aimed
  <2> QED BY <1>1, <2>1, <2>2 DEF Aimed, Drawn
<1>4. CASE SegmentStarts
  <2>1. /\ Streaming /\ interp.fresh /\ aim' \in {aim, interp.from, Between}
        /\ interp' = [interp EXCEPT !.fresh = FALSE] /\ generator' = generator
    BY <1>4 DEF SegmentStarts
  <2>2. /\ OnTheWay /\ interp.primed /\ ~interp.settled /\ active \in {"cart", "hybrid"}
        /\ ~applied.generator
    BY <2>1 DEF Aimed
  <2>3. interp.from \in barrier .. applied.n
    BY <1>2, <2>2 DEF Inv, IInv, StreamIsFresh
  <2>4. OnTheWay'
    BY <1>1, <2>1, <2>2, <2>3 DEF OnTheWay
  <2>5. ~interp'.fresh /\ interp'.primed /\ ~interp'.settled
    BY <1>2, <2>1, <2>2
  <2> QED BY <1>1, <2>2, <2>4, <2>5 DEF Aimed, Drawn
<1>5. CASE SegmentRuns
  <2>1. /\ active \in {"cart", "hybrid"} /\ interp.primed /\ ~interp.fresh /\ ~interp.settled
        /\ aim' = Between /\ interp' = interp
    BY <1>5 DEF SegmentRuns, Streaming
  <2> QED BY <1>1, <2>1 DEF Aimed, Drawn, OnTheWay
<1>6. CASE SegmentEnds
  <2>1. /\ active \in {"cart", "hybrid"} /\ interp.primed /\ ~interp.fresh
        /\ aim' = interp.latest /\ interp' = [interp EXCEPT !.settled = TRUE]
    BY <1>6 DEF SegmentEnds, Streaming
  <2>2. aim' = applied.n
    BY <2>1 DEF Inv, IInv, StreamIsFresh
  <2>3. ~interp'.fresh /\ interp'.primed
    BY <1>2, <2>1
  <2> QED BY <1>1, <2>1, <2>2, <2>3 DEF Aimed, Drawn
<1>7. CASE AsConfigured
  <2>1. /\ ~Moving /\ ~Streaming /\ interp' = interp /\ generator' = generator
        /\ aim' = IF active = "idle" THEN None ELSE applied.n
    BY <1>7 DEF AsConfigured
  <2>2. ~interp.fresh
    BY <2>1 DEF Aimed, Streaming, Moving
  <2> QED BY <1>1, <1>2, <2>1, <2>2 DEF Aimed, Drawn, Kind
<1> QED BY <1>3, <1>4, <1>5, <1>6, <1>7 DEF Drive

LEMMA StepAimed == Inv /\ Aimed /\ [Next]_vars => Aimed'
<1> SUFFICES ASSUME Inv, Aimed, [Next]_vars PROVE Aimed'
  OBVIOUS
<1>1. ASSUME UNCHANGED <<control, aim>>, 
         \/ rpc' = rpc
         \/ rpc' = "apply" /\ rpc = "compute"
         \/ rpc' = "drive" /\ rpc = "apply"
      PROVE  Aimed'
  BY <1>1 DEF control, Aimed, Drawn, OnTheWay
<1>2. ASSUME (\E s \in Shape : Send(s)) \/ CmdThread \/ Contended \/ Compute \/ UNCHANGED vars
      PROVE  Aimed'
  <2>1. /\ UNCHANGED <<control, aim>>
        /\ \/ rpc' = rpc
           \/ rpc' = "apply" /\ rpc = "compute"
           \/ rpc' = "drive" /\ rpc = "apply"
    BY <1>2 DEF Send, CmdThread, Receive, LockPending, Store, Contended, Compute, vars, tick
  <2> QED BY <1>1, <2>1
<1>3. ASSUME Apply1 PROVE Aimed'
  <2>1. rpc = "apply" /\ rpc' = "drive" /\ aim' = aim
    BY <1>3 DEF Apply1
  <2>2. CASE TakeAnchor
    <3>1. Apply(Anchor) /\ active = "idle" /\ Initial # "idle"
      BY <2>2 DEF TakeAnchor, Inv, IInv, PendingIsReceived
    <3>2. Anchor \in Command /\ Anchor.kind # active /\ ~Anchor.generator
      BY <3>1, AnchorIsCommand
    <3>3. PICK c \in Command : c = Anchor
      BY <3>2
    <3>4. Apply(c) /\ c.kind # active /\ ~c.generator
      BY <3>1, <3>2, <3>3
    <3> QED BY <2>1, <3>4, ApplyAimed
  <2>3. CASE TakePending
    <3>1. Apply(pending) /\ pending \in Message \cap Command /\ applied.n < pending.n
      BY <2>3 DEF TakePending, Inv, TypeOK, IInv, PendingIsReceived
    <3>2. pending.generator => pending.kind = "cart"
      BY <3>1, MessageFields
    <3> QED BY <2>1, <3>1, <3>2, ApplyAimed
  <2>4. CASE TakeNothing
    BY <1>1, <2>1, <2>4 DEF TakeNothing
  <2> QED BY <1>3, <2>2, <2>3, <2>4 DEF Apply1
<1>4. ASSUME Check PROVE Aimed'
  <2>1. /\ rpc = "check" /\ rpc' = "compute"
        /\ UNCHANGED <<generator, interp, applied, barrier>>
        /\ (active' = "idle" /\ aim' = None) \/ UNCHANGED <<active, aim>>
    BY <1>4 DEF Check
  <2> QED BY <2>1 DEF Aimed, Drawn, OnTheWay
<1> QED BY <1>2, <1>3, <1>4, DriveAimed DEF Next, RealTime

(* What the arm is drawn to is the target of the command in effect, or lies  *)
(* on the way from the last one to it, for any number of commands.           *)
THEOREM NeverDrawnBackCorrect == Spec => []NeverDrawnBack
<1>1. Aimed => NeverDrawnBack
  BY DEF Aimed, Drawn, OnTheWay, NeverDrawnBack
<1> QED BY <1>1, InitInvariant, InitAimed, StepInvariant, StepAimed, PTL DEF Spec

(* Dispatch implements CommandMailbox: the newest command received wins.     *)
LEMMA MailboxInit == Init => Mailbox!Init
BY DEF Init, Mailbox!Init

LEMMA MailboxStep == Inv /\ [Next]_vars => [Mailbox!Next]_Mailbox!mvars
<1> SUFFICES ASSUME Inv, [Next]_vars PROVE [Mailbox!Next]_Mailbox!mvars
  OBVIOUS
<1>1. ASSUME UNCHANGED <<received, applied>> PROVE [Mailbox!Next]_Mailbox!mvars
  BY <1>1 DEF Mailbox!mvars
<1>2. ASSUME NEW s \in Shape, Send(s) PROVE UNCHANGED <<received, applied>>
  BY <1>2 DEF Send, mailbox, control
<1>3. ASSUME Receive \/ LockPending PROVE UNCHANGED <<received, applied>>
  BY <1>3 DEF Receive, LockPending, mailbox, control
<1>4. ASSUME Store PROVE [Mailbox!Next]_Mailbox!mvars
  <2>1. inHand \in Message /\ received' = inHand /\ applied' = applied
    BY <1>4 DEF Store, Inv, IInv, PendingIsReceived, TypeOK, control
  <2>2. Mailbox!Receive(inHand)
    BY <2>1 DEF Mailbox!Receive
  <2> QED BY <2>1, <2>2 DEF Mailbox!Next
<1>5. ASSUME Contended \/ Drive \/ Check \/ Compute PROVE UNCHANGED <<received, applied>>
  BY <1>5 DEF Contended, Drive, Check, Compute, mailbox, control
<1>6. ASSUME Apply1 PROVE [Mailbox!Next]_Mailbox!mvars
  <2>1. received' = received
    BY <1>6 DEF Apply1
  <2>2. CASE TakeAnchor
    <3>1. received = None /\ applied = Start /\ applied' = Anchor
      BY <2>2 DEF TakeAnchor, Apply, Inv, IInv, PendingIsReceived
    <3>2. Mailbox!HoldLivePose
      BY <2>1, <3>1, AnchorIsCommand DEF Mailbox!HoldLivePose
    <3> QED BY <3>2 DEF Mailbox!Next
  <2>3. CASE TakePending
    <3>1. received # None /\ applied' = received /\ received.n >= 1
      BY <2>3 DEF TakePending, Apply, Inv, IInv, PendingIsReceived
    <3>2. received # Start
      BY <3>1, AnchorIsCommand
    <3>3. Mailbox!Take
      BY <2>1, <3>1, <3>2 DEF Mailbox!Take
    <3> QED BY <3>3 DEF Mailbox!Next
  <2>4. CASE TakeNothing
    BY <1>1, <2>1, <2>4 DEF TakeNothing, control
  <2> QED BY <1>6, <2>2, <2>3, <2>4 DEF Apply1
<1>7. ASSUME UNCHANGED vars PROVE UNCHANGED <<received, applied>>
  BY <1>7 DEF vars, mailbox, control
<1> QED
  BY <1>1, <1>2, <1>3, <1>4, <1>5, <1>6, <1>7 DEF Next, CmdThread, RealTime

THEOREM NewestWins == Spec => ImplementsMailbox
BY MailboxInit, MailboxStep, InvariantAlways, PTL DEF Spec, ImplementsMailbox, Mailbox!Spec
==============================================================================
