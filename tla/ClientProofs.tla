---------------------------- MODULE ClientProofs ----------------------------
(***************************************************************************)
(* Proofs about ClientPrograms, for any positions, selections and times:   *)
(* what the tasks of a Robot send is what was asked, the loops keep their  *)
(* pace, and the two programs leave the arm and their record as they say.  *)
(* The invariant has one part for the caches and the link, one for the     *)
(* task of a caller, and one for each program.                             *)
(***************************************************************************)
EXTENDS ClientPrograms, FiniteSetTheorems, SequenceTheorems, TLAPS

(* A command that was handed to the socket at this instant leaves it within  *)
(* the latency.                                                              *)
InFlightSince(t) == waiting # None => waiting = now - t

Settings(ctl) == IF ctl = "hybrid" THEN {"Tr", "n_af", "wrench", "caps", "K"} ELSE {"K"}

(* The caches keep their fields, and a state is only held while connected.   *)
Caches(c) ==
  /\ c = [ctl \in Controllers |-> c[ctl]]
  /\ \A ctl \in Controllers : DOMAIN c[ctl] = Settings(ctl)

Linked ==
  /\ Caches(cache)
  /\ {open, sensor, seen.valid, seen.ft} \subseteq BOOLEAN
  /\ seen.valid => open /\ (seen.ft => sensor)
  /\ now \in Nat
  /\ waiting \in 0 .. Latency - 1 \union {None}

(* Only the program that runs has left its initial state.                    *)
Alone ==
  /\ program \in {"caller", "reset", "sysid"}
  /\ program # "caller" => task = NoTask
  /\ program # "reset" => reset = ResetUnused
  /\ program # "sysid" => sysid = SysidUnused

---------------------------------------------------------------------------
(* The task of a caller.                                                     *)
Hybrid == task.kind \in {"run", "apply"}
Timely == task.kind \in {"run", "apply", "loop"}
Moves == task.kind \in {"move", "episode"}

HybridFields == {"kind", "pc", "wish", "forced", "found", "next", "first", "p0", "aborted", "burst"}
LoopFields == {"kind", "pc", "next", "first", "burst"}
MoveFields == {"kind", "pc", "until", "K", "next", "start", "steps"}

Tasks ==
  /\ task.kind \in {"none", "run", "apply", "loop", "move", "episode"}
  /\ task.kind = "none" => task = NoTask
  /\ Hybrid =>
       /\ DOMAIN task = HybridFields
       /\ task.pc \in {"loop", "final", "refused", "raised", "returned", "interrupted"}
       /\ task.pc = "final" => task.kind = "apply"
       /\ task.first \in BOOLEAN /\ task.aborted \in BOOLEAN
       /\ task.forced \in SUBSET Axes
       /\ task.wish \in Wishes
       /\ task.kind = "apply" => \E a \in Axes : task.forced = {a}
  /\ task.kind = "loop" =>
       /\ DOMAIN task = LoopFields
       /\ task.pc \in {"loop", "raised", "returned", "interrupted"}
  /\ Moves =>
       /\ DOMAIN task = MoveFields
       /\ task.pc \in {"moving", "ready", "stepping", "raised", "returned", "interrupted"}

(* A loop that sent twice in an instant is due in a later one.               *)
Pace ==
  /\ Timely =>
       /\ task.next \in Nat
       /\ task.burst = <<task.burst[1], task.burst[2]>>
       /\ task.burst[1] \in 0 .. now
       /\ task.burst[2] \in 0 .. 2
       /\ task.burst[2] = 1 => task.next >= task.burst[1]
       /\ task.burst[2] = 2 => task.next > task.burst[1]
  /\ Moves =>
       /\ {task.next, task.start, task.steps} \subseteq Nat
       /\ task.steps <= now - task.start
       /\ task.pc = "moving" => task.steps = 0
       /\ task.pc \in {"ready", "stepping"} /\ task.kind = "episode" => task.next = task.start + task.steps + 1

(* What the settings of a hybrid command are to be.                          *)
Wished(k) == IF task.wish[k] # None THEN task.wish[k] ELSE task.found[k]

(* The same magnitude in each of the slots under force. *)
Applies(h, axes, m) ==
  /\ h.Tr = SelectionToTr(axes).Tr
  /\ h.n_af = Cardinality(axes)
  /\ h.wrench = [slot \in Axes |-> IF slot <= Cardinality(axes) THEN m ELSE 0]

Asked(h, m) == Applies(h, task.forced, m)

(* A hybrid task finds its settings in the cache until the first command,    *)
(* which leaves there what the later ones repeat.                            *)
Streams ==
  /\ Hybrid /\ task.pc \in {"loop", "final"} => open /\ sensor
  /\ Hybrid /\ task.pc = "loop" /\ task.first =>
       IF task.kind = "run"
       THEN \A k \in {"caps", "K"} : task.found[k] = Loaded(cache, "hybrid", task.wish.profile)["hybrid"][k]
       ELSE cache["hybrid"].K = Wished("K") /\ cache["hybrid"].caps = task.found["caps"]
  /\ Hybrid /\ task.pc = "loop" /\ ~task.first =>
       /\ sent = Command("hybrid", task.p0, cache["hybrid"], FALSE)
       /\ \E m \in (IF task.kind = "run" THEN {1} ELSE {0, 1}) : Asked(cache["hybrid"], m)
       /\ \A k \in {"caps", "K"} : cache["hybrid"][k] = Wished(k)

(* An episode has its stiffness in the Cartesian cache.                      *)
Episode ==
  task.kind = "episode" =>
    /\ sent.set.K = task.K
    /\ task.pc \in {"moving", "ready", "stepping"} => open /\ cache["cartesian_impedance"].K = task.K

CallerInv == Tasks /\ Pace /\ Streams /\ Episode /\ ForceIsReleased

---------------------------------------------------------------------------
ResetFields == {"pc", "result", "pos0", "goal", "until", "next", "steps", "unsafe", "hold"}

(* examples/reset.py: until it plans, nothing was sent; the command to idle  *)
(* is the last, and has left the socket when the program leaves.             *)
ResetInv ==
  /\ reset.pc # "unused" => DOMAIN reset = ResetFields
  /\ reset.pc \notin {"unused", "begin", "exited"} => open
  /\ reset.pc \in {"begin", "connected", "countdown", "plan"} => sent = None /\ waiting = None
  /\ reset.pc # "exited" => reset.result # "aborted"
  /\ reset.pc = "idling" =>
       /\ reset.until \in Nat
       /\ sent.mode = "idle" /\ ~sent.termination
       /\ InFlightSince(reset.until - Flush)
       /\ waiting = None => effect.mode \in {"idle", "ended"}
  /\ reset.pc = "exited" => waiting = None
  /\ ResetLeavesIdle

---------------------------------------------------------------------------
SysidFields ==
  {"pc", "exit", "execute", "finish", "status", "disk", "attempted", "termination", "whole", "anchor", "origin",
   "slot", "deadline", "snapshot", "at", "sentAt", "last", "until", "signals", "cut"}

Places ==
  {"begin", "preview", "connect", "ready", "recheck", "sleep", "check", "send", "sent", "finish", "finishing",
   "complete", "abort", "aborting", "write", "close", "caught", "exited"}

(* examples/joint_sysid.py: a command is attempted at or after its slot, the *)
(* next slot is the first after it.                                          *)
Slots ==
  /\ {sysid.origin, sysid.slot} \subseteq Nat
  /\ sysid.pc \in {"begin", "preview", "connect", "ready", "recheck"} => sysid.slot = 0
  /\ {sysid.at, sysid.sentAt, sysid.last} \subseteq Nat \union {None}
  /\ sysid.pc \in {"sleep", "check", "send", "sent"} =>
       /\ sysid.deadline = sysid.origin + sysid.slot * Period
       /\ sysid.deadline \in Nat
  /\ sysid.pc \in {"check", "send", "sent"} => sysid.deadline <= now
  /\ sysid.pc \in {"sleep", "check"} /\ sysid.sentAt # None =>
       sysid.deadline - Period <= sysid.sentAt /\ sysid.sentAt < sysid.deadline
  /\ sysid.pc = "sent" => sysid.sentAt \in Nat /\ sysid.deadline <= sysid.sentAt
  /\ SysidKeepsPace

(* What each place knows of the stream, the request to terminate and what    *)
(* will be written down.                                                     *)
Endings ==
  /\ sysid.pc \in Places
  /\ sysid.pc \notin {"begin", "preview", "connect", "caught", "exited"} => open
  /\ sysid.sentAt # None => sysid.attempted
  /\ sysid.pc = "send" => sysid.attempted
  /\ sysid.pc \in {"begin", "preview", "connect", "ready", "recheck"} => ~sysid.attempted
  /\ sysid.pc \in {"finish", "finishing", "complete"} => sysid.whole
  /\ sysid.pc \in {"write", "close", "caught", "exited"} /\ sysid.attempted /\ ~sysid.cut =>
       sysid.whole \/ sysid.termination # None
  /\ sysid.pc \in {"finishing", "aborting"} =>
       /\ sysid.termination = "attempted"
       /\ sysid.until \in Nat
       /\ sent.termination
       /\ InFlightSince(sysid.until - Flush)
       /\ waiting = None => effect = Ended
  /\ sysid.termination = "requested_unconfirmed" => effect = Ended
  /\ sysid.pc = "complete" /\ sysid.finish = "terminate" => sysid.termination = "requested_unconfirmed"
  /\ sysid.status = "completed" =>
       /\ sysid.pc \in {"write", "close", "caught", "exited"}
       /\ sysid.whole /\ (sysid.finish = "terminate" => sysid.termination = "requested_unconfirmed")
  /\ sysid.disk = "completed" =>
       /\ sysid.pc \in {"close", "caught", "exited"}
       /\ sysid.whole /\ (sysid.finish = "terminate" => sysid.termination = "requested_unconfirmed")
  /\ sysid.pc = "close" => sysid.disk = "completed"
  /\ sysid.exit = 0 => sysid.pc = "exited" /\ sysid.disk \in {"completed", "preview"}
  /\ {sysid.attempted, sysid.cut, sysid.whole} \subseteq BOOLEAN

SysidInv ==
  sysid.pc # "unused" => DOMAIN sysid = SysidFields /\ Slots /\ Endings

Inv == Linked /\ Alone /\ CallerInv /\ ResetInv /\ SysidInv

---------------------------------------------------------------------------
(* Selections.  Ordered lists the axes of a set, each once.                  *)
LEMMA Subsets ==
  ASSUME NEW S \in SUBSET Axes
  PROVE  S = {} \/ S = {1} \/ S = {2} \/ S = {1, 2}
<1>1. S \subseteq {1, 2}
  BY DEF Axes
<1> QED BY <1>1

LEMMA Sizes ==
  /\ Cardinality({}) = 0
  /\ \A a \in Nat : Cardinality({a}) = 1
  /\ Cardinality({1, 2}) = 2
  /\ Cardinality(Axes) = 2
<1>1. IsFiniteSet({}) /\ Cardinality({}) = 0
  BY FS_EmptySet
<1>2. ASSUME NEW a \in Nat PROVE IsFiniteSet({a}) /\ Cardinality({a}) = 1
  BY <1>1, FS_Singleton
<1>3. Cardinality({1, 2}) = 2
  <2>1. {1} \cup {2} = {1, 2} /\ 2 \notin {1}
    OBVIOUS
  <2>2. IsFiniteSet({1}) /\ Cardinality({1}) = 1
    BY <1>2
  <2>3. Cardinality({1} \cup {2}) = IF 2 \in {1} THEN Cardinality({1}) ELSE Cardinality({1}) + 1
    BY <2>2, FS_AddElement
  <2> QED BY <2>1, <2>2, <2>3
<1>4. Axes = {1, 2}
  BY DEF Axes
<1> QED BY <1>1, <1>2, <1>3, <1>4

LEMMA IsList ==
  ASSUME NEW T, NEW k, k \in 0 .. 2, NEW s \in [1 .. k -> T]
  PROVE  s \in Seq(T) /\ Len(s) = k
<1>1. s \in Seq(T)
  OBVIOUS
<1>2. DOMAIN s = 1 .. Len(s) /\ Len(s) \in Nat
  BY <1>1, LenProperties
<1> QED BY <1>1, <1>2

LEMMA OrderedLists ==
  ASSUME NEW S \in SUBSET Axes
  PROVE  /\ Cardinality(S) \in 0 .. 2
         /\ Ordered(S) \in [1 .. Cardinality(S) -> S]
         /\ \A a \in S : \E i \in 1 .. Cardinality(S) : Ordered(S)[i] = a
<1> DEFINE n == Cardinality(S)
           Lists(s) == s \in [1 .. n -> S] /\ \A i, j \in DOMAIN s : i < j => s[i] < s[j]
<1>1. n \in 0 .. 2
  BY Subsets, Sizes
<1>2. \E s : Lists(s)
  <2>1. CASE S = {}
    <3>1. Lists([i \in 1 .. n |-> 0])
      BY <2>1, Sizes
    <3> QED BY <3>1
  <2>2. CASE S = {1} \/ S = {2}
    <3>1. PICK a \in {1, 2} : S = {a}
      BY <2>2
    <3>2. Lists([i \in 1 .. n |-> a])
      BY <3>1, Sizes
    <3> QED BY <3>2
  <2>3. CASE S = {1, 2}
    <3>1. Lists([i \in 1 .. n |-> i])
      BY <2>3, Sizes
    <3> QED BY <3>1
  <2> QED BY Subsets, <2>1, <2>2, <2>3
<1>3. Lists(Ordered(S))
  <2>1. Ordered(S) = CHOOSE s : Lists(s)
    BY DEF Ordered
  <2> QED BY <1>2, <2>1
<1>4. ASSUME NEW a \in S PROVE \E i \in 1 .. n : Ordered(S)[i] = a
  <2>1. CASE S = {1} \/ S = {2}
    BY <1>3, <2>1, Sizes
  <2>2. CASE S = {1, 2}
    <3>1. n = 2 /\ Ordered(S)[1] \in {1, 2} /\ Ordered(S)[2] \in {1, 2} /\ Ordered(S)[1] < Ordered(S)[2]
      BY <1>3, <2>2, Sizes
    <3> QED BY <1>4, <2>2, <3>1
  <2> QED BY Subsets, <2>1, <2>2
<1> QED BY <1>1, <1>3, <1>4

(* What a hybrid command with the same magnitude in the slots under force    *)
(* asks for.                                                                 *)
LEMMA ForceAsked ==
  ASSUME NEW h, NEW S \in SUBSET Axes, NEW m, Applies(h, S, m)
  PROVE  ForceOf(h) = [a \in Axes |-> IF a \in S THEN m ELSE 0]
<1> DEFINE n == Cardinality(S)
<1> USE DEF Applies
<1>1. /\ n \in 0 .. 2 /\ Ordered(S) \in [1 .. n -> S]
      /\ \A a \in S : \E i \in 1 .. n : Ordered(S)[i] = a
  BY OrderedLists
<1>2. Ordered(Axes \ S) \in [1 .. Cardinality(Axes \ S) -> Axes \ S] /\ Cardinality(Axes \ S) \in 0 .. 2
  BY OrderedLists
<1>3. \A slot \in 1 .. n : h.Tr[slot] = Ordered(S)[slot]
  <2>1. h.Tr = Ordered(S) \o Ordered(Axes \ S)
    BY DEF SelectionToTr
  <2>2. Ordered(S) \in Seq(S) /\ Len(Ordered(S)) = n /\ Ordered(Axes \ S) \in Seq(Axes \ S)
    <3>1. Ordered(S) \in Seq(S) /\ Len(Ordered(S)) = n
      BY <1>1, IsList
    <3>2. Ordered(Axes \ S) \in Seq(Axes \ S)
      BY <1>2, IsList
    <3> QED BY <3>1, <3>2
  <2> QED BY <2>1, <2>2
<1>4. ASSUME NEW a \in Axes
      PROVE  (IF \E slot \in 1 .. h.n_af : h.Tr[slot] = a
              THEN h.wrench[CHOOSE slot \in 1 .. h.n_af : h.Tr[slot] = a] ELSE 0) = IF a \in S THEN m ELSE 0
  <2>1. CASE a \in S
    <3> DEFINE chosen == CHOOSE slot \in 1 .. h.n_af : h.Tr[slot] = a
    <3>1. \E slot \in 1 .. h.n_af : h.Tr[slot] = a
      BY <1>1, <1>3, <2>1
    <3>2. chosen \in 1 .. n
      BY <3>1
    <3>3. h.wrench[chosen] = m
      BY <1>1, <3>2 DEF Axes
    <3> QED BY <2>1, <3>1, <3>3
  <2>2. CASE a \notin S
    BY <1>1, <1>3, <2>2
  <2> QED BY <2>1, <2>2
<1> QED BY <1>4 DEF ForceOf

LEMMA UnitInSlots ==
  ASSUME NEW S \in SUBSET Axes
  PROVE  ForceToTr(S, UnitForce) = [slot \in Axes |-> IF slot <= Cardinality(S) THEN 1 ELSE 0]
<1>1. Cardinality(S) \in 0 .. 2 /\ Ordered(S) \in [1 .. Cardinality(S) -> S]
  BY OrderedLists
<1>2. ASSUME NEW slot \in Axes, slot <= Cardinality(S) PROVE Ordered(S)[slot] \in Axes
  <2>1. slot \in 1 .. Cardinality(S)
    BY <1>1, <1>2 DEF Axes
  <2>2. Ordered(S)[slot] \in S
    BY <1>1, <2>1
  <2> QED BY <2>2
<1> QED BY <1>2 DEF ForceToTr, UnitForce

LEMMA AxisInSlots ==
  ASSUME NEW a \in Axes, NEW m
  PROVE  /\ DOMAIN ForceAxisToTr(a, m) = {"Tr", "n_af", "wrench"}
         /\ ForceAxisToTr(a, m).Tr = SelectionToTr({a}).Tr
         /\ ForceAxisToTr(a, m).n_af = Cardinality({a})
         /\ ForceAxisToTr(a, m).wrench = [slot \in Axes |-> IF slot <= Cardinality({a}) THEN m ELSE 0]
<1>1. Cardinality({a}) = 1
  BY Sizes DEF Axes
<1>2. [slot \in Axes |-> IF slot = 1 THEN m ELSE 0] = [slot \in Axes |-> IF slot <= Cardinality({a}) THEN m ELSE 0]
  BY <1>1 DEF Axes
<1> QED BY <1>2 DEF ForceAxisToTr, Updated, SelectionToTr

(* Without a force in any slot there is none.                                *)
LEMMA NoForce ==
  ASSUME NEW h, h.n_af \in 0 .. Cardinality(Axes), h.wrench = Zero
  PROVE  ForceOf(h) = Zero
<1>1. 1 .. h.n_af \subseteq Axes
  BY Sizes DEF Axes
<1>2. \A slot \in 1 .. h.n_af : h.wrench[slot] = 0
  BY <1>1 DEF Zero
<1>3. ASSUME NEW a \in Axes, \E slot \in 1 .. h.n_af : h.Tr[slot] = a
      PROVE  h.wrench[CHOOSE slot \in 1 .. h.n_af : h.Tr[slot] = a] = 0
  BY <1>2, <1>3
<1> QED BY <1>3 DEF ForceOf, Zero

---------------------------------------------------------------------------
LEMMA InitInv == ProgramsInit => Inv
<1> SUFFICES ASSUME ProgramsInit PROVE Inv
  OBVIOUS
<1> USE DEF ProgramsInit, Init
<1>1. Linked
  <2>1. cache = [ctl \in Controllers |-> cache[ctl]]
    OBVIOUS
  <2>2. ASSUME NEW ctl \in Controllers PROVE DOMAIN cache[ctl] = Settings(ctl)
    BY DEF Controllers, Flattened, FlatIdle, FlatCart, FlatJoint, FlatAdm, FlatHybrid, Settings
  <2>3. /\ {open, sensor, seen.valid, seen.ft} \subseteq BOOLEAN
        /\ (seen.valid => open /\ (seen.ft => sensor))
        /\ now \in Nat /\ waiting \in 0 .. Latency - 1 \union {None}
    BY DEF Unseen
  <2> QED BY <2>1, <2>2, <2>3 DEF Linked, Caches
<1>2. Alone
  BY DEF Alone
<1>3. CallerInv
  <2>1. task.kind = "none" /\ task = NoTask
    BY DEF NoTask
  <2> QED BY <2>1 DEF CallerInv, Tasks, Pace, Streams, Episode, ForceIsReleased, Hybrid, Timely, Moves
<1>4. ResetInv
  <2>1. CASE program # "reset"
    BY <2>1, ResetProgramAssumption DEF Results, ResetInv, ResetLeavesIdle, ResetUnused
  <2>2. CASE program = "reset"
    <3>1. PICK o \in ResetOptions : reset = ResetStarts(o)
      BY <2>2
    <3>2. DOMAIN reset = ResetFields /\ reset.pc = "begin" /\ reset.result = None
      BY <3>1 DEF ResetStarts, ResetFields
    <3> QED BY <3>2, ResetProgramAssumption DEF Results, ResetInv, ResetLeavesIdle
  <2> QED BY <2>1, <2>2
<1>5. SysidInv
  <2>1. CASE program # "sysid"
    BY <2>1 DEF SysidInv, SysidUnused
  <2>2. CASE program = "sysid"
    <3>1. PICK o \in SysidOptions : sysid = SysidStarts(o)
      BY <2>2
    <3>2. DOMAIN sysid = SysidFields
      BY <3>1 DEF SysidStarts, SysidFields
    <3>3. Slots
      <4>1. /\ sysid.pc = "begin" /\ sysid.origin = 0 /\ sysid.slot = 0
            /\ sysid.at = None /\ sysid.sentAt = None /\ sysid.last = None
        BY <3>1 DEF SysidStarts
      <4> QED BY <4>1 DEF Slots, SysidKeepsPace
    <3>4. Endings
      <4>1. /\ sysid.pc = "begin" /\ sysid.sentAt = None /\ sysid.attempted = FALSE /\ sysid.cut = FALSE
            /\ sysid.whole = FALSE /\ sysid.termination = None /\ sysid.status = "initializing"
            /\ sysid.disk = None /\ sysid.exit = None
        BY <3>1 DEF SysidStarts
      <4>2. None # "requested_unconfirmed" /\ None # "completed" /\ None # 0
        BY JointSysidAssumption, RobotClientAssumption DEF Statuses, Requests
      <4> QED BY <4>1, <4>2 DEF Endings, Places
    <3> QED BY <3>2, <3>3, <3>4 DEF SysidInv
  <2> QED BY <2>1, <2>2
<1> QED BY <1>1, <1>2, <1>3, <1>4, <1>5 DEF Inv

---------------------------------------------------------------------------
(* Settings that are loaded or stored leave the caches with their fields.    *)
LEMMA FlattenedFields ==
  ASSUME NEW ctl \in Controllers, NEW file
  PROVE  DOMAIN Flattened(ctl, file) = Settings(ctl)
BY DEF Controllers, Flattened, FlatIdle, FlatCart, FlatJoint, FlatAdm, FlatHybrid, Settings

LEMMA LoadedCaches ==
  ASSUME NEW c, Caches(c), NEW ctl \in Controllers, NEW file
  PROVE  /\ Caches(Loaded(c, ctl, file))
         /\ \A other \in Controllers : other # ctl => Loaded(c, ctl, file)[other] = c[other]
BY FlattenedFields DEF Caches, Loaded

LEMMA StoredCaches ==
  ASSUME NEW c, Caches(c), NEW ctl \in Controllers, NEW given, DOMAIN given \subseteq Settings(ctl)
  PROVE  /\ Caches(Stored(c, ctl, given))
         /\ Stored(c, ctl, given)[ctl] = Updated(c[ctl], given)
         /\ \A other \in Controllers : other # ctl => Stored(c, ctl, given)[other] = c[other]
<1>1. DOMAIN Updated(c[ctl], given) = Settings(ctl)
  BY DEF Caches, Updated
<1> QED BY <1>1 DEF Caches, Stored

(* A call sends what the cache then holds.                                   *)
LEMMA CallLinked ==
  ASSUME Linked, NEW c, Caches(c), NEW ctl, NEW pos, NEW termination,
         Call(c, ctl, pos, termination), UNCHANGED <<open, sensor, seen>>, now' \in {now, 0}
  PROVE  /\ Linked' /\ cache' = c
         /\ open => sent' = Command(ctl, pos, c[ctl], termination) /\ waiting' = 0 /\ waiting' # None
         /\ ~open => UNCHANGED link
<1>1. cache' = c
  BY DEF Call
<1>2. waiting' \in 0 .. Latency - 1 \union {None}
  BY RobotClientAssumption DEF Linked, Call, Hand, link
<1>3. Linked'
  BY <1>1, <1>2 DEF Linked, Caches
<1> QED BY <1>1, <1>3, RobotClientAssumption DEF Call, Hand

---------------------------------------------------------------------------
(* Steps of the daemon, the network and the clock.                           *)
LEMMA TaskStays ==
  ASSUME Tasks, Streams, Episode, UNCHANGED <<task, cache, open, sent, sensor>>
  PROVE  Tasks' /\ Streams' /\ Episode'
BY ZenonT(30) DEF Tasks, Streams, Episode, Hybrid, Timely, Moves, Wished, Asked, Applies

LEMMA DeliverInv ==
  ASSUME Inv, Deliver, UNCHANGED <<heard, task, reset, sysid, program>>
  PROVE  Inv'
<1> USE DEF Inv, Deliver
<1>1. Linked' /\ Alone'
  BY DEF Linked, Caches, Alone
<1>2. CallerInv'
  <2>1. Tasks' /\ Streams' /\ Episode'
    BY TaskStays DEF CallerInv
  <2>2. Pace'
    BY DEF CallerInv, Pace, Timely, Moves
  <2>3. ForceIsReleased'
    BY DEF CallerInv, ForceIsReleased, InEffect, Ended
  <2> QED BY <2>1, <2>2, <2>3 DEF CallerInv
<1>3. ResetInv'
  BY DEF ResetInv, ResetLeavesIdle, InFlightSince, InEffect, Ended
<1>4. SysidInv'
  BY DEF SysidInv, Slots, SysidKeepsPace, Endings, InFlightSince, InEffect
<1> QED BY <1>1, <1>2, <1>3, <1>4

LEMMA FaultInv ==
  ASSUME Inv, Fault, UNCHANGED <<heard, task, reset, sysid, program>>
  PROVE  Inv'
<1> USE DEF Inv, Fault, link
<1>1. Linked' /\ Alone'
  BY DEF Linked, Caches, Alone
<1>2. CallerInv'
  <2>1. Tasks' /\ Streams' /\ Episode'
    BY TaskStays DEF CallerInv
  <2>2. Pace'
    BY DEF CallerInv, Pace, Timely, Moves
  <2>3. ForceIsReleased'
    <3>1. UNCHANGED <<sent, waiting, cache>> /\ (effect' = effect \/ effect'.force = Zero)
      BY DEF Ended
    <3> QED BY <3>1 DEF CallerInv, ForceIsReleased
  <2> QED BY <2>1, <2>2, <2>3 DEF CallerInv
<1>3. ResetInv'
  BY DEF ResetInv, ResetLeavesIdle, InFlightSince, Ended
<1>4. SysidInv'
  BY DEF SysidInv, Slots, SysidKeepsPace, Endings, InFlightSince
<1> QED BY <1>1, <1>2, <1>3, <1>4

LEMMA TickInv ==
  ASSUME Inv, Tick, UNCHANGED <<heard, task, reset, sysid, program>>
  PROVE  Inv'
<1> USE RobotClientAssumption DEF Inv, Tick, daemon
<1>0. now \in Nat /\ waiting \in 0 .. Latency - 1 \union {None} /\ now' = now + 1
      /\ (waiting # None => waiting' # None /\ waiting' = waiting + 1) /\ (waiting = None => waiting' = None)
  BY DEF Linked
<1>1. Linked' /\ Alone'
  BY <1>0 DEF Linked, Caches, Alone
<1>2. CallerInv'
  <2>1. Tasks' /\ Streams' /\ Episode'
    BY TaskStays DEF CallerInv
  <2>2. Pace'
    BY <1>0 DEF CallerInv, Pace, Timely, Moves
  <2>3. ForceIsReleased'
    BY <1>0 DEF CallerInv, ForceIsReleased
  <2> QED BY <2>1, <2>2, <2>3 DEF CallerInv
<1>3. ResetInv'
  BY <1>0 DEF ResetInv, ResetLeavesIdle, InFlightSince
<1>4. SysidInv'
  <2>1. ASSUME sysid.pc # "unused" PROVE Slots'
    BY <1>0, <2>1 DEF SysidInv, Slots, SysidKeepsPace
  <2>2. ASSUME sysid.pc # "unused" PROVE Endings'
    BY <1>0, <2>2 DEF SysidInv, Endings, InFlightSince
  <2> QED BY <2>1, <2>2 DEF SysidInv
<1> QED BY <1>1, <1>2, <1>3, <1>4

LEMMA ReceiveInv ==
  ASSUME Inv, Receive, UNCHANGED <<task, reset, sysid, program>>
  PROVE  Inv'
<1> USE DEF Inv, Receive, link, daemon
<1>1. Linked' /\ Alone'
  BY DEF Linked, Caches, Alone
<1>2. CallerInv'
  <2>1. Tasks' /\ Streams' /\ Episode'
    BY TaskStays DEF CallerInv
  <2>2. Pace' /\ ForceIsReleased'
    BY DEF CallerInv, Pace, Timely, Moves, ForceIsReleased
  <2> QED BY <2>1, <2>2 DEF CallerInv
<1>3. ResetInv'
  BY DEF ResetInv, ResetLeavesIdle, InFlightSince
<1>4. SysidInv'
  BY DEF SysidInv, Slots, SysidKeepsPace, Endings, InFlightSince
<1> QED BY <1>1, <1>2, <1>3, <1>4

LEMMA WorldInv == Inv /\ World => Inv'
BY DeliverInv, FaultInv, TickInv, ReceiveInv DEF World, Hears

---------------------------------------------------------------------------
(* Steps of examples/reset.py.                                               *)
LEMMA ResetCalls ==
  ASSUME Linked, UNCHANGED <<open, sensor, seen, now>>
  PROVE  /\ \A pos : Target(pos) => Linked'
         /\ SendIdle(None, <<>>, FALSE) =>
              /\ Linked'
              /\ open => sent'.mode = "idle" /\ sent'.termination = FALSE /\ waiting' = 0 /\ waiting' # None
<1>1. Caches(cache)
  BY DEF Linked
<1>2. ASSUME NEW pos, Target(pos) PROVE Linked'
  <2>1. Caches(Loaded(cache, "cartesian_impedance", None))
    BY <1>1, LoadedCaches DEF Controllers
  <2>2. Caches(Stored(Loaded(cache, "cartesian_impedance", None), "cartesian_impedance", [K |-> "asked"]))
    BY <2>1, StoredCaches DEF Controllers, Settings
  <2> QED BY <1>2, <2>2, CallLinked DEF Target, SendCartesian
<1>3. ASSUME SendIdle(None, <<>>, FALSE)
      PROVE  /\ Linked'
             /\ open => sent'.mode = "idle" /\ sent'.termination = FALSE /\ waiting' = 0 /\ waiting' # None
  <2>1. Caches(Loaded(cache, "idle", None))
    BY <1>1, LoadedCaches DEF Controllers
  <2> DEFINE c == Stored(Loaded(cache, "idle", None), "idle", <<>>)
  <2>2. Caches(c)
    BY <2>1, StoredCaches DEF Controllers
  <2>3. Call(c, "idle", None, FALSE)
    BY <1>3 DEF SendIdle
  <2> HIDE DEF c
  <2>4. Linked' /\ (open => sent' = Command("idle", None, c["idle"], FALSE) /\ waiting' = 0 /\ waiting' # None)
    BY <2>2, <2>3, CallLinked
  <2> QED BY <2>4 DEF Command
<1> QED BY <1>2, <1>3

(* A step that the other programs have no part in.                           *)
LEMMA ResetAlone ==
  ASSUME Inv, ResetStep, Linked'
  PROVE  Alone' /\ CallerInv' /\ SysidInv'
<1>1. program = "reset" /\ UNCHANGED <<task, sysid, program>>
  BY DEF ResetStep
<1>2. task.kind = "none" /\ task' = NoTask /\ sysid'.pc = "unused"
  BY <1>1 DEF Inv, Alone, NoTask, SysidUnused
<1>3. Alone'
  BY <1>1 DEF Inv, Alone
<1>4. CallerInv'
  BY <1>1, <1>2 DEF CallerInv, Tasks, Pace, Streams, Episode, ForceIsReleased, Hybrid, Timely, Moves
<1>5. SysidInv'
  BY <1>2 DEF SysidInv
<1> QED BY <1>3, <1>4, <1>5

LEMMA ResetStepInv == Inv /\ ResetStep => Inv'
<1> SUFFICES ASSUME Inv, ResetStep PROVE Linked' /\ ResetInv'
  BY ResetAlone DEF Inv
<1>0. /\ Linked /\ ResetInv
      /\ now \in Nat /\ UNCHANGED <<effect, err, sensor, now>>
      /\ ResetNext
  BY DEF Inv, Linked, ResetStep, daemon
<1> USE DEF In
<1>1. CASE ResetConnects
  <2>1. Linked'
    BY <1>0, <1>1 DEF ResetConnects, Connect, Linked, Caches, link
  <2>2. ResetInv'
    BY <1>0, <1>1 DEF ResetConnects, Connect, Goes, ResetInv, ResetLeavesIdle, InFlightSince, ResetFields, link
  <2> QED BY <2>1, <2>2
<1>2. CASE ReadsPose \/ CountdownEnds \/ SettleBegins \/ Checks \/ HoldOrIdle \/ HoldEnds
  <2>1. UNCHANGED <<cache, open, link, seen>>
    BY <1>2 DEF ReadsPose, CountdownEnds, SettleBegins, Checks, HoldOrIdle, HoldEnds
  <2>2. Linked'
    BY <1>0, <2>1 DEF Linked, Caches, link
  <2>3. ResetInv'
    BY <1>0, <1>2, <2>1, ZenonT(30)
       DEF ReadsPose, CountdownEnds, SettleBegins, Checks, HoldOrIdle, HoldEnds, Goes,
           ResetInv, ResetLeavesIdle, InFlightSince, ResetFields, link
  <2> QED BY <2>2, <2>3
<1>3. CASE NoState \/ Aborts \/ RuckigFails \/ Leaves
  <2>1. Close
    BY <1>3 DEF NoState, Aborts, RuckigFails, Leaves, Exit
  <2>2. Linked'
    BY <1>0, <2>1 DEF Linked, Caches, Close, Unseen
  <2>3. reset.pc # "unused" /\ reset'.pc = "exited" /\ DOMAIN reset' = ResetFields /\ waiting' = None /\ sent' = sent
    BY <1>0, <1>3, <2>1 DEF NoState, Aborts, RuckigFails, Leaves, Exit, Close, ResetInv, ResetFields
  <2>4. CASE NoState \/ RuckigFails
    <3>1. reset'.result = "crashed"
      BY <1>0, <2>3, <2>4 DEF NoState, RuckigFails, Exit, ResetInv, ResetFields
    <3> QED BY <2>2, <2>3, <3>1 DEF ResetInv, ResetLeavesIdle
  <2>5. CASE Aborts
    <3>1. reset'.result = "aborted" /\ sent = None
      BY <1>0, <2>3, <2>5 DEF Aborts, Exit, ResetInv, ResetFields
    <3> QED BY <2>2, <2>3, <3>1 DEF ResetInv, ResetLeavesIdle
  <2>6. CASE Leaves
    <3>1. reset'.result = reset.result /\ reset.result # "aborted" /\ reset.pc = "idling" /\ now >= reset.until
      BY <1>0, <2>3, <2>6 DEF Leaves, Exit, ResetInv, ResetFields
    <3>2. waiting = None
      BY <1>0, <3>1, RobotClientAssumption DEF Linked, ResetInv, InFlightSince
    <3> QED BY <1>0, <2>2, <2>3, <3>1, <3>2 DEF ResetInv, ResetLeavesIdle
  <2> QED BY <1>3, <2>4, <2>5, <2>6
<1>4. CASE FirstTarget \/ NextTarget \/ Settles \/ Holds
  <2>1. \E pos : Target(pos)
    BY <1>4 DEF FirstTarget, NextTarget, Settles, Holds, Repeats
  <2>2. Linked'
    BY <1>0, <1>4, <2>1, ResetCalls DEF FirstTarget, NextTarget, Settles, Holds, Repeats
  <2>3. ResetInv'
    BY <1>0, <1>4
       DEF FirstTarget, NextTarget, Settles, Holds, Repeats, Paces, ResetInv, ResetLeavesIdle, InFlightSince, ResetFields
  <2> QED BY <2>2, <2>3
<1>5. CASE Idles
  <2>1. Linked'
    BY <1>0, <1>5, ResetCalls DEF Idles
  <2>2. sent'.mode = "idle" /\ sent'.termination = FALSE /\ waiting' = 0 /\ waiting' # None
    BY <1>0, <1>5, ResetCalls DEF Idles, ResetInv
  <2>3. ResetInv'
    BY <1>0, <1>5, <2>2, RobotClientAssumption
       DEF Idles, ResetInv, ResetLeavesIdle, InFlightSince, ResetFields
  <2> QED BY <2>1, <2>3
<1>6. CASE ResetInterrupted
  <2>1. CASE UNCHANGED <<cache, open, link, seen>>
    <3>1. Linked'
      BY <1>0, <2>1 DEF Linked, Caches, link
    <3>2. ResetInv'
      BY <1>0, <1>6, <2>1
         DEF ResetInterrupted, Goes, Exit, Close, ResetInv, ResetLeavesIdle, InFlightSince, ResetFields, link
    <3> QED BY <3>1, <3>2
  <2>2. CASE Exit("killed")
    <3>1. Linked'
      BY <1>0, <2>2 DEF Linked, Caches, Exit, Close, Unseen
    <3>2. DOMAIN reset' = ResetFields /\ reset'.pc = "exited" /\ reset'.result = "killed" /\ waiting' = None
      BY <1>0, <1>6, <2>2 DEF Exit, Close, ResetInterrupted, Goes, ResetInv, ResetFields
    <3>3. ResetInv'
      BY <3>2 DEF ResetInv, ResetLeavesIdle
    <3> QED BY <3>1, <3>3
  <2> QED BY <1>6, <2>1, <2>2 DEF ResetInterrupted
<1> QED BY <1>0, <1>1, <1>2, <1>3, <1>4, <1>5, <1>6 DEF ResetNext

---------------------------------------------------------------------------
(* Steps of examples/joint_sysid.py.  What has passed of a period:           *)
LEMMA Quotient ==
  ASSUME NEW n \in Nat
  PROVE  /\ n \div Period \in Nat
         /\ (n \div Period) * Period <= n
         /\ n < (n \div Period) * Period + Period
BY JointSysidAssumption

LEMMA LaterSlot ==
  ASSUME NEW q \in Nat, NEW k \in Nat, q < k
  PROVE  k * Period >= q * Period + Period
<1>1. ASSUME NEW d \in Nat PROVE (q + 1 + d) * Period >= q * Period + Period
  <2>1. (q + 1 + d) * Period = q * Period + Period + d * Period
    BY JointSysidAssumption
  <2>2. d * Period \in Nat /\ q * Period \in Nat
    BY JointSysidAssumption
  <2> QED BY <2>1, <2>2, JointSysidAssumption
<1>2. k - q - 1 \in Nat /\ q + 1 + (k - q - 1) = k
  OBVIOUS
<1> QED BY <1>1, <1>2

(* The slot after a command that was sent in or after its own is the first   *)
(* that has not begun.                                                       *)
LEMMA SlotAfter ==
  ASSUME {sysid.origin, sysid.slot, sysid.sentAt} \subseteq Nat,
         sysid.origin + sysid.slot * Period <= sysid.sentAt
  PROVE  LET next == sysid.origin + NextSlot * Period
         IN  /\ NextSlot \in Nat /\ next \in Nat
             /\ next - Period <= sysid.sentAt /\ sysid.sentAt < next
<1> DEFINE n == sysid.sentAt - sysid.origin
           q == n \div Period
<1>1. sysid.slot * Period \in Nat
  BY JointSysidAssumption
<1>2. n \in Nat /\ sysid.slot * Period <= n
  BY <1>1
<1>3. q \in Nat /\ q * Period <= n /\ n < q * Period + Period
  BY <1>2, Quotient
<1> HIDE DEF q
<1>4. ~(sysid.slot > q)
  <2>1. SUFFICES ASSUME q < sysid.slot PROVE FALSE
    BY <1>3
  <2>2. sysid.slot * Period >= q * Period + Period
    BY <1>3, <2>1, LaterSlot
  <2>3. q * Period \in Nat
    BY <1>3, JointSysidAssumption
  <2> QED BY <1>1, <1>2, <1>3, <2>2, <2>3, JointSysidAssumption
<1>5. NextSlot = q + 1
  BY <1>4 DEF NextSlot, q
<1>6. (q + 1) * Period = q * Period + Period /\ q * Period \in Nat
  BY <1>3, JointSysidAssumption
<1> QED BY <1>2, <1>3, <1>5, <1>6, JointSysidAssumption

LEMMA SysidAlone ==
  ASSUME Inv, SysidStep
  PROVE  Alone' /\ CallerInv' /\ ResetInv'
<1>1. program = "sysid" /\ UNCHANGED <<task, reset, program>>
  BY DEF SysidStep
<1>2. task.kind = "none" /\ task' = NoTask /\ reset'.pc = "unused" /\ reset'.result = None
  BY <1>1 DEF Inv, Alone, NoTask, ResetUnused
<1>3. Alone'
  BY <1>1 DEF Inv, Alone
<1>4. CallerInv'
  BY <1>1, <1>2 DEF CallerInv, Tasks, Pace, Streams, Episode, ForceIsReleased, Hybrid, Timely, Moves
<1>5. ResetInv'
  BY <1>2, ResetProgramAssumption DEF ResetInv, ResetLeavesIdle, Results
<1> QED BY <1>3, <1>4, <1>5

(* An exception or a signal takes the program to its next handler.           *)
LEMMA RaisedInv ==
  ASSUME Linked, SysidInv, sysid.pc \notin {"unused", "exited", "caught"}, UNCHANGED <<Robots, daemon, now>>,
         \/ sysid' = Raised /\ sysid.pc # "abort"
         \/ sysid' = [Raised EXCEPT !.signals = @ + 1, !.cut = @ \/ Is("abort")]
  PROVE  SysidInv'
<1>1. /\ DOMAIN sysid' = SysidFields
      /\ \A k \in SysidFields \ {"pc", "status", "signals", "cut"} : sysid'[k] = sysid[k]
      /\ sysid'.pc = Handler
      /\ sysid'.status = IF Handler = "abort" THEN "aborted" ELSE sysid.status
      /\ sysid'.cut \in BOOLEAN /\ (sysid.cut => sysid'.cut) /\ (sysid.pc = "abort" => sysid'.cut)
  BY ZenonT(60) DEF SysidInv, Endings, Raised, SysidFields, Is
<1>2. Handler \in {"abort", "write", "caught"}
  BY DEF Handler
<1>3. Slots'
  BY <1>1, <1>2 DEF SysidInv, Slots, SysidKeepsPace, SysidFields
<1>4. Endings'
  <2>1. /\ sysid'.pc \notin {"caught"} => sysid.pc \notin {"begin", "preview", "connect", "write", "close"}
        /\ sysid'.pc = "write" => sysid.pc \in {"abort", "aborting"}
        /\ sysid'.pc = "caught" => sysid.pc \in {"begin", "preview", "connect", "write", "close"}
    BY <1>1 DEF Handler, SysidInv, Endings, Places
  <2>2. /\ sysid.pc \in {"finishing", "aborting"} => sysid.termination # None
        /\ UNCHANGED <<open, effect>>
    BY JointSysidAssumption DEF SysidInv, Endings, Requests, Robots, daemon
  <2>3. sysid'.status = "completed" => sysid.status = "completed" /\ sysid'.pc # "abort"
    BY <1>1
  <2>4. /\ sysid'.attempted = sysid.attempted /\ sysid'.whole = sysid.whole /\ sysid'.sentAt = sysid.sentAt
        /\ sysid'.termination = sysid.termination /\ sysid'.disk = sysid.disk /\ sysid'.exit = sysid.exit
        /\ sysid'.finish = sysid.finish
    BY <1>1 DEF SysidFields
  <2>5. CASE sysid'.pc = "abort"
    BY <1>1, <2>1, <2>2, <2>3, <2>4, <2>5 DEF SysidInv, Endings, Places
  <2>6. CASE sysid'.pc = "write"
    BY <1>1, <2>1, <2>2, <2>3, <2>4, <2>6 DEF SysidInv, Endings, Places
  <2>7. CASE sysid'.pc = "caught"
    BY <1>1, <2>1, <2>2, <2>3, <2>4, <2>7 DEF SysidInv, Endings, Places
  <2> QED BY <1>1, <1>2, <2>5, <2>6, <2>7
<1> QED BY <1>1, <1>2, <1>3, <1>4 DEF SysidInv

(* A step that only writes fields of the program.                            *)
LEMMA RobotsLinked == Linked /\ UNCHANGED <<Robots, daemon, now>> => Linked'
BY DEF Linked, Caches, Robots, link, daemon

LEMMA StartsInv ==
  ASSUME Linked, SysidInv, Begins \/ Previews \/ SysidConnects \/ TakesAnchor \/ Rechecks, UNCHANGED <<daemon, now>>
  PROVE  Linked' /\ SysidInv'
<1> USE DEF Is, To, Unwell, Raises
<1>0. now \in Nat
  BY DEF Linked
<1>1. CASE Raises /\ UNCHANGED Robots
  <2>1. sysid.pc \notin {"unused", "exited", "caught", "abort"}
    BY DEF Begins, Previews, SysidConnects, TakesAnchor, Rechecks
  <2> QED BY <1>1, <2>1, RaisedInv, RobotsLinked
<1>2. ASSUME Begins, Writes("initializing", IF sysid.execute THEN "connect" ELSE "preview")
      PROVE  Linked' /\ SysidInv'
  <2>1. Linked'
    BY <1>2, RobotsLinked DEF Begins
  <2>2. DOMAIN sysid' = SysidFields /\ Slots'
    BY <1>2 DEF Begins, Writes, SysidInv, SysidFields, Slots, SysidKeepsPace
  <2>3. Endings'
    BY <1>2 DEF Begins, Writes, SysidInv, SysidFields, Endings, Places, Robots, daemon
  <2> QED BY <2>1, <2>2, <2>3 DEF SysidInv
<1>3. ASSUME Previews, sysid' = [sysid EXCEPT !.status = "preview", !.disk = "preview", !.pc = "exited", !.exit = 0]
      PROVE  Linked' /\ SysidInv'
  <2>1. Linked'
    BY <1>3, RobotsLinked DEF Previews
  <2>2. DOMAIN sysid' = SysidFields /\ Slots'
    BY <1>3 DEF Previews, SysidInv, SysidFields, Slots, SysidKeepsPace
  <2>3. Endings'
    BY <1>3 DEF Previews, SysidInv, SysidFields, Endings, Places, Robots, daemon
  <2> QED BY <2>1, <2>2, <2>3 DEF SysidInv
<1>4. CASE SysidConnects
  <2>1. Linked'
    BY <1>4 DEF SysidConnects, Connect, Linked, Caches, link, daemon
  <2>2. DOMAIN sysid' = SysidFields /\ Slots'
    BY <1>4 DEF SysidConnects, Connect, SysidInv, SysidFields, Slots, SysidKeepsPace
  <2>3. Endings'
    BY <1>4 DEF SysidConnects, Connect, SysidInv, SysidFields, Endings, Places, daemon
  <2> QED BY <2>1, <2>2, <2>3 DEF SysidInv
<1>5. ASSUME TakesAnchor,
             sysid' = [sysid EXCEPT !.anchor = heard.pos, !.status = "prepared", !.disk = "prepared", !.pc = "recheck"]
      PROVE  Linked' /\ SysidInv'
  <2>1. Linked'
    BY <1>5, RobotsLinked DEF TakesAnchor
  <2>2. DOMAIN sysid' = SysidFields /\ Slots'
    BY <1>5 DEF TakesAnchor, SysidInv, SysidFields, Slots, SysidKeepsPace
  <2>3. Endings'
    BY <1>5 DEF TakesAnchor, SysidInv, SysidFields, Endings, Places, Robots, daemon
  <2> QED BY <2>1, <2>2, <2>3 DEF SysidInv
<1>6. ASSUME Rechecks,
             sysid' = [sysid EXCEPT !.status = "running", !.disk = "running", !.pc = "sleep",
                                    !.origin = now, !.deadline = now]
      PROVE  Linked' /\ SysidInv'
  <2>1. Linked'
    BY <1>6, RobotsLinked DEF Rechecks
  <2>2. /\ DOMAIN sysid' = SysidFields /\ Slots
        /\ sysid'.slot = 0 /\ sysid.sentAt = None /\ sysid'.at = sysid.at /\ sysid'.sentAt = sysid.sentAt /\ sysid'.last = sysid.last
        /\ sysid'.origin = now /\ sysid'.deadline = now /\ sysid'.pc = "sleep"
    BY <1>6 DEF Rechecks, SysidInv, SysidFields, Slots, Endings
  <2>3. Slots'
    <3>1. sysid'.deadline = sysid'.origin + sysid'.slot * Period /\ sysid'.deadline \in Nat /\ sysid'.sentAt = None
      <4>1. 0 * Period = 0
        BY JointSysidAssumption
      <4>2. sysid'.origin + 0 * Period = now
        BY <1>0, <2>2, <4>1
      <4> QED BY <1>0, <2>2, <4>2
    <3> QED BY <1>0, <2>2, <3>1 DEF Slots, SysidKeepsPace
  <2>4. Endings'
    BY <1>6 DEF Rechecks, SysidInv, SysidFields, Endings, Places, Robots, daemon
  <2> QED BY <2>1, <2>2, <2>3, <2>4 DEF SysidInv
<1> QED BY <1>1, <1>2, <1>3, <1>4, <1>5, <1>6 DEF Begins, Previews, TakesAnchor, Rechecks

LEMMA WakesInv ==
  ASSUME Linked, SysidInv, Wakes, UNCHANGED <<daemon, now>>
  PROVE  Linked' /\ SysidInv'
<1>0. now \in Nat
  BY DEF Linked
<1>1. Linked'
  BY RobotsLinked DEF Wakes
<1>2. /\ DOMAIN sysid' = SysidFields /\ Slots /\ Endings
      /\ sysid.pc = "sleep" /\ sysid'.pc = "check" /\ now >= sysid.deadline
      /\ \A k \in SysidFields \ {"pc", "snapshot"} : sysid'[k] = sysid[k]
  BY DEF Wakes, Is, SysidInv, SysidFields
<1>3. Slots'
  BY <1>0, <1>2 DEF Slots, SysidKeepsPace, SysidFields
<1>4. Endings'
  BY <1>2 DEF Wakes, Endings, Places, SysidFields, Robots, daemon
<1> QED BY <1>1, <1>2, <1>3, <1>4 DEF SysidInv

(* Within the lateness allowed of its slot, a command comes at most a period *)
(* and that lateness after the one before.                                   *)
LEMMA ChecksInv ==
  ASSUME Linked, SysidInv, ChecksState, UNCHANGED <<daemon, now>>
  PROVE  Linked' /\ SysidInv'
<1>0. now \in Nat
  BY DEF Linked
<1>1. Linked'
  BY RobotsLinked DEF ChecksState
<1>2. CASE Unwell
  BY <1>1, <1>2, RaisedInv DEF ChecksState, Is, Unwell, Raises
<1>3. CASE ~Unwell
  <2>1. /\ DOMAIN sysid' = SysidFields /\ Slots /\ Endings
        /\ sysid.pc = "check" /\ sysid'.pc = "send" /\ sysid'.attempted = TRUE
        /\ sysid'.at = now /\ sysid'.last = sysid.sentAt
        /\ now - sysid.deadline <= MaxLateness
        /\ \A k \in SysidFields \ {"pc", "snapshot", "attempted", "last", "at"} : sysid'[k] = sysid[k]
    BY <1>3 DEF ChecksState, Is, Attempted, InTime, SysidInv, SysidFields
  <2>2. SysidKeepsPace'
    <3>1. SUFFICES ASSUME sysid.sentAt # None PROVE now > sysid.sentAt /\ now - sysid.sentAt <= Period + MaxLateness
      BY <2>1 DEF SysidKeepsPace
    <3>2. /\ sysid.sentAt \in Nat /\ sysid.deadline \in Nat /\ sysid.deadline <= now
          /\ sysid.deadline - Period <= sysid.sentAt /\ sysid.sentAt < sysid.deadline
      BY <2>1, <3>1 DEF Slots
    <3> QED BY <1>0, <2>1, <3>2, JointSysidAssumption
  <2>3. Slots'
    BY <1>0, <2>1, <2>2 DEF Slots, SysidFields
  <2>4. Endings'
    <3>1. UNCHANGED <<open, effect>>
      BY DEF ChecksState, Robots, daemon
    <3>2. \A k \in {"exit", "finish", "status", "disk", "termination", "whole", "until", "cut", "sentAt"} : sysid'[k] = sysid[k]
      BY <2>1 DEF SysidFields
    <3> QED BY <2>1, <3>1, <3>2, ZenonT(30) DEF Endings, Places
  <2> QED BY <1>1, <2>1, <2>3, <2>4 DEF SysidInv
<1> QED BY <1>2, <1>3

LEMMA SendsInv ==
  ASSUME Linked, SysidInv, SendsTarget, UNCHANGED <<daemon, now>>
  PROVE  Linked' /\ SysidInv'
<1>0. now \in Nat
  BY DEF Linked
<1>1. CASE Unwell /\ UNCHANGED <<cache, link>>
  <2>1. UNCHANGED Robots /\ sysid.pc = "send"
    BY <1>1 DEF SendsTarget, Robots, Is
  <2> QED BY <1>1, <2>1, RaisedInv, RobotsLinked DEF Unwell, Raises
<1>2. ASSUME SendJoint(None, [K |-> "asked"], sysid.anchor), sysid' = [sysid EXCEPT !.sentAt = now, !.pc = "sent"]
      PROVE  Linked' /\ SysidInv'
  <2>1. Linked'
    <3>1. Caches(Loaded(cache, "joint_impedance", None))
      BY LoadedCaches DEF Linked, Controllers
    <3>2. Caches(Stored(Loaded(cache, "joint_impedance", None), "joint_impedance", [K |-> "asked"]))
      BY <3>1, StoredCaches DEF Controllers, Settings
    <3> QED BY <1>2, <3>2, CallLinked DEF SendsTarget, SendJoint, daemon
  <2>2. /\ DOMAIN sysid' = SysidFields /\ Slots /\ Endings
        /\ sysid.pc = "send" /\ sysid'.pc = "sent" /\ sysid'.sentAt = now
        /\ \A k \in SysidFields \ {"pc", "sentAt"} : sysid'[k] = sysid[k]
    BY <1>2 DEF SendsTarget, Is, SysidInv, SysidFields
  <2>3. Slots'
    BY <1>0, <2>2 DEF Slots, SysidKeepsPace, SysidFields
  <2>4. Endings'
    BY <2>2 DEF SendsTarget, Endings, Places, SysidFields, daemon
  <2> QED BY <2>1, <2>2, <2>3, <2>4 DEF SysidInv
<1> QED BY <1>1, <1>2 DEF SendsTarget

LEMMA SentInv ==
  ASSUME Linked, SysidInv, Sent, UNCHANGED <<daemon, now>>
  PROVE  Linked' /\ SysidInv'
<1>0. now \in Nat
  BY DEF Linked
<1>1. Linked'
  BY RobotsLinked DEF Sent
<1>2. DOMAIN sysid = SysidFields /\ Slots /\ Endings /\ sysid.pc = "sent"
  BY DEF Sent, Is, SysidInv
<1>3. CASE Unwell
  BY <1>1, <1>2, <1>3, RaisedInv DEF Sent, Unwell, Raises
<1>4. CASE sysid' = [sysid EXCEPT !.whole = TRUE, !.pc = "finish"]
  <2>1. DOMAIN sysid' = SysidFields /\ Slots'
    BY <1>2, <1>4 DEF Slots, SysidKeepsPace, SysidFields
  <2>2. Endings'
    BY <1>2, <1>4 DEF Sent, Endings, Places, SysidFields, Robots, daemon
  <2> QED BY <1>1, <2>1, <2>2 DEF SysidInv
<1>5. CASE sysid' = [sysid EXCEPT !.slot = NextSlot, !.deadline = sysid.origin + NextSlot * Period, !.pc = "sleep"]
  <2> DEFINE next == sysid.origin + NextSlot * Period
  <2>1. /\ NextSlot \in Nat /\ next \in Nat
        /\ next - Period <= sysid.sentAt /\ sysid.sentAt < next
    <3>1. /\ {sysid.origin, sysid.slot, sysid.sentAt} \subseteq Nat
          /\ sysid.origin + sysid.slot * Period <= sysid.sentAt
      BY <1>2 DEF Slots
    <3> QED BY <3>1, SlotAfter
  <2>2. /\ DOMAIN sysid' = SysidFields
        /\ sysid'.pc = "sleep" /\ sysid'.slot = NextSlot /\ sysid'.deadline = next
        /\ \A k \in SysidFields \ {"pc", "slot", "deadline"} : sysid'[k] = sysid[k]
    BY <1>2, <1>5 DEF SysidFields
  <2>3. sysid'.deadline = sysid'.origin + sysid'.slot * Period
    BY <2>2 DEF SysidFields
  <2> HIDE DEF next
  <2>4. Slots'
    BY <1>0, <1>2, <2>1, <2>2, <2>3 DEF Slots, SysidKeepsPace, SysidFields
  <2>5. Endings'
    BY <1>2, <2>2 DEF Sent, Endings, Places, SysidFields, Robots, daemon
  <2> QED BY <1>1, <2>2, <2>4, <2>5 DEF SysidInv
<1> QED BY <1>3, <1>4, <1>5 DEF Sent

(* A program that slept for the flush time has an empty socket.              *)
LEMMA Flushed ==
  ASSUME Linked, NEW until \in Nat, InFlightSince(until - Flush), now >= until
  PROVE  waiting = None
<1>1. SUFFICES ASSUME waiting # None PROVE FALSE
  OBVIOUS
<1>2. waiting \in 0 .. Latency - 1 /\ waiting = now - (until - Flush) /\ now \in Nat
  BY <1>1 DEF Linked, InFlightSince
<1> QED BY <1>2, RobotClientAssumption

LEMMA TerminateSent ==
  ASSUME Linked, open, Terminate, UNCHANGED <<open, sensor, seen, now>>
  PROVE  Linked' /\ sent'.termination /\ waiting' = 0 /\ waiting' # None
<1>1. Caches(Loaded(cache, "idle", None))
  BY LoadedCaches DEF Linked, Controllers
<1> DEFINE c == Stored(Loaded(cache, "idle", None), "idle", <<>>)
<1>2. Caches(c)
  BY <1>1, StoredCaches DEF Controllers
<1>3. Call(c, "idle", None, TRUE)
  BY DEF Terminate, SendIdle
<1> HIDE DEF c
<1>4. Linked' /\ sent' = Command("idle", None, c["idle"], TRUE) /\ waiting' = 0 /\ waiting' # None
  BY <1>2, <1>3, CallLinked
<1> QED BY <1>4 DEF Command

LEMMA RequestsInv ==
  ASSUME Linked, SysidInv, UNCHANGED <<daemon, now>>,
         NEW pc, RequestsTermination(pc),
         \/ sysid.pc = "finish" /\ pc = "finishing"
         \/ sysid.pc = "abort" /\ pc = "aborting"
  PROVE  Linked' /\ SysidInv'
<1>0. now \in Nat /\ DOMAIN sysid = SysidFields /\ Slots /\ Endings /\ open
      /\ UNCHANGED <<open, effect>>
  BY DEF Linked, SysidInv, Endings, RequestsTermination, daemon
<1>1. ASSUME Terminate, sysid' = [sysid EXCEPT !.termination = "attempted", !.until = now + Flush, !.pc = pc]
      PROVE  Linked' /\ SysidInv'
  <2>1. Linked' /\ sent'.termination /\ waiting' = 0 /\ waiting' # None
    BY <1>0, <1>1, TerminateSent DEF RequestsTermination, daemon
  <2>2. /\ DOMAIN sysid' = SysidFields
        /\ sysid'.pc = pc /\ sysid'.termination = "attempted" /\ sysid'.until = now + Flush
        /\ \A k \in SysidFields \ {"pc", "termination", "until"} : sysid'[k] = sysid[k]
    BY <1>0, <1>1 DEF SysidFields
  <2>3. Slots'
    BY <1>0, <2>2 DEF Slots, SysidKeepsPace, SysidFields
  <2>4. \A k \in {"exit", "finish", "status", "disk", "attempted", "whole", "cut", "sentAt"} : sysid'[k] = sysid[k]
    BY <2>2 DEF SysidFields
  <2>5. sysid'.until \in Nat /\ InFlightSince(sysid.until - Flush)'
    BY <1>0, <2>1, <2>2, RobotClientAssumption DEF InFlightSince
  <2>6. Endings'
    BY <1>0, <2>1, <2>2, <2>4, <2>5 DEF Endings, Places
  <2> QED BY <2>1, <2>2, <2>3, <2>6 DEF SysidInv
<1>2. ASSUME UNCHANGED <<cache, link>>,
             sysid' = [sysid EXCEPT !.termination = "request_failed", !.status = "aborted",
                                    !.pc = IF pc = "finishing" THEN "abort" ELSE "write"]
      PROVE  Linked' /\ SysidInv'
  <2>1. Linked'
    BY <1>2, RobotsLinked DEF RequestsTermination, Robots
  <2>2. /\ DOMAIN sysid' = SysidFields
        /\ sysid'.pc = IF pc = "finishing" THEN "abort" ELSE "write"
        /\ sysid'.termination = "request_failed" /\ sysid'.status = "aborted"
        /\ \A k \in SysidFields \ {"pc", "termination", "status"} : sysid'[k] = sysid[k]
    BY <1>0, <1>2 DEF SysidFields
  <2>3. Slots'
    BY <1>0, <2>2 DEF Slots, SysidKeepsPace, SysidFields
  <2>4. \A k \in {"exit", "finish", "disk", "attempted", "whole", "cut", "sentAt"} : sysid'[k] = sysid[k]
    BY <2>2 DEF SysidFields
  <2>5. sysid'.termination # None
    BY <2>2, JointSysidAssumption DEF Requests
  <2>6. Endings'
    BY <1>0, <2>2, <2>4, <2>5 DEF Endings, Places
  <2> QED BY <2>1, <2>2, <2>3, <2>6 DEF SysidInv
<1> QED BY <1>1, <1>2 DEF RequestsTermination

LEMMA RequestedInv ==
  ASSUME Linked, SysidInv, FinishRequested \/ AbortRequested, UNCHANGED <<daemon, now>>
  PROVE  Linked' /\ SysidInv'
<1>0. DOMAIN sysid = SysidFields /\ Slots /\ Endings /\ sysid.pc \in {"finishing", "aborting"}
      /\ UNCHANGED <<open, effect>>
  BY DEF SysidInv, FinishRequested, AbortRequested, Requested, Is, Robots, daemon
<1>1. Linked'
  BY RobotsLinked DEF FinishRequested, AbortRequested, Requested
<1>2. effect = Ended
  <2>1. sysid.until \in Nat /\ InFlightSince(sysid.until - Flush) /\ now >= sysid.until
    BY <1>0 DEF Endings, FinishRequested, AbortRequested, Requested
  <2>2. waiting = None
    BY <2>1, Flushed
  <2> QED BY <1>0, <2>2 DEF Endings
<1>3. /\ DOMAIN sysid' = SysidFields
      /\ sysid'.pc = IF sysid.pc = "finishing" THEN "complete" ELSE "write"
      /\ sysid'.termination = "requested_unconfirmed" /\ "requested_unconfirmed" # None
      /\ \A k \in SysidFields \ {"pc", "termination"} : sysid'[k] = sysid[k]
  BY <1>0, JointSysidAssumption DEF FinishRequested, AbortRequested, Requested, Is, SysidFields, Requests
<1>4. Slots'
  BY <1>0, <1>3 DEF Slots, SysidKeepsPace, SysidFields
<1>5. Endings'
  <2>1. \A k \in {"exit", "finish", "status", "disk", "attempted", "whole", "cut", "sentAt"} : sysid'[k] = sysid[k]
    BY <1>3 DEF SysidFields
  <2> QED BY <1>0, <1>2, <1>3, <2>1 DEF Endings, Places
<1> QED BY <1>1, <1>3, <1>4, <1>5 DEF SysidInv

LEMMA EndsInv ==
  ASSUME Linked, SysidInv, Finishes \/ Completes \/ Aborting \/ LastWrite, UNCHANGED <<daemon, now>>
  PROVE  Linked' /\ SysidInv'
<1>0. /\ DOMAIN sysid = SysidFields /\ Slots /\ Endings
      /\ sysid.pc \in {"finish", "complete", "abort", "write"}
  BY DEF SysidInv, Finishes, Completes, Aborting, LastWrite, Is
<1>1. CASE Finishes /\ sysid.finish = "terminate"
  BY <1>1, RequestsInv DEF Finishes, Is
<1>2. CASE Aborting /\ sysid.attempted
  BY <1>2, RequestsInv DEF Aborting, Is
<1>3. CASE Finishes /\ sysid.finish # "terminate"
  <2>1. Linked' /\ UNCHANGED <<open, effect>>
    BY <1>3, RobotsLinked DEF Finishes, Robots, daemon
  <2>2. /\ DOMAIN sysid' = SysidFields
        /\ sysid.pc = "finish" /\ sysid'.pc = "complete"
        /\ \A k \in SysidFields \ {"pc"} : sysid'[k] = sysid[k]
    BY <1>0, <1>3 DEF Finishes, Is, To, SysidFields
  <2>3. Slots'
    BY <1>0, <2>1, <2>2 DEF Slots, SysidKeepsPace, SysidFields
  <2>4. Endings'
    BY <1>0, <1>3, <2>1, <2>2 DEF Endings, Places, SysidFields
  <2> QED BY <2>1, <2>2, <2>3, <2>4 DEF SysidInv
<1>4. CASE Aborting /\ ~sysid.attempted
  <2>1. Linked' /\ UNCHANGED <<open, effect>>
    BY <1>4, RobotsLinked DEF Aborting, Robots, daemon
  <2>2. /\ DOMAIN sysid' = SysidFields
        /\ sysid.pc = "abort" /\ sysid'.pc = "write"
        /\ \A k \in SysidFields \ {"pc"} : sysid'[k] = sysid[k]
    BY <1>0, <1>4 DEF Aborting, Is, To, SysidFields
  <2>3. Slots'
    BY <1>0, <2>1, <2>2 DEF Slots, SysidKeepsPace, SysidFields
  <2>4. Endings'
    BY <1>0, <1>4, <2>1, <2>2 DEF Endings, Places, SysidFields
  <2> QED BY <2>1, <2>2, <2>3, <2>4 DEF SysidInv
<1>5. CASE Completes
  <2>1. Linked' /\ UNCHANGED <<open, effect>>
    BY <1>5, RobotsLinked DEF Completes, Robots, daemon
  <2>2. /\ DOMAIN sysid' = SysidFields
        /\ sysid.pc = "complete" /\ sysid'.pc = "write" /\ sysid'.status = "completed"
        /\ \A k \in SysidFields \ {"pc", "status"} : sysid'[k] = sysid[k]
    BY <1>0, <1>5 DEF Completes, Is, SysidFields
  <2>3. Slots'
    BY <1>0, <2>1, <2>2 DEF Slots, SysidKeepsPace, SysidFields
  <2>4. Endings'
    BY <1>0, <2>1, <2>2 DEF Endings, Places, SysidFields
  <2> QED BY <2>1, <2>2, <2>3, <2>4 DEF SysidInv
<1>6. CASE LastWrite
  <2>1. Linked' /\ UNCHANGED <<open, effect>> /\ UNCHANGED Robots
    BY <1>6, RobotsLinked DEF LastWrite, Robots, daemon
  <2>2. CASE Raises
    BY <1>0, <2>1, <2>2, <1>6, RaisedInv DEF LastWrite, Raises, Is
  <2>3. CASE Writes(sysid.status, IF sysid.status = "completed" THEN "close" ELSE "caught")
    <3>1. /\ DOMAIN sysid' = SysidFields
          /\ sysid.pc = "write" /\ sysid'.pc = IF sysid.status = "completed" THEN "close" ELSE "caught"
          /\ sysid'.status = sysid.status /\ sysid'.disk = sysid.status
          /\ \A k \in SysidFields \ {"pc", "status", "disk"} : sysid'[k] = sysid[k]
      BY <1>0, <1>6, <2>3 DEF LastWrite, Writes, Is, SysidFields
    <3>2. Slots'
      BY <1>0, <2>1, <3>1 DEF Slots, SysidKeepsPace, SysidFields
    <3>3. Endings'
      BY <1>0, <2>1, <3>1 DEF Endings, Places, SysidFields
    <3> QED BY <2>1, <3>1, <3>2, <3>3 DEF SysidInv
  <2> QED BY <1>6, <2>2, <2>3 DEF LastWrite
<1> QED BY <1>1, <1>2, <1>3, <1>4, <1>5, <1>6

LEMMA LeavesInv ==
  ASSUME Linked, SysidInv, Closes \/ Catches, UNCHANGED <<daemon, now>>
  PROVE  Linked' /\ SysidInv'
<1>0. /\ DOMAIN sysid = SysidFields /\ Slots /\ Endings
      /\ sysid.pc \in {"close", "caught"} /\ UNCHANGED effect
  BY DEF SysidInv, Closes, Catches, Is, daemon
<1>1. Linked'
  <2>1. CASE Close
    BY <2>1 DEF Linked, Caches, Close, Unseen, daemon
  <2>2. CASE UNCHANGED Robots
    BY <2>2, RobotsLinked
  <2> QED BY <2>1, <2>2 DEF Closes, Catches
<1>2. CASE Closes
  <2>1. /\ DOMAIN sysid' = SysidFields
        /\ sysid.pc = "close" /\ sysid'.pc = "exited" /\ sysid'.exit = 0
        /\ \A k \in SysidFields \ {"pc", "exit"} : sysid'[k] = sysid[k]
    BY <1>0, <1>2 DEF Closes, Is, SysidFields
  <2>2. Slots'
    BY <1>0, <2>1 DEF Slots, SysidKeepsPace, SysidFields
  <2>3. Endings'
    BY <1>0, <2>1 DEF Endings, Places, SysidFields
  <2> QED BY <1>1, <2>1, <2>2, <2>3 DEF SysidInv
<1>3. CASE Catches
  <2>1. /\ DOMAIN sysid' = SysidFields
        /\ sysid.pc = "caught" /\ sysid'.pc = "exited" /\ sysid'.exit = 1
        /\ sysid'.status \in {"aborted", "failed"}
        /\ sysid'.disk \in {"failed", sysid.disk}
        /\ \A k \in SysidFields \ {"pc", "exit", "status", "disk"} : sysid'[k] = sysid[k]
    BY <1>0, <1>3, ZenonT(30) DEF Catches, Is, SysidFields
  <2>2. Slots'
    BY <1>0, <2>1 DEF Slots, SysidKeepsPace, SysidFields
  <2>3. Endings'
    BY <1>0, <2>1 DEF Endings, Places, SysidFields
  <2> QED BY <1>1, <2>1, <2>2, <2>3 DEF SysidInv
<1> QED BY <1>2, <1>3

LEMMA SysidStepInv == Inv /\ SysidStep => Inv'
<1> SUFFICES ASSUME Inv, SysidStep PROVE Linked' /\ SysidInv'
  BY SysidAlone DEF Inv
<1>1. Linked /\ SysidInv /\ UNCHANGED <<daemon, now>> /\ SysidNext
  BY DEF Inv, SysidStep
<1>2. CASE Signalled
  BY <1>1, <1>2, RaisedInv, RobotsLinked DEF Signalled
<1>3. CASE ~Signalled
  BY <1>1, <1>3, StartsInv, WakesInv, ChecksInv, SendsInv, SentInv, RequestedInv, EndsInv, LeavesInv DEF SysidNext
<1> QED BY <1>2, <1>3

---------------------------------------------------------------------------
(* Steps of a caller.                                                        *)
LEMMA CallerAlone ==
  ASSUME Inv, CallerStep
  PROVE  Alone' /\ ResetInv' /\ SysidInv'
<1>1. /\ program = "caller" /\ program' = "caller"
      /\ reset' = ResetUnused /\ sysid' = SysidUnused
  BY DEF CallerStep, Inv, Alone
<1>2. Alone'
  BY <1>1 DEF Alone
<1>3. ResetInv'
  BY <1>1, ResetProgramAssumption DEF ResetInv, ResetLeavesIdle, ResetUnused, Results
<1>4. SysidInv'
  BY <1>1 DEF SysidInv, SysidUnused
<1> QED BY <1>2, <1>3, <1>4

LEMMA NoTaskInv ==
  ASSUME task' = NoTask
  PROVE  CallerInv'
BY DEF NoTask, CallerInv, Tasks, Pace, Streams, Episode, ForceIsReleased, Hybrid, Timely, Moves

LEMMA GivenCaches ==
  ASSUME NEW c, Caches(c), NEW ctl \in Controllers, NEW file, NEW given, DOMAIN given \subseteq Settings(ctl)
  PROVE  Caches(Stored(Loaded(c, ctl, file), ctl, given))
BY LoadedCaches, StoredCaches

LEMMA GivenNames ==
  ASSUME NEW wish, NEW names
  PROVE  /\ DOMAIN Given(wish, names) = {k \in names : wish[k] # None}
         /\ \A k \in names : wish[k] # None => Given(wish, names)[k] = wish[k]
BY DEF Given

LEMMA StiffCaches ==
  ASSUME NEW c, Caches(c), NEW K
  PROVE  /\ Caches(SetStiffness(c, K))
         /\ SetStiffness(c, K)["cartesian_impedance"].K = IF K = None THEN c["cartesian_impedance"].K ELSE K
<1>1. CASE K = None
  BY <1>1 DEF SetStiffness
<1>2. CASE K # None
  <2> DEFINE cart == Stored(c, "cartesian_impedance", [K |-> K])
  <2>1. Caches(cart) /\ cart["cartesian_impedance"] = Updated(c["cartesian_impedance"], [K |-> K])
    BY StoredCaches DEF Controllers, Settings
  <2> HIDE DEF cart
  <2>2. /\ Caches(Stored(cart, "admittance", [K |-> K]))
        /\ Stored(cart, "admittance", [K |-> K])["cartesian_impedance"] = cart["cartesian_impedance"]
    BY <2>1, StoredCaches DEF Controllers, Settings
  <2>3. cart["cartesian_impedance"].K = K
    BY <2>1 DEF Updated
  <2>4. SetStiffness(c, K) = Stored(cart, "admittance", [K |-> K])
    BY <1>2 DEF SetStiffness, cart
  <2> QED BY <1>2, <2>2, <2>3, <2>4
<1> QED BY <1>1, <1>2

(* A hybrid call stores what was given, and sends it unless n_af is wrong.   *)
LEMMA HybridLinked ==
  ASSUME Linked, NEW c, Caches(c), NEW given, DOMAIN given \subseteq Settings("hybrid"), NEW pos,
         SendHybrid(c, given, pos), UNCHANGED <<open, sensor, seen>>, now' \in {now, 0}
  PROVE  /\ Linked'
         /\ cache'["hybrid"] = Updated(c["hybrid"], given)
         /\ open /\ cache'["hybrid"].n_af \in 0 .. Cardinality(Axes) =>
              sent' = Command("hybrid", pos, cache'["hybrid"], FALSE) /\ waiting' = 0 /\ waiting' # None
<1> DEFINE h == Stored(c, "hybrid", given)
<1>1. Caches(h) /\ h["hybrid"] = Updated(c["hybrid"], given)
  BY StoredCaches DEF Controllers
<1>2. \/ Call(h, "hybrid", pos, FALSE) /\ h["hybrid"].n_af \in 0 .. Cardinality(Axes)
      \/ cache' = h /\ UNCHANGED link /\ h["hybrid"].n_af \notin 0 .. Cardinality(Axes)
  BY DEF SendHybrid
<1> HIDE DEF h
<1>3. CASE Call(h, "hybrid", pos, FALSE) /\ h["hybrid"].n_af \in 0 .. Cardinality(Axes)
  BY <1>1, <1>3, CallLinked
<1>4. CASE cache' = h /\ UNCHANGED link /\ h["hybrid"].n_af \notin 0 .. Cardinality(Axes)
  <2>1. Linked'
    BY <1>1, <1>4 DEF Linked, Caches, link
  <2>2. cache'["hybrid"] = h["hybrid"]
    BY <1>4
  <2> QED BY <1>1, <1>4, <2>1, <2>2
<1> QED BY <1>2, <1>3, <1>4

(* What a command of run_hybrid_force_position() leaves in the cache.        *)
LEMMA SelectionGiven ==
  ASSUME NEW S \in SUBSET Axes, NEW given, DOMAIN given \subseteq {"caps", "K"}, NEW old
  PROVE  LET all == Updated(Updated(SelectionToTr(S), [wrench |-> ForceToTr(S, UnitForce)]), given)
             new == Updated(old, all)
         IN  /\ DOMAIN all \subseteq Settings("hybrid")
             /\ new.Tr = SelectionToTr(S).Tr /\ new.n_af = Cardinality(S)
             /\ new.wrench = [slot \in Axes |-> IF slot <= Cardinality(S) THEN 1 ELSE 0]
             /\ \A k \in {"caps", "K"} \cap DOMAIN old :
                  new[k] = IF k \in DOMAIN given THEN given[k] ELSE old[k]
<1> DEFINE slots == ForceToTr(S, UnitForce)
           base == Updated(SelectionToTr(S), [wrench |-> slots])
           all == Updated(base, given)
           new == Updated(old, all)
<1>1. /\ DOMAIN base = {"Tr", "n_af", "wrench"}
      /\ base.Tr = SelectionToTr(S).Tr /\ base.n_af = Cardinality(S) /\ base.wrench = slots
  BY DEF Updated, SelectionToTr
<1> HIDE DEF base
<1>2. /\ DOMAIN all = {"Tr", "n_af", "wrench"} \union DOMAIN given
      /\ \A k \in DOMAIN all : all[k] = IF k \in DOMAIN given THEN given[k] ELSE base[k]
  BY <1>1 DEF Updated
<1> HIDE DEF all
<1>3. /\ DOMAIN new = DOMAIN old \union DOMAIN all
      /\ \A k \in DOMAIN new : new[k] = IF k \in DOMAIN all THEN all[k] ELSE old[k]
  BY DEF Updated
<1> HIDE DEF new
<1>4. new.Tr = base.Tr /\ new.n_af = base.n_af /\ new.wrench = base.wrench
  BY <1>2, <1>3
<1>5. \A k \in {"caps", "K"} \cap DOMAIN old : new[k] = IF k \in DOMAIN given THEN given[k] ELSE old[k]
  BY <1>2, <1>3
<1>6. DOMAIN all \subseteq Settings("hybrid")
  BY <1>2 DEF Settings
<1> QED BY <1>1, <1>4, <1>5, <1>6, UnitInSlots DEF base, all, new

(* An iteration that was due sends at most twice in its instant, and after   *)
(* the second time the next is due later.                                    *)
LEMMA IteratedPace ==
  ASSUME Tasks, Pace, Timely, Due, now \in Nat, now' = now, task' \in {Iterated, [Iterated EXCEPT !.pc = "raised"]}
  PROVE  Pace'
<1>1. {"kind", "next", "burst"} \subseteq DOMAIN task
  BY DEF Tasks, Timely, Hybrid, HybridFields, LoopFields
<1>2. /\ task.next \in Nat /\ task.next <= now
      /\ task.burst[1] \in 0 .. now /\ task.burst[2] \in 0 .. 2
      /\ task.burst[2] = 1 => task.next >= task.burst[1]
      /\ task.burst[2] = 2 => task.next > task.burst[1]
  BY DEF Pace, Due
<1>3. /\ task'.kind = task.kind
      /\ task'.next = Reanchored(task.next)
      /\ task'.burst = <<now, IF task.burst[1] = now THEN task.burst[2] + 1 ELSE 1>>
  BY <1>1 DEF Iterated
<1>4. Reanchored(task.next) \in Nat /\ Reanchored(task.next) >= now /\ (task.next = now => Reanchored(task.next) > now)
  BY <1>2 DEF Reanchored
<1>5. task.burst[1] = now => task.burst[2] \in {0, 1} /\ (task.burst[2] = 1 => task.next = now)
  BY <1>2
<1>6. /\ task'.burst[1] = now /\ task'.burst[2] \in 1 .. 2
      /\ task'.burst = <<task'.burst[1], task'.burst[2]>>
      /\ task'.burst[2] = 2 => task'.next > now
  BY <1>3, <1>4, <1>5
<1> QED BY <1>3, <1>4, <1>6 DEF Pace, Timely, Moves

(* The beginning of a hybrid task. *)
LEMMA BeganFields ==
  ASSUME NEW kind \in {"run", "apply"}, NEW wish \in Wishes, NEW forced \in SUBSET Axes, NEW pc,
         kind = "apply" => \E a \in Axes : forced = {a}, now' = 0,
         \/ pc = "loop" /\ task' = Began(kind, wish, forced)
         \/ pc = "refused" /\ task' = [Began(kind, wish, forced) EXCEPT !.pc = "refused"]
  PROVE  /\ Tasks' /\ Pace' /\ Episode' /\ ForceIsReleased'
         /\ task'.kind = kind /\ task'.pc = pc /\ task'.first = TRUE /\ task'.wish = wish
         /\ task'.found = Found(wish)
<1>1. /\ DOMAIN task' = HybridFields
      /\ task'.kind = kind /\ task'.pc = pc /\ task'.first = TRUE /\ task'.wish = wish
      /\ task'.found = Found(wish) /\ task'.forced = forced /\ task'.aborted = FALSE
      /\ task'.next = 0 /\ task'.burst = <<0, 0>>
  BY DEF Began, HybridFields
<1>2. Tasks'
  BY <1>1 DEF Tasks, Hybrid, Moves
<1>3. Pace'
  BY <1>1 DEF Pace, Timely, Moves
<1>4. Episode' /\ ForceIsReleased'
  BY <1>1 DEF Episode, ForceIsReleased
<1> QED BY <1>1, <1>2, <1>3, <1>4

LEMMA RunBeginInv ==
  ASSUME Linked, CallerInv, UNCHANGED <<open, sensor, seen>>,
         NEW wish \in Wishes, NEW forced \in Selections, RunBegin(wish, forced)
  PROVE  Linked' /\ CallerInv'
<1>1. /\ now' = 0 /\ UNCHANGED <<cache, link>> /\ seen.valid /\ seen.ft
      /\ task' = Began("run", wish, forced)
  BY DEF RunBegin, NextCall, FtSensor
<1>2. Linked'
  BY <1>1 DEF Linked, Caches, link
<1>3. /\ Tasks' /\ Pace' /\ Episode' /\ ForceIsReleased'
      /\ task'.kind = "run" /\ task'.pc = "loop" /\ task'.first = TRUE /\ task'.wish = wish
      /\ task'.found = Found(wish)
  <2>1. forced \in SUBSET Axes /\ "run" \in {"run", "apply"}
    BY ForceTasksAssumption
  <2> QED BY <1>1, <2>1, BeganFields
<1>4. Streams'
  <2>1. open' /\ sensor'
    BY <1>1 DEF Linked
  <2>2. \A k \in {"caps", "K"} : task'.found[k] = Loaded(cache', "hybrid", task'.wish.profile)["hybrid"][k]
    BY <1>1, <1>3 DEF Found
  <2> QED BY <1>3, <2>1, <2>2 DEF Streams, Hybrid
<1> QED BY <1>2, <1>3, <1>4 DEF CallerInv

LEMMA ApplyBeginInv ==
  ASSUME Linked, CallerInv, UNCHANGED <<open, sensor, seen>>,
         NEW wish \in Wishes, NEW axis \in Axes, ApplyBegin(wish, axis)
  PROVE  Linked' /\ CallerInv'
<1> DEFINE loaded == Loaded(cache, "hybrid", wish.profile)
           given == Given(wish, {"K"})
           refused == IF FtSensor(TRUE) THEN "loop" ELSE "refused"
<1>1. /\ now' = 0 /\ UNCHANGED link
      /\ cache' = Stored(loaded, "hybrid", given)
      /\ \/ refused = "loop" /\ task' = Began("apply", wish, {axis})
         \/ refused = "refused" /\ task' = [Began("apply", wish, {axis}) EXCEPT !.pc = "refused"]
  BY DEF ApplyBegin, NextCall
<1>2. Caches(loaded)
  BY LoadedCaches DEF Linked, Controllers
<1>3. DOMAIN given = (IF wish.K # None THEN {"K"} ELSE {}) /\ (wish.K # None => given.K = wish.K)
  BY DEF Given
<1> HIDE DEF given
<1>4. Caches(cache') /\ cache'["hybrid"] = Updated(loaded["hybrid"], given)
  BY <1>1, <1>2, <1>3, StoredCaches DEF Controllers, Settings
<1>5. Linked'
  BY <1>1, <1>4 DEF Linked, link
<1>6. /\ Tasks' /\ Pace' /\ Episode' /\ ForceIsReleased'
      /\ task'.kind = "apply" /\ task'.pc = refused /\ task'.first = TRUE /\ task'.wish = wish
      /\ task'.found = Found(wish)
  <2>1. {axis} \in SUBSET Axes /\ "apply" \in {"run", "apply"}
    OBVIOUS
  <2> QED BY <1>1, <2>1, BeganFields, ZenonT(60)
<1>7. task'.pc = "loop" => open /\ sensor
  BY <1>6 DEF Linked, FtSensor
<1>8. /\ cache'["hybrid"].K = IF wish.K # None THEN wish.K ELSE loaded["hybrid"].K
      /\ cache'["hybrid"].caps = loaded["hybrid"].caps
  <2>1. DOMAIN loaded["hybrid"] = Settings("hybrid")
    BY <1>2 DEF Caches, Controllers
  <2> HIDE DEF loaded
  <2> QED BY <1>3, <1>4, <2>1 DEF Updated, Settings
<1>9. Streams'
  <2>1. task'.found["K"] = loaded["hybrid"].K /\ task'.found["caps"] = loaded["hybrid"].caps
    BY <1>6 DEF Found
  <2>2. cache'["hybrid"].K = Wished("K")' /\ cache'["hybrid"].caps = task'.found["caps"]
    BY <1>6, <1>8, <2>1 DEF Wished
  <2>3. task'.pc # "final"
    BY <1>6
  <2> QED BY <1>6, <1>7, <2>2, <2>3 DEF Streams, Hybrid
<1> QED BY <1>5, <1>6, <1>9 DEF CallerInv

(* An iteration of a hybrid task.                                            *)
LEMMA IteratedInv ==
  ASSUME Linked, CallerInv, Hybrid, task.pc = "loop", Due, task' = Iterated, now' = now,
         UNCHANGED <<open, sensor>>
  PROVE  /\ Tasks' /\ Pace' /\ Episode' /\ ForceIsReleased'
         /\ open' /\ sensor'
         /\ \A k \in {"kind", "pc", "wish", "forced", "found", "p0"} : task'[k] = task[k]
         /\ task'.first = FALSE
<1>1. /\ DOMAIN task = HybridFields /\ DOMAIN task' = HybridFields
      /\ \A k \in HybridFields \ {"next", "first", "burst"} : task'[k] = task[k]
      /\ task'.first = FALSE
  BY DEF CallerInv, Tasks, Hybrid, HybridFields, Iterated
<1>2. Tasks'
  BY <1>1 DEF CallerInv, Tasks, Hybrid, Moves, HybridFields
<1>3. Pace'
  BY IteratedPace DEF CallerInv, Hybrid, Timely, Linked
<1>4. Episode' /\ ForceIsReleased'
  BY <1>1 DEF Hybrid, Episode, ForceIsReleased, HybridFields
<1>5. open' /\ sensor'
  BY DEF CallerInv, Streams, Hybrid
<1> QED BY <1>1, <1>2, <1>3, <1>4, <1>5 DEF HybridFields

LEMMA RunTickInv ==
  ASSUME Linked, CallerInv, UNCHANGED <<open, sensor, seen>>, RunTick
  PROVE  Linked' /\ CallerInv'
<1> DEFINE profile == IF task.first THEN task.wish.profile ELSE None
           given == IF task.first THEN Given(task.wish, {"caps", "K"}) ELSE <<>>
           base == Loaded(cache, "hybrid", profile)
           all == Updated(Updated(SelectionToTr(task.forced), [wrench |-> ForceToTr(task.forced, UnitForce)]), given)
<1>1. /\ task.kind = "run" /\ task.pc = "loop" /\ Hybrid /\ Due /\ task' = Iterated /\ now' = now
      /\ task.first \in BOOLEAN /\ task.forced \in SUBSET Axes
  BY DEF RunTick, At, CallerInv, Tasks, Hybrid
<1>2. /\ Tasks' /\ Pace' /\ Episode' /\ ForceIsReleased'
      /\ open' /\ sensor'
      /\ \A k \in {"kind", "pc", "wish", "forced", "found", "p0"} : task'[k] = task[k]
      /\ task'.first = FALSE
  BY <1>1, IteratedInv
<1>3. SendHybrid(base, all, task.p0)
  BY <1>1 DEF RunTick, RunSends, SendHybridForcePosition
<1>4. Caches(base) /\ DOMAIN base["hybrid"] = Settings("hybrid")
  BY LoadedCaches DEF Linked, Controllers, Caches
<1>5. /\ DOMAIN given \subseteq {"caps", "K"}
      /\ ~task.first => DOMAIN given = {} /\ base = cache
      /\ task.first => \A k \in {"caps", "K"} : /\ k \in DOMAIN given <=> task.wish[k] # None
                                                /\ task.wish[k] # None => given[k] = task.wish[k]
  BY DEF Given, Loaded
<1>6. \A k \in {"caps", "K"} : ~task.first => cache["hybrid"][k] = Wished(k)
  BY <1>1 DEF CallerInv, Streams
<1>7. \A k \in {"caps", "K"} : task.first => base["hybrid"][k] = task.found[k]
  BY <1>1 DEF CallerInv, Streams
<1> HIDE DEF given, base
<1>8. /\ DOMAIN all \subseteq Settings("hybrid")
      /\ Updated(base["hybrid"], all).Tr = SelectionToTr(task.forced).Tr
      /\ Updated(base["hybrid"], all).n_af = Cardinality(task.forced)
      /\ Updated(base["hybrid"], all).wrench = [slot \in Axes |-> IF slot <= Cardinality(task.forced) THEN 1 ELSE 0]
      /\ \A k \in {"caps", "K"} \cap DOMAIN base["hybrid"] :
           Updated(base["hybrid"], all)[k] = IF k \in DOMAIN given THEN given[k] ELSE base["hybrid"][k]
  BY <1>1, <1>5, SelectionGiven
<1> HIDE DEF all
<1>9. /\ Linked' /\ cache'["hybrid"] = Updated(base["hybrid"], all)
      /\ cache'["hybrid"].n_af \in 0 .. Cardinality(Axes) => sent' = Command("hybrid", task.p0, cache'["hybrid"], FALSE)
  <2>1. now' \in {now, 0} /\ open /\ DOMAIN all \subseteq Settings("hybrid")
    BY <1>1, <1>2, <1>8
  <2> QED BY <1>3, <1>4, <2>1, HybridLinked, ZenonT(60)
<1>10. cache'["hybrid"].n_af \in 0 .. Cardinality(Axes)
  BY <1>1, <1>8, <1>9, OrderedLists, Sizes
<1>11. \A k \in {"caps", "K"} : cache'["hybrid"][k] = Wished(k)
  <2>1. {"caps", "K"} \subseteq DOMAIN base["hybrid"]
    BY <1>4 DEF Settings
  <2> QED BY <1>1, <1>5, <1>6, <1>7, <1>8, <1>9, <2>1 DEF Wished
<1>12. Asked(cache["hybrid"], 1)'
  BY <1>2, <1>8, <1>9 DEF Asked, Applies
<1>13. Streams'
  <2>1. \A k \in {"caps", "K"} : cache'["hybrid"][k] = Wished(k)'
    BY <1>2, <1>11 DEF Wished
  <2>2. sent' = Command("hybrid", task'.p0, cache'["hybrid"], FALSE)
    BY <1>2, <1>9, <1>10
  <2>3. task'.kind = "run" /\ task'.pc = "loop"
    BY <1>1, <1>2
  <2> QED BY <1>2, <1>12, <2>1, <2>2, <2>3 DEF Streams, Hybrid
<1> QED BY <1>2, <1>9, <1>13 DEF CallerInv

LEMMA RampedForce ==
  ASSUME now \in Nat, now < Duration
  PROVE  Ramped(now) \in {0, 1}
<1>1. ASSUME NEW n \in Nat, n < RampTime PROVE n \div RampTime = 0
  BY <1>1, ForceTasksAssumption
<1>2. CASE now < RampTime
  BY <1>1, <1>2 DEF Ramped
<1>3. CASE now >= RampTime /\ now > Duration - RampTime
  <2>1. Duration - now \in Nat /\ Duration - now < RampTime
    BY <1>3, ForceTasksAssumption
  <2> QED BY <1>1, <1>3, <2>1, ForceTasksAssumption DEF Ramped
<1>4. CASE now >= RampTime /\ ~(now > Duration - RampTime)
  BY <1>4, ForceTasksAssumption DEF Ramped
<1> QED BY <1>2, <1>3, <1>4, ForceTasksAssumption

(* The first command of a task along an axis sets the axis and what was      *)
(* given; the later ones change the force only.                              *)
LEMMA AxisGiven ==
  ASSUME NEW a \in Axes, NEW m, NEW given, DOMAIN given \subseteq {"caps"}, NEW old, DOMAIN old = Settings("hybrid")
  PROVE  LET all == Updated(ForceAxisToTr(a, m), given)
             new == Updated(old, all)
         IN  /\ DOMAIN all \subseteq Settings("hybrid")
             /\ new.Tr = SelectionToTr({a}).Tr /\ new.n_af = Cardinality({a})
             /\ new.wrench = [slot \in Axes |-> IF slot <= Cardinality({a}) THEN m ELSE 0]
             /\ new.K = old.K
             /\ new.caps = IF "caps" \in DOMAIN given THEN given.caps ELSE old.caps
<1> DEFINE base == ForceAxisToTr(a, m)
           all == Updated(base, given)
           new == Updated(old, all)
<1>1. /\ DOMAIN base = {"Tr", "n_af", "wrench"}
      /\ base.Tr = SelectionToTr({a}).Tr /\ base.n_af = Cardinality({a})
      /\ base.wrench = [slot \in Axes |-> IF slot <= Cardinality({a}) THEN m ELSE 0]
  BY AxisInSlots
<1> HIDE DEF base
<1>2. /\ DOMAIN all = {"Tr", "n_af", "wrench"} \union DOMAIN given
      /\ \A k \in DOMAIN all : all[k] = IF k \in DOMAIN given THEN given[k] ELSE base[k]
  BY <1>1 DEF Updated
<1> HIDE DEF all
<1>3. /\ DOMAIN new = DOMAIN old \union DOMAIN all
      /\ \A k \in DOMAIN new : new[k] = IF k \in DOMAIN all THEN all[k] ELSE old[k]
  BY DEF Updated
<1> HIDE DEF new
<1>4. new.Tr = base.Tr /\ new.n_af = base.n_af /\ new.wrench = base.wrench
  BY <1>2, <1>3
<1>5. new.K = old.K /\ new.caps = IF "caps" \in DOMAIN given THEN given.caps ELSE old.caps
  <2>1. "K" \in DOMAIN old /\ "caps" \in DOMAIN old
    BY DEF Settings
  <2> QED BY <1>2, <1>3, <2>1
<1>6. DOMAIN all \subseteq Settings("hybrid")
  BY <1>2 DEF Settings
<1> QED BY <1>1, <1>4, <1>5, <1>6 DEF base, all, new

LEMMA WrenchGiven ==
  ASSUME NEW old, DOMAIN old = Settings("hybrid"), NEW w
  PROVE  LET new == Updated(old, [wrench |-> w])
         IN  /\ new.Tr = old.Tr /\ new.n_af = old.n_af /\ new.wrench = w
             /\ new.K = old.K /\ new.caps = old.caps
BY DEF Updated, Settings

LEMMA ApplyTickInv ==
  ASSUME Linked, CallerInv, UNCHANGED <<open, sensor, seen>>, ApplyTick
  PROVE  Linked' /\ CallerInv'
<1> DEFINE m == Ramped(now)
           axis == ForceAxisToTr(Axis, m)
           given == Given(task.wish, {"caps"})
           all == IF task.first THEN Updated(axis, given) ELSE [wrench |-> axis.wrench]
           h == cache["hybrid"]
<1>1. /\ task.kind = "apply" /\ task.pc = "loop" /\ Hybrid /\ Due /\ task' = Iterated /\ now' = now
      /\ now < Duration /\ task.first \in BOOLEAN
  BY DEF ApplyTick, At, CallerInv, Tasks, Hybrid
<1>2. /\ Tasks' /\ Pace' /\ Episode' /\ ForceIsReleased'
      /\ open' /\ sensor'
      /\ \A k \in {"kind", "pc", "wish", "forced", "found", "p0"} : task'[k] = task[k]
      /\ task'.first = FALSE
  BY <1>1, IteratedInv
<1>3. SendHybrid(cache, all, task.p0)
  BY <1>1 DEF ApplyTick, ApplySends
<1>4. Caches(cache) /\ DOMAIN h = Settings("hybrid")
  BY DEF Linked, Controllers, Caches
<1>5. Axis \in Axes /\ task.forced = {Axis}
  BY <1>1 DEF CallerInv, Tasks, Hybrid, Axis
<1>6. m \in {0, 1}
  BY <1>1, RampedForce DEF Linked
<1>7. DOMAIN given \subseteq {"caps"} /\ ("caps" \in DOMAIN given <=> task.wish.caps # None)
      /\ (task.wish.caps # None => given.caps = task.wish.caps)
  BY DEF Given
<1>8. task.first => h.K = Wished("K") /\ h.caps = task.found["caps"]
  BY <1>1 DEF CallerInv, Streams
<1>9. ~task.first => (\E other \in {0, 1} : Asked(h, other)) /\ h.K = Wished("K") /\ h.caps = Wished("caps")
  BY <1>1 DEF CallerInv, Streams
<1>10. axis.wrench = [slot \in Axes |-> IF slot <= Cardinality({Axis}) THEN m ELSE 0]
  BY <1>5, AxisInSlots
<1> HIDE DEF given, m
<1>11. /\ DOMAIN all \subseteq Settings("hybrid")
       /\ Asked(Updated(h, all), m)
       /\ Updated(h, all).K = Wished("K") /\ Updated(h, all).caps = Wished("caps")
  <2>1. CASE task.first
    <3>1. all = Updated(axis, given)
      BY <2>1
    <3>2. /\ DOMAIN all \subseteq Settings("hybrid")
          /\ Updated(h, all).Tr = SelectionToTr({Axis}).Tr /\ Updated(h, all).n_af = Cardinality({Axis})
          /\ Updated(h, all).wrench = [slot \in Axes |-> IF slot <= Cardinality({Axis}) THEN m ELSE 0]
          /\ Updated(h, all).K = h.K
          /\ Updated(h, all).caps = IF "caps" \in DOMAIN given THEN given.caps ELSE h.caps
      BY <1>4, <1>5, <1>7, <3>1, AxisGiven
    <3> HIDE DEF all, h
    <3> QED BY <1>5, <1>7, <1>8, <2>1, <3>2 DEF Asked, Applies, Wished
  <2>2. CASE ~task.first
    <3>1. all = [wrench |-> axis.wrench]
      BY <2>2
    <3>2. /\ Updated(h, all).Tr = h.Tr /\ Updated(h, all).n_af = h.n_af /\ Updated(h, all).wrench = axis.wrench
          /\ Updated(h, all).K = h.K /\ Updated(h, all).caps = h.caps
          /\ DOMAIN all \subseteq Settings("hybrid")
      BY <1>4, <3>1, WrenchGiven DEF Settings
    <3> HIDE DEF all, h
    <3> QED BY <1>5, <1>9, <1>10, <2>2, <3>2 DEF Asked, Applies
  <2> QED BY <1>1, <2>1, <2>2
<1> HIDE DEF all, h
<1>12. /\ Linked' /\ cache'["hybrid"] = Updated(h, all)
       /\ cache'["hybrid"].n_af \in 0 .. Cardinality(Axes) => sent' = Command("hybrid", task.p0, cache'["hybrid"], FALSE)
  BY <1>1, <1>2, <1>3, <1>4, <1>11, HybridLinked DEF h
<1>13. cache'["hybrid"].n_af \in 0 .. Cardinality(Axes)
  <2>1. cache'["hybrid"].n_af = Cardinality(task.forced) /\ task.forced \in SUBSET Axes
    BY <1>5, <1>11, <1>12 DEF Asked, Applies
  <2> QED BY <2>1, OrderedLists, Sizes
<1>14. Streams'
  <2>1. Wished("K")' = Wished("K") /\ Wished("caps")' = Wished("caps")
    BY <1>2 DEF Wished
  <2>2. \A k \in {"caps", "K"} : cache'["hybrid"][k] = Wished(k)'
    BY <1>11, <1>12, <2>1
  <2>3. \E mag \in {0, 1} : Asked(cache["hybrid"], mag)'
    <3>1. Asked(cache'["hybrid"], m) /\ task'.forced = task.forced
      BY <1>2, <1>11, <1>12
    <3> QED BY <1>6, <3>1 DEF Asked, Applies
  <2>4. sent' = Command("hybrid", task'.p0, cache'["hybrid"], FALSE)
    BY <1>2, <1>12, <1>13
  <2>5. task'.kind = "apply" /\ task'.pc = "loop"
    BY <1>1, <1>2
  <2> QED BY <1>2, <1>6, <2>2, <2>3, <2>4, <2>5 DEF Streams, Hybrid
<1> QED BY <1>2, <1>12, <1>14 DEF CallerInv

(* The command that ends a task along an axis asks for no force, and is      *)
(* still in the socket.                                                      *)
LEMMA ApplyFinalInv ==
  ASSUME Linked, CallerInv, UNCHANGED <<open, sensor, seen>>, ApplyFinal
  PROVE  Linked' /\ CallerInv'
<1> DEFINE h == cache["hybrid"]
<1>1. /\ task.kind = "apply" /\ task.pc = "final" /\ Hybrid /\ now' = now /\ open
      /\ SendHybrid(cache, [wrench |-> Zero], task.p0)
      /\ DOMAIN task = HybridFields
  BY DEF ApplyFinal, At, CallerInv, Tasks, Streams, Hybrid
<1>2. Caches(cache) /\ DOMAIN h = Settings("hybrid")
  BY DEF Linked, Controllers, Caches
<1>3. Updated(h, [wrench |-> Zero]).n_af = h.n_af /\ Updated(h, [wrench |-> Zero]).wrench = Zero
  BY <1>2, WrenchGiven
<1>4. DOMAIN [wrench |-> Zero] \subseteq Settings("hybrid")
  BY DEF Settings
<1>5. /\ Linked' /\ cache'["hybrid"] = Updated(h, [wrench |-> Zero])
      /\ h.n_af \in 0 .. Cardinality(Axes) =>
           sent' = Command("hybrid", task.p0, cache'["hybrid"], FALSE) /\ waiting' # None
  BY <1>1, <1>2, <1>3, <1>4, HybridLinked
<1>6. /\ DOMAIN task' = HybridFields
      /\ \A k \in HybridFields \ {"pc"} : task'[k] = task[k]
      /\ task'.pc \in {"refused", "returned", "raised"}
      /\ task'.pc # "refused" => h.n_af \in 0 .. Cardinality(Axes)
  BY <1>1 DEF ApplyFinal, HybridFields
<1>7. Tasks'
  BY <1>1, <1>6 DEF CallerInv, Tasks, Hybrid, Moves, HybridFields
<1>8. Pace'
  BY <1>1, <1>6 DEF CallerInv, Pace, Hybrid, Timely, Moves, HybridFields
<1>9. Streams' /\ Episode'
  BY <1>1, <1>6 DEF Streams, Episode, Hybrid, HybridFields
<1>10. ForceIsReleased'
  <2>1. SUFFICES ASSUME task'.pc # "refused"
                 PROVE  /\ sent' = Command("hybrid", task'.p0, cache'["hybrid"], FALSE)
                        /\ ForceOf(sent'.set) = Zero /\ waiting' # None
    BY DEF ForceIsReleased
  <2>2. ForceOf(cache'["hybrid"]) = Zero
    BY <1>3, <1>5, <1>6, <2>1, NoForce
  <2>3. task'.p0 = task.p0
    BY <1>6 DEF HybridFields
  <2>4. sent' = Command("hybrid", task'.p0, cache'["hybrid"], FALSE) /\ waiting' # None
    BY <1>5, <1>6, <2>1, <2>3
  <2> QED BY <2>2, <2>4 DEF Command
<1> QED BY <1>5, <1>7, <1>8, <1>9, <1>10 DEF CallerInv

(* A task that comes to an end without a command.                            *)
LEMMA QuietInv ==
  ASSUME Linked, CallerInv, UNCHANGED <<open, sensor, seen>>,
         RunReturns \/ ApplyLeavesLoop \/ TaskInterrupted \/ LoopReturns
  PROVE  Linked' /\ CallerInv'
<1>1. Linked'
  BY DEF Linked, Caches, link, RunReturns, ApplyLeavesLoop, TaskInterrupted, LoopReturns
<1>0. task.kind # "none" => Hybrid \/ task.kind = "loop" \/ Moves
  BY DEF CallerInv, Tasks, Hybrid, Moves
<1>2. /\ now' = now /\ UNCHANGED <<cache, open, sent, sensor>>
      /\ task.kind # "none" /\ "pc" \in DOMAIN task
      /\ \/ task' = [task EXCEPT !.pc = "returned"] /\ task.kind \in {"run", "loop"}
         \/ task' = [task EXCEPT !.pc = "final"] /\ task.kind = "apply" /\ task.pc = "loop"
         \/ task' = [task EXCEPT !.pc = "final", !.aborted = TRUE] /\ task.kind = "apply" /\ task.pc = "loop"
         \/ task' = [task EXCEPT !.pc = "interrupted"]
  <2>1. task.kind # "none"
    BY DEF RunReturns, ApplyLeavesLoop, TaskInterrupted, LoopReturns, CallerInv, Tasks, At, Free, NoTask
  <2>2. "pc" \in DOMAIN task
    BY <1>0, <2>1 DEF CallerInv, Tasks, HybridFields, LoopFields, MoveFields
  <2> QED BY <2>1, <2>2 DEF RunReturns, ApplyLeavesLoop, TaskInterrupted, LoopReturns, At, link
<1>3. CASE Hybrid
  <2>1. /\ DOMAIN task = HybridFields /\ DOMAIN task' = HybridFields
        /\ \A k \in HybridFields \ {"pc", "aborted"} : task'[k] = task[k]
        /\ task'.aborted \in BOOLEAN
        /\ task'.pc \in {"returned", "interrupted", "final"}
        /\ task'.pc = "returned" => task.kind = "run"
        /\ task'.pc = "final" => task.kind = "apply" /\ task.pc = "loop"
    BY <1>2, <1>3 DEF CallerInv, Tasks, Hybrid, HybridFields
  <2>2. Tasks'
    BY <1>3, <2>1 DEF CallerInv, Tasks, Hybrid, Moves, HybridFields
  <2>3. Pace'
    BY <1>2, <1>3, <2>1 DEF CallerInv, Pace, Hybrid, Timely, Moves, HybridFields
  <2>4. Streams' /\ Episode' /\ ForceIsReleased'
    <3>1. task.kind \in {"run", "apply"} /\ task'.kind = task.kind
      BY <1>3, <2>1 DEF Hybrid, HybridFields
    <3>2. task'.pc = "final" => open' /\ sensor'
      BY <1>2, <1>3, <2>1 DEF CallerInv, Streams
    <3>3. Streams'
      BY <2>1, <3>2 DEF Streams
    <3> QED BY <2>1, <3>1, <3>3 DEF Episode, ForceIsReleased
  <2> QED BY <1>1, <2>2, <2>3, <2>4 DEF CallerInv
<1>4. CASE task.kind = "loop"
  <2>1. /\ DOMAIN task = LoopFields /\ DOMAIN task' = LoopFields
        /\ \A k \in LoopFields \ {"pc"} : task'[k] = task[k]
        /\ task'.pc \in {"returned", "interrupted"}
    BY <1>2, <1>4 DEF CallerInv, Tasks, LoopFields
  <2>2. Tasks'
    BY <1>4, <2>1 DEF CallerInv, Tasks, Hybrid, Moves, LoopFields
  <2>3. Pace'
    BY <1>2, <1>4, <2>1 DEF CallerInv, Pace, Timely, Moves, LoopFields
  <2>4. Streams' /\ Episode' /\ ForceIsReleased'
    BY <1>4, <2>1 DEF Streams, Episode, ForceIsReleased, Hybrid, LoopFields
  <2> QED BY <1>1, <2>2, <2>3, <2>4 DEF CallerInv
<1>5. CASE Moves
  <2>1. /\ DOMAIN task = MoveFields /\ DOMAIN task' = MoveFields
        /\ \A k \in MoveFields \ {"pc"} : task'[k] = task[k]
        /\ task'.pc = "interrupted"
    BY <1>2, <1>5 DEF CallerInv, Tasks, Moves, MoveFields
  <2>2. Tasks'
    BY <1>5, <2>1 DEF CallerInv, Tasks, Hybrid, Moves, MoveFields
  <2>3. Pace'
    BY <1>2, <1>5, <2>1 DEF CallerInv, Pace, Timely, Moves, MoveFields
  <2>4. Streams' /\ Episode' /\ ForceIsReleased'
    BY <1>2, <1>5, <2>1 DEF CallerInv, Streams, Episode, ForceIsReleased, Hybrid, Moves, MoveFields
  <2> QED BY <1>1, <2>2, <2>3, <2>4 DEF CallerInv
<1> QED BY <1>0, <1>2, <1>3, <1>4, <1>5

(* Calls that are over when they return.                                     *)
LEMMA CallsInv ==
  ASSUME Linked, UNCHANGED <<open, sensor, seen>>, RobotCalls \/ HybridCalls \/ ArmCalls
  PROVE  Linked' /\ CallerInv'
<1>0. Caches(cache) /\ task' = NoTask /\ now' \in {now, 0}
  BY DEF Linked, RobotCalls, HybridCalls, ArmCalls, Simple, NextCall
<1>1. CallerInv'
  BY <1>0, NoTaskInv
<1>2. ASSUME NEW ctl \in Controllers, NEW file, NEW given, DOMAIN given \subseteq Settings(ctl),
             NEW pos, NEW termination, Call(Stored(Loaded(cache, ctl, file), ctl, given), ctl, pos, termination)
      PROVE  Linked'
  <2> DEFINE c == Stored(Loaded(cache, ctl, file), ctl, given)
  <2>1. Caches(c)
    BY <1>0, <1>2, GivenCaches
  <2>2. Call(c, ctl, pos, termination)
    BY <1>2
  <2> HIDE DEF c
  <2> QED BY <1>0, <2>1, <2>2, CallLinked
<1>3. ASSUME NEW K PROVE DOMAIN Given([K |-> K], {"K"}) \subseteq {"K"}
  BY DEF Given
<1>4. \A ctl \in Controllers : {"K"} \subseteq Settings(ctl)
  BY DEF Settings
<1>5. ASSUME UNCHANGED link, Caches(cache') PROVE Linked'
  BY <1>0, <1>5 DEF Linked, link
<1>6. ASSUME NEW file, NEW termination, SendIdle(file, <<>>, termination) PROVE Linked'
  <2>1. "idle" \in Controllers /\ DOMAIN <<>> \subseteq Settings("idle")
    BY DEF Controllers
  <2> QED BY <1>2, <1>6, <2>1 DEF SendIdle
<1>7. CASE RobotCalls
  <2>1. CASE SendIdle("base", <<>>, FALSE) \/ Terminate
    BY <1>1, <1>6, <2>1 DEF Terminate
  <2>2. ASSUME NEW file, NEW K, NEW pos, SendCartesian(file, Given([K |-> K], {"K"}), pos)
        PROVE  Linked'
    <3>1. "cartesian_impedance" \in Controllers /\ DOMAIN Given([K |-> K], {"K"}) \subseteq Settings("cartesian_impedance")
      BY <1>3, <1>4 DEF Controllers
    <3> QED BY <1>2, <2>2, <3>1 DEF SendCartesian
  <2>3. ASSUME NEW K, NEW pos, SendMoveTo(Given([K |-> K], {"K"}), pos)
        PROVE  Linked'
    <3>1. cache' = cache /\ waiting' \in {0, waiting}
      BY <2>3 DEF SendMoveTo, Hand, link
    <3> QED BY <1>0, <3>1, RobotClientAssumption DEF Linked
  <2>4. ASSUME NEW K, NEW pos, SendJoint(None, Given([K |-> K], {"K"}), pos)
        PROVE  Linked'
    <3>1. "joint_impedance" \in Controllers /\ DOMAIN Given([K |-> K], {"K"}) \subseteq Settings("joint_impedance")
      BY <1>3, <1>4 DEF Controllers
    <3> QED BY <1>2, <2>4, <3>1 DEF SendJoint
  <2>5. ASSUME NEW K, NEW pos, NEW required, SendAdmittance(None, Given([K |-> K], {"K"}), pos, required)
        PROVE  Linked'
    <3>1. "admittance" \in Controllers /\ DOMAIN Given([K |-> K], {"K"}) \subseteq Settings("admittance")
      BY <1>3, <1>4 DEF Controllers
    <3> QED BY <1>2, <2>5, <3>1 DEF SendAdmittance
  <2> QED BY <1>1, <1>7, <2>1, <2>2, <2>3, <2>4, <2>5 DEF RobotCalls
<1>8. CASE HybridCalls
  <2>1. ASSUME NEW caps, NEW pos, NEW forced \in Selections,
               SendHybridForcePosition(None, Given([caps |-> caps], {"caps"}), forced, UnitForce, pos)
        PROVE  Linked'
    <3> DEFINE given == Given([caps |-> caps], {"caps"})
               all == Updated(Updated(SelectionToTr(forced), [wrench |-> ForceToTr(forced, UnitForce)]), given)
               base == Loaded(cache, "hybrid", None)
    <3>1. SendHybrid(base, all, pos) /\ Caches(base)
      BY <1>0, <2>1, LoadedCaches DEF SendHybridForcePosition, Controllers
    <3>2. DOMAIN given \subseteq {"caps", "K"}
      BY DEF Given
    <3> HIDE DEF given, base
    <3>3. DOMAIN all \subseteq Settings("hybrid")
      BY <3>2, ForceTasksAssumption, SelectionGiven
    <3> HIDE DEF all
    <3> QED BY <1>0, <3>1, <3>3, HybridLinked
  <2>2. ASSUME NEW caps, NEW n_af, NEW pos, SendHybrid(cache, Given([caps |-> caps, n_af |-> n_af], {"caps", "n_af"}), pos)
        PROVE  Linked'
    <3> DEFINE given == Given([caps |-> caps, n_af |-> n_af], {"caps", "n_af"})
    <3>1. DOMAIN given \subseteq Settings("hybrid") /\ SendHybrid(cache, given, pos)
      BY <2>2 DEF Given, Settings
    <3> HIDE DEF given
    <3> QED BY <1>0, <3>1, HybridLinked
  <2> QED BY <1>1, <1>8, <2>1, <2>2 DEF HybridCalls
<1>9. CASE ArmCalls
  <2>1. ASSUME NEW c, Caches(c), NEW pos, ArmSend(c, pos) PROVE Linked'
    BY <1>0, <2>1, CallLinked DEF ArmSend
  <2>2. ASSUME NEW K, NEW pos, ArmSend(SetStiffness(cache, K), pos) PROVE Linked'
    BY <1>0, <2>1, <2>2, StiffCaches
  <2>3. CASE SendIdle(None, <<>>, FALSE)
    BY <1>1, <1>6, <2>3
  <2>4. CASE cache' = SetStiffness(cache, "asked") /\ UNCHANGED link
    BY <1>0, <1>1, <1>5, <2>4, StiffCaches
  <2>5. ASSUME NEW ctl \in Controllers, NEW file, SetProfile(ctl, file) PROVE Linked'
    BY <1>0, <1>5, <2>5, LoadedCaches DEF SetProfile
  <2> QED BY <1>0, <1>1, <1>9, <2>1, <2>2, <2>3, <2>4, <2>5 DEF ArmCalls
<1> QED BY <1>7, <1>8, <1>9

LEMMA LinkInv ==
  ASSUME Linked, UNCHANGED sensor, LinkNext
  PROVE  Linked' /\ CallerInv'
<1>1. task' = NoTask
  BY DEF LinkNext
<1>2. CASE Connect
  BY <1>1, <1>2, NoTaskInv DEF Connect, LinkNext, Linked, Caches, link
<1>3. CASE Close
  BY <1>1, <1>3, NoTaskInv DEF Close, LinkNext, Linked, Caches, Unseen
<1> QED BY <1>2, <1>3 DEF LinkNext

(* Arm.move_to() and RobotAgent.reset(). *)
LEMMA MoveBeginInv ==
  ASSUME Linked, UNCHANGED <<open, sensor, seen>>, now' = 0,
         NEW kind \in {"move", "episode"}, NEW c, Caches(c), NEW pos, NEW K, MoveBegin(kind, c, pos, K),
         kind = "episode" => c["cartesian_impedance"].K = K
  PROVE  Linked' /\ CallerInv'
<1>1. /\ open /\ cache' = c /\ waiting' = 0
      /\ sent' = Command("move_to", pos, c["cartesian_impedance"], FALSE)
      /\ DOMAIN task' = MoveFields
      /\ task'.kind = kind /\ task'.pc = "moving" /\ task'.K = K
      /\ task'.next = 0 /\ task'.start = 0 /\ task'.steps = 0
  BY DEF MoveBegin, Hand, MoveFields
<1>2. Linked'
  BY <1>1, RobotClientAssumption DEF Linked
<1>3. Tasks' /\ Pace'
  BY <1>1 DEF Tasks, Pace, Hybrid, Timely, Moves
<1>4. Streams' /\ ForceIsReleased'
  BY <1>1 DEF Streams, Hybrid, ForceIsReleased
<1>5. Episode'
  BY <1>1 DEF Episode, Command
<1> QED BY <1>2, <1>3, <1>4, <1>5 DEF CallerInv

LEMMA MovesInv ==
  ASSUME Linked, UNCHANGED <<open, sensor, seen>>, NEW pos, ArmMove(pos) \/ AgentReset(pos)
  PROVE  Linked' /\ CallerInv'
<1>1. now' = 0 /\ Caches(cache)
  BY DEF ArmMove, AgentReset, NextCall, Linked
<1>2. CASE ArmMove(pos)
  <2>1. MoveBegin("move", cache, pos, None) /\ "move" \in {"move", "episode"}
    BY <1>2 DEF ArmMove
  <2> QED BY <1>1, <2>1, MoveBeginInv
<1>3. CASE AgentReset(pos)
  <2> DEFINE c == SetStiffness(cache, DefaultK)
             K == IF DefaultK # None THEN DefaultK ELSE cache["cartesian_impedance"].K
  <2>1. MoveBegin("episode", c, pos, K) /\ "episode" \in {"move", "episode"}
    BY <1>3 DEF AgentReset
  <2>2. Caches(c) /\ c["cartesian_impedance"].K = K
    BY <1>1, StiffCaches
  <2> HIDE DEF c, K
  <2> QED BY <1>1, <2>1, <2>2, MoveBeginInv
<1> QED BY <1>2, <1>3

LEMMA MoveEndsInv ==
  ASSUME Linked, CallerInv, UNCHANGED <<open, sensor, seen>>, MoveEnds
  PROVE  Linked' /\ CallerInv'
<1>1. /\ Moves /\ task.pc = "moving" /\ DOMAIN task = MoveFields /\ task.steps = 0
      /\ now \in Nat /\ now' = now /\ UNCHANGED <<cache, link>>
      /\ {task.next, task.start, task.steps} \subseteq Nat /\ task.steps <= now - task.start
  <2>1. task.pc = "moving" /\ now' = now /\ UNCHANGED <<cache, link>>
    BY DEF MoveEnds
  <2>2. Moves
    BY <2>1 DEF CallerInv, Tasks, Hybrid, Moves, NoTask
  <2> QED BY <2>1, <2>2 DEF CallerInv, Tasks, Pace, Linked
<1>2. Linked'
  BY <1>1 DEF Linked, Caches, link
<1>3. /\ DOMAIN task' = MoveFields /\ task'.kind = task.kind /\ task'.K = task.K /\ task'.steps = 0
      /\ \/ task'.pc = "returned" /\ task.kind = "move" /\ task'.next = now + 1 /\ task'.start = now
         \/ task'.pc = "ready" /\ task.kind = "episode" /\ task'.next = now + 1 /\ task'.start = now
         \/ task'.pc = "raised" /\ task'.next = task.next /\ task'.start = task.start
  BY <1>1 DEF MoveEnds, Moves, MoveFields
<1>4. Tasks' /\ Pace'
  BY <1>1, <1>3 DEF Tasks, Pace, Hybrid, Timely, Moves
<1>5. Streams' /\ ForceIsReleased'
  BY <1>1, <1>3 DEF Streams, Hybrid, ForceIsReleased, Moves
<1>6. Episode'
  BY <1>1, <1>3 DEF CallerInv, Episode, link
<1> QED BY <1>2, <1>4, <1>5, <1>6 DEF CallerInv

LEMMA LoopsInv ==
  ASSUME Linked, CallerInv, UNCHANGED <<open, sensor, seen>>, LoopBegin \/ LoopTick
  PROVE  Linked' /\ CallerInv'
<1>1. CASE LoopBegin
  <2>1. /\ now' = 0 /\ UNCHANGED <<cache, link>>
        /\ DOMAIN task' = LoopFields /\ task'.kind = "loop" /\ task'.pc = "loop"
        /\ task'.next = 0 /\ task'.burst = <<0, 0>>
    BY <1>1 DEF LoopBegin, NextCall, LoopFields
  <2>2. Linked'
    BY <2>1 DEF Linked, Caches, link
  <2>3. Tasks' /\ Pace'
    BY <2>1 DEF Tasks, Pace, Hybrid, Timely, Moves
  <2>4. Streams' /\ ForceIsReleased' /\ Episode'
    BY <2>1 DEF Streams, Hybrid, ForceIsReleased, Episode
  <2> QED BY <2>2, <2>3, <2>4 DEF CallerInv
<1>2. CASE LoopTick
  <2>1. /\ task.kind = "loop" /\ DOMAIN task = LoopFields /\ Due /\ Timely /\ now' = now /\ now \in Nat
        /\ task' \in {Iterated, [Iterated EXCEPT !.pc = "raised"]}
    BY <1>2 DEF LoopTick, At, CallerInv, Tasks, Timely, Linked
  <2>2. Linked'
    <3>1. PICK pos \in Positions : Call(cache, "cartesian_impedance", pos, FALSE)
      BY <1>2 DEF LoopTick, ArmSend
    <3> QED BY <2>1, <3>1, CallLinked DEF Linked
  <2>3. Pace'
    BY <2>1, IteratedPace DEF CallerInv
  <2>4. /\ DOMAIN task' = LoopFields /\ task'.kind = "loop" /\ task'.pc \in {"loop", "raised"}
    BY <1>2, <2>1 DEF Iterated, LoopFields, LoopTick, At
  <2>5. Tasks' /\ Streams' /\ ForceIsReleased' /\ Episode'
    BY <2>4 DEF Tasks, Hybrid, Moves, Streams, ForceIsReleased, Episode
  <2> QED BY <2>2, <2>3, <2>5 DEF CallerInv
<1> QED BY <1>1, <1>2

(* RobotAgent.step(). *)
LEMMA AgentInv ==
  ASSUME Linked, CallerInv, UNCHANGED <<open, sensor, seen>>,
         (\E pos \in Positions, K \in Stiff : AgentSends(pos, K)) \/ AgentStepEnds
  PROVE  Linked' /\ CallerInv'
<1>1. /\ task.kind = "episode" /\ Moves /\ task.pc \in {"ready", "stepping"} /\ DOMAIN task = MoveFields
      /\ now \in Nat /\ now' = now /\ open
      /\ {task.next, task.start, task.steps} \subseteq Nat /\ task.steps <= now - task.start
      /\ task.next = task.start + task.steps + 1
      /\ cache["cartesian_impedance"].K = task.K /\ sent.set.K = task.K
  <2>1. task.kind = "episode" /\ task.pc \in {"ready", "stepping"} /\ now' = now
    BY DEF AgentSends, AgentStepEnds, At
  <2> QED BY <2>1 DEF CallerInv, Tasks, Pace, Episode, Moves, Linked
<1>2. CASE \E pos \in Positions, K \in Stiff : AgentSends(pos, K)
  <2>1. PICK pos \in Positions, K \in Stiff : AgentSends(pos, K)
    BY <1>2
  <2> DEFINE c == SetStiffness(cache, K)
  <2>2. Caches(c) /\ c["cartesian_impedance"].K = IF K = None THEN task.K ELSE K
    BY <1>1, StiffCaches DEF Linked
  <2>3. /\ Call(c, "cartesian_impedance", pos, FALSE)
        /\ task' = [task EXCEPT !.pc = "stepping", !.K = IF K # None THEN K ELSE @]
    BY <2>1 DEF AgentSends, ArmSend
  <2> HIDE DEF c
  <2>4. Linked' /\ cache' = c /\ sent' = Command("cartesian_impedance", pos, c["cartesian_impedance"], FALSE)
    BY <1>1, <2>2, <2>3, CallLinked
  <2>5. /\ DOMAIN task' = MoveFields /\ task'.kind = "episode" /\ task'.pc = "stepping"
        /\ task'.K = IF K = None THEN task.K ELSE K
        /\ task'.next = task.next /\ task'.start = task.start /\ task'.steps = task.steps
    BY <1>1, <2>3 DEF MoveFields
  <2>6. Tasks' /\ Pace'
    BY <1>1, <2>5 DEF Tasks, Pace, Hybrid, Timely, Moves
  <2>7. Streams' /\ ForceIsReleased'
    BY <2>5 DEF Streams, Hybrid, ForceIsReleased
  <2>8. Episode'
    BY <1>1, <2>2, <2>4, <2>5 DEF Episode, Command
  <2> QED BY <2>4, <2>6, <2>7, <2>8 DEF CallerInv
<1>3. CASE AgentStepEnds
  <2>1. now >= task.next /\ UNCHANGED <<cache, link>>
    BY <1>3 DEF AgentStepEnds, Due
  <2>2. Linked'
    BY <1>1, <2>1 DEF Linked, Caches, link
  <2>3. /\ DOMAIN task' = MoveFields /\ task'.kind = "episode" /\ task'.K = task.K
        /\ task'.next = task.next + 1 /\ task'.start = task.start
        /\ \/ task'.pc = "ready" /\ task'.steps = task.steps + 1
           \/ task'.pc = "raised" /\ task'.steps = task.steps
    BY <1>1, <1>3 DEF AgentStepEnds, MoveFields
  <2>4. Tasks' /\ Pace'
    BY <1>1, <2>1, <2>3 DEF Tasks, Pace, Hybrid, Timely, Moves
  <2>5. Streams' /\ ForceIsReleased'
    BY <2>3 DEF Streams, Hybrid, ForceIsReleased
  <2>6. Episode'
    BY <1>1, <2>1, <2>3 DEF Episode, link
  <2> QED BY <2>2, <2>4, <2>5, <2>6 DEF CallerInv
<1> QED BY <1>2, <1>3

LEMMA CallerStepInv == Inv /\ CallerStep => Inv'
<1> SUFFICES ASSUME Inv, CallerStep PROVE Linked' /\ CallerInv'
  BY CallerAlone DEF Inv
<1>1. Linked /\ CallerInv /\ UNCHANGED sensor /\ CallerNext
  BY DEF Inv, CallerStep, daemon
<1>2. CASE LinkNext
  BY <1>1, <1>2, LinkInv
<1>3. CASE ForceTasksNext /\ UNCHANGED <<open, seen>>
  BY <1>1, <1>3, RunBeginInv, ApplyBeginInv, RunTickInv, ApplyTickInv, ApplyFinalInv, QuietInv DEF ForceTasksNext
<1>4. CASE ArmNext /\ UNCHANGED <<open, seen>>
  BY <1>1, <1>4, CallsInv, MovesInv, MoveEndsInv, LoopsInv, QuietInv, AgentInv DEF ArmNext
<1> QED BY <1>1, <1>2, <1>3, <1>4 DEF CallerNext

---------------------------------------------------------------------------
(* Every state that the programs reach satisfies the invariant.              *)
THEOREM ProgramsInvariant == Spec => []Inv
<1>1. ProgramsInit => Inv
  BY InitInv
<1>2. Inv /\ [Next]_vars => Inv'
  <2>1. Inv /\ Next => Inv'
    BY CallerStepInv, ResetStepInv, SysidStepInv, WorldInv DEF Next
  <2>2. Inv /\ UNCHANGED vars => Inv'
    <3> SUFFICES ASSUME Inv, UNCHANGED vars PROVE Inv'
      OBVIOUS
    <3> USE DEF vars
    <3>1. Linked' /\ Alone'
      BY DEF Inv, Linked, Caches, Alone
    <3>2. Tasks' /\ Streams' /\ Episode'
      BY TaskStays DEF Inv, CallerInv
    <3>3. Pace' /\ ForceIsReleased'
      BY DEF Inv, CallerInv, Pace, Timely, Moves, ForceIsReleased
    <3>4. ResetInv'
      BY DEF Inv, ResetInv, ResetLeavesIdle, InFlightSince
    <3>5. SysidInv'
      BY DEF Inv, SysidInv, Slots, SysidKeepsPace, Endings, InFlightSince
    <3> QED BY <3>1, <3>2, <3>3, <3>4, <3>5 DEF Inv, CallerInv
  <2> QED BY <2>1, <2>2
<1> QED BY <1>1, <1>2, PTL DEF Spec

(* The caches keep the settings of their controllers, and a command leaves a *)
(* connected socket in time.                                                 *)
THEOREM TypeCorrect == Spec => []TypeOK
<1>1. Inv => TypeOK
  <2>1. \A ctl \in Controllers : DOMAIN Flattened(ctl, "base") = Settings(ctl)
    BY FlattenedFields
  <2> QED BY <2>1 DEF Inv, Linked, Caches, TypeOK
<1> QED BY <1>1, ProgramsInvariant, PTL

(* Every command that a hybrid task streams asks for the force, the          *)
(* selection, the thresholds and the stiffness its caller asked for, and     *)
(* what an agent sends in an episode has the stiffness given last.           *)
THEOREM TasksCorrect == Spec => []TaskIsAsAsked
<1>1. Inv => TaskIsAsAsked
  <2> SUFFICES ASSUME Inv PROVE ForceTaskIsAsAsked /\ (task.kind = "episode" => sent.set.K = task.K)
    BY DEF TaskIsAsAsked
  <2>1. task.kind = "episode" => sent.set.K = task.K
    BY DEF Inv, CallerInv, Episode
  <2>2. ASSUME Hybrid, task.pc = "loop", ~task.first
        PROVE  /\ sent.mode = "hybrid" /\ sent.pos = task.p0 /\ sensor
               /\ \E m \in (IF task.kind = "run" THEN {1} ELSE {0, 1}) :
                    ForceOf(sent.set) = [a \in Axes |-> IF a \in task.forced THEN m ELSE 0]
               /\ \A k \in {"caps", "K"} : sent.set[k] = IF task.wish[k] # None THEN task.wish[k] ELSE task.found[k]
    <3>1. /\ sent = Command("hybrid", task.p0, cache["hybrid"], FALSE) /\ sensor
          /\ \A k \in {"caps", "K"} : cache["hybrid"][k] = Wished(k)
      BY <2>2 DEF Inv, CallerInv, Streams
    <3>2. PICK m \in (IF task.kind = "run" THEN {1} ELSE {0, 1}) : Asked(cache["hybrid"], m)
      BY <2>2 DEF Inv, CallerInv, Streams
    <3>3. task.forced \in SUBSET Axes
      BY <2>2 DEF Inv, CallerInv, Tasks
    <3>4. ForceOf(cache["hybrid"]) = [a \in Axes |-> IF a \in task.forced THEN m ELSE 0]
      BY <3>2, <3>3, ForceAsked DEF Asked
    <3>5. sent.mode = "hybrid" /\ sent.pos = task.p0 /\ sent.set = cache["hybrid"]
      BY <3>1 DEF Command
    <3> QED BY <3>1, <3>2, <3>4, <3>5 DEF Wished
  <2> QED BY <2>1, <2>2 DEF ForceTaskIsAsAsked, Hybrid
<1> QED BY <1>1, ProgramsInvariant, PTL

(* After a task along an axis no force is asked for, and none applied once   *)
(* the socket is empty.                                                      *)
THEOREM ForceReleased == Spec => []ForceIsReleased
<1>1. Inv => ForceIsReleased
  BY DEF Inv, CallerInv
<1> QED BY <1>1, ProgramsInvariant, PTL

(* Loops do not catch up in bursts, and an agent is never ahead of its clock. *)
THEOREM LoopsPaced == Spec => []Paced
<1>1. Inv => Paced
  BY DEF Inv, CallerInv, Pace, Timely, Moves, Paced
<1> QED BY <1>1, ProgramsInvariant, PTL

(* examples/reset.py leaves the daemon in idle, or has moved nothing.        *)
THEOREM ResetCorrect == Spec => []ResetLeavesIdle
<1>1. Inv => ResetLeavesIdle
  BY DEF Inv, ResetInv
<1> QED BY <1>1, ProgramsInvariant, PTL

(* The commands of examples/joint_sysid.py come neither in bursts nor later  *)
(* than the lateness allowed.                                                *)
THEOREM SysidPaced == Spec => []SysidKeepsPace
<1>1. Inv => SysidKeepsPace
  <2>1. SysidUnused.pc # "send"
    BY DEF SysidUnused
  <2> QED BY DEF Inv, SysidInv, Slots, SysidKeepsPace
<1> QED BY <1>1, ProgramsInvariant, PTL

(* The record and the exit status of examples/joint_sysid.py are true.       *)
THEOREM SysidRecorded == Spec => []RecordTellsHowItEnded
<1>1. Inv => RecordTellsHowItEnded
  <2> SUFFICES ASSUME Inv, sysid.pc = "exited" PROVE RecordTellsHowItEnded
    BY DEF RecordTellsHowItEnded
  <2>1. Endings
    BY DEF Inv, SysidInv
  <2>2. Ended.mode = "ended"
    BY DEF Ended
  <2> QED BY <2>1, <2>2 DEF Endings, RecordTellsHowItEnded
<1> QED BY <1>1, ProgramsInvariant, PTL
=============================================================================
