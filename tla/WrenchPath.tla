------------------------------ MODULE WrenchPath ------------------------------
(***************************************************************************)
(* The way of a force/torque measurement through the daemon: the worker of *)
(* the sensor (bota_wrench_source.cpp) stores the latest frame, the 1 kHz  *)
(* callback keeps the orientation for which gravity is compensated         *)
(* (compensated_wrench_source.cpp) up to date and reads the wrench for the *)
(* admittance or hybrid controller, and the publisher reads it for the     *)
(* clients.  Four mutexes are between them; the callback only tries three. *)
(*                                                                         *)
(* A frame is its number, an orientation the tick it was measured in.      *)
(***************************************************************************)
EXTENDS Naturals

CONSTANTS
  MaxFrames, \* bound on the frames of the sensor, for model checking
  MaxTicks,  \* bound on the ticks, likewise
  Free,      \* of a mutex
  Torn,      \* what is half overwritten
  Zero,      \* F_ext_cache_ of a controller that was just reset
  None       \* no wrench in a published state

ASSUME BoundAssumption == MaxFrames \in Nat /\ MaxTicks \in Nat
ASSUME DistinctAssumption ==
  /\ {Free, Torn, Zero, None} \cap Nat = {}
  /\ Free \notin {"worker", "rt", "pub"}
  /\ Torn # Zero /\ Torn # None

VARIABLES
  frames,    \* frames the sensor has delivered
  latest,    \* latest_
  ready,     \* ready_
  R,         \* R_ of the compensator; 0 stands for the identity it starts with
  t,         \* the tick the callback is in
  state,     \* latest_state
  pubMu, orientMu, stateMu, errMu, \* who holds them
  at,        \* where each thread is
  out,       \* the wrench a reader has got so far
  cache,     \* F_ext_cache_
  message,   \* the state the publisher is filling
  shown,     \* the state it published last
  since,     \* the tick in which the controller was selected, for the properties
  contended  \* the ticks in which the orientation could not be stored, likewise

sensor == <<frames, latest, ready>>
mutexes == <<pubMu, orientMu, stateMu, errMu>>
published == <<message, shown>>
history == <<since, contended>>
vars == <<sensor, R, t, state, mutexes, at, out, cache, published, history>>

Thread == {"worker", "rt", "pub"}
Reader == {"rt", "pub"}

Blank == [wrench |-> None, raw |-> None, pose |-> 0]

Init ==
  /\ frames = 0
  /\ latest = Zero
  /\ ready = FALSE
  /\ R = 0
  /\ t = 0
  /\ state = 0
  /\ pubMu = Free /\ orientMu = Free /\ stateMu = Free /\ errMu = Free
  /\ at = [worker |-> "poll", rt |-> "out", pub |-> "snap"]
  /\ out = [r \in Reader |-> Zero]
  /\ cache = Zero
  /\ message = Blank
  /\ shown = Blank
  /\ since = 0
  /\ contended = {}

(* Thread x goes on from place p to place q.                                 *)
Goes(x, p, q) == at[x] = p /\ at' = [at EXCEPT ![x] = q]

------------------------------------------------------------------------------
(* The worker.  A frame that is invalid changes nothing.                     *)
Poll ==
  /\ Goes("worker", "poll", "lock")
  /\ frames < MaxFrames
  /\ frames' = frames + 1
  /\ UNCHANGED <<latest, ready, R, t, state, mutexes, out, cache, published, history>>

StoreBegin ==
  /\ Goes("worker", "lock", "store")
  /\ pubMu = Free
  /\ pubMu' = "worker"
  /\ latest' = Torn
  /\ UNCHANGED <<frames, ready, R, t, state, orientMu, stateMu, errMu, out, cache,
                 published, history>>

StoreEnd ==
  /\ Goes("worker", "store", "ready")
  /\ latest' = frames
  /\ pubMu' = Free
  /\ UNCHANGED <<frames, ready, R, t, state, orientMu, stateMu, errMu, out, cache,
                 published, history>>

SetReady ==
  /\ Goes("worker", "ready", "poll")
  /\ ready' = TRUE
  /\ UNCHANGED <<frames, latest, R, t, state, mutexes, out, cache, published, history>>

Worker == StoreBegin \/ StoreEnd \/ SetReady

------------------------------------------------------------------------------
(* read() and read_raw(), by either reader.                                  *)

(* read() of the sensor, from place p: nothing before the first frame and    *)
(* nothing while another thread holds the mutex.                             *)
TryLatest(x, p, q, failed) ==
  /\ Goes(x, p, IF ready /\ pubMu = Free THEN q ELSE failed)
  /\ pubMu' = IF ready /\ pubMu = Free THEN x ELSE pubMu
  /\ UNCHANGED <<sensor, R, t, state, orientMu, stateMu, errMu, out, cache, history>>

CopyLatest(x, p, q) ==
  /\ Goes(x, p, q)
  /\ out' = [out EXCEPT ![x] = latest]
  /\ pubMu' = Free
  /\ UNCHANGED <<sensor, R, t, state, orientMu, stateMu, errMu, cache, history>>

(* What read() returned is no longer needed, or was not returned.            *)
Drop(x) == out' = [out EXCEPT ![x] = Zero]

(* The orientation, likewise; without it the wrench stays uncompensated and  *)
(* is not returned.                                                          *)
TryOrientation(x, failed) ==
  /\ Goes(x, "orient", IF orientMu = Free THEN "compensate" ELSE failed)
  /\ orientMu' = IF orientMu = Free THEN x ELSE orientMu
  /\ IF orientMu = Free THEN UNCHANGED out ELSE Drop(x)
  /\ UNCHANGED <<sensor, R, t, state, pubMu, stateMu, errMu, cache, published, history>>

------------------------------------------------------------------------------
(* The callback.                                                             *)

Tick ==
  /\ Goes("rt", "out", "begin")
  /\ t < MaxTicks
  /\ t' = t + 1
  /\ UNCHANGED <<sensor, R, state, mutexes, out, cache, published, history>>

(* Mutant of Pump: the callback waits for the publisher. *)
PumpWaiting ==
  /\ Goes("rt", "begin", "pump")
  /\ orientMu = Free
  /\ orientMu' = "rt"
  /\ R' = Torn
  /\ UNCHANGED <<sensor, t, state, pubMu, stateMu, errMu, out, cache, published, history>>

(* set_orientation(), which is the first thing in a tick.                    *)
Pump ==
  /\ IF orientMu = Free
     THEN /\ Goes("rt", "begin", "pump")
          /\ orientMu' = "rt"
          /\ R' = Torn
          /\ UNCHANGED contended
     ELSE /\ Goes("rt", "begin", "select")
          /\ contended' = contended \cup {t}
          /\ UNCHANGED <<orientMu, R>>
  /\ UNCHANGED <<sensor, t, state, pubMu, stateMu, errMu, out, cache, published, since>>

PumpEnd ==
  /\ Goes("rt", "pump", "select")
  /\ R' = t
  /\ orientMu' = Free
  /\ UNCHANGED <<sensor, t, state, pubMu, stateMu, errMu, out, cache, published, history>>

(* Mutant of Select: the wrench of its last activity is left to a controller. *)
SelectKeeping ==
  /\ Goes("rt", "select", "publish")
  /\ since' = t
  /\ UNCHANGED <<sensor, R, t, state, mutexes, out, cache, published, contended>>

(* A command selects the controller, which resets it, ...                    *)
Select ==
  /\ Goes("rt", "select", "publish")
  /\ cache' = Zero
  /\ since' = t
  /\ UNCHANGED <<sensor, R, t, state, mutexes, out, published, contended>>

(* ... or nothing changes.                                                   *)
Keep ==
  /\ Goes("rt", "select", "publish")
  /\ UNCHANGED <<sensor, R, t, state, mutexes, out, cache, published, history>>

PublishState ==
  /\ Goes("rt", "publish", "limits")
  /\ state' = IF stateMu = Free THEN t ELSE state
  /\ UNCHANGED <<sensor, R, t, mutexes, out, cache, published, history>>

(* A tick of a controller that reads no wrench is over; one of a hybrid      *)
(* controller may find its limits exceeded, and then writes the error.       *)
WithinLimits ==
  /\ Goes("rt", "limits", "read") \/ Goes("rt", "limits", "out") \/ Goes("rt", "limits", "trip")
  /\ UNCHANGED <<sensor, R, t, state, mutexes, out, cache, published, history>>

Trip ==
  /\ Goes("rt", "trip", "out")
  /\ errMu = Free
  /\ UNCHANGED <<sensor, R, t, state, mutexes, out, cache, published, history>>

RtReads ==
  \/ TryLatest("rt", "read", "copy", "out") /\ UNCHANGED published
  \/ CopyLatest("rt", "copy", "orient") /\ UNCHANGED published
  \/ TryOrientation("rt", "out")

(* The wrench, which compute() turns to the base by the pose of this tick.   *)
Use ==
  /\ Goes("rt", "compensate", "out")
  /\ cache' = [frame |-> out["rt"], turn |-> R, tick |-> t]
  /\ Drop("rt")
  /\ orientMu' = Free
  /\ UNCHANGED <<sensor, R, t, state, pubMu, stateMu, errMu, published, history>>

Callback ==
  \/ Pump \/ PumpEnd \/ Select \/ Keep \/ PublishState \/ WithinLimits \/ Trip \/ RtReads \/ Use

------------------------------------------------------------------------------
(* The publisher: state, error, wrench and raw wrench.                       *)
SnapBegin ==
  /\ Goes("pub", "snap", "snapping")
  /\ stateMu = Free
  /\ stateMu' = "pub"
  /\ UNCHANGED <<sensor, R, t, state, pubMu, orientMu, errMu, out, cache, published, history>>

SnapEnd ==
  /\ Goes("pub", "snapping", "err")
  /\ message' = [Blank EXCEPT !.pose = state]
  /\ stateMu' = Free
  /\ UNCHANGED <<sensor, R, t, state, pubMu, orientMu, errMu, out, cache, shown, history>>

ErrBegin ==
  /\ Goes("pub", "err", "erring")
  /\ errMu = Free
  /\ errMu' = "pub"
  /\ UNCHANGED <<sensor, R, t, state, pubMu, orientMu, stateMu, out, cache, published, history>>

ErrEnd ==
  /\ Goes("pub", "erring", "read")
  /\ errMu' = Free
  /\ UNCHANGED <<sensor, R, t, state, pubMu, orientMu, stateMu, out, cache, published, history>>

PubReads ==
  \/ TryLatest("pub", "read", "copy", "raw") /\ UNCHANGED published
  \/ CopyLatest("pub", "copy", "orient") /\ UNCHANGED published
  \/ TryOrientation("pub", "raw")

Show ==
  /\ Goes("pub", "compensate", "raw")
  /\ message' = [message EXCEPT !.wrench = [frame |-> out["pub"], turn |-> R]]
  /\ Drop("pub")
  /\ orientMu' = Free
  /\ UNCHANGED <<sensor, R, t, state, pubMu, stateMu, errMu, cache, shown, history>>

PubReadsRaw ==
  \/ TryLatest("pub", "raw", "copyRaw", "send") /\ UNCHANGED published
  \/ CopyLatest("pub", "copyRaw", "rotateRaw") /\ UNCHANGED published

ShowRaw ==
  /\ Goes("pub", "rotateRaw", "send")
  /\ message' = [message EXCEPT !.raw = out["pub"]]
  /\ Drop("pub")
  /\ UNCHANGED <<sensor, R, t, state, mutexes, cache, shown, history>>

Send ==
  /\ Goes("pub", "send", "snap")
  /\ shown' = message
  /\ message' = Blank
  /\ UNCHANGED <<sensor, R, t, state, mutexes, out, cache, history>>

Publisher ==
  \/ SnapBegin \/ SnapEnd \/ ErrBegin \/ ErrEnd \/ PubReads \/ Show
  \/ PubReadsRaw \/ ShowRaw \/ Send

------------------------------------------------------------------------------
Next == Poll \/ Worker \/ Tick \/ Callback \/ Publisher

(* Only the callback is taken to run: it is scheduled with real-time         *)
(* priority, the others may be preempted anywhere, holding what they hold.   *)
Fairness == WF_vars(Callback)

Spec == Init /\ [][Next]_vars /\ Fairness

------------------------------------------------------------------------------
Frame == 0 .. MaxFrames \cup {Zero, Torn}
Turn == 0 .. MaxTicks \cup {Torn}
Wrench == [frame : Frame, turn : Turn]

(* Each mutex is held by the thread that is in one of its sections.          *)
HolderOf(places) ==
  {x \in Thread : at[x] \in places}

Locked(mutex, places) ==
  HolderOf(places) = IF mutex = Free THEN {} ELSE {mutex}

TypeOK ==
  /\ Locked(pubMu, {"store", "copy", "copyRaw"})
  /\ Locked(orientMu, {"pump", "compensate"})
  /\ Locked(stateMu, {"snapping"})
  /\ Locked(errMu, {"erring"})
  /\ frames \in 0 .. MaxFrames
  /\ {t, state, since} \cup contended \subseteq 0 .. MaxTicks
  /\ latest \in Frame /\ R \in Turn
  /\ ready \in BOOLEAN
  /\ DOMAIN at = Thread
  /\ out \in [Reader -> Frame]
  /\ cache \in [frame : Frame, turn : Turn, tick : 0 .. MaxTicks] \cup {Zero}
  /\ {message, shown} \subseteq
       [wrench : Wrench \cup {None}, raw : Frame \cup {None}, pose : 0 .. MaxTicks]

Whole(w) == w.frame \in 1 .. MaxFrames /\ w.turn \in 0 .. MaxTicks

(* Neither a controller nor a client is given half a frame, half an          *)
(* orientation, or the zeros from before the first frame.                    *)
NoTornWrench ==
  /\ cache # Zero => Whole(cache)
  /\ shown.wrench # None => Whole(shown.wrench)
  /\ shown.raw # None => shown.raw \in 1 .. MaxFrames

(* The wrench a controller keeps when a read fails is one it has read itself *)
(* since it was selected, and is compensated for the orientation of the tick *)
(* in which it was read, unless the publisher kept that from being stored.   *)
WrenchIsCurrent ==
  cache # Zero =>
    /\ since <= cache.tick
    /\ cache.turn = cache.tick \/ cache.tick \in contended

(* Together: every wrench that is used or published is whole and is that of  *)
(* the activity it is used in.                                               *)
WrenchIsSound == NoTornWrench /\ WrenchIsCurrent

(* The callback waits for no other thread, whatever mutex that holds, except *)
(* for the publisher when it has an error to write.                          *)
TickEnds == at["rt"] # "out" ~> at["rt"] \in {"out", "trip"}
==============================================================================
