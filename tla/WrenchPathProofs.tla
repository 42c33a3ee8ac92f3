--------------------------- MODULE WrenchPathProofs ---------------------------
(***************************************************************************)
(* Proofs about WrenchPath, for any number of frames and ticks: no wrench  *)
(* that is used or published is torn, and none outlives the selection of   *)
(* the controller that read it.  The argument: what is half written is     *)
(* written under a mutex (Sections), and no copy is made without it.       *)
(***************************************************************************)
EXTENDS WrenchPath, TLAPS

(* Who is in a section holds its mutex.                                      *)
Sections ==
  /\ DOMAIN at = Thread
  /\ at["worker"] = "store" => pubMu = "worker"
  /\ at["rt"] = "pump" => orientMu = "rt"
  /\ at["rt"] = "copy" => pubMu = "rt"
  /\ at["rt"] = "compensate" => orientMu = "rt"
  /\ at["pub"] \in {"copy", "copyRaw"} => pubMu = "pub"
  /\ at["pub"] = "compensate" => orientMu = "pub"

(* The latest frame is whole unless it is being stored, and there is one     *)
(* once ready_ is set.                                                       *)
Stored ==
  /\ frames \in 0 .. MaxFrames
  /\ at["worker"] \in {"lock", "store"} => frames >= 1
  /\ at["worker"] = "ready" => latest \in 1 .. MaxFrames
  /\ ready /\ at["worker"] # "store" => latest \in 1 .. MaxFrames
  /\ at["rt"] = "copy" => ready
  /\ at["pub"] \in {"copy", "copyRaw"} => ready

(* The orientation is whole unless it is being stored; once a tick has tried *)
(* to store it, it is that of the tick or the publisher was in the way.      *)
Oriented ==
  /\ t \in 0 .. MaxTicks /\ since \in 0 .. MaxTicks /\ since <= t
  /\ R \in 0 .. MaxTicks \/ at["rt"] = "pump"
  /\ at["rt"] \in {"select", "publish", "limits", "read", "copy", "orient", "compensate"} =>
       R = t \/ t \in contended

(* What the readers hold, keep and hand on.                                  *)
Copied ==
  /\ DOMAIN out = Reader
  /\ at["rt"] \in {"orient", "compensate"} => out["rt"] \in 1 .. MaxFrames
  /\ at["pub"] \in {"orient", "compensate", "rotateRaw"} => out["pub"] \in 1 .. MaxFrames

Used ==
  cache # Zero =>
    /\ Whole(cache)
    /\ since <= cache.tick /\ cache.tick \in 0 .. MaxTicks
    /\ cache.turn = cache.tick \/ cache.tick \in contended

Sound(m) ==
  /\ DOMAIN m = {"wrench", "raw", "pose"}
  /\ m.wrench # None => Whole(m.wrench)
  /\ m.raw # None => m.raw \in 1 .. MaxFrames

Inv == Sections /\ Stored /\ Oriented /\ Copied /\ Used /\ Sound(message) /\ Sound(shown)

(* Every step keeps it.                                                      *)
LEMMA NextInvariant == Inv /\ [Next]_vars => Inv'
<1> SUFFICES ASSUME Inv, [Next]_vars PROVE Inv'
  OBVIOUS
<1> USE BoundAssumption, DistinctAssumption
<1> USE DEF Goes, Thread, Reader, sensor, mutexes, published, history
<1> USE DEF Inv, Sections, Stored, Oriented, Copied, Used, Sound, Whole
<1>1. ASSUME Poll PROVE Inv'
  BY <1>1 DEF Poll
<1>2. ASSUME StoreBegin PROVE Inv'
  BY <1>2 DEF StoreBegin
<1>3. ASSUME StoreEnd PROVE Inv'
  BY <1>3 DEF StoreEnd
<1>4. ASSUME SetReady PROVE Inv'
  BY <1>4 DEF SetReady
<1>5. ASSUME Tick PROVE Inv'
  BY <1>5 DEF Tick
<1>6. ASSUME Pump PROVE Inv'
  BY <1>6 DEF Pump
<1>7. ASSUME PumpEnd PROVE Inv'
  BY <1>7 DEF PumpEnd
<1>8. ASSUME Select PROVE Inv'
  BY <1>8 DEF Select
<1>9. ASSUME Keep PROVE Inv'
  BY <1>9 DEF Keep
<1>10. ASSUME PublishState PROVE Inv'
  BY <1>10 DEF PublishState
<1>11. ASSUME WithinLimits PROVE Inv'
  BY <1>11 DEF WithinLimits
<1>12. ASSUME Trip PROVE Inv'
  BY <1>12 DEF Trip
<1>13. ASSUME RtReads PROVE Inv'
  BY <1>13 DEF RtReads, TryLatest, CopyLatest, TryOrientation, Drop
<1>14. ASSUME Use PROVE Inv'
  BY <1>14 DEF Use, Drop
<1>15. ASSUME SnapBegin PROVE Inv'
  BY <1>15 DEF SnapBegin
<1>16. ASSUME SnapEnd PROVE Inv'
  BY <1>16 DEF SnapEnd, Blank
<1>17. ASSUME ErrBegin PROVE Inv'
  BY <1>17 DEF ErrBegin
<1>18. ASSUME ErrEnd PROVE Inv'
  BY <1>18 DEF ErrEnd
<1>19. ASSUME PubReads PROVE Inv'
  BY <1>19 DEF PubReads, TryLatest, CopyLatest, TryOrientation, Drop
<1>20. ASSUME Show PROVE Inv'
  BY <1>20 DEF Show, Drop
<1>21. ASSUME PubReadsRaw PROVE Inv'
  BY <1>21 DEF PubReadsRaw, TryLatest, CopyLatest
<1>22. ASSUME ShowRaw PROVE Inv'
  BY <1>22 DEF ShowRaw, Drop
<1>23. ASSUME Send PROVE Inv'
  BY <1>23 DEF Send, Blank
<1>24. CASE UNCHANGED vars
  BY <1>24 DEF vars
<1> QED BY <1>1, <1>2, <1>3, <1>4, <1>5, <1>6, <1>7, <1>8, <1>9, <1>10, <1>11, <1>12, <1>13, <1>14, <1>15, <1>16, <1>17, <1>18, <1>19, <1>20, <1>21, <1>22, <1>23, <1>24 DEF Next, Worker, Callback, Publisher

LEMMA InitInvariant == Init => Inv
BY BoundAssumption, DistinctAssumption
   DEF Init, Blank, Thread, Reader, Inv, Sections, Stored, Oriented, Copied, Used, Sound, Whole

LEMMA Invariant == Spec => []Inv
BY InitInvariant, NextInvariant, PTL DEF Spec

(* For any number of frames and ticks: every wrench that is used or          *)
(* published is whole and is that of the activity it is used in.             *)
THEOREM WrenchCorrect == Spec => []WrenchIsSound
<1>1. Inv => WrenchIsSound
  BY DEF Inv, Used, Sound, WrenchIsSound, NoTornWrench, WrenchIsCurrent
<1> QED BY <1>1, Invariant, PTL

------------------------------------------------------------------------------
(* The mutexes and the types.                                                *)

(* Whoever is in a section of a mutex, and nobody else, holds it.            *)
Held(mutex, places) ==
  /\ mutex \in Thread \cup {Free}
  /\ \A x \in Thread : at[x] \in places <=> mutex = x

Exclusive ==
  /\ DOMAIN at = Thread
  /\ Held(pubMu, {"store", "copy", "copyRaw"})
  /\ Held(orientMu, {"pump", "compensate"})
  /\ Held(stateMu, {"snapping"})
  /\ Held(errMu, {"erring"})

LEMMA HeldIsLocked ==
  ASSUME NEW mutex, NEW places, Held(mutex, places)
  PROVE  Locked(mutex, places)
BY DistinctAssumption DEF Held, Locked, HolderOf, Thread

LEMMA NextExclusive == Exclusive /\ [Next]_vars => Exclusive'
<1> SUFFICES ASSUME Exclusive, [Next]_vars PROVE Exclusive'
  OBVIOUS
<1> USE DistinctAssumption
<1> USE DEF Exclusive, Held, Goes, Thread, mutexes
<1>1. ASSUME Poll PROVE Exclusive'
  BY <1>1 DEF Poll
<1>2. ASSUME StoreBegin PROVE Exclusive'
  BY <1>2 DEF StoreBegin
<1>3. ASSUME StoreEnd PROVE Exclusive'
  BY <1>3 DEF StoreEnd
<1>4. ASSUME SetReady PROVE Exclusive'
  BY <1>4 DEF SetReady
<1>5. ASSUME Tick PROVE Exclusive'
  BY <1>5 DEF Tick
<1>6. ASSUME Pump PROVE Exclusive'
  BY <1>6 DEF Pump
<1>7. ASSUME PumpEnd PROVE Exclusive'
  BY <1>7 DEF PumpEnd
<1>8. ASSUME Select PROVE Exclusive'
  BY <1>8 DEF Select
<1>9. ASSUME Keep PROVE Exclusive'
  BY <1>9 DEF Keep
<1>10. ASSUME PublishState PROVE Exclusive'
  BY <1>10 DEF PublishState
<1>11. ASSUME WithinLimits PROVE Exclusive'
  BY <1>11 DEF WithinLimits
<1>12. ASSUME Trip PROVE Exclusive'
  BY <1>12 DEF Trip
<1>13. ASSUME RtReads PROVE Exclusive'
  BY <1>13 DEF RtReads, TryLatest, CopyLatest, TryOrientation, Drop
<1>14. ASSUME Use PROVE Exclusive'
  BY <1>14 DEF Use, Drop
<1>15. ASSUME SnapBegin PROVE Exclusive'
  BY <1>15 DEF SnapBegin
<1>16. ASSUME SnapEnd PROVE Exclusive'
  BY <1>16 DEF SnapEnd, Blank
<1>17. ASSUME ErrBegin PROVE Exclusive'
  BY <1>17 DEF ErrBegin
<1>18. ASSUME ErrEnd PROVE Exclusive'
  BY <1>18 DEF ErrEnd
<1>19. ASSUME PubReads PROVE Exclusive'
  BY <1>19 DEF PubReads, TryLatest, CopyLatest, TryOrientation, Drop
<1>20. ASSUME Show PROVE Exclusive'
  BY <1>20 DEF Show, Drop
<1>21. ASSUME PubReadsRaw PROVE Exclusive'
  BY <1>21 DEF PubReadsRaw, TryLatest, CopyLatest, Drop
<1>22. ASSUME ShowRaw PROVE Exclusive'
  BY <1>22 DEF ShowRaw, Drop
<1>23. ASSUME Send PROVE Exclusive'
  BY <1>23 DEF Send, Blank
<1>24. CASE UNCHANGED vars
  BY <1>24 DEF vars
<1> QED BY <1>1, <1>2, <1>3, <1>4, <1>5, <1>6, <1>7, <1>8, <1>9, <1>10, <1>11, <1>12, <1>13, <1>14, <1>15, <1>16, <1>17, <1>18, <1>19, <1>20, <1>21, <1>22, <1>23, <1>24 DEF Next, Worker, Callback, Publisher

(* The values.                                                               *)
Values ==
  /\ frames \in 0 .. MaxFrames
  /\ t \in 0 .. MaxTicks /\ state \in 0 .. MaxTicks /\ since \in 0 .. MaxTicks
  /\ contended \subseteq 0 .. MaxTicks
  /\ latest \in Frame /\ R \in Turn
  /\ ready \in BOOLEAN
  /\ out \in [Reader -> Frame]
  /\ cache \in [frame : Frame, turn : Turn, tick : 0 .. MaxTicks] \cup {Zero}
  /\ message \in [wrench : Wrench \cup {None}, raw : Frame \cup {None}, pose : 0 .. MaxTicks]
  /\ shown \in [wrench : Wrench \cup {None}, raw : Frame \cup {None}, pose : 0 .. MaxTicks]

LEMMA NextValues == Values /\ [Next]_vars => Values'
<1> SUFFICES ASSUME Values, [Next]_vars PROVE Values'
  OBVIOUS
<1> USE BoundAssumption
<1> USE DEF Values, Reader, sensor, published, history, Frame, Turn, Wrench
<1>1. ASSUME Poll PROVE Values'
  BY <1>1 DEF Poll
<1>2. ASSUME StoreBegin PROVE Values'
  BY <1>2 DEF StoreBegin
<1>3. ASSUME StoreEnd PROVE Values'
  BY <1>3 DEF StoreEnd
<1>4. ASSUME SetReady PROVE Values'
  BY <1>4 DEF SetReady
<1>5. ASSUME Tick PROVE Values'
  BY <1>5 DEF Tick
<1>6. ASSUME Pump PROVE Values'
  <2>1. CASE orientMu = Free
    <3>1. R' \in Turn /\ contended' = contended
      BY <1>6, <2>1 DEF Pump
    <3> QED BY <1>6, <3>1 DEF Pump
  <2>2. CASE orientMu # Free
    <3>1. contended' \subseteq 0 .. MaxTicks
      BY <1>6, <2>2 DEF Pump
    <3> QED BY <1>6, <2>2, <3>1 DEF Pump
  <2> QED BY <2>1, <2>2
<1>7. ASSUME PumpEnd PROVE Values'
  BY <1>7 DEF PumpEnd
<1>8. ASSUME Select PROVE Values'
  BY <1>8 DEF Select
<1>9. ASSUME Keep PROVE Values'
  BY <1>9 DEF Keep
<1>10. ASSUME PublishState PROVE Values'
  BY <1>10 DEF PublishState
<1>11. ASSUME WithinLimits PROVE Values'
  BY <1>11 DEF WithinLimits
<1>12. ASSUME Trip PROVE Values'
  BY <1>12 DEF Trip
<1>13. ASSUME RtReads PROVE Values'
  BY <1>13 DEF RtReads, TryLatest, CopyLatest, TryOrientation, Drop
<1>14. ASSUME Use PROVE Values'
  BY <1>14 DEF Use, Drop
<1>15. ASSUME SnapBegin PROVE Values'
  BY <1>15 DEF SnapBegin
<1>16. ASSUME SnapEnd PROVE Values'
  BY <1>16 DEF SnapEnd, Blank
<1>17. ASSUME ErrBegin PROVE Values'
  BY <1>17 DEF ErrBegin
<1>18. ASSUME ErrEnd PROVE Values'
  BY <1>18 DEF ErrEnd
<1>19. ASSUME PubReads PROVE Values'
  BY <1>19 DEF PubReads, TryLatest, CopyLatest, TryOrientation, Drop
<1>20. ASSUME Show PROVE Values'
  BY <1>20 DEF Show, Drop
<1>21. ASSUME PubReadsRaw PROVE Values'
  BY <1>21 DEF PubReadsRaw, TryLatest, CopyLatest, Drop
<1>22. ASSUME ShowRaw PROVE Values'
  BY <1>22 DEF ShowRaw, Drop
<1>23. ASSUME Send PROVE Values'
  BY <1>23 DEF Send, Blank
<1>24. CASE UNCHANGED vars
  BY <1>24 DEF vars
<1> QED BY <1>1, <1>2, <1>3, <1>4, <1>5, <1>6, <1>7, <1>8, <1>9, <1>10, <1>11, <1>12, <1>13, <1>14, <1>15, <1>16, <1>17, <1>18, <1>19, <1>20, <1>21, <1>22, <1>23, <1>24 DEF Next, Worker, Callback, Publisher

LEMMA InitTypes == Init => Exclusive /\ Values
<1> SUFFICES ASSUME Init PROVE Exclusive /\ Values
  OBVIOUS
<1>1. Exclusive
  BY DistinctAssumption DEF Init, Exclusive, Held, Thread
<1>2. Values
  <2>1. 0 \in 0 .. MaxFrames /\ 0 \in 0 .. MaxTicks
    BY BoundAssumption
  <2>2. Blank \in [wrench : Wrench \cup {None}, raw : Frame \cup {None}, pose : 0 .. MaxTicks]
    BY <2>1 DEF Blank
  <2>3. [r \in Reader |-> Zero] \in [Reader -> Frame]
    BY DEF Frame
  <2> QED BY <2>1, <2>2, <2>3 DEF Init, Values, Frame, Turn
<1> QED BY <1>1, <1>2

(* Every state has the declared form; in particular each mutex is held by    *)
(* the one thread that is in one of its sections, and by none otherwise.     *)
THEOREM TypeCorrect == Spec => []TypeOK
<1>1. Exclusive /\ Values => TypeOK
  <2> SUFFICES ASSUME Exclusive, Values PROVE TypeOK
    OBVIOUS
  <2>1. /\ Locked(pubMu, {"store", "copy", "copyRaw"}) /\ Locked(orientMu, {"pump", "compensate"})
        /\ Locked(stateMu, {"snapping"}) /\ Locked(errMu, {"erring"}) /\ DOMAIN at = Thread
    BY HeldIsLocked DEF Exclusive
  <2> QED BY <2>1 DEF Values, TypeOK
<1> QED BY <1>1, InitTypes, NextExclusive, NextValues, PTL DEF Spec
================================================================================
