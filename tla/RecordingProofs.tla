--------------------------- MODULE RecordingProofs ---------------------------
(***************************************************************************)
(* Proofs about Recording, for every set of IDs and paths, every capacity  *)
(* and batch: a recording that has been stopped is over, and no frame is   *)
(* pushed that the writer will not look for.  The argument is the hand-    *)
(* shake of stop() with record(): each sets its own flag before it reads   *)
(* the other's, so either the producer finds capture disabled or the       *)
(* manager finds the producer busy, and waits.                             *)
(* The second half is about what is recorded: each frame is accounted for, *)
(* a file that is reported complete is, failures are not forgotten, and    *)
(* the manager implements RecordingSession.  The end is about DaemonSpec,  *)
(* from which Recording takes when shutdown() may be called.               *)
(***************************************************************************)
EXTENDS Recording, Daemon, Integers, TLAPS

(* The invariant of the handshake holds when the daemon starts.              *)
LEMMA InitInvariant == Init => IInv
BY DEF Init, IInv, Over, Draining, Ring!Init

(* Each step of record() keeps the invariant.                                *)
LEMMA RealTimeInvariant ==
  ASSUME IInv, RealTime \/ RtEnds
  PROVE  IInv'
<1> USE DEF IInv, Over, Draining, ring, writer, manager, counters
<1>1. CASE Enter
  BY <1>1 DEF Enter
<1>2. CASE CheckEnabled
  BY <1>2 DEF CheckEnabled
<1>3. CASE Push
  <2>1. Draining
    BY <1>3 DEF Push
  <2> QED BY <1>3, <2>1 DEF Push
<1>4. CASE Leave
  BY <1>4 DEF Leave
<1>5. CASE RtEnds
  BY <1>5 DEF RtEnds
<1> QED BY <1>1, <1>2, <1>3, <1>4, <1>5 DEF RealTime

(* Each step of the mutex holder keeps the invariant.                        *)
LEMMA ManagerInvariant ==
  ASSUME IInv, Request \/ Quiet \/ Manager
  PROVE  IInv'
<1> USE DEF IInv, Over, Draining, ring, writer, counters, producer
<1>1. ASSUME NEW id \in Id, NEW p \in Path, Start(id, p) PROVE IInv'
  BY <1>1 DEF Start, MayStart, BeginSession, Ring!Clear, Writer!Construct
<1>2. ASSUME NEW id \in Id, NEW p \in Path, StartThrows(id, p) PROVE IInv'
  BY <1>2 DEF StartThrows, MayStart, BeginSession, Ring!Clear
<1>3. CASE StartSucceeds
  BY <1>3 DEF StartSucceeds
<1>4. CASE StartFails
  BY <1>4 DEF StartFails
<1>5. CASE StartFailed
  BY <1>5 DEF StartFailed
<1>6. ASSUME StopBegin PROVE IInv'
  BY <1>6 DEF StopBegin
<1>7. CASE Quiet
  BY <1>7 DEF Quiet
<1>8. CASE Joined
  BY <1>8 DEF Joined
<1> QED
  BY <1>1, <1>2, <1>3, <1>4, <1>5, <1>6, <1>7, <1>8 DEF Request, Manager, Stop, Shutdown

(* Each step of the writer's thread keeps the invariant.                     *)
LEMMA WriterInvariant ==
  ASSUME IInv, WriterThread
  PROVE  IInv'
<1> USE DEF IInv, Over, Draining, manager, producer, WriterThread
<1>1. CASE Writer!OpenFails
  BY <1>1 DEF Writer!OpenFails, Writer!Fail
<1>2. CASE Writer!OpenSucceeds
  BY <1>2 DEF Writer!OpenSucceeds, Writer!Opens
<1>3. CASE Writer!HeaderFails
  BY <1>3 DEF Writer!HeaderFails, Writer!Opens, Writer!Fail
<1>4. CASE Writer!LoopTop
  BY <1>4 DEF Writer!LoopTop
<1>5. CASE Writer!DrainOne
  <2>1. /\ wpc \in {"drain", "lastDrain"} /\ wpc' = wpc /\ stop' = stop /\ queue # <<>>
    BY <1>5 DEF Writer!DrainOne, Writer!Ring!Take
  <2>2. ok' => ok
    BY <1>5 DEF Writer!DrainOne, Writer!RowDiscarded, Writer!RowWritten, Writer!RowFails,
       Writer!Fail
  <2> QED BY <2>1, <2>2
<1>6. CASE Writer!EndBatch
  <2>1. ok' => ok
    BY <1>6 DEF Writer!EndBatch, Writer!FlushSucceeds, Writer!FlushFails, Writer!Fail
  <2> QED BY <1>6, <2>1 DEF Writer!EndBatch
<1>7. CASE Writer!LastTop
  BY <1>7 DEF Writer!LastTop
<1>8. CASE Writer!CloseFile
  BY <1>8 DEF Writer!CloseFile, Writer!Fail
<1>9. CASE Writer!Finish
  BY <1>9 DEF Writer!Finish
<1> QED
  BY <1>1, <1>2, <1>3, <1>4, <1>5, <1>6, <1>7, <1>8, <1>9 DEF Writer!Run

(* Every step keeps the invariant of the handshake.                          *)
LEMMA StepInvariant == IInv /\ [Next]_vars => IInv'
<1> SUFFICES ASSUME IInv, [Next]_vars PROVE IInv'
  OBVIOUS
<1>1. CASE UNCHANGED vars
  BY <1>1 DEF IInv, Over, Draining, vars, ring, writer, counters, manager, producer
<1> QED
  BY <1>1, RealTimeInvariant, ManagerInvariant, WriterInvariant DEF Next, Terminated

(* The inductive invariant always holds.                                     *)
THEOREM InvariantHolds == Spec => []IInv
BY InitInvariant, StepInvariant, PTL DEF Spec

(* After a stop() or a failed start() has returned, nothing is in flight and *)
(* the ring may be reset.                                                    *)
THEOREM StoppedQuiet == Spec => []StoppedIsQuiet
<1>1. IInv => StoppedIsQuiet
  BY DEF IInv, StoppedIsQuiet, Over
<1> QED BY <1>1, InvariantHolds, PTL

(* A frame about to be pushed will be looked for by the writer.              *)
THEOREM NoPushAfterLastDrain == Spec => []PushHasReader
<1>1. IInv => PushHasReader
  BY DEF IInv, PushHasReader, Draining
<1> QED BY <1>1, InvariantHolds, PTL

(* Together: record() touches the ring only while a recording owns it.       *)
THEOREM RecordConfined == Spec => []PushesAreConfined
BY StoppedQuiet, NoPushAfterLastDrain, PTL DEF PushesAreConfined

------------------------------------------------------------------------------
(* What is recorded.  A frame passes from record() through the ring into the *)
(* file; the invariant follows the numbers along this way: those in the file *)
(* lie below those in the ring, and those below the next one, and as long as *)
(* none was dropped nor any operation failed there is no gap between them.   *)

(* The number of frames that were offered to the ring.                       *)
Offered == IF rpc = "push" THEN seq - 1 ELSE seq

Types ==
  /\ queue \in Seq(Frame)
  /\ dropped \in Nat /\ seq \in Nat /\ written \in Nat /\ discarded \in Nat /\ pending \in Nat
  /\ files \in [Path -> Seq(Frame) \cup {Absent}]
  /\ ok \in BOOLEAN /\ finished \in BOOLEAN
  /\ failed \in BOOLEAN /\ down \in BOOLEAN /\ startError \in BOOLEAN
  /\ usedIds \subseteq Id
  /\ recordingId \in usedIds \cup {NoId}
  /\ hasWriter => path \in Path /\ recordingId \in Id

Stages ==
  /\ wpc = "prepare" => written = 0 /\ discarded = 0 /\ error = "none"
  /\ wpc \notin {"drain", "lastDrain"} => pending = 0
  /\ ok => error = "none" /\ discarded = 0
  /\ finished => wpc = "done"

Numbers ==
  /\ rpc = "push" => seq >= 1 /\ frame = [id |-> recordingId, seq |-> seq - 1]
  /\ \A i \in 1 .. Len(queue) : queue[i].id = recordingId /\ queue[i].seq < Offered
  /\ \A i, j \in 1 .. Len(queue) : i < j => queue[i].seq < queue[j].seq
  /\ dropped = 0 => \A i \in 1 .. Len(queue) : queue[i].seq = Offered - Len(queue) + i - 1

Rows ==
  hasWriter /\ ok =>
    /\ files[path] \in Seq(Frame) /\ Len(files[path]) = pending + written
    /\ \A i \in 1 .. Len(files[path]) :
         /\ files[path][i].id = recordingId
         /\ files[path][i].seq < Offered
         /\ \A j \in 1 .. Len(queue) : files[path][i].seq < queue[j].seq
         /\ \A j \in 1 .. i - 1 : files[path][j].seq < files[path][i].seq
    /\ dropped = 0 => \A i \in 1 .. Len(files[path]) : files[path][i].seq = i - 1

(* A failure is remembered at the latest when the recording is over.         *)
Bad == hasWriter /\ (dropped > 0 \/ error # "none")

Reports ==
  /\ startError => failed
  /\ Bad /\ mpc = "idle" /\ ~enabled => failed
  /\ down => ~enabled /\ mpc \notin {"awaitReady", "joinFailed"}

FInv == Types /\ Stages /\ FramesAccounted /\ Numbers /\ Rows /\ RowsInOrder /\ Reports

(* A sequence of frames has an id and a number at each place.                *)
LEMMA FrameFields ==
  ASSUME NEW s \in Seq(Frame)
  PROVE  \A i \in 1 .. Len(s) : s[i] \in Frame /\ s[i].seq \in Nat
<1> SUFFICES ASSUME NEW i \in 1 .. Len(s) PROVE s[i] \in Frame /\ s[i].seq \in Nat
  OBVIOUS
<1>1. s[i] \in Frame
  OBVIOUS
<1> QED BY <1>1 DEF Frame

(* Nothing is recorded when the daemon starts.                               *)
LEMMA InitRecorded == Init => FInv
<1> SUFFICES ASSUME Init PROVE FInv
  OBVIOUS
<1> USE DEF Init, Ring!Init
<1>1. Types
  <2>1. files \in [Path -> Seq(Frame) \cup {Absent}]
    OBVIOUS
  <2>2. queue \in Seq(Frame) /\ usedIds \subseteq Id /\ recordingId \in usedIds \cup {NoId}
    OBVIOUS
  <2>3. /\ dropped = 0 /\ seq = 0 /\ written = 0 /\ discarded = 0 /\ pending = 0
        /\ ~ok /\ ~finished /\ ~failed /\ ~down /\ ~startError /\ ~hasWriter
        /\ {ok, finished, failed, down, startError} = {FALSE}
    OBVIOUS
  <2> HIDE DEF Init
  <2> QED BY <2>1, <2>2, <2>3 DEF Types
<1>2. Stages /\ FramesAccounted /\ Numbers /\ Rows /\ Reports
  BY DEF Stages, FramesAccounted, Numbers, Rows, Reports, Bad
<1>3. RowsInOrder
  BY DEF RowsInOrder
<1> QED BY <1>1, <1>2, <1>3 DEF FInv

(* A step that leaves ring, file and numbers alone.                          *)
LEMMA NumbersStay ==
  ASSUME FInv, UNCHANGED <<ring, files, path, ok, error, written, discarded, pending, seq, frame,
                           hasWriter, recordingId, usedIds>>,
         wpc' = wpc, finished' = finished,
         rpc' = rpc \/ {rpc, rpc'} \cap {"push"} = {},
         failed' \in BOOLEAN, down' \in BOOLEAN, startError' \in BOOLEAN, Reports'
  PROVE  FInv'
<1> USE DEF ring
<1>1. Types'
  BY DEF FInv, Types
<1>2. Stages'
  BY DEF FInv, Stages
<1>3. FramesAccounted' /\ Numbers' /\ Rows'
  BY ZenonT(30) DEF FInv, FramesAccounted, Numbers, Rows, Offered
<1>4. RowsInOrder'
  BY DEF FInv, RowsInOrder
<1> QED BY <1>1, <1>2, <1>3, <1>4 DEF FInv

(* record() numbers a frame, then pushes it or counts it as dropped.         *)
LEMMA RealTimeRecorded ==
  ASSUME IInv, FInv, RealTime \/ RtEnds
  PROVE  FInv'
<1>1. ASSUME Enter \/ Leave \/ RtEnds PROVE FInv'
  <2>1. /\ UNCHANGED <<ring, writer, manager, seq, frame>>
        /\ {rpc, rpc'} \cap {"push"} = {} \/ rpc' = rpc
    BY <1>1 DEF Enter, Leave, RtEnds
  <2>2. Types /\ Reports
    BY DEF FInv
  <2>3. Reports' /\ failed' \in BOOLEAN /\ down' \in BOOLEAN /\ startError' \in BOOLEAN
    BY <2>1, <2>2 DEF Reports, Bad, Types, ring, writer, manager
  <2> QED BY <2>1, <2>3, NumbersStay DEF writer, manager, counters
<1>2. ASSUME CheckEnabled PROVE FInv'
  <2>1. CASE ~enabled
    <3>1. /\ UNCHANGED <<ring, writer, manager, seq, frame>>
          /\ {rpc, rpc'} \cap {"push"} = {}
      BY <1>2, <2>1 DEF CheckEnabled
    <3>2. Types /\ Reports
      BY DEF FInv
    <3>3. Reports' /\ failed' \in BOOLEAN /\ down' \in BOOLEAN /\ startError' \in BOOLEAN
      BY <3>1, <3>2 DEF Reports, Bad, Types, ring, writer, manager
    <3> QED BY <3>1, <3>3, NumbersStay DEF writer, manager, counters
  <2>2. CASE enabled
    <3>1. /\ frame' = [id |-> recordingId, seq |-> seq] /\ seq' = seq + 1
          /\ rpc = "check" /\ rpc' = "push"
          /\ UNCHANGED <<ring, writer, manager>>
      BY <1>2, <2>2 DEF CheckEnabled
    <3>2. Offered' = Offered /\ seq \in Nat
      BY <3>1 DEF Offered, FInv, Types
    <3>3. Types' /\ Stages' /\ FramesAccounted'
      BY <3>1 DEF FInv, Types, Stages, FramesAccounted, ring, writer, manager, counters
    <3>4. Rows'
      BY <3>1, <3>2 DEF FInv, Rows, ring, writer, manager, counters
    <3>6. Numbers'
      <4>1. seq' >= 1 /\ seq' - 1 = seq
        BY <3>1, <3>2
      <4>2. frame' = [id |-> recordingId', seq |-> seq' - 1]
        BY <3>1, <4>1 DEF manager
      <4> QED BY <3>1, <3>2, <4>1, <4>2 DEF FInv, Numbers, ring, manager
    <3>5. RowsInOrder' /\ Reports'
      BY <3>1 DEF FInv, RowsInOrder, Reports, Bad, ring, writer, manager
    <3> QED BY <3>3, <3>4, <3>5, <3>6 DEF FInv
  <2> QED BY <2>1, <2>2
<1>3. ASSUME Push PROVE FInv'
  <2>1. /\ rpc = "push" /\ rpc' = "leave"
        /\ UNCHANGED <<writer, manager, seq, frame>>
    BY <1>3 DEF Push
  <2>2. /\ frame = [id |-> recordingId, seq |-> seq - 1] /\ seq >= 1 /\ seq \in Nat
        /\ hasWriter /\ frame \in Frame
        /\ enabled \/ mpc = "awaitQuiet"
    BY <2>1 DEF FInv, Numbers, Types, IInv, Draining, Frame
  <2>3. Offered = seq - 1 /\ Offered' = seq
    BY <2>1 DEF Offered
  <2>4. RowsInOrder' /\ Reports' /\ Stages'
    <3>1. Reports'
      BY <2>1, <2>2 DEF FInv, Reports, writer, manager
    <3> QED BY <2>1, <3>1 DEF FInv, RowsInOrder, Stages, writer, counters
  <2>5. CASE Ring!Accept(frame)
    <3>1. queue' = Append(queue, frame) /\ dropped' = dropped /\ queue \in Seq(Frame)
          /\ dropped \in Nat
      BY <2>5 DEF Ring!Accept, FInv, Types
    <3>2. /\ Len(queue') = Len(queue) + 1 /\ queue' \in Seq(Frame)
          /\ \A i \in 1 .. Len(queue) : queue'[i] = queue[i]
          /\ queue'[Len(queue) + 1] = frame /\ Len(queue) \in Nat
      BY <2>2, <3>1
    <3>3. Types' /\ FramesAccounted'
      BY <2>1, <3>1, <3>2 DEF FInv, Types, FramesAccounted, writer, manager, counters
    <3>4. Numbers'
      <4>1. \A i \in 1 .. Len(queue) : queue'[i].id = recordingId /\ queue'[i].seq < seq - 1
        BY <2>3, <3>2 DEF FInv, Numbers
      <4>2. \A i \in 1 .. Len(queue) : queue'[i].seq \in Nat
        BY <3>1, <3>2, FrameFields
      <4>3. queue'[Len(queue) + 1].id = recordingId /\ queue'[Len(queue) + 1].seq = seq - 1
        BY <2>2, <3>2
      <4>4. \A i \in 1 .. Len(queue') : queue'[i].id = recordingId' /\ queue'[i].seq < Offered'
        BY <2>1, <2>2, <2>3, <3>2, <4>1, <4>2, <4>3 DEF manager
      <4>5. \A i, j \in 1 .. Len(queue') : i < j => queue'[i].seq < queue'[j].seq
        <5>1. ASSUME NEW i \in 1 .. Len(queue'), NEW j \in 1 .. Len(queue'), i < j
              PROVE  queue'[i].seq < queue'[j].seq
          <6>1. i \in 1 .. Len(queue)
            BY <3>2, <5>1
          <6>2. CASE j \in 1 .. Len(queue)
            BY <3>2, <5>1, <6>1, <6>2 DEF FInv, Numbers
          <6>3. CASE j = Len(queue) + 1
            BY <4>1, <4>3, <6>1, <6>3
          <6> QED BY <3>2, <6>2, <6>3
        <5> QED BY <5>1
      <4>6. dropped' = 0 =>
              \A i \in 1 .. Len(queue') : queue'[i].seq = Offered' - Len(queue') + i - 1
        <5> SUFFICES ASSUME dropped = 0, NEW i \in 1 .. Len(queue')
                     PROVE  queue'[i].seq = seq - (Len(queue) + 1) + i - 1
          BY <2>3, <3>1, <3>2
        <5>1. CASE i \in 1 .. Len(queue)
          <6>1. queue[i].seq = (seq - 1) - Len(queue) + i - 1
            BY <2>3, <5>1 DEF FInv, Numbers
          <6> QED BY <2>2, <3>2, <5>1, <6>1
        <5>2. CASE i = Len(queue) + 1
          BY <2>2, <3>2, <4>3, <5>2
        <5> QED BY <3>2, <5>1, <5>2
      <4> QED BY <2>1, <4>4, <4>5, <4>6 DEF Numbers
    <3>5. Rows'
      <4> SUFFICES ASSUME hasWriter, ok PROVE Rows'
        BY <2>1 DEF Rows, writer, manager
      <4>1. /\ files[path] \in Seq(Frame) /\ Len(files[path]) = pending + written
            /\ \A i \in 1 .. Len(files[path]) :
                 /\ files[path][i].id = recordingId
                 /\ files[path][i].seq < seq - 1 /\ files[path][i].seq \in Nat
                 /\ \A j \in 1 .. Len(queue) : files[path][i].seq < queue[j].seq
                 /\ \A j \in 1 .. i - 1 : files[path][j].seq < files[path][i].seq
            /\ dropped = 0 => \A i \in 1 .. Len(files[path]) : files[path][i].seq = i - 1
        BY <2>3, FrameFields DEF FInv, Rows
      <4>2. \A i \in 1 .. Len(files[path]) : \A j \in 1 .. Len(queue') :
              files[path][i].seq < queue'[j].seq
        BY <2>2, <3>2, <4>1
      <4>3. \A i \in 1 .. Len(files[path]) : files[path][i].seq < seq
        BY <2>2, <4>1
      <4> QED BY <2>1, <2>3, <3>1, <4>1, <4>2, <4>3 DEF Rows, writer, manager, counters
    <3> QED BY <2>4, <3>3, <3>4, <3>5 DEF FInv
  <2>6. CASE Ring!Refuse
    <3>1. queue' = queue /\ dropped' = dropped + 1 /\ dropped \in Nat
      BY <2>6 DEF Ring!Refuse, FInv, Types
    <3>2. Types' /\ FramesAccounted'
      BY <2>1, <3>1 DEF FInv, Types, FramesAccounted, writer, manager, counters
    <3>3. Numbers'
      <4>1. \A i \in 1 .. Len(queue) : queue[i].seq < seq
        <5>1. \A i \in 1 .. Len(queue) : queue[i].seq < seq - 1 /\ queue[i].seq \in Nat
          BY <2>3, FrameFields DEF FInv, Numbers, Types
        <5> QED BY <2>2, <5>1
      <4> QED BY <2>1, <2>3, <3>1, <4>1 DEF FInv, Numbers, manager
    <3>4. Rows'
      <4> SUFFICES ASSUME hasWriter, ok PROVE Rows'
        BY <2>1 DEF Rows, writer, manager
      <4>1. /\ files[path] \in Seq(Frame)
            /\ \A i \in 1 .. Len(files[path]) :
                 files[path][i].seq < seq - 1 /\ files[path][i].seq \in Nat
        BY <2>3, FrameFields DEF FInv, Rows
      <4>2. \A i \in 1 .. Len(files[path]) : files[path][i].seq < seq
        BY <2>2, <4>1
      <4> QED BY <2>1, <2>3, <3>1, <4>2 DEF FInv, Rows, writer, manager, counters
    <3> QED BY <2>4, <3>2, <3>3, <3>4 DEF FInv
  <2> QED BY <1>3, <2>5, <2>6 DEF Push
<1> QED BY <1>1, <1>2, <1>3 DEF RealTime

(* The holder of the mutex clears the ring between recordings, and a start   *)
(* or stop that saw a failure leaves failed_ set.                            *)
LEMMA ManagerRecorded ==
  ASSUME IInv, FInv, Request \/ Quiet \/ Manager
  PROVE  FInv'
<1>1. Types /\ Stages /\ Reports /\ NoId \notin Id
  BY NoneAssumption DEF FInv
<1>2. ASSUME NEW id \in Id, NEW p \in Path, MayStart(id, p), BeginSession(id),
             UNCHANGED <<files, enabled, down, mpc>> \/ (mpc' = "awaitReady" /\ UNCHANGED <<files, enabled, down>>),
             rpc' = rpc, failed' \in BOOLEAN, startError' \in BOOLEAN, startError' => failed',
             \/ ~hasWriter' /\ UNCHANGED <<writer>>
             \/ hasWriter' /\ Writer!Construct(p)
      PROVE  FInv'
  <2>1. /\ mpc = "idle" /\ ~enabled /\ ~down
        /\ rpc # "push" /\ wpc = "done"
    BY <1>2 DEF MayStart, IInv, Over
  <2>2. /\ usedIds' = usedIds \cup {id} /\ recordingId' = id
        /\ queue' = <<>> /\ dropped' = 0 /\ seq' = 0
    BY <1>2 DEF BeginSession, Ring!Clear
  <2>3. /\ Len(queue') = 0 /\ queue' \in Seq(Frame)
    BY <2>2
  <2>4. \/ ~hasWriter' /\ UNCHANGED writer
        \/ /\ path' = p /\ wpc' = "prepare" /\ ~ok' /\ ok' = FALSE /\ error' = "none"
           /\ finished' = FALSE /\ written' = 0 /\ discarded' = 0 /\ pending' = 0
    BY <1>2 DEF Writer!Construct
  <2>5. Types'
    <3>1. usedIds' \subseteq Id /\ recordingId' \in usedIds' \cup {NoId} /\ recordingId' \in Id
      BY <1>1, <2>2 DEF Types
    <3>2. ok' \in BOOLEAN /\ finished' \in BOOLEAN /\ down' \in BOOLEAN
      BY <1>1, <1>2, <2>4 DEF Types, writer
    <3>3. written' \in Nat /\ discarded' \in Nat /\ pending' \in Nat
      BY <1>1, <2>4 DEF Types, writer, counters
    <3>4. hasWriter' => path' \in Path
      BY <2>4
    <3> QED BY <1>1, <1>2, <2>2, <2>3, <3>1, <3>2, <3>3, <3>4 DEF Types
  <2>6. Stages'
    BY <1>1, <2>4 DEF Stages, writer, counters
  <2>7. FramesAccounted' /\ Numbers'
    BY <1>2, <2>1, <2>2, <2>3, <2>4 DEF FramesAccounted, Numbers
  <2>8. Rows'
    BY <2>4 DEF Rows
  <2>9. RowsInOrder'
    BY <1>2 DEF FInv, RowsInOrder
  <2>10. Reports'
    BY <1>2, <2>1, <2>2, <2>4 DEF Reports, Bad
  <2> QED BY <2>5, <2>6, <2>7, <2>8, <2>9, <2>10 DEF FInv
<1>3. ASSUME NEW id \in Id, NEW p \in Path, Start(id, p) PROVE FInv'
  <2>1. /\ MayStart(id, p) /\ BeginSession(id) /\ hasWriter' = TRUE /\ Writer!Construct(p)
        /\ mpc' = "awaitReady" /\ startError' = FALSE
        /\ UNCHANGED <<files, failed, enabled, down, rpc>>
    BY <1>3 DEF Start
  <2> QED BY <1>1, <1>2, <2>1 DEF Types
<1>4. ASSUME NEW id \in Id, NEW p \in Path, StartThrows(id, p) PROVE FInv'
  <2>1. /\ MayStart(id, p) /\ BeginSession(id) /\ hasWriter' = FALSE /\ UNCHANGED writer
        /\ failed' = TRUE /\ startError' = TRUE
        /\ UNCHANGED <<mpc, enabled, down, rpc>>
    BY <1>4 DEF StartThrows
  <2>2. UNCHANGED files
    BY <2>1 DEF writer
  <2> QED BY <1>2, <2>1, <2>2
<1>5. ASSUME UNCHANGED <<ring, files, path, wpc, isOpen, ok, error, finished, counters,
                         hasWriter, recordingId, usedIds, startError, producer>>,
             failed' \in BOOLEAN, down' \in BOOLEAN, Reports'
      PROVE  FInv'
  <2>1. startError' \in BOOLEAN
    BY <1>1, <1>5 DEF Types
  <2> QED BY <1>5, <2>1, NumbersStay DEF counters, producer
<1>6. ASSUME StartSucceeds PROVE FInv'
  <2>1. /\ mpc = "awaitReady" /\ enabled' = TRUE /\ mpc' = "idle"
        /\ UNCHANGED <<ring, writer, hasWriter, recordingId, usedIds, startError, failed, down, producer>>
    BY <1>6 DEF StartSucceeds
  <2>2. Reports'
    BY <1>1, <2>1 DEF Reports
  <2> QED BY <1>1, <1>5, <2>1, <2>2 DEF Types, writer
<1>7. ASSUME StartFails PROVE FInv'
  <2>1. /\ mpc = "awaitReady" /\ mpc' = "joinFailed"
        /\ UNCHANGED <<ring, files, path, wpc, isOpen, ok, error, finished, counters,
                       hasWriter, recordingId, usedIds, startError, failed, enabled, down, producer>>
    BY <1>7 DEF StartFails
  <2>2. Reports'
    BY <1>1, <2>1 DEF Reports
  <2> QED BY <1>1, <1>5, <2>1, <2>2 DEF Types
<1>8. ASSUME StartFailed PROVE FInv'
  <2>1. /\ mpc = "joinFailed" /\ mpc' = "idle" /\ failed' = TRUE
        /\ UNCHANGED <<ring, writer, hasWriter, recordingId, usedIds, startError, enabled, down, producer>>
    BY <1>8 DEF StartFailed
  <2>2. Reports'
    BY <1>1, <2>1 DEF Reports
  <2> QED BY <1>1, <1>5, <2>1, <2>2 DEF Types, writer
<1>9. ASSUME StopBegin, down' \in BOOLEAN PROVE FInv'
  <2>1. /\ mpc' = "awaitQuiet" /\ enabled' = FALSE
        /\ UNCHANGED <<ring, writer, hasWriter, recordingId, usedIds, startError, failed, producer>>
    BY <1>9 DEF StopBegin
  <2>2. Reports'
    BY <1>1, <2>1 DEF Reports
  <2> QED BY <1>1, <1>5, <1>9, <2>1, <2>2 DEF Types, writer
<1>10. ASSUME Quiet PROVE FInv'
  <2>1. /\ mpc = "awaitQuiet" /\ (mpc' = "join" \/ (mpc' = "idle" /\ ~hasWriter))
        /\ UNCHANGED <<ring, files, path, wpc, isOpen, ok, error, finished, counters,
                       hasWriter, recordingId, usedIds, startError, failed, enabled, down, producer>>
    BY <1>10 DEF Quiet
  <2>2. Reports'
    BY <1>1, <2>1 DEF Reports, Bad
  <2> QED BY <1>1, <1>5, <2>1, <2>2 DEF Types
<1>11. ASSUME Joined PROVE FInv'
  <2>1. /\ mpc = "join" /\ mpc' = "idle"
        /\ failed' = (failed \/ ~(finished /\ ok /\ dropped = 0))
        /\ UNCHANGED <<ring, writer, hasWriter, recordingId, usedIds, startError, enabled, down, producer>>
    BY <1>11 DEF Joined, Writer!Complete
  <2>2. Bad' => failed'
    <3>1. ASSUME dropped > 0 \/ error # "none" PROVE failed'
      <4>1. dropped # 0 \/ ~ok
        BY <1>1, <3>1 DEF Stages, Types
      <4> QED BY <2>1, <4>1
    <3> QED BY <2>1, <3>1 DEF Bad, ring, writer
  <2>3. Reports' /\ failed' \in BOOLEAN
    BY <1>1, <2>1, <2>2 DEF Reports
  <2> QED BY <1>1, <1>5, <2>1, <2>3 DEF Types, writer
<1>12. ASSUME NEW id \in Id, Stop(id) PROVE FInv'
  BY <1>1, <1>9, <1>12 DEF Stop, Types
<1>13. ASSUME Shutdown PROVE FInv'
  BY <1>9, <1>13 DEF Shutdown
<1> QED
  BY <1>3, <1>4, <1>6, <1>7, <1>8, <1>10, <1>11, <1>12, <1>13 DEF Request, Manager

(* The writer runs only while a recording or a call of the manager needs it. *)
LEMMA WriterIsAtWork ==
  ASSUME IInv, FInv, wpc # "done"
  PROVE  hasWriter /\ path \in Path /\ recordingId \in Id /\ (enabled \/ mpc # "idle")
BY DEF IInv, Over, Draining, FInv, Types

(* What the writer meets need not be in failed_ yet while it runs.           *)
LEMMA WriterReports ==
  ASSUME IInv, FInv, UNCHANGED manager, wpc # "done"
  PROVE  Reports'
<1>1. Reports /\ (enabled \/ mpc # "idle")
  BY WriterIsAtWork DEF FInv
<1> QED BY <1>1 DEF Reports, manager

(* The file is made empty, or the writer gives up before the first frame.    *)
LEMMA OpenRecorded ==
  ASSUME IInv, FInv, UNCHANGED <<manager, producer>>,
         Writer!OpenFails \/ Writer!OpenSucceeds \/ Writer!HeaderFails
  PROVE  FInv'
<1>1. /\ wpc = "prepare" /\ wpc' = "loop"
      /\ UNCHANGED <<queue, dropped, taken, path, stop, finished, counters>>
      /\ \/ files' = files
         \/ files[path] = Absent /\ files' = [files EXCEPT ![path] = <<>>]
      /\ \/ ok' = TRUE /\ error' = error /\ files' = [files EXCEPT ![path] = <<>>]
         \/ ok' = (ok /\ error # "none")
  BY DEF Writer!OpenFails, Writer!OpenSucceeds, Writer!HeaderFails, Writer!Opens, Writer!Fail,
     Writer!counters, counters
<1>2. /\ written = 0 /\ discarded = 0 /\ error = "none" /\ pending = 0
      /\ hasWriter /\ path \in Path /\ files \in [Path -> Seq(Frame) \cup {Absent}]
  BY <1>1, WriterIsAtWork DEF FInv, Types, Stages
<1>3. \/ ok' = TRUE /\ error' = "none" /\ files'[path] = <<>>
      \/ ok' = FALSE
  BY <1>1, <1>2
<1>4. files' \in [Path -> Seq(Frame) \cup {Absent}]
  <2>1. <<>> \in Seq(Frame)
    OBVIOUS
  <2> QED BY <1>1, <1>2, <2>1
<1>5. Types'
  BY <1>1, <1>3, <1>4 DEF FInv, Types, manager, producer, counters
<1>6. Stages' /\ FramesAccounted' /\ Numbers'
  <2>1. Stages'
    BY <1>1, <1>2, <1>3 DEF FInv, Stages, counters
  <2> QED BY <1>1, <2>1 DEF FInv, FramesAccounted, Numbers, Offered, manager, producer, counters
<1>7. Rows'
  <2>1. <<>> \in Seq(Frame) /\ Len(<<>>) = 0
    OBVIOUS
  <2>2. pending' + written' = 0 /\ path' = path
    BY <1>1, <1>2 DEF counters
  <2>3. CASE ok' = FALSE
    BY <2>3 DEF Rows
  <2>4. CASE files'[path] = <<>>
    BY <2>1, <2>2, <2>4 DEF Rows
  <2> QED BY <1>3, <2>3, <2>4
<1>8. RowsInOrder'
  <2> SUFFICES ASSUME NEW p \in Path, files'[p] # Absent,
                      NEW i \in DOMAIN files'[p], NEW j \in DOMAIN files'[p], i < j
               PROVE  files'[p][i].id = files'[p][j].id /\ files'[p][i].seq < files'[p][j].seq
    BY DEF RowsInOrder
  <2>1. files'[p] = files[p]
    BY <1>1, <1>2
  <2> QED BY <2>1 DEF FInv, RowsInOrder
<1>9. Reports'
  BY <1>1, WriterReports
<1> QED BY <1>5, <1>6, <1>7, <1>8, <1>9 DEF FInv

(* Between the batches and at the end. *)
LEMMA TurnRecorded ==
  ASSUME IInv, FInv, UNCHANGED <<manager, producer>>,
         Writer!LoopTop \/ Writer!LastTop \/ Writer!CloseFile \/ Writer!Finish
  PROVE  FInv'
<1>1. /\ wpc \in {"loop", "last", "close", "finish"} /\ wpc' # "prepare"
      /\ UNCHANGED <<queue, dropped, taken, files, path, written, discarded, pending>>
      /\ finished' = finished \/ (finished' = TRUE /\ wpc' = "done")
      /\ (ok' = ok /\ error' = error) \/ ok' = (ok /\ error # "none")
  BY DEF Writer!LoopTop, Writer!LastTop, Writer!CloseFile, Writer!Finish, Writer!Fail,
     Writer!counters
<1>2. ok' = FALSE \/ (ok' = ok /\ error' = error)
  BY <1>1 DEF FInv, Stages, Types
<1>3. finished' => wpc' = "done"
  BY <1>1 DEF FInv, Stages
<1>4. pending = 0
  BY <1>1 DEF FInv, Stages
<1>5. Types' /\ Stages'
  <2>1. ok' \in BOOLEAN /\ finished' \in BOOLEAN
    BY <1>1, <1>2 DEF FInv, Types
  <2>2. Types'
    BY <1>1, <2>1 DEF FInv, Types, manager, producer
  <2>3. Stages'
    BY <1>1, <1>2, <1>3, <1>4 DEF FInv, Stages
  <2> QED BY <2>2, <2>3
<1>6. FramesAccounted' /\ Numbers'
  BY <1>1 DEF FInv, FramesAccounted, Numbers, Offered, manager, producer
<1>7. Rows'
  BY <1>1, <1>2 DEF FInv, Rows, Offered, manager, producer
<1>8. RowsInOrder'
  BY <1>1 DEF FInv, RowsInOrder
<1>9. Reports'
  BY <1>1, WriterReports
<1> QED BY <1>5, <1>6, <1>7, <1>8, <1>9 DEF FInv

LEMMA BatchRecorded ==
  ASSUME IInv, FInv, UNCHANGED <<manager, producer>>, Writer!EndBatch
  PROVE  FInv'
<1>1. /\ wpc \in {"drain", "lastDrain"} /\ wpc' \in {"loop", "last"}
      /\ UNCHANGED <<queue, dropped, taken, files, path, finished>>
      /\ pending' = 0
      /\ \/ written' = written + pending /\ discarded' = discarded /\ ok' = ok /\ error' = error
         \/ /\ written' = written /\ discarded' = discarded + pending
            /\ ok' = (ok /\ error # "none")
  BY DEF Writer!EndBatch, Writer!FlushSucceeds, Writer!FlushFails, Writer!Fail
<1>2. Types /\ Stages
  BY DEF FInv
<1>3. \/ /\ written' = written + pending /\ discarded' = discarded
         /\ ok' = ok /\ error' = error
      \/ written' = written /\ discarded' = discarded + pending /\ ok' = FALSE
  BY <1>1, <1>2 DEF Stages, Types
<1>4. Types' /\ Stages'
  <2>1. written' \in Nat /\ discarded' \in Nat
    BY <1>2, <1>3 DEF Types
  <2> QED BY <1>1, <1>2, <1>3, <2>1 DEF Types, Stages, manager, producer
<1>5. FramesAccounted' /\ Numbers'
  <2>1. pending + written + discarded = pending' + written' + discarded'
    BY <1>1, <1>2, <1>3 DEF Types
  <2>2. FramesAccounted'
    BY <1>1, <1>2, <1>3 DEF FInv, Types, FramesAccounted, manager, producer
  <2> QED BY <1>1, <2>2 DEF FInv, Numbers, Offered, manager, producer
<1>6. Rows'
  <2> SUFFICES ASSUME hasWriter, ok, written' = written + pending, ok' = ok PROVE Rows'
    BY <1>3 DEF Rows, manager
  <2>1. pending' + written' = pending + written
    BY <1>1, <1>2 DEF Types
  <2> QED BY <1>1, <2>1 DEF FInv, Rows, Offered, manager, producer
<1>7. RowsInOrder'
  BY <1>1 DEF FInv, RowsInOrder
<1>8. Reports'
  BY <1>1, WriterReports
<1> QED BY <1>4, <1>5, <1>6, <1>7, <1>8 DEF FInv

(* A frame leaves the ring: into the file, or not.                           *)
LEMMA RowRecorded ==
  ASSUME IInv, FInv, UNCHANGED <<manager, producer>>, Writer!DrainOne
  PROVE  FInv'
<1>1. /\ wpc \in {"drain", "lastDrain"} /\ wpc' = wpc
      /\ queue # <<>> /\ queue' = Tail(queue) /\ dropped' = dropped
      /\ UNCHANGED <<path, finished>>
      /\ \/ /\ ok /\ files' = [files EXCEPT ![path] = Append(@, Head(queue))]
            /\ pending' = pending + 1
            /\ UNCHANGED <<ok, error, discarded, written>>
         \/ /\ discarded' = discarded + 1
            /\ ~ok /\ UNCHANGED <<files, ok, error, pending, written>>
         \/ /\ discarded' = discarded + pending + 1 /\ pending' = 0
            /\ ok' = (ok /\ error # "none") /\ UNCHANGED <<files, written>>
  BY DEF Writer!DrainOne, Writer!Ring!Take, Writer!RowDiscarded, Writer!RowWritten,
     Writer!RowFails, Writer!Fail
<1>2. Types /\ Stages /\ Numbers /\ FramesAccounted /\ Rows
  BY DEF FInv
<1>3. /\ hasWriter /\ path \in Path /\ recordingId \in Id
      /\ queue \in Seq(Frame) /\ files \in [Path -> Seq(Frame) \cup {Absent}]
      /\ seq \in Nat /\ written \in Nat /\ discarded \in Nat /\ pending \in Nat /\ dropped \in Nat
  BY <1>1, <1>2, WriterIsAtWork DEF FInv, Types
<1>4. /\ queue' \in Seq(Frame) /\ Len(queue) \in Nat /\ Len(queue) >= 1
      /\ Len(queue') = Len(queue) - 1
      /\ \A i \in 1 .. Len(queue') : queue'[i] = queue[i + 1]
      /\ Head(queue) = queue[1] /\ Head(queue) \in Frame
  BY <1>1, <1>3
<1>5. Offered' = Offered /\ Offered \in Int
  BY <1>3 DEF Offered, producer
<1>6. Numbers'
  <2>1. \A i \in 1 .. Len(queue') : queue'[i].id = recordingId /\ queue'[i].seq < Offered
    BY <1>2, <1>4 DEF Numbers
  <2>2. \A i, j \in 1 .. Len(queue') : i < j => queue'[i].seq < queue'[j].seq
    <3> SUFFICES ASSUME NEW i \in 1 .. Len(queue'), NEW j \in 1 .. Len(queue'), i < j
                 PROVE  queue'[i].seq < queue'[j].seq
      OBVIOUS
    <3>1. i + 1 \in 1 .. Len(queue) /\ j + 1 \in 1 .. Len(queue) /\ i + 1 < j + 1
      BY <1>4
    <3> QED BY <1>2, <1>4, <3>1 DEF Numbers
  <2>3. dropped = 0 =>
          \A i \in 1 .. Len(queue') : queue'[i].seq = Offered - Len(queue') + i - 1
    <3> SUFFICES ASSUME dropped = 0, NEW i \in 1 .. Len(queue')
                 PROVE  queue'[i].seq = Offered - Len(queue') + i - 1
      OBVIOUS
    <3>1. i + 1 \in 1 .. Len(queue) /\ queue[i + 1].seq = Offered - Len(queue) + (i + 1) - 1
      BY <1>2, <1>4 DEF Numbers
    <3> QED BY <1>4, <1>5, <3>1
  <2> QED BY <1>1, <1>2, <1>5, <2>1, <2>2, <2>3 DEF Numbers, manager, producer
<1>7. Reports'
  BY <1>1, WriterReports
<1>8. CASE files' = files /\ ok' = FALSE
  <2>1. written' \in Nat /\ discarded' \in Nat /\ pending' \in Nat
    BY <1>1, <1>3
  <2>2. Types'
    BY <1>1, <1>2, <1>4, <1>8, <2>1 DEF Types, manager, producer
  <2>3. Stages'
    BY <1>1, <1>2, <1>8 DEF Stages
  <2>4. FramesAccounted'
    <3>1. seq = (IF rpc = "push" THEN 1 ELSE 0) + dropped + Len(queue) + pending + written + discarded
      BY <1>2, <1>3 DEF FramesAccounted
    <3>2. written' = written /\ Len(queue') = Len(queue) - 1
      BY <1>1, <1>4, <1>8
    <3>3. seq = (IF rpc = "push" THEN 1 ELSE 0) + dropped + Len(queue') + pending' + written' + discarded'
      <4>1. PICK n \in Nat, m \in Nat, h \in Nat, p \in Nat, d \in Nat :
              /\ n = Len(queue) /\ m = Len(queue') /\ h = (IF rpc = "push" THEN 1 ELSE 0)
              /\ p = pending' /\ d = discarded'
        BY <1>4, <2>1
      <4>2. seq \in Nat /\ dropped \in Nat /\ pending \in Nat /\ written \in Nat /\ discarded \in Nat
        BY <1>3
      <4>3. m = n - 1
        BY <3>2, <4>1
      <4>4. seq = h + dropped + n + pending + written + discarded
        BY <3>1, <4>1
      <4>5. p + d = pending + discarded + 1
        <5>1. CASE discarded' = discarded + 1 /\ pending' = pending
          BY <4>1, <4>2, <5>1
        <5>2. CASE discarded' = discarded + pending + 1 /\ pending' = 0
          BY <4>1, <4>2, <5>2
        <5> QED BY <1>1, <1>8, <5>1, <5>2
      <4>6. seq = h + dropped + m + p + written + d
        BY <4>2, <4>3, <4>4, <4>5
      <4> QED BY <3>2, <4>1, <4>6
    <3> QED BY <1>1, <3>3 DEF FramesAccounted, producer
  <2>5. Rows' /\ RowsInOrder'
    BY <1>8 DEF FInv, Rows, RowsInOrder
  <2> QED BY <1>6, <1>7, <2>2, <2>3, <2>4, <2>5 DEF FInv
<1>9. CASE /\ ok /\ files' = [files EXCEPT ![path] = Append(@, Head(queue))]
           /\ pending' = pending + 1
           /\ UNCHANGED <<ok, error, discarded, written>>
  <2> DEFINE rows == files[path]
             more == files'[path]
             last == Len(rows) + 1
  <2>1. /\ rows \in Seq(Frame) /\ Len(rows) = pending + written
        /\ \A i \in 1 .. Len(rows) :
             /\ rows[i].id = recordingId /\ rows[i].seq < Offered
             /\ \A j \in 1 .. Len(queue) : rows[i].seq < queue[j].seq
             /\ \A j \in 1 .. i - 1 : rows[j].seq < rows[i].seq
        /\ dropped = 0 => \A i \in 1 .. Len(rows) : rows[i].seq = i - 1
    BY <1>2, <1>3, <1>9 DEF Rows
  <2>2. /\ more = Append(rows, queue[1]) /\ \A p \in Path \ {path} : files'[p] = files[p]
        /\ files' \in [Path -> Seq(Frame) \cup {Absent}]
    <3>1. Append(rows, queue[1]) \in Seq(Frame)
      BY <1>4, <2>1
    <3> QED BY <1>3, <1>4, <1>9, <3>1
  <2>3. /\ more \in Seq(Frame) /\ Len(more) = last /\ last \in Nat /\ last >= 1
        /\ \A i \in 1 .. Len(rows) : more[i] = rows[i]
        /\ more[last] = queue[1]
    BY <1>4, <2>1, <2>2
  <2> HIDE DEF rows, more
  <2>4. Types'
    <3>1. pending' \in Nat
      BY <1>3, <1>9
    <3> QED BY <1>1, <1>2, <1>4, <1>9, <2>2, <3>1 DEF Types, manager, producer
  <2>5. Stages'
    BY <1>1, <1>2, <1>9 DEF Stages
  <2>6. seq = (IF rpc = "push" THEN 1 ELSE 0) + dropped + Len(queue) + pending + written + discarded
    BY <1>2, <1>3 DEF FramesAccounted
  <2>7. FramesAccounted'
    <3>1. seq = (IF rpc = "push" THEN 1 ELSE 0) + dropped + Len(queue') + pending' + written' + discarded'
      <4>1. CASE rpc = "push"
        BY <1>1, <1>3, <1>4, <1>9, <2>6, <4>1
      <4>2. CASE rpc # "push"
        BY <1>1, <1>3, <1>4, <1>9, <2>6, <4>2
      <4> QED BY <4>1, <4>2
    <3> QED BY <1>1, <3>1 DEF FramesAccounted, producer
  <2>8. queue[1].id = recordingId /\ queue[1].seq < Offered /\ queue[1].seq \in Nat
    BY <1>2, <1>3, <1>4, FrameFields DEF Numbers
  <2>9. \A i \in 1 .. last :
          /\ more[i].id = recordingId /\ more[i].seq < Offered
          /\ \A j \in 1 .. Len(queue') : more[i].seq < queue'[j].seq
          /\ \A j \in 1 .. i - 1 : more[j].seq < more[i].seq
    <3> SUFFICES ASSUME NEW i \in 1 .. last
                 PROVE  /\ more[i].id = recordingId /\ more[i].seq < Offered
                        /\ \A j \in 1 .. Len(queue') : more[i].seq < queue'[j].seq
                        /\ \A j \in 1 .. i - 1 : more[j].seq < more[i].seq
      OBVIOUS
    <3>1. CASE i \in 1 .. Len(rows)
      <4>1. \A j \in 1 .. Len(queue') : more[i].seq < queue'[j].seq
        <5>1. \A j \in 1 .. Len(queue') : j + 1 \in 1 .. Len(queue) /\ queue'[j] = queue[j + 1]
          BY <1>4
        <5> QED BY <2>1, <2>3, <3>1, <5>1
      <4>2. \A j \in 1 .. i - 1 : more[j].seq < more[i].seq
        <5>1. \A j \in 1 .. i - 1 : j \in 1 .. Len(rows)
          BY <2>1, <3>1
        <5> QED BY <2>1, <2>3, <3>1, <5>1
      <4> QED BY <2>1, <2>3, <3>1, <4>1, <4>2
    <3>2. CASE i = last
      <4>1. \A j \in 1 .. Len(queue') : queue[1].seq < queue'[j].seq
        <5>1. \A j \in 1 .. Len(queue') :
                j + 1 \in 1 .. Len(queue) /\ 1 \in 1 .. Len(queue) /\ 1 < j + 1 /\ queue'[j] = queue[j + 1]
          BY <1>4
        <5> QED BY <1>2, <5>1 DEF Numbers
      <4>2. \A j \in 1 .. i - 1 : j \in 1 .. Len(rows)
        BY <2>1, <3>2
      <4>3. 1 \in 1 .. Len(queue)
        BY <1>4
      <4>4. \A j \in 1 .. i - 1 : more[j].seq < queue[1].seq
        BY <2>1, <2>3, <4>2, <4>3
      <4> QED BY <2>3, <2>8, <3>2, <4>1, <4>4
    <3> QED BY <2>1, <2>3, <3>1, <3>2
  <2>10. dropped = 0 => \A i \in 1 .. last : more[i].seq = i - 1
    <3> SUFFICES ASSUME dropped = 0, NEW i \in 1 .. last PROVE more[i].seq = i - 1
      OBVIOUS
    <3>1. CASE i \in 1 .. Len(rows)
      BY <2>1, <2>3, <3>1
    <3>2. CASE i = last
      <4>1. queue[1].seq = Offered - Len(queue) + 1 - 1
        BY <1>2, <1>4 DEF Numbers
      <4>2. discarded = 0
        BY <1>2, <1>9 DEF Stages
      <4>3. Offered = Len(queue) + pending + written
        BY <1>3, <1>4, <2>6, <4>2 DEF Offered
      <4> QED BY <1>3, <1>4, <2>1, <2>3, <3>2, <4>1, <4>3
    <3> QED BY <2>1, <2>3, <3>1, <3>2
  <2>11. Rows'
    <3>1. Len(more) = pending' + written'
      BY <1>3, <1>9, <2>1, <2>3
    <3>2. files'[path'] = more /\ recordingId' = recordingId /\ dropped' = dropped
      BY <1>1 DEF more, manager
    <3> QED BY <1>5, <2>3, <2>9, <2>10, <3>1, <3>2 DEF Rows
  <2>12. RowsInOrder'
    <3> SUFFICES ASSUME NEW p \in Path, files'[p] # Absent,
                        NEW i \in DOMAIN files'[p], NEW j \in DOMAIN files'[p], i < j
                 PROVE  files'[p][i].id = files'[p][j].id /\ files'[p][i].seq < files'[p][j].seq
      BY DEF RowsInOrder
    <3>1. CASE p = path
      <4>1. files'[p] = more
        BY <3>1 DEF more
      <4>2. DOMAIN more = 1 .. last
        BY <2>3
      <4>3. i \in 1 .. last /\ j \in 1 .. last /\ i \in 1 .. j - 1
        BY <4>1, <4>2
      <4> QED BY <2>9, <4>1, <4>3
    <3>2. CASE p # path
      <4>1. files'[p] = files[p]
        BY <2>2, <3>2
      <4> QED BY <4>1 DEF FInv, RowsInOrder
    <3> QED BY <3>1, <3>2
  <2> QED BY <1>6, <1>7, <2>4, <2>5, <2>7, <2>11, <2>12 DEF FInv
<1>10. ok' = FALSE \/ ok
  BY <1>1, <1>2 DEF Types
<1>11. ok => error = "none"
  BY <1>2 DEF Stages
<1> QED BY <1>1, <1>2, <1>8, <1>9, <1>11 DEF Types

(* Every step keeps what is known of the recorded frames.                    *)
LEMMA StepRecorded == IInv /\ FInv /\ [Next]_vars => FInv'
<1> SUFFICES ASSUME IInv, FInv, [Next]_vars PROVE FInv'
  OBVIOUS
<1>1. CASE UNCHANGED vars
  <2>1. /\ UNCHANGED <<ring, writer, manager, producer>>
    BY <1>1 DEF vars
  <2>2. Types /\ Reports
    BY DEF FInv
  <2>3. Reports' /\ failed' \in BOOLEAN /\ down' \in BOOLEAN /\ startError' \in BOOLEAN
    BY <2>1, <2>2 DEF Reports, Bad, Types, ring, writer, manager
  <2> QED BY <2>1, <2>3, NumbersStay DEF writer, manager, counters, producer
<1>2. CASE WriterThread
  BY <1>2, OpenRecorded, TurnRecorded, BatchRecorded, RowRecorded DEF WriterThread, Writer!Run
<1> QED
  BY <1>1, <1>2, RealTimeRecorded, ManagerRecorded DEF Next, Terminated

(* The invariant of the recorded frames always holds.                        *)
LEMMA RecordedAlways == Spec => []FInv
BY InitInvariant, StepInvariant, InitRecorded, StepRecorded, PTL DEF Spec

(* Each frame of the current recording is in exactly one place, whatever     *)
(* failed: none is lost without being counted.                               *)
THEOREM AccountingCorrect == Spec => []FramesAccounted
<1>1. FInv => FramesAccounted
  BY DEF FInv
<1> QED BY <1>1, RecordedAlways, PTL

(* No file mixes recordings or repeats a frame.                              *)
THEOREM OrderCorrect == Spec => []RowsInOrder
<1>1. FInv => RowsInOrder
  BY DEF FInv
<1> QED BY <1>1, RecordedAlways, PTL

(* A recording reported complete has every frame in its file, in order.      *)
THEOREM CompleteCorrect == Spec => []CompleteIsExact
<1>1. ASSUME IInv, FInv, hasWriter, Writer!Complete
      PROVE  /\ files[path] = [i \in 1 .. seq |-> [id |-> recordingId, seq |-> i - 1]]
             /\ written = seq
  <2>1. /\ finished /\ ok /\ dropped = 0 /\ wpc = "done" /\ discarded = 0 /\ pending = 0
        /\ written \in Nat /\ seq \in Nat
    BY <1>1 DEF Writer!Complete, FInv, Stages, Types
  <2>2. queue = <<>> /\ rpc # "push"
    BY <1>1, <2>1 DEF IInv, Draining
  <2>3. written = seq
    <3>1. Len(queue) = 0
      BY <2>2
    <3> QED BY <1>1, <2>1, <2>2, <3>1 DEF FInv, FramesAccounted
  <2>4. /\ files[path] \in Seq(Frame) /\ Len(files[path]) = seq
        /\ \A i \in 1 .. seq : files[path][i].id = recordingId /\ files[path][i].seq = i - 1
    BY <1>1, <2>1, <2>3 DEF FInv, Rows
  <2>5. \A i \in 1 .. seq : files[path][i] = [id |-> recordingId, seq |-> i - 1]
    <3> SUFFICES ASSUME NEW i \in 1 .. seq
                 PROVE  files[path][i] = [id |-> recordingId, seq |-> i - 1]
      OBVIOUS
    <3>1. files[path][i] \in Frame
      BY <2>4, FrameFields
    <3> QED BY <2>4, <3>1 DEF Frame
  <2>6. files[path] = [i \in 1 .. seq |-> files[path][i]]
    <3> DEFINE rows == files[path]
    <3>1. rows \in Seq(Frame) /\ Len(rows) = seq
      BY <2>4
    <3>2. rows = [i \in 1 .. Len(rows) |-> rows[i]]
      BY <3>1
    <3> QED BY <3>1, <3>2
  <2>7. [i \in 1 .. seq |-> files[path][i]]
          = [i \in 1 .. seq |-> [id |-> recordingId, seq |-> i - 1]]
    BY <2>5
  <2> QED BY <2>3, <2>6, <2>7
<1>2. IInv /\ FInv => CompleteIsExact
  BY <1>1 DEF CompleteIsExact
<1> QED BY <1>2, InvariantHolds, RecordedAlways, PTL

(* What a step can do to the files and to what is known of failures.         *)
LEMMA FilesStep ==
  ASSUME IInv, FInv, [Next]_vars
  PROVE  \/ files' = files
         \/ files[path] = Absent /\ files' = [files EXCEPT ![path] = <<>>]
         \/ /\ hasWriter /\ ok /\ queue # <<>>
            /\ files' = [files EXCEPT ![path] = Append(@, Head(queue))]
<1>1. CASE WriterThread
  <2>1. CASE Writer!OpenFails \/ Writer!LoopTop \/ Writer!LastTop \/ Writer!CloseFile \/ Writer!Finish
             \/ Writer!EndBatch
    BY <2>1 DEF Writer!OpenFails, Writer!LoopTop, Writer!LastTop, Writer!CloseFile, Writer!Finish,
       Writer!EndBatch
  <2>2. CASE Writer!OpenSucceeds \/ Writer!HeaderFails
    BY <2>2 DEF Writer!OpenSucceeds, Writer!HeaderFails, Writer!Opens
  <2>3. CASE Writer!DrainOne
    <3>1. hasWriter
      BY <2>3, WriterIsAtWork DEF Writer!DrainOne
    <3> QED BY <2>3, <3>1 DEF Writer!DrainOne, Writer!Ring!Take, Writer!RowDiscarded,
            Writer!RowWritten, Writer!RowFails
  <2> QED BY <1>1, <2>1, <2>2, <2>3 DEF WriterThread, Writer!Run
<1>2. CASE RealTime \/ RtEnds \/ UNCHANGED vars
  BY <1>2 DEF RealTime, RtEnds, Enter, CheckEnabled, Push, Leave, vars, writer
<1>3. CASE Request \/ Quiet \/ Manager
  BY <1>3 DEF Request, Quiet, Manager, Start, StartThrows, Stop, Shutdown, StopBegin, StartSucceeds,
     StartFails, StartFailed, Joined, writer
<1> QED BY <1>1, <1>2, <1>3 DEF Next, Terminated

(* Once the writer has found a recording complete, nothing touches its file. *)
LEMMA CompleteStays ==
  ASSUME IInv, FInv, [Next]_vars, hasWriter, Writer!Complete, recordingId' = recordingId
  PROVE  Writer!Complete' /\ files' = files
<1>1. /\ finished /\ ok /\ dropped = 0 /\ wpc = "done"
      /\ recordingId \in Id /\ recordingId \in usedIds
  BY NoneAssumption DEF Writer!Complete, FInv, Stages, Types
<1>2. rpc # "push"
  BY <1>1 DEF IInv, Draining
<1>3. UNCHANGED <<finished, ok, dropped, files>>
  <2>1. CASE WriterThread
    BY <1>1, <2>1 DEF WriterThread, Writer!Run, Writer!OpenFails, Writer!OpenSucceeds,
       Writer!HeaderFails, Writer!Opens, Writer!LoopTop, Writer!DrainOne, Writer!EndBatch,
       Writer!LastTop, Writer!CloseFile, Writer!Finish
  <2>2. CASE RealTime \/ RtEnds \/ UNCHANGED vars
    BY <1>2, <2>2 DEF RealTime, RtEnds, Enter, CheckEnabled, Push, Leave, vars, ring, writer
  <2>3. CASE Request \/ Quiet \/ Manager
    <3>1. ASSUME NEW id \in Id, NEW p \in Path, MayStart(id, p), BeginSession(id) PROVE FALSE
      BY <1>1, <3>1 DEF MayStart, BeginSession
    <3>2. ASSUME NEW id \in Id, NEW p \in Path, Start(id, p) \/ StartThrows(id, p) PROVE FALSE
      BY <3>1, <3>2 DEF Start, StartThrows
    <3> QED
      BY <2>3, <3>2 DEF Request, Quiet, Manager, Stop, Shutdown, StopBegin, StartSucceeds,
         StartFails, StartFailed, Joined, ring, writer
  <2> QED BY <2>1, <2>2, <2>3 DEF Next, Terminated
<1> QED BY <1>1, <1>3 DEF Writer!Complete

(* No file is ever truncated or rewritten, and complete is final.            *)
THEOREM FilesCorrect == Spec => FilesOnlyGrow
<1>1. ASSUME IInv, FInv, [Next]_vars
      PROVE  /\ \A p \in Path : files[p] # Absent =>
                  /\ Len(files'[p]) >= Len(files[p])
                  /\ SubSeq(files'[p], 1, Len(files[p])) = files[p]
             /\ hasWriter /\ Writer!Complete /\ recordingId' = recordingId =>
                  Writer!Complete' /\ files'[path] = files[path]
  <2>1. ASSUME NEW p \in Path, files[p] # Absent
        PROVE  /\ Len(files'[p]) >= Len(files[p])
               /\ SubSeq(files'[p], 1, Len(files[p])) = files[p]
    <3>1. files[p] \in Seq(Frame) /\ Len(files[p]) \in Nat /\ files \in [Path -> Seq(Frame) \cup {Absent}]
      BY <1>1, <2>1 DEF FInv, Types
    <3>2. CASE files'[p] = files[p]
      BY <3>1, <3>2
    <3>3. CASE queue # <<>> /\ files'[p] = Append(files[p], Head(queue))
      <4>1. Head(queue) \in Frame
        BY <1>1, <3>3 DEF FInv, Types
      <4> QED BY <3>1, <3>3, <4>1
    <3>4. files'[p] = files[p] \/ (queue # <<>> /\ files'[p] = Append(files[p], Head(queue)))
      BY <1>1, <2>1, <3>1, FilesStep
    <3> QED BY <3>2, <3>3, <3>4
  <2> QED BY <1>1, <2>1, CompleteStays
<1> QED BY <1>1, InvariantHolds, RecordedAlways, PTL DEF Spec, FilesOnlyGrow

(* A failure is in the exit status, whatever recordings follow: it is in     *)
(* failed_ before the next one can begin.                                    *)
LEMMA FailureStays == IInv /\ FInv /\ [Next]_vars /\ (failed \/ Bad) => (failed \/ Bad)'
<1> SUFFICES ASSUME IInv, FInv, [Next]_vars, failed \/ Bad PROVE (failed \/ Bad)'
  OBVIOUS
<1>1. dropped \in Nat /\ failed \in BOOLEAN /\ (Bad /\ mpc = "idle" /\ ~enabled => failed)
  BY DEF FInv, Types, Reports
<1>2. CASE WriterThread
  <2>1. dropped' = dropped /\ (error # "none" => error' = error)
    BY <1>2 DEF WriterThread, Writer!Run, Writer!OpenFails, Writer!OpenSucceeds, Writer!HeaderFails,
       Writer!Opens, Writer!LoopTop, Writer!DrainOne, Writer!Ring!Take, Writer!RowDiscarded,
       Writer!RowWritten, Writer!RowFails, Writer!EndBatch, Writer!FlushSucceeds,
       Writer!FlushFails, Writer!LastTop, Writer!CloseFile, Writer!Finish, Writer!Fail
  <2> QED BY <1>2, <2>1 DEF WriterThread, manager, Bad
<1>3. CASE RealTime \/ RtEnds \/ UNCHANGED vars
  <2>1. UNCHANGED <<writer, manager>> /\ (dropped > 0 => dropped' > 0)
    BY <1>1, <1>3 DEF RealTime, RtEnds, Enter, CheckEnabled, Push, Leave, Ring!Accept, Ring!Refuse,
       vars, ring
  <2> QED BY <2>1 DEF writer, manager, Bad
<1>4. CASE Request \/ Quiet \/ Manager
  <2>1. ASSUME NEW id \in Id, NEW p \in Path, MayStart(id, p) PROVE failed
    BY <1>1, <2>1 DEF MayStart
  <2>2. ASSUME NEW id \in Id, NEW p \in Path, Start(id, p) PROVE failed'
    BY <2>1, <2>2 DEF Start
  <2>3. ASSUME NEW id \in Id, NEW p \in Path, StartThrows(id, p) PROVE failed'
    BY <2>3 DEF StartThrows
  <2>4. CASE (\E id \in Id : Stop(id)) \/ Shutdown \/ Quiet \/ StartSucceeds \/ StartFails
    BY <2>4 DEF Stop, Shutdown, StopBegin, Quiet, StartSucceeds, StartFails, ring, writer, Bad
  <2>5. CASE StartFailed \/ Joined
    BY <2>5 DEF StartFailed, Joined, ring, writer, Bad
  <2> QED BY <1>4, <2>2, <2>3, <2>4, <2>5 DEF Request, Manager
<1> QED BY <1>2, <1>3, <1>4 DEF Next, Terminated

THEOREM FailuresCorrect == Spec => FailureReported
<1>1. FInv /\ SessionFailed => failed \/ Bad
  BY DEF FInv, Reports, SessionFailed, Bad
<1>2. FInv /\ (failed \/ Bad) => (Ended => failed)
  BY DEF FInv, Reports, Ended
<1> QED BY <1>1, <1>2, FailureStays, InvariantHolds, RecordedAlways, PTL DEF Spec, FailureReported

(* The manager implements RecordingSession: one recording at a time, each    *)
(* under an ID of its own.                                                   *)
LEMMA PhaseIs ==
  /\ mpc \in {"awaitReady", "joinFailed"} => Phase = "starting"
  /\ mpc \in {"awaitQuiet", "join"} => Phase = "stopping"
  /\ mpc = "idle" /\ enabled => Phase = "active"
  /\ mpc = "idle" /\ ~enabled => Phase = "idle"
BY DEF Phase

(* The manager starts as a session does.                                     *)
LEMMA SessionInit == Init => Session!Init
BY PhaseIs DEF Init, Session!Init

(* Each step of the manager is a step of the session or invisible in it.     *)
LEMMA SessionStep == IInv /\ FInv /\ [Next]_vars => [Session!Next]_Session!svars
<1> SUFFICES ASSUME IInv, FInv, [Next]_vars PROVE [Session!Next]_Session!svars
  OBVIOUS
<1> USE PhaseIs
<1>1. ASSUME UNCHANGED <<mpc, enabled, recordingId, usedIds, failed>>
      PROVE  [Session!Next]_Session!svars
  BY <1>1 DEF Session!svars, Phase
<1>2. CASE WriterThread \/ RealTime \/ RtEnds \/ UNCHANGED vars
  <2>1. UNCHANGED manager
    BY <1>2 DEF WriterThread, RealTime, RtEnds, Enter, CheckEnabled, Push, Leave, vars
  <2> QED BY <1>1, <2>1 DEF manager
<1>3. /\ mpc \in {"idle", "awaitReady", "joinFailed", "awaitQuiet", "join"}
      /\ enabled => mpc = "idle"
      /\ mpc' \in {"idle", "awaitReady", "joinFailed", "awaitQuiet", "join"}
  BY StepInvariant DEF IInv
<1>4. ASSUME NEW id \in Id, NEW p \in Path, Start(id, p) PROVE Session!Starting(id)
  <2>1. /\ mpc = "idle" /\ ~enabled /\ id \notin usedIds
        /\ usedIds' = usedIds \cup {id} /\ recordingId' = id
        /\ mpc' = "awaitReady" /\ failed' = failed
    BY <1>4 DEF Start, MayStart, BeginSession
  <2>2. Phase = "idle" /\ Phase' = "starting"
    BY <2>1 DEF Phase
  <2> QED BY <2>1, <2>2 DEF Session!Starting, Session!Begin
<1>5. ASSUME NEW id \in Id, NEW p \in Path, StartThrows(id, p) PROVE Session!Unstartable(id)
  <2>1. /\ mpc = "idle" /\ ~enabled /\ id \notin usedIds
        /\ usedIds' = usedIds \cup {id} /\ recordingId' = id
        /\ mpc' = mpc /\ enabled' = enabled /\ failed' = TRUE
    BY <1>5 DEF StartThrows, MayStart, BeginSession
  <2>2. Phase = "idle" /\ Phase' = Phase
    BY <2>1 DEF Phase
  <2> QED BY <2>1, <2>2 DEF Session!Unstartable, Session!Begin
<1>6. ASSUME StartSucceeds PROVE Session!Started
  <2>1. /\ mpc = "awaitReady" /\ mpc' = "idle" /\ enabled'
        /\ UNCHANGED <<recordingId, usedIds, failed>>
    BY <1>6 DEF StartSucceeds
  <2>2. Phase = "starting" /\ Phase' = "active"
    BY <2>1 DEF Phase
  <2> QED BY <2>1, <2>2 DEF Session!Started
<1>7. ASSUME StartFails PROVE UNCHANGED Session!svars
  <2>1. /\ mpc = "awaitReady" /\ mpc' = "joinFailed"
        /\ UNCHANGED <<recordingId, usedIds, failed>>
    BY <1>7 DEF StartFails
  <2>2. Phase = "starting" /\ Phase' = "starting"
    BY <2>1 DEF Phase
  <2> QED BY <2>1, <2>2 DEF Session!svars
<1>8. ASSUME StartFailed PROVE Session!NotStarted
  <2>1. /\ mpc = "joinFailed" /\ mpc' = "idle" /\ ~enabled' /\ failed' = TRUE
        /\ UNCHANGED <<recordingId, usedIds>>
    BY <1>3, <1>8 DEF StartFailed
  <2>2. Phase = "starting" /\ Phase' = "idle"
    BY <2>1 DEF Phase
  <2> QED BY <2>1, <2>2 DEF Session!NotStarted
<1>9. ASSUME StopBegin PROVE Session!Stopping
  <2>1. /\ mpc = "idle" /\ mpc' = "awaitQuiet"
        /\ UNCHANGED <<recordingId, usedIds, failed>>
    BY <1>9 DEF StopBegin
  <2>2. Phase \in {"idle", "active"} /\ Phase' = "stopping"
    BY <2>1 DEF Phase
  <2> QED BY <2>1, <2>2 DEF Session!Stopping
<1>10. ASSUME Quiet PROVE [Session!Next]_Session!svars
  <2>1. /\ mpc = "awaitQuiet" /\ mpc' \in {"idle", "join"} /\ ~enabled /\ enabled' = enabled
        /\ UNCHANGED <<recordingId, usedIds, failed>>
    BY <1>3, <1>10 DEF Quiet
  <2>2. CASE mpc' = "idle"
    <3>1. Phase = "stopping" /\ Phase' = "idle"
      BY <2>1, <2>2 DEF Phase
    <3> QED BY <2>1, <3>1 DEF Session!Stopped, Session!Next
  <2>3. CASE mpc' = "join"
    <3>1. Phase = "stopping" /\ Phase' = "stopping"
      BY <2>1, <2>3 DEF Phase
    <3> QED BY <2>1, <3>1 DEF Session!svars
  <2> QED BY <2>1, <2>2, <2>3
<1>11. ASSUME Joined PROVE Session!Stopped
  <2>1. /\ mpc = "join" /\ mpc' = "idle" /\ ~enabled'
        /\ UNCHANGED <<recordingId, usedIds>>
        /\ failed' = (failed \/ ~Writer!Complete)
    BY <1>3, <1>11 DEF Joined
  <2>2. failed' \in {failed, TRUE}
    <3>1. failed \in BOOLEAN
      BY DEF FInv, Types
    <3> QED BY <2>1, <3>1
  <2>3. Phase = "stopping" /\ Phase' = "idle"
    BY <2>1 DEF Phase
  <2> QED BY <2>1, <2>2, <2>3 DEF Session!Stopped
<1>12. ASSUME Request \/ Quiet \/ Manager PROVE [Session!Next]_Session!svars
  <2>1. CASE \E id \in Id : Stop(id)
    BY <1>9, <2>1 DEF Stop, Session!Next
  <2>2. CASE Shutdown
    BY <1>9, <2>2 DEF Shutdown, Session!Next
  <2> QED
    BY <1>4, <1>5, <1>6, <1>7, <1>8, <1>10, <1>11, <1>12, <2>1, <2>2
       DEF Request, Manager, Session!Next
<1> QED BY <1>2, <1>12 DEF Next, Terminated

THEOREM SessionImplemented == Spec => ImplementsSession
BY SessionInit, SessionStep, InvariantHolds, RecordedAlways, PTL
   DEF Spec, ImplementsSession, Session!Spec

------------------------------------------------------------------------------
(* The types: what the two invariants leave open.                            *)
Room == Len(queue) <= Capacity - 1

Bounds ==
  /\ taken = NoFrame \/ taken \in Frame
  /\ frame = NoFrame \/ frame \in Frame
  /\ path \in Path \cup {NoPath}
  /\ wpc \in {"prepare", "loop", "drain", "last", "lastDrain", "close", "finish", "done"}
  /\ error \in {"none", "open", "header", "row", "flush", "close"}
  /\ batch \in 0 .. MaxBatch

Flags == isOpen \in BOOLEAN /\ rtDone \in BOOLEAN

LEMMA InitBounds == Init => Room /\ Bounds /\ Flags
<1> SUFFICES ASSUME Init PROVE Room /\ Bounds /\ Flags
  OBVIOUS
<1>1. Room
  <2>1. queue = <<>> /\ Len(<<>>) = 0
    BY DEF Init, Ring!Init
  <2> QED BY <2>1, CapacityAssumption DEF Room
<1>2. Bounds
  <2>1. taken = NoFrame /\ frame = NoFrame /\ path = NoPath /\ wpc = "done" /\ error = "none" /\ batch = 0
    BY DEF Init, Ring!Init
  <2> QED BY <2>1, BatchAssumption DEF Bounds
<1>3. Flags
  BY DEF Init, Flags
<1> QED BY <1>1, <1>2, <1>3

(* The ring never holds more than it has room for: a push that finds it full *)
(* drops its frame.                                                          *)
LEMMA NextRoom == FInv /\ Room /\ [Next]_vars => Room'
<1> SUFFICES ASSUME FInv, Room, [Next]_vars PROVE Room'
  OBVIOUS
<1>1. queue \in Seq(Frame) /\ Len(queue) \in Nat /\ Len(queue) <= Capacity - 1
  BY DEF FInv, Types, Room
<1>2. ASSUME UNCHANGED queue PROVE Room'
  BY <1>2 DEF Room
<1>3. ASSUME Push PROVE Room'
  <2>1. CASE Ring!Accept(frame)
    <3>1. queue' = Append(queue, frame) /\ Len(queue) # Capacity - 1
      BY <2>1 DEF Ring!Accept, Ring!Full
    <3>2. Len(queue') = Len(queue) + 1
      BY <1>1, <3>1
    <3> QED BY <1>1, <3>1, <3>2, CapacityAssumption DEF Room
  <2>2. CASE Ring!Refuse
    BY <1>2, <2>2 DEF Ring!Refuse
  <2> QED BY <1>3, <2>1, <2>2 DEF Push
<1>4. ASSUME NEW id, BeginSession(id) PROVE Room'
  <2>1. queue' = <<>> /\ Len(<<>>) = 0
    BY <1>4 DEF BeginSession, Ring!Clear
  <2> QED BY <2>1, CapacityAssumption DEF Room
<1>5. ASSUME Writer!DrainOne PROVE Room'
  <2>1. queue' = Tail(queue) /\ queue # <<>>
    BY <1>5 DEF Writer!DrainOne, Writer!Ring!Take
  <2>2. Len(queue') = Len(queue) - 1
    BY <1>1, <2>1
  <2> QED BY <1>1, <2>2, CapacityAssumption DEF Room
<1>6. ASSUME Writer!Run, ~Writer!DrainOne PROVE UNCHANGED queue
  BY <1>6 DEF Writer!Run, Writer!OpenFails, Writer!OpenSucceeds, Writer!HeaderFails, Writer!Opens, Writer!LoopTop,
     Writer!EndBatch, Writer!LastTop, Writer!CloseFile, Writer!Finish
<1>7. ASSUME Enter \/ CheckEnabled \/ Leave \/ RtEnds \/ StopBegin \/ Quiet \/ Manager \/ UNCHANGED vars
      PROVE  UNCHANGED queue
  BY <1>7 DEF Enter, CheckEnabled, Leave, RtEnds, StopBegin, Quiet, Manager, StartSucceeds, StartFails, StartFailed,
     Joined, vars, ring
<1> QED BY <1>2, <1>3, <1>4, <1>5, <1>6, <1>7
       DEF Next, RealTime, Request, Start, StartThrows, Stop, Shutdown, WriterThread, Terminated

(* What goes through the ring are frames, and the writer's variables keep to *)
(* their values.                                                             *)
Error == {"none", "open", "header", "row", "flush", "close"}

LEMMA NextBounds == IInv /\ FInv /\ Bounds /\ [Next]_vars => Bounds'
<1> SUFFICES ASSUME IInv, FInv, Bounds, [Next]_vars PROVE Bounds'
  OBVIOUS
<1>1. /\ enabled => recordingId \in Id
      /\ rpc = "push" => frame \in Frame
      /\ seq \in Nat
  <2>1. (hasWriter => recordingId \in Id) /\ seq \in Nat
    BY DEF FInv, Types
  <2>2. /\ enabled => hasWriter
        /\ rpc = "push" => seq >= 1 /\ frame = [id |-> recordingId, seq |-> seq - 1] /\ hasWriter
    BY DEF IInv, FInv, Numbers, Draining
  <2> QED BY <2>1, <2>2 DEF Frame
<1>2. ASSUME Writer!DrainOne PROVE taken' \in Frame
  <2>1. queue # <<>> /\ taken' = Head(queue) /\ queue \in Seq(Frame)
    BY <1>2 DEF Writer!DrainOne, Writer!Ring!Take, FInv, Types
  <2> QED BY <2>1
<1>3. ASSUME NEW e \in Error, Writer!Fail(e) PROVE error' \in Error
  BY <1>3 DEF Writer!Fail, Bounds, Error
<1> USE BatchAssumption
<1> USE DEF Bounds, Error, ring, writer, manager, counters, producer
<1>4. ASSUME Enter \/ Leave \/ RtEnds PROVE Bounds'
  BY <1>4 DEF Enter, Leave, RtEnds
<1>5. ASSUME CheckEnabled PROVE Bounds'
  <2>1. frame' = frame \/ frame' \in Frame
    BY <1>1, <1>5 DEF CheckEnabled, Frame
  <2> QED BY <1>5, <2>1 DEF CheckEnabled
<1>6. ASSUME Push PROVE Bounds'
  BY <1>6 DEF Push, Ring!Accept, Ring!Refuse
<1>7. ASSUME NEW id \in Id, NEW p \in Path, Start(id, p) PROVE Bounds'
  BY <1>7 DEF Start, BeginSession, Ring!Clear, Writer!Construct
<1>8. ASSUME NEW id \in Id, NEW p \in Path, StartThrows(id, p) PROVE Bounds'
  BY <1>8 DEF StartThrows, BeginSession, Ring!Clear
<1>9. ASSUME StopBegin PROVE Bounds'
  BY <1>9 DEF StopBegin
<1>10. ASSUME Quiet \/ Manager PROVE Bounds'
  BY <1>10 DEF Quiet, Manager, StartSucceeds, StartFails, StartFailed, Joined
<1>11. ASSUME WriterThread PROVE Bounds'
  <2> USE <1>11 DEF WriterThread
  <2>0. ASSUME wpc' \in {"loop", "finish", "done"}, UNCHANGED <<taken, path, batch>>, error' \in Error
        PROVE  Bounds'
    BY <2>0
  <2>1. CASE Writer!OpenFails
    <3>1. wpc' = "loop" /\ UNCHANGED <<taken, path, batch>>
      BY <2>1, Zenon DEF Writer!OpenFails, Writer!counters
    <3>2. error' \in Error
      BY <1>3, <2>1, Zenon DEF Writer!OpenFails
    <3> QED BY <2>0, <3>1, <3>2
  <2>2. CASE Writer!OpenSucceeds
    <3>1. wpc' = "loop" /\ UNCHANGED <<taken, path, batch, error>>
      BY <2>2, Zenon DEF Writer!OpenSucceeds, Writer!Opens, Writer!counters
    <3> QED BY <2>0, <3>1
  <2>3. CASE Writer!HeaderFails
    <3>1. wpc' = "loop" /\ UNCHANGED <<taken, path, batch>>
      BY <2>3, Zenon DEF Writer!HeaderFails, Writer!Opens, Writer!counters
    <3>2. error' \in Error
      BY <1>3, <2>3 DEF Writer!HeaderFails
    <3> QED BY <2>0, <3>1, <3>2
  <2>4. CASE Writer!LoopTop \/ Writer!LastTop
    BY <2>4 DEF Writer!LoopTop, Writer!LastTop
  <2>5. CASE Writer!DrainOne
    <3>1. error' \in Error
      BY <1>3, <2>5 DEF Writer!DrainOne, Writer!RowDiscarded, Writer!RowWritten, Writer!RowFails
    <3>2. batch' \in 0 .. MaxBatch
      BY <2>5 DEF Writer!DrainOne
    <3> QED BY <1>2, <2>5, <3>1, <3>2 DEF Writer!DrainOne
  <2>6. CASE Writer!EndBatch
    <3>1. error' \in Error
      BY <1>3, <2>6 DEF Writer!EndBatch, Writer!FlushSucceeds, Writer!FlushFails
    <3> QED BY <2>6, <3>1 DEF Writer!EndBatch
  <2>7. CASE Writer!CloseFile
    <3>1. wpc' = "finish" /\ UNCHANGED <<taken, path, batch>>
      BY <2>7, Zenon DEF Writer!CloseFile, Writer!counters
    <3>2. error' \in Error
      BY <1>3, <2>7 DEF Writer!CloseFile
    <3> QED BY <2>0, <3>1, <3>2
  <2>8. CASE Writer!Finish
    <3>1. wpc' = "done" /\ UNCHANGED <<taken, path, batch, error>>
      BY <2>8, Zenon DEF Writer!Finish, Writer!counters
    <3> QED BY <2>0, <3>1
  <2> QED BY <2>1, <2>2, <2>3, <2>4, <2>5, <2>6, <2>7, <2>8 DEF Writer!Run
<1>12. CASE UNCHANGED vars
  BY <1>12 DEF vars
<1> QED BY <1>4, <1>5, <1>6, <1>7, <1>8, <1>9, <1>10, <1>11, <1>12
       DEF Next, RealTime, Request, Stop, Shutdown, Terminated

LEMMA NextFlags == Flags /\ [Next]_vars => Flags'
<1> SUFFICES ASSUME Flags, [Next]_vars PROVE Flags'
  OBVIOUS
<1>1. ASSUME UNCHANGED isOpen \/ isOpen' \in BOOLEAN, UNCHANGED rtDone \/ rtDone' \in BOOLEAN PROVE Flags'
  BY <1>1 DEF Flags
<1> USE DEF ring, writer, manager, counters, producer
<1>2. CASE RealTime \/ RtEnds
  BY <1>1, <1>2, Zenon DEF RealTime, RtEnds, Enter, CheckEnabled, Push, Leave
<1>3. CASE Request
  BY <1>1, <1>3, Zenon DEF Request, Start, StartThrows, Stop, Shutdown, StopBegin, Writer!Construct
<1>4. CASE Quiet \/ Manager
  BY <1>1, <1>4, Zenon DEF Quiet, Manager, StartSucceeds, StartFails, StartFailed, Joined
<1>5. CASE WriterThread
  BY <1>1, <1>5, Zenon DEF WriterThread, Writer!Run, Writer!OpenFails, Writer!OpenSucceeds, Writer!HeaderFails,
     Writer!Opens, Writer!LoopTop, Writer!DrainOne, Writer!EndBatch, Writer!LastTop, Writer!CloseFile, Writer!Finish
<1>6. CASE UNCHANGED vars
  BY <1>1, <1>6 DEF vars
<1> QED BY <1>2, <1>3, <1>4, <1>5, <1>6, Zenon DEF Next, Terminated

(* Every state has the declared form: in particular the ring holds frames,   *)
(* at most one fewer than it has slots, and a batch is no longer than its    *)
(* bound.                                                                    *)
THEOREM TypeCorrect == Spec => []TypeOK
<1>1. IInv /\ FInv /\ Room /\ Bounds /\ Flags => TypeOK
  <2> SUFFICES ASSUME IInv, FInv, Room, Bounds, Flags PROVE TypeOK
    OBVIOUS
  <2>1. (\A i \in DOMAIN queue : queue[i] \in Frame) /\ Len(queue) \in 0 .. Capacity - 1
    <3>1. queue \in Seq(Frame) /\ Len(queue) \in Nat /\ Len(queue) <= Capacity - 1
      BY DEF FInv, Types, Room
    <3> QED BY <3>1, CapacityAssumption
  <2>2. {ok, stop, finished, hasWriter, startError, failed, enabled, down, busy} \subseteq BOOLEAN
    BY DEF IInv, FInv, Types
  <2>3. DOMAIN files = Path /\ recordingId \in Id \cup {NoId} /\ usedIds \in SUBSET Id
    BY DEF FInv, Types
  <2>4. dropped \in Nat /\ written \in Nat /\ discarded \in Nat /\ pending \in Nat /\ seq \in Nat
    BY DEF FInv, Types
  <2>5. mpc \in {"idle", "awaitReady", "joinFailed", "awaitQuiet", "join"} /\ rpc \in {"out", "check", "push", "leave"}
    BY DEF IInv
  <2> QED BY <2>1, <2>2, <2>3, <2>4, <2>5 DEF TypeOK, Bounds, Flags
<1> QED BY <1>1, InitInvariant, StepInvariant, InitRecorded, StepRecorded, InitBounds, NextBounds, NextRoom, NextFlags,
       PTL DEF Spec

------------------------------------------------------------------------------
(* The threads of the daemon: the RecordingManager is shut down only when no *)
(* other thread can enter it.  The argument is the order in which main()     *)
(* joins: past each join stands a thread that has ended, and no thread that  *)
(* has ended runs again.                                                     *)

(* What main() knows from the joins it has behind it.                        *)
EndedInOrder ==
  /\ main \in {"joinRec", "joinRest", "exited"} => rt = "gone"
  /\ main \in {"joinRest", "exited"} => rec = "done"
  /\ recDown => main \in {"joinRest", "exited"}

LEMMA InitEndedInOrder == DaemonInit => EndedInOrder
BY DEF DaemonInit, EndedInOrder

(* The real-time thread and the service only run while they have not ended,  *)
(* the two other threads and the signal touch nothing that main() relies on. *)
LEMMA NextEndedInOrder == EndedInOrder /\ [DaemonNext]_daemonVars => EndedInOrder'
<1> SUFFICES ASSUME EndedInOrder, [DaemonNext]_daemonVars PROVE EndedInOrder'
  OBVIOUS
<1> USE DEF EndedInOrder, flags, rtVars, mainVars
<1>1. ASSUME RtThread \/ Abort PROVE EndedInOrder'
  BY <1>1 DEF RtThread, Tick, EndTick, LoopEnds, Abort
<1>2. ASSUME CmdThread \/ CmdReceive \/ PubThread \/ Signal PROVE EndedInOrder'
  <2>1. UNCHANGED <<rt, rec, main, recDown>>
    <3>1. CASE CmdThread
      BY <3>1, Zenon DEF CmdThread, CmdHead, CmdTimeout, CmdParse
    <3>2. CASE CmdReceive
      BY <3>2 DEF CmdReceive
    <3>3. CASE PubThread
      BY <3>3 DEF PubThread, PubHead, PubSend
    <3>4. CASE Signal
      BY <3>4 DEF Signal
    <3> QED BY <1>2, <3>1, <3>2, <3>3, <3>4
  <2> QED BY <2>1
<1>3. ASSUME RecService \/ RecReceive \/ RecReply \/ RecFails PROVE EndedInOrder'
  BY <1>3 DEF RecService, RecHead, RecTimeout, RecManage, RecGivesUp, RecReceive, RecReply, RecFails
<1>4. ASSUME Main PROVE EndedInOrder'
  <2>1. CASE MainWakes
    BY <2>1 DEF MainWakes
  <2>2. CASE AsksToStop
    BY <2>2 DEF AsksToStop
  <2>3. CASE JoinsRt
    BY <2>3 DEF JoinsRt
  <2>4. CASE JoinsRec \/ Exits
    BY <2>4 DEF JoinsRec, Exits
  <2> QED BY <1>4, <2>1, <2>2, <2>3, <2>4 DEF Main
<1>5. CASE UNCHANGED daemonVars
  BY <1>5 DEF daemonVars
<1> QED BY <1>1, <1>2, <1>3, <1>4, <1>5 DEF DaemonNext, Exited

(* The types of the daemon: its flags, and where its threads are.            *)
DaemonFlags ==
  /\ gStop \in BOOLEAN /\ stopReq \in BOOLEAN /\ running \in BOOLEAN
  /\ aborted \in BOOLEAN /\ recDown \in BOOLEAN

Places ==
  /\ rt \in {"tick", "end", "leave", "gone"}
  /\ cmd \in {"head", "recv", "parse", "done"}
  /\ pub \in {"head", "send", "done"}
  /\ rec \in {"head", "recv", "manage", "reply", "done"}
  /\ main \in {"wait", "ask", "joinRt", "joinRec", "joinRest", "exited"}

LEMMA InitDaemonTypes == DaemonInit => DaemonFlags /\ Places
<1> SUFFICES ASSUME DaemonInit PROVE DaemonFlags /\ Places
  OBVIOUS
<1>1. DaemonFlags
  BY Zenon DEF DaemonInit, DaemonFlags
<1>2. Places
  BY DEF DaemonInit, Places
<1> QED BY <1>1, <1>2

LEMMA NextDaemonFlags == DaemonFlags /\ [DaemonNext]_daemonVars => DaemonFlags'
<1> SUFFICES ASSUME DaemonFlags, [DaemonNext]_daemonVars PROVE DaemonFlags'
  OBVIOUS
<1> USE DEF DaemonFlags, flags, rtVars, mainVars
<1>1. CASE RtThread \/ Abort
  BY <1>1, Zenon DEF RtThread, Tick, EndTick, LoopEnds, Abort
<1>2. CASE CmdThread \/ CmdReceive
  <2>1. ASSUME gStop' \in {gStop, TRUE} PROVE gStop' \in BOOLEAN
    BY <2>1, Zenon
  <2> QED BY <1>2, <2>1, Zenon DEF CmdThread, CmdHead, CmdTimeout, CmdParse, CmdReceive
<1>3. CASE PubThread \/ Signal
  BY <1>3, Zenon DEF PubThread, PubHead, PubSend, Signal
<1>4. CASE RecService \/ RecReceive \/ RecReply \/ RecFails
  BY <1>4, Zenon DEF RecService, RecHead, RecTimeout, RecManage, RecGivesUp, RecReceive, RecReply, RecFails
<1>5. CASE Main
  BY <1>5, Zenon DEF Main, MainWakes, AsksToStop, JoinsRt, JoinsRec, Exits
<1>6. CASE UNCHANGED daemonVars
  BY <1>6, Zenon DEF daemonVars
<1> QED BY <1>1, <1>2, <1>3, <1>4, <1>5, <1>6, Zenon DEF DaemonNext, Exited

LEMMA NextPlaces == Places /\ [DaemonNext]_daemonVars => Places'
<1> SUFFICES ASSUME Places, [DaemonNext]_daemonVars PROVE Places'
  OBVIOUS
<1> USE DEF Places, flags, rtVars, mainVars
<1>1. CASE RtThread \/ Abort
  BY <1>1 DEF RtThread, Tick, EndTick, LoopEnds, Abort
<1>2. CASE CmdThread \/ CmdReceive
  BY <1>2, Zenon DEF CmdThread, CmdHead, CmdTimeout, CmdParse, CmdReceive
<1>3. CASE PubThread \/ Signal
  BY <1>3 DEF PubThread, PubHead, PubSend, Signal
<1>4. CASE RecService \/ RecReceive \/ RecReply \/ RecFails
  BY <1>4 DEF RecService, RecHead, RecTimeout, RecManage, RecGivesUp, RecReceive, RecReply, RecFails
<1>5. CASE Main
  BY <1>5 DEF Main, MainWakes, AsksToStop, JoinsRt, JoinsRec, Exits
<1>6. CASE UNCHANGED daemonVars
  BY <1>6 DEF daemonVars
<1> QED BY <1>1, <1>2, <1>3, <1>4, <1>5, <1>6 DEF DaemonNext, Exited

(* Every state of the daemon has the declared form: its threads are where    *)
(* their code can be.                                                        *)
THEOREM DaemonTypeCorrect == DaemonSpec => []DaemonTypeOK
<1>1. DaemonFlags /\ Places => DaemonTypeOK
  BY Zenon DEF DaemonFlags, Places, DaemonTypeOK
<1> QED BY <1>1, InitDaemonTypes, NextDaemonFlags, NextPlaces, PTL DEF DaemonSpec

(* recording.shutdown() is called when neither the real-time thread nor the  *)
(* recording service can enter the manager any more.                         *)
THEOREM ShutdownCorrect == DaemonSpec => []ShutdownIsLast
<1>1. EndedInOrder => ShutdownIsLast
  BY DEF EndedInOrder, ShutdownIsLast
<1> QED BY <1>1, InitEndedInOrder, NextEndedInOrder, PTL DEF DaemonSpec
==============================================================================
