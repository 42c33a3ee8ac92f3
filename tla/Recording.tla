------------------------------ MODULE Recording ------------------------------
(***************************************************************************)
(* RecordingManager (recording.cpp, recording.hpp): recordings are started *)
(* and stopped, one after the other, while the real-time loop pushes one   *)
(* frame per tick into a ring that outlives them all.  Three threads meet  *)
(* here: the real-time loop in record(), the holder of the manager's mutex *)
(* in start(), stop() or shutdown(), and the writer of the recording.      *)
(* record() takes no lock; producer_busy_ and enabled_ are accessed        *)
(* sequentially consistently, so their steps interleave.                   *)
(***************************************************************************)
EXTENDS Naturals, Sequences

CONSTANTS
  Id,        \* recording IDs
  Path,      \* paths a recording may be written to
  NoId,      \* recording_id_ of a fresh manager
  NoPath,
  Absent,    \* at a path: no file
  NoFrame,
  Capacity,  \* slots of the ring
  MaxBatch,  \* frames the writer pops before it flushes
  MaxFrames  \* bound on the frames of one recording, for model checking

ASSUME CapacityAssumption == Capacity \in Nat /\ Capacity >= 2
ASSUME BatchAssumption == MaxBatch \in Nat \ {0}
ASSUME MaxFramesAssumption == MaxFrames \in Nat
ASSUME NoneAssumption == NoId \notin Id /\ NoPath \notin Path

(* A frame carries its number; the recording it was filled for is noted only *)
(* to state which file it may appear in.                                     *)
Frame == [id : Id, seq : Nat]

VARIABLES
  queue, dropped, taken,   \* ring_
  files,                   \* the file system
  path, wpc, isOpen, ok, error, stop, finished,
  written, discarded, batch, pending, \* *writer_ and its thread
  mpc,         \* where the holder of mutex_ is; "idle" when nobody holds it
  hasWriter,   \* writer_ is not null
  recordingId, \* recording_id_
  usedIds,     \* used_ids_
  startError,  \* start_error_ is not empty
  failed,      \* failed_
  enabled,     \* enabled_
  down,        \* shutdown() was called
  rpc,         \* where the real-time loop is in record()
  busy,        \* producer_busy_
  seq,         \* seq_
  frame,       \* the frame record() has filled
  rtDone       \* the real-time loop has ended

Writer == INSTANCE RingLogWriter
Ring == INSTANCE RingQueue

ring == <<queue, dropped, taken>>
counters == <<written, discarded, batch, pending>>
writer == <<files, path, wpc, isOpen, ok, error, stop, finished, counters>>
manager == <<mpc, hasWriter, recordingId, usedIds, startError, failed, enabled, down>>
producer == <<rpc, busy, seq, frame, rtDone>>
vars == <<ring, writer, manager, producer>>

Init ==
  /\ Ring!Init
  /\ files \in [Path -> {Absent}]
  /\ path = NoPath
  /\ wpc = "done"
  /\ isOpen = FALSE
  /\ ok = FALSE
  /\ error = "none"
  /\ stop = FALSE
  /\ finished = FALSE
  /\ written = 0
  /\ discarded = 0
  /\ batch = 0
  /\ pending = 0
  /\ mpc = "idle"
  /\ hasWriter = FALSE
  /\ recordingId = NoId
  /\ usedIds = {}
  /\ startError = FALSE
  /\ failed = FALSE
  /\ enabled = FALSE
  /\ down = FALSE
  /\ rpc = "out"
  /\ busy = FALSE
  /\ seq = 0
  /\ frame = NoFrame
  /\ rtDone = FALSE

------------------------------------------------------------------------------
(* record(), called once per tick by the real-time loop.                     *)

(* Mutant of Enter: the producer does not announce itself. *)
EnterUnannounced ==
  /\ rpc = "out"
  /\ ~rtDone
  /\ enabled => seq < MaxFrames
  /\ rpc' = "check"
  /\ UNCHANGED <<ring, writer, manager, busy, seq, frame, rtDone>>

Enter ==
  /\ rpc = "out"
  /\ ~rtDone
  /\ enabled => seq < MaxFrames
  /\ busy' = TRUE
  /\ rpc' = "check"
  /\ UNCHANGED <<ring, writer, manager, seq, frame, rtDone>>

CheckEnabled ==
  /\ rpc = "check"
  /\ IF enabled
     THEN /\ frame' = [id |-> recordingId, seq |-> seq]
          /\ seq' = seq + 1
          /\ rpc' = "push"
     ELSE /\ rpc' = "leave"
          /\ UNCHANGED <<seq, frame>>
  /\ UNCHANGED <<ring, writer, manager, busy, rtDone>>

Push ==
  /\ rpc = "push"
  /\ Ring!Accept(frame) \/ Ring!Refuse
  /\ rpc' = "leave"
  /\ UNCHANGED <<writer, manager, busy, seq, frame, rtDone>>

(* The guard's destructor.                                                   *)
Leave ==
  /\ rpc = "leave"
  /\ busy' = FALSE
  /\ rpc' = "out"
  /\ UNCHANGED <<ring, writer, manager, seq, frame, rtDone>>

(* robot.control() returns, between two ticks.                               *)
RtEnds ==
  /\ rpc = "out"
  /\ ~rtDone
  /\ rtDone' = TRUE
  /\ UNCHANGED <<ring, writer, manager, rpc, busy, seq, frame>>

RealTime == Enter \/ CheckEnabled \/ Push \/ Leave

------------------------------------------------------------------------------
(* start().  A request that is refused, or that repeats the current ID and   *)
(* path, changes nothing and is not a step.                                  *)

(* Mutant of MayStart: an ID may be used again. *)
MayRestart(id, p) ==
  /\ mpc = "idle"
  /\ ~down
  /\ ~(id = recordingId /\ hasWriter /\ p = path)
  /\ ~enabled

MayStart(id, p) ==
  /\ mpc = "idle"
  /\ ~down
  /\ ~(id = recordingId /\ hasWriter /\ p = path)
  /\ id \notin usedIds
  /\ ~enabled

(* Mutant of BeginSession: numbering goes on from the last recording. *)
BeginWithoutReset(id) ==
  /\ usedIds' = usedIds \cup {id}
  /\ recordingId' = id
  /\ Ring!Clear
  /\ UNCHANGED seq

BeginSession(id) ==
  /\ usedIds' = usedIds \cup {id}
  /\ recordingId' = id
  /\ Ring!Clear
  /\ seq' = 0

Start(id, p) ==
  /\ MayStart(id, p)
  /\ BeginSession(id)
  /\ startError' = FALSE
  /\ hasWriter' = TRUE
  /\ Writer!Construct(p)
  /\ mpc' = "awaitReady"
  /\ UNCHANGED <<files, failed, enabled, down, rpc, busy, frame, rtDone>>

(* The thread of the writer cannot be created; writer_ stays null.           *)
StartThrows(id, p) ==
  /\ MayStart(id, p)
  /\ BeginSession(id)
  /\ startError' = TRUE
  /\ hasWriter' = FALSE
  /\ failed' = TRUE
  /\ UNCHANGED <<writer, mpc, enabled, down, rpc, busy, frame, rtDone>>

StartSucceeds ==
  /\ mpc = "awaitReady"
  /\ ok
  /\ enabled' = TRUE
  /\ mpc' = "idle"
  /\ UNCHANGED <<ring, writer, hasWriter, recordingId, usedIds, startError, failed, down,
                 producer>>

(* The header was not written: the writer is stopped and joined.             *)
StartFails ==
  /\ mpc = "awaitReady"
  /\ ~ok
  /\ error # "none"
  /\ stop' = TRUE
  /\ mpc' = "joinFailed"
  /\ UNCHANGED <<ring, files, path, wpc, isOpen, ok, error, finished, counters,
                 hasWriter, recordingId, usedIds, startError, failed, enabled, down, producer>>

StartFailed ==
  /\ mpc = "joinFailed"
  /\ wpc = "done"
  /\ failed' = TRUE
  /\ mpc' = "idle"
  /\ UNCHANGED <<ring, writer, hasWriter, recordingId, usedIds, startError, enabled, down,
                 producer>>

------------------------------------------------------------------------------
(* stop() and shutdown().                                                    *)

StopBegin ==
  /\ mpc = "idle"
  /\ enabled' = FALSE
  /\ mpc' = "awaitQuiet"
  /\ UNCHANGED <<ring, writer, hasWriter, recordingId, usedIds, startError, failed, producer>>

Stop(id) ==
  /\ ~down
  /\ id = recordingId
  /\ StopBegin
  /\ UNCHANGED down

(* main() calls shutdown() after it has joined the real-time loop and the    *)
(* server, the only other caller of the manager.                             *)
Shutdown ==
  /\ rtDone
  /\ ~down
  /\ StopBegin
  /\ down' = TRUE

(* Mutant of Quiet: an in-flight push is not waited for. *)
QuietUnchecked ==
  /\ mpc = "awaitQuiet"
  /\ IF hasWriter
     THEN stop' = TRUE /\ mpc' = "join"
     ELSE mpc' = "idle" /\ UNCHANGED stop
  /\ UNCHANGED <<ring, files, path, wpc, isOpen, ok, error, finished, counters,
                 hasWriter, recordingId, usedIds, startError, failed, enabled, down, producer>>

(* producer_busy_ is polled until it is found clear; then writer_->stop(),   *)
(* which joins the writer.                                                   *)
Quiet ==
  /\ mpc = "awaitQuiet"
  /\ ~busy
  /\ IF hasWriter
     THEN stop' = TRUE /\ mpc' = "join"
     ELSE mpc' = "idle" /\ UNCHANGED stop
  /\ UNCHANGED <<ring, files, path, wpc, isOpen, ok, error, finished, counters,
                 hasWriter, recordingId, usedIds, startError, failed, enabled, down, producer>>

(* Mutant of Joined: a later recording that succeeds hides a failure. *)
JoinedForgetful ==
  /\ mpc = "join"
  /\ wpc = "done"
  /\ failed' = ~Writer!Complete
  /\ mpc' = "idle"
  /\ UNCHANGED <<ring, writer, hasWriter, recordingId, usedIds, startError, enabled, down,
                 producer>>

Joined ==
  /\ mpc = "join"
  /\ wpc = "done"
  /\ failed' = (failed \/ ~Writer!Complete)
  /\ mpc' = "idle"
  /\ UNCHANGED <<ring, writer, hasWriter, recordingId, usedIds, startError, enabled, down,
                 producer>>

Manager ==
  \/ StartSucceeds
  \/ StartFails
  \/ StartFailed
  \/ Joined

WriterThread == Writer!Run /\ UNCHANGED <<manager, producer>>

Request ==
  \/ \E id \in Id, p \in Path : Start(id, p) \/ StartThrows(id, p)
  \/ \E id \in Id : Stop(id)
  \/ Shutdown

(* The daemon has left its last recording behind.                            *)
Ended == down /\ mpc = "idle"

Terminated == Ended /\ UNCHANGED vars

Next ==
  \/ RealTime
  \/ RtEnds
  \/ Request
  \/ Quiet
  \/ Manager
  \/ WriterThread
  \/ Terminated

(* The threads keep running and file operations return.  Quiet polls a flag  *)
(* that the running real-time loop sets and clears on every tick: it finds   *)
(* it clear because the busy stretch is a small part of a tick and the poll  *)
(* is not in step with it, which is strong fairness of Quiet, not weak.      *)
Fairness ==
  /\ WF_vars(CheckEnabled \/ Push \/ Leave)
  /\ WF_vars(Manager)
  /\ WF_vars(WriterThread)
  /\ SF_vars(Quiet)

Spec == Init /\ [][Next]_vars /\ Fairness

------------------------------------------------------------------------------
TypeOK ==
  /\ \A i \in DOMAIN queue : queue[i] \in Frame
  /\ Len(queue) \in 0 .. Capacity - 1
  /\ dropped \in Nat
  /\ taken = NoFrame \/ taken \in Frame
  /\ DOMAIN files = Path
  /\ path \in Path \cup {NoPath}
  /\ wpc \in {"prepare", "loop", "drain", "last", "lastDrain", "close", "finish", "done"}
  /\ {isOpen, ok, stop, finished, hasWriter, startError, failed, enabled, down, busy, rtDone}
       \subseteq BOOLEAN
  /\ error \in {"none", "open", "header", "row", "flush", "close"}
  /\ written \in Nat /\ discarded \in Nat /\ pending \in Nat
  /\ batch \in 0 .. MaxBatch
  /\ mpc \in {"idle", "awaitReady", "joinFailed", "awaitQuiet", "join"}
  /\ recordingId \in Id \cup {NoId}
  /\ usedIds \in SUBSET Id
  /\ rpc \in {"out", "check", "push", "leave"}
  /\ seq \in Nat
  /\ frame = NoFrame \/ frame \in Frame

(* Once a stop, or a start that failed, has been answered, the recording is  *)
(* over: no frame is on its way into the ring, none is left in it, and its   *)
(* writer has ended.  The next start() resets the ring relying on this.      *)
StoppedIsQuiet ==
  mpc = "idle" /\ ~enabled => rpc # "push" /\ queue = <<>> /\ wpc = "done"

(* A frame about to be pushed has a writer that will still look for it: the  *)
(* stop() that disabled capture has not let the writer empty the ring yet.   *)
PushHasReader == rpc = "push" => wpc \in {"loop", "drain"} /\ ~stop

(* Both together: record() touches the ring only while a recording owns it.  *)
PushesAreConfined == StoppedIsQuiet /\ PushHasReader

(* The inductive invariant behind the two properties above: which stretch of *)
(* the writer's life goes with which place of the mutex holder.              *)
Over == wpc = "done" /\ queue = <<>> /\ rpc # "push"
Draining == hasWriter /\ wpc \in {"loop", "drain"} /\ ~stop

IInv ==
  /\ mpc \in {"idle", "awaitReady", "joinFailed", "awaitQuiet", "join"}
  /\ rpc \in {"out", "check", "push", "leave"}
  /\ enabled \in BOOLEAN /\ stop \in BOOLEAN /\ hasWriter \in BOOLEAN
  /\ busy = (rpc # "out")
  /\ enabled => mpc = "idle" /\ Draining
  /\ rpc = "push" => (enabled \/ mpc = "awaitQuiet") /\ Draining
  /\ mpc = "idle" /\ ~enabled => Over
  /\ mpc = "awaitReady" => hasWriter /\ ~stop /\ queue = <<>>
                             /\ wpc \in {"prepare", "loop", "drain"} /\ (ok => Draining)
  /\ mpc = "joinFailed" => hasWriter /\ stop
  /\ mpc = "awaitQuiet" => Over \/ Draining
  /\ mpc = "join" => hasWriter /\ stop
  /\ wpc = "prepare" => ~ok
  /\ wpc \in {"close", "finish", "done"} => queue = <<>>
  /\ wpc \in {"last", "lastDrain"} => stop

(* Every frame of the current recording is in exactly one place: about to be *)
(* pushed, refused, in the ring, awaiting a flush, flushed, or discarded.    *)
FramesAccounted ==
  hasWriter =>
    seq = (IF rpc = "push" THEN 1 ELSE 0) + dropped + Len(queue) + pending + written + discarded

(* A recording reported complete has every frame of it in its file, once and *)
(* in order, all of them flushed.                                            *)
CompleteIsExact ==
  hasWriter /\ Writer!Complete =>
    /\ files[path] = [i \in 1 .. seq |-> [id |-> recordingId, seq |-> i - 1]]
    /\ written = seq

(* Complete or not, a file holds frames of one recording only, in the order  *)
(* in which they were recorded and none of them twice.                       *)
RowsInOrder ==
  \A p \in Path : files[p] # Absent =>
    \A i, j \in DOMAIN files[p] : i < j =>
      files[p][i].id = files[p][j].id /\ files[p][i].seq < files[p][j].seq

(* A file, once made, only grows: no start() truncates an earlier recording. *)
(* And complete is final: a recording reported complete keeps its file as it *)
(* is and is never found to have failed afterwards.                          *)
FilesOnlyGrow ==
  [][/\ \A p \in Path : files[p] # Absent =>
          /\ Len(files'[p]) >= Len(files[p])
          /\ SubSeq(files'[p], 1, Len(files[p])) = files[p]
     /\ hasWriter /\ Writer!Complete /\ recordingId' = recordingId =>
          Writer!Complete' /\ files'[path] = files[path]]_vars

(* Once a recording has lost a frame, met an I/O error or failed to start,   *)
(* the daemon's exit status says so, whatever recordings follow.             *)
SessionFailed == startError \/ (hasWriter /\ (dropped > 0 \/ error # "none"))

FailureReported == [](SessionFailed => [](Ended => failed))

(* What its callers see of the manager: one recording at a time.             *)
Phase ==
  CASE mpc \in {"awaitReady", "joinFailed"} -> "starting"
    [] mpc \in {"awaitQuiet", "join"} -> "stopping"
    [] mpc = "idle" /\ enabled -> "active"
    [] mpc = "idle" /\ ~enabled -> "idle"

Session == INSTANCE RecordingSession WITH
  phase <- Phase,
  current <- recordingId,
  used <- usedIds

(* The manager implements RecordingSession, seen by its callers: one         *)
(* recording at a time, IDs never reused, failures remembered.               *)
ImplementsSession == Session!Spec

(* start() and stop() return: the header is written or fails, an in-flight   *)
(* push ends, and the writer drains the ring and closes.                     *)
CallsReturn == mpc # "idle" ~> mpc = "idle"
==============================================================================
