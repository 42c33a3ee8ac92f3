---------------------------- MODULE RingLogWriter ----------------------------
(***************************************************************************)
(* The writer thread of ring_log_writer.cpp: it opens the CSV file, drains *)
(* the ring into it in batches, each followed by a flush, and when told to *)
(* stop empties the ring, flushes and closes.  The file operations are     *)
(* injected in the code (RingLogFileOps); here each may succeed or fail.   *)
(* One action is one stretch of the thread between two points where        *)
(* another thread can see it: a pop, or a store to an atomic.              *)
(***************************************************************************)
EXTENDS Naturals, Sequences

CONSTANTS
  Frame,    \* frames of the ring
  Capacity, \* slots of the ring
  NoFrame,
  Absent,   \* the content of a path at which there is no file
  MaxBatch  \* frames popped before a flush; 512 in the code

VARIABLES
  queue, dropped, taken, \* the ring, as RingQueue describes it
  files,     \* what each path holds: Absent, or the rows written, in order
  path,      \* path_
  wpc,       \* where the thread is; "done" once it may be joined
  isOpen,    \* f is not null
  ok,        \* ok_
  error,     \* error_, the first cause of failure
  stop,      \* stop_
  finished,  \* finished_
  written,   \* written_
  discarded, \* discarded_
  batch,     \* n, frames popped in the current batch
  pending    \* rows of the current batch not yet flushed

Ring == INSTANCE RingQueue

counters == <<written, discarded, batch, pending>>

(* complete() *)
Complete == finished /\ ok /\ dropped = 0

(* fail(e): only the first cause is kept. *)
Fail(e) ==
  /\ error' = IF error = "none" THEN e ELSE error
  /\ ok' = (ok /\ error # "none")

(* The members of a writer that has just been constructed for path p. *)
Construct(p) ==
  /\ path' = p
  /\ wpc' = "prepare"
  /\ isOpen' = FALSE
  /\ ok' = FALSE
  /\ error' = "none"
  /\ stop' = FALSE
  /\ finished' = FALSE
  /\ written' = 0
  /\ discarded' = 0
  /\ batch' = 0
  /\ pending' = 0

------------------------------------------------------------------------------
(* run() up to its loop.  The file is created exclusively ("wx"), so a path  *)
(* at which there is a file cannot be opened.                                *)

OpenFails ==
  /\ wpc = "prepare"
  /\ Fail("open")
  /\ wpc' = "loop"
  /\ UNCHANGED <<queue, dropped, taken, files, path, isOpen, stop, finished, counters>>

(* Mutant of Opens: the file is opened with "w" and truncated. *)
OpensTruncating ==
  /\ wpc = "prepare"
  /\ files' = [files EXCEPT ![path] = <<>>]
  /\ isOpen' = TRUE
  /\ wpc' = "loop"
  /\ UNCHANGED <<queue, dropped, taken, path, stop, finished, counters>>

Opens ==
  /\ wpc = "prepare"
  /\ files[path] = Absent
  /\ files' = [files EXCEPT ![path] = <<>>]
  /\ isOpen' = TRUE
  /\ wpc' = "loop"
  /\ UNCHANGED <<queue, dropped, taken, path, stop, finished, counters>>

OpenSucceeds == Opens /\ ok' = TRUE /\ UNCHANGED error

HeaderFails == Opens /\ \E e \in {"header", "flush"} : Fail(e)

(* Mutant of LoopTop: stop_ is never looked at. *)
LoopForever ==
  /\ wpc = "loop"
  /\ wpc' = "drain"
  /\ batch' = 0
  /\ UNCHANGED <<queue, dropped, taken, files, path, isOpen, ok, error, stop, finished,
                 written, discarded, pending>>

(* The head of the loop, which looks at stop_ between batches. *)
LoopTop ==
  /\ wpc = "loop"
  /\ wpc' = IF stop THEN "last" ELSE "drain"
  /\ batch' = 0
  /\ UNCHANGED <<queue, dropped, taken, files, path, isOpen, ok, error, stop, finished,
                 written, discarded, pending>>

(* One frame of drain(): popped, then counted, written, or failed to write. *)
RowDiscarded ==
  /\ ~ok
  /\ discarded' = discarded + 1
  /\ UNCHANGED <<files, ok, error, pending, written>>

RowWritten ==
  /\ ok
  /\ files' = [files EXCEPT ![path] = Append(@, Head(queue))]
  /\ pending' = pending + 1
  /\ UNCHANGED <<ok, error, discarded, written>>

(* Mutant of RowFails: the rows of the batch still unflushed go uncounted. *)
RowFailsForgetful ==
  /\ ok
  /\ Fail("row")
  /\ discarded' = discarded + 1
  /\ pending' = 0
  /\ UNCHANGED <<files, written>>

RowFails ==
  /\ ok
  /\ Fail("row")
  /\ discarded' = discarded + pending + 1
  /\ pending' = 0
  /\ UNCHANGED <<files, written>>

DrainOne ==
  /\ wpc \in {"drain", "lastDrain"}
  /\ batch < MaxBatch
  /\ Ring!Take
  /\ RowDiscarded \/ RowWritten \/ RowFails
  /\ batch' = batch + 1
  /\ UNCHANGED <<path, wpc, isOpen, stop, finished>>

(* The end of drain(): what the batch wrote is flushed and only then counted. *)
FlushSucceeds ==
  /\ written' = written + pending
  /\ UNCHANGED <<ok, error, discarded>>

FlushFails ==
  /\ pending # 0
  /\ Fail("flush")
  /\ discarded' = discarded + pending
  /\ UNCHANGED written

EndBatch ==
  /\ wpc \in {"drain", "lastDrain"}
  /\ batch = MaxBatch \/ queue = <<>>
  /\ FlushSucceeds \/ FlushFails
  /\ pending' = 0
  /\ wpc' = IF wpc = "drain" THEN "loop" ELSE "last"
  /\ UNCHANGED <<queue, dropped, taken, files, path, isOpen, stop, finished, batch>>

(* After stop_: drain() until the ring is empty. *)
LastTop ==
  /\ wpc = "last"
  /\ wpc' = IF queue = <<>> THEN "close" ELSE "lastDrain"
  /\ batch' = 0
  /\ UNCHANGED <<queue, dropped, taken, files, path, isOpen, ok, error, stop, finished,
                 written, discarded, pending>>

(* The final flush and the close, each of which may fail. *)
CloseFile ==
  /\ wpc = "close"
  /\ isOpen' = FALSE
  /\ wpc' = "finish"
  /\ \/ UNCHANGED <<ok, error>>
     \/ isOpen /\ \E e \in {"flush", "close"} : Fail(e)
  /\ UNCHANGED <<queue, dropped, taken, files, path, stop, finished, counters>>

Finish ==
  /\ wpc = "finish"
  /\ finished' = TRUE
  /\ wpc' = "done"
  /\ UNCHANGED <<queue, dropped, taken, files, path, isOpen, ok, error, stop, counters>>

Run ==
  \/ OpenFails
  \/ OpenSucceeds
  \/ HeaderFails
  \/ LoopTop
  \/ DrainOne
  \/ EndBatch
  \/ LastTop
  \/ CloseFile
  \/ Finish
==============================================================================
