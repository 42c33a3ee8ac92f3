--------------------------- MODULE RecordingSession ---------------------------
(***************************************************************************)
(* What RecordingManager promises those who ask it to record: recordings   *)
(* follow each other, one at a time, each under an ID of its own that is   *)
(* never used again, and a failure of any of them is remembered.           *)
(***************************************************************************)
CONSTANTS
  Id,   \* recording IDs
  NoId  \* before the first recording

VARIABLES
  phase,   \* of the current recording
  current, \* its ID
  used,    \* the IDs of all recordings so far
  failed   \* some recording could not be started or is not complete

svars == <<phase, current, used, failed>>

Init ==
  /\ phase = "idle"
  /\ current = NoId
  /\ used = {}
  /\ failed = FALSE

(* start() accepts a new ID ...                                              *)
Begin(id) ==
  /\ phase = "idle"
  /\ id \notin used
  /\ current' = id
  /\ used' = used \cup {id}

Starting(id) == Begin(id) /\ phase' = "starting" /\ UNCHANGED failed

Unstartable(id) == Begin(id) /\ failed' = TRUE /\ UNCHANGED phase

(* ... and answers once the file is ready, or cannot be.                     *)
Started == phase = "starting" /\ phase' = "active" /\ UNCHANGED <<current, used, failed>>

NotStarted ==
  /\ phase = "starting"
  /\ phase' = "idle"
  /\ failed' = TRUE
  /\ UNCHANGED <<current, used>>

(* stop() of the current recording, and its answer.                          *)
Stopping ==
  /\ phase \in {"idle", "active"}
  /\ phase' = "stopping"
  /\ UNCHANGED <<current, used, failed>>

Stopped ==
  /\ phase = "stopping"
  /\ phase' = "idle"
  /\ failed' \in {failed, TRUE}
  /\ UNCHANGED <<current, used>>

Next ==
  \/ \E id \in Id : Starting(id) \/ Unstartable(id)
  \/ Started
  \/ NotStarted
  \/ Stopping
  \/ Stopped

Spec == Init /\ [][Next]_svars
==============================================================================
