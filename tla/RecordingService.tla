--------------------------- MODULE RecordingService ---------------------------
(***************************************************************************)
(* Recording on request: the clients (recording.py, robot.py) ask the      *)
(* service (recording_server.cpp) to start and stop recordings, each call  *)
(* on a REQ socket of its own that is closed when the call times out.  Its *)
(* request may then be lost or arrive long after, behind later ones.  The  *)
(* manager the service asks is what RecordingSession promises of it.       *)
(***************************************************************************)
EXTENDS Naturals

CONSTANTS
  Client,
  Id, Path,
  NoId, NoPath,
  Nothing,  \* no request, no reply
  MaxCalls  \* bound on the calls of all clients, for model checking

ASSUME MaxCallsAssumption == MaxCalls \in Nat
ASSUME NoneAssumption == NoId \notin Id /\ NoPath \notin Path

VARIABLES
  phase, current, used, failed, \* of the manager, see RecordingSession
  path,     \* path of writer_, NoPath without one
  ok,       \* ok() of writer_
  serving,  \* the daemon has not been told to stop
  wire,     \* the requests on their way, from whichever socket
  inHand,   \* the request the service is at
  calls,    \* number of calls so far
  waiting,  \* waiting[c]: the request of c that is not answered
  reply,    \* reply[c]: the answer on the socket of c
  myId,     \* myId[c]: _recording_id
  previous, \* previous[c]: its value before the call
  confirmed,\* the recordings whose start was confirmed to a client, for the properties
  mine,     \* mine[c]: the last of them of c, likewise
  unsure,   \* the clients one of whose starts has timed out since, likewise
  asked,    \* the IDs a client has asked to stop, likewise
  ended     \* the IDs whose stop was confirmed to a client, likewise

session == <<phase, current, used, failed>>
manager == <<session, path, ok>>
service == <<serving, inHand>>
clients == <<calls, waiting, myId, previous>>
history == <<confirmed, mine, unsure, asked, ended>>
vars == <<manager, service, wire, reply, clients, history>>

Session == INSTANCE RecordingSession

(* A request is named by its number.                                         *)
Request ==
  [n : 1 .. MaxCalls, client : Client, action : {"start", "stop", "status"},
   id : Id \cup {NoId}, path : Path \cup {NoPath}]

ASSUME NothingAssumption == Nothing \notin Request

Status == [id : Id \cup {NoId}, active : BOOLEAN, ok : BOOLEAN]

Reply == [accepted : BOOLEAN, status : Status]

Init ==
  /\ Session!Init
  /\ path = NoPath
  /\ ok = FALSE
  /\ serving = TRUE
  /\ wire = {}
  /\ inHand = Nothing
  /\ calls = 0
  /\ waiting = [c \in Client |-> Nothing]
  /\ reply = [c \in Client |-> Nothing]
  /\ myId = [c \in Client |-> NoId]
  /\ previous = [c \in Client |-> NoId]
  /\ confirmed = {}
  /\ mine = [c \in Client |-> NoId]
  /\ unsure = {}
  /\ asked = {}
  /\ ended = {}

------------------------------------------------------------------------------
(* Calls of the clients.                                                     *)
Call(c, action, id, p) ==
  /\ waiting[c] = Nothing
  /\ calls < MaxCalls
  /\ calls' = calls + 1
  /\ LET r == [n |-> calls + 1, client |-> c, action |-> action, id |-> id, path |-> p]
     IN waiting' = [waiting EXCEPT ![c] = r] /\ wire' = wire \cup {r}

CallStart(c, id, p) ==
  /\ Call(c, "start", id, p)
  /\ previous' = [previous EXCEPT ![c] = myId[c]]
  /\ myId' = [myId EXCEPT ![c] = id]
  /\ UNCHANGED <<manager, service, reply, history>>

(* stop_recording() without an ID is the case id = myId[c].                  *)
CallStop(c, id) ==
  /\ Call(c, "stop", id, NoPath)
  /\ asked' = asked \cup {id}
  /\ UNCHANGED <<manager, service, reply, myId, previous, confirmed, mine, unsure, ended>>

CallStatus(c) ==
  /\ Call(c, "status", NoId, NoPath)
  /\ UNCHANGED <<manager, service, reply, myId, previous, history>>

(* A call that times out closes its socket.  What it has sent may be gone    *)
(* with it, or not.                                                          *)
TimesOut(c) ==
  /\ waiting[c] # Nothing
  /\ waiting' = [waiting EXCEPT ![c] = Nothing]
  /\ reply' = [reply EXCEPT ![c] = Nothing]
  /\ wire' \in {wire, wire \ {waiting[c]}}
  /\ unsure' = IF waiting[c].action = "start" THEN unsure \cup {c} ELSE unsure
  /\ UNCHANGED <<manager, service, calls, myId, previous, confirmed, mine, asked, ended>>

Hangs(c) == waiting' = [waiting EXCEPT ![c] = Nothing] /\ reply' = [reply EXCEPT ![c] = Nothing]

(* The answer to a start: confirmed, accepted but not recording, or refused; *)
(* a start refused for the sake of another recording is forgotten.           *)
Confirms(c) == reply[c].accepted /\ reply[c].status.active /\ reply[c].status.ok

StartReturns(c) ==
  /\ reply[c] # Nothing
  /\ waiting[c].action = "start"
  /\ Confirms(c)
  /\ Hangs(c)
  /\ confirmed' = confirmed \cup {[id |-> waiting[c].id, path |-> waiting[c].path]}
  /\ mine' = [mine EXCEPT ![c] = waiting[c].id]
  /\ unsure' = unsure \ {c}
  /\ UNCHANGED <<manager, service, wire, calls, myId, previous, asked, ended>>

(* Mutant of StartRaises: the ID of a refused start is kept. *)
StartRaisesKeepingId(c) ==
  /\ reply[c] # Nothing
  /\ waiting[c].action = "start"
  /\ ~Confirms(c)
  /\ Hangs(c)
  /\ UNCHANGED <<manager, service, wire, calls, myId, previous, history>>

StartRaises(c) ==
  /\ reply[c] # Nothing
  /\ waiting[c].action = "start"
  /\ ~Confirms(c)
  /\ Hangs(c)
  /\ myId' = IF ~reply[c].accepted /\ reply[c].status.id # waiting[c].id
             THEN [myId EXCEPT ![c] = previous[c]] ELSE myId
  /\ UNCHANGED <<manager, service, wire, calls, previous, history>>

StopReturns(c) ==
  /\ reply[c] # Nothing
  /\ waiting[c].action = "stop"
  /\ Hangs(c)
  /\ ended' = IF reply[c].accepted THEN ended \cup {waiting[c].id} ELSE ended
  /\ UNCHANGED <<manager, service, wire, calls, myId, previous, confirmed, mine, unsure, asked>>

StatusReturns(c) ==
  /\ reply[c] # Nothing
  /\ waiting[c].action = "status"
  /\ Hangs(c)
  /\ UNCHANGED <<manager, service, wire, calls, myId, previous, history>>

------------------------------------------------------------------------------
(* The service: one request at a time, each answered with the status the     *)
(* manager is then in.                                                       *)
Takes(r) ==
  /\ serving
  /\ inHand = Nothing
  /\ r \in wire
  /\ inHand' = r
  /\ wire' = wire \ {r}
  /\ UNCHANGED <<manager, serving, reply, clients, history>>

(* status_locked(), after what the request did.                              *)
CurrentStatus == [id |-> current', active |-> phase' = "active", ok |-> ok']

(* The reply reaches the client if it still waits for it.                    *)
Answer(accepted) ==
  /\ inHand' = Nothing
  /\ reply' = IF waiting[inHand.client] = inHand
              THEN [reply EXCEPT ![inHand.client] =
                      [accepted |-> accepted, status |-> CurrentStatus]]
              ELSE reply
  /\ UNCHANGED <<serving, wire, clients, history>>

Asks(action) == inHand # Nothing /\ inHand.action = action

AnswersStatus ==
  /\ Asks("status")
  /\ UNCHANGED manager
  /\ Answer(TRUE)

(* start(): a repetition, a refusal, or a new recording.                     *)

Repeats == inHand.id = current /\ path # NoPath /\ inHand.path = path

Acceptable == inHand.id \notin used /\ phase # "active"

StartRepeats ==
  /\ Asks("start")
  /\ phase \in {"idle", "active"}
  /\ Repeats
  /\ UNCHANGED manager
  /\ Answer(TRUE)

StartRefused ==
  /\ Asks("start")
  /\ phase \in {"idle", "active"}
  /\ ~Repeats
  /\ ~Acceptable
  /\ UNCHANGED manager
  /\ Answer(FALSE)

StartBegins ==
  /\ Asks("start")
  /\ phase = "idle"
  /\ ~Repeats
  /\ Acceptable
  /\ phase' = "starting"
  /\ current' = inHand.id
  /\ used' = used \cup {inHand.id}
  /\ path' = inHand.path
  /\ ok' = FALSE
  /\ UNCHANGED <<failed, service, wire, reply, clients, history>>

StartThrows ==
  /\ Asks("start")
  /\ phase = "idle"
  /\ ~Repeats
  /\ Acceptable
  /\ current' = inHand.id
  /\ used' = used \cup {inHand.id}
  /\ path' = NoPath
  /\ ok' = FALSE
  /\ failed' = TRUE
  /\ UNCHANGED phase
  /\ Answer(TRUE)

StartSucceeds ==
  /\ Asks("start")
  /\ Session!Started
  /\ ok' = TRUE
  /\ UNCHANGED path
  /\ Answer(TRUE)

StartFails ==
  /\ Asks("start")
  /\ Session!NotStarted
  /\ UNCHANGED <<path, ok>>
  /\ Answer(TRUE)

(* stop(): of the current recording only, be it active or not.               *)
(* Mutant of StopsCurrent: a stop ends whatever is being recorded. *)
StopsAnything == current # NoId

StopsCurrent == inHand.id = current

StopRefused ==
  /\ Asks("stop")
  /\ phase \in {"idle", "active"}
  /\ ~StopsCurrent
  /\ UNCHANGED manager
  /\ Answer(FALSE)

StopBegins ==
  /\ Asks("stop")
  /\ StopsCurrent
  /\ Session!Stopping
  /\ UNCHANGED <<path, ok, service, wire, reply, clients, history>>

StopEnds ==
  /\ Asks("stop")
  /\ Session!Stopped
  /\ UNCHANGED path
  /\ ok' \in {ok, FALSE}
  /\ Answer(TRUE)

(* The writer fails by itself.                                               *)
WriterFails ==
  /\ phase = "active"
  /\ ok
  /\ ok' = FALSE
  /\ UNCHANGED <<session, path, service, wire, reply, clients, history>>

(* The daemon ends, and with it the recording.                               *)
Quits ==
  /\ serving
  /\ inHand = Nothing
  /\ serving' = FALSE
  /\ UNCHANGED <<manager, inHand, wire, reply, clients, history>>

ShutdownStops ==
  /\ ~serving
  /\ Session!Stopping \/ Session!Stopped
  /\ UNCHANGED <<path, ok, service, wire, reply, clients, history>>

------------------------------------------------------------------------------
ClientCalls ==
  \E c \in Client :
    \/ \E id \in Id, p \in Path : CallStart(c, id, p)
    \/ \E id \in Id : CallStop(c, id)
    \/ CallStatus(c)

ClientReturns ==
  \E c \in Client :
    \/ StartReturns(c) \/ StartRaises(c) \/ StopReturns(c) \/ StatusReturns(c)
    \/ TimesOut(c)

Serves ==
  \/ \E r \in wire : Takes(r)
  \/ AnswersStatus
  \/ StartRepeats \/ StartRefused \/ StartBegins \/ StartThrows \/ StartSucceeds \/ StartFails
  \/ StopRefused \/ StopBegins \/ StopEnds

Next == ClientCalls \/ ClientReturns \/ Serves \/ WriterFails \/ Quits \/ ShutdownStops

Spec == Init /\ [][Next]_vars

------------------------------------------------------------------------------
TypeOK ==
  /\ phase \in {"idle", "starting", "active", "stopping"}
  /\ current \in Id \cup {NoId} /\ used \subseteq Id
  /\ {failed, ok, serving} \subseteq BOOLEAN
  /\ path \in Path \cup {NoPath}
  /\ wire \subseteq Request
  /\ inHand \in Request \cup {Nothing}
  /\ calls \in 0 .. MaxCalls
  /\ waiting \in [Client -> Request \cup {Nothing}]
  /\ reply \in [Client -> Reply \cup {Nothing}]
  /\ myId \in [Client -> Id \cup {NoId}]
  /\ previous \in [Client -> Id \cup {NoId}]
  /\ confirmed \subseteq [id : Id, path : Path]
  /\ mine \in [Client -> Id \cup {NoId}]
  /\ unsure \subseteq Client
  /\ asked \subseteq Id /\ ended \subseteq Id

(* A recording whose start was confirmed goes on until a client asks for its *)
(* end by its ID or the daemon is stopped, whatever requests come late; it   *)
(* is at the path its client gave, and nobody was told another one.          *)
ConfirmedRuns ==
  \A r \in confirmed :
    /\ r.id \in asked \/ ~serving \/ (current = r.id /\ phase = "active")
    /\ current = r.id => path = r.path
    /\ \A s \in confirmed : s.id = r.id => s.path = r.path

(* What a client was told to have ended does not come back, though a start   *)
(* with its ID is still on the way.                                          *)
EndedStaysEnded ==
  \A id \in ended : ~(current = id /\ phase \in {"starting", "active"})

(* Together: what the daemon answered a client stays true, whatever comes    *)
(* late.                                                                     *)
AnswersHold == ConfirmedRuns /\ EndedStaysEnded

(* stop_recording() without an ID means the recording this client started,   *)
(* as long as that runs and no start of the client has timed out since.      *)
DefaultStopIsMine ==
  \A c \in Client :
    waiting[c] = Nothing /\ c \notin unsure /\ mine[c] # NoId
      /\ phase = "active" /\ current = mine[c]
      => myId[c] = mine[c]
==============================================================================
