-------------------------------- MODULE Daemon --------------------------------
(***************************************************************************)
(* The five threads of the daemon (main.cpp) from the start of the real-   *)
(* time loop to the exit: main() waits for a signal, a termination command *)
(* or the end of the loop and joins the others; the recording service      *)
(* shares the RecordingManager with main().  Motion commands are modelled  *)
(* in Dispatch, here they are parsed or not; the error text, which decides *)
(* nothing, is left out.                                                   *)
(***************************************************************************)
VARIABLES
  gStop,    \* g_stop
  stopReq,  \* rt_stop_requested
  running,  \* rt_running
  rt,       \* where the real-time thread is
  aborted,  \* robot.control() has thrown
  cmd,      \* where cmd_thread is
  pub,      \* where pub_thread is
  rec,      \* where the recording service is
  main,     \* where main() is
  recDown   \* recording.shutdown() was called

flags == <<gStop, stopReq, running>>
rtVars == <<rt, aborted>>
mainVars == <<main, recDown>>
daemonVars == <<flags, rtVars, cmd, pub, rec, mainVars>>

DaemonInit ==
  /\ gStop = FALSE
  /\ stopReq = FALSE
  /\ running = TRUE
  /\ rt = "tick"
  /\ aborted = FALSE
  /\ cmd = "head"
  /\ pub = "head"
  /\ rec = "head"
  /\ main = "wait"
  /\ recDown = FALSE

------------------------------------------------------------------------------
(* The real-time thread: ticks of the callback, each of which ends the       *)
(* motion when it is asked to, ...                                           *)
Tick ==
  /\ rt = "tick"
  /\ rt' = "end"
  /\ UNCHANGED <<flags, aborted, cmd, pub, rec, mainVars>>

EndTick ==
  /\ rt = "end"
  /\ rt' = IF stopReq \/ gStop THEN "leave" ELSE "tick"
  /\ UNCHANGED <<flags, aborted, cmd, pub, rec, mainVars>>

(* ... an exception of robot.control() in any of them, and the end.          *)
Abort ==
  /\ rt \in {"tick", "end"}
  /\ aborted' = TRUE
  /\ rt' = "leave"
  /\ UNCHANGED <<flags, cmd, pub, rec, mainVars>>

LoopEnds ==
  /\ rt = "leave"
  /\ running' = FALSE
  /\ rt' = "gone"
  /\ UNCHANGED <<gStop, stopReq, aborted, cmd, pub, rec, mainVars>>

RtThread == Tick \/ EndTick \/ LoopEnds

------------------------------------------------------------------------------
(* cmd_thread.  A termination takes effect before the rest of the command is *)
(* parsed, whether or not that succeeds.                                     *)
CmdHead ==
  /\ cmd = "head"
  /\ cmd' = IF gStop THEN "done" ELSE "recv"
  /\ UNCHANGED <<flags, rtVars, pub, rec, mainVars>>

CmdTimeout ==
  /\ cmd = "recv"
  /\ cmd' = "head"
  /\ UNCHANGED <<flags, rtVars, pub, rec, mainVars>>

CmdReceive ==
  /\ cmd = "recv"
  /\ gStop' \in {gStop, TRUE}
  /\ cmd' = "parse"
  /\ UNCHANGED <<stopReq, running, rtVars, pub, rec, mainVars>>

CmdParse ==
  /\ cmd = "parse"
  /\ cmd' = "head"
  /\ UNCHANGED <<flags, rtVars, pub, rec, mainVars>>

CmdThread == CmdHead \/ CmdTimeout \/ CmdParse

------------------------------------------------------------------------------
(* pub_thread publishes the state, the error and rt_running.                *)
PubHead ==
  /\ pub = "head"
  /\ pub' = IF gStop THEN "done" ELSE "send"
  /\ UNCHANGED <<flags, rtVars, cmd, rec, mainVars>>

PubSend ==
  /\ pub = "send"
  /\ pub' = "head"
  /\ UNCHANGED <<flags, rtVars, cmd, rec, mainVars>>

PubThread == PubHead \/ PubSend

------------------------------------------------------------------------------
(* The recording service: a request at a time, answered before the next; a   *)
(* ZMQ error ends it.                                                        *)
RecHead ==
  /\ rec = "head"
  /\ rec' = IF gStop THEN "done" ELSE "recv"
  /\ UNCHANGED <<flags, rtVars, cmd, pub, mainVars>>

RecTimeout ==
  /\ rec = "recv"
  /\ rec' = "head"
  /\ UNCHANGED <<flags, rtVars, cmd, pub, mainVars>>

RecReceive ==
  /\ rec = "recv"
  /\ rec' = "manage"
  /\ UNCHANGED <<flags, rtVars, cmd, pub, mainVars>>

RecManage ==
  /\ rec = "manage"
  /\ rec' = "reply"
  /\ UNCHANGED <<flags, rtVars, cmd, pub, mainVars>>

RecReply ==
  /\ rec = "reply"
  /\ rec' = "head"
  /\ UNCHANGED <<flags, rtVars, cmd, pub, mainVars>>

RecFails ==
  /\ rec \in {"recv", "reply"}
  /\ rec' = "done"
  /\ UNCHANGED <<flags, rtVars, cmd, pub, mainVars>>

(* The client may be gone and the reply never be sent: then the service goes *)
(* on trying until it is stopped.                                            *)
RecGivesUp ==
  /\ rec = "reply"
  /\ gStop
  /\ rec' = "head"
  /\ UNCHANGED <<flags, rtVars, cmd, pub, mainVars>>

RecService == RecHead \/ RecTimeout \/ RecManage \/ RecGivesUp

------------------------------------------------------------------------------
(* main(), and the signal.                                                   *)
Signal ==
  /\ gStop' = TRUE
  /\ UNCHANGED <<stopReq, running, rtVars, cmd, pub, rec, mainVars>>

MainWakes ==
  /\ main = "wait"
  /\ gStop \/ ~running
  /\ main' = "ask"
  /\ UNCHANGED <<flags, rtVars, cmd, pub, rec, recDown>>

AsksToStop ==
  /\ main = "ask"
  /\ stopReq' = TRUE
  /\ main' = "joinRt"
  /\ UNCHANGED <<gStop, running, rtVars, cmd, pub, rec, recDown>>

(* Mutant of JoinsRt: the other threads are not told when the loop has ended *)
(* by itself.                                                                *)
JoinsRtOnly ==
  /\ main = "joinRt"
  /\ rt = "gone"
  /\ main' = "joinRec"
  /\ UNCHANGED <<flags, rtVars, cmd, pub, rec, recDown>>

JoinsRt ==
  /\ main = "joinRt"
  /\ rt = "gone"
  /\ gStop' = TRUE
  /\ main' = "joinRec"
  /\ UNCHANGED <<stopReq, running, rtVars, cmd, pub, rec, recDown>>

(* Mutant of JoinsRec: the manager is shut down while it is being served. *)
ShutsDownEarly ==
  /\ main = "joinRec"
  /\ main' = "joinRest"
  /\ recDown' = TRUE
  /\ UNCHANGED <<flags, rtVars, cmd, pub, rec>>

JoinsRec ==
  /\ main = "joinRec"
  /\ rec = "done"
  /\ main' = "joinRest"
  /\ recDown' = TRUE
  /\ UNCHANGED <<flags, rtVars, cmd, pub, rec>>

Exits ==
  /\ main = "joinRest"
  /\ cmd = "done"
  /\ pub = "done"
  /\ main' = "exited"
  /\ UNCHANGED <<flags, rtVars, cmd, pub, rec, recDown>>

Main == MainWakes \/ AsksToStop \/ JoinsRt \/ JoinsRec \/ Exits

Exited == main = "exited" /\ UNCHANGED daemonVars

DaemonNext ==
  \/ RtThread \/ Abort
  \/ CmdThread \/ CmdReceive
  \/ PubThread
  \/ RecService \/ RecReceive \/ RecReply \/ RecFails
  \/ Signal
  \/ Main
  \/ Exited

(* The threads keep running, sockets and sleeps time out, and requests to    *)
(* the RecordingManager return, as CallsReturn of Recording says; nothing    *)
(* makes a client send, receive or disconnect, or an exception be thrown.    *)
DaemonFairness ==
  /\ WF_daemonVars(RtThread)
  /\ WF_daemonVars(CmdThread)
  /\ WF_daemonVars(PubThread)
  /\ WF_daemonVars(RecService)
  /\ WF_daemonVars(Main)

DaemonSpec == DaemonInit /\ [][DaemonNext]_daemonVars /\ DaemonFairness

------------------------------------------------------------------------------
DaemonTypeOK ==
  /\ gStop \in BOOLEAN /\ stopReq \in BOOLEAN /\ running \in BOOLEAN
  /\ aborted \in BOOLEAN /\ recDown \in BOOLEAN
  /\ rt \in {"tick", "end", "leave", "gone"}
  /\ cmd \in {"head", "recv", "parse", "done"}
  /\ pub \in {"head", "send", "done"}
  /\ rec \in {"head", "recv", "manage", "reply", "done"}
  /\ main \in {"wait", "ask", "joinRt", "joinRec", "joinRest", "exited"}

(* recording.shutdown() finds the manager to itself: neither a tick nor a    *)
(* request can enter it any more.  Recording relies on this in Shutdown.     *)
ShutdownIsLast == recDown => rt = "gone" /\ rec = "done"

(* Once asked to stop, by a signal or by a command, the daemon exits, and so *)
(* it does when the real-time loop has ended with an exception.              *)
StopEnds == (gStop \/ aborted) ~> main = "exited"
==============================================================================
