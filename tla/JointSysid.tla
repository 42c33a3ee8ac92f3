----------------------------- MODULE JointSysid -----------------------------
(* examples/joint_sysid.py: a process of its own that excites the joints    *)
(* along a trajectory, one command in each period and never two to catch    *)
(* up, and writes down how that ended.                                      *)
EXTENDS RobotClient

CONSTANTS
    Period,        \* 1 / rate
    Total,         \* length of the trajectory
    MaxLateness,
    StaleAfter,
    MaxSignals     \* bound on SIGINT and SIGTERM

Statuses == {"initializing", "preview", "prepared", "running", "aborted", "completed", "failed"}
Requests == {"attempted", "requested_unconfirmed", "request_failed"}   \* metadata["termination"]

ASSUME JointSysidAssumption ==
    /\ Period \in Nat \ {0}
    /\ {Total, MaxLateness, StaleAfter, MaxSignals} \subseteq Nat
    /\ None \notin Statuses \union Requests

VARIABLES
    sysid,
    heard     \* what of the last state only this program looks at

Unheard == [joint |-> FALSE, err |-> FALSE, pos |-> None, at |-> -1]

SysidUnused == [pc |-> "unused", exit |-> None]

(* status, attempted and termination are metadata; disk is its status in    *)
(* metadata.json.                                                           *)
SysidStarts(options) ==
    [pc |-> "begin", exit |-> None, execute |-> options.execute, finish |-> options.finish,
     status |-> "initializing", disk |-> None, attempted |-> FALSE, termination |-> None, whole |-> FALSE,
     anchor |-> None, origin |-> 0, slot |-> 0, deadline |-> 0, snapshot |-> Unheard,
     at |-> None, sentAt |-> None, last |-> None, until |-> 0, signals |-> 0, cut |-> FALSE]

SysidOptions == {[execute |-> TRUE, finish |-> "hold"], [execute |-> TRUE, finish |-> "terminate"],
                 [execute |-> FALSE, finish |-> "hold"]}

Is(pc) == sysid.pc = pc

Robots == <<cache, open, link, seen>>

To(pc) == sysid' = [sysid EXCEPT !.pc = pc]

(* Where an exception takes the program: inside run_live() to its handler,  *)
(* from there to the last write, and from that to the handler of main().    *)
Handler ==
    CASE sysid.pc \in {"ready", "recheck", "sleep", "check", "send", "sent", "finish", "finishing", "complete"} -> "abort"
      [] sysid.pc \in {"abort", "aborting"} -> "write"
      [] OTHER -> "caught"

Raised == [sysid EXCEPT !.pc = Handler, !.status = IF Handler = "abort" THEN "aborted" ELSE @]

Raises == sysid' = Raised

(* metadata.json is replaced as a whole, or not at all. *)
Writes(status, pc) == sysid' = [sysid EXCEPT !.status = status, !.disk = status, !.pc = pc]

---------------------------------------------------------------------------
(* main(): a new directory and its first record, then the preview or the    *)
(* live run.                                                                *)

Begins ==
    /\ Is("begin")
    /\ \/ Writes("initializing", IF sysid.execute THEN "connect" ELSE "preview")
       \/ Raises
    /\ UNCHANGED Robots

Previews ==
    /\ Is("preview")
    /\ \/ sysid' = [sysid EXCEPT !.status = "preview", !.disk = "preview", !.pc = "exited", !.exit = 0]
       \/ Raises
    /\ UNCHANGED Robots

SysidConnects == Is("connect") /\ Connect /\ To("ready")

(* Receive, with the controller and the time of the reception. *)
Hears ==
    /\ Receive
    /\ heard' = [joint |-> effect.mode = "joint_impedance", err |-> err, pos |-> seen'.pos, at |-> now]

(* healthy_state(): a recent state of a daemon in joint impedance, without  *)
(* an error; speed and joint limits are left to Unwell.                     *)
Healthy(s) ==
    /\ s.at >= 0 /\ now - s.at <= StaleAfter
    /\ s.joint
    /\ ~s.err

(* Any other reason to refuse: joint limits, speed, a trajectory that does  *)
(* not fit, a file that cannot be written.                                  *)
Unwell == Raises

TakesAnchor ==
    /\ Is("ready")
    /\ \/ /\ Healthy(heard)
          /\ sysid' = [sysid EXCEPT !.anchor = heard.pos, !.status = "prepared", !.disk = "prepared", !.pc = "recheck"]
       \/ Unwell
    /\ UNCHANGED Robots

(* The preview took its time: the arm must be well and where it was. *)
Rechecks ==
    /\ Is("recheck")
    /\ \/ /\ Healthy(heard) /\ heard.pos = sysid.anchor
          /\ sysid' = [sysid EXCEPT !.status = "running", !.disk = "running", !.pc = "sleep",
                                    !.origin = now, !.deadline = now]
       \/ Unwell
    /\ UNCHANGED Robots

---------------------------------------------------------------------------
(* stream().                                                                *)

Wakes ==
    /\ Is("sleep") /\ now >= sysid.deadline
    /\ sysid' = [sysid EXCEPT !.snapshot = heard, !.pc = "check"]
    /\ UNCHANGED Robots

InTime == now - sysid.deadline <= MaxLateness

(* Mutant of Attempted: an attempt is not written down. *)
Unattempted(s) == s

Attempted(s) == [s EXCEPT !.attempted = TRUE]

ChecksState ==
    /\ Is("check")
    /\ \/ /\ InTime /\ Healthy(sysid.snapshot)
          /\ sysid' = [Attempted(sysid) EXCEPT !.last = sysid.sentAt, !.at = now, !.pc = "send", !.snapshot = Unheard]
       \/ Unwell
    /\ UNCHANGED Robots

(* The send may time out; otherwise the command is in the socket. *)
SendsTarget ==
    /\ Is("send")
    /\ \/ SendJoint(None, [K |-> "asked"], sysid.anchor) /\ sysid' = [sysid EXCEPT !.sentAt = now, !.pc = "sent"]
       \/ Unwell /\ UNCHANGED <<cache, link>>
    /\ UNCHANGED <<open, seen>>

Over == sysid.at - sysid.origin >= Total

(* Mutant of NextSlot: slots that have passed are caught up. *)
EverySlot == sysid.slot + 1

(* Slots that have passed are skipped. *)
NextSlot ==
    LET reached == (sysid.sentAt - sysid.origin) \div Period
    IN  IF sysid.slot > reached THEN sysid.slot + 1 ELSE reached + 1

Sent ==
    /\ Is("sent")
    /\ \/ /\ sysid.sentAt - sysid.at <= MaxLateness
          /\ \/ Over /\ sysid' = [sysid EXCEPT !.whole = TRUE, !.pc = "finish"]
             \/ ~Over /\ sysid' = [sysid EXCEPT !.slot = NextSlot, !.deadline = sysid.origin + NextSlot * Period, !.pc = "sleep"]
       \/ Unwell
    /\ UNCHANGED Robots

---------------------------------------------------------------------------
(* How it ends.  request_termination() sleeps so that its command leaves    *)
(* the socket before close(), and reports a failure instead of raising it.  *)

RequestsTermination(pc) ==
    /\ \/ Terminate /\ sysid' = [sysid EXCEPT !.termination = "attempted", !.until = now + Flush, !.pc = pc]
       \/ UNCHANGED <<cache, link>> /\ sysid' = [sysid EXCEPT !.termination = "request_failed",
                                      !.status = "aborted", !.pc = IF pc = "finishing" THEN "abort" ELSE "write"]
    /\ UNCHANGED <<open, seen>>

Requested(pc) ==
    /\ now >= sysid.until
    /\ sysid' = [sysid EXCEPT !.termination = "requested_unconfirmed", !.pc = pc]
    /\ UNCHANGED Robots

Finishes ==
    /\ Is("finish")
    /\ IF sysid.finish = "terminate" THEN RequestsTermination("finishing") ELSE To("complete") /\ UNCHANGED Robots

FinishRequested == Is("finishing") /\ Requested("complete")

Completes == Is("complete") /\ sysid' = [sysid EXCEPT !.status = "completed", !.pc = "write"] /\ UNCHANGED Robots

Aborting ==
    /\ Is("abort")
    /\ IF sysid.attempted THEN RequestsTermination("aborting") ELSE To("write") /\ UNCHANGED Robots

AbortRequested == Is("aborting") /\ Requested("write")

LastWrite ==
    /\ Is("write")
    /\ \/ Writes(sysid.status, IF sysid.status = "completed" THEN "close" ELSE "caught")
       \/ Raises
    /\ UNCHANGED Robots

Closes ==
    /\ Is("close")
    /\ Close
    /\ sysid' = [sysid EXCEPT !.pc = "exited", !.exit = 0]

(* The handler of main(), which is reached with the sockets closed. *)
Catches ==
    /\ Is("caught")
    /\ IF open THEN Close ELSE UNCHANGED Robots
    /\ \/ sysid.status = "aborted" /\ sysid' = [sysid EXCEPT !.pc = "exited", !.exit = 1]
       \/ /\ sysid.status # "aborted"
          /\ \E disk \in {"failed", sysid.disk} :
               sysid' = [sysid EXCEPT !.status = "failed", !.disk = disk, !.pc = "exited", !.exit = 1]

(* A second exception in the handler of the first cuts it short. *)
Signalled ==
    /\ sysid.pc \notin {"unused", "exited", "caught"} /\ sysid.signals < MaxSignals
    /\ sysid' = [Raised EXCEPT !.signals = @ + 1, !.cut = @ \/ Is("abort")]
    /\ UNCHANGED Robots

SysidNext ==
    \/ Begins \/ Previews \/ SysidConnects \/ TakesAnchor \/ Rechecks
    \/ Wakes \/ ChecksState \/ SendsTarget \/ Sent
    \/ Finishes \/ FinishRequested \/ Completes
    \/ Aborting \/ AbortRequested \/ LastWrite \/ Closes \/ Catches
    \/ Signalled

---------------------------------------------------------------------------
(* "Stream against wall time; abort on pauses instead of catching up in     *)
(* bursts" (joint_sysid.py:241): a command of the stream is only attempted  *)
(* after the instant of the one before, and so soon after it that the pause *)
(* is no longer than a period and the lateness allowed.                     *)
SysidKeepsPace ==
    sysid.pc = "send" /\ sysid.last # None =>
        /\ sysid.at > sysid.last
        /\ sysid.at - sysid.last <= Period + MaxLateness

(* "any runtime fault attempts termination" (joint_sysid.py:367), and the   *)
(* record is true: when the program has exited after it tried to move the   *)
(* arm, then either the trajectory was streamed to its end or a termination *)
(* was attempted, also when signals came, unless one came before the        *)
(* handler of an error could attempt it; what was requested and not         *)
(* interrupted has ended the daemon; exit status 0 and a record of  *)
(* completion are given together, and only for a whole trajectory or a      *)
(* preview.                                                                 *)
RecordTellsHowItEnded ==
    sysid.pc = "exited" =>
        /\ sysid.sentAt # None /\ ~sysid.cut => sysid.whole \/ sysid.termination # None
        /\ sysid.termination = "requested_unconfirmed" => effect.mode = "ended"
        /\ sysid.exit = 0 => sysid.disk \in {"completed", "preview"}
        /\ sysid.disk = "completed" => sysid.whole /\ (sysid.finish = "terminate" => sysid.termination = "requested_unconfirmed")
=============================================================================
