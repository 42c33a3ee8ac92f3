---------------------------- MODULE CommandMailbox ----------------------------
(***************************************************************************)
(* What the daemon promises of its motion commands: the newest wins.  What *)
(* is in effect is the live pose the daemon was started to hold or a       *)
(* command that was the newest when it was taken; nothing older, and no    *)
(* live pose, ever replaces a command that has been received.              *)
(***************************************************************************)
CONSTANTS
  Command, \* what a client can ask for, each with a number of its own
  Anchor,  \* the hold on the live pose of a daemon started in a mode
  Nothing  \* before the first command

VARIABLES
  newest, \* the newest command received
  effect  \* what is in effect

mvars == <<newest, effect>>

Init == newest = Nothing /\ effect = Nothing

Receive(c) == newest' = c /\ UNCHANGED effect

Take == newest # Nothing /\ effect' = newest /\ UNCHANGED newest

HoldLivePose ==
  /\ newest = Nothing
  /\ effect = Nothing
  /\ effect' = Anchor
  /\ UNCHANGED newest

Next ==
  \/ \E c \in Command : Receive(c)
  \/ Take
  \/ HoldLivePose

Spec == Init /\ [][Next]_mvars
==============================================================================
