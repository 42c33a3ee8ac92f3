------------------------------ MODULE RingQueue ------------------------------
(***************************************************************************)
(* What a RingLog promises its two users: a bounded FIFO queue of frames   *)
(* that refuses, and counts, a frame offered when it is full.  RingLog is  *)
(* shown to implement this specification; Recording is built on it.        *)
(***************************************************************************)
EXTENDS Naturals, Sequences

CONSTANTS
  Frame,    \* the frames a producer may offer
  Capacity, \* slots of the ring; it holds one frame fewer
  NoFrame   \* nothing taken yet

VARIABLES
  queue,    \* frames accepted and not yet taken, oldest first
  dropped,  \* frames refused since the last Clear
  taken     \* the frame most recently handed to the consumer

qvars == <<queue, dropped, taken>>

Full == Len(queue) = Capacity - 1

Init ==
  /\ queue = <<>>
  /\ dropped = 0
  /\ taken = NoFrame

(* push() accepts the frame. *)
Accept(f) ==
  /\ ~Full
  /\ queue' = Append(queue, f)
  /\ UNCHANGED <<dropped, taken>>

(* push() finds the ring full and counts the drop. *)
Refuse ==
  /\ Full
  /\ dropped' = dropped + 1
  /\ UNCHANGED <<queue, taken>>

(* pop() hands over the oldest frame. *)
Take ==
  /\ queue # <<>>
  /\ taken' = Head(queue)
  /\ queue' = Tail(queue)
  /\ UNCHANGED dropped

(* reset(), with both users quiescent. *)
Clear ==
  /\ queue' = <<>>
  /\ dropped' = 0
  /\ UNCHANGED taken

Next ==
  \/ \E f \in Frame : Accept(f)
  \/ Refuse
  \/ Take
  \/ Clear

Spec == Init /\ [][Next]_qvars
==============================================================================
