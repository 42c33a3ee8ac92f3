------------------------------- MODULE RingLog -------------------------------
(***************************************************************************)
(* The single-producer single-consumer ring of ring_log.hpp, step by step: *)
(* each load or store of the atomics head_, tail_ and dropped_ is a step,  *)
(* and the copy of a frame into or out of its slot takes two, so that the  *)
(* two threads can be found in the same slot at the same time.  Loads and  *)
(* stores interleave sequentially: each index has one writer and its       *)
(* release store publishes the slot its acquire load hands over.           *)
(***************************************************************************)
EXTENDS Integers, Sequences

CONSTANTS
  Frame,     \* what the real-time loop may push
  Capacity,  \* slots, a power of two of at least 2
  Torn,      \* a slot or a copy caught half way through
  MaxDropped \* bound on dropped, for model checking

ASSUME CapacityAssumption == Capacity \in Nat /\ Capacity >= 2
ASSUME TornAssumption == Torn \notin Frame
ASSUME MaxDroppedAssumption == MaxDropped \in Nat

VARIABLES
  buffer,   \* buffer_, the slots
  head,     \* head_, written by the producer only
  tail,     \* tail_, written by the consumer only
  dropped,  \* dropped_
  ppc,      \* where the producer is inside push()
  frame,    \* the producer's argument of push()
  cpc,      \* where the consumer is inside pop() or size()
  out,      \* the consumer's copy of a slot
  seen,     \* the head_ the consumer's size() loaded
  taken,    \* the frame the last successful pop() returned
  sized     \* the result of the last size()

producerVars == <<ppc, frame>>
consumerVars == <<cpc, out, seen, taken, sized>>
vars == <<buffer, head, tail, dropped, producerVars, consumerVars>>

Slot == 0 .. Capacity - 1

(* (i + 1) & mask_ *)
Succ(i) == (i + 1) % Capacity

(* (h - t) & mask_ *)
Distance(h, t) == (h - t) % Capacity

(* The slots between tail_ and head_, oldest first. *)
Contents == [i \in 1 .. Distance(head, tail) |-> buffer[(tail + i - 1) % Capacity]]

Init ==
  /\ buffer = [i \in Slot |-> Torn]
  /\ head = 0
  /\ tail = 0
  /\ dropped = 0
  /\ ppc = "idle"
  /\ frame = Torn
  /\ cpc = "idle"
  /\ out = Torn
  /\ seen = 0
  /\ taken = Torn
  /\ sized = 0

------------------------------------------------------------------------------
(* The producer. *)

(* Mutant of PushCheck: the ring is never found full. *)
PushUnchecked(f) ==
  /\ ppc = "idle"
  /\ frame' = f
  /\ ppc' = "copy"
  /\ UNCHANGED <<buffer, head, tail, dropped, consumerVars>>

(* push(f) up to the comparison with tail_, which decides its outcome. *)
PushCheck(f) ==
  /\ ppc = "idle"
  /\ dropped < MaxDropped
  /\ frame' = f
  /\ ppc' = IF Succ(head) = tail THEN "drop" ELSE "copy"
  /\ UNCHANGED <<buffer, head, tail, dropped, consumerVars>>

(* Mutant of CountDrop: the frame is lost without a trace. *)
ForgetDrop ==
  /\ ppc = "drop"
  /\ ppc' = "idle"
  /\ UNCHANGED <<buffer, head, tail, dropped, frame, consumerVars>>

CountDrop ==
  /\ ppc = "drop"
  /\ dropped' = dropped + 1
  /\ ppc' = "idle"
  /\ UNCHANGED <<buffer, head, tail, frame, consumerVars>>

CopyInBegin ==
  /\ ppc = "copy"
  /\ buffer' = [buffer EXCEPT ![head] = Torn]
  /\ ppc' = "copying"
  /\ UNCHANGED <<head, tail, dropped, frame, consumerVars>>

CopyInEnd ==
  /\ ppc = "copying"
  /\ buffer' = [buffer EXCEPT ![head] = frame]
  /\ ppc' = "publish"
  /\ UNCHANGED <<head, tail, dropped, frame, consumerVars>>

(* The release store of head_. *)
Publish ==
  /\ ppc = "publish"
  /\ head' = Succ(head)
  /\ ppc' = "idle"
  /\ UNCHANGED <<buffer, tail, dropped, frame, consumerVars>>

------------------------------------------------------------------------------
(* The consumer. *)

(* pop() up to the comparison with head_; an empty ring returns at once. *)
PopCheck ==
  /\ cpc = "idle"
  /\ tail # head
  /\ cpc' = "read"
  /\ UNCHANGED <<buffer, head, tail, dropped, producerVars, out, seen, taken, sized>>

CopyOutBegin ==
  /\ cpc = "read"
  /\ out' = Torn
  /\ cpc' = "reading"
  /\ UNCHANGED <<buffer, head, tail, dropped, producerVars, seen, taken, sized>>

CopyOutEnd ==
  /\ cpc = "reading"
  /\ out' = buffer[tail]
  /\ cpc' = "release"
  /\ UNCHANGED <<buffer, head, tail, dropped, producerVars, seen, taken, sized>>

(* The release store of tail_, after which pop() returns the frame. *)
Release ==
  /\ cpc = "release"
  /\ tail' = Succ(tail)
  /\ taken' = out
  /\ cpc' = "idle"
  /\ UNCHANGED <<buffer, head, dropped, producerVars, out, seen, sized>>

(* size() on the consumer's side loads head_ and then its own tail_. *)
SizeLoadHead ==
  /\ cpc = "idle"
  /\ seen' = head
  /\ cpc' = "size"
  /\ UNCHANGED <<buffer, head, tail, dropped, producerVars, out, taken, sized>>

(* Mutant of SizeLoadTail: the difference is taken the wrong way round. *)
SizeSwapped ==
  /\ cpc = "size"
  /\ sized' = Distance(tail, seen)
  /\ cpc' = "idle"
  /\ UNCHANGED <<buffer, head, tail, dropped, producerVars, out, seen, taken>>

SizeLoadTail ==
  /\ cpc = "size"
  /\ sized' = Distance(seen, tail)
  /\ cpc' = "idle"
  /\ UNCHANGED <<buffer, head, tail, dropped, producerVars, out, seen, taken>>

------------------------------------------------------------------------------
(* reset(), which its caller makes between recordings, both sides quiescent *)
(* (Recording shows that RecordingManager keeps this condition).            *)
Reset ==
  /\ ppc = "idle"
  /\ cpc = "idle"
  /\ head' = 0
  /\ tail' = 0
  /\ dropped' = 0
  /\ UNCHANGED <<buffer, producerVars, consumerVars>>

Producer ==
  \/ \E f \in Frame : PushCheck(f)
  \/ CountDrop
  \/ CopyInBegin
  \/ CopyInEnd
  \/ Publish

Consumer ==
  \/ PopCheck
  \/ CopyOutBegin
  \/ CopyOutEnd
  \/ Release
  \/ SizeLoadHead
  \/ SizeLoadTail

Next == Producer \/ Consumer \/ Reset

Spec == Init /\ [][Next]_vars

------------------------------------------------------------------------------
TypeOK ==
  /\ buffer \in [Slot -> Frame \cup {Torn}]
  /\ head \in Slot
  /\ tail \in Slot
  /\ dropped \in Nat
  /\ ppc \in {"idle", "drop", "copy", "copying", "publish"}
  /\ frame \in Frame \cup {Torn}
  /\ cpc \in {"idle", "read", "reading", "release", "size"}
  /\ out \in Frame \cup {Torn}
  /\ seen \in Slot
  /\ taken \in Frame \cup {Torn}
  /\ sized \in 0 .. Capacity - 1

Writing == ppc \in {"copy", "copying", "publish"}
Reading == cpc \in {"read", "reading", "release"}

(* The producer is never inside a slot the consumer is copying from: the one *)
(* slot the ring gives up and the order of copy and store in push() and pop()*)
(* are what keeps the two threads apart without a lock.                      *)
SlotExclusive == Writing /\ Reading => head # tail

(* No frame a pop() copies out is torn, whatever the producer is doing.      *)
NoTornFrame == cpc = "release" => out \in Frame

(* size() taken on the consumer's side never counts a frame that is not      *)
(* there, so the writer's last loop, which trusts it, never waits for one.   *)
SizeIsAvailable ==
  [][cpc = "size" /\ cpc' = "idle" => sized' <= Len(Contents')]_vars

(* The inductive invariant.  The slot under the producer's hands stays free   *)
(* and the one under the consumer's stays occupied, every occupied slot holds *)
(* a whole frame, and the frames counted by size() can only become more.      *)
WriterHasRoom == Writing => Succ(head) # tail
ReaderHasFrame == Reading => head # tail
OccupiedSlotsWhole ==
  \A i \in Slot : Distance(i, tail) < Distance(head, tail) => buffer[i] \in Frame
CopiesFaithful ==
  /\ ppc # "idle" => frame \in Frame
  /\ ppc = "publish" => buffer[head] = frame
  /\ cpc = "release" => out = buffer[tail]
SizeIsLowerBound == cpc = "size" => Distance(seen, tail) <= Distance(head, tail)

IInv ==
  /\ TypeOK
  /\ WriterHasRoom
  /\ ReaderHasFrame
  /\ OccupiedSlotsWhole
  /\ CopiesFaithful
  /\ SizeIsLowerBound

(* The ring implements the bounded queue: frames come out once each, in the  *)
(* order they went in; a frame is refused only if the ring was full, and the *)
(* refusals are counted.                                                     *)
Queue == INSTANCE RingQueue WITH
  NoFrame <- Torn,
  queue <- Contents,
  dropped <- dropped + (IF ppc = "drop" THEN 1 ELSE 0)

ImplementsQueue == Queue!Spec
==============================================================================
