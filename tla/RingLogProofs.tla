---------------------------- MODULE RingLogProofs ----------------------------
(***************************************************************************)
(* Proofs about RingLog, for every capacity and every set of frames: the   *)
(* inductive invariant, the safety properties that follow from it, and     *)
(* that the ring implements the bounded queue of RingQueue.                *)
(***************************************************************************)
EXTENDS RingLog, SequenceTheorems, TLAPS

------------------------------------------------------------------------------
(* Arithmetic of the indices.                                                *)

(* Advancing an index wraps it at the capacity and stays within the slots.   *)
LEMMA SuccValue ==
  ASSUME NEW i \in Slot
  PROVE  /\ Succ(i) = IF i + 1 = Capacity THEN 0 ELSE i + 1
         /\ Succ(i) \in Slot
BY CapacityAssumption DEF Succ, Slot

(* The masked difference of two indices is the way from one to the other.    *)
LEMMA DistanceValue ==
  ASSUME NEW h \in Slot, NEW t \in Slot
  PROVE  /\ Distance(h, t) = IF h >= t THEN h - t ELSE h - t + Capacity
         /\ Distance(h, t) \in Slot
BY CapacityAssumption DEF Distance, Slot

(* The k-th slot from an index, wrapped, lies k slots away from it.          *)
LEMMA WrapValue ==
  ASSUME NEW t \in Slot, NEW k \in Slot
  PROVE  /\ (t + k) % Capacity = IF t + k < Capacity THEN t + k ELSE t + k - Capacity
         /\ (t + k) % Capacity \in Slot
         /\ Distance((t + k) % Capacity, t) = k
BY CapacityAssumption DEF Slot, Distance

(* Publishing makes the ring one longer and the new slot its last.           *)
LEMMA Lengthen ==
  ASSUME NEW h \in Slot, NEW t \in Slot, Succ(h) # t
  PROVE  /\ Distance(Succ(h), t) = Distance(h, t) + 1
         /\ \A i \in Slot : Distance(i, t) < Distance(Succ(h), t)
                             <=> Distance(i, t) < Distance(h, t) \/ i = h
<1>1. Succ(h) \in Slot /\ Succ(h) = IF h + 1 = Capacity THEN 0 ELSE h + 1
  BY SuccValue
<1>2. Distance(Succ(h), t) = Distance(h, t) + 1
  <2>1. Distance(Succ(h), t) = IF Succ(h) >= t THEN Succ(h) - t ELSE Succ(h) - t + Capacity
    BY <1>1, DistanceValue
  <2>2. Distance(h, t) = IF h >= t THEN h - t ELSE h - t + Capacity
    BY DistanceValue
  <2> QED BY <1>1, <2>1, <2>2, CapacityAssumption DEF Slot
<1>3. ASSUME NEW i \in Slot
      PROVE  Distance(i, t) < Distance(Succ(h), t)
                <=> Distance(i, t) < Distance(h, t) \/ i = h
  <2>1. Distance(i, t) = IF i >= t THEN i - t ELSE i - t + Capacity
    BY DistanceValue
  <2>2. Distance(h, t) = IF h >= t THEN h - t ELSE h - t + Capacity
    BY DistanceValue
  <2> QED BY <1>2, <2>1, <2>2, CapacityAssumption DEF Slot
<1> QED BY <1>2, <1>3

(* Releasing makes the ring one shorter and drops its first slot.            *)
LEMMA Shorten ==
  ASSUME NEW h \in Slot, NEW t \in Slot, h # t
  PROVE  /\ Distance(h, Succ(t)) = Distance(h, t) - 1
         /\ Distance(h, t) \in 1 .. Capacity - 1
         /\ \A i \in Slot : Distance(i, Succ(t)) < Distance(h, Succ(t))
                             => Distance(i, t) < Distance(h, t)
<1>1. Succ(t) \in Slot /\ Succ(t) = IF t + 1 = Capacity THEN 0 ELSE t + 1
  BY SuccValue
<1>2. /\ Distance(h, Succ(t)) = Distance(h, t) - 1
      /\ Distance(h, t) \in 1 .. Capacity - 1
  <2>1. Distance(h, Succ(t)) = IF h >= Succ(t) THEN h - Succ(t) ELSE h - Succ(t) + Capacity
    BY <1>1, DistanceValue
  <2>2. Distance(h, t) = IF h >= t THEN h - t ELSE h - t + Capacity
    BY DistanceValue
  <2> QED BY <1>1, <2>1, <2>2, CapacityAssumption DEF Slot
<1>3. ASSUME NEW i \in Slot, Distance(i, Succ(t)) < Distance(h, Succ(t))
          PROVE  Distance(i, t) < Distance(h, t)
  <2>1. Distance(i, Succ(t)) = IF i >= Succ(t) THEN i - Succ(t) ELSE i - Succ(t) + Capacity
    BY <1>1, DistanceValue
  <2>2. Distance(i, t) = IF i >= t THEN i - t ELSE i - t + Capacity
    BY DistanceValue
  <2> QED BY <1>1, <1>2, <1>3, <2>1, <2>2, CapacityAssumption DEF Slot
<1> QED BY <1>2, <1>3

(* The ring is full exactly when the next head would meet the tail.          *)
LEMMA FullValue ==
  ASSUME NEW h \in Slot, NEW t \in Slot
  PROVE  Succ(h) = t <=> Distance(h, t) = Capacity - 1
<1>1. Succ(h) = IF h + 1 = Capacity THEN 0 ELSE h + 1
  BY SuccValue
<1>2. Distance(h, t) = IF h >= t THEN h - t ELSE h - t + Capacity
  BY DistanceValue
<1> QED BY <1>1, <1>2, CapacityAssumption DEF Slot
------------------------------------------------------------------------------
(* Every state of RingLog satisfies the inductive invariant.                 *)

LEMMA InitInvariant == Init => IInv
<1> SUFFICES ASSUME Init PROVE IInv
  OBVIOUS
<1>1. TypeOK
  BY CapacityAssumption DEF Init, TypeOK, Slot
<1>2. Distance(head, tail) = 0
  BY CapacityAssumption DEF Init, Distance
<1>3. OccupiedSlotsWhole
  <2> SUFFICES ASSUME NEW i \in Slot PROVE ~(Distance(i, tail) < Distance(head, tail))
    BY DEF OccupiedSlotsWhole
  <2>1. Distance(i, tail) \in Slot
    BY <1>1, DistanceValue DEF TypeOK
  <2> QED BY <1>2, <2>1 DEF Slot
<1> QED
  BY <1>1, <1>3 DEF Init, IInv, WriterHasRoom, ReaderHasFrame, Writing, Reading,
     CopiesFaithful, SizeIsLowerBound

(* Each step of the producer keeps the invariant.                            *)
LEMMA ProducerInvariant ==
  ASSUME IInv, Producer
  PROVE  IInv'
<1> USE DEF IInv
<1>1. ASSUME NEW f \in Frame, PushCheck(f) PROVE IInv'
  BY <1>1 DEF PushCheck, consumerVars, TypeOK, WriterHasRoom, ReaderHasFrame, Writing,
     Reading, OccupiedSlotsWhole, CopiesFaithful, SizeIsLowerBound
<1>2. CASE CountDrop
  BY <1>2 DEF CountDrop, consumerVars, TypeOK, WriterHasRoom, ReaderHasFrame, Writing,
     Reading, OccupiedSlotsWhole, CopiesFaithful, SizeIsLowerBound
<1>3. CASE CopyInBegin
  <2>1. TypeOK' /\ WriterHasRoom' /\ ReaderHasFrame' /\ SizeIsLowerBound'
    BY <1>3 DEF CopyInBegin, consumerVars, TypeOK, WriterHasRoom, ReaderHasFrame, Writing,
       Reading, SizeIsLowerBound
  <2>2. OccupiedSlotsWhole'
    <3>1. Distance(head, tail) \in Nat
      BY DistanceValue DEF TypeOK, Slot
    <3> QED BY <1>3, <3>1 DEF CopyInBegin, OccupiedSlotsWhole, TypeOK
  <2>3. CopiesFaithful'
    BY <1>3 DEF CopyInBegin, consumerVars, CopiesFaithful, TypeOK, ReaderHasFrame, Reading
  <2> QED BY <2>1, <2>2, <2>3
<1>4. CASE CopyInEnd
  <2>1. TypeOK' /\ WriterHasRoom' /\ ReaderHasFrame' /\ SizeIsLowerBound'
    BY <1>4 DEF CopyInEnd, consumerVars, TypeOK, WriterHasRoom, ReaderHasFrame, Writing,
       Reading, SizeIsLowerBound
  <2>2. OccupiedSlotsWhole'
    <3>1. Distance(head, tail) \in Nat
      BY DistanceValue DEF TypeOK, Slot
    <3> QED BY <1>4, <3>1 DEF CopyInEnd, OccupiedSlotsWhole, TypeOK
  <2>3. CopiesFaithful'
    BY <1>4 DEF CopyInEnd, consumerVars, CopiesFaithful, TypeOK, ReaderHasFrame, Reading
  <2> QED BY <2>1, <2>2, <2>3
<1>5. CASE Publish
  <2> USE <1>5 DEF Publish, consumerVars
  <2>1. head \in Slot /\ tail \in Slot /\ Succ(head) # tail /\ Succ(head) \in Slot
    BY SuccValue DEF TypeOK, WriterHasRoom, Writing
  <2>2. /\ Distance(Succ(head), tail) = Distance(head, tail) + 1
        /\ \A i \in Slot : Distance(i, tail) < Distance(Succ(head), tail)
                            <=> Distance(i, tail) < Distance(head, tail) \/ i = head
    BY <2>1, Lengthen
  <2>3. TypeOK'
    BY <2>1 DEF TypeOK
  <2>4. WriterHasRoom' /\ ReaderHasFrame' /\ CopiesFaithful'
    BY <2>1 DEF WriterHasRoom, ReaderHasFrame, CopiesFaithful, Writing, Reading
  <2>5. OccupiedSlotsWhole'
    BY <2>2 DEF OccupiedSlotsWhole, CopiesFaithful
  <2>6. SizeIsLowerBound'
    <3>1. Distance(head, tail) \in Nat /\ Distance(seen, tail) \in Nat
      BY <2>1, DistanceValue DEF TypeOK, Slot
    <3> QED BY <2>2, <3>1 DEF SizeIsLowerBound
  <2> QED BY <2>3, <2>4, <2>5, <2>6
<1> QED BY <1>1, <1>2, <1>3, <1>4, <1>5 DEF Producer

(* Each step of the consumer keeps the invariant.                            *)
LEMMA ConsumerInvariant ==
  ASSUME IInv, Consumer
  PROVE  IInv'
<1> USE DEF IInv
<1>1. CASE PopCheck
  BY <1>1 DEF PopCheck, producerVars, TypeOK, WriterHasRoom, ReaderHasFrame, Writing,
     Reading, OccupiedSlotsWhole, CopiesFaithful, SizeIsLowerBound
<1>2. CASE CopyOutBegin
  BY <1>2 DEF CopyOutBegin, producerVars, TypeOK, WriterHasRoom, ReaderHasFrame, Writing,
     Reading, OccupiedSlotsWhole, CopiesFaithful, SizeIsLowerBound
<1>3. CASE CopyOutEnd
  BY <1>3 DEF CopyOutEnd, producerVars, TypeOK, WriterHasRoom, ReaderHasFrame, Writing,
     Reading, OccupiedSlotsWhole, CopiesFaithful, SizeIsLowerBound
<1>4. CASE Release
  <2> USE <1>4 DEF Release, producerVars
  <2>1. head \in Slot /\ tail \in Slot /\ head # tail /\ Succ(tail) \in Slot
    BY SuccValue DEF TypeOK, ReaderHasFrame, Reading
  <2>2. \A i \in Slot : Distance(i, Succ(tail)) < Distance(head, Succ(tail))
                          => Distance(i, tail) < Distance(head, tail)
    BY <2>1, Shorten
  <2>3. TypeOK'
    BY <2>1 DEF TypeOK
  <2>4. WriterHasRoom'
    <3>1. Succ(tail) = Succ(head) => tail = head
      BY <2>1, SuccValue DEF Slot
    <3> QED BY <2>1, <3>1 DEF WriterHasRoom, Writing
  <2>5. ReaderHasFrame' /\ CopiesFaithful' /\ SizeIsLowerBound'
    BY DEF ReaderHasFrame, CopiesFaithful, SizeIsLowerBound, Reading
  <2>6. OccupiedSlotsWhole'
    BY <2>2 DEF OccupiedSlotsWhole
  <2> QED BY <2>3, <2>4, <2>5, <2>6
<1>5. CASE SizeLoadHead
  <2>1. Distance(head, tail) \in Nat
    BY DistanceValue DEF TypeOK, Slot
  <2> QED
    BY <1>5, <2>1 DEF SizeLoadHead, producerVars, TypeOK, WriterHasRoom, ReaderHasFrame,
       Writing, Reading, OccupiedSlotsWhole, CopiesFaithful, SizeIsLowerBound
<1>6. CASE SizeLoadTail
  <2>1. Distance(seen, tail) \in Slot
    BY DistanceValue DEF TypeOK
  <2> QED
    BY <1>6, <2>1 DEF SizeLoadTail, producerVars, TypeOK, WriterHasRoom, ReaderHasFrame,
       Writing, Reading, OccupiedSlotsWhole, CopiesFaithful, SizeIsLowerBound, Slot
<1> QED BY <1>1, <1>2, <1>3, <1>4, <1>5, <1>6 DEF Consumer

(* reset() between recordings keeps the invariant: an empty ring holds no    *)
(* frame and neither thread is in a slot.                                    *)
LEMMA ResetInvariant ==
  ASSUME IInv, Reset
  PROVE  IInv'
<1>1. TypeOK'
  BY CapacityAssumption DEF IInv, Reset, producerVars, consumerVars, TypeOK, Slot
<1>2. Distance(0, 0) = 0
  BY CapacityAssumption DEF Distance
<1>3. OccupiedSlotsWhole'
  <2> SUFFICES ASSUME NEW i \in Slot PROVE ~(Distance(i, 0) < Distance(0, 0))
    BY DEF OccupiedSlotsWhole, Reset
  <2>1. Distance(i, 0) \in Slot
    BY DistanceValue, CapacityAssumption DEF Slot
  <2> QED BY <1>2, <2>1 DEF Slot
<1> QED
  BY <1>1, <1>3 DEF IInv, Reset, producerVars, consumerVars, WriterHasRoom, ReaderHasFrame,
     Writing, Reading, CopiesFaithful, SizeIsLowerBound

LEMMA StepInvariant == IInv /\ [Next]_vars => IInv'
<1> SUFFICES ASSUME IInv, [Next]_vars PROVE IInv'
  OBVIOUS
<1>1. CASE UNCHANGED vars
  BY <1>1 DEF IInv, vars, producerVars, consumerVars, TypeOK, WriterHasRoom, ReaderHasFrame,
     Writing, Reading, OccupiedSlotsWhole, CopiesFaithful, SizeIsLowerBound
<1> QED
  BY <1>1, ProducerInvariant, ConsumerInvariant, ResetInvariant DEF Next

(* The inductive invariant, and with it type correctness, always holds.      *)
THEOREM InvariantHolds == Spec => []IInv
BY InitInvariant, StepInvariant, PTL DEF Spec

THEOREM TypeCorrect == Spec => []TypeOK
<1>1. IInv => TypeOK
  BY DEF IInv
<1> QED BY <1>1, InvariantHolds, PTL

(* Producer and consumer are never in the same slot.                         *)
THEOREM SlotExclusion == Spec => []SlotExclusive
<1>1. IInv => SlotExclusive
  BY DEF IInv, SlotExclusive, ReaderHasFrame
<1> QED BY <1>1, InvariantHolds, PTL

(* A completed copy out of the ring is a frame the producer pushed, whole.   *)
THEOREM NoTearing == Spec => []NoTornFrame
<1>1. IInv => NoTornFrame
  <2> SUFFICES ASSUME IInv, cpc = "release" PROVE out \in Frame
    BY DEF NoTornFrame
  <2>1. head \in Slot /\ tail \in Slot /\ head # tail
    BY DEF IInv, TypeOK, ReaderHasFrame, Reading
  <2>2. Distance(tail, tail) < Distance(head, tail)
    <3>1. Distance(tail, tail) = 0
      BY <2>1, DistanceValue DEF Slot
    <3> QED BY <2>1, <3>1, Shorten
  <2> QED BY <2>1, <2>2 DEF IInv, OccupiedSlotsWhole, CopiesFaithful
<1> QED BY <1>1, InvariantHolds, PTL

(* The size() of the consumer's side never promises a frame that is missing. *)
THEOREM SizeIsSafe == Spec => SizeIsAvailable
<1>1. ASSUME IInv, [Next]_vars
      PROVE  [cpc = "size" /\ cpc' = "idle" => sized' <= Len(Contents')]_vars
  <2> SUFFICES ASSUME cpc = "size", cpc' = "idle", ~UNCHANGED vars
               PROVE  sized' <= Len(Contents')
    OBVIOUS
  <2>1. SizeLoadTail
    BY <1>1 DEF Next, Producer, Consumer, PushCheck, CountDrop, CopyInBegin, CopyInEnd,
       Publish, PopCheck, CopyOutBegin, CopyOutEnd, Release, SizeLoadHead, Reset, consumerVars
  <2>2. Distance(head, tail) \in Nat /\ Distance(seen, tail) <= Distance(head, tail)
    BY <1>1, DistanceValue DEF IInv, TypeOK, SizeIsLowerBound, Slot
  <2>3. Contents' = Contents
    BY <2>1 DEF SizeLoadTail, Contents
  <2>4. Len(Contents) = Distance(head, tail)
    BY <2>2 DEF Contents
  <2> QED BY <2>1, <2>2, <2>3, <2>4 DEF SizeLoadTail
<1> QED BY <1>1, InvariantHolds, PTL DEF Spec, SizeIsAvailable

------------------------------------------------------------------------------
(* The ring implements the bounded queue.                                    *)

(* A sequence is the function of its elements.                               *)
LEMMA SequenceIsFunction ==
  ASSUME NEW S, NEW s \in Seq(S)
  PROVE  s = [i \in 1 .. Len(s) |-> s[i]]
BY LenProperties

(* The contents are a sequence as long as the indices are apart.             *)
LEMMA ContentsValue ==
  ASSUME IInv
  PROVE  /\ Distance(head, tail) \in Slot
         /\ Contents \in Seq(Frame)
         /\ Len(Contents) = Distance(head, tail)
         /\ DOMAIN Contents = 1 .. Distance(head, tail)
         /\ \A i \in 1 .. Distance(head, tail) :
              Contents[i] = buffer[(tail + i - 1) % Capacity]
<1>1. head \in Slot /\ tail \in Slot /\ Distance(head, tail) \in Slot
  BY DistanceValue DEF IInv, TypeOK
<1>2. Distance(head, tail) \in Nat
  BY <1>1 DEF Slot
<1>3. ASSUME NEW i \in 1 .. Distance(head, tail)
      PROVE  buffer[(tail + i - 1) % Capacity] \in Frame
  <2>1. i - 1 \in Slot /\ tail + (i - 1) = tail + i - 1 /\ i - 1 < Distance(head, tail)
    BY <1>1, CapacityAssumption DEF Slot
  <2>2. /\ (tail + i - 1) % Capacity \in Slot
        /\ Distance((tail + i - 1) % Capacity, tail) = i - 1
    BY <1>1, <2>1, WrapValue
  <2> QED BY <2>1, <2>2 DEF IInv, OccupiedSlotsWhole
<1> QED BY <1>1, <1>2, <1>3 DEF Contents

(* Two contents are the same sequence when slots agree where they count.     *)
LEMMA OtherSlotWritten ==
  ASSUME IInv, head' = head, tail' = tail,
         \A i \in Slot : i # head => buffer'[i] = buffer[i]
  PROVE  Contents' = Contents
<1>1. head \in Slot /\ tail \in Slot /\ Distance(head, tail) \in Slot
  BY DistanceValue DEF IInv, TypeOK
<1>2. ASSUME NEW i \in 1 .. Distance(head, tail)
      PROVE  buffer'[(tail + i - 1) % Capacity] = buffer[(tail + i - 1) % Capacity]
  <2>1. i - 1 \in Slot /\ tail + (i - 1) = tail + i - 1 /\ i - 1 < Distance(head, tail)
    BY <1>1, CapacityAssumption DEF Slot
  <2>2. /\ (tail + i - 1) % Capacity \in Slot
        /\ Distance((tail + i - 1) % Capacity, tail) = i - 1
    BY <1>1, <2>1, WrapValue
  <2>3. (tail + i - 1) % Capacity # head
    BY <1>1, <2>1, <2>2 DEF Slot
  <2> QED BY <2>2, <2>3
<1> QED BY <1>2 DEF Contents

(* Storing head_ appends the frame.                                          *)
LEMMA PublishAppends ==
  ASSUME IInv, Publish
  PROVE  Contents' = Append(Contents, frame)
<1> DEFINE n == Distance(head, tail)
<1>1. /\ head \in Slot /\ tail \in Slot /\ n \in Slot /\ n \in Nat
      /\ head' = Succ(head) /\ tail' = tail /\ buffer' = buffer /\ buffer[head] = frame
      /\ Succ(head) # tail
  BY DistanceValue DEF IInv, TypeOK, Slot, Publish, CopiesFaithful, WriterHasRoom, Writing
<1>2. Distance(head', tail') = n + 1
  BY <1>1, Lengthen
<1>3. (tail + (n + 1) - 1) % Capacity = head
  <2>1. n = IF head >= tail THEN head - tail ELSE head - tail + Capacity
    BY <1>1, DistanceValue
  <2>2. (tail + n) % Capacity = IF tail + n < Capacity THEN tail + n ELSE tail + n - Capacity
    BY <1>1, WrapValue
  <2>3. tail + (n + 1) - 1 = tail + n
    BY <1>1 DEF Slot
  <2> QED BY <1>1, <2>1, <2>2, <2>3, CapacityAssumption DEF Slot
<1>4. Contents' = [i \in 1 .. n + 1 |-> buffer[(tail + i - 1) % Capacity]]
  BY <1>1, <1>2 DEF Contents
<1>5. /\ Contents \in Seq(Frame) /\ Len(Contents) = n
      /\ \A i \in 1 .. n : Contents[i] = buffer[(tail + i - 1) % Capacity]
  BY ContentsValue
<1>6. /\ Append(Contents, frame) \in Seq(Frame)
      /\ Len(Append(Contents, frame)) = n + 1
      /\ \A i \in 1 .. n : Append(Contents, frame)[i] = Contents[i]
      /\ Append(Contents, frame)[n + 1] = frame
  <2>1. frame \in Frame
    BY DEF IInv, CopiesFaithful, Publish
  <2> QED BY <1>1, <1>5, <2>1
<1>7. Append(Contents, frame) = [i \in 1 .. n + 1 |-> Append(Contents, frame)[i]]
  BY <1>6, SequenceIsFunction
<1>8. ASSUME NEW i \in 1 .. n + 1
      PROVE  buffer[(tail + i - 1) % Capacity] = Append(Contents, frame)[i]
  <2>1. CASE i = n + 1
    BY <1>1, <1>3, <1>6, <2>1
  <2>2. CASE i \in 1 .. n
    BY <1>5, <1>6, <2>2
  <2>3. i = n + 1 \/ i \in 1 .. n
    <3> HIDE DEF n
    <3> QED BY <1>1
  <2> QED BY <2>1, <2>2, <2>3
<1> QED BY <1>4, <1>7, <1>8

(* Storing tail_ takes the oldest frame.                                     *)
LEMMA ReleaseTakes ==
  ASSUME IInv, Release
  PROVE  Contents # <<>> /\ taken' = Head(Contents) /\ Contents' = Tail(Contents)
<1> DEFINE n == Distance(head, tail)
<1>1. /\ head \in Slot /\ tail \in Slot /\ head # tail
      /\ head' = head /\ tail' = Succ(tail) /\ buffer' = buffer /\ taken' = buffer[tail]
  BY DEF IInv, TypeOK, Release, CopiesFaithful, ReaderHasFrame, Reading
<1>2. Distance(head', tail') = n - 1 /\ n \in 1 .. Capacity - 1 /\ n \in Nat
  BY <1>1, Shorten
<1>3. /\ Contents \in Seq(Frame) /\ Len(Contents) = n
      /\ \A i \in 1 .. n : Contents[i] = buffer[(tail + i - 1) % Capacity]
  BY ContentsValue
<1>4. Contents # <<>> /\ taken' = Head(Contents)
  <2>1. (tail + 0) % Capacity = tail /\ tail + 1 - 1 = tail + 0
    <3>1. 0 \in Slot
      BY CapacityAssumption DEF Slot
    <3>2. (tail + 0) % Capacity = IF tail + 0 < Capacity THEN tail + 0 ELSE tail + 0 - Capacity
      BY <1>1, <3>1, WrapValue
    <3> QED BY <1>1, <3>2, CapacityAssumption DEF Slot
  <2>2. Contents[1] = buffer[tail]
    BY <1>2, <1>3, <2>1
  <2> QED BY <1>1, <1>2, <1>3, <2>2
<1>5. Contents' = [i \in 1 .. n - 1 |-> buffer[(Succ(tail) + i - 1) % Capacity]]
  BY <1>1, <1>2 DEF Contents
<1>6. Tail(Contents) = [i \in 1 .. n - 1 |-> Contents[i + 1]]
  <2>1. /\ Tail(Contents) \in Seq(Frame) /\ Len(Tail(Contents)) = n - 1
        /\ \A i \in 1 .. n - 1 : Tail(Contents)[i] = Contents[i + 1]
    BY <1>2, <1>3, <1>4, HeadTailProperties
  <2>2. Tail(Contents) = [i \in 1 .. n - 1 |-> Tail(Contents)[i]]
    BY <2>1, SequenceIsFunction
  <2> QED BY <2>1, <2>2
<1>7. ASSUME NEW i \in 1 .. n - 1
      PROVE  buffer[(Succ(tail) + i - 1) % Capacity] = Contents[i + 1]
  <2>1. Contents[i + 1] = buffer[(tail + (i + 1) - 1) % Capacity]
    BY <1>2, <1>3
  <2>2. i \in Slot /\ i - 1 \in Slot /\ Succ(tail) \in Slot
    BY <1>1, <1>2, SuccValue, CapacityAssumption DEF Slot
  <2>3. (tail + i) % Capacity = IF tail + i < Capacity THEN tail + i ELSE tail + i - Capacity
    BY <1>1, <2>2, WrapValue
  <2>4. (Succ(tail) + (i - 1)) % Capacity = IF Succ(tail) + (i - 1) < Capacity
          THEN Succ(tail) + (i - 1) ELSE Succ(tail) + (i - 1) - Capacity
    BY <2>2, WrapValue
  <2>5. Succ(tail) = IF tail + 1 = Capacity THEN 0 ELSE tail + 1
    BY <1>1, SuccValue
  <2>6. tail + (i + 1) - 1 = tail + i /\ Succ(tail) + i - 1 = Succ(tail) + (i - 1)
    BY <1>1, <2>2 DEF Slot
  <2>7. (Succ(tail) + (i - 1)) % Capacity = (tail + i) % Capacity
    BY <1>1, <2>2, <2>3, <2>4, <2>5, CapacityAssumption DEF Slot
  <2> QED BY <2>1, <2>6, <2>7
<1> QED BY <1>4, <1>5, <1>6, <1>7

(* Initially the ring is the empty queue.                                    *)
LEMMA InitRefines == Init => Queue!Init
<1> SUFFICES ASSUME Init PROVE Queue!Init
  OBVIOUS
<1>1. IInv
  BY InitInvariant
<1>2. Distance(head, tail) = 0
  BY CapacityAssumption DEF Init, Distance
<1>3. Contents = <<>>
  BY <1>1, <1>2, ContentsValue
<1> QED BY <1>3 DEF Init, Queue!Init

(* Every step of the ring is a step of the queue or leaves the queue alone.  *)
LEMMA StepRefines ==
  ASSUME IInv, [Next]_vars
  PROVE  [Queue!Next]_(Queue!qvars)
<1> DEFINE refused == dropped + (IF ppc = "drop" THEN 1 ELSE 0)
<1> USE DEF Queue!qvars
<1>1. ASSUME NEW f \in Frame, PushCheck(f)
      PROVE  [Queue!Next]_(Queue!qvars)
  <2> USE <1>1 DEF PushCheck, consumerVars
  <2>1. Contents' = Contents
    BY DEF Contents
  <2>2. CASE Succ(head) = tail
    <3>1. Len(Contents) = Capacity - 1
      BY <2>2, FullValue, ContentsValue DEF IInv, TypeOK
    <3>2. refused' = refused + 1
      BY <2>2 DEF IInv, TypeOK
    <3> QED BY <2>1, <3>1, <3>2 DEF Queue!Next, Queue!Refuse, Queue!Full
  <2>3. CASE Succ(head) # tail
    <3>1. refused' = refused
      BY <2>3
    <3> QED BY <2>1, <3>1
  <2> QED BY <2>2, <2>3
<1>2. CASE CountDrop
  <2>1. Contents' = Contents
    BY <1>2 DEF CountDrop, Contents
  <2>2. refused' = refused
    BY <1>2 DEF CountDrop, IInv, TypeOK
  <2> QED BY <1>2, <2>1, <2>2 DEF CountDrop, consumerVars
<1>3. CASE CopyInBegin \/ CopyInEnd
  <2>1. Contents' = Contents
    BY <1>3, OtherSlotWritten DEF CopyInBegin, CopyInEnd, IInv, TypeOK
  <2> QED BY <1>3, <2>1 DEF CopyInBegin, CopyInEnd, consumerVars
<1>4. CASE Publish
  <2>1. Contents' = Append(Contents, frame) /\ frame \in Frame
    BY <1>4, PublishAppends DEF Publish, IInv, CopiesFaithful
  <2>2. ~Queue!Full
    <3>1. Len(Contents) # Capacity - 1
      BY <1>4, FullValue, ContentsValue DEF Publish, IInv, TypeOK, WriterHasRoom, Writing
    <3> QED BY <3>1 DEF Queue!Full
  <2>3. Queue!Accept(frame)
    BY <1>4, <2>1, <2>2 DEF Publish, consumerVars, Queue!Accept
  <2> QED BY <2>1, <2>3 DEF Queue!Next
<1>5. CASE PopCheck \/ CopyOutBegin \/ CopyOutEnd \/ SizeLoadHead \/ SizeLoadTail
  BY <1>5 DEF PopCheck, CopyOutBegin, CopyOutEnd, SizeLoadHead, SizeLoadTail, producerVars,
     Contents
<1>6. CASE Release
  <2>1. Contents # <<>> /\ taken' = Head(Contents) /\ Contents' = Tail(Contents)
    BY <1>6, ReleaseTakes
  <2>2. refused' = refused
    BY <1>6 DEF Release, producerVars
  <2> QED BY <2>1, <2>2 DEF Queue!Next, Queue!Take
<1>7. CASE Reset
  <2>1. IInv'
    BY <1>7, ResetInvariant
  <2>2. Contents' = <<>>
    <3>1. Distance(head', tail') = 0
      BY <1>7, CapacityAssumption DEF Reset, Distance
    <3>2. Contents' = [i \in 1 .. 0 |-> buffer'[(tail' + i - 1) % Capacity]]
      BY <3>1 DEF Contents
    <3> QED BY <3>2
  <2> QED BY <1>7, <2>2 DEF Reset, producerVars, consumerVars, Queue!Next, Queue!Clear
<1>8. CASE UNCHANGED vars
  BY <1>8 DEF vars, producerVars, consumerVars, Contents
<1> QED BY <1>1, <1>2, <1>3, <1>4, <1>5, <1>6, <1>7, <1>8 DEF Next, Producer, Consumer

(* RingLog implements RingQueue.                                             *)
THEOREM Refinement == Spec => ImplementsQueue
<1>1. IInv /\ [Next]_vars => [Queue!Next]_(Queue!qvars)
  BY StepRefines
<1> QED BY <1>1, InitRefines, InvariantHolds, PTL DEF Spec, ImplementsQueue, Queue!Spec
==============================================================================
