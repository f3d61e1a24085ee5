-------------------------- MODULE RingBufferProofs --------------------------
(***************************************************************************)
(* Theorems about RingBuffer, for every Size and every set of elements.    *)
(***************************************************************************)
EXTENDS RingBuffer, SequenceTheorems, TLAPS

\* (i + 1) % Size is the next index, and 0 after the last one.
LEMMA NextSlotWraps ==
  ASSUME NEW i \in Slots
  PROVE  /\ NextSlot(i) \in Slots
         /\ NextSlot(i) = IF i + 1 = Size THEN 0 ELSE i + 1
<1>1. CASE i + 1 < Size
  BY <1>1, SizeAssumption DEF Slots, NextSlot
<1>2. CASE i + 1 = Size
  BY <1>2, SizeAssumption DEF Slots, NextSlot
<1>3. QED BY <1>1, <1>2, SizeAssumption DEF Slots

\* What makes the ring correct without a lock: a thread that is past its test
\* keeps the room, or the element, it found, since only the other thread's
\* index can move; and an element stays in its slot while its index says so.
IInv == /\ TypeOK
        /\ ResultsMayBeIgnored
        /\ prod.pc \in {"push", "copy", "advance"} => ~IsFull
        /\ prod.pc = "advance" => array[tail_] = prod.item
        /\ cons.pc \in {"pop", "copy", "advance"} => ~IsEmpty
        /\ cons.pc = "advance" => array[head_] = cons.item

LEMMA InitIInv == Init => IInv
  BY SizeAssumption DEF Init, IInv, TypeOK, ResultsMayBeIgnored, Slots

LEMMA StepIInv == IInv /\ [Next]_vars => IInv'
<1> SUFFICES ASSUME IInv, [Next]_vars PROVE IInv'
  OBVIOUS
<1> USE SizeAssumption DEF IInv, TypeOK, ResultsMayBeIgnored, IsFull, IsEmpty
<1>0. /\ head_ \in Slots /\ tail_ \in Slots
      /\ NextSlot(head_) \in Slots /\ NextSlot(tail_) \in Slots
      /\ NextSlot(head_) = IF head_ + 1 = Size THEN 0 ELSE head_ + 1
      /\ NextSlot(tail_) = IF tail_ + 1 = Size THEN 0 ELSE tail_ + 1
  BY NextSlotWraps
<1>1. ASSUME NEW item \in Items, Arrive(item) PROVE IInv'
  BY <1>1 DEF Arrive
<1>2. CASE FoundRoom
  BY <1>2 DEF FoundRoom
<1>3. CASE PushTest
  BY <1>3 DEF PushTest
<1>4. CASE PushCopied
  \* the slot written is not the one the consumer is about to hand out
  <2>1. cons.pc = "advance" => array'[head_] = cons.item
    BY <1>4, <1>0 DEF PushCopied
  <2> QED BY <1>4, <2>1, <1>0 DEF PushCopied
<1>5. CASE PushAdvance
  BY <1>5, <1>0 DEF PushAdvance
<1>6. CASE FoundData
  BY <1>6 DEF FoundData
<1>7. CASE PopTest
  BY <1>7 DEF PopTest
<1>8. CASE PopCopied
  BY <1>8, <1>0 DEF PopCopied
<1>9. CASE PopAdvance
  \* the ring was not empty, so moving head_ on cannot make it full
  <2>1. NextSlot(tail_) # NextSlot(head_)
    BY <1>9, <1>0 DEF PopAdvance, Slots
  <2>2. ~IsFull'
    BY <1>9, <2>1 DEF PopAdvance
  <2>3. TypeOK' /\ ResultsMayBeIgnored' /\ cons'.pc = "idle" /\ prod' = prod
    BY <1>9, <1>0 DEF PopAdvance
  <2>4. prod'.pc = "advance" => array'[tail_'] = prod'.item
    BY <1>9 DEF PopAdvance
  <2> QED BY <2>2, <2>3, <2>4
<1>10. CASE UNCHANGED vars
  BY <1>10 DEF vars
<1> QED BY <1>1, <1>2, <1>3, <1>4, <1>5, <1>6, <1>7, <1>8, <1>9, <1>10
        DEF Next, Produce, Consume

\* TypeOK, and the right to ignore what Push and Pop return.
THEOREM RingBufferTypeOK == Spec => []TypeOK
<1>1. IInv => TypeOK
  BY DEF IInv
<1> QED BY InitIInv, StepIInv, <1>1, PTL DEF Spec

THEOREM PushAndPopNeverFail == Spec => []ResultsMayBeIgnored
<1>1. IInv => ResultsMayBeIgnored
  BY DEF IInv
<1> QED BY InitIInv, StepIInv, <1>1, PTL DEF Spec

\* The unlocked copies of producer and consumer never meet in one slot.
THEOREM NeverTorn == Spec => []NoTornElement
<1>1. IInv => NoTornElement
  BY DEF IInv, NoTornElement, IsEmpty
<1> QED BY InitIInv, StepIInv, <1>1, PTL DEF Spec

-----------------------------------------------------------------------------
(* RingBuffer implements BoundedQueue. *)

LEMMA ContentsIsSeq ==
  ASSUME TypeOK
  PROVE  /\ DataCount \in 0 .. Size - 1
         /\ Contents \in Seq(Items)
         /\ Len(Contents) = DataCount
<1>1. DataCount \in 0 .. Size - 1
  BY SizeAssumption DEF TypeOK, DataCount, Slots
<1>2. \A i \in 1 .. DataCount : Nth(i - 1) \in Slots
  BY <1>1, SizeAssumption DEF TypeOK, Slots, Nth
<1>3. \A i \in 1 .. DataCount : array[Nth(i - 1)] \in Items
  BY <1>2 DEF TypeOK
<1> QED BY <1>1, <1>3 DEF Contents

\* Writing the free slot does not change what the queue holds.
LEMMA CopyIsInvisible == IInv /\ PushCopied => Contents' = Contents
<1> SUFFICES ASSUME IInv, PushCopied PROVE Contents' = Contents
  OBVIOUS
<1> USE SizeAssumption DEF IInv, TypeOK, PushCopied
<1>1. DataCount' = DataCount /\ DataCount \in 0 .. Size - 1
  BY DEF DataCount, Slots
<1>2. ASSUME NEW i \in 1 .. DataCount
      PROVE  Nth(i - 1) \in Slots /\ Nth(i - 1) # tail_
  <2>1. head_ \in 0 .. Size - 1 /\ tail_ \in 0 .. Size - 1
    BY DEF Slots
  <2>2. CASE tail_ >= head_
    BY <2>1, <2>2 DEF Nth, DataCount, Slots
  <2>3. CASE tail_ < head_
    BY <2>1, <2>3 DEF Nth, DataCount, Slots
  <2> QED BY <2>1, <2>2, <2>3
<1>3. \A i \in 1 .. DataCount : array'[Nth(i - 1)] = array[Nth(i - 1)]
  BY <1>2
<1>4. \A i : Nth(i)' = Nth(i)
  BY DEF Nth
<1> QED BY <1>1, <1>3, <1>4 DEF Contents

LEMMA AdvanceAppends ==
  IInv /\ PushAdvance => /\ DataCount < Size - 1
                         /\ Contents' = Append(Contents, prod.item)
<1> SUFFICES ASSUME IInv, PushAdvance
             PROVE  /\ DataCount < Size - 1
                    /\ Contents' = Append(Contents, prod.item)
  OBVIOUS
<1> USE SizeAssumption DEF IInv, TypeOK, PushAdvance
<1>0. /\ head_ \in Slots /\ tail_ \in Slots
      /\ NextSlot(tail_) = IF tail_ + 1 = Size THEN 0 ELSE tail_ + 1
      /\ NextSlot(tail_) # head_
  BY NextSlotWraps DEF IsFull
<1>a. tail_' = NextSlot(tail_) /\ head_' = head_
  OBVIOUS
<1>1. /\ DataCount < Size - 1 /\ DataCount \in Nat
      /\ DataCount' = DataCount + 1
  BY ONLY SizeAssumption, <1>0, <1>a DEF DataCount, Slots
<1>2. Nth(DataCount) = tail_
  BY ONLY SizeAssumption, <1>0 DEF Nth, DataCount, Slots
<1>3. \A i : Nth(i)' = Nth(i)
  BY DEF Nth
<1>4. array' = array /\ array[tail_] = prod.item
  OBVIOUS
<1>5. Contents' = [i \in 1 .. DataCount + 1 |-> array[Nth(i - 1)]]
  BY <1>1, <1>3, <1>4 DEF Contents
<1>6. array[Nth((DataCount + 1) - 1)] = prod.item
  BY <1>1, <1>2, <1>4
<1>7. Contents \in Seq(Items) /\ Len(Contents) = DataCount
  BY ContentsIsSeq
<1> QED BY <1>1, <1>5, <1>6, <1>7 DEF Contents

\* Head and Tail of a sequence, written out.
LEMMA HeadAndTail ==
  ASSUME NEW S, NEW s \in Seq(S), Len(s) > 0
  PROVE  /\ s # << >>
         /\ Head(s) = s[1]
         /\ Tail(s) = [i \in 1 .. Len(s) - 1 |-> s[i + 1]]
<1> DEFINE t == [i \in 1 .. Len(s) - 1 |-> s[i + 1]]
<1>1. s # << >>
  OBVIOUS
<1>2. Head(s) = s[1]
  BY <1>1
<1>3. Tail(s) \in Seq(S) /\ Len(Tail(s)) = Len(s) - 1
  BY <1>1
<1>4. \A i \in 1 .. Len(s) - 1 : Tail(s)[i] = s[i + 1]
  BY <1>1
<1>5. /\ t \in Seq(S) /\ Len(t) = Len(s) - 1
      /\ \A i \in 1 .. Len(s) - 1 : t[i] = s[i + 1]
  OBVIOUS
<1> HIDE DEF t
<1>6. Tail(s) = t
  BY <1>3, <1>4, <1>5, SeqEqual
<1> QED BY <1>1, <1>2, <1>6 DEF t

LEMMA PopTakesTheOldest ==
  IInv /\ PopAdvance => /\ Contents # << >>
                        /\ cons.item = Head(Contents)
                        /\ Contents' = Tail(Contents)
<1> SUFFICES ASSUME IInv, PopAdvance
             PROVE  /\ Contents # << >>
                    /\ cons.item = Head(Contents)
                    /\ Contents' = Tail(Contents)
  OBVIOUS
<1> USE SizeAssumption DEF IInv, TypeOK, PopAdvance
<1>0. /\ head_ \in Slots /\ tail_ \in Slots /\ head_ # tail_
      /\ NextSlot(head_) = IF head_ + 1 = Size THEN 0 ELSE head_ + 1
  BY NextSlotWraps DEF IsEmpty
<1>a. head_' = NextSlot(head_) /\ tail_' = tail_
  OBVIOUS
<1>1. DataCount \in 1 .. Size - 1 /\ DataCount' = DataCount - 1
  BY ONLY SizeAssumption, <1>0, <1>a DEF DataCount, Slots
<1>2. Nth(0) = head_
  BY ONLY SizeAssumption, <1>0 DEF Nth, Slots
<1>3. \A i \in 1 .. DataCount - 1 : Nth(i - 1)' = Nth(i)
  BY ONLY SizeAssumption, <1>0, <1>1, <1>a DEF Nth, Slots
<1>4. array' = array /\ array[head_] = cons.item
  OBVIOUS
<1>5. Contents \in Seq(Items) /\ Len(Contents) = DataCount
  BY ContentsIsSeq
<1>6. Contents[1] = cons.item
  BY <1>1, <1>2, <1>4 DEF Contents
<1>7. Contents' = [i \in 1 .. DataCount - 1 |-> Contents[i + 1]]
  <2>1. \A i \in 1 .. DataCount - 1 : Contents[i + 1] = array[Nth(i)]
    BY <1>1 DEF Contents
  <2>2. Contents' = [i \in 1 .. DataCount - 1 |-> array[Nth(i - 1)']]
    BY <1>1, <1>4 DEF Contents
  <2> QED BY <2>1, <2>2, <1>3
<1> HIDE DEF IInv, TypeOK, PopAdvance
<1> QED BY <1>1, <1>5, <1>6, <1>7, HeadAndTail

LEMMA InitRefines == Init => Queue!Init
<1> SUFFICES ASSUME Init PROVE Queue!Init
  OBVIOUS
<1>1. Contents = << >>
  BY DEF Init, Contents, DataCount
<1> QED BY <1>1 DEF Init, Queue!Init

LEMMA StepRefines == IInv /\ [Next]_vars => [Queue!Next]_Queue!vars
<1> SUFFICES ASSUME IInv, [Next]_vars PROVE [Queue!Next]_Queue!vars
  OBVIOUS
<1> USE DEF Queue!vars
<1>1. ASSUME NEW item \in Items, Arrive(item) PROVE UNCHANGED Queue!vars
  BY <1>1 DEF Arrive, Contents, DataCount, Nth
<1>2. CASE FoundRoom
  BY <1>2 DEF FoundRoom, Contents, DataCount, Nth
<1>3. CASE PushTest
  BY <1>3 DEF PushTest, Contents, DataCount, Nth
<1>4. CASE PushCopied
  BY <1>4, CopyIsInvisible DEF PushCopied
<1>5. CASE PushAdvance
  <2>1. Queue!Put(prod.item)
    BY <1>5, AdvanceAppends, ContentsIsSeq DEF PushAdvance, Queue!Put, IInv
  <2>2. prod.item \in Items
    BY DEF IInv, TypeOK
  <2> QED BY <2>1, <2>2 DEF Queue!Next
<1>6. CASE FoundData
  BY <1>6 DEF FoundData, Contents, DataCount, Nth
<1>7. CASE PopTest
  BY <1>7 DEF PopTest, Contents, DataCount, Nth
<1>8. CASE PopCopied
  BY <1>8 DEF PopCopied, Contents, DataCount, Nth
<1>9. CASE PopAdvance
  <2>1. Queue!Get
    BY <1>9, PopTakesTheOldest DEF PopAdvance, Queue!Get
  <2> QED BY <2>1 DEF Queue!Next
<1>10. CASE UNCHANGED vars
  BY <1>10 DEF vars, Contents, DataCount, Nth
<1> QED BY <1>1, <1>2, <1>3, <1>4, <1>5, <1>6, <1>7, <1>8, <1>9, <1>10
        DEF Next, Produce, Consume

\* Whatever the interleaving of the two threads, the ring is a FIFO of
\* Size - 1 buffers.
THEOREM RingBufferIsAQueue == Spec => ImplementsBoundedQueue
BY InitIInv, StepIInv, InitRefines, StepRefines, PTL
   DEF Spec, ImplementsBoundedQueue, Queue!Spec
=============================================================================
