----------------------------- MODULE RingBuffer -----------------------------
(***************************************************************************)
(* RingBuffer<Element, Size> (libxcode/base/ring_buffer.h), the queue of a *)
(* sink pad, together with the two call sites in MediaPad that use it:     *)
(* ProcessBuf, run by the thread of the upstream element, tests IsFull in  *)
(* a loop, then calls Push and ignores its result; GetBufData, run by the  *)
(* thread of the downstream element, tests IsEmpty, then calls Pop and     *)
(* ignores its result.  There is no lock and no atomic variable.  An       *)
(* access to head_ or tail_ is one step; copying an Element (a struct of   *)
(* many words) is not, so the copy has a beginning and an end.  Stores are *)
(* taken in program order, which is what the x86-64 builds of the project  *)
(* give (FindGlobals.cmake sets no other target).                          *)
(***************************************************************************)
EXTENDS Integers, Sequences

CONSTANTS Size,   \* slots of the array; MediaPad uses FRAME_POOL_Q_SIZE + 1
          Items   \* the elements

ASSUME SizeAssumption == Size \in Nat \ {0}

VARIABLES array,     \* Element array[Size]
          head_,     \* index of the oldest element, moved by the consumer
          tail_,     \* index of the next free slot, moved by the producer
          prod,      \* the thread in ProcessBuf: where it is, what it pushes
          cons,      \* the thread in GetBufData: where it is, its MediaBuf
          received   \* what GetBufData last returned to its caller

vars == <<array, head_, tail_, prod, cons, received>>

Slots == 0 .. Size - 1

\* mutant: the index does not wrap.
NextSlotUnwrapped(i) == i + 1

\* (i + 1) % Size
NextSlot(i) == (i + 1) % Size

DataCount == IF tail_ >= head_ THEN tail_ - head_ ELSE tail_ + Size - head_

\* mutant: full when every slot is used, which head_ = tail_ cannot tell from
\* empty.
IsFullAtSize == DataCount = Size

IsFull == NextSlot(tail_) = head_

IsEmpty == head_ = tail_

Init == /\ array \in [Slots -> Items]
        /\ head_ = 0
        /\ tail_ = 0
        /\ prod \in [pc : {"idle"}, item : Items]
        /\ cons \in [pc : {"idle"}, item : Items]
        /\ received \in Items

-----------------------------------------------------------------------------
(* The producer: MediaPad::ProcessBuf of an active element. *)

\* The upstream element hands over a buffer.
Arrive(item) == /\ prod.pc = "idle"
                /\ prod' = [pc |-> "wait", item |-> item]
                /\ UNCHANGED <<array, head_, tail_, cons, received>>

\* mutant: push without waiting for room.
FoundRoomUntested == /\ prod.pc = "wait"
                     /\ prod' = [prod EXCEPT !.pc = "push"]
                     /\ UNCHANGED <<array, head_, tail_, cons, received>>

\* IsFull() is false: leave the loop.  While it is true the thread sleeps
\* 10 ms and tests again, which changes nothing.
FoundRoom == /\ prod.pc = "wait"
             /\ ~IsFull
             /\ prod' = [prod EXCEPT !.pc = "push"]
             /\ UNCHANGED <<array, head_, tail_, cons, received>>

\* Push tests for room again; without room it returns false, the caller does
\* not look at the result, and the buffer is gone.
PushTest == /\ prod.pc = "push"
            /\ prod' = [prod EXCEPT !.pc = IF IsFull THEN "dropped" ELSE "copy"]
            /\ UNCHANGED <<array, head_, tail_, cons, received>>

\* array[tail_] = item has been copied.
PushCopied == /\ prod.pc = "copy"
              /\ array' = [array EXCEPT ![tail_] = prod.item]
              /\ prod' = [prod EXCEPT !.pc = "advance"]
              /\ UNCHANGED <<head_, tail_, cons, received>>

PushAdvance == /\ prod.pc = "advance"
               /\ tail_' = NextSlot(tail_)
               /\ prod' = [prod EXCEPT !.pc = "idle"]
               /\ UNCHANGED <<array, head_, cons, received>>

Produce == FoundRoom \/ PushTest \/ PushCopied \/ PushAdvance

-----------------------------------------------------------------------------
(* The consumer: MediaPad::GetBufData, polled by the element's loop. *)

\* IsEmpty() is false; when it is true GetBufData returns -1 and the caller
\* polls again.
FoundData == /\ cons.pc = "idle"
             /\ ~IsEmpty
             /\ cons' = [cons EXCEPT !.pc = "pop"]
             /\ UNCHANGED <<array, head_, tail_, prod, received>>

\* Pop tests again; when it finds nothing it returns false and GetBufData
\* still returns 0, with the caller's old buffer.
PopTest == /\ cons.pc = "pop"
           /\ cons' = [cons EXCEPT !.pc = IF IsEmpty THEN "stale" ELSE "copy"]
           /\ UNCHANGED <<array, head_, tail_, prod, received>>

\* mutant: head_ was advanced before the copy.
PopCopiedLate == /\ cons.pc = "copy"
                 /\ cons' = [pc |-> "advance", item |-> array[NextSlot(head_)]]
                 /\ UNCHANGED <<array, head_, tail_, prod, received>>

\* item = array[head_] has been copied.
PopCopied == /\ cons.pc = "copy"
             /\ cons' = [pc |-> "advance", item |-> array[head_]]
             /\ UNCHANGED <<array, head_, tail_, prod, received>>

\* mutant: pick, as PickBufData does, where GetBufData pops.
PopWithoutAdvance == /\ cons.pc = "advance"
                     /\ received' = cons.item
                     /\ cons' = [cons EXCEPT !.pc = "idle"]
                     /\ UNCHANGED <<array, head_, tail_, prod>>

PopAdvance == /\ cons.pc = "advance"
              /\ head_' = NextSlot(head_)
              /\ received' = cons.item
              /\ cons' = [cons EXCEPT !.pc = "idle"]
              /\ UNCHANGED <<array, tail_, prod>>

Consume == FoundData \/ PopTest \/ PopCopied \/ PopAdvance

Next == \/ \E item \in Items : Arrive(item)
        \/ Produce
        \/ Consume

Spec == Init /\ [][Next]_vars

\* Both threads keep running; nobody is obliged to bring another buffer.
FairSpec == Spec /\ WF_vars(Produce) /\ WF_vars(Consume)

-----------------------------------------------------------------------------
TypeOK == /\ array \in [Slots -> Items]
          /\ head_ \in Slots
          /\ tail_ \in Slots
          /\ prod \in [pc : {"idle", "wait", "push", "copy", "advance", "dropped"},
                       item : Items]
          /\ cons \in [pc : {"idle", "pop", "copy", "advance", "stale"},
                       item : Items]
          /\ received \in Items

\* ProcessBuf and GetBufData ignore what Push and Pop return.  That is right
\* only if the answer of the earlier IsFull or IsEmpty still holds when Push
\* or Pop runs, whatever the other thread did in between: no buffer is
\* dropped, and GetBufData never reports success with its caller's old buffer.
ResultsMayBeIgnored == prod.pc # "dropped" /\ cons.pc # "stale"

\* The two threads never copy the same slot at the same time, so no element
\* is read half written although nothing locks the array.
NoTornElement == ~(prod.pc = "copy" /\ cons.pc = "copy" /\ head_ = tail_)

\* The slot that holds the i-th oldest element, i counted from 0.
Nth(i) == IF head_ + i < Size THEN head_ + i ELSE head_ + i - Size

Contents == [i \in 1 .. DataCount |-> array[Nth(i - 1)]]

Queue == INSTANCE BoundedQueue WITH Capacity <- Size - 1, queue <- Contents

\* Seen through head_ and tail_, every step of the two threads is a step of a
\* FIFO of Size - 1 buffers, or no step at all.
ImplementsBoundedQueue == Queue!Spec

\* A thread that found the queue full in ProcessBuf does get rid of its
\* buffer, as long as the consumer polls.
PushCompletes == prod.pc = "wait" ~> prod.pc = "idle"
=============================================================================
