---------------------------- MODULE BoundedQueue ----------------------------
(***************************************************************************)
(* What a sink pad promises the two elements it links: a first-in          *)
(* first-out queue of at most Capacity buffers, filled by the thread of    *)
(* the upstream element and emptied by the thread of the downstream one.   *)
(* Nothing is lost, duplicated, reordered or invented.  RingBuffer is      *)
(* shown to implement it.                                                  *)
(***************************************************************************)
EXTENDS Naturals, Sequences

CONSTANTS Items,    \* the buffers that can be queued
          Capacity  \* how many buffers fit

VARIABLES queue,    \* the queued buffers, oldest first
          received  \* the buffer the last successful Get handed out

vars == <<queue, received>>

\* Before the first Get the caller's buffer holds whatever it held.
Init == /\ queue = << >>
        /\ received \in Items

Put(item) == /\ Len(queue) < Capacity
             /\ queue' = Append(queue, item)
             /\ UNCHANGED received

Get == /\ queue # << >>
       /\ received' = Head(queue)
       /\ queue' = Tail(queue)

Next == Get \/ \E item \in Items : Put(item)

Spec == Init /\ [][Next]_vars
=============================================================================
