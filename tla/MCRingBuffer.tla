---------------------------- MODULE MCRingBuffer ----------------------------
(* RingBuffer with a small ring: the indices wrap, the ring fills up.       *)
EXTENDS RingBuffer
=============================================================================
