------------------------------ MODULE MCFanout ------------------------------
(* Fanout with two encoders, and two surfaces for queues of two buffers:    *)
(* the queues fill up and the pool runs dry.                                *)
EXTENDS Fanout

CONSTANTS e1, e2

\* The pipeline starts with one encoder, or with both.
OneEncoder == <<e1>>
BothEncoders == <<e1, e2>>
=============================================================================
