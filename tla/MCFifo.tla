------------------------------- MODULE MCFifo -------------------------------
(* A small instance of Fifo for TLC; the constants are in fifo.cfg.  One   *)
(* value is enough here: FifoProofs shows the order for any.               *)
EXTENDS Fifo
=============================================================================
