------------------------- MODULE MCTakionSendBuffer -------------------------
(* TLC instance of TakionSendBuffer. *)
EXTENDS TakionSendBuffer
=============================================================================
