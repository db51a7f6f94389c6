--------------------------- MODULE MCReorderQueue ---------------------------
(* TLC instance of ReorderQueueClient: the packets are interchangeable.    *)
EXTENDS ReorderQueueClient, TLC

PacketSymmetry == Permutations(Packets)
=============================================================================
