----------------------------- MODULE MCSession -----------------------------
(* A session of every kind, with two PINs and two queued messages.         *)
EXTENDS Session
=============================================================================
