---------------------------- MODULE MCThreadLife -----------------------------
(* The configurations of ThreadLife have a slot less than malloc has       *)
(* blocks, so that thrd_create also finds the table full.                  *)
EXTENDS ThreadLife
=============================================================================
