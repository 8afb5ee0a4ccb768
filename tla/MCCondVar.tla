----------------------------- MODULE MCCondVar ------------------------------
(* CondVar for TLC: two producers, three consumers, two items. *)
EXTENDS CondVar
=============================================================================
