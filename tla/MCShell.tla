------------------------------- MODULE MCShell -------------------------------
(***************************************************************************)
(* A table of two jobs, a process more than it holds, and one trapped      *)
(* signal that is sent twice.                                              *)
(***************************************************************************)
EXTENDS Shell
==============================================================================
