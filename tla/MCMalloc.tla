------------------------------ MODULE MCMalloc -------------------------------
(* Malloc for TLC, with a word of 6 bits and a size, 58, that sbrk takes   *)
(* for negative.                                                           *)
EXTENDS Malloc
=============================================================================
