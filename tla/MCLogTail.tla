----------------------------- MODULE MCLogTail ------------------------------
(***************************************************************************)
(* Instances of LogTail for TLC: channels of capacity 1 and 2 fill up long *)
(* before the bounds on what is sent are reached.                          *)
(***************************************************************************)
EXTENDS LogTail
=============================================================================
