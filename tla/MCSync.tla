------------------------------- MODULE MCSync -------------------------------
(***************************************************************************)
(* Instances of Sync for TLC: two invocations and two versions.            *)
(***************************************************************************)
EXTENDS Sync

CONSTANTS p1, p2, v1, v2
=============================================================================
