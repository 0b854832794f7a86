---------------------------- MODULE MCSshForward ----------------------------
(***************************************************************************)
(* Instances of SshForward for TLC: two connections are enough for one to  *)
(* wait for the other.                                                     *)
(***************************************************************************)
EXTENDS SshForward
=============================================================================
