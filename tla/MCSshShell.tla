----------------------------- MODULE MCSshShell -----------------------------
(***************************************************************************)
(* Instances of SshShell for TLC: every kind of command, and windows of    *)
(* three sizes that may go back to the size before or to another one.      *)
(* Besides the changes of the window nothing is bounded: a process has a   *)
(* handful of steps, and a refreshing command goes round in a circle.      *)
(***************************************************************************)
EXTENDS SshShell
=============================================================================
