----------------------------- MODULE MCExaminer -----------------------------
(***************************************************************************)
(* Instances of Examiner for TLC: two apps with an instance each and two   *)
(* cells, or one app with two instances.                                   *)
(***************************************************************************)
EXTENDS Examiner, TLC

Symmetry == Permutations(App) \cup Permutations(Cell)
=============================================================================
