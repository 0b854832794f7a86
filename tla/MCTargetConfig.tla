--------------------------- MODULE MCTargetConfig ---------------------------
(***************************************************************************)
(* Instances of TargetConfig for TLC: one target that asks for a login and *)
(* one that does not, with and without a store on S3.                      *)
(***************************************************************************)
EXTENDS TargetConfig

CONSTANTS p1, p2, p3

Line(op, t, s3) == [op |-> op, target |-> t, s3 |-> s3]

Everything == { Line("target", "open", FALSE), Line("target", "open", TRUE),
                Line("target", "closed", FALSE), Line("target", "closed", TRUE),
                Line("other", "open", FALSE) }
S3Only == { Line("target", "open", TRUE), Line("target", "closed", TRUE) }
=============================================================================
