----------------------------- MODULE MCDroplets -----------------------------
(***************************************************************************)
(* Instances of Droplets for TLC: two droplets, one called web, the other  *)
(* web-admin.                                                              *)
(***************************************************************************)
EXTENDS Droplets, TLC

CONSTANTS p1, p2, u1, u2, web, webAdmin, debug, shop

Line(op, guid) == [op |-> op, guid |-> guid, timeout |-> 1]
Job(op, droplet) == [op |-> op, droplet |-> droplet, app |-> shop]

\* The same droplet built twice, its task cancelled or deleted meanwhile.
Rebuilds == { Line("build", web), Line("delete", web) }
OneBuild == { Line("build", web) }

Everything == { Job("import", web), Job("launch", web), Job("remove", web) }
ImportsAndRemoves == { Job("import", webAdmin), Job("import", web), Job("remove", web) }

\* Invocations differ in what they run, which is among what is permuted.
Alike == Permutations({p1, p2}) \cup Permutations({u1, u2})

Dashed == { <<webAdmin, web>> }
Unrelated == {}
=============================================================================
