------------------------------- MODULE MCApps -------------------------------
(***************************************************************************)
(* Instances of Apps for TLC: which command lines run beside each other.   *)
(***************************************************************************)
EXTENDS Apps

CONSTANTS p1, p2, p3, web, db, debug

Line(op, names, inst, http, tcp, noRoutes, timeout) ==
    [op |-> op, names |-> names, inst |-> inst, ports |-> <<8080>>,
     http |-> http, tcp |-> tcp, noRoutes |-> noRoutes, timeout |-> timeout]

\* --ports 8080,8080
Twice(line) == [line EXCEPT !.ports = <<8080, 8080>>]

Everything ==
    { Line("create", <<web>>, 1, {}, {}, FALSE, 1),
      Line("create", <<web>>, 2, {DefaultPort}, {}, FALSE, 2),
      Line("create", <<debug>>, 1, {}, {8080}, FALSE, 1),
      Line("create", <<web>>, 1, {}, {DefaultPort}, TRUE, 0),
      Twice(Line("create", <<web>>, 1, {DefaultPort}, {}, FALSE, 0)),
      Twice(Line("create", <<web>>, 1, {}, {}, FALSE, 0)),
      Line("submit", <<web>>, 1, {8080}, {}, FALSE, 0),
      Line("submit", <<debug>>, 1, {}, {}, FALSE, 0),
      Line("scale", <<web>>, 0, {}, {}, FALSE, 1),
      Line("scale", <<web>>, 2, {}, {}, FALSE, 2),
      Line("update", <<web>>, 0, {DefaultPort}, {8080}, FALSE, 0),
      Line("update", <<web>>, 0, {}, {}, TRUE, 0),
      Line("update", <<web>>, 0, {}, {}, FALSE, 0),
      \* Several arguments; the same one twice; one that was never created.
      Line("submit", <<db>>, 0, {}, {}, FALSE, 0),
      Line("remove", <<web, db>>, 0, {}, {}, FALSE, 0),
      Line("remove", <<db, web, db>>, 0, {}, {}, FALSE, 0),
      Line("remove", <<debug, web>>, 0, {}, {}, FALSE, 0) }

\* What the code does not exclude: an instance that cannot be placed after scaling
\* down, an update that names a port no container of the app listens on, a create
\* whose logs end before it does.
OpenCommands ==
    { Line("create", <<web>>, 1, {}, {}, FALSE, 0),
      Line("submit", <<web>>, 2, {8080}, {}, FALSE, 0),
      Line("scale", <<web>>, 1, {}, {}, FALSE, 1),
      Line("update", <<web>>, 0, {9999}, {}, FALSE, 0) }
=============================================================================
