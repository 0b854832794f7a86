----------------------------- MODULE MCCreateApp ----------------------------
(***************************************************************************)
(* Instances of CreateApp for TLC: a plain line, and variations of one     *)
(* group of flags at a time.  Ports below 0, at 0, at and above 2^16, and  *)
(* numbers that meet an exposed port once they have wrapped around; ports  *)
(* and routes that are given twice, on two ports and on one.  Ports come   *)
(* as sort.Strings leaves them: "10000" before "8080".                     *)
(***************************************************************************)
EXTENDS CreateApp

Ubuntu == [parts |-> <<"ubuntu">>, tag |-> NoTag]
Plain(op) ==
    [op |-> op, name |-> Ubuntu, args |-> 5, dashes |-> TRUE, oldRoutes |-> FALSE, weight |-> 100,
     ports |-> <<>>, noMonitor |-> FALSE, monitorCommand |-> FALSE,
     monitorUrl |-> Absent, monitorPort |-> 0, http |-> <<>>, tcp |-> <<>>, noRoutes |-> FALSE]
Plains == {Plain(op) : op \in Op}

Shapes ==
    {[l EXCEPT !.args = a, !.dashes = d, !.weight = w, !.oldRoutes = o] :
        l \in Plains, a \in {1, 2, 4, 5}, d \in BOOLEAN, w \in {-1, 0, 1, 100, 101}, o \in BOOLEAN}

PortFlags == { <<>>, <<0>>, <<-1>>, <<8080>>, <<8080, 9000>>, <<SshPort, 9000>>, <<SshPort>>,
               <<65535, 65536>>, <<8080, Junk>>, <<8080 - Word, 9000>>,
               <<10000, 9000>>, <<8080, 8080>>, <<8080 - Word, 8080, 9000>> }
Monitors ==
    {[l EXCEPT !.ports = s, !.noMonitor = n, !.monitorCommand = c, !.monitorUrl = u, !.monitorPort = m] :
        l \in Plains, s \in PortFlags, n \in BOOLEAN, c \in BOOLEAN,
        u \in {Absent, Junk, 0, 9000, 9000 + Word, -1}, m \in {-1, 0, 9000, 9000 + Word}}

R(from, port) == [from |-> from, port |-> port]
HttpFlags == { <<>>, <<R(1, Absent)>>, <<R(1, 9000), R(2, Absent)>>, <<R(1, SshPort)>>, <<R(1, 0)>>,
               <<R(1, Junk)>>, <<R(Absent, 9000)>>,
               <<R(2, 9000), R(1, 9000), R(2, 9000)>>, <<R(1, 9000), R(1, 8080), R(3, 7000)>> }
TcpFlags == { <<>>, <<R(5000, Absent)>>, <<R(5000, 9000), R(5001, 9000)>>, <<R(80, 9000)>>,
              <<R(80 + Word, 9000)>>, <<R(Junk, 9000)>>, <<R(5000, -1)>>,
              <<R(5001, 9000), R(5000, 8080), R(5001, 9000)>> }
Routes ==
    {[l EXCEPT !.ports = s, !.http = h, !.tcp = t, !.noRoutes = n] :
        l \in Plains, s \in PortFlags, h \in HttpFlags, t \in TcpFlags, n \in BOOLEAN}

MCPart == {"docker.io", "localhost", "library", "quay.io", "ubuntu", "docker:", ""}
MCDotted == {"docker.io", "quay.io", "docker:"}
Paths == UNION {[1 .. n -> MCPart \ {"docker:", ""}] : n \in 1 .. 3}
References == [parts : Paths \cup {<<"docker:", "">> \o p : p \in Paths}, tag : {"v1", NoTag}]
Names(R1) == {[Plain("create") EXCEPT !.name = r] : r \in R1}

AllLines == Shapes \cup Monitors \cup Routes \cup Names({r \in References : ~OutOfRange(r)})
OddLines == Shapes \cup Routes \cup Names(References)
SomeImages == { [ports |-> s, start |-> b] : s \in {<<>>, <<7000>>, <<8080, 9000>>}, b \in BOOLEAN }
=============================================================================
