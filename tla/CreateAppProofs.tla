-------------------------- MODULE CreateAppProofs ---------------------------
(***************************************************************************)
(* Proofs about CreateApp, for all command lines, images and names: the    *)
(* image an app runs is the one docker means by its argument, a panic has  *)
(* one cause, nobody is routed to the ssh daemon who did not ask for it,   *)
(* and list and status both show the routes that were asked for.           *)
(***************************************************************************)
EXTENDS CreateApp, FiniteSetTheorems, SequenceTheorems, TLAPS

Parsing == {"session", "insecure", "repository", "tags", "image"}
Exposing == {"monitor", "start", "http", "tcp", "request"}

\* A route ends at the daemon only if a flag said so.
FromFlag(routes, flags) == SshPort \in PortsOf(routes) => SshPort \in PortsOf(flags)

IInv ==
    /\ line \in Lines
    /\ code # "none" => stage = "exited"
    /\ code = "panic" => OutOfRange(line.name)
    /\ stage \in Exposing => exposed # <<>>
    /\ stage \in Parsing => repo = ParseDockerRepoUrl(line.name)
    /\ Creates /\ stage \in {"ports"} \cup Exposing => fetched = ParseDockerRepoUrl(line.name)
    /\ Creates /\ code = "requested" => /\ fetched = ParseDockerRepoUrl(line.name)
                                        /\ rootFS = ParseDockerRepoUrl(line.name)
    /\ FromFlag(http, line.http) /\ FromFlag(tcp, line.tcp)
    /\ \A r \in ToSet(tcp) : r.from \notin ReservedPorts

-----------------------------------------------------------------------------
(* The image argument.                                                     *)

LEMMA Parts ==
    ASSUME NEW ref \in Reference
    PROVE  /\ ref.parts \in Seq(Part) /\ ref.parts # <<>> /\ ref.parts[1] \in Part
           /\ Len(ref.parts) \in Nat /\ Len(ref.parts) >= 1
  <1>1. ref.parts \in Seq(Part) /\ ref.parts # <<>>
    BY DEF Reference
  <1>2. Len(ref.parts) \in Nat /\ Len(ref.parts) >= 1
    BY <1>1
  <1>3. ref.parts[1] \in Part
    BY <1>1, <1>2
  <1>. QED
    BY <1>1, <1>2, <1>3

\* An official image of one part is one of the library.
LEMMA InLibrary ==
    ASSUME NEW path \in Seq(Part), Len(path) = 1
    PROVE  <<"library">> \o path = <<"library", path[1]>>
  <1>1. "library" \in Part /\ path[1] \in Part
    <2>1. "library" \in Part
      BY PartAssumption
    <2>2. 1 \in 1 .. Len(path)
      OBVIOUS
    <2>. QED
      BY <2>1, <2>2
  <1>2. <<"library">> \in Seq(Part) /\ <<"library", path[1]>> \in Seq(Part)
    BY <1>1
  <1>3. Len(<<"library">>) = 1 /\ Len(<<"library", path[1]>>) = 2 /\ <<"library">>[1] = "library"
        /\ <<"library", path[1]>>[1] = "library" /\ <<"library", path[1]>>[2] = path[1]
    OBVIOUS
  <1>4. /\ <<"library">> \o path \in Seq(Part) /\ Len(<<"library">> \o path) = 2
        /\ (<<"library">> \o path)[1] = "library" /\ (<<"library">> \o path)[2] = path[1]
    <2>1. PICK l \in Seq(Part) : l = <<"library">>
      BY <1>2
    <2>2. Len(l) = 1 /\ l[1] = "library"
      BY <1>3, <2>1
    <2>3. /\ l \o path \in Seq(Part) /\ Len(l \o path) = Len(l) + Len(path)
          /\ \A i \in 1 .. Len(l) + Len(path) :
                (l \o path)[i] = IF i <= Len(l) THEN l[i] ELSE path[i - Len(l)]
      BY ConcatProperties
    <2>4. 1 \in 1 .. 2 /\ 2 \in 1 .. 2 /\ 2 - 1 = 1
      OBVIOUS
    <2>5. Len(l \o path) = 2 /\ (l \o path)[1] = l[1] /\ (l \o path)[2] = path[1]
      BY <2>2, <2>3, <2>4
    <2>. QED
      BY <2>1, <2>2, <2>3, <2>5
  <1>5. \A i \in 1 .. 2 : (<<"library">> \o path)[i] = <<"library", path[1]>>[i]
    BY <1>3, <1>4
  <1>. QED
    BY <1>2, <1>3, <1>4, <1>5, SeqEqual

\* What is said of a host, a path and a tag is said of the records of them.
LEMMA Same ==
    ASSUME NEW ref, NEW r, NEW index, NEW host, NEW path, NEW tag,
           r = [index |-> index, remote |-> path, tag |-> tag],
           Meaning(ref) = [host |-> host, tag |-> tag, path |-> path],
           host = IF index = "" THEN DockerIndexServer ELSE index
    PROVE  Means(r, ref)
  <1>1. r.index = index /\ r.remote = path /\ r.tag = tag
    OBVIOUS
  <1>. QED
    BY <1>1 DEF Means

\* ltc and docker mean the same by every argument there can be.
LEMMA ParseMeans ==
    ASSUME NEW ref \in Reference PROVE Means(ParseDockerRepoUrl(ref), ref)
  <1>1. PICK parts : parts = ref.parts
    OBVIOUS
  <1>2. PICK first : first = parts[1]
    OBVIOUS
  <1>3. PICK rest : rest = Tail(parts)
    OBVIOUS
  <1>4. PICK tag : tag = IF ref.tag = NoTag THEN "latest" ELSE ref.tag
    OBVIOUS
  <1>5. PICK r : r = ParseDockerRepoUrl(ref)
    OBVIOUS
  <1>6. PICK n \in Nat : n = Len(parts) /\ n >= 1
    BY <1>1, Parts
  <1>7. parts \in Seq(Part) /\ parts # <<>> /\ rest \in Seq(Part)
    <2>1. parts \in Seq(Part) /\ parts # <<>>
      BY <1>1, Parts
    <2>. QED
      BY <1>3, <2>1
  <1>8. DockerIndexServer \in Dotted /\ "" \notin Dotted /\ DockerIndexServer # "" /\ DockerIndexServer # "localhost"
    BY PartAssumption DEF DockerIndexServer
  <1>9. CASE n = 1
    <2>. Len(parts) = 1 /\ ~(Len(parts) > 1) /\ OfficialRegistry(parts)
      BY <1>6, <1>9 DEF OfficialRegistry
    <2>1. r = [index |-> "", remote |-> <<"library">> \o parts, tag |-> tag]
      BY <1>1, <1>4, <1>5 DEF ParseDockerRepoUrl
    <2>2. Meaning(ref) = [host |-> DockerIndexServer, tag |-> tag, path |-> <<"library", parts[1]>>]
      BY <1>1, <1>4 DEF Meaning
    <2>3. <<"library">> \o parts = <<"library", parts[1]>>
      BY <1>6, <1>7, <1>9, InLibrary
    <2>. QED
      BY <2>1, <2>2, <2>3, <1>5, Same
  <1>10. CASE n > 1 /\ first = DockerIndexServer /\ Len(rest) = 1
    <2>1. r = [index |-> first, remote |-> <<"library">> \o rest, tag |-> tag]
      BY <1>1, <1>2, <1>3, <1>4, <1>5, <1>6, <1>10 DEF ParseDockerRepoUrl, OfficialRegistry
    <2>2. Meaning(ref) = [host |-> first, tag |-> tag, path |-> <<"library", rest[1]>>]
      BY <1>1, <1>2, <1>3, <1>4, <1>6, <1>8, <1>10 DEF Meaning, IsHost
    <2>3. <<"library">> \o rest = <<"library", rest[1]>>
      BY <1>7, <1>10, InLibrary
    <2>. QED
      BY <2>1, <2>2, <2>3, <1>5, <1>8, <1>10, Same
  <1>11. CASE n > 1 /\ first \in Dotted \cup {"localhost"} /\ (first = DockerIndexServer => Len(rest) # 1)
    <2>4. Len(parts) > 1 /\ ~(OfficialRegistry(parts) /\ Len(rest) = 1)
          /\ (OfficialRegistry(parts) => first = DockerIndexServer)
      BY <1>2, <1>6, <1>11 DEF OfficialRegistry
    <2>1. r = [index |-> first, remote |-> rest, tag |-> tag]
      BY <1>1, <1>2, <1>3, <1>4, <1>5, <2>4 DEF ParseDockerRepoUrl
    <2>2. Meaning(ref) = [host |-> first, tag |-> tag, path |-> rest]
      BY <1>1, <1>2, <1>3, <1>4, <1>6, <1>8, <1>11 DEF Meaning, IsHost
    <2>3. first # ""
      BY <1>8, <1>11
    <2>. QED
      BY <2>1, <2>2, <2>3, <1>5, Same
  <1>12. CASE n > 1 /\ first \notin Dotted \cup {"localhost"}
    <2>3. Len(parts) # 1 /\ parts[1] \notin Dotted \cup {"localhost"}
      BY <1>2, <1>6, <1>12
    <2>. Len(parts) # 1 /\ OfficialRegistry(parts) /\ parts[1] # DockerIndexServer /\ ~IsHost(parts[1])
      BY <1>8, <2>3 DEF OfficialRegistry, IsHost
    <2>1. r = [index |-> "", remote |-> parts, tag |-> tag]
      BY <1>1, <1>4, <1>5 DEF ParseDockerRepoUrl
    <2>2. Meaning(ref) = [host |-> DockerIndexServer, tag |-> tag, path |-> parts]
      BY <1>1, <1>4 DEF Meaning
    <2>. QED
      BY <2>1, <2>2, <1>5, Same
  <1>13. n = 1 \/ n > 1
    BY <1>6
  <1>. QED
    BY <1>8, <1>9, <1>10, <1>11, <1>12, <1>13

-----------------------------------------------------------------------------
(* The ports.                                                              *)

LEMMA OnlyPort == Cardinality(AppPorts) = 1 => AppPorts # {}
  BY FS_EmptySet

\* Without a port of its own a route gets one that is not ssh's.
LEMMA ParsedFromFlag ==
    ASSUME NEW routes, \A r \in ToSet(routes) : HasContainerPort(r)
    PROVE  FromFlag(Parsed(routes), routes)
  <1>1. ASSUME NEW r \in ToSet(routes), ContainerPort(r) = SshPort PROVE r.port = SshPort
    <2>1. CASE r.port = Absent
      <3>1. AppPorts # {}
        BY <2>1, OnlyPort, SentinelAssumption DEF HasContainerPort
      <3>2. PICK i \in AppPorts : i = CHOOSE j \in AppPorts : TRUE
        BY <3>1
      <3>3. ContainerPort(r) = exposed[i]
        BY <2>1, <3>2 DEF ContainerPort
      <3>. QED
        BY <1>1, <3>3 DEF AppPorts
    <2>2. CASE r.port # Absent
      BY <1>1, <2>2 DEF ContainerPort
    <2>. QED
      BY <2>1, <2>2
  <1>2. ASSUME NEW i \in DOMAIN Parsed(routes)
        PROVE  routes[i] \in ToSet(routes) /\ Parsed(routes)[i].port = ContainerPort(routes[i])
    BY DEF Parsed, ToSet
  <1>3. ASSUME NEW i \in DOMAIN Parsed(routes), Parsed(routes)[i].port = SshPort
        PROVE  SshPort \in PortsOf(routes)
    BY <1>1, <1>2, <1>3 DEF PortsOf
  <1>4. SshPort \in PortsOf(Parsed(routes)) => \E i \in DOMAIN Parsed(routes) : Parsed(routes)[i].port = SshPort
    BY DEF PortsOf, ToSet
  <1>. QED
    BY <1>3, <1>4 DEF FromFlag

-----------------------------------------------------------------------------
(* Every step keeps it.                                                    *)

THEOREM Invariance == Spec => []IInv
  <1>1. Init => IInv
    <2>1. ToSet(<<>>) = {}
      BY DEF ToSet
    <2>. QED
      BY <2>1 DEF Init, IInv, FromFlag, PortsOf, Parsing, Exposing
  <1>2. IInv /\ [Next]_vars => IInv'
    <2> SUFFICES ASSUME IInv, [Next]_vars PROVE IInv'
      OBVIOUS
    <2>1. CASE Args
      BY <2>1 DEF IInv, Args, Goto, Exit, Creates, Parsing, Exposing, FromFlag, registry
    <2>2. CASE ParseImage
      BY <2>2 DEF IInv, ParseImage, Goto, Exit, Creates, Parsing, Exposing, FromFlag, registry
    <2>3. CASE MakeSession
      BY <2>3 DEF IInv, MakeSession, Goto, Exit, Creates, Parsing, Exposing, FromFlag, registry
    <2>4. CASE AskRegistry
      BY <2>4 DEF IInv, AskRegistry, Goto, Exit, Creates, Parsing, Exposing, FromFlag, registry
    <2>5. CASE ExposedPorts
      <3>1. exposed' # <<>> \/ stage' = "exited"
        <4>1. <<8080>> # <<>> /\ DefaultPorts # <<>>
          BY DEF DefaultPorts
        <4>2. line.ports \in Seq(Number)
          BY LinesAssumption DEF IInv, LineType
        <4>3. line.ports # <<>> => DOMAIN line.ports # {}
          <5>1. \A s \in Seq(Number) : s # <<>> => 1 \in DOMAIN s
            OBVIOUS
          <5>. QED
            BY <4>2, <5>1
        <4>4. \A f : DOMAIN f # {} => f # <<>>
          OBVIOUS
        <4>. QED
          BY <2>5, <4>1, <4>3, <4>4 DEF ExposedPorts, Exit
      <3>. QED
        BY <2>5, <3>1 DEF IInv, ExposedPorts, Goto, Exit, Creates, Parsing, Exposing, FromFlag,
                          registry
    <2>6. CASE GetMonitorConfig
      BY <2>6 DEF IInv, GetMonitorConfig, MonitorOn, Monitor, MonitorError, Goto, Exit, Creates,
                  Parsing, Exposing, FromFlag, registry
    <2>7. CASE StartCommand
      BY <2>7 DEF IInv, StartCommand, Goto, Exit, Creates, Parsing, Exposing, FromFlag, registry
    <2>8. CASE ParseHttp
      <3>1. FromFlag(http, line.http)'
        <4>1. CASE http' = http
          BY <2>8, <4>1 DEF ParseHttp, IInv, FromFlag
        <4>2. CASE http' = Parsed(line.http) /\ \A r \in ToSet(line.http) : HasContainerPort(r)
          <5>1. FromFlag(Parsed(line.http), line.http)
            BY <4>2, ParsedFromFlag
          <5>. QED
            BY <2>8, <4>2, <5>1 DEF ParseHttp, FromFlag
        <4>. QED
          BY <2>8, <4>1, <4>2 DEF ParseHttp
      <3>. QED
        BY <2>8, <3>1 DEF IInv, ParseHttp, Goto, Exit, Creates, Parsing, Exposing, FromFlag,
                          registry
    <2>9. CASE ParseTcp
      <3>1. FromFlag(tcp, line.tcp)' /\ (\A r \in ToSet(tcp) : r.from \notin ReservedPorts)'
        <4>1. CASE tcp' = tcp
          BY <2>9, <4>1 DEF ParseTcp, IInv, FromFlag
        <4>2. CASE /\ tcp' = Parsed(line.tcp)
                   /\ \A r \in ToSet(line.tcp) : HasContainerPort(r) /\ r.from \notin ReservedPorts
          <5>1. FromFlag(Parsed(line.tcp), line.tcp)
            BY <4>2, ParsedFromFlag
          <5>2. \A r \in ToSet(Parsed(line.tcp)) : r.from \notin ReservedPorts
            BY <4>2 DEF Parsed, ToSet
          <5>. QED
            BY <2>9, <4>2, <5>1, <5>2 DEF ParseTcp, FromFlag
        <4>. QED
          BY <2>9, <4>1, <4>2 DEF ParseTcp
      <3>. QED
        BY <2>9, <3>1 DEF IInv, ParseTcp, Goto, Exit, Creates, Parsing, Exposing, FromFlag, registry
    <2>10. CASE Request
      BY <2>10 DEF IInv, Request, Goto, Exit, Creates, Parsing, Exposing, FromFlag, registry
    <2>11. CASE UNCHANGED vars
      BY <2>11 DEF IInv, vars, registry, Creates, FromFlag
    <2>. QED
      BY <2>1, <2>2, <2>3, <2>4, <2>5, <2>6, <2>7, <2>8, <2>9, <2>10, <2>11 DEF Next
  <1>. QED
    BY <1>1, <1>2, PTL DEF Spec

\* Whatever the image argument, an app that is requested runs the very image that
\* docker would pull for it, and it is the one whose metadata were used.
THEOREM TheImageIsTheNamed == Spec => []RunsTheImageNamed
  <1>1. IInv => RunsTheImageNamed
    <2> SUFFICES ASSUME IInv, Requested, Creates PROVE fetched = rootFS /\ Means(rootFS, line.name)
      BY DEF RunsTheImageNamed
    <2>1. line.name \in Reference
      <3>1. line \in LineType
        BY LinesAssumption DEF IInv
      <3>. QED
        BY <3>1 DEF LineType
    <2>2. fetched = ParseDockerRepoUrl(line.name) /\ rootFS = ParseDockerRepoUrl(line.name)
      BY DEF IInv, Requested
    <2>. QED
      BY <2>1, <2>2, ParseMeans
  <1>. QED
    BY <1>1, Invariance, PTL

\* The one cause of a panic is the argument docker.io alone: GetMonitorConfig always
\* has a port to take, whatever the flags, the image and the ports that wrap around.
THEOREM PanicHasOneCause == Spec => [](code = "panic" => OutOfRange(line.name))
  <1>1. IInv => (code = "panic" => OutOfRange(line.name))
    BY DEF IInv
  <1>. QED
    BY <1>1, Invariance, PTL

\* So where nobody names that image no command line makes ltc panic.
THEOREM NobodyPanics ==
    ASSUME \A l \in Lines : ~OutOfRange(l.name) PROVE Spec => []NoPanic
  <1>1. IInv => NoPanic
    BY DEF IInv, NoPanic
  <1>. QED
    BY <1>1, Invariance, PTL

\* A route whose container port was left out never ends at the ssh daemon, and no
\* external port is one that Lattice itself listens on.
THEOREM RoutesAvoidSsh == Spec => []SshIsNotRouted
  <1>1. IInv => SshIsNotRouted
    <2> SUFFICES ASSUME IInv PROVE SshIsNotRouted
      OBVIOUS
    <2>1. SshPort \in PortsOf(http) \cup PortsOf(tcp) => SshPort \in PortsOf(line.http) \cup PortsOf(line.tcp)
      BY DEF IInv, FromFlag
    <2>2. \A r \in ToSet(tcp) : r.from \notin ReservedPorts
      BY DEF IInv
    <2>. QED
      BY <2>1, <2>2 DEF SshIsNotRouted
  <1>. QED
    BY <1>1, Invariance, PTL

-----------------------------------------------------------------------------
(* Sequences of the members of a set, all of them.                         *)

LEMMA LeastNumber ==
    ASSUME NEW S \in SUBSET Nat, S # {}
    PROVE  \E m \in S : \A k \in S : m <= k
  <1> DEFINE Below == {0 .. k : k \in S}
  <1>1. Below \subseteq FiniteSubsetsOf(Nat) /\ Below # {}
    <2>1. \A k \in S : k \in Int /\ 0 \in Int /\ 0 .. k \in SUBSET Nat
      OBVIOUS
    <2>2. \A k \in S : IsFiniteSet(0 .. k)
      BY <2>1, FS_Interval
    <2>. QED
      BY <2>1, <2>2 DEF FiniteSubsetsOf
  <1>2. PICK B \in Below : \A C \in Below : ~ (<<C, B>> \in StrictSubsetOrdering(Nat))
    BY <1>1, FS_StrictSubsetOrderingWellFounded, WFMin
  <1>3. PICK m \in S : B = 0 .. m
    OBVIOUS
  <1>4. ASSUME NEW k \in S, k < m PROVE FALSE
    <2>1. 0 .. k \subseteq 0 .. m /\ 0 .. k # 0 .. m /\ 0 .. k \in SUBSET Nat /\ 0 .. m \in SUBSET Nat
      <3>1. m \in 0 .. m /\ m \notin 0 .. k
        BY <1>4
      <3>. QED
        BY <1>4, <3>1
    <2>2. <<0 .. k, 0 .. m>> \in StrictSubsetOrdering(Nat)
      BY <2>1 DEF StrictSubsetOrdering
    <2>. QED
      BY <1>2, <1>3, <2>2
  <1>. QED
    BY <1>4

\* What there is of T, in some order, each at least once.
Lists(s, T) == s \in Seq(T) /\ \A x \in T : \E i \in DOMAIN s : s[i] = x

LEMMA ListsNone == Lists(<<>>, {})
  BY DEF Lists

LEMMA ListsOne == \A x : Lists(<<x>>, {x})
  <1> SUFFICES ASSUME NEW x PROVE Lists(<<x>>, {x})
    OBVIOUS
  <1>1. DOMAIN <<x>> = {1} /\ <<x>>[1] = x
    OBVIOUS
  <1>2. <<x>> \in Seq({x})
    OBVIOUS
  <1>. QED
    BY <1>1, <1>2 DEF Lists

LEMMA ListsConcat ==
    ASSUME NEW S, NEW T, NEW s, Lists(s, S), NEW t, Lists(t, T)
    PROVE  Lists(s \o t, S \cup T)
  <1> DEFINE U == S \cup T
             u == s \o t
  <1>1. s \in Seq(U) /\ t \in Seq(U)
    <2>1. s \in Seq(S) /\ t \in Seq(T) /\ S \subseteq U /\ T \subseteq U
      BY DEF Lists
    <2>. QED
      BY <2>1
  <1>2. PICK a \in Nat, b \in Nat : a = Len(s) /\ b = Len(t)
    BY <1>1
  <1>3. /\ u \in Seq(U) /\ Len(u) = a + b
        /\ \A i \in 1 .. a + b : u[i] = IF i <= a THEN s[i] ELSE t[i - a]
    BY <1>1, <1>2, ConcatProperties
  <1>4. DOMAIN s = 1 .. a /\ DOMAIN t = 1 .. b /\ DOMAIN u = 1 .. a + b
    BY <1>1, <1>2, <1>3, LenProperties
  <1>5. (\A i \in 1 .. a : s[i] \in S /\ u[i] = s[i])
        /\ (\A i \in 1 .. b : t[i] \in T /\ i + a \in 1 .. a + b /\ u[i + a] = t[i])
    <2>1. \A i \in 1 .. a : s[i] \in S
      BY <1>4 DEF Lists
    <2>2. \A i \in 1 .. b : t[i] \in T
      BY <1>4 DEF Lists
    <2>. QED
      BY <1>3, <2>1, <2>2
  <1>8. \A x \in U : \E i \in 1 .. a + b : u[i] = x
    <2>1. ASSUME NEW x \in S PROVE \E i \in 1 .. a + b : u[i] = x
      <3>1. PICK i \in 1 .. a : s[i] = x
        BY <1>4 DEF Lists
      <3>2. i \in 1 .. a + b
        OBVIOUS
      <3>. QED
        BY <1>5, <3>1, <3>2
    <2>2. ASSUME NEW x \in T PROVE \E i \in 1 .. a + b : u[i] = x
      <3>1. PICK i \in 1 .. b : t[i] = x
        BY <1>4 DEF Lists
      <3>. QED
        BY <1>5, <3>1
    <2>. QED
      BY <2>1, <2>2
  <1>. QED
    BY <1>3, <1>4, <1>8 DEF Lists

\* FlattenSeq puts one sequence behind the other.
Chained(n, ss, g) == g = [i \in 1 .. n |-> IF i = 1 THEN ss[i] ELSE g[i - 1] \o ss[i]]

LEMMA ChainExists ==
    ASSUME NEW n \in Nat, NEW ss PROVE \E g : Chained(n, ss, g)
  <1> DEFINE Without == {k \in 0 .. n : ~ \E g : Chained(k, ss, g)}
  <1>1. SUFFICES ASSUME Without # {} PROVE FALSE
    OBVIOUS
  <1>2. PICK k \in Without : \A m \in Without : k <= m
    <2>1. Without \in SUBSET Nat
      OBVIOUS
    <2> HIDE DEF Without
    <2>. QED
      BY <1>1, <2>1, LeastNumber
  <1>3. k # 0
    <2>1. Chained(0, ss, <<>>)
      BY DEF Chained
    <2>. QED
      BY <2>1
  <1>4. PICK g : Chained(k - 1, ss, g)
    BY <1>2, <1>3
  <1> DEFINE h == [i \in 1 .. k |-> IF i = 1 THEN ss[i] ELSE g[i - 1] \o ss[i]]
  <1>5. \A i \in 1 .. k - 1 : h[i] = g[i]
    <2>1. \A i \in 1 .. k - 1 : i \in 1 .. k
      OBVIOUS
    <2>2. \A i \in 1 .. k - 1 : g[i] = IF i = 1 THEN ss[i] ELSE g[i - 1] \o ss[i]
      BY <1>4 DEF Chained
    <2>. QED
      BY <2>1, <2>2
  <1>6. \A i \in 1 .. k : h[i] = IF i = 1 THEN ss[i] ELSE h[i - 1] \o ss[i]
    <2> SUFFICES ASSUME NEW i \in 1 .. k PROVE h[i] = IF i = 1 THEN ss[i] ELSE h[i - 1] \o ss[i]
      OBVIOUS
    <2>1. i # 1 => i - 1 \in 1 .. k - 1
      OBVIOUS
    <2>2. i # 1 => h[i - 1] = g[i - 1]
      BY <1>5, <2>1
    <2>. QED
      BY <2>2
  <1>7. Chained(k, ss, h)
    <2>1. h = [i \in 1 .. k |-> h[i]]
      OBVIOUS
    <2> HIDE DEF h
    <2>. QED
      BY <1>6, <2>1 DEF Chained
  <1>. QED
    BY <1>7

LEMMA ListsFlatten ==
    ASSUME NEW n \in Nat, NEW ss, ss = [i \in 1 .. n |-> ss[i]], NEW TT,
           \A i \in 1 .. n : Lists(ss[i], TT[i])
    PROVE  Lists(FlattenSeq(ss), UNION {TT[i] : i \in 1 .. n})
  <1> DEFINE Upto(k) == UNION {TT[i] : i \in 1 .. k}
             Odd == {k \in 1 .. n : ~ Lists((CHOOSE g : Chained(n, ss, g))[k], Upto(k))}
  <1>1. DOMAIN ss = 1 .. n /\ Len(ss) = n
    <2>1. ss \in Seq({ss[i] : i \in 1 .. n})
      OBVIOUS
    <2>. QED
      BY <2>1
  <1>2. CASE n = 0
    <2>1. Len(ss) = 0 /\ ss = <<>> /\ UNION {TT[i] : i \in 1 .. n} = {}
      BY <1>1, <1>2
    <2>2. FlattenSeq(ss) = <<>>
      BY <2>1 DEF FlattenSeq
    <2>. QED
      BY <2>1, <2>2, ListsNone
  <1>3. CASE n # 0
    <2>1. PICK f : f = CHOOSE g : Chained(n, ss, g)
      OBVIOUS
    <2>2. Chained(n, ss, f)
      BY <2>1, ChainExists
    <2>3. FlattenSeq(ss) = f[n]
      BY <1>1, <1>3, <2>1 DEF FlattenSeq, Chained
    <2>4. \A i \in 1 .. n : f[i] = IF i = 1 THEN ss[i] ELSE f[i - 1] \o ss[i]
      BY <2>2 DEF Chained
    <2>5. ASSUME Odd # {} PROVE FALSE
      <3>1. PICK k \in Odd : \A m \in Odd : k <= m
        <4>1. Odd \in SUBSET Nat
          OBVIOUS
        <4> HIDE DEF Odd
        <4>. QED
          BY <2>5, <4>1, LeastNumber
      <3>2. k \in 1 .. n /\ ~ Lists(f[k], Upto(k))
        BY <2>1, <3>1
      <3>3. CASE k = 1
        <4>1. Upto(k) = TT[1] /\ f[k] = ss[1]
          <5>1. {TT[i] : i \in 1 .. k} = {TT[1]}
            BY <3>3
          <5>2. f[k] = ss[1]
            BY <2>4, <3>2, <3>3
          <5>. QED
            BY <5>1, <5>2
        <4>. QED
          BY <3>2, <3>3, <4>1
      <3>4. CASE k # 1
        <4>1. k - 1 \in 1 .. n /\ k - 1 \notin Odd
          <5>1. k - 1 \in 1 .. n /\ ~ (k <= k - 1)
            BY <3>2, <3>4
          <5> HIDE DEF Odd
          <5>. QED
            BY <3>1, <5>1
        <4>2. Lists(f[k - 1], Upto(k - 1))
          BY <2>1, <4>1
        <4>3. f[k] = f[k - 1] \o ss[k] /\ Lists(ss[k], TT[k])
          BY <2>4, <3>2, <3>4
        <4>4. Upto(k) = Upto(k - 1) \cup TT[k]
          <5>1. 1 .. k = (1 .. k - 1) \cup {k}
            BY <3>2
          <5>. QED
            BY <5>1
        <4>6. Lists(f[k - 1] \o ss[k], Upto(k - 1) \cup TT[k])
          <5> HIDE DEF Upto
          <5>. QED
            BY <4>2, <4>3, ListsConcat
        <4> HIDE DEF Upto
        <4>. QED
          BY <3>2, <4>3, <4>4, <4>6
      <3>. QED
        BY <3>3, <3>4
    <2>6. Lists(f[n], Upto(n))
      <3>1. n \in 1 .. n
        BY <1>3
      <3> HIDE DEF Upto
      <3>. QED
        BY <2>1, <2>5, <3>1
    <2>. QED
      BY <2>3, <2>6
  <1>. QED
    BY <1>2, <1>3

LEMMA ListsInjection ==
    ASSUME NEW S, IsFiniteSet(S), NEW s \in [1 .. Cardinality(S) -> S], IsInjective(s)
    PROVE  Lists(s, S)
  <1>1. PICK n \in Nat : n = Cardinality(S)
    BY FS_CardinalityType
  <1>2. s \in Injection(1 .. n, S)
    BY <1>1 DEF Injection
  <1>3. IsFiniteSet(1 .. n) /\ Cardinality(1 .. n) = n
    BY FS_Interval
  <1>4. s \in Surjection(1 .. n, S)
    BY <1>1, <1>2, <1>3, FS_Injection
  <1>5. \A x \in S : \E i \in 1 .. n : s[i] = x
    BY <1>4 DEF Surjection
  <1>. QED
    BY <1>1, <1>5 DEF Lists

LEMMA ListsSet == ASSUME NEW S, IsFiniteSet(S) PROVE Lists(SetToSeq(S), S)
  <1>1. \E f \in [1 .. Cardinality(S) -> S] : IsInjective(f)
    BY FS_CardinalityType DEF ExistsBijection, Bijection, Injection
  <1>2. SetToSeq(S) \in [1 .. Cardinality(S) -> S] /\ IsInjective(SetToSeq(S))
    BY <1>1 DEF SetToSeq
  <1>. QED
    BY <1>2, ListsInjection

\* s has the numbers of S from the least to the greatest.
Ordered(S, s) ==
    s \in [1 .. Cardinality(S) -> S] /\ \A i, j \in 1 .. Cardinality(S) : i < j => s[i] < s[j]

\* Numbers can be sorted: of the smallest set that could not, the least number
\* goes before the others.
LEMMA OrderExists ==
    ASSUME NEW S \in SUBSET Nat, IsFiniteSet(S) PROVE \E s : Ordered(S, s)
  <1> DEFINE Mixed == {T \in SUBSET S : ~ \E s : Ordered(T, s)}
  <1>1. SUFFICES ASSUME Mixed # {} PROVE FALSE
    OBVIOUS
  <1>2. PICK T \in Mixed : \A U \in Mixed : ~ (<<U, T>> \in StrictSubsetOrdering(S))
    <2>1. Mixed \subseteq FiniteSubsetsOf(S)
      BY FS_Subset DEF FiniteSubsetsOf
    <2> HIDE DEF Mixed
    <2>. QED
      BY <1>1, <2>1, FS_StrictSubsetOrderingWellFounded, WFMin
  <1>3. T \in SUBSET S /\ IsFiniteSet(T) /\ T \in SUBSET Nat
    BY FS_Subset
  <1>4. T # {}
    <2>1. Ordered({}, <<>>)
      BY FS_EmptySet DEF Ordered
    <2>. QED
      BY <2>1
  <1>5. PICK m \in T : \A k \in T : m <= k
    BY <1>3, <1>4, LeastNumber
  <1> DEFINE U == T \ {m}
  <1>6. PICK n \in Nat : n = Cardinality(U)
    BY <1>3, FS_RemoveElement, FS_CardinalityType
  <1>7. Cardinality(T) = n + 1
    <2>1. Cardinality(T \ {m}) = Cardinality(T) - 1
      BY <1>3, FS_RemoveElement
    <2>2. Cardinality(T) \in Nat
      BY <1>3, FS_CardinalityType
    <2>. QED
      BY <1>6, <2>1, <2>2
  <1>8. PICK r : Ordered(U, r)
    <2>1. U \in SUBSET S /\ <<U, T>> \in StrictSubsetOrdering(S)
      BY <1>3 DEF StrictSubsetOrdering
    <2> HIDE DEF U
    <2>. QED
      BY <1>2, <2>1
  <1> DEFINE s == [i \in 1 .. n + 1 |-> IF i = 1 THEN m ELSE r[i - 1]]
  <1>9. r \in [1 .. n -> U] /\ \A i, j \in 1 .. n : i < j => r[i] < r[j]
    BY <1>6, <1>8 DEF Ordered
  <1>10. \A i \in 1 .. n + 1 : i = 1 \/ i - 1 \in 1 .. n
    OBVIOUS
  <1>11. \A i \in 1 .. n + 1 : s[i] \in T /\ (i # 1 => s[i] = r[i - 1] /\ r[i - 1] \in U)
    BY <1>9, <1>10
  <1>12. s \in [1 .. n + 1 -> T]
    BY <1>11
  <1>13. ASSUME NEW i \in 1 .. n + 1, NEW j \in 1 .. n + 1, i < j PROVE s[i] < s[j]
    <2>1. j # 1 /\ j - 1 \in 1 .. n /\ s[j] = r[j - 1] /\ r[j - 1] \in U
      BY <1>11, <1>13
    <2>2. CASE i = 1
      <3>1. s[i] = m /\ m <= r[j - 1] /\ r[j - 1] # m /\ m \in Nat /\ r[j - 1] \in Nat
        BY <1>3, <1>5, <2>1, <2>2
      <3>. QED
        BY <2>1, <3>1
    <2>3. CASE i # 1
      <3>1. i - 1 \in 1 .. n /\ i - 1 < j - 1 /\ s[i] = r[i - 1]
        BY <1>11, <1>13, <2>3
      <3>. QED
        BY <1>9, <2>1, <3>1
    <2>. QED
      BY <2>2, <2>3
  <1>14. Ordered(T, s)
    <2> HIDE DEF s
    <2>. QED
      BY <1>7, <1>12, <1>13 DEF Ordered
  <1>. QED
    BY <1>14

LEMMA ListsSorted == ASSUME NEW S \in SUBSET Nat, IsFiniteSet(S) PROVE Lists(Sorted(S), S)
  <1>1. PICK r : Ordered(S, r)
    BY OrderExists
  <1>2. PICK n \in Nat : n = Cardinality(S)
    BY FS_CardinalityType
  <1>3. PICK s : s = Sorted(S)
    OBVIOUS
  <1>4. s \in [1 .. n -> S] /\ \A i, j \in 1 .. n : i < j => s[i] < s[j]
    <2>1. r \in [1 .. n -> S] /\ \A i, j \in DOMAIN r : i < j => r[i] < r[j]
      BY <1>1, <1>2 DEF Ordered
    <2>2. s = CHOOSE t \in [1 .. n -> S] : \A i, j \in DOMAIN t : i < j => t[i] < t[j]
      BY <1>2, <1>3 DEF Sorted
    <2>3. s \in [1 .. n -> S] /\ \A i, j \in DOMAIN s : i < j => s[i] < s[j]
      BY <2>1, <2>2
    <2>. QED
      BY <2>3
  <1>5. IsInjective(s)
    <2> SUFFICES ASSUME NEW i \in 1 .. n, NEW j \in 1 .. n, s[i] = s[j] PROVE i = j
      BY <1>4 DEF IsInjective
    <2>1. s[i] \in Nat /\ s[j] \in Nat
      BY <1>4
    <2>2. ~ (s[i] < s[j]) /\ ~ (s[j] < s[i])
      BY <2>1
    <2>3. ~ (i < j) /\ ~ (j < i)
      BY <1>4, <2>2
    <2>. QED
      BY <2>3
  <1>. QED
    BY <1>2, <1>3, <1>4, <1>5, ListsInjection

LEMMA ListsShow == ASSUME NEW s, NEW T, Lists(s, T) PROVE ToSet(s) = T
  <1>1. PICK n \in Nat : n = Len(s) /\ DOMAIN s = 1 .. n
    BY LenProperties DEF Lists
  <1>2. s \in [1 .. n -> T]
    BY <1>1 DEF Lists
  <1>. QED
    BY <1>1, <1>2 DEF Lists, ToSet

\* Any sequence lists its own members.
LEMMA ListsToSet == ASSUME NEW S, NEW s \in Seq(S) PROVE Lists(s, ToSet(s)) /\ ToSet(s) \subseteq S
  <1>1. PICK n \in Nat : n = Len(s) /\ DOMAIN s = 1 .. n /\ s \in [1 .. n -> S]
    BY LenProperties
  <1>2. PICK T : T = ToSet(s)
    OBVIOUS
  <1>3. T = {s[i] : i \in 1 .. n}
    BY <1>1, <1>2 DEF ToSet
  <1>4. s \in [1 .. n -> T] /\ T \subseteq S
    BY <1>1, <1>3
  <1>5. s \in Seq(T)
    BY <1>4
  <1>. QED
    BY <1>1, <1>2, <1>3, <1>4, <1>5 DEF Lists

-----------------------------------------------------------------------------
(* Routes, from the receptor to the eye.                                   *)

\* Of the routes T those on the ports P, and where from those on one port are.
On(T, P) == {r \in T : r.port \in P}
Froms(T, n) == {r.from : r \in On(T, {n})}

LEMMA ListsOnPorts ==
    ASSUME NEW s, NEW T, Lists(Each(s), T), NEW P PROVE Lists(OnPorts(s, P), On(T, P))
  <1>1. PICK all : all = Each(s)
    OBVIOUS
  <1>2. PICK n \in Nat : n = Len(all) /\ DOMAIN all = 1 .. n
    BY <1>1, LenProperties DEF Lists
  <1> DEFINE ss == [i \in 1 .. n |-> IF all[i].port \in P THEN <<all[i]>> ELSE <<>>]
             TT == [i \in 1 .. n |-> IF all[i].port \in P THEN {all[i]} ELSE {}]
  <1>3. ss = [i \in 1 .. n |-> ss[i]]
    OBVIOUS
  <1>4. \A i \in 1 .. n : Lists(ss[i], TT[i])
    BY ListsOne, ListsNone
  <1>6. Lists(FlattenSeq(ss), UNION {TT[i] : i \in 1 .. n})
    <2> HIDE DEF ss, TT
    <2>. QED
      BY <1>3, <1>4, ListsFlatten
  <1>7. UNION {TT[i] : i \in 1 .. n} = On(T, P)
    <2>1. \A i \in 1 .. n : all[i] \in T
      BY <1>1, <1>2 DEF Lists
    <2>2. \A x \in T : \E i \in 1 .. n : all[i] = x
      BY <1>1, <1>2 DEF Lists
    <2>3. \A i \in 1 .. n : TT[i] \subseteq On(T, P)
      BY <2>1 DEF On
    <2>4. \A x \in On(T, P) : \E i \in 1 .. n : x \in TT[i]
      BY <2>2 DEF On
    <2> HIDE DEF TT
    <2>. QED
      BY <2>3, <2>4
  <1>8. OnPorts(s, P) = FlattenSeq(ss)
    BY <1>1, <1>2 DEF OnPorts
  <1>. QED
    BY <1>6, <1>7, <1>8

\* Routes each of which has all the hostnames of its port, and one at least for every
\* port, stand for a set of routes between a hostname and a port.
PerPort(list, T) ==
    \E n \in Nat :
        /\ list = [i \in 1 .. n |-> list[i]]
        /\ \A i \in 1 .. n : Lists(list[i].hostnames, Froms(T, list[i].port))
        /\ \A r \in T : \E i \in 1 .. n : list[i].port = r.port

LEMMA PerPortLists ==
    ASSUME NEW s, NEW T, PerPort(s, T)
    PROVE  \E E : /\ Lists(s, E)
                  /\ \A e \in E : Lists(e.hostnames, Froms(T, e.port))
                  /\ \A r \in T : \E e \in E : e.port = r.port
  <1>1. PICK n \in Nat : /\ s = [i \in 1 .. n |-> s[i]]
                         /\ \A i \in 1 .. n : Lists(s[i].hostnames, Froms(T, s[i].port))
                         /\ \A r \in T : \E i \in 1 .. n : s[i].port = r.port
    BY DEF PerPort
  <1> DEFINE E == {s[i] : i \in 1 .. n}
  <1>2. Lists(s, E)
    <2>1. s \in [1 .. n -> E]
      BY <1>1
    <2>2. s \in Seq(E) /\ DOMAIN s = 1 .. n
      BY <2>1
    <2>. QED
      BY <2>2 DEF Lists
  <1>3. \A e \in E : Lists(e.hostnames, Froms(T, e.port))
    BY <1>1
  <1>5. \A r \in T : \E e \in E : e.port = r.port
    BY <1>1
  <1> HIDE DEF E
  <1>. QED
    BY <1>2, <1>3, <1>5

LEMMA ListsHostnames ==
    ASSUME NEW s, NEW T, PerPort(Each(s), T), NEW p
    PROVE  Lists(HostnamesByPort(s, p), Froms(T, p))
  <1>1. PICK E : /\ Lists(Each(s), E)
                 /\ \A e \in E : Lists(e.hostnames, Froms(T, e.port))
                 /\ \A r \in T : \E e \in E : e.port = r.port
    BY PerPortLists
  <1>2. PICK on : on = OnPorts(s, {p})
    OBVIOUS
  <1>3. Lists(on, On(E, {p}))
    BY <1>1, <1>2, ListsOnPorts
  <1>4. PICK n \in Nat : n = Len(on) /\ DOMAIN on = 1 .. n /\ \A i \in 1 .. n : on[i] \in On(E, {p})
    <2>1. on \in Seq(On(E, {p}))
      BY <1>3 DEF Lists
    <2>2. PICK n \in Nat : n = Len(on)
      BY <2>1
    <2>3. DOMAIN on = 1 .. n /\ \A i \in 1 .. n : on[i] \in On(E, {p})
      BY <2>1, <2>2
    <2>. QED
      BY <2>2, <2>3
  <1>5. CASE \E e \in E : e.port = p
    <2>1. PICK e \in E : e.port = p
      BY <1>5
    <2>2. PICK i \in 1 .. n : on[i] = e
      BY <1>3, <1>4, <2>1 DEF Lists, On
    <2>3. n # 0 /\ on[n] \in On(E, {p})
      <3>1. n # 0 /\ n \in 1 .. n
        BY <2>2
      <3>. QED
        BY <1>4, <3>1
    <2>4. on # <<>> /\ Last(on) = on[n]
      BY <1>4, <2>3 DEF Last
    <2>5. HostnamesByPort(s, p) = on[n].hostnames
      BY <1>2, <2>4 DEF HostnamesByPort
    <2>. QED
      BY <1>1, <2>3, <2>5 DEF On
  <1>6. CASE ~ \E e \in E : e.port = p
    <2>1. On(E, {p}) = {} /\ Froms(T, p) = {}
      BY <1>1, <1>6 DEF On, Froms
    <2>2. n = 0
      <3>1. n # 0 => 1 \in 1 .. n
        OBVIOUS
      <3>. QED
        BY <1>4, <2>1, <3>1
    <2>3. on = <<>>
      BY <1>3, <1>4, <2>2 DEF Lists
    <2>4. HostnamesByPort(s, p) = <<>>
      BY <1>2, <2>3 DEF HostnamesByPort
    <2>. QED
      BY <2>1, <2>4, ListsNone
  <1>. QED
    BY <1>5, <1>6

LEMMA ListsNames ==
    ASSUME NEW T, NEW n, NEW s, Lists(s, On(T, {n})) PROVE Lists(Hostnames(s), Froms(T, n))
  <1>1. PICK k \in Nat : k = Len(s) /\ DOMAIN s = 1 .. k
    BY LenProperties DEF Lists
  <1>2. PICK h, R : h = Hostnames(s) /\ R = Froms(T, n)
    OBVIOUS
  <1>3. h = [i \in 1 .. k |-> s[i].from]
    BY <1>1, <1>2 DEF Hostnames
  <1>4. \A i \in 1 .. k : s[i] \in On(T, {n})
    BY <1>1 DEF Lists
  <1>5. h \in [1 .. k -> R]
    BY <1>2, <1>3, <1>4 DEF Froms
  <1>6. h \in Seq(R) /\ DOMAIN h = 1 .. k
    BY <1>5
  <1>7. \A x \in R : \E i \in 1 .. k : h[i] = x
    <2>1. ASSUME NEW x \in R PROVE \E i \in 1 .. k : h[i] = x
      <3>1. PICK r \in On(T, {n}) : r.from = x
        BY <1>2 DEF Froms
      <3>2. PICK i \in 1 .. k : s[i] = r
        BY <1>1 DEF Lists
      <3>. QED
        BY <1>3, <3>1, <3>2
    <2>. QED
      BY <2>1
  <1>. QED
    BY <1>2, <1>6, <1>7 DEF Lists

LEMMA ListsTo ==
    ASSUME NEW F, NEW N, NEW T \in SUBSET [from : F, port : N], NEW p, NEW h, Lists(h, Froms(T, p))
    PROVE  Lists(To(h, p), On(T, {p}))
  <1>1. PICK n \in Nat : n = Len(h) /\ DOMAIN h = 1 .. n
    BY LenProperties DEF Lists
  <1>2. PICK t : t = To(h, p)
    OBVIOUS
  <1>3. t = [i \in 1 .. n |-> [from |-> h[i], port |-> p]]
    BY <1>1, <1>2 DEF To
  <1>4. \A r \in T : r = [from |-> r.from, port |-> r.port]
    OBVIOUS
  <1>5. \A i \in 1 .. n : t[i] \in On(T, {p})
    <2>1. ASSUME NEW i \in 1 .. n PROVE t[i] \in On(T, {p})
      <3>1. h[i] \in Froms(T, p)
        BY <1>1 DEF Lists
      <3>2. PICK r \in T : r.port = p /\ r.from = h[i]
        BY <3>1 DEF Froms, On
      <3>3. t[i] = r
        BY <1>3, <1>4, <3>2
      <3>. QED
        BY <3>2, <3>3 DEF On
    <2>. QED
      BY <2>1
  <1>6. \A r \in On(T, {p}) : \E i \in 1 .. n : t[i] = r
    <2>1. ASSUME NEW r \in On(T, {p}) PROVE \E i \in 1 .. n : t[i] = r
      <3>1. r \in T /\ r.port = p /\ r.from \in Froms(T, p)
        BY DEF On, Froms
      <3>2. PICK i \in 1 .. n : h[i] = r.from
        BY <1>1, <3>1 DEF Lists
      <3>. QED
        BY <1>3, <1>4, <3>1, <3>2
    <2>. QED
      BY <2>1
  <1>8. t \in Seq(On(T, {p})) /\ DOMAIN t = 1 .. n
    <2>1. t \in [1 .. n -> On(T, {p})]
      BY <1>3, <1>5
    <2>2. PICK R : R = On(T, {p})
      OBVIOUS
    <2>3. t \in [1 .. n -> R]
      BY <2>1, <2>2
    <2>4. t \in Seq(R) /\ DOMAIN t = 1 .. n
      BY <2>3
    <2>. QED
      BY <2>2, <2>4
  <1>. QED
    BY <1>2, <1>6, <1>8 DEF Lists

\* What is shown port by port is what there is on these ports.
\* p has the ports P, and ss a list of the routes on each, in the same order.
PortsAt(n, p, P) == P = {p[i] : i \in 1 .. n}
OnEachPort(T, n, p, ss) ==
    ss = [i \in 1 .. n |-> ss[i]] /\ \A i \in 1 .. n : Lists(ss[i], On(T, {p[i]}))

LEMMA ListsByPort ==
    ASSUME NEW T, NEW n \in Nat, NEW p, NEW P, PortsAt(n, p, P), NEW ss, OnEachPort(T, n, p, ss)
    PROVE  Lists(FlattenSeq(ss), On(T, P))
  <1>. USE DEF PortsAt, OnEachPort
  <1> DEFINE TT == [i \in 1 .. n |-> On(T, {p[i]})]
  <1>1. \A i \in 1 .. n : Lists(ss[i], TT[i])
    OBVIOUS
  <1>3. UNION {TT[i] : i \in 1 .. n} = On(T, P)
    BY DEF On
  <1>4. Lists(FlattenSeq(ss), UNION {TT[i] : i \in 1 .. n})
    <2> HIDE DEF TT
    <2>. QED
      BY <1>1, ListsFlatten
  <1>. QED
    BY <1>3, <1>4

LEMMA ListedHttp ==
    ASSUME NEW F, NEW N, NEW T \in SUBSET [from : F, port : N], NEW info, NEW P,
           PerPort(Each(RoutesFromRoutingInfo(info).cf), T)
    PROVE  Lists(GetRoutes(info, P).http, On(T, P))
  <1>1. PICK s : s = RoutesFromRoutingInfo(info).cf
    OBVIOUS
  <1>2. PICK E : /\ Lists(Each(s), E)
                 /\ \A e \in E : Lists(e.hostnames, Froms(T, e.port))
                 /\ \A r \in T : \E e \in E : e.port = r.port
    BY <1>1, PerPortLists
  <1>3. PICK cf : cf = OnPorts(s, P)
    OBVIOUS
  <1>4. Lists(cf, On(E, P))
    BY <1>2, <1>3, ListsOnPorts
  <1>5. PICK n \in Nat : n = Len(cf) /\ DOMAIN cf = 1 .. n /\ \A i \in 1 .. n : cf[i] \in On(E, P)
    <2>1. cf \in Seq(On(E, P))
      BY <1>4 DEF Lists
    <2>2. PICK n \in Nat : n = Len(cf)
      BY <2>1
    <2>3. DOMAIN cf = 1 .. n /\ \A i \in 1 .. n : cf[i] \in On(E, P)
      BY <2>1, <2>2
    <2>. QED
      BY <2>2, <2>3
  <1> DEFINE p == [i \in 1 .. n |-> cf[i].port]
             ss == [i \in 1 .. n |-> To(HostnamesByPort(s, cf[i].port), cf[i].port)]
  <1>6. \A i \in 1 .. n : Lists(ss[i], On(T, {p[i]}))
    <2>1. ASSUME NEW q PROVE Lists(To(HostnamesByPort(s, q), q), On(T, {q}))
      <3>1. Lists(HostnamesByPort(s, q), Froms(T, q))
        BY <1>1, ListsHostnames
      <3>. QED
        BY <3>1, ListsTo
    <2>. QED
      BY <2>1
  <1>8. PICK Q : Q = {p[i] : i \in 1 .. n}
    OBVIOUS
  <1>9. On(T, Q) = On(T, P)
    <2>1. \A i \in 1 .. n : p[i] \in P
      BY <1>5 DEF On
    <2>2. ASSUME NEW r \in T, r.port \in P PROVE \E i \in 1 .. n : p[i] = r.port
      <3>1. PICK e \in E : e.port = r.port
        BY <1>2
      <3>2. e \in On(E, P)
        BY <2>2, <3>1 DEF On
      <3>3. PICK i \in 1 .. n : cf[i] = e
        BY <1>4, <1>5, <3>2 DEF Lists
      <3>. QED
        BY <3>1, <3>3
    <2> HIDE DEF p
    <2>. QED
      BY <1>8, <2>1, <2>2 DEF On
  <1>10. PortsAt(n, p, Q)
    BY <1>8 DEF PortsAt
  <1>11. OnEachPort(T, n, p, ss)
    <2>1. ss = [i \in 1 .. n |-> ss[i]]
      OBVIOUS
    <2> HIDE DEF ss
    <2>. QED
      BY <1>6, <2>1 DEF OnEachPort
  <1>12. Lists(FlattenSeq(ss), On(T, Q))
    <2> HIDE DEF ss, p
    <2>. QED
      BY <1>10, <1>11, ListsByPort
  <1>13. GetRoutes(info, P).http = FlattenSeq(ss)
    BY <1>1, <1>3, <1>5 DEF GetRoutes
  <1>. QED
    BY <1>9, <1>12, <1>13

LEMMA ListedTcp ==
    ASSUME NEW T, NEW info, NEW P, Lists(Each(RoutesFromRoutingInfo(info).tcp), T)
    PROVE  Lists(GetRoutes(info, P).tcp, On(T, P))
  BY ListsOnPorts DEF GetRoutes

LEMMA SortedPorts ==
    ASSUME NEW P \in SUBSET Nat, IsFiniteSet(P)
    PROVE  \E n \in Nat : DOMAIN Sorted(P) = 1 .. n /\ PortsAt(n, Sorted(P), P)
  <1>1. PICK s : s = Sorted(P)
    OBVIOUS
  <1>2. Lists(s, P)
    BY <1>1, ListsSorted
  <1>3. PICK n \in Nat : DOMAIN s = 1 .. n /\ \A i \in 1 .. n : s[i] \in P
    <2>1. s \in Seq(P)
      BY <1>2 DEF Lists
    <2>2. PICK n \in Nat : n = Len(s)
      BY <2>1
    <2>3. DOMAIN s = 1 .. n /\ \A i \in 1 .. n : s[i] \in P
      BY <2>1, <2>2
    <2>. QED
      BY <2>3
  <1>4. P = {s[i] : i \in 1 .. n}
    BY <1>2, <1>3 DEF Lists
  <1>6. PortsAt(n, s, P)
    BY <1>4 DEF PortsAt
  <1>. QED
    BY <1>1, <1>3, <1>6

LEMMA PrintedHttp ==
    ASSUME NEW F, NEW N, NEW T \in SUBSET [from : F, port : N], NEW info,
           NEW P \in SUBSET Nat, IsFiniteSet(P),
           PerPort(Each(RoutesFromRoutingInfo(info).cf), T)
    PROVE  Lists(PrintAppRoutes(info, P).http, On(T, P))
  <1>1. PICK s : s = RoutesFromRoutingInfo(info).cf
    OBVIOUS
  <1>2. PICK p : p = Sorted(P)
    OBVIOUS
  <1>3. PICK n \in Nat : DOMAIN p = 1 .. n /\ PortsAt(n, p, P)
    BY <1>2, SortedPorts
  <1> DEFINE ss == [i \in 1 .. n |-> To(HostnamesByPort(s, p[i]), p[i])]
  <1>4. \A i \in 1 .. n : Lists(ss[i], On(T, {p[i]}))
    <2>1. ASSUME NEW q PROVE Lists(To(HostnamesByPort(s, q), q), On(T, {q}))
      <3>1. Lists(HostnamesByPort(s, q), Froms(T, q))
        BY <1>1, ListsHostnames
      <3>. QED
        BY <3>1, ListsTo
    <2>. QED
      BY <2>1
  <1>5. Lists(FlattenSeq(ss), On(T, P))
    <2>1. ss = [i \in 1 .. n |-> ss[i]]
      OBVIOUS
    <2>2. OnEachPort(T, n, p, ss)
      <3> HIDE DEF ss
      <3>. QED
        BY <1>4, <2>1 DEF OnEachPort
    <2> HIDE DEF ss
    <2>. QED
      BY <1>3, <2>2, ListsByPort
  <1>6. PrintAppRoutes(info, P).http = FlattenSeq(ss)
    BY <1>1, <1>2, <1>3 DEF PrintAppRoutes
  <1>. QED
    BY <1>3, <1>5, <1>6

LEMMA PrintedTcp ==
    ASSUME NEW T, NEW info, NEW P \in SUBSET Nat, IsFiniteSet(P),
           Lists(Each(RoutesFromRoutingInfo(info).tcp), T)
    PROVE  Lists(PrintAppRoutes(info, P).tcp, On(T, P))
  <1>1. PICK s : s = RoutesFromRoutingInfo(info).tcp
    OBVIOUS
  <1>2. PICK p : p = Sorted(P)
    OBVIOUS
  <1>3. PICK n \in Nat : DOMAIN p = 1 .. n /\ PortsAt(n, p, P)
    BY <1>2, SortedPorts
  <1> DEFINE ss == [i \in 1 .. n |-> OnPorts(s, {p[i]})]
  <1>4. \A i \in 1 .. n : Lists(ss[i], On(T, {p[i]}))
    BY <1>1, ListsOnPorts
  <1>5. Lists(FlattenSeq(ss), On(T, P))
    <2>1. ss = [i \in 1 .. n |-> ss[i]]
      OBVIOUS
    <2>2. OnEachPort(T, n, p, ss)
      <3> HIDE DEF ss
      <3>. QED
        BY <1>4, <2>1 DEF OnEachPort
    <2> HIDE DEF ss
    <2>. QED
      BY <1>3, <2>2, ListsByPort
  <1>6. PrintAppRoutes(info, P).tcp = FlattenSeq(ss)
    BY <1>1, <1>2, <1>3 DEF PrintAppRoutes
  <1>. QED
    BY <1>3, <1>5, <1>6

-----------------------------------------------------------------------------
(* Routes, from the command line to the receptor.                          *)

\* A set of what is said of the members of a finite set is finite.
LEMMA ImageIsFinite ==
    ASSUME NEW S, IsFiniteSet(S), NEW f, f = [s \in S |-> f[s]], NEW T, T = {f[s] : s \in S}
    PROVE  IsFiniteSet(T)
  <1>1. f \in Surjection(S, T)
    BY DEF Surjection
  <1>. QED
    BY <1>1, FS_Surjection

\* h names the hostnames of T on each port of I, which are all its ports; the
\* entries are the routes BuildAppRoutes makes of them, one for each port.
Hosts(I, h, T) == (\A n \in I : Lists(h[n], Froms(T, n))) /\ \A r \in T : r.port \in I
Entries(I, h) == {[hostnames |-> h[n], port |-> n] : n \in I}

LEMMA EntriesArePerPort ==
    ASSUME NEW F, NEW N, NEW T \in SUBSET [from : F, port : N],
           NEW I \in SUBSET N, IsFiniteSet(I), NEW h, Hosts(I, h, T)
    PROVE  /\ PerPort(SetToSeq(Entries(I, h)), T)
           /\ SetToSeq(Entries(I, h)) \in Seq([hostnames : Seq(F), port : N])
  <1>. USE DEF Hosts
  <1> DEFINE E == Entries(I, h)
             f == [n \in I |-> [hostnames |-> h[n], port |-> n]]
  <1>1. IsFiniteSet(E)
    <2>1. f = [n \in I |-> f[n]] /\ E = {f[n] : n \in I}
      BY DEF Entries
    <2> HIDE DEF f, E
    <2>. QED
      BY <2>1, ImageIsFinite
  <1>2. PICK s : s = SetToSeq(E)
    OBVIOUS
  <1>3. Lists(s, E)
    BY <1>1, <1>2, ListsSet
  <1>4. PICK n \in Nat : DOMAIN s = 1 .. n /\ s \in [1 .. n -> E]
    <2>1. s \in Seq(E)
      BY <1>3 DEF Lists
    <2>2. PICK n \in Nat : n = Len(s)
      BY <2>1
    <2> HIDE DEF E
    <2>3. DOMAIN s = 1 .. n /\ s \in [1 .. n -> E]
      BY <2>1, <2>2
    <2>. QED
      BY <2>2, <2>3
  <1>5. \A i \in 1 .. n : s[i].port \in I /\ s[i].hostnames = h[s[i].port]
                          /\ s[i] = [hostnames |-> h[s[i].port], port |-> s[i].port]
    <2>1. \A e \in E : e.port \in I /\ e.hostnames = h[e.port] /\ e = [hostnames |-> h[e.port], port |-> e.port]
      BY DEF Entries
    <2> HIDE DEF E
    <2>. QED
      BY <1>4, <2>1
  <1>6. PerPort(s, T)
    <2>1. s = [i \in 1 .. n |-> s[i]]
      BY <1>4
    <2>2. \A i \in 1 .. n : Lists(s[i].hostnames, Froms(T, s[i].port))
      BY <1>5
    <2>4. \A r \in T : \E i \in 1 .. n : s[i].port = r.port
      <3>1. ASSUME NEW r \in T PROVE \E i \in 1 .. n : s[i].port = r.port
        <4>1. PICK e : e = [hostnames |-> h[r.port], port |-> r.port]
          OBVIOUS
        <4>2. e \in E /\ e.port = r.port
          BY <4>1 DEF Entries
        <4>3. PICK i \in 1 .. n : s[i] = e
          BY <1>3, <1>4, <4>2 DEF Lists
        <4>. QED
          BY <4>2, <4>3
      <3>. QED
        BY <3>1
    <2>. QED
      BY <2>1, <2>2, <2>4 DEF PerPort
  <1>7. s \in Seq([hostnames : Seq(F), port : N])
    <2>1. \A n1 \in N : Froms(T, n1) \subseteq F
      BY DEF Froms, On
    <2>2. ASSUME NEW p \in I PROVE h[p] \in Seq(F)
      <3>1. h[p] \in Seq(Froms(T, p))
        BY DEF Lists
      <3>2. Froms(T, p) \subseteq F
        BY <2>1
      <3>. QED
        BY <3>1, <3>2
    <2>3. ASSUME NEW i \in 1 .. n PROVE s[i] \in [hostnames : Seq(F), port : N]
      <3>1. PICK p \in I : p = s[i].port /\ s[i] = [hostnames |-> h[p], port |-> p]
        BY <1>5
      <3>2. h[p] \in Seq(F) /\ p \in N
        BY <2>2
      <3>. QED
        BY <3>1, <3>2
    <2>4. PICK R : R = [hostnames : Seq(F), port : N]
      OBVIOUS
    <2>5. s \in [1 .. n -> R]
      BY <1>4, <2>3, <2>4
    <2>6. s \in Seq(R)
      BY <2>5
    <2>. QED
      BY <2>4, <2>6
  <1>. QED
    BY <1>2, <1>6, <1>7

\* buildRoutes: the routes of the flags, hostnames of a port together.
LEMMA RoutesPerPortAre ==
    ASSUME NEW F, NEW N, NEW o \in Seq([from : F, port : N]), Each(o) = o
    PROVE  /\ PerPort(RoutesPerPort(o), ToSet(o))
           /\ RoutesPerPort(o) \in Seq([hostnames : Seq(F), port : N])
           /\ ToSet(o) \in SUBSET [from : F, port : N] /\ Lists(o, ToSet(o))
  <1>1. PICK T : T = ToSet(o)
    OBVIOUS
  <1>2. Lists(o, T) /\ T \in SUBSET [from : F, port : N]
    <2>1. PICK R : R = [from : F, port : N]
      OBVIOUS
    <2>2. o \in Seq(R)
      BY <2>1
    <2>. QED
      BY <1>1, <2>1, <2>2, ListsToSet
  <1> DEFINE g == [r \in T |-> r.port]
             I == {r.port : r \in T}
             h == [n \in I |-> Hostnames(OnPorts(o, {n}))]
  <1>3. IsFiniteSet(T)
    <2>1. PICK n \in Nat : n = Len(o) /\ DOMAIN o = 1 .. n
      BY LenProperties
    <2>2. T = {o[i] : i \in 1 .. n} /\ o = [i \in 1 .. n |-> o[i]]
      BY <1>1, <2>1 DEF ToSet
    <2>3. IsFiniteSet(1 .. n)
      BY FS_Interval
    <2> HIDE DEF g, I, h
    <2>. QED
      BY <2>2, <2>3, ImageIsFinite
  <1>4. IsFiniteSet(I)
    <2>1. g = [r \in T |-> g[r]] /\ I = {g[r] : r \in T}
      OBVIOUS
    <2> HIDE DEF g, I
    <2>. QED
      BY <1>3, <2>1, ImageIsFinite
  <1>5. ASSUME NEW n \in I PROVE Lists(h[n], Froms(T, n))
    <2>1. PICK s : s = OnPorts(o, {n})
      OBVIOUS
    <2>2. Lists(s, On(T, {n}))
      BY <1>2, <2>1, ListsOnPorts
    <2>. QED
      BY <2>1, <2>2, ListsNames
  <1>6. RoutesPerPort(o) = SetToSeq(Entries(I, h))
    <2>1. Entries(I, h) = {[hostnames |-> Hostnames(OnPorts(o, {n})), port |-> n] : n \in I}
      BY DEF Entries
    <2>. QED
      BY <1>1, <2>1 DEF RoutesPerPort
  <1>7. I \in SUBSET N /\ \A r \in T : r.port \in I
    BY <1>2
  <1>8. Hosts(I, h, T)
    <2> HIDE DEF h
    <2>. QED
      BY <1>5, <1>7 DEF Hosts
  <1> HIDE DEF I, h
  <1>9. PerPort(SetToSeq(Entries(I, h)), T) /\ SetToSeq(Entries(I, h)) \in Seq([hostnames : Seq(F), port : N])
    BY <1>2, <1>4, <1>7, <1>8, EntriesArePerPort
  <1>. QED
    BY <1>1, <1>2, <1>6, <1>9

\* The hostnames of the ports, and the app's own on the primary one.
DefaultRoutes(X, primary) ==
    {[from |-> n, port |-> n] : n \in X} \cup {[from |-> Own, port |-> primary]}

LEMMA DefaultsArePerPort ==
    ASSUME NEW F, NEW N, NEW e \in Seq(F \cap N), NEW primary \in ToSet(e), Own \in F
    PROVE  /\ PerPort(BuildDefaultRoutingInfo(e, primary), DefaultRoutes(ToSet(e), primary))
           /\ BuildDefaultRoutingInfo(e, primary) \in Seq([hostnames : Seq(F), port : N])
           /\ DefaultRoutes(ToSet(e), primary) \in SUBSET [from : F, port : N]
  <1>0. PICK X : X = ToSet(e)
    OBVIOUS
  <1>1. PICK n \in Nat : /\ X = ToSet(e) /\ DOMAIN e = 1 .. n
                         /\ X = {e[i] : i \in 1 .. n} /\ X \subseteq F \cap N
    <2>1. PICK n \in Nat : n = Len(e) /\ DOMAIN e = 1 .. n
      BY LenProperties
    <2>2. ToSet(e) = {e[i] : i \in 1 .. n}
      BY <2>1 DEF ToSet
    <2>3. ToSet(e) \subseteq F \cap N
      BY ListsToSet
    <2>. QED
      BY <1>0, <2>1, <2>2, <2>3
  <1> DEFINE T == DefaultRoutes(X, primary)
             names(p) == (IF p = primary THEN <<Own>> ELSE <<>>) \o <<p>>
             s == [i \in 1 .. n |-> [hostnames |-> names(e[i]), port |-> e[i]]]
  <1>2. primary \in X /\ T \in SUBSET [from : F, port : N] /\ \A r \in T : r.port \in X
    BY <1>1 DEF DefaultRoutes
  <1>3. ASSUME NEW p \in X PROVE Lists(names(p), Froms(T, p)) /\ names(p) \in Seq(F)
    <2> DEFINE own == [from |-> Own, port |-> p]
               its == [from |-> p, port |-> p]
    <2>1. own.from = Own /\ its.from = p /\ {} \cup {p} = {p}
      OBVIOUS
    <2>2. Lists(<<Own>>, {Own}) /\ Lists(<<p>>, {p}) /\ Lists(<<>>, {})
      BY ListsOne, ListsNone
    <2>3. CASE p = primary
      <3>1. On(T, {p}) = {own, its}
        BY <1>2, <2>3 DEF On, DefaultRoutes
      <3>2. Froms(T, p) = {Own} \cup {p}
        <4> HIDE DEF own, its, T
        <4>. QED
          BY <2>1, <3>1 DEF Froms
      <3>3. names(p) = <<Own>> \o <<p>>
        BY <2>3
      <3> HIDE DEF names, T
      <3>4. Lists(<<Own>> \o <<p>>, {Own} \cup {p})
        BY <2>2, ListsConcat
      <3>5. <<Own>> \o <<p>> \in Seq(F)
        BY <1>1
      <3>. QED
        BY <3>2, <3>3, <3>4, <3>5
    <2>4. CASE p # primary
      <3>1. On(T, {p}) = {its}
        BY <2>4 DEF On, DefaultRoutes
      <3>2. Froms(T, p) = {p}
        <4> HIDE DEF its, T
        <4>. QED
          BY <2>1, <3>1 DEF Froms
      <3>3. names(p) = <<>> \o <<p>>
        BY <2>4
      <3> HIDE DEF names, T
      <3>4. Lists(<<>> \o <<p>>, {} \cup {p})
        BY <2>2, ListsConcat
      <3>5. <<>> \o <<p>> \in Seq(F)
        BY <1>1
      <3>. QED
        BY <2>1, <3>2, <3>3, <3>4, <3>5
    <2>. QED
      BY <2>3, <2>4
  <1>4. BuildDefaultRoutingInfo(e, primary) = s
    BY <1>1 DEF BuildDefaultRoutingInfo
  <1>5. /\ \A i \in 1 .. n : Lists(s[i].hostnames, Froms(T, s[i].port))
        /\ \A i \in 1 .. n : s[i] \in [hostnames : Seq(F), port : N]
        /\ \A i \in 1 .. n : s[i].port = e[i]
        /\ s = [i \in 1 .. n |-> s[i]]
    <2> HIDE DEF names, T
    <2>. QED
      BY <1>1, <1>3
  <1> HIDE DEF s, T
  <1>6. \A r \in T : \E i \in 1 .. n : s[i].port = r.port
    BY <1>1, <1>2, <1>5
  <1>7. PerPort(s, T)
    BY <1>5, <1>6 DEF PerPort
  <1>8. s \in Seq([hostnames : Seq(F), port : N])
    <2>1. PICK R : R = [hostnames : Seq(F), port : N]
      OBVIOUS
    <2>2. s \in [1 .. n -> R]
      BY <1>5, <2>1
    <2>3. s \in Seq(R)
      BY <2>2
    <2>. QED
      BY <2>1, <2>3
  <1>. QED
    BY <1>1, <1>2, <1>4, <1>7, <1>8 DEF T

\* What the receptor is sent is what it is asked for.
LEMMA RoutesComeBack ==
    ASSUME NEW a, NEW t, NEW s
    PROVE  LET back == RoutesFromRoutingInfo(RoutingInfo([cf |-> a, tcp |-> t, ssh |-> s]))
           IN  back.cf = a /\ back.tcp = t
  <1>1. PICK routes : routes = [cf |-> a, tcp |-> t, ssh |-> s]
    OBVIOUS
  <1>2. routes.cf = a /\ routes.tcp = t /\ routes.ssh = s
    BY <1>1
  <1>3. PICK info : info = RoutingInfo(routes)
    OBVIOUS
  <1>4. /\ "cf-router" \in DOMAIN info <=> a # Nil
        /\ "cf-router" \in DOMAIN info => info["cf-router"] = a
    BY <1>2, <1>3 DEF RoutingInfo, Routers
  <1>5. /\ "tcp-router" \in DOMAIN info <=> t # Nil
        /\ "tcp-router" \in DOMAIN info => info["tcp-router"] = t
    BY <1>2, <1>3 DEF RoutingInfo, Routers
  <1>. QED
    BY <1>1, <1>3, <1>4, <1>5 DEF RoutesFromRoutingInfo

-----------------------------------------------------------------------------
(* What the routes are built from.                                         *)

\* Routes once they are parsed, and the ssh route that Request adds to the others.
AppRoute == [from : Number, port : Ports]
Built == [BuildRoutesWithDefaults(line.noRoutes, http, tcp, exposed, PrimaryPort) EXCEPT !.ssh = SshPort]

\* Routes are between names or numbers and ports; the monitored port is exposed,
\* and the request was built from what is there now.
RoutesInv ==
    /\ image \in Images
    /\ exposed \in Seq(Ports)
    /\ monitor.port # 0 => monitor.port \in ToSet(exposed)
    /\ stage \in {"args", "metadata", "ports", "monitor"} \cup Parsing => monitor.port = 0
    /\ http \in Seq(AppRoute) /\ tcp \in Seq(AppRoute)
    /\ Requested => exposed # <<>> /\ routing = RoutingInfo(Built)

LEMMA WordIsNat == Word \in Nat
  BY DEF Word

LEMMA SmallPorts == \A n \in Int : Uint16(n) \in Ports
  <1>1. PICK w \in Nat \ {0} : w = Word
    BY DEF Word
  <1>2. ASSUME NEW n \in Int PROVE n % w \in 0 .. w - 1
    OBVIOUS
  <1>. QED
    BY <1>1, <1>2 DEF Uint16, Ports

LEMMA PortsAreFinite == ASSUME NEW S \in SUBSET Ports PROVE IsFiniteSet(S) /\ S \in SUBSET Nat
  <1>1. IsFiniteSet(Ports)
    BY WordIsNat, FS_Interval DEF Ports
  <1>2. Ports \subseteq Nat
    BY WordIsNat DEF Ports
  <1>. QED
    BY <1>1, <1>2, FS_Subset

LEMMA LineIs == IInv => line.ports \in Seq(Number) /\ line.http \in Seq(Route) /\ line.tcp \in Seq(Route)
  BY LinesAssumption DEF IInv, LineType

\* Parsed routes are between names and ports, if all of them have a port.
LEMMA ParsedIsRoutes ==
    ASSUME exposed \in Seq(Ports), NEW routes \in Seq(Route),
           \A r \in ToSet(routes) : HasContainerPort(r) /\ r.from # Absent
    PROVE  Parsed(routes) \in Seq(AppRoute)
  <1>1. ASSUME NEW r \in Route, HasContainerPort(r) PROVE ContainerPort(r) \in Ports
    <2>1. CASE r.port = Absent
      <3>1. AppPorts # {}
        BY <1>1, <2>1, OnlyPort, SentinelAssumption DEF HasContainerPort
      <3>2. PICK i \in AppPorts : i = CHOOSE j \in AppPorts : TRUE
        BY <3>1
      <3>. QED
        BY <2>1, <3>2 DEF ContainerPort, AppPorts
    <2>2. CASE r.port # Absent
      <3>1. IsPort(r.port) /\ r.port \in Number
        BY <1>1, <2>2 DEF HasContainerPort, Route
      <3>2. PICK n : n = r.port
        OBVIOUS
      <3>3. n \in Number /\ IsPort(n)
        BY <3>1, <3>2
      <3>4. n \in Int /\ 0 < n /\ n < Word
        BY <3>3 DEF IsPort, Number
      <3>5. n \in Ports
        BY <3>4, WordIsNat DEF Ports
      <3>. QED
        BY <2>2, <3>2, <3>5 DEF ContainerPort
    <2>. QED
      BY <2>1, <2>2
  <1>2. PICK n \in Nat : n = Len(routes) /\ DOMAIN routes = 1 .. n
    BY LenProperties
  <1>3. \A i \in 1 .. n : routes[i] \in Route /\ routes[i] \in ToSet(routes)
    BY <1>2 DEF ToSet
  <1>4. PICK s : s = Parsed(routes)
    OBVIOUS
  <1>5. s = [i \in 1 .. n |-> [from |-> routes[i].from, port |-> ContainerPort(routes[i])]]
    BY <1>2, <1>4 DEF Parsed
  <1>6. ASSUME NEW i \in 1 .. n PROVE s[i] \in AppRoute
    <2>1. routes[i].from \in Number
      BY <1>3 DEF Route
    <2>2. ContainerPort(routes[i]) \in Ports
      BY <1>1, <1>3
    <2>. QED
      BY <1>5, <2>1, <2>2 DEF AppRoute
  <1>7. s \in [1 .. n -> AppRoute]
    BY <1>5, <1>6
  <1>8. s \in Seq(AppRoute)
    BY <1>7
  <1>. QED
    BY <1>4, <1>8

LEMMA ExposedStayPorts == ASSUME IInv, RoutesInv, ExposedPorts PROVE exposed' \in Seq(Ports)
  <1>1. CASE exposed' = exposed
    BY <1>1 DEF RoutesInv
  <1>2. CASE exposed' = DefaultPorts
    <2>1. image.ports \in Seq(Ports)
      BY LinesAssumption DEF RoutesInv, Image
    <2>2. 8080 \in Ports
      BY DEF Ports, Word
    <2>3. <<8080>> \in Seq(Ports)
      BY <2>2
    <2>. QED
      BY <1>2, <2>1, <2>3 DEF DefaultPorts
  <1>3. CASE /\ exposed' = [i \in DOMAIN line.ports |-> Uint16(line.ports[i])]
             /\ \A m \in ToSet(line.ports) : Fits(m)
    <2>1. PICK ports \in Seq(Number) : ports = line.ports
      BY LineIs
    <2>2. PICK n \in Nat : n = Len(ports) /\ DOMAIN ports = 1 .. n
      BY LenProperties
    <2>3. \A i \in 1 .. n : ports[i] \in Int
      <3>1. \A i \in 1 .. n : ports[i] \in Number /\ ports[i] \in ToSet(ports)
        BY <2>2 DEF ToSet
      <3>2. \A m \in ToSet(ports) : m # Junk
        BY <1>3, <2>1 DEF Fits
      <3>. QED
        BY <3>1, <3>2 DEF Number
    <2>4. exposed' = [i \in 1 .. n |-> Uint16(ports[i])] /\ \A i \in 1 .. n : Uint16(ports[i]) \in Ports
      BY <1>3, <2>1, <2>2, <2>3, SmallPorts
    <2>5. PICK e : e = exposed'
      OBVIOUS
    <2>6. e \in [1 .. n -> Ports]
      BY <2>4, <2>5
    <2>7. e \in Seq(Ports)
      BY <2>6
    <2>. QED
      BY <2>5, <2>7
  <1>. QED
    BY <1>1, <1>2, <1>3 DEF ExposedPorts

THEOREM RoutesInvariance == Spec => []RoutesInv
  <1>1. Init => RoutesInv
    BY DEF Init, RoutesInv, Requested
  <1>2. IInv /\ IInv' /\ RoutesInv /\ [Next]_vars => RoutesInv'
    <2> SUFFICES ASSUME IInv, IInv', RoutesInv, [Next]_vars PROVE RoutesInv'
      OBVIOUS
    <2>. USE DEF RoutesInv
    <2>1. Requested => stage = "exited"
      BY DEF IInv, Requested
    <2>2. CASE Args \/ ParseImage \/ MakeSession \/ AskRegistry \/ StartCommand
      <3>1. UNCHANGED <<image, exposed, monitor, http, tcp, routing>>
        BY <2>2 DEF Args, ParseImage, MakeSession, AskRegistry, StartCommand, registry
      <3>2. ~Requested'
        BY <2>1, <2>2 DEF Args, ParseImage, MakeSession, AskRegistry, StartCommand, Goto, Exit,
                          Requested
      <3>3. stage' \in {"args", "metadata", "ports", "monitor"} \cup Parsing => monitor.port = 0
        BY <2>2 DEF Args, ParseImage, MakeSession, AskRegistry, StartCommand, Goto, Exit, Parsing
      <3>. QED
        BY <3>1, <3>2, <3>3
    <2>3. CASE ExposedPorts
      <3>1. UNCHANGED <<image, monitor, http, tcp, routing>> /\ monitor.port = 0
        BY <2>3 DEF ExposedPorts
      <3>2. ~Requested'
        BY <2>1, <2>3 DEF ExposedPorts, Goto, Exit, Requested
      <3>. QED
        BY <2>3, <3>1, <3>2, ExposedStayPorts
    <2>4. CASE GetMonitorConfig
      <3>1. UNCHANGED <<image, exposed, http, tcp, routing>>
        BY <2>4 DEF GetMonitorConfig
      <3>2. ~Requested'
        BY <2>1, <2>4 DEF GetMonitorConfig, MonitorOn, Monitor, MonitorError, Goto, Exit, Requested
      <3>3. stage' \notin {"args", "metadata", "ports", "monitor"} \cup Parsing
        BY <2>4 DEF GetMonitorConfig, MonitorOn, Monitor, MonitorError, Goto, Exit, Parsing
      <3>4. monitor'.port # 0 => monitor'.port \in ToSet(exposed)
        BY <2>4 DEF GetMonitorConfig, MonitorOn, Monitor, MonitorError
      <3>. QED
        BY <3>1, <3>2, <3>3, <3>4
    <2>5. CASE ParseHttp
      <3>1. UNCHANGED <<image, exposed, monitor, tcp, routing>>
        BY <2>5 DEF ParseHttp
      <3>2. ~Requested' /\ stage' \notin {"args", "metadata", "ports", "monitor"} \cup Parsing
        BY <2>1, <2>5 DEF ParseHttp, Goto, Exit, Requested, Parsing
      <3>3. http' \in Seq(AppRoute)
        <4>1. CASE UNCHANGED http
          BY <4>1
        <4>2. CASE http' = Parsed(line.http) /\ \A r \in ToSet(line.http) : HasContainerPort(r) /\ r.from # Absent
          BY <4>2, LineIs, ParsedIsRoutes
        <4>. QED
          BY <2>5, <4>1, <4>2 DEF ParseHttp
      <3>. QED
        BY <3>1, <3>2, <3>3
    <2>6. CASE ParseTcp
      <3>1. UNCHANGED <<image, exposed, monitor, http, routing>>
        BY <2>6 DEF ParseTcp
      <3>2. ~Requested' /\ stage' \notin {"args", "metadata", "ports", "monitor"} \cup Parsing
        BY <2>1, <2>6 DEF ParseTcp, Goto, Exit, Requested, Parsing
      <3>3. tcp' \in Seq(AppRoute)
        <4>1. CASE UNCHANGED tcp
          BY <4>1
        <4>2. CASE tcp' = Parsed(line.tcp) /\ \A r \in ToSet(line.tcp) : HasContainerPort(r) /\ r.from # Absent
          BY <4>2, LineIs, ParsedIsRoutes
        <4>. QED
          BY <2>6, <4>1, <4>2 DEF ParseTcp
      <3>. QED
        BY <3>1, <3>2, <3>3
    <2>7. CASE Request
      <3>1. UNCHANGED <<line, image, exposed, monitor, http, tcp>>
        BY <2>7 DEF Request
      <3>2. stage' = "exited"
        BY <2>7 DEF Request, Exit
      <3>3. Requested' => routing' = RoutingInfo(Built)
        BY <2>7 DEF Request, Exit, Requested, Built
      <3>4. Built' = Built
        BY <3>1 DEF PrimaryPort, Built
      <3>5. Requested' => exposed # <<>>
        BY <2>7 DEF Request, IInv, Exposing
      <3>. QED
        BY <3>1, <3>2, <3>3, <3>4, <3>5 DEF Parsing
    <2>8. CASE UNCHANGED vars
      BY <2>8 DEF vars, registry, Requested, PrimaryPort, Built
    <2>. QED
      BY <2>2, <2>3, <2>4, <2>5, <2>6, <2>7, <2>8 DEF Next
  <1>. QED
    BY <1>1, <1>2, Invariance, PTL DEF Spec

\* The routes an app is to have: its own, the defaults, or none.
HttpRoutes ==
    IF line.noRoutes THEN {}
    ELSE IF Defaults THEN DefaultRoutes(ToSet(exposed), PrimaryPort) ELSE ToSet(http)
TcpRoutes == IF line.noRoutes THEN {} ELSE ToSet(tcp)
Sent == RoutesFromRoutingInfo(routing)
Hostname == Number \cup {Own}

LEMMA PerPortNone == PerPort(<<>>, {})
  BY DEF PerPort

LEMMA PrimaryIsExposed ==
    ASSUME RoutesInv, Requested PROVE PrimaryPort \in ToSet(exposed) /\ monitor.port \in {0, PrimaryPort}
  <1>1. exposed # <<>> /\ exposed \in Seq(Ports)
    BY DEF RoutesInv
  <1>2. 1 \in DOMAIN exposed
    BY <1>1
  <1>3. exposed[1] \in ToSet(exposed)
    BY <1>2 DEF ToSet
  <1>. QED
    BY <1>1, <1>3 DEF PrimaryPort, RoutesInv

\* buildRoutesWithDefaults and the receptor: what comes back stands for these.
LEMMA RequestedRoutes ==
    ASSUME RoutesInv, Requested
    PROVE  /\ HttpRoutes \subseteq [from : Hostname, port : Ports]
           /\ PerPort(Each(Sent.cf), HttpRoutes)
           /\ Lists(Each(Sent.tcp), TcpRoutes)
  <1>1. routing = RoutingInfo(Built)
    BY DEF RoutesInv
  <1>2. PrimaryPort \in ToSet(exposed)
    BY PrimaryIsExposed
  <1>3. PICK routes : routes = BuildRoutesWithDefaults(line.noRoutes, http, tcp, exposed, PrimaryPort)
    OBVIOUS
  <1>4. PICK c, t, s : routes = [cf |-> c, tcp |-> t, ssh |-> s]
    BY <1>3 DEF BuildRoutesWithDefaults, BuildRoutes
  <1>5. Sent.cf = c /\ Sent.tcp = t
    <2>1. Built = [cf |-> c, tcp |-> t, ssh |-> SshPort]
      BY <1>3, <1>4 DEF Built
    <2>. QED
      BY <1>1, <2>1, RoutesComeBack DEF Sent
  <1>6. http \in Seq([from : Number, port : Ports]) /\ tcp \in Seq([from : Number, port : Ports])
    BY DEF RoutesInv, AppRoute
  <1>7. <<>> # Nil /\ Each(<<>>) = <<>> /\ Each(Nil) = <<>> /\ ToSet(<<>>) = {}
    <2>1. <<>> \in Seq([from : Number, port : Ports])
      OBVIOUS
    <2>2. ToSet(<<>>) = {}
      BY DEF ToSet
    <2>. QED
      BY <2>1, <2>2, RoutesAssumption DEF Each
  <1>8. \A x \in Seq([hostnames : Seq(Hostname), port : Ports]) : x # Nil /\ Each(x) = x
    BY RoutesAssumption DEF Each, Hostname
  <1>9. http # Nil /\ Each(http) = http /\ tcp # Nil /\ Each(tcp) = tcp
    BY <1>6, RoutesAssumption DEF Each
  <1>10. http \in Seq([from : Hostname, port : Ports])
    <2>1. PICK R, H : R = [from : Number, port : Ports] /\ H = [from : Hostname, port : Ports]
      OBVIOUS
    <2>2. R \subseteq H /\ http \in Seq(R)
      BY <1>6, <2>1 DEF Hostname
    <2>3. http \in Seq(H)
      BY <2>2
    <2>. QED
      BY <2>1, <2>3
  <1>11. /\ PerPort(RoutesPerPort(http), ToSet(http))
         /\ RoutesPerPort(http) \in Seq([hostnames : Seq(Hostname), port : Ports])
         /\ ToSet(http) \subseteq [from : Hostname, port : Ports]
    BY <1>9, <1>10, RoutesPerPortAre
  <1>12. Lists(tcp, ToSet(tcp))
    BY <1>6, <1>9, RoutesPerPortAre
  <1>13. CASE line.noRoutes
    <2>1. c = <<>> /\ t = Nil
      BY <1>3, <1>4, <1>7, <1>13 DEF BuildRoutesWithDefaults, BuildRoutes
    <2>2. HttpRoutes = {} /\ TcpRoutes = {}
      BY <1>13 DEF HttpRoutes, TcpRoutes
    <2>. QED
      BY <1>5, <1>7, <2>1, <2>2, PerPortNone, ListsNone
  <1>14. CASE ~line.noRoutes /\ http # <<>>
    <2>1. c = RoutesPerPort(http) /\ t = IF tcp = <<>> THEN Nil ELSE tcp
      BY <1>3, <1>4, <1>8, <1>11, <1>14 DEF BuildRoutesWithDefaults, BuildRoutes
    <2>2. HttpRoutes = ToSet(http) /\ TcpRoutes = ToSet(tcp)
      BY <1>14 DEF HttpRoutes, TcpRoutes, Defaults
    <2>3. PerPort(Each(c), ToSet(http))
      BY <1>8, <1>11, <2>1
    <2>4. Lists(Each(t), ToSet(tcp))
      BY <1>7, <1>9, <1>12, <2>1, ListsNone
    <2>. QED
      BY <1>5, <1>11, <2>2, <2>3, <2>4
  <1>15. CASE ~line.noRoutes /\ http = <<>> /\ tcp # <<>>
    <2>1. c = Nil /\ t = tcp
      BY <1>3, <1>4, <1>9, <1>15 DEF BuildRoutesWithDefaults, BuildRoutes
    <2>2. HttpRoutes = {} /\ TcpRoutes = ToSet(tcp)
      BY <1>7, <1>15 DEF HttpRoutes, TcpRoutes, Defaults
    <2>. QED
      BY <1>5, <1>7, <1>9, <1>12, <2>1, <2>2, PerPortNone
  <1>16. CASE ~line.noRoutes /\ http = <<>> /\ tcp = <<>>
    <2>1. c = BuildDefaultRoutingInfo(exposed, PrimaryPort) /\ t = Nil
      BY <1>3, <1>4, <1>16 DEF BuildRoutesWithDefaults, BuildRoutes
    <2>2. HttpRoutes = DefaultRoutes(ToSet(exposed), PrimaryPort) /\ TcpRoutes = {}
      BY <1>7, <1>16 DEF HttpRoutes, TcpRoutes, Defaults
    <2>3. exposed \in Seq(Hostname \cap Ports)
      <3>1. Ports \subseteq Number
        BY PortsAreFinite DEF Number
      <3>2. PICK H : H = Hostname \cap Ports
        OBVIOUS
      <3>3. Ports = H /\ exposed \in Seq(Ports)
        BY <3>1, <3>2 DEF Hostname, RoutesInv
      <3>. QED
        BY <3>2, <3>3
    <2>4. Own \in Hostname
      BY DEF Hostname
    <2>5. /\ PerPort(c, HttpRoutes) /\ c \in Seq([hostnames : Seq(Hostname), port : Ports])
          /\ HttpRoutes \subseteq [from : Hostname, port : Ports]
      BY <1>2, <2>1, <2>2, <2>3, <2>4, DefaultsArePerPort
    <2>6. Each(c) = c /\ Each(t) = <<>>
      BY <1>7, <1>8, <2>1, <2>5
    <2>. QED
      BY <1>5, <2>2, <2>5, <2>6, ListsNone
  <1>. QED
    BY <1>13, <1>14, <1>15, <1>16

\* Both views of the app.
LEMMA ViewsList ==
    ASSUME RoutesInv, Requested, NEW view \in {Listed, Printed}
    PROVE  Lists(view.http, On(HttpRoutes, AppPortSet)) /\ Lists(view.tcp, On(TcpRoutes, AppPortSet))
  <1>1. AppPortSet \in SUBSET Ports
    <2>1. ToSet(exposed) \subseteq Ports
      BY ListsToSet DEF RoutesInv
    <2>. QED
      BY <2>1, PortAssumption DEF AppPortSet
  <1>2. IsFiniteSet(AppPortSet) /\ AppPortSet \in SUBSET Nat
    BY <1>1, PortsAreFinite
  <1>3. /\ HttpRoutes \subseteq [from : Hostname, port : Ports]
        /\ PerPort(Each(Sent.cf), HttpRoutes) /\ Lists(Each(Sent.tcp), TcpRoutes)
    BY RequestedRoutes
  <1>. USE DEF Sent
  <1>4. Lists(Listed.http, On(HttpRoutes, AppPortSet))
    BY <1>3, ListedHttp DEF Listed
  <1>5. Lists(Listed.tcp, On(TcpRoutes, AppPortSet))
    BY <1>3, ListedTcp DEF Listed
  <1>6. Lists(Printed.http, On(HttpRoutes, AppPortSet))
    BY <1>2, <1>3, PrintedHttp DEF Printed
  <1>7. Lists(Printed.tcp, On(TcpRoutes, AppPortSet))
    BY <1>2, <1>3, PrintedTcp DEF Printed
  <1>. QED
    BY <1>4, <1>5, <1>6, <1>7

\* The defaults are all on exposed ports, and one of them is the app's own.
LEMMA DefaultsInView ==
    ASSUME RoutesInv, Requested, Defaults, NEW view \in {Listed, Printed}
    PROVE  /\ ToSet(view.http) = DefaultRoutes(ToSet(exposed), PrimaryPort)
           /\ OwnNames(view) = {[from |-> Own, port |-> PrimaryPort]}
  <1>1. PICK X, p, D : X = ToSet(exposed) /\ p = PrimaryPort /\ D = DefaultRoutes(X, p)
    OBVIOUS
  <1>2. p \in X /\ X \subseteq AppPortSet
    BY <1>1, PrimaryIsExposed DEF AppPortSet
  <1>3. HttpRoutes = D /\ On(D, AppPortSet) = D
    BY <1>1, <1>2 DEF HttpRoutes, Defaults, On, DefaultRoutes
  <1>4. ToSet(view.http) = D
    BY <1>3, ViewsList, ListsShow
  <1>5. Own \notin X
    <2>1. X \in SUBSET Ports
      BY <1>1, ListsToSet DEF RoutesInv
    <2>2. X \in SUBSET Nat
      BY <2>1, PortsAreFinite
    <2>3. Own \notin Number
      BY RoutesAssumption
    <2>4. \A n \in Nat : n \in Number
      BY DEF Number
    <2>. QED
      BY <2>2, <2>3, <2>4
  <1>6. \A n \in X : [from |-> n, port |-> n].from = n
    OBVIOUS
  <1>7. [from |-> Own, port |-> p].from = Own
    OBVIOUS
  <1>8. {r \in D : r.from = Own} = {[from |-> Own, port |-> p]}
    BY <1>1, <1>5, <1>6, <1>7 DEF DefaultRoutes
  <1>. QED
    BY <1>1, <1>4, <1>8 DEF OwnNames

\* An app that asked for no routes is listed and printed with its own hostname on
\* one exposed port only, the monitored one if one is, however often a port was
\* given (buildRoutesWithDefaults and GetPrimaryPort).
THEOREM OwnNameOnMonitoredPort == Spec => []OwnNameIsMonitored
  <1>1. ASSUME RoutesInv, Requested, Defaults
        PROVE  \E n \in ToSet(exposed) :
                   /\ monitor.port \in {0, n}
                   /\ \A view \in {Listed, Printed} : OwnNames(view) = {[from |-> Own, port |-> n]}
    BY <1>1, PrimaryIsExposed, DefaultsInView
  <1>2. RoutesInv => OwnNameIsMonitored
    BY <1>1 DEF OwnNameIsMonitored
  <1>. QED
    BY <1>2, RoutesInvariance, PTL

\* list and status show every route asked for that ends at an exposed port, or the
\* defaults, and no other, for every command line (getRoutes and printAppRoutes).
THEOREM EveryRouteIsShown == Spec => []RoutesAreShown
  <1> DEFINE defaults(view) == IF ~Defaults THEN {}
                               ELSE OwnNames(view) \cup {[from |-> n, port |-> n] : n \in ToSet(exposed)}
  <1>1. ASSUME RoutesInv, Requested, NEW view \in {Listed, Printed}
        PROVE  ToSet(view.http) = Asked(http) \cup defaults(view) /\ ToSet(view.tcp) = Asked(tcp)
    <2>1. /\ ToSet(view.http) = On(HttpRoutes, AppPortSet)
          /\ ToSet(view.tcp) = On(TcpRoutes, AppPortSet)
      BY <1>1, ViewsList, ListsShow
    <2>2. On(TcpRoutes, AppPortSet) = Asked(tcp)
      BY DEF On, TcpRoutes, Asked
    <2>3. CASE Defaults
      <3>1. /\ ToSet(view.http) = DefaultRoutes(ToSet(exposed), PrimaryPort)
            /\ OwnNames(view) = {[from |-> Own, port |-> PrimaryPort]}
        BY <1>1, <2>3, DefaultsInView
      <3>2. Asked(http) = {}
        BY <2>3 DEF Defaults, Asked, ToSet
      <3>. QED
        BY <2>1, <2>2, <2>3, <3>1, <3>2 DEF DefaultRoutes
    <2>4. CASE ~Defaults
      <3>1. On(HttpRoutes, AppPortSet) = Asked(http)
        BY <2>4 DEF On, HttpRoutes, Asked
      <3>. QED
        BY <2>1, <2>2, <2>4, <3>1
    <2>. QED
      BY <2>3, <2>4
  <1>2. RoutesInv => RoutesAreShown
    BY <1>1 DEF RoutesAreShown
  <1>. QED
    BY <1>2, RoutesInvariance, PTL
=============================================================================
