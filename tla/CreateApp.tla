----------------------------- MODULE CreateApp ------------------------------
(***************************************************************************)
(* ltc create and ltc launch-droplet before their first request: the       *)
(* command line is checked flag by flag, defaults come from the image, and *)
(* the first thing that is wrong ends the command.  What is left is the    *)
(* app that Apps goes on to create.                                        *)
(*                                                                         *)
(* The docker registry that knows the image is asked in between; it is not *)
(* part of the repository.                                                 *)
(*                                                                         *)
(* Numbers are those strconv.Atoi returns; ports are kept in 16 bits.      *)
(***************************************************************************)
EXTENDS Integers, FiniteSets, ImageName, Routes

CONSTANTS
    Lines,      \* the command lines under study
    Images,     \* the metadata the docker registry may answer with
    Junk,       \* an argument that is no number
    Absent,     \* a flag or a part of it that is not there
    SshPort,    \* 2222
    ReservedPorts

Word == 65536
Ports == 0 .. Word - 1
\* The conversion uint16(n).
Uint16(n) == n % Word
Op == {"create", "launch-droplet"}
Number == Int \cup {Junk}
\* A route <host or external port>[:<container port>].
Route == [from : Number \cup {Absent}, port : Number \cup {Absent}]
LineType ==
    [op : Op, name : Reference, args : Nat, dashes : BOOLEAN, oldRoutes : BOOLEAN, weight : Int,
     ports : Seq(Number),       \* in the order sort.Strings leaves them
     noMonitor : BOOLEAN, monitorCommand : BOOLEAN,
     monitorUrl : Number \cup {Absent}, monitorPort : Int,
     http : Seq(Route), tcp : Seq(Route), noRoutes : BOOLEAN]
Image == [ports : Seq(Ports), start : BOOLEAN]

ASSUME LinesAssumption == Lines \subseteq LineType /\ Images \subseteq Image
ASSUME PortAssumption == SshPort \in Ports /\ ReservedPorts \subseteq Ports
ASSUME SentinelAssumption == Junk \notin Int /\ Absent \notin Number
ASSUME RoutesAssumption ==
    /\ Own \notin Number
    /\ Nil \notin Seq([hostnames : Seq(Number \cup {Own}), port : Ports])
    /\ Nil \notin Seq([from : Number, port : Ports])

VARIABLES
    line, image,
    stage,
    repo,       \* what the image argument was parsed to
    fetched,    \* the repository whose metadata were used
    rootFS,     \* the one whose image the app runs
    exposed,    \* ports the app will expose, in order, each as often as it is given
    monitor,    \* how it is checked, and on which port (0 if on none)
    http, tcp,  \* its routes
    routing,    \* what the receptor is sent of them
    code

registry == <<repo, fetched>>
vars == <<line, image, stage, registry, rootFS, exposed, monitor, http, tcp, routing, code>>

Init ==
    /\ line \in Lines
    /\ image \in Images
    /\ stage = "args"
    /\ repo = Absent /\ fetched = Absent /\ rootFS = Absent
    /\ exposed = <<>>
    /\ monitor = [method |-> "none", port |-> 0]
    /\ http = <<>> /\ tcp = <<>> /\ routing = <<>>
    /\ code = "none"

Goto(s) == stage' = s /\ UNCHANGED code
Exit(c) == stage' = "exited" /\ code' = c
Creates == line.op = "create"

-----------------------------------------------------------------------------
\* One switch: a line with more than four arguments takes the case that picks
\* them up, and so not the one that looks at the weight.
Malformed(l) ==
    \/ l.args < 2
    \/ l.args >= 4 /\ ~l.dashes
    \/ l.args <= 4 /\ l.weight \notin 1 .. 100
    \/ l.oldRoutes

Args ==
    /\ stage = "args"
    /\ \/ Malformed(line) /\ Exit("InvalidSyntax")
       \/ ~Malformed(line) /\ Goto(IF Creates THEN "metadata" ELSE "ports")
    /\ UNCHANGED <<line, image, registry, rootFS, exposed, monitor, http, tcp, routing>>

ParseImage ==
    /\ stage = "metadata"
    /\ \/ ~OutOfRange(line.name) /\ repo' = ParseDockerRepoUrl(line.name) /\ Goto("session")
       \/ OutOfRange(line.name) /\ Exit("panic") /\ UNCHANGED repo
       \/ Exit("BadDocker") /\ UNCHANGED repo
    /\ UNCHANGED <<line, image, fetched, rootFS, exposed, monitor, http, tcp, routing>>

\* MakeSession, a second time if it was the registry's certificate it failed for.
MakeSession ==
    /\ \/ stage \in {"session", "insecure"} /\ Goto("repository")
       \/ stage = "session" /\ Goto("insecure")
       \/ stage \in {"session", "insecure"} /\ Exit("BadDocker")
    /\ UNCHANGED <<line, image, registry, rootFS, exposed, monitor, http, tcp, routing>>

\* GetRepositoryData, GetRemoteTags for the tag's image, GetRemoteImageJSON.
AskRegistry ==
    /\ \/ stage = "repository" /\ Goto("tags") /\ UNCHANGED fetched
       \/ stage = "tags" /\ Goto("image") /\ UNCHANGED fetched
       \/ stage = "image" /\ Goto("ports") /\ fetched' = repo
       \/ stage \in {"repository", "tags", "image"} /\ Exit("BadDocker") /\ UNCHANGED fetched
    /\ UNCHANGED <<line, image, repo, rootFS, exposed, monitor, http, tcp, routing>>

\* Faulty variant: there is always an image that exposes ports.
DefaultPortsOfImage == image.ports
\* Without --ports those of the image, and without them 8080.
DefaultPorts == IF Creates /\ image.ports # <<>> THEN image.ports ELSE <<8080>>

\* What does not fit from above is refused, what is negative wraps around.
Fits(n) == n # Junk /\ n < Word
ExposedPorts ==
    /\ stage = "ports"
    /\ \/ /\ \E n \in ToSet(line.ports) : ~Fits(n)
          /\ Exit("InvalidSyntax") /\ UNCHANGED exposed
       \/ /\ \A n \in ToSet(line.ports) : Fits(n)
          /\ exposed' = IF line.ports = <<>> THEN DefaultPorts
                        ELSE [i \in DOMAIN line.ports |-> Uint16(line.ports[i])]
          /\ Goto("monitor")
    /\ UNCHANGED <<line, image, registry, rootFS, monitor, http, tcp, routing>>

-----------------------------------------------------------------------------
Monitor(method, port) ==
    /\ monitor' = [method |-> method, port |-> port]
    /\ Goto(IF Creates THEN "start" ELSE "http")
\* ltc create tells a monitor port that is not exposed from other errors.
MonitorError(notExposed) ==
    /\ Exit(IF Creates /\ notExposed THEN "CommandFailed" ELSE "InvalidSyntax")
    /\ UNCHANGED monitor

\* Faulty variant: a port given by a flag is taken as it is.
MonitorOnUnchecked(method, n) == Monitor(method, Uint16(n))
\* checkPortExposed
MonitorOn(method, n) ==
    \/ Uint16(n) \in ToSet(exposed) /\ Monitor(method, Uint16(n))
    \/ Uint16(n) \notin ToSet(exposed) /\ MonitorError(TRUE)

Least(S) == CHOOSE n \in S : \A m \in S : n <= m
\* launch-droplet has no --monitor-command.
ByCommand == ~line.noMonitor /\ Creates /\ line.monitorCommand
ByUrl == ~line.noMonitor /\ ~ByCommand /\ line.monitorUrl # Absent
ByPort == ~line.noMonitor /\ ~ByCommand /\ ~ByUrl

\* Taking the first of no ports at all would be a panic; see NoPanic.
GetMonitorConfig ==
    /\ stage = "monitor"
    /\ \/ line.noMonitor /\ Monitor("none", 0)
       \/ ByCommand /\ Monitor("command", 0)
       \/ ByUrl /\ line.monitorUrl = Junk /\ MonitorError(FALSE)
       \/ ByUrl /\ line.monitorUrl # Junk /\ MonitorOn("url", line.monitorUrl)
       \/ ByPort /\ exposed # <<>> /\
             MonitorOn("port", IF line.monitorPort > 0 THEN line.monitorPort ELSE Least(ToSet(exposed)))
       \/ ByPort /\ exposed = <<>> /\ Exit("panic") /\ UNCHANGED monitor
    /\ UNCHANGED <<line, image, registry, rootFS, exposed, http, tcp, routing>>

\* A start command is the fourth argument or the image's.
StartCommand ==
    /\ stage = "start"
    /\ \/ line.args < 4 /\ ~image.start /\ Exit("BadDocker")
       \/ (line.args >= 4 \/ image.start) /\ Goto("http")
    /\ UNCHANGED <<line, image, registry, rootFS, exposed, monitor, http, tcp, routing>>

-----------------------------------------------------------------------------
\* getPort
IsPort(n) == n # Junk /\ 0 < n /\ n < Word

\* Faulty variant: the port of ssh counts like any other.
AppPortsWithSsh == DOMAIN exposed
\* removePort: where the ports besides ssh's are.  A route without a container
\* port takes the only one; a port exposed twice is more than one.
AppPorts == {i \in DOMAIN exposed : exposed[i] # SshPort}
HasContainerPort(r) ==
    \/ r.port = Absent /\ Cardinality(AppPorts) = 1
    \/ r.port # Absent /\ IsPort(r.port)
ContainerPort(r) == IF r.port = Absent THEN exposed[CHOOSE i \in AppPorts : TRUE] ELSE r.port
Parsed(routes) == [i \in DOMAIN routes |-> [from |-> routes[i].from, port |-> ContainerPort(routes[i])]]

\* ParseRouteOverrides: where a route comes from is a name, and not an empty one.
ParseHttp ==
    /\ stage = "http"
    /\ LET fine == \A r \in ToSet(line.http) : HasContainerPort(r) /\ r.from # Absent IN
        \/ fine /\ http' = Parsed(line.http) /\ Goto("tcp")
        \/ ~fine /\ Exit("InvalidSyntax") /\ UNCHANGED http
    /\ UNCHANGED <<line, image, registry, rootFS, exposed, monitor, tcp, routing>>

\* ParseTcpRoutes: the external port must be one that Lattice does not use.
ParseTcp ==
    /\ stage = "tcp"
    /\ LET fine == \A r \in ToSet(line.tcp) : /\ HasContainerPort(r)
                                              /\ r.from # Absent /\ IsPort(r.from)
                                              /\ r.from \notin ReservedPorts
       IN  \/ fine /\ tcp' = Parsed(line.tcp) /\ Goto("request")
           \/ ~fine /\ Exit("InvalidSyntax") /\ UNCHANGED tcp
    /\ UNCHANGED <<line, image, registry, rootFS, exposed, monitor, http, routing>>

\* GetPrimaryPort: the monitored port, or else the first exposed one.
PrimaryPort == IF monitor.port # 0 THEN monitor.port ELSE IF exposed # <<>> THEN exposed[1] ELSE 0

\* The image's name is parsed anew and may yet be refused; the request may fail.
\* What there is of ssh is the key in its route.
Request ==
    /\ stage = "request"
    /\ \/ /\ Exit("requested")
          /\ Creates => CanFormat(line.name)
          /\ rootFS' = IF Creates THEN ParseDockerRepoUrl(line.name) ELSE Absent
          /\ LET routes == BuildRoutesWithDefaults(line.noRoutes, http, tcp, exposed, PrimaryPort)
             IN routing' = RoutingInfo([routes EXCEPT !.ssh = SshPort])
       \/ Exit("CommandFailed") /\ UNCHANGED <<rootFS, routing>>
    /\ UNCHANGED <<line, image, registry, exposed, monitor, http, tcp>>

Next == \/ Args \/ ParseImage \/ MakeSession \/ AskRegistry \/ ExposedPorts \/ GetMonitorConfig \/ StartCommand
        \/ ParseHttp \/ ParseTcp \/ Request
Spec == Init /\ [][Next]_vars

-----------------------------------------------------------------------------
Requested == code = "requested"

\* "Unsafe array access: because we'll default exposing 8080": the command
\* line, the image and the defaults never leave GetMonitorConfig without a port.
NoPanic == code # "panic"

\* What list and status will show of the app; it exposes the port of ssh, too.
AppPortSet == ToSet(exposed) \cup {SshPort}
Listed == GetRoutes(routing, AppPortSet)
Printed == PrintAppRoutes(routing, AppPortSet)
Defaults == http = <<>> /\ tcp = <<>> /\ ~line.noRoutes
OwnNames(view) == {r \in ToSet(view.http) : r.from = Own}

\* An app without routes of its own is reachable under its own hostname, on
\* one exposed port only, and that port is the one whose health is checked:
\* list and status both say so.
OwnNameIsMonitored ==
    Requested /\ Defaults =>
        \E n \in ToSet(exposed) :
            /\ monitor.port \in {0, n}
            /\ \A view \in {Listed, Printed} : OwnNames(view) = {[from |-> Own, port |-> n]}

\* No route whose container port was left out ends at the ssh daemon, and no
\* external port is one that Lattice itself listens on.
PortsOf(routes) == {r.port : r \in ToSet(routes)}
SshIsNotRouted ==
    Requested /\ ~line.noRoutes =>
        /\ SshPort \in PortsOf(http) \cup PortsOf(tcp) =>
               SshPort \in PortsOf(line.http) \cup PortsOf(line.tcp)
        /\ \A r \in ToSet(tcp) : r.from \notin ReservedPorts

\* ltc list and ltc status show every route asked for that ends at an exposed port,
\* or the defaults, and no other, however many hostnames share a port and whatever
\* the receptor was not sent.
Asked(routes) == IF line.noRoutes THEN {} ELSE {r \in ToSet(routes) : r.port \in AppPortSet}
RoutesAreShown ==
    Requested =>
        LET defaults(view) == IF ~Defaults THEN {}
                              ELSE OwnNames(view) \cup {[from |-> n, port |-> n] : n \in ToSet(exposed)}
        IN \A view \in {Listed, Printed} :
               /\ ToSet(view.http) = Asked(http) \cup defaults(view)
               /\ ToSet(view.tcp) = Asked(tcp)

\* A route is shown as often as it was asked for, in both views; of the defaults
\* list shows those of a port as often as the port was given, status once.
ShownAsOften ==
    Requested =>
        /\ \A view \in {Listed, Printed} :
               /\ \A r \in Asked(http) : Times(view.http, r) = Times(http, r)
               /\ \A r \in Asked(tcp) : Times(view.tcp, r) = Times(tcp, r)
        /\ Defaults => \A n \in ToSet(exposed) :
               /\ Times(Listed.http, [from |-> n, port |-> n]) = Times(exposed, n)
               /\ Times(Printed.http, [from |-> n, port |-> n]) = 1

\* Do list and status show a route equally often?
ViewsAgree == Requested => \A r \in ToSet(Listed.http) : Times(Listed.http, r) = Times(Printed.http, r)

\* ltc status puts "Routes" in front of the routes it shows.
RoutesAreLabelled == Requested /\ Printed.http \o Printed.tcp # <<>> => SaysRoutes(routing, AppPortSet)

\* The image an app is asked to run is the one its argument names to docker, and
\* the one whose ports and start command were taken for it.
RunsTheImageNamed ==
    Requested /\ Creates => fetched = rootFS /\ Means(rootFS, line.name)

\* "Relative CPU weight for the container (valid values: 1-100)".
WeightIsValid == Requested => line.weight \in 1 .. 100

\* "Ports must be a positive integer less than 65536."
PortsAreValid == Requested => \A n \in ToSet(line.ports) : IsPort(n)
=============================================================================
