-------------------------------- MODULE Apps --------------------------------
(***************************************************************************)
(* Several invocations of ltc (create, submit-lrp, scale, update, remove)  *)
(* against one receptor.  Every call to the receptor is a step of its own: *)
(* between the list that says whether an app exists and the request that   *)
(* acts on it, other invocations and Diego itself run.                     *)
(*                                                                         *)
(* The receptor and Diego are not part of the repository: they are the     *)
(* variables desired, actual and domain, Receptor* and Diego.              *)
(***************************************************************************)
EXTENDS Integers, Sequences, FiniteSets

CONSTANTS
    Proc,       \* invocations of ltc, each running one command
    Name,       \* process guids
    Reserved,   \* LatticeDebugLogStreamAppId
    Port,       \* container ports
    SshPort,    \* 2222, where the ssh daemon listens beside every created app
    DefaultPort,\* what a route flag without a port asks for
    MaxInst,    \* bound on the instances of an app
    MaxPolls,   \* bound on a polling timeout, in seconds
    NoLRP,      \* the answer for a guid nothing is desired under
    Command     \* the command lines under study

Index == 0 .. MaxInst - 1
PortArg == Port \cup {DefaultPort}
\* Ports are as often in a list as the command line, or the image, has them.
LRP == [inst : 0 .. MaxInst, ports : Seq(Port),
        http : SUBSET Port, tcp : SUBSET Port, ssh : BOOLEAN]
InstState == {"none", "pending", "unplaced", "running"}
Op == {"create", "submit", "scale", "update", "remove"}
CommandType ==
    [op : Op, names : Seq(Name) \ {<<>>}, inst : 0 .. MaxInst,
     ports : Seq(Port), http : SUBSET PortArg, tcp : SUBSET PortArg,
     noRoutes : BOOLEAN, timeout : 0 .. MaxPolls]
Label == {"idle", "statusDesired", "statusActual", "exists", "domain",
          "write", "poll", "stopping", "exited"}
ExitCode == {"none", "ok", "PlacementError", "FileSystemError", "BadDocker",
             "InvalidSyntax", "CommandFailed", "Signal", "Panic"}

Words == {"nothing", "running", "timed out"}

ASSUME BoundsAssumption == MaxInst \in Nat /\ MaxPolls \in Nat
ASSUME NamesAssumption == Reserved \in Name /\ SshPort \in Port
ASSUME SentinelAssumption == NoLRP \notin LRP /\ DefaultPort \notin Port
\* Only remove takes several names; a submitted JSON carries its own routes.
ASSUME CommandAssumption ==
    /\ Command \subseteq CommandType
    /\ \A c \in Command : c.op # "remove" => Len(c.names) = 1
    /\ \A c \in Command : c.op = "submit" => DefaultPort \notin c.http \cup c.tcp

VARIABLES
    desired,    \* the receptor's desired LRPs
    actual,     \* the state Diego reports for each instance index
    domain,     \* whether the "lattice" domain has been upserted
    pc, cmd,    \* where each invocation is, and the command it runs
    at,         \* the argument remove's loop is at
    view,       \* the desired LRP AppStatus read
    polls,      \* seconds left before the polling timeout
    said,       \* what the process told its user about the polling
    tail,       \* the goroutine that reads the logs of the app being created
    code,       \* exit code of the process
    done        \* history: names on which a request of p took effect

receptor == <<desired, actual, domain>>
process == <<pc, cmd, at, view, polls, said, tail, code, done>>
vars == <<receptor, process>>

Init ==
    /\ desired = [n \in Name |-> NoLRP]
    /\ actual = [n \in Name |-> [i \in Index |-> "none"]]
    /\ domain = FALSE
    /\ pc = [p \in Proc |-> "idle"]
    /\ cmd \in [Proc -> Command]
    /\ at = [p \in Proc |-> 1]
    /\ view = [p \in Proc |-> NoLRP]
    /\ polls = [p \in Proc |-> 0]
    /\ said = [p \in Proc |-> "nothing"]
    /\ tail = [p \in Proc |-> "none"]
    /\ code = [p \in Proc |-> "none"]
    /\ done = [p \in Proc |-> {}]

-----------------------------------------------------------------------------
Target(p) == cmd[p].names[at[p]]
Creates(p) == cmd[p].op \in {"create", "submit"}
Running(n) == {i \in Index : actual[n][i] = "running"}
Unplaced(n) == {i \in Index : actual[n][i] = "unplaced"}
HasActual(n) == \E i \in Index : actual[n][i] # "none"

Goto(p, l) == pc' = [pc EXCEPT ![p] = l] /\ UNCHANGED <<tail, code>>
\* The process ends, and its goroutines with it.
Exit(p, c) ==
    /\ pc' = [pc EXCEPT ![p] = "exited"] /\ code' = [code EXCEPT ![p] = c]
    /\ tail' = [tail EXCEPT ![p] = "none"]

Ports(exposed) == {exposed[i] : i \in DOMAIN exposed}
\* A route without a port takes the app's only exposed port, if it has one
\* besides that of ssh; the same port given twice is two (removePort).
AppPorts(exposed) == {i \in DOMAIN exposed : exposed[i] # SshPort}
Parses(args, exposed) ==
    DefaultPort \in args => Cardinality(AppPorts(exposed)) = 1
Resolve(args, exposed) ==
    (args \ {DefaultPort}) \cup
        (IF DefaultPort \in args THEN {exposed[i] : i \in AppPorts(exposed)} ELSE {})

BuildRoutes(c, http, tcp) ==
    [http |-> IF c.noRoutes THEN {} ELSE http,
     tcp  |-> IF c.noRoutes THEN {} ELSE tcp]
\* Without any route and without --no-routes every exposed port gets one.
BuildRoutesWithDefaults(c, http, tcp) ==
    LET r == BuildRoutes(c, http, tcp)
    IN  IF r.http = {} /\ r.tcp = {} /\ ~c.noRoutes
        THEN [r EXCEPT !.http = Ports(c.ports)] ELSE r

\* desireLrp: the request of ltc create, with the port and route of ssh.
DesireLrp(c) ==
    LET r == BuildRoutesWithDefaults(c, Resolve(c.http, c.ports), Resolve(c.tcp, c.ports))
    IN  [inst |-> c.inst, ports |-> Append(c.ports, SshPort), http |-> r.http, tcp |-> r.tcp, ssh |-> TRUE]
SubmitLrp(c) ==
    [inst |-> c.inst, ports |-> c.ports, http |-> c.http, tcp |-> c.tcp, ssh |-> FALSE]

\* Faulty variant: only CreateApp looks, SubmitLrp forgets to.
IsReservedForCreate(p) == cmd[p].op = "create" /\ Target(p) = Reserved
\* Both ways to create an app refuse the guid of the debug log stream.
IsReserved(p) == Target(p) = Reserved

\* The command line is turned down before any call is made.
Rejected(c) ==
    \/ c.op = "update" /\ c.http = {} /\ c.tcp = {} /\ ~c.noRoutes
    \/ c.op = "create" /\ ~(Parses(c.http, c.ports) /\ Parses(c.tcp, c.ports))

Start(p) ==
    /\ pc[p] = "idle"
    /\ LET c == cmd[p] IN
        \/ Rejected(c) /\ Exit(p, "InvalidSyntax")
        \/ c.op = "submit" /\ \E x \in {"FileSystemError", "CommandFailed"} : Exit(p, x)
        \/ c.op = "create" /\ \E x \in {"BadDocker", "CommandFailed"} : Exit(p, x)
        \/ ~Rejected(c) /\ Creates(p) /\ IsReserved(p) /\ Exit(p, "CommandFailed")
        \/ ~Rejected(c) /\ Creates(p) /\ ~IsReserved(p) /\ Goto(p, "exists")
        \/ c.op \in {"scale", "remove"} /\ Goto(p, "exists")
        \/ ~Rejected(c) /\ c.op = "update" /\ Goto(p, "statusDesired")
    /\ UNCHANGED <<receptor, cmd, at, view, polls, said, done>>

\* desiredLRPExists: one list of every desired LRP decides the command.
Exists(p) ==
    /\ pc[p] = "exists"
    /\ LET found == desired[Target(p)] # NoLRP IN
        \/ Exit(p, "CommandFailed")     \* the call failed, or
        \/ Creates(p) /\ ~found /\ Goto(p, "domain")
        \/ ~Creates(p) /\ found /\ Goto(p, "write")
    /\ UNCHANGED <<receptor, cmd, at, view, polls, said, done>>

\* Faulty variant: an error of the call is passed over.
UpsertDomainUnchecked(p) ==
    /\ pc[p] = "domain"
    /\ domain' \in {domain, TRUE}
    /\ Goto(p, "write")
    /\ UNCHANGED <<desired, actual, cmd, at, view, polls, said, done>>
\* The domain is refreshed before every request that creates.
UpsertDomain(p) ==
    /\ pc[p] = "domain"
    /\ \/ domain' = TRUE /\ (Goto(p, "write") \/ Exit(p, "CommandFailed"))
       \/ UNCHANGED domain /\ Exit(p, "CommandFailed")
    /\ UNCHANGED <<desired, actual, cmd, at, view, polls, said, done>>

-----------------------------------------------------------------------------
\* What the receptor makes of the request; it refuses a guid that is taken
\* and an update or delete of one that is not there.
ReceptorAccepts(p) == Creates(p) <=> desired[Target(p)] = NoLRP
ReceptorResult(p) ==
    LET c == cmd[p]
        old == desired[Target(p)]
        r == BuildRoutes(c, c.http, c.tcp)
    IN  CASE c.op = "create" -> DesireLrp(c)
          [] c.op = "submit" -> SubmitLrp(c)
          [] c.op = "scale"  -> [old EXCEPT !.inst = c.inst]
          [] c.op = "update" -> [old EXCEPT !.http = r.http, !.tcp = r.tcp, !.ssh = FALSE]
          [] c.op = "remove" -> NoLRP

\* Faulty variant: remove does not look whether it is at its last argument.
AfterWriteUnbounded(p) ==
    /\ Goto(p, IF cmd[p].op \in {"create", "scale"} THEN "poll" ELSE "exists")
    /\ at' = [at EXCEPT ![p] = @ + 1]
    /\ UNCHANGED polls
\* create tails the app's logs while it polls, scale does not.
Tailing(p) == tail' = [tail EXCEPT ![p] = IF cmd[p].op = "create" THEN "reading" ELSE @]
\* The answer arrived: create and scale go on to poll, remove to its next name.
AfterWrite(p) ==
    LET c == cmd[p] IN
    \/ /\ c.op \in {"create", "scale"}
       /\ pc' = [pc EXCEPT ![p] = "poll"] /\ Tailing(p) /\ UNCHANGED code
       /\ polls' = [polls EXCEPT ![p] = c.timeout]
       /\ UNCHANGED at
    \/ /\ c.op \in {"submit", "update"} \/ (c.op = "remove" /\ at[p] = Len(c.names))
       /\ Exit(p, "ok")
       /\ UNCHANGED <<at, polls>>
    \/ /\ c.op = "remove" /\ at[p] < Len(c.names)
       /\ Goto(p, "exists")
       /\ at' = [at EXCEPT ![p] = @ + 1]
       /\ UNCHANGED polls

\* Faulty variant: the error of the request is dropped.
WriteFailedUnchecked(p) == AfterWrite(p)
\* Faulty variant: remove goes on with its next argument.
WriteFailedGoesOn(p) ==
    \/ cmd[p].op = "remove" /\ AfterWrite(p)
    \/ cmd[p].op # "remove" /\ Exit(p, "CommandFailed") /\ UNCHANGED <<at, polls>>
WriteFailed(p) == Exit(p, "CommandFailed") /\ UNCHANGED <<at, polls>>

\* Create-, Update- or DeleteDesiredLRP.  The request may take effect and the
\* answer be lost, and it may fail before it reaches the receptor.
Write(p) ==
    /\ pc[p] = "write"
    /\ \/ /\ ReceptorAccepts(p)
          /\ desired' = [desired EXCEPT ![Target(p)] = ReceptorResult(p)]
          /\ done' = [done EXCEPT ![p] = @ \cup {Target(p)}]
          /\ AfterWrite(p) \/ WriteFailed(p)
       \/ WriteFailed(p) /\ UNCHANGED <<desired, done>>
    /\ UNCHANGED <<actual, domain, cmd, view, said>>

-----------------------------------------------------------------------------
\* After polling, create asks for the app's status; scale is finished.
AfterPoll(p, words) ==
    /\ said' = [said EXCEPT ![p] = words]
    /\ UNCHANGED polls
    /\ \/ cmd[p].op = "create" /\ Goto(p, "statusDesired")
       \/ cmd[p].op = "scale" /\ Exit(p, "ok")

\* Faulty variant: the starting time is taken anew in every round.
PollAgainFromStart(p) == Goto(p, "poll") /\ UNCHANGED <<polls, said>>
\* One round of pollUntilSuccess: at least a second passes per round.
PollAgain(p) ==
    /\ \E left \in 0 .. polls[p] - 1 : polls' = [polls EXCEPT ![p] = left]
    /\ Goto(p, "poll")
    /\ UNCHANGED said

\* RunningAppInstancesInfo: an error counts as no instance running.
Poll(p) ==
    /\ pc[p] = "poll" /\ polls[p] > 0
    /\ LET n == Target(p)
           all == Cardinality(Running(n)) = cmd[p].inst
       IN \/ Unplaced(n) # {} /\ Exit(p, "PlacementError") /\ UNCHANGED <<polls, said>>
          \/ Unplaced(n) = {} /\ all /\ AfterPoll(p, "running")
          \/ Unplaced(n) = {} /\ ~all /\ PollAgain(p)
          \/ cmd[p].inst = 0 /\ AfterPoll(p, "running")   \* the call failed
          \/ cmd[p].inst # 0 /\ PollAgain(p)              \* the call failed
    /\ UNCHANGED <<receptor, cmd, at, view, done>>

PollTimeout(p) ==
    /\ pc[p] = "poll" /\ polls[p] = 0
    /\ AfterPoll(p, "timed out")
    /\ UNCHANGED <<receptor, cmd, at, view, done>>

\* AppStatus is two calls; not finding the desired LRP is no error yet.
StatusDesired(p) ==
    /\ pc[p] = "statusDesired"
    /\ \/ Goto(p, "statusActual") /\ view' = [view EXCEPT ![p] = desired[Target(p)]]
       \/ Exit(p, "CommandFailed") /\ UNCHANGED view
    /\ UNCHANGED <<receptor, cmd, at, polls, said, done>>

\* The ports an update resolves default routes against are those read above.
ViewPorts(p) == IF view[p] = NoLRP THEN <<>> ELSE view[p].ports

StatusActual(p) ==
    /\ pc[p] = "statusActual"
    /\ LET c == cmd[p]
           known == view[p] # NoLRP \/ HasActual(Target(p))
           parses == Parses(c.http, ViewPorts(p)) /\ Parses(c.tcp, ViewPorts(p))
       IN \/ Exit(p, "CommandFailed") /\ UNCHANGED cmd
          \/ known /\ c.op = "create" /\ Goto(p, "stopping") /\ UNCHANGED cmd
          \/ known /\ c.op = "update" /\ ~parses /\ Exit(p, "InvalidSyntax") /\ UNCHANGED cmd
          \/ /\ known /\ c.op = "update" /\ parses /\ Goto(p, "exists")
             /\ cmd' = [cmd EXCEPT ![p].http = Resolve(@, ViewPorts(p)),
                                   ![p].tcp = Resolve(@, ViewPorts(p))]
    /\ UNCHANGED <<receptor, at, view, polls, said, done>>

\* The deferred StopOutputting hands its stop to the reader, and waits for one
\* that receives; see LogTail.
StopOutputting(p) ==
    /\ pc[p] = "stopping" /\ tail[p] = "reading"
    /\ Exit(p, "ok")
    /\ UNCHANGED <<receptor, cmd, at, view, polls, said, done>>

\* The consumer of the logs ends by itself: the reader returns, or takes the
\* process down with the nil error of a closed channel.
TailEnds(p) ==
    /\ tail[p] = "reading"
    /\ \/ tail' = [tail EXCEPT ![p] = "returned"] /\ UNCHANGED <<pc, code>>
       \/ Exit(p, "Panic")
    /\ UNCHANGED <<receptor, cmd, at, view, polls, said, done>>

\* SIGINT or SIGTERM: the exit handler ends the process wherever it is.
Interrupt(p) ==
    /\ pc[p] \notin {"idle", "exited"}
    /\ Exit(p, "Signal")
    /\ UNCHANGED <<receptor, cmd, at, view, polls, said, done>>

-----------------------------------------------------------------------------
\* Diego, between any two steps of ltc: it starts what is desired, fails to
\* place an instance and retries, restarts what crashed, retires the rest.
Wanted(n) == {i \in Index : desired[n] # NoLRP /\ i < desired[n].inst}
DiegoStep(n, i) ==
    \/ actual[n][i] = "none" /\ i \in Wanted(n) /\ actual' = [actual EXCEPT ![n][i] = "pending"]
    \/ actual[n][i] = "pending" /\ actual' = [actual EXCEPT ![n][i] = "running"]
    \/ actual[n][i] = "pending" /\ actual' = [actual EXCEPT ![n][i] = "unplaced"]
    \/ actual[n][i] \in {"unplaced", "running"} /\ actual' = [actual EXCEPT ![n][i] = "pending"]
    \/ actual[n][i] # "none" /\ i \notin Wanted(n) /\ actual' = [actual EXCEPT ![n][i] = "none"]
Diego ==
    /\ \E n \in Name, i \in Index : DiegoStep(n, i)
    /\ UNCHANGED <<desired, domain, process>>

Step(p) ==
    \/ Start(p) \/ Exists(p) \/ UpsertDomain(p) \/ Write(p)
    \/ Poll(p) \/ PollTimeout(p) \/ StatusDesired(p) \/ StatusActual(p) \/ StopOutputting(p)
Next == Diego \/ \E p \in Proc : Step(p) \/ TailEnds(p) \/ Interrupt(p)

Spec == Init /\ [][Next]_vars
\* A process that is not blocked is scheduled; nothing is asked of Diego, of
\* signals or of the consumer of logs.
FairSpec == Spec /\ \A p \in Proc : WF_vars(Step(p))

-----------------------------------------------------------------------------
TypeOK ==
    /\ desired \in [Name -> LRP \cup {NoLRP}]
    /\ actual \in [Name -> [Index -> InstState]]
    /\ domain \in BOOLEAN
    /\ pc \in [Proc -> Label]
    /\ cmd \in [Proc -> CommandType]
    /\ \A p \in Proc : at[p] \in 1 .. Len(cmd[p].names)
    /\ at \in [Proc -> Nat]
    /\ view \in [Proc -> LRP \cup {NoLRP}]
    /\ polls \in [Proc -> 0 .. MaxPolls]
    /\ said \in [Proc -> Words]
    /\ tail \in [Proc -> {"none", "reading", "returned"}]
    /\ code \in [Proc -> ExitCode]
    /\ done \in [Proc -> SUBSET Name]

Args(p, S) == {cmd[p].names[i] : i \in S}
AllArgs(p) == Args(p, 1 .. Len(cmd[p].names))

\* No app is ever desired outside a fresh domain: Diego would not converge it.
\* CreateApp and SubmitLrp upsert the domain first and give up if that fails.
DomainBeforeApp == (\E n \in Name : desired[n] # NoLRP) => domain

\* The guid of the debug log stream is never desired, by whichever command.
ReservedIsNoApp == desired[Reserved] = NoLRP

\* What the exit code says of the receptor: 0 that every request took effect, a
\* syntax, file or docker error that none did, a placement error that the app
\* was created or scaled.  A failed or interrupted command says nothing.
Accounts(p) ==
    /\ code[p] \in {"ok", "PlacementError"} => done[p] = AllArgs(p)
    /\ code[p] \in {"InvalidSyntax", "FileSystemError", "BadDocker"} => done[p] = {}
ExitCodeAccounts == \A p \in Proc : Accounts(p)

\* remove works through its arguments in order and stops at the first failure:
\* everything before the argument it is at is removed, nothing after it is.
InOrder(p) == /\ Args(p, 1 .. at[p] - 1) \subseteq done[p]
              /\ done[p] \subseteq Args(p, 1 .. at[p])
RemovedInOrder == \A p \in Proc : InOrder(p)

\* Whatever happens between its requests, every command is one that works on a
\* registry of apps in single steps: what it does to an app happens at once,
\* only to one that is there (or is not, when it creates), never to the guid of
\* the debug log stream, and its exit code accounts for it.
R == INSTANCE Registry WITH
         apps <- desired,
         task <- [p \in Proc |-> [op |-> cmd[p].op, names |-> AllArgs(p), inst |-> cmd[p].inst]]
ImplementsRegistry == R!Spec

\* The stop is sent to a reader that has returned: nobody ever receives it.
StopIsLost(p) == pc[p] = "stopping" /\ tail[p] = "returned"
\* Every command ends, whatever the receptor answers, for polling is bounded;
\* only a create whose logs ended before it did hangs, and it alone.
EveryCommandEnds == \A p \in Proc : <>(pc[p] = "exited" \/ StopIsLost(p))

\* create returns when it is done: nothing it defers keeps it.
EveryCreateReturns == \A p \in Proc : pc[p] = "stopping" ~> pc[p] = "exited"

\* "Error, could not place all instances: insufficient resources.  Try
\* requesting fewer instances": the failed instance is one that was requested.
PlacementErrorIsRequested ==
    [][\A p \in Proc : code'[p] = "PlacementError" /\ code[p] = "none" =>
           \E i \in Unplaced(Target(p)) : i < cmd[p].inst]_vars

\* The container ports of an app's routes are among the ports it exposes.
RoutesOnExposedPorts ==
    \A n \in Name : desired[n] # NoLRP =>
        desired[n].http \cup desired[n].tcp \subseteq Ports(desired[n].ports)
=============================================================================
