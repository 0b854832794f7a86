----------------------------- MODULE AppsProofs -----------------------------
(***************************************************************************)
(* For every number of invocations, apps, instances and command lines: no  *)
(* app is desired outside a fresh domain, the reserved guid is never an    *)
(* app, remove works in order and the exit code accounts for what the      *)
(* receptor was made to do.  None of these is inductive: each needs what   *)
(* is known of a command between its check and its request (InFlight).     *)
(***************************************************************************)
EXTENDS Apps, TLAPS

\* What holds of a command by where it is.
InFlight(p) ==
    /\ cmd[p].op # "remove" => at[p] = 1 /\ Len(cmd[p].names) = 1
    /\ cmd[p].op = "submit" => DefaultPort \notin cmd[p].http \cup cmd[p].tcp
    /\ pc[p] \in {"exists", "write"} /\ cmd[p].op = "update" =>
           DefaultPort \notin cmd[p].http \cup cmd[p].tcp
    /\ pc[p] = "write" /\ Creates(p) => domain
    /\ pc[p] \in {"exists", "domain", "write"} /\ Creates(p) => Target(p) # Reserved
    /\ pc[p] = "domain" => Creates(p)
    /\ pc[p] \in {"statusDesired", "statusActual"} => cmd[p].op \in {"create", "update"}
    /\ pc[p] = "poll" => cmd[p].op \in {"create", "scale"}
    /\ pc[p] = "stopping" => cmd[p].op = "create"

\* How much of a command is done, by where it is.
Progress(p) ==
    /\ pc[p] = "idle" => at[p] = 1
    /\ pc[p] \in {"idle", "exists", "domain", "write"} => done[p] = Args(p, 1 .. at[p] - 1)
    /\ pc[p] \in {"poll", "stopping"} => done[p] = AllArgs(p)
    /\ pc[p] \in {"statusDesired", "statusActual"} =>
           done[p] = IF cmd[p].op = "create" THEN AllArgs(p) ELSE {}
    /\ pc[p] # "exited" => code[p] = "none"

IInv == /\ TypeOK
        /\ DomainBeforeApp
        /\ ReservedIsNoApp
        /\ ExitCodeAccounts
        /\ RemovedInOrder
        /\ \A p \in Proc : InFlight(p) /\ Progress(p)

\* No goroutine outlives its process.
TailsEnd == \A p \in Proc : pc[p] = "exited" => tail[p] = "none"

-----------------------------------------------------------------------------
\* A command without a loop has one argument, and is at it.
LEMMA SingleArg ==
    ASSUME TypeOK, NEW p \in Proc, InFlight(p), cmd[p].op # "remove"
    PROVE  /\ Args(p, 1 .. at[p] - 1) = {}
           /\ Args(p, 1 .. at[p]) = AllArgs(p)
           /\ AllArgs(p) = {Target(p)}
  BY DEF InFlight, Args, AllArgs, Target

\* The argument in hand is a name, and adds itself to what is done.
LEMMA NextArg ==
    ASSUME TypeOK, NEW p \in Proc
    PROVE  /\ Target(p) \in Name
           /\ at[p] \in Nat /\ at[p] >= 1 /\ at[p] <= Len(cmd[p].names)
           /\ Len(cmd[p].names) \in Nat
           /\ Args(p, 1 .. at[p]) = Args(p, 1 .. at[p] - 1) \cup {Target(p)}
           /\ at[p] = Len(cmd[p].names) => Args(p, 1 .. at[p]) = AllArgs(p)
  <1>1. cmd[p] \in CommandType /\ at[p] \in 1 .. Len(cmd[p].names) /\ at[p] \in Nat
    BY DEF TypeOK
  <1>2. cmd[p].names \in Seq(Name)
    BY <1>1 DEF CommandType
  <1>3. 1 .. at[p] = (1 .. at[p] - 1) \cup {at[p]}
    BY <1>1
  <1>. QED
    BY <1>1, <1>2, <1>3 DEF Args, AllArgs, Target

\* The request a command makes is well formed.
LEMMA ResultType ==
    ASSUME IInv, NEW p \in Proc, pc[p] = "write", ReceptorAccepts(p)
    PROVE  /\ ReceptorResult(p) \in LRP \cup {NoLRP}
           /\ cmd[p].op # "remove" => ReceptorResult(p) \in LRP
           /\ Target(p) = Reserved => ReceptorResult(p) = NoLRP
           /\ ReceptorResult(p) # NoLRP => domain
  <1> DEFINE c == cmd[p]
             old == desired[Target(p)]
  <1>1. c \in CommandType /\ InFlight(p) /\ Target(p) \in Name /\ TypeOK
    BY NextArg DEF IInv, TypeOK
  <1>2. c.op \in Op /\ c.inst \in 0 .. MaxInst /\ c.ports \in Seq(Port)
        /\ c.http \subseteq PortArg /\ c.tcp \subseteq PortArg /\ c.noRoutes \in BOOLEAN
    BY <1>1 DEF CommandType
  <1>3. CASE c.op = "create"
    <2>1. Resolve(c.http, c.ports) \subseteq Port /\ Resolve(c.tcp, c.ports) \subseteq Port
      <3>1. \A i \in DOMAIN c.ports : c.ports[i] \in Port
        BY <1>2
      <3>. QED
        BY <1>2, <3>1 DEF Resolve, AppPorts, PortArg
    <2>2. BuildRoutesWithDefaults(c, Resolve(c.http, c.ports), Resolve(c.tcp, c.ports))
            \in [http : SUBSET Port, tcp : SUBSET Port]
      <3>1. Ports(c.ports) \subseteq Port
        BY <1>2 DEF Ports
      <3>. QED
        BY <1>2, <2>1, <3>1 DEF BuildRoutesWithDefaults, BuildRoutes
    <2>3. DesireLrp(c) \in LRP
      BY <1>2, <2>2, NamesAssumption DEF DesireLrp, LRP
    <2>. QED
      BY <1>1, <1>3, <2>3 DEF ReceptorResult, InFlight, Creates
  <1>4. CASE c.op = "submit"
    <2>1. SubmitLrp(c) \in LRP
      BY <1>1, <1>2, <1>4 DEF SubmitLrp, LRP, InFlight, PortArg
    <2>. QED
      BY <1>1, <1>4, <2>1 DEF ReceptorResult, InFlight, Creates
  <1>5. CASE c.op \in {"scale", "update"}
    <2>1. old \in LRP /\ Target(p) # Reserved /\ domain
      BY <1>1, <1>5 DEF IInv, TypeOK, ReceptorAccepts, Creates, ReservedIsNoApp, DomainBeforeApp
    <2>2. c.op = "update" => BuildRoutes(c, c.http, c.tcp) \in [http : SUBSET Port, tcp : SUBSET Port]
      BY <1>1, <1>2 DEF BuildRoutes, InFlight, PortArg
    <2>3. c.op = "scale" => [old EXCEPT !.inst = c.inst] \in LRP
      BY <1>2, <2>1 DEF LRP
    <2>4. c.op = "update" =>
            [old EXCEPT !.http = BuildRoutes(c, c.http, c.tcp).http,
                        !.tcp = BuildRoutes(c, c.http, c.tcp).tcp, !.ssh = FALSE] \in LRP
      BY <2>1, <2>2 DEF LRP
    <2>. QED
      BY <1>5, <2>1, <2>3, <2>4 DEF ReceptorResult
  <1>6. CASE c.op = "remove"
    BY <1>6 DEF ReceptorResult
  <1>. QED
    BY <1>2, <1>3, <1>4, <1>5, <1>6 DEF Op

-----------------------------------------------------------------------------
\* What the invariant says of one invocation.
PInv(p) == InFlight(p) /\ Progress(p) /\ Accounts(p) /\ InOrder(p)

\* A step of another invocation leaves what is known of q as it is.
LEMMA Undisturbed ==
    ASSUME IInv, NEW q \in Proc, domain => domain',
           pc'[q] = pc[q], cmd'[q] = cmd[q], at'[q] = at[q],
           code'[q] = code[q], done'[q] = done[q]
    PROVE  PInv(q)'
  <1>1. PInv(q)
    BY DEF IInv, PInv, ExitCodeAccounts, RemovedInOrder
  <1>. QED
    BY <1>1 DEF PInv, InFlight, Progress, Accounts, InOrder, Args, AllArgs, Target, Creates

\* A step of p that changes only p's own part of the process variables.
LEMMA OneMoves ==
    ASSUME IInv, NEW p \in Proc, TypeOK', DomainBeforeApp', ReservedIsNoApp',
           domain => domain', PInv(p)',
           \A q \in Proc \ {p} : /\ pc'[q] = pc[q] /\ cmd'[q] = cmd[q] /\ at'[q] = at[q]
                                 /\ code'[q] = code[q] /\ done'[q] = done[q]
    PROVE  IInv'
  <1>1. \A q \in Proc : PInv(q)'
    BY Undisturbed
  <1>. QED
    BY <1>1 DEF IInv, PInv, ExitCodeAccounts, RemovedInOrder

\* Nothing is desired and nobody has begun.
LEMMA InitIInv == Init => IInv
  <1> SUFFICES ASSUME Init PROVE IInv
    OBVIOUS
  <1>1. TypeOK
    <2>1. cmd \in [Proc -> CommandType]
      BY CommandAssumption DEF Init
    <2>2. \A p \in Proc : at[p] \in 1 .. Len(cmd[p].names)
      BY <2>1 DEF Init, CommandType
    <2>3. actual \in [Name -> [Index -> InstState]]
      BY DEF Init, InstState
    <2>4. polls \in [Proc -> 0 .. MaxPolls] /\ at \in [Proc -> Nat] /\ done \in [Proc -> SUBSET Name]
      BY BoundsAssumption DEF Init
    <2>. QED
      BY <2>1, <2>2, <2>3, <2>4 DEF Init, TypeOK, Label, Words, ExitCode
  <1>2. DomainBeforeApp /\ ReservedIsNoApp
    BY NamesAssumption DEF Init, DomainBeforeApp, ReservedIsNoApp
  <1>3. ASSUME NEW p \in Proc PROVE PInv(p)
    <2>1. cmd[p] \in Command /\ at[p] = 1 /\ pc[p] = "idle" /\ done[p] = {} /\ code[p] = "none"
      BY <1>3 DEF Init
    <2>2. Args(p, 1 .. at[p] - 1) = {}
      BY <2>1 DEF Args
    <2>. QED
      BY <2>1, <2>2, CommandAssumption DEF PInv, InFlight, Progress, Accounts, InOrder
  <1>. QED
    BY <1>1, <1>2, <1>3 DEF IInv, PInv, ExitCodeAccounts, RemovedInOrder

-----------------------------------------------------------------------------
\* What every step starts from, about the invocation that takes it.
LEMMA Own ==
    ASSUME IInv, NEW p \in Proc
    PROVE  /\ TypeOK /\ PInv(p)
           /\ pc[p] \in Label /\ cmd[p] \in CommandType /\ cmd[p].op \in Op
           /\ Target(p) \in Name /\ done[p] \subseteq Name
  BY NextArg DEF IInv, PInv, ExitCodeAccounts, RemovedInOrder, TypeOK, CommandType

\* Ending a command with a code that claims nothing, or nothing untrue.
LEMMA LeaveReceptor ==
    ASSUME IInv, NEW p \in Proc, NEW l \in Label, NEW x \in ExitCode,
           UNCHANGED <<desired, actual, cmd, at, done>>, domain' \in {domain, TRUE},
           pc' = [pc EXCEPT ![p] = l], code' = [code EXCEPT ![p] = x],
           view' \in [Proc -> LRP \cup {NoLRP}], polls' \in [Proc -> 0 .. MaxPolls],
           said' \in [Proc -> Words], tail' \in [Proc -> {"none", "reading", "returned"}],
           InFlight(p)', Progress(p)', Accounts(p)'
    PROVE  IInv'
  <1>1. TypeOK /\ PInv(p)
    BY Own
  <1>2. TypeOK'
    BY <1>1 DEF TypeOK
  <1>3. DomainBeforeApp' /\ ReservedIsNoApp'
    BY <1>1 DEF IInv, DomainBeforeApp, ReservedIsNoApp, TypeOK
  <1>4. InOrder(p)'
    BY <1>1 DEF PInv, InOrder, Args
  <1>5. \A q \in Proc \ {p} : pc'[q] = pc[q] /\ code'[q] = code[q]
    BY <1>1 DEF TypeOK
  <1>6. domain => domain'
    BY <1>1 DEF TypeOK
  <1>. QED
    BY <1>2, <1>3, <1>4, <1>5, <1>6, OneMoves DEF PInv

\* A command line is turned down, or begins with a check.
LEMMA StartIInv == ASSUME IInv, NEW p \in Proc, Start(p) PROVE IInv'
  <1>1. /\ TypeOK /\ PInv(p) /\ pc[p] = "idle" /\ code[p] = "none" /\ at[p] = 1 /\ done[p] = {}
        /\ UNCHANGED <<receptor, cmd, at, view, polls, said, done>>
    <2>1. TypeOK /\ PInv(p) /\ pc[p] = "idle"
      BY Own DEF Start
    <2>2. Args(p, 1 .. 1 - 1) = {}
      BY DEF Args
    <2>. QED
      BY <2>1, <2>2 DEF Start, PInv, Progress
  <1>2. ASSUME NEW x \in ExitCode \ {"none", "ok", "PlacementError"}, Exit(p, x)
        PROVE  IInv'
    <2>1. pc'[p] = "exited" /\ code'[p] = x /\ done'[p] = {} /\ cmd'[p] = cmd[p] /\ at'[p] = at[p]
      BY <1>1, <1>2 DEF Exit, TypeOK
    <2>2. InFlight(p)' /\ Progress(p)' /\ Accounts(p)'
      BY <1>1, <1>2, <2>1 DEF PInv, InFlight, Progress, Accounts, Creates
    <2>. QED
      BY <1>1, <1>2, <2>2, LeaveReceptor DEF Exit, Label, TypeOK, receptor
  <1>3. ASSUME NEW l \in {"exists", "statusDesired"}, Goto(p, l),
               l = "exists" => cmd[p].op # "update" /\ (Creates(p) => Target(p) # Reserved),
               l = "statusDesired" => cmd[p].op = "update"
        PROVE  IInv'
    <2>1. pc'[p] = l /\ code'[p] = "none" /\ done'[p] = {} /\ cmd'[p] = cmd[p] /\ at'[p] = at[p]
      BY <1>1, <1>3 DEF Goto, TypeOK
    <2>2. InFlight(p)'
      BY <1>1, <1>3, <2>1 DEF PInv, InFlight, Creates, Target
    <2>3. Progress(p)' /\ Accounts(p)'
      <3>1. Args(p, 1 .. at[p] - 1)' = {}
        BY <1>1, <2>1 DEF Args
      <3>. QED
        BY <1>1, <1>3, <2>1, <3>1 DEF Progress, Accounts
    <2>4. code' = [code EXCEPT ![p] = "none"]
      BY <1>1, <1>3 DEF Goto, TypeOK
    <2>. QED
      BY <1>1, <1>3, <2>2, <2>3, <2>4, LeaveReceptor DEF Goto, Label, ExitCode, TypeOK, receptor
  <1>4. \/ \E x \in ExitCode \ {"none", "ok", "PlacementError"} : Exit(p, x)
        \/ Goto(p, "exists") /\ cmd[p].op # "update" /\ (Creates(p) => Target(p) # Reserved)
        \/ Goto(p, "statusDesired") /\ cmd[p].op = "update"
    BY DEF Start, ExitCode, Creates, IsReserved
  <1>. QED
    BY <1>2, <1>3, <1>4

\* A command that fails or is interrupted claims nothing about the receptor.
LEMMA GiveUpIInv ==
    ASSUME IInv, NEW p \in Proc, NEW x \in {"CommandFailed", "Signal", "Panic"}, Exit(p, x),
           domain' \in {domain, TRUE}, UNCHANGED <<desired, actual, cmd, at, view, polls, said, done>>
    PROVE  IInv'
  <1>1. TypeOK /\ PInv(p)
    BY Own
  <1>2. pc'[p] = "exited" /\ code'[p] = x /\ cmd'[p] = cmd[p] /\ at'[p] = at[p]
    BY <1>1 DEF Exit, TypeOK
  <1>3. InFlight(p)' /\ Progress(p)' /\ Accounts(p)'
    BY <1>1, <1>2 DEF PInv, InFlight, Progress, Accounts, Creates
  <1>. QED
    BY <1>1, <1>3, LeaveReceptor DEF Exit, Label, ExitCode, TypeOK

\* The check before the request keeps what Start established.
LEMMA ExistsIInv == ASSUME IInv, NEW p \in Proc, Exists(p) PROVE IInv'
  <1>1. TypeOK /\ PInv(p) /\ pc[p] = "exists" /\ cmd[p].op \in Op
        /\ UNCHANGED <<receptor, cmd, at, view, polls, said, done>>
    BY Own DEF Exists
  <1>2. CASE Exit(p, "CommandFailed")
    BY <1>1, <1>2, GiveUpIInv DEF receptor
  <1>3. ASSUME NEW l \in {"domain", "write"}, Goto(p, l), Creates(p) <=> l = "domain"
        PROVE  IInv'
    <2>1. pc'[p] = l /\ code'[p] = "none" /\ code' = [code EXCEPT ![p] = "none"]
          /\ done'[p] = done[p] /\ cmd'[p] = cmd[p] /\ at'[p] = at[p]
      BY <1>1, <1>3 DEF Goto, TypeOK, PInv, Progress
    <2>2. InFlight(p)'
      BY <1>1, <1>3, <2>1 DEF PInv, InFlight, Creates, Target
    <2>3. Progress(p)' /\ Accounts(p)'
      BY <1>1, <1>3, <2>1 DEF PInv, Progress, Accounts, Args
    <2>. QED
      BY <1>1, <1>3, <2>1, <2>2, <2>3, LeaveReceptor DEF Goto, Label, ExitCode, TypeOK, receptor
  <1>. QED
    BY <1>2, <1>3 DEF Exists

\* Whoever gets past this step has a fresh domain.
LEMMA UpsertDomainIInv == ASSUME IInv, NEW p \in Proc, UpsertDomain(p) PROVE IInv'
  <1>1. TypeOK /\ PInv(p) /\ pc[p] = "domain" /\ domain' \in {domain, TRUE}
        /\ UNCHANGED <<desired, actual, cmd, at, view, polls, said, done>>
    BY Own DEF UpsertDomain
  <1>2. CASE Exit(p, "CommandFailed")
    BY <1>1, <1>2, GiveUpIInv
  <1>3. CASE domain' = TRUE /\ Goto(p, "write")
    <2>1. pc'[p] = "write" /\ code'[p] = "none" /\ code' = [code EXCEPT ![p] = "none"]
          /\ done'[p] = done[p] /\ cmd'[p] = cmd[p] /\ at'[p] = at[p]
      BY <1>1, <1>3 DEF Goto, TypeOK, PInv, Progress
    <2>2. InFlight(p)'
      BY <1>1, <1>3, <2>1 DEF PInv, InFlight, Creates, Target
    <2>3. Progress(p)' /\ Accounts(p)'
      BY <1>1, <2>1 DEF PInv, Progress, Accounts, Args
    <2>. QED
      BY <1>1, <1>3, <2>1, <2>2, <2>3, LeaveReceptor DEF Goto, Label, ExitCode, TypeOK
  <1>. QED
    BY <1>2, <1>3 DEF UpsertDomain

\* The step that changes the receptor: it takes effect, or it fails before.
LEMMA WriteIInv == ASSUME IInv, NEW p \in Proc, Write(p) PROVE IInv'
  <1>1. TypeOK /\ PInv(p) /\ pc[p] = "write" /\ cmd[p].op \in Op /\ Target(p) \in Name
        /\ UNCHANGED <<actual, domain, cmd, view, said>>
    BY Own DEF Write
  <1>2. CASE WriteFailed(p) /\ UNCHANGED <<desired, done>>
    BY <1>1, <1>2, GiveUpIInv DEF WriteFailed
  <1>3. ASSUME ReceptorAccepts(p),
               desired' = [desired EXCEPT ![Target(p)] = ReceptorResult(p)],
               done' = [done EXCEPT ![p] = @ \cup {Target(p)}],
               AfterWrite(p) \/ WriteFailed(p)
        PROVE  IInv'
    <2>1. /\ done'[p] = Args(p, 1 .. at[p])
          /\ code[p] = "none" /\ InFlight(p)
          /\ at[p] \in Nat /\ at[p] >= 1 /\ Len(cmd[p].names) \in Nat
          /\ at[p] <= Len(cmd[p].names)
          /\ at[p] = Len(cmd[p].names) => Args(p, 1 .. at[p]) = AllArgs(p)
          /\ cmd[p].op # "remove" => Args(p, 1 .. at[p]) = AllArgs(p)
      BY <1>1, <1>3, NextArg, SingleArg DEF PInv, Progress, TypeOK
    <2>2. DomainBeforeApp' /\ ReservedIsNoApp' /\ desired' \in [Name -> LRP \cup {NoLRP}]
      <3>1. /\ ReceptorResult(p) \in LRP \cup {NoLRP}
            /\ Target(p) = Reserved => ReceptorResult(p) = NoLRP
            /\ ReceptorResult(p) # NoLRP => domain
        BY <1>1, <1>3, ResultType
      <3>2. DomainBeforeApp /\ ReservedIsNoApp
        BY DEF IInv
      <3>. QED
        BY <1>1, <1>3, <3>1, <3>2, NamesAssumption DEF DomainBeforeApp, ReservedIsNoApp, TypeOK
    <2>3. ASSUME pc' \in [Proc -> Label], code' \in [Proc -> ExitCode],
                 at' \in [Proc -> Nat], polls' \in [Proc -> 0 .. MaxPolls],
                 tail' \in [Proc -> {"none", "reading", "returned"}],
                 \A q \in Proc \ {p} : pc'[q] = pc[q] /\ code'[q] = code[q] /\ at'[q] = at[q],
                 at'[p] \in 1 .. Len(cmd[p].names),
                 InFlight(p)', Progress(p)', Accounts(p)', InOrder(p)'
          PROVE  IInv'
      <3>1. TypeOK'
        <4>1. done' \in [Proc -> SUBSET Name]
          BY <1>1, <1>3 DEF TypeOK
        <4>2. \A q \in Proc : at'[q] \in 1 .. Len(cmd'[q].names)
          BY <1>1, <2>3 DEF TypeOK
        <4>. QED
          BY <1>1, <2>2, <2>3, <4>1, <4>2 DEF TypeOK
      <3>2. PInv(p)'
        BY <2>3 DEF PInv
      <3>3. \A q \in Proc \ {p} : /\ pc'[q] = pc[q] /\ cmd'[q] = cmd[q] /\ at'[q] = at[q]
                                  /\ code'[q] = code[q] /\ done'[q] = done[q]
        BY <1>1, <1>3, <2>3 DEF TypeOK
      <3>. QED
        BY <1>1, <2>2, <3>1, <3>2, <3>3, OneMoves
    <2>4. ASSUME NEW x \in ExitCode, Exit(p, x), UNCHANGED <<at, polls>>,
                 x = "CommandFailed" \/ (x = "ok" /\ done'[p] = AllArgs(p))
          PROVE  IInv'
      <3>1. pc'[p] = "exited" /\ code'[p] = x /\ cmd'[p] = cmd[p] /\ at'[p] = at[p]
        BY <1>1, <2>4 DEF Exit, TypeOK
      <3>2. InFlight(p)' /\ Progress(p)' /\ Accounts(p)'
        BY <1>1, <2>1, <2>4, <3>1 DEF InFlight, Progress, Accounts, AllArgs, Args, Creates
      <3>3. InOrder(p)'
        BY <1>1, <2>1, <3>1 DEF InOrder, Args
      <3>. QED
        BY <1>1, <2>1, <2>3, <2>4, <3>1, <3>2, <3>3 DEF Exit, Label, TypeOK
    <2>5. CASE /\ cmd[p].op \in {"create", "scale"} /\ pc' = [pc EXCEPT ![p] = "poll"]
               /\ Tailing(p) /\ UNCHANGED <<at, code>>
               /\ polls' = [polls EXCEPT ![p] = cmd[p].timeout]
      <3>1. pc'[p] = "poll" /\ code'[p] = "none" /\ code' = [code EXCEPT ![p] = "none"]
            /\ cmd'[p] = cmd[p] /\ at'[p] = at[p]
            /\ cmd[p].timeout \in 0 .. MaxPolls
        BY <1>1, <2>1, <2>5 DEF TypeOK, CommandType
      <3>2. InFlight(p)' /\ Progress(p)' /\ Accounts(p)'
        BY <1>1, <2>1, <2>5, <3>1 DEF InFlight, Progress, Accounts, AllArgs, Args, Creates
      <3>3. InOrder(p)'
        BY <1>1, <2>1, <3>1 DEF InOrder, Args
      <3>. QED
        BY <1>1, <2>1, <2>3, <2>5, <3>1, <3>2, <3>3 DEF Tailing, Label, ExitCode, TypeOK
    <2>6. CASE /\ cmd[p].op = "remove" /\ at[p] < Len(cmd[p].names) /\ Goto(p, "exists")
               /\ at' = [at EXCEPT ![p] = @ + 1] /\ UNCHANGED polls
      <3>1. pc'[p] = "exists" /\ code'[p] = "none" /\ code' = [code EXCEPT ![p] = "none"]
            /\ cmd'[p] = cmd[p] /\ at'[p] = at[p] + 1
            /\ at[p] + 1 - 1 = at[p]
        BY <1>1, <2>1, <2>6 DEF Goto, TypeOK
      <3>2. InFlight(p)' /\ Progress(p)' /\ Accounts(p)'
        BY <1>1, <2>1, <2>6, <3>1 DEF InFlight, Progress, Accounts, Args, Creates
      <3>3. InOrder(p)'
        BY <1>1, <2>1, <3>1 DEF InOrder, Args
      <3>. QED
        BY <1>1, <2>1, <2>3, <2>6, <3>1, <3>2, <3>3 DEF Goto, Label, ExitCode, TypeOK
    <2>. QED
      BY <1>3, <2>1, <2>4, <2>5, <2>6 DEF AfterWrite, WriteFailed, ExitCode
  <1>. QED
    BY <1>2, <1>3 DEF Write

\* Leaving the polling loop: scale ends, create asks for the status.
LEMMA AfterPollIInv ==
    ASSUME IInv, NEW p \in Proc, NEW w \in Words, pc[p] = "poll", AfterPoll(p, w),
           UNCHANGED <<receptor, cmd, at, view, done>>
    PROVE  IInv'
  <1>1. TypeOK /\ PInv(p) /\ code[p] = "none" /\ done[p] = AllArgs(p)
    BY Own DEF PInv, Progress
  <1>2. said' \in [Proc -> Words] /\ tail' \in [Proc -> {"none", "reading", "returned"}]
    BY <1>1 DEF AfterPoll, Goto, Exit, TypeOK
  <1>3. ASSUME NEW l \in Label, NEW x \in ExitCode,
               pc' = [pc EXCEPT ![p] = l], code' = [code EXCEPT ![p] = x],
               \/ l = "exited" /\ x = "ok"
               \/ l = "statusDesired" /\ x = "none" /\ cmd[p].op = "create"
        PROVE  IInv'
    <2>1. pc'[p] = l /\ code'[p] = x /\ cmd'[p] = cmd[p] /\ at'[p] = at[p] /\ done'[p] = done[p]
      BY <1>1, <1>3 DEF TypeOK
    <2>2. InFlight(p)' /\ Progress(p)' /\ Accounts(p)'
      BY <1>1, <1>3, <2>1 DEF PInv, InFlight, Progress, Accounts, AllArgs, Args, Creates
    <2>. QED
      BY <1>1, <1>2, <1>3, <2>2, LeaveReceptor DEF AfterPoll, TypeOK, receptor
  <1>4. code' = [code EXCEPT ![p] = "none"] \/ code' = [code EXCEPT ![p] = "ok"]
    BY <1>1 DEF AfterPoll, Goto, Exit, TypeOK
  <1>5. CASE cmd[p].op = "create" /\ Goto(p, "statusDesired")
    <2>1. code' = [code EXCEPT ![p] = "none"]
      BY <1>1, <1>5 DEF Goto, TypeOK
    <2>. QED
      BY <1>3, <1>5, <2>1 DEF Goto, Label, ExitCode
  <1>6. CASE Exit(p, "ok")
    BY <1>3, <1>6 DEF Exit, Label, ExitCode
  <1>. QED
    BY <1>5, <1>6 DEF AfterPoll

\* Polling touches no request: it only goes on, gives up or is over.
LEMMA PollIInv == ASSUME IInv, NEW p \in Proc, Poll(p) PROVE IInv'
  <1>1. /\ TypeOK /\ PInv(p) /\ code[p] = "none" /\ done[p] = AllArgs(p) /\ pc[p] = "poll"
        /\ UNCHANGED <<receptor, cmd, at, view, done>>
    BY Own DEF PInv, Progress, Poll
  <1>2. CASE Exit(p, "PlacementError") /\ UNCHANGED <<polls, said>>
    <2>1. pc'[p] = "exited" /\ code'[p] = "PlacementError" /\ cmd'[p] = cmd[p]
          /\ at'[p] = at[p] /\ done'[p] = done[p]
      BY <1>1, <1>2 DEF Exit, TypeOK
    <2>2. InFlight(p)' /\ Progress(p)' /\ Accounts(p)'
      BY <1>1, <2>1 DEF PInv, InFlight, Progress, Accounts, AllArgs, Args, Creates
    <2>. QED
      BY <1>1, <1>2, <2>2, LeaveReceptor DEF Exit, Label, ExitCode, TypeOK, receptor
  <1>3. CASE AfterPoll(p, "running")
    BY <1>1, <1>3, AfterPollIInv DEF Words
  <1>4. CASE PollAgain(p)
    <2>1. pc'[p] = "poll" /\ code'[p] = "none" /\ code' = [code EXCEPT ![p] = "none"]
          /\ cmd'[p] = cmd[p] /\ at'[p] = at[p] /\ done'[p] = done[p]
      BY <1>1, <1>4 DEF PollAgain, Goto, TypeOK
    <2>2. polls' \in [Proc -> 0 .. MaxPolls]
      <3>1. PICK left \in 0 .. polls[p] - 1 : polls' = [polls EXCEPT ![p] = left]
        BY <1>4 DEF PollAgain
      <3>2. left \in 0 .. MaxPolls
        BY <1>1, BoundsAssumption DEF TypeOK
      <3>. QED
        BY <1>1, <3>1, <3>2 DEF TypeOK
    <2>3. InFlight(p)' /\ Progress(p)' /\ Accounts(p)'
      BY <1>1, <2>1 DEF PInv, InFlight, Progress, Accounts, AllArgs, Args, Creates
    <2>. QED
      BY <1>1, <1>4, <2>1, <2>2, <2>3, LeaveReceptor
      DEF PollAgain, Goto, Label, ExitCode, TypeOK, receptor
  <1>. QED
    BY <1>2, <1>3, <1>4 DEF Poll

\* The first half of AppStatus remembers what it read.
LEMMA StatusDesiredIInv == ASSUME IInv, NEW p \in Proc, StatusDesired(p) PROVE IInv'
  <1>1. /\ TypeOK /\ PInv(p) /\ Target(p) \in Name /\ pc[p] = "statusDesired" /\ code[p] = "none"
        /\ UNCHANGED <<receptor, cmd, at, polls, said, done>>
    BY Own DEF PInv, Progress, StatusDesired
  <1>2. CASE Exit(p, "CommandFailed") /\ UNCHANGED view
    BY <1>1, <1>2, GiveUpIInv DEF receptor
  <1>3. CASE /\ Goto(p, "statusActual")
             /\ view' = [view EXCEPT ![p] = desired[Target(p)]]
    <2>1. pc'[p] = "statusActual" /\ code'[p] = "none" /\ code' = [code EXCEPT ![p] = "none"]
          /\ cmd'[p] = cmd[p] /\ at'[p] = at[p] /\ done'[p] = done[p]
      BY <1>1, <1>3 DEF Goto, TypeOK
    <2>2. view' \in [Proc -> LRP \cup {NoLRP}]
      BY <1>1, <1>3 DEF TypeOK
    <2>3. InFlight(p)' /\ Progress(p)' /\ Accounts(p)'
      BY <1>1, <2>1 DEF PInv, InFlight, Progress, Accounts, AllArgs, Args, Creates
    <2>. QED
      BY <1>1, <1>3, <2>1, <2>2, <2>3, LeaveReceptor DEF Goto, Label, ExitCode, TypeOK, receptor
  <1>. QED
    BY <1>2, <1>3 DEF StatusDesired

\* The only step that rewrites a command: its default routes get their port.
LEMMA StatusActualIInv == ASSUME IInv, NEW p \in Proc, StatusActual(p) PROVE IInv'
  <1>1. /\ TypeOK /\ PInv(p) /\ pc[p] = "statusActual" /\ code[p] = "none"
        /\ cmd[p] \in CommandType /\ UNCHANGED <<receptor, at, view, polls, said, done>>
    BY Own DEF PInv, Progress, StatusActual
  <1>2. CASE Exit(p, "CommandFailed") /\ UNCHANGED cmd
    BY <1>1, <1>2, GiveUpIInv DEF receptor
  <1>3. CASE cmd[p].op = "update" /\ Exit(p, "InvalidSyntax") /\ UNCHANGED cmd
    <2>1. pc'[p] = "exited" /\ code'[p] = "InvalidSyntax" /\ cmd'[p] = cmd[p]
          /\ at'[p] = at[p] /\ done'[p] = done[p]
      BY <1>1, <1>3 DEF Exit, TypeOK
    <2>2. InFlight(p)' /\ Progress(p)' /\ Accounts(p)'
      BY <1>1, <1>3, <2>1 DEF PInv, InFlight, Progress, Accounts, AllArgs, Args, Creates
    <2>. QED
      BY <1>1, <1>3, <2>2, LeaveReceptor DEF Exit, Label, ExitCode, TypeOK, receptor
  <1>5. CASE cmd[p].op = "create" /\ Goto(p, "stopping") /\ UNCHANGED cmd
    <2>1. pc'[p] = "stopping" /\ code'[p] = "none" /\ code' = [code EXCEPT ![p] = "none"]
          /\ cmd'[p] = cmd[p] /\ at'[p] = at[p] /\ done'[p] = done[p]
      BY <1>1, <1>5 DEF Goto, TypeOK
    <2>2. InFlight(p)' /\ Progress(p)' /\ Accounts(p)'
      BY <1>1, <1>5, <2>1 DEF PInv, InFlight, Progress, Accounts, AllArgs, Args, Creates
    <2>. QED
      BY <1>1, <1>5, <2>1, <2>2, LeaveReceptor DEF Goto, Label, ExitCode, TypeOK, receptor
  <1>4. CASE /\ cmd[p].op = "update" /\ Goto(p, "exists")
             /\ cmd' = [cmd EXCEPT ![p].http = Resolve(@, ViewPorts(p)),
                                   ![p].tcp = Resolve(@, ViewPorts(p))]
    <2> DEFINE http == Resolve(cmd[p].http, ViewPorts(p))
               tcp == Resolve(cmd[p].tcp, ViewPorts(p))
    <2>1. ViewPorts(p) \in Seq(Port)
      <3>1. view[p] \in LRP \cup {NoLRP}
        BY <1>1 DEF TypeOK
      <3>2. view[p] # NoLRP => view[p].ports \in Seq(Port)
        BY <3>1 DEF LRP
      <3>. QED
        BY <3>2 DEF ViewPorts
    <2>2. http \subseteq Port /\ tcp \subseteq Port /\ DefaultPort \notin Port
      <3>1. \A i \in DOMAIN ViewPorts(p) : ViewPorts(p)[i] \in Port
        BY <2>1
      <3>. QED
        BY <1>1, <3>1, SentinelAssumption DEF Resolve, AppPorts, CommandType, PortArg
    <2>3. cmd' = [cmd EXCEPT ![p] = [cmd[p] EXCEPT !.http = http, !.tcp = tcp]]
      BY <1>1, <1>4 DEF TypeOK
    <2>4. /\ [cmd[p] EXCEPT !.http = http, !.tcp = tcp] \in CommandType
          /\ cmd'[p] = [cmd[p] EXCEPT !.http = http, !.tcp = tcp]
      BY <1>1, <2>2, <2>3 DEF CommandType, PortArg, TypeOK
    <2>5. /\ cmd' \in [Proc -> CommandType] /\ cmd'[p].names = cmd[p].names
          /\ cmd'[p].op = cmd[p].op /\ cmd'[p].http = http /\ cmd'[p].tcp = tcp
      BY <1>1, <2>3, <2>4 DEF TypeOK, CommandType
    <2>6. pc'[p] = "exists" /\ code'[p] = "none" /\ at'[p] = at[p] /\ done'[p] = done[p]
          /\ pc' \in [Proc -> Label] /\ code' = code /\ tail' = tail
      BY <1>1, <1>4 DEF Goto, TypeOK, Label
    <2>7. \A q \in Proc \ {p} : cmd'[q] = cmd[q] /\ pc'[q] = pc[q]
      BY <1>1, <1>4, <2>3 DEF Goto, TypeOK
    <2>8. TypeOK'
      <3>1. \A q \in Proc : at'[q] \in 1 .. Len(cmd'[q].names)
        BY <1>1, <2>5, <2>7 DEF TypeOK
      <3>. QED
        BY <1>1, <2>5, <2>6, <3>1 DEF TypeOK, receptor
    <2>9. DomainBeforeApp' /\ ReservedIsNoApp'
      BY <1>1 DEF IInv, DomainBeforeApp, ReservedIsNoApp, receptor
    <2>10. Args(p, 1 .. at[p] - 1) = {} /\ Args(p, 1 .. at[p] - 1)' = {}
      <3>1. at[p] = 1
        BY <1>1, <1>4 DEF PInv, InFlight
      <3>. QED
        BY <2>6, <3>1 DEF Args
    <2>11. PInv(p)'
      BY <1>1, <1>4, <2>2, <2>5, <2>6, <2>10
      DEF PInv, InFlight, Progress, Accounts, InOrder, Creates
    <2>. QED
      BY <1>1, <2>6, <2>7, <2>8, <2>9, <2>11, OneMoves DEF receptor
  <1>. QED
    BY <1>2, <1>3, <1>4, <1>5 DEF StatusActual

\* The reader has taken the stop: create has done what it says.
LEMMA StopOutputtingIInv == ASSUME IInv, NEW p \in Proc, StopOutputting(p) PROVE IInv'
  <1>1. /\ TypeOK /\ PInv(p) /\ pc[p] = "stopping" /\ code[p] = "none" /\ done[p] = AllArgs(p)
        /\ Exit(p, "ok") /\ UNCHANGED <<receptor, cmd, at, view, polls, said, done>>
    BY Own DEF PInv, Progress, StopOutputting
  <1>2. pc'[p] = "exited" /\ code'[p] = "ok" /\ cmd'[p] = cmd[p] /\ at'[p] = at[p] /\ done'[p] = done[p]
    BY <1>1 DEF Exit, TypeOK
  <1>3. InFlight(p)' /\ Progress(p)' /\ Accounts(p)'
    BY <1>1, <1>2 DEF PInv, InFlight, Progress, Accounts, AllArgs, Args, Creates
  <1>. QED
    BY <1>1, <1>3, LeaveReceptor DEF Exit, Label, ExitCode, TypeOK, receptor

\* The reader of the logs is gone, or the process with it.
LEMMA TailEndsIInv == ASSUME IInv, NEW p \in Proc, TailEnds(p) PROVE IInv'
  <1>1. TypeOK /\ UNCHANGED <<receptor, cmd, at, view, polls, said, done>>
    BY DEF IInv, TailEnds
  <1>2. CASE Exit(p, "Panic")
    BY <1>1, <1>2, GiveUpIInv DEF receptor
  <1>3. CASE tail' = [tail EXCEPT ![p] = "returned"] /\ UNCHANGED <<pc, code>>
    <2>1. TypeOK'
      BY <1>1, <1>3 DEF TypeOK, receptor
    <2>2. DomainBeforeApp' /\ ReservedIsNoApp'
      BY <1>1 DEF IInv, DomainBeforeApp, ReservedIsNoApp, receptor
    <2>3. \A q \in Proc : PInv(q)'
      BY <1>1, <1>3, Undisturbed DEF receptor
    <2>. QED
      BY <2>1, <2>2, <2>3 DEF IInv, PInv, ExitCodeAccounts, RemovedInOrder
  <1>. QED
    BY <1>2, <1>3 DEF TailEnds

\* Diego moves instances, and nothing the invariant speaks of but their type.
LEMMA DiegoIInv == ASSUME IInv, Diego PROVE IInv'
  <1>1. TypeOK /\ UNCHANGED <<desired, domain, process>>
    BY DEF IInv, Diego
  <1>2. actual' \in [Name -> [Index -> InstState]]
    <2>1. PICK n \in Name, i \in Index : DiegoStep(n, i)
      BY DEF Diego
    <2>2. \E s \in InstState : actual' = [actual EXCEPT ![n][i] = s]
      BY <2>1 DEF DiegoStep, InstState
    <2>. QED
      BY <1>1, <2>2 DEF TypeOK
  <1>3. TypeOK'
    BY <1>1, <1>2 DEF TypeOK, process
  <1>4. DomainBeforeApp' /\ ReservedIsNoApp'
    BY <1>1 DEF IInv, DomainBeforeApp, ReservedIsNoApp
  <1>5. \A q \in Proc : PInv(q)'
    BY <1>1, Undisturbed DEF process
  <1>. QED
    BY <1>3, <1>4, <1>5 DEF IInv, PInv, ExitCodeAccounts, RemovedInOrder

-----------------------------------------------------------------------------
\* Every step preserves the invariant, one case per action.
LEMMA NextIInv == IInv /\ [Next]_vars => IInv'
  <1> SUFFICES ASSUME IInv, [Next]_vars PROVE IInv'
    OBVIOUS
  <1>1. ASSUME NEW p \in Proc, Step(p) PROVE IInv'
    <2>1. CASE PollTimeout(p)
      BY <2>1, AfterPollIInv DEF PollTimeout, Words
    <2>. QED
      BY <1>1, <2>1, StartIInv, ExistsIInv, UpsertDomainIInv, WriteIInv, PollIInv,
         StatusDesiredIInv, StatusActualIInv, StopOutputtingIInv DEF Step
  <1>2. ASSUME NEW p \in Proc, Interrupt(p) PROVE IInv'
    BY <1>2, GiveUpIInv DEF Interrupt, receptor
  <1>3. CASE UNCHANGED vars
    <2>1. TypeOK' /\ DomainBeforeApp' /\ ReservedIsNoApp'
      BY <1>3 DEF IInv, TypeOK, DomainBeforeApp, ReservedIsNoApp, vars, receptor, process
    <2>2. \A q \in Proc : PInv(q)'
      BY <1>3, Undisturbed DEF vars, receptor, process
    <2>. QED
      BY <2>1, <2>2 DEF IInv, PInv, ExitCodeAccounts, RemovedInOrder
  <1>. QED
    BY <1>1, <1>2, <1>3, DiegoIInv, TailEndsIInv DEF Next

\* A step that does not end its process gives or leaves it a reader.
LEMMA NextTailsEnd == IInv /\ TailsEnd /\ [Next]_vars => TailsEnd'
  <1> SUFFICES ASSUME IInv, TailsEnd, [Next]_vars PROVE TailsEnd'
    OBVIOUS
  <1>1. pc \in [Proc -> Label] /\ tail \in [Proc -> {"none", "reading", "returned"}]
    BY DEF IInv, TypeOK
  <1>2. ASSUME NEW p \in Proc, NEW x, Exit(p, x) PROVE TailsEnd'
    BY <1>1, <1>2 DEF Exit, TailsEnd
  <1>3. ASSUME NEW p \in Proc, NEW l \in Label \ {"exited"}, Goto(p, l) PROVE TailsEnd'
    BY <1>1, <1>3 DEF Goto, TailsEnd
  <1>4. ASSUME NEW p \in Proc, Write(p) PROVE TailsEnd'
    <2>1. CASE pc' = [pc EXCEPT ![p] = "poll"] /\ Tailing(p)
      BY <1>1, <2>1 DEF Tailing, TailsEnd
    <2>. QED
      BY <1>2, <1>3, <1>4, <2>1 DEF Write, AfterWrite, WriteFailed, Label
  <1>5. ASSUME NEW p \in Proc, TailEnds(p) PROVE TailsEnd'
    <2>1. CASE tail' = [tail EXCEPT ![p] = "returned"] /\ UNCHANGED pc
      BY <1>1, <1>5, <2>1 DEF TailEnds, TailsEnd
    <2>. QED
      BY <1>2, <1>5, <2>1 DEF TailEnds
  <1>6. ASSUME NEW p \in Proc, Step(p) \/ Interrupt(p) PROVE TailsEnd'
    <2>1. CASE Start(p) \/ Exists(p) \/ UpsertDomain(p) \/ Interrupt(p)
      BY <1>2, <1>3, <2>1 DEF Start, Exists, UpsertDomain, Interrupt, Label
    <2>2. CASE Poll(p) \/ PollTimeout(p)
      BY <1>2, <1>3, <2>2 DEF Poll, PollTimeout, PollAgain, AfterPoll, Label
    <2>3. CASE StatusDesired(p) \/ StatusActual(p) \/ StopOutputting(p)
      BY <1>2, <1>3, <2>3 DEF StatusDesired, StatusActual, StopOutputting, Label
    <2>. QED
      BY <1>4, <1>6, <2>1, <2>2, <2>3 DEF Step
  <1>7. CASE Diego \/ UNCHANGED vars
    BY <1>7 DEF Diego, vars, process, TailsEnd
  <1>. QED
    BY <1>5, <1>6, <1>7 DEF Next

\* The inductive invariant holds throughout.
THEOREM Invariance == Spec => []IInv
  BY InitIInv, NextIInv, PTL DEF Spec

\* Every value is what the code takes it for: only well-formed requests reach
\* the receptor and remove's loop never runs past its arguments.
THEOREM TypeCorrect == Spec => []TypeOK
  BY Invariance, PTL DEF IInv

\* CreateApp and SubmitLrp never leave an app outside a fresh domain.
THEOREM DomainIsFirst == Spec => []DomainBeforeApp
  BY Invariance, PTL DEF IInv

\* No command line makes an app of the guid of the debug log stream.
THEOREM ReservedStaysFree == Spec => []ReservedIsNoApp
  BY Invariance, PTL DEF IInv

\* The exit code of every command accounts for its requests.
THEOREM ExitCodesAccount == Spec => []ExitCodeAccounts
  BY Invariance, PTL DEF IInv

\* remove has removed what precedes the argument it is at, and nothing after.
THEOREM RemovalInOrder == Spec => []RemovedInOrder
  BY Invariance, PTL DEF IInv

-----------------------------------------------------------------------------
\* The refinement: what a process was started for, as Registry sees it.
Task(p) == [op |-> cmd[p].op, names |-> AllArgs(p), inst |-> cmd[p].inst]

\* A step of p that leaves the receptor's apps alone stutters, or ends p; what
\* the exit code then claims is what the invariant says of it.
LEMMA EndsOrStutters ==
    ASSUME IInv, IInv', NEW p \in Proc, UNCHANGED <<desired, done>>,
           \A q \in Proc : Task(q)' = Task(q),
           code' = code \/ (code[p] = "none" /\ code' = [code EXCEPT ![p] = code'[p]])
    PROVE  [R!Next]_R!vars
  <1>1. [q \in Proc |-> Task(q)]' = [q \in Proc |-> Task(q)]
    OBVIOUS
  <1>2. CASE code' = code
    BY <1>1, <1>2 DEF R!vars, Task
  <1>3. CASE code[p] = "none" /\ code' = [code EXCEPT ![p] = code'[p]]
    <2>1. Accounts(p)' /\ done'[p] = done[p] /\ AllArgs(p)' = AllArgs(p)
      BY DEF IInv, ExitCodeAccounts, Task
    <2>2. R!MayEnd(p, done[p], code'[p])
      BY <2>1 DEF R!MayEnd, Accounts
    <2>3. R!End(p)
      BY <1>1, <1>3, <2>2 DEF R!End, Task
    <2>. QED
      BY <2>3 DEF R!Next
  <1>. QED
    BY <1>2, <1>3

\* A request that is accepted has an effect Registry knows.
LEMMA AcceptedHasEffect ==
    ASSUME IInv, NEW p \in Proc, pc[p] = "write", ReceptorAccepts(p)
    PROVE  /\ Target(p) \in AllArgs(p) /\ code[p] = "none"
           /\ cmd[p].op # "remove" => done[p] = {}
           /\ \/ R!Creates(p, Target(p), ReceptorResult(p))
              \/ R!Scales(p, Target(p), ReceptorResult(p))
              \/ R!Updates(p, Target(p), ReceptorResult(p))
              \/ R!Removes(p, Target(p), ReceptorResult(p))
  <1> DEFINE n == Target(p)
             c == cmd[p]
             old == desired[n]
             new == ReceptorResult(p)
  <1>1. /\ TypeOK /\ PInv(p) /\ c \in CommandType /\ c.op \in Op
        /\ n \in Name /\ code[p] = "none"
    BY Own DEF PInv, Progress
  <1>2. n \in AllArgs(p) /\ (c.op # "remove" => done[p] = {})
    <2>1. n \in Args(p, 1 .. at[p]) /\ Args(p, 1 .. at[p]) \subseteq AllArgs(p)
      <3>1. at[p] \in Nat /\ at[p] >= 1 /\ at[p] <= Len(cmd[p].names) /\ Len(cmd[p].names) \in Nat
        BY NextArg, <1>1
      <3>. QED
        BY <3>1 DEF Args, AllArgs, Target
    <2>2. c.op # "remove" => Args(p, 1 .. at[p] - 1) = {}
      BY <1>1, SingleArg DEF PInv
    <2>. QED
      BY <1>1, <2>1, <2>2 DEF PInv, Progress
  <1>3. new \in LRP \cup {NoLRP} /\ (c.op # "remove" => new \in LRP)
    BY <1>1, ResultType
  <1>4. /\ c.op \in {"create", "submit"} => old = NoLRP /\ n # Reserved
        /\ c.op \notin {"create", "submit"} => old # NoLRP /\ old \in LRP
    BY <1>1 DEF ReceptorAccepts, Creates, PInv, InFlight, TypeOK
  <1>5. ASSUME c.op = "create" PROVE R!Creates(p, n, new)
    <2>1. new.inst = c.inst
      BY <1>5 DEF ReceptorResult, DesireLrp
    <2>. QED
      BY <1>1, <1>3, <1>4, <1>5, <2>1 DEF R!Creates
  <1>6. ASSUME c.op = "submit" PROVE R!Creates(p, n, new)
    <2>1. new.inst = c.inst
      BY <1>6 DEF ReceptorResult, SubmitLrp
    <2>. QED
      BY <1>3, <1>4, <1>6, <2>1 DEF R!Creates
  <1>7. ASSUME c.op = "scale" PROVE R!Scales(p, n, new)
    <2>1. new = [old EXCEPT !.inst = c.inst]
      BY <1>7 DEF ReceptorResult
    <2>. QED
      BY <1>4, <1>7, <2>1 DEF R!Scales
  <1>8. ASSUME c.op = "update" PROVE R!Updates(p, n, new)
    <2>1. new = [old EXCEPT !.http = BuildRoutes(c, c.http, c.tcp).http,
                            !.tcp = BuildRoutes(c, c.http, c.tcp).tcp, !.ssh = FALSE]
      BY <1>8 DEF ReceptorResult
    <2>2. new.inst = old.inst /\ new.ports = old.ports
      BY <1>4, <1>8, <2>1 DEF LRP
    <2>. QED
      BY <1>3, <1>4, <1>8, <2>2 DEF R!Updates
  <1>9. ASSUME c.op = "remove" PROVE R!Removes(p, n, new)
    <2>1. new = NoLRP
      BY <1>9 DEF ReceptorResult
    <2>. QED
      BY <1>4, <1>9, <2>1 DEF R!Removes
  <1>. QED
    BY <1>1, <1>2, <1>5, <1>6, <1>7, <1>8, <1>9 DEF Op

\* The step that changes the receptor is an effect, and with its answer lost the
\* end of the command as well.
LEMMA WriteSimulates ==
    ASSUME IInv, IInv', NEW p \in Proc, Write(p)
    PROVE  [R!Next]_R!vars
  <1> DEFINE n == Target(p)
  <1>1. TypeOK /\ TypeOK' /\ PInv(p) /\ pc[p] = "write" /\ UNCHANGED cmd /\ n \in Name /\ code[p] = "none"
    BY Own DEF Write, IInv, PInv, Progress
  <1>2. \A q \in Proc : Task(q)' = Task(q)
    BY <1>1 DEF Task, AllArgs, Args
  <1>3. code' = [code EXCEPT ![p] = code'[p]]
    BY <1>1 DEF Write, AfterWrite, WriteFailed, Goto, Exit, TypeOK
  <1>4. CASE UNCHANGED <<desired, done>>
    BY <1>1, <1>2, <1>3, <1>4, EndsOrStutters
  <1>5. CASE /\ ReceptorAccepts(p)
             /\ desired' = [desired EXCEPT ![n] = ReceptorResult(p)]
             /\ done' = [done EXCEPT ![p] = @ \cup {n}]
    <2>1. desired'[n] = ReceptorResult(p) /\ desired' = [desired EXCEPT ![n] = desired'[n]]
      BY <1>1, <1>5 DEF TypeOK
    <2>2. R!MayEnd(p, done'[p], code'[p])
      <3>1. Accounts(p)' /\ AllArgs(p)' = AllArgs(p)
        BY <1>2 DEF IInv, ExitCodeAccounts, Task
      <3>. QED
        BY <3>1 DEF R!MayEnd, Accounts
    <2>3. [q \in Proc |-> Task(q)]' = [q \in Proc |-> Task(q)]
      BY <1>2
    <2>4. R!Effect(p)
      BY <1>1, <1>3, <1>5, <2>1, <2>2, <2>3, AcceptedHasEffect DEF R!Effect, Task
    <2>. QED
      BY <2>4 DEF R!Next
  <1>. QED
    BY <1>4, <1>5 DEF Write

\* Every other step leaves the apps alone.
LEMMA StepSimulates == IInv /\ IInv' /\ TailsEnd /\ [Next]_vars => [R!Next]_R!vars
  <1> SUFFICES ASSUME IInv, IInv', TailsEnd, [Next]_vars PROVE [R!Next]_R!vars
    OBVIOUS
  <1>1. TypeOK /\ TypeOK'
    BY DEF IInv
  <1>2. ASSUME NEW p \in Proc, UNCHANGED <<desired, done>>,
               \A q \in Proc : cmd'[q].op = cmd[q].op /\ cmd'[q].names = cmd[q].names
                                /\ cmd'[q].inst = cmd[q].inst,
               code' = code \/ (pc[p] # "exited" /\ \E x \in ExitCode : code' = [code EXCEPT ![p] = x])
        PROVE  [R!Next]_R!vars
    <2>1. \A q \in Proc : Task(q)' = Task(q)
      BY <1>2 DEF Task, AllArgs, Args
    <2>2. pc[p] # "exited" => code[p] = "none"
      BY DEF IInv, Progress
    <2>3. code' = code \/ (code[p] = "none" /\ code' = [code EXCEPT ![p] = code'[p]])
      BY <1>1, <1>2, <2>2 DEF TypeOK
    <2>. QED
      BY <1>2, <2>1, <2>3, EndsOrStutters
  <1>3. ASSUME NEW p \in Proc, Start(p) \/ Exists(p) \/ UpsertDomain(p) \/ Poll(p) \/ PollTimeout(p)
                                \/ StatusDesired(p) \/ StopOutputting(p) \/ Interrupt(p)
        PROVE  [R!Next]_R!vars
    <2>1. UNCHANGED <<desired, done, cmd>> /\ pc[p] # "exited"
      BY <1>3 DEF Start, Exists, UpsertDomain, Poll, PollTimeout, StatusDesired, StopOutputting,
                  Interrupt, receptor
    <2>2. code' = code \/ \E x \in ExitCode : code' = [code EXCEPT ![p] = x]
      BY <1>3 DEF Start, Exists, UpsertDomain, Poll, PollTimeout, StatusDesired, StopOutputting, Interrupt,
                  AfterPoll, PollAgain, Goto, Exit, ExitCode
    <2>. QED
      BY <1>2, <2>1, <2>2
  <1>4. ASSUME NEW p \in Proc, StatusActual(p) PROVE [R!Next]_R!vars
    <2>1. UNCHANGED <<desired, done>> /\ pc[p] # "exited"
      BY <1>4 DEF StatusActual, receptor
    <2>2. code' = code \/ \E x \in ExitCode : code' = [code EXCEPT ![p] = x]
      BY <1>4 DEF StatusActual, Goto, Exit, ExitCode
    <2>3. \A q \in Proc : cmd'[q].op = cmd[q].op /\ cmd'[q].names = cmd[q].names
                           /\ cmd'[q].inst = cmd[q].inst
      <3>1. CASE UNCHANGED cmd
        BY <3>1
      <3>2. CASE cmd' = [cmd EXCEPT ![p].http = Resolve(@, ViewPorts(p)),
                                    ![p].tcp = Resolve(@, ViewPorts(p))]
        <4>1. cmd \in [Proc -> CommandType]
          BY <1>1 DEF TypeOK
        <4>2. ASSUME NEW q \in Proc, q # p PROVE cmd'[q] = cmd[q]
          BY <3>2, <4>1, <4>2
        <4>3. cmd'[p] = [cmd[p] EXCEPT !.http = Resolve(@, ViewPorts(p)),
                                       !.tcp = Resolve(@, ViewPorts(p))]
          BY <3>2, <4>1
        <4>4. cmd'[p].op = cmd[p].op /\ cmd'[p].names = cmd[p].names /\ cmd'[p].inst = cmd[p].inst
          BY <4>1, <4>3 DEF CommandType
        <4>. QED
          BY <4>2, <4>4
      <3>. QED
        BY <1>4, <3>1, <3>2 DEF StatusActual
    <2>. QED
      BY <1>2, <2>1, <2>2, <2>3
  <1>5. ASSUME UNCHANGED <<desired, done, cmd, code>> PROVE [R!Next]_R!vars
    <2>1. \A q \in Proc : Task(q)' = Task(q)
      BY <1>5 DEF Task, AllArgs, Args
    <2>2. [q \in Proc |-> Task(q)]' = [q \in Proc |-> Task(q)]
      BY <2>1
    <2>. QED
      BY <1>5, <2>2 DEF R!vars, Task
  <1>6. CASE Diego \/ UNCHANGED vars
    BY <1>5, <1>6 DEF Diego, vars, receptor, process
  <1>7. ASSUME NEW p \in Proc, TailEnds(p) PROVE [R!Next]_R!vars
    <2>1. UNCHANGED <<desired, done, cmd>> /\ (code' = code \/ Exit(p, "Panic"))
      BY <1>7 DEF TailEnds, receptor
    <2>2. pc[p] # "exited"
      BY <1>7 DEF TailEnds, TailsEnd
    <2>. QED
      BY <1>2, <2>1, <2>2 DEF Exit, ExitCode
  <1>. QED
    BY <1>3, <1>4, <1>6, <1>7, WriteSimulates DEF Next, Step

\* In the beginning there are no apps and nothing is done.
LEMMA InitSimulates == Init => R!Init
  BY DEF Init, R!Init

\* Apps implements Registry: with any number of invocations running beside each
\* other, every command acts on the receptor as if in one step per app.
THEOREM Refinement == Spec => ImplementsRegistry
  <1>1. Init => TailsEnd
    BY DEF Init, TailsEnd
  <1>2. Spec => []TailsEnd
    BY Invariance, NextTailsEnd, <1>1, PTL DEF Spec
  <1>. QED
    BY Invariance, InitSimulates, StepSimulates, <1>2, PTL DEF Spec, ImplementsRegistry, R!Spec
=============================================================================
