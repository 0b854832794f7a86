----------------------------- MODULE SshProofs ------------------------------
(***************************************************************************)
(* How an ltc process ends and what a shell keeps straight meanwhile, for  *)
(* all kinds of commands, all sizes of the window and however often it is  *)
(* resized (SshShell); and what ssh -L forwards, for any number of         *)
(* connections and chunks (SshForward).                                    *)
(*                                                                         *)
(* The two halves of SshShell need an invariant each: a goroutine past its *)
(* exit function has restored the terminal, and nobody alters it after a   *)
(* function is registered (ExitInv); the runtime has been told to stop     *)
(* sending before the channel is closed (ShellInv).                        *)
(*                                                                         *)
(* What is forwarded arrives, unless its receiver is gone.  For this to be *)
(* inductive, why a goroutine has stopped copying has to be remembered     *)
(* until it is done (ForwardIInv).                                         *)
(***************************************************************************)
EXTENDS SshShell, SshForward, TLAPS

Failure == {"CommandFailed", "InvalidSyntax", "Signal"}

ExitType ==
    /\ kind \in AllKinds
    /\ main \in {"start", "altering", "registering", "select", "refreshing", "session",
                 "deferred", "returning"}
    /\ onExit \in {<<>>, <<"restore">>, <<"stop refreshing">>}
    /\ at \in [Goroutine -> Nat]
    /\ exitWith \in [Goroutine -> Failure \cup {"none"}]
    /\ terminal \in {"normal", "altered"}

ExitInv ==
    /\ ExitType
    /\ \A g \in Goroutine : InExit(g) => exitWith[g] \in Failure
    /\ \A g \in Goroutine : at[g] > 1 => onExit # <<>> /\ terminal = "normal"
    /\ main \in {"start", "altering", "registering"} => onExit = <<>>
    /\ main \in {"altering", "registering"} => Refreshes(kind) \/ Shell(kind)
    /\ main \in {"select", "refreshing"} => Refreshes(kind)
    /\ main = "returning" /\ onExit # <<>> /\ kind # "visualize" => terminal = "normal"
    /\ ~Alive /\ onExit # <<>> /\ (kind # "visualize" \/ code # "0") => terminal = "normal"

ShellInv ==
    /\ channel \in {"open", "closed"}
    /\ channel = "closed" => shell = "returned" /\ ~notified
    /\ shell = "close" => ~notified

-----------------------------------------------------------------------------
\* There is one exit function or none.
LEMMA Registered ==
    ASSUME ExitType PROVE Len(onExit) = IF onExit = <<>> THEN 0 ELSE 1
  <1>1. Len(<<>>) = 0 /\ Len(<<"restore">>) = 1 /\ Len(<<"stop refreshing">>) = 1
    OBVIOUS
  <1>. QED
    BY <1>1 DEF ExitType

LEMMA InitExitInv == Init => ExitInv
  <1> SUFFICES ASSUME Init PROVE ExitInv
    OBVIOUS
  <1>1. ExitType
    BY KindsAssumption DEF Init, ExitType
  <1>2. \A g \in Goroutine : at[g] = 0
    BY DEF Init
  <1>. QED
    BY <1>1, <1>2 DEF Init, ExitInv, InExit, Alive

\* Somebody calls Exit, with a code that is no success.
LEMMA CallExitInv ==
    ASSUME ExitInv, Alive, NEW g \in Goroutine, NEW c \in Failure, CallExit(g, c),
           UNCHANGED <<kind, main, onExit, terminal, code>>
    PROVE  ExitInv'
  <1>1. ExitType
    BY DEF ExitInv
  <1>2. /\ at'[g] = 1 /\ exitWith'[g] = c
        /\ \A h \in Goroutine \ {g} : at'[h] = at[h] /\ exitWith'[h] = exitWith[h]
    BY <1>1 DEF CallExit, ExitType
  <1>3. ExitType'
    BY <1>1 DEF CallExit, ExitType
  <1>. QED
    BY <1>2, <1>3 DEF ExitInv, InExit, Alive

\* The goroutine of signals waits, and takes one.
LEMMA SignalInv == ASSUME ExitInv, Wait \/ Signal PROVE ExitInv'
  <1>1. CASE Wait
    BY <1>1 DEF Wait, ExitInv, ExitType, InExit, Alive, exits
  <1>2. CASE Signal
    BY <1>2, CallExitInv DEF Signal, Failure, Goroutine
  <1>. QED
    BY <1>1, <1>2

\* The forward of ssh -L may call Exit beside the shell.
LEMMA ForwardInv == ASSUME ExitInv, ForwardFails PROVE ExitInv'
  <1>1. CASE UNCHANGED exits
    BY <1>1 DEF ForwardFails, ExitInv, ExitType, InExit, Alive, exits
  <1>2. ASSUME NEW c \in {"InvalidSyntax", "CommandFailed"}, CallExit("forward", c)
        PROVE  ExitInv'
    BY <1>2, CallExitInv DEF ForwardFails, Failure, Goroutine
  <1>. QED
    BY <1>1, <1>2 DEF ForwardFails

\* What main does until the terminal is altered: nothing is registered yet.
LEMMA BeginInv == ASSUME ExitInv, Begin \/ SessionRefused PROVE ExitInv'
  <1>1. Alive /\ main \in {"start", "altering"} /\ onExit = <<>> /\ UNCHANGED <<kind, onExit, terminal>>
    BY DEF Begin, SessionRefused, MainAt, ExitInv
  <1>2. ASSUME NEW c \in Failure, CallExit("main", c), UNCHANGED <<main, code>>
        PROVE  ExitInv'
    BY <1>1, <1>2, CallExitInv DEF Goroutine
  <1>3. ASSUME UNCHANGED exits,
               \/ code' = "1" /\ main' = main
               \/ main' = "returning" /\ code' = code
               \/ main' = "altering" /\ code' = code /\ (Refreshes(kind) \/ Shell(kind))
        PROVE  ExitInv'
    <2>1. ExitType' /\ at' = at /\ exitWith' = exitWith
      BY <1>1, <1>3 DEF ExitInv, ExitType, exits
    <2>. QED
      BY <1>1, <1>3, <2>1 DEF ExitInv, InExit, Alive, Refreshes, Shell
  <1>. QED
    BY <1>2, <1>3 DEF Begin, SessionRefused, Failure

\* The terminal is altered while nothing is registered.
LEMMA AlterInv == ASSUME ExitInv, Alter PROVE ExitInv'
  <1>1. Alive /\ main = "altering" /\ onExit = <<>> /\ UNCHANGED <<kind, onExit, at, exitWith, code>>
        /\ main' \in {"registering", "session"} /\ terminal' \in {terminal, "altered"}
    BY DEF Alter, MainAt, ExitInv, exits
  <1>2. ExitType'
    BY <1>1 DEF ExitInv, ExitType
  <1>3. \A g \in Goroutine : ~(at[g] > 1)
    BY <1>1 DEF ExitInv
  <1>. QED
    BY <1>1, <1>2, <1>3 DEF ExitInv, InExit, Alive, Refreshes, Shell

\* It is registered while nobody is in Exit.
LEMMA OnExitInv == ASSUME ExitInv, OnExit PROVE ExitInv'
  <1>1. /\ ExitType /\ Alive /\ main = "registering" /\ onExit = <<>>
        /\ UNCHANGED <<kind, at, exitWith, code, terminal>>
        /\ \A g \in Goroutine : ~InExit(g)
    BY DEF OnExit, MainAt, ExitInv, exits
  <1>2. /\ onExit' = <<"restore">> \/ onExit' = <<"stop refreshing">>
        /\ main' \in {"session", "select"} /\ (main' = "select" => Refreshes(kind))
    <2>1. main' = IF Shell(kind) THEN "session" ELSE "select"
      BY DEF OnExit
    <2>2. onExit' = Append(<<>>, IF Shell(kind) THEN "restore" ELSE "stop refreshing")
      BY <1>1 DEF OnExit
    <2>3. Refreshes(kind) \/ Shell(kind)
      BY <1>1 DEF ExitInv
    <2>4. onExit' = <<"restore">> \/ onExit' = <<"stop refreshing">>
      <3>1. Append(<<>>, "restore") = <<"restore">>
        OBVIOUS
      <3>2. Append(<<>>, "stop refreshing") = <<"stop refreshing">>
        OBVIOUS
      <3>. QED
        BY <2>2, <3>1, <3>2, Zenon
    <2>. QED
      BY <2>1, <2>3, <2>4
  <1>3. ExitType'
    BY <1>1, <1>2 DEF ExitType
  <1>. QED
    BY <1>1, <1>2, <1>3 DEF ExitInv, InExit, Alive, ExitType

\* While a command runs and when it is over: what is deferred restores.
LEMMA RunningInv ==
    ASSUME ExitInv, Timer \/ Refresh \/ SessionEnds \/ Deferred \/ Return PROVE ExitInv'
  <1>1. ExitType /\ Alive /\ UNCHANGED <<kind, onExit, at, exitWith>>
    BY DEF Timer, Refresh, SessionEnds, Deferred, Return, MainAt, ExitInv, exits
  <1>2. CASE Timer \/ Refresh
    <2>1. /\ UNCHANGED <<terminal, code>> /\ main \in {"select", "refreshing"}
          /\ main' \in {"select", "refreshing", "deferred"}
      BY <1>2 DEF Timer, Refresh, MainAt
    <2>2. ExitType'
      BY <1>1, <2>1 DEF ExitType
    <2>. QED
      BY <1>1, <2>1, <2>2 DEF ExitInv, InExit, Alive, Refreshes
  <1>3. CASE SessionEnds
    <2>1. /\ UNCHANGED <<terminal, code>> /\ main' \in {"deferred", "returning"}
          /\ main' = "returning" => onExit = <<>>
      BY <1>3 DEF SessionEnds
    <2>2. ExitType'
      BY <1>1, <2>1 DEF ExitType
    <2>. QED
      BY <1>1, <2>1, <2>2 DEF ExitInv, InExit, Alive
  <1>4. CASE Deferred
    <2>1. main' = "returning" /\ terminal' = "normal" /\ code' = code
      BY <1>4 DEF Deferred
    <2>2. ExitType'
      BY <1>1, <2>1 DEF ExitType
    <2>. QED
      BY <1>1, <2>1, <2>2 DEF ExitInv, InExit, Alive
  <1>5. CASE Return
    <2>1. main = "returning" /\ UNCHANGED <<main, terminal>> /\ code' = "0"
      BY <1>5 DEF Return, MainAt
    <2>2. ExitType'
      BY <1>1, <2>1 DEF ExitType
    <2>. QED
      BY <1>1, <2>1, <2>2 DEF ExitInv, InExit, Alive
  <1>. QED
    BY <1>2, <1>3, <1>4, <1>5

\* An exit function is run: whoever is past it has restored the terminal.
LEMMA ExitFunctionInv ==
    ASSUME ExitInv, NEW g \in Goroutine, StopRefreshing(g) \/ RunFunction(g) PROVE ExitInv'
  <1>1. ExitType /\ Alive /\ UNCHANGED <<kind, onExit, exitWith, code>> /\ onExit # <<>>
        /\ at[g] \in Nat /\ at[g] > 0
    <2>1. Function(g) # "none"
      BY DEF StopRefreshing, RunFunction
    <2>2. at[g] \in 1 .. Len(onExit)
      BY <2>1 DEF Function
    <2>3. onExit # <<>> /\ at[g] > 0
      BY <2>2, Registered DEF ExitInv
    <2>. QED
      BY <2>3 DEF StopRefreshing, RunFunction, ExitInv, ExitType
  <1>2. CASE StopRefreshing(g)
    <2>1. /\ UNCHANGED <<at, terminal>> /\ main = "select" /\ main' \in {"deferred", "returning"}
          /\ main' = "returning" => kind # "status"
      BY <1>2 DEF StopRefreshing, MainAt
    <2>2. ExitType'
      BY <1>1, <2>1 DEF ExitType
    <2>3. main' = "returning" => kind = "visualize"
      BY <2>1 DEF ExitInv, Refreshes
    <2>. QED
      BY <1>1, <2>1, <2>2, <2>3 DEF ExitInv, InExit, Alive
  <1>3. CASE RunFunction(g)
    <2>1. /\ UNCHANGED main /\ terminal' = "normal" /\ at'[g] = at[g] + 1
          /\ \A h \in Goroutine \ {g} : at'[h] = at[h]
      BY <1>1, <1>3 DEF RunFunction, ExitType
    <2>2. at' \in [Goroutine -> Nat]
      <3>1. at' = [at EXCEPT ![g] = @ + 1]
        BY <1>3 DEF RunFunction
      <3>2. at[g] + 1 \in Nat
        BY <1>1
      <3>. QED
        BY <1>1, <3>1, <3>2 DEF ExitType
    <2>3. ExitType'
      BY <1>1, <2>1, <2>2 DEF ExitType
    <2>. QED
      BY <1>1, <2>1, <2>3 DEF ExitInv, InExit, Alive
  <1>. QED
    BY <1>2, <1>3

\* The process ends: past every exit function.
LEMMA SystemExitInv == ASSUME ExitInv, NEW g \in Goroutine, SystemExit(g) PROVE ExitInv'
  <1>1. /\ ExitType /\ Alive /\ UNCHANGED <<kind, main, onExit, at, exitWith, terminal>>
        /\ code' = exitWith[g] /\ at[g] \in Nat /\ at[g] > Len(onExit)
    BY DEF SystemExit, ExitInv, ExitType, exits
  <1>2. onExit # <<>> => Len(onExit) = 1
    BY <1>1, Registered
  <1>3. onExit # <<>> => terminal = "normal"
    BY <1>1, <1>2 DEF ExitInv
  <1>4. ExitType'
    BY <1>1 DEF ExitType
  <1>. QED
    BY <1>1, <1>3, <1>4 DEF ExitInv, InExit

-----------------------------------------------------------------------------
\* No step of the shell or of its helpers touches what ExitHandler has, but
\* the refusal of a session.
LEMMA HelpersAlone ==
    ASSUME GetWinsize \/ Notify \/ SpawnResize \/ StopNotify \/ CloseChannel \/ RemoteEnds
           \/ Resize \/ Tick \/ ResizerStep \/ KeepAlive
    PROVE  UNCHANGED vars
  BY DEF GetWinsize, Notify, SpawnResize, StopNotify, CloseChannel, RemoteEnds,
     Resize, Tick, ResizerStep, ReadWinsize, SendResize, ResizeEnds, KeepAlive

LEMMA SshExitInv == ExitInv /\ [SshNext]_sshVars => ExitInv'
  <1> SUFFICES ASSUME ExitInv, [SshNext]_sshVars PROVE ExitInv'
    OBVIOUS
  <1>1. CASE UNCHANGED vars
    BY <1>1 DEF ExitInv, ExitType, InExit, Alive, vars, exits
  <1>2. CASE ProcessStep(Wait) \/ ProcessStep(Signal) \/ ProcessStep(ForwardFails)
    BY <1>2, SignalInv, ForwardInv DEF ProcessStep
  <1>3. CASE ProcessStep(ProcessMain)
    BY <1>3, BeginInv, AlterInv, OnExitInv, RunningInv DEF ProcessStep, ProcessMain
  <1>4. CASE ProcessStep(Stops)
    BY <1>4, ExitFunctionInv DEF ProcessStep, Stops
  <1>5. ASSUME NEW g \in Goroutine, ProcessStep(Exit(g)) PROVE ExitInv'
    BY <1>5, ExitFunctionInv, SystemExitInv DEF ProcessStep, Exit
  <1>6. CASE NewSession
    BY <1>1, <1>6, BeginInv DEF NewSession
  <1>7. CASE UNCHANGED sshVars
    BY <1>1, <1>7 DEF sshVars
  <1>. QED
    BY <1>1, <1>2, <1>3, <1>4, <1>5, <1>6, <1>7, HelpersAlone DEF SshNext, ShellStep

-----------------------------------------------------------------------------
\* From the size read in the beginning to the deferred calls.
LEMMA ShellStepInv == ASSUME ShellInv, ShellStep \/ RemoteEnds PROVE ShellInv'
  <1>1. CASE GetWinsize
    BY <1>1 DEF GetWinsize, ShellAt, ShellInv, helpers
  <1>2. CASE NewSession
    <2>1. shell = "session" /\ UNCHANGED <<channel, notified>> /\ shell' \in {"notify", "returned"}
      BY <1>2 DEF NewSession, ShellAt, helpers
    <2>. QED
      BY <2>1 DEF ShellInv
  <1>3. CASE Notify
    <2>1. /\ shell = "notify" /\ shell' = "spawn"
          /\ UNCHANGED channel
      BY <1>3 DEF Notify, ShellAt
    <2>. QED
      BY <2>1 DEF ShellInv
  <1>4. CASE SpawnResize
    <2>1. shell = "spawn" /\ shell' = "wait" /\ UNCHANGED <<channel, notified>>
      BY <1>4 DEF SpawnResize, ShellAt
    <2>. QED
      BY <2>1 DEF ShellInv
  <1>5. CASE RemoteEnds
    <2>1. /\ shell = "wait" /\ shell' \in {"returned", "stop"}
          /\ UNCHANGED <<channel, notified>>
      BY <1>5 DEF RemoteEnds, ShellAt
    <2>. QED
      BY <2>1 DEF ShellInv
  <1>6. CASE StopNotify
    <2>1. /\ shell = "stop" /\ shell' = "close" /\ ~notified'
          /\ UNCHANGED channel
      BY <1>6 DEF StopNotify, ShellAt
    <2>. QED
      BY <2>1 DEF ShellInv
  <1>7. CASE CloseChannel
    <2>1. /\ shell = "close" /\ shell' = "returned" /\ channel' = "closed"
          /\ UNCHANGED notified
      BY <1>7 DEF CloseChannel, ShellAt
    <2>. QED
      BY <2>1 DEF ShellInv
  <1>. QED
    BY <1>1, <1>2, <1>3, <1>4, <1>5, <1>6, <1>7 DEF ShellStep

\* The window, the clock, the resizer and the goroutine of KeepAlive: a signal
\* is sent only on an open channel.
LEMMA HelperInv ==
    ASSUME ShellInv, Resize \/ Tick \/ ResizerStep \/ KeepAlive PROVE ShellInv'
  <1>1. CASE Resize
    <2>1. UNCHANGED <<channel, notified, shell>>
      BY <1>1 DEF Resize, ShellInv
    <2>. QED
      BY <2>1 DEF ShellInv
  <1>2. CASE Tick
    BY <1>2 DEF Tick, ShellInv
  <1>3. CASE ReadWinsize
    <2>1. UNCHANGED <<channel, notified, shell>>
      BY <1>3 DEF ReadWinsize
    <2>. QED
      BY <2>1 DEF ShellInv
  <1>4. CASE SendResize
    BY <1>4 DEF SendResize, ShellInv
  <1>5. CASE ResizeEnds
    BY <1>5 DEF ResizeEnds, ShellInv
  <1>6. CASE KeepAlive
    BY <1>6 DEF KeepAlive, ShellInv
  <1>. QED
    BY <1>1, <1>2, <1>3, <1>4, <1>5, <1>6 DEF ResizerStep

LEMMA SshShellInv == ShellInv /\ [SshNext]_sshVars => ShellInv'
  <1> SUFFICES ASSUME ShellInv, [SshNext]_sshVars PROVE ShellInv'
    OBVIOUS
  <1>1. CASE UNCHANGED shellVars
    BY <1>1 DEF ShellInv, shellVars, session, helpers
  <1>2. CASE UNCHANGED sshVars
    BY <1>1, <1>2 DEF sshVars
  <1>. QED
    BY <1>1, <1>2, ShellStepInv, HelperInv DEF SshNext, ProcessStep

-----------------------------------------------------------------------------
LEMMA SshInitInv == SshInit => ExitInv /\ ShellInv
  <1>1. SshInit => ShellInv
    BY DEF SshInit, ShellInv
  <1>. QED
    BY <1>1, InitExitInv DEF SshInit

THEOREM SshInvariance == SshSpec => [](ExitInv /\ ShellInv)
  BY SshInitInv, SshExitInv, SshShellInv, PTL DEF SshSpec

\* Whoever ends the process through Exit, in whatever order the command, the
\* signal and the forward get there, has run the exit functions first.
THEOREM ExitAlwaysRestores == SshSpec => []ExitRestores
  <1>1. ExitInv => ExitRestores
    BY DEF ExitInv, ExitRestores, Alive
  <1>. QED
    BY <1>1, SshInvariance, PTL

\* But for visualize --rate, the terminal survives every end of a process that
\* has registered an exit function, that of a plain return included.
THEOREM TerminalSurvives == SshSpec => []OthersRestore
  <1>1. ExitInv => OthersRestore
    BY DEF ExitInv, OthersRestore, Restores
  <1>. QED
    BY <1>1, SshInvariance, PTL

\* A resized window never makes the runtime send on the channel Shell closed.
THEOREM ChannelIsNotSentOn == SshSpec => []NoSendOnClosed
  <1>1. ShellInv => NoSendOnClosed
    BY DEF ShellInv, NoSendOnClosed
  <1>. QED
    BY <1>1, SshInvariance, PTL

-----------------------------------------------------------------------------
\* ssh -L.

\* Which connections have no goroutines yet.
Fresh(c) == up[c] = "none" /\ down[c] = "none" /\ app[c] = "none"

\* The connection on its way from the listener to Forward is fresh, and is
\* accepted once.
OnItsWay ==
    /\ \A c \in Conn : localConn[c] = "none" \/ held = c => Fresh(c)
    /\ forward \in {"dial", "wait"} => current \in Conn /\ current # held /\ localConn[current] # "none"
    /\ forward = "dial" => Fresh(current)
    /\ held \in Conn => localConn[held] # "none"

\* Why each goroutine has stopped copying, and who closed what.
Reasons(c) ==
    /\ up[c] \in {"close", "done"} =>
           \/ client[c] = "closed" \/ app[c] = "left"
           \/ client[c] = "half" /\ got[c] = wrote[c]
    /\ down[c] \in {"close", "done"} =>
           client[c] = "closed" \/ (app[c] \in {"left", "cut"} /\ heard[c] = said[c])
    /\ remoteConn[c] = "closed" \/ app[c] = "cut" => up[c] = "done"
    /\ localConn[c] = "closed" => down[c] = "done"
    /\ up[c] = "copy" \/ down[c] = "copy" => app[c] # "none"

ForwardIInv == TypeOK /\ OnItsWay /\ \A c \in Conn : Reasons(c)

-----------------------------------------------------------------------------
USE ConnAssumption, ChunksAssumption

LEMMA InitForwardIInv == ForwardInit => ForwardIInv
  <1>. SUFFICES ASSUME ForwardInit PROVE ForwardIInv
    OBVIOUS
  <1>1. TypeOK
    <2>1. 0 \in 0 .. MaxChunks
      OBVIOUS
    <2>2. /\ localConn \in [Conn -> Socket] /\ remoteConn \in [Conn -> Socket]
          /\ up \in [Conn -> Copier] /\ down \in [Conn -> Copier]
      BY DEF ForwardInit, Socket, Copier
    <2>3. /\ client \in [Conn -> {"none", "open", "half", "closed"}]
          /\ app \in [Conn -> {"none", "open", "left", "cut"}]
      BY DEF ForwardInit
    <2>4. /\ wrote \in [Conn -> 0 .. MaxChunks] /\ got \in [Conn -> 0 .. MaxChunks]
          /\ said \in [Conn -> 0 .. MaxChunks] /\ heard \in [Conn -> 0 .. MaxChunks]
      BY <2>1 DEF ForwardInit
    <2>5. \A c \in Conn : got[c] <= wrote[c] /\ heard[c] <= said[c]
      <3>1. \A c \in Conn : got[c] = 0 /\ wrote[c] = 0 /\ heard[c] = 0 /\ said[c] = 0
        BY Zenon DEF ForwardInit
      <3>2. 0 <= 0
        OBVIOUS
      <3>. QED
        BY <3>1, <3>2, Zenon
    <2>6. \A c \in Conn : up[c] = "none" /\ down[c] = "none"
      BY DEF ForwardInit
    <2>7. /\ listener = "accept" /\ errChan = FALSE /\ held = NoConn
          /\ current = NoConn /\ forward = "select"
      BY DEF ForwardInit
    <2>. QED
      BY <2>2, <2>3, <2>4, <2>5, <2>6, <2>7 DEF TypeOK
  <1>2. OnItsWay
    BY DEF ForwardInit, OnItsWay, Fresh
  <1>3. \A c \in Conn : Reasons(c)
    BY DEF ForwardInit, Reasons
  <1>. QED
    BY <1>1, <1>2, <1>3 DEF ForwardIInv

\* The listener: it touches local and held, and never the connection that is
\* being forwarded.
LEMMA ListenerIInv ==
    ASSUME ForwardIInv, ListenFails \/ AcceptFails \/ \E c \in Conn : Accept(c)
    PROVE  ForwardIInv'
  <1>1. CASE ListenFails \/ AcceptFails
    <2>1. TypeOK'
      BY <1>1 DEF ListenFails, AcceptFails, ForwardIInv, TypeOK, copying, ends, data
    <2>2. OnItsWay'
      BY <1>1 DEF ListenFails, AcceptFails, ForwardIInv, OnItsWay, Fresh, copying, ends, data
    <2>3. \A d \in Conn : Reasons(d)'
      BY <1>1 DEF ListenFails, AcceptFails, ForwardIInv, Reasons, copying, ends, data
    <2>. QED
      BY <2>1, <2>2, <2>3 DEF ForwardIInv
  <1>2. ASSUME NEW c \in Conn, Accept(c) PROVE ForwardIInv'
    <2>1. TypeOK'
      BY <1>2 DEF Accept, ForwardIInv, TypeOK, Socket, ends, data
    <2>2. OnItsWay'
      BY <1>2 DEF Accept, ForwardIInv, TypeOK, OnItsWay, Fresh, Socket, ends, data
    <2>3. \A d \in Conn : Reasons(d)'
      BY <1>2 DEF Accept, ForwardIInv, TypeOK, Reasons, Socket, ends, data
    <2>. QED
      BY <2>1, <2>2, <2>3 DEF ForwardIInv
  <1>. QED
    BY <1>1, <1>2

\* The loop: only DialRemote touches a connection, a fresh one.
LEMMA LoopIInv ==
    ASSUME ForwardIInv, ReceiveConn \/ ReceiveErr \/ DialRemote \/ DialFails \/ Forwarded
    \/ ShellEnds
    PROVE  ForwardIInv'
  <1>1. CASE ReceiveConn \/ ReceiveErr \/ DialFails \/ Forwarded \/ ShellEnds
    <2>1. TypeOK'
      BY <1>1 DEF ReceiveConn, ReceiveErr, DialFails, Forwarded, ShellEnds, ForwardIInv, TypeOK,
                  copying, ends, data
    <2>2. OnItsWay'
      BY <1>1 DEF ReceiveConn, ReceiveErr, DialFails, Forwarded, ShellEnds, ForwardIInv, TypeOK,
                  OnItsWay, Fresh, copying, ends, data
    <2>3. \A d \in Conn : Reasons(d)'
      BY <1>1 DEF ReceiveConn, ReceiveErr, DialFails, Forwarded, ShellEnds, ForwardIInv, Reasons,
                  copying, ends, data
    <2>. QED
      BY <2>1, <2>2, <2>3 DEF ForwardIInv
  <1>2. CASE DialRemote
    <2>1. TypeOK'
      BY <1>2 DEF DialRemote, ForwardIInv, TypeOK, OnItsWay, Fresh, Socket, Copier, data
    <2>2. OnItsWay'
      BY <1>2 DEF DialRemote, ForwardIInv, TypeOK, OnItsWay, Fresh, Socket, Copier, data
    <2>3. \A d \in Conn : Reasons(d)'
      BY <1>2 DEF DialRemote, ForwardIInv, TypeOK, OnItsWay, Fresh, Reasons, Socket, Copier, data
    <2>. QED
      BY <2>1, <2>2, <2>3 DEF ForwardIInv
  <1>. QED
    BY <1>1, <1>2

\* copyAndClose towards the app.
LEMMA UpIInv ==
    ASSUME ForwardIInv, NEW c \in Conn, CopyUp(c) \/ CopyUpEnds(c) \/ CloseRemote(c)
    PROVE  ForwardIInv'
  <1>1. TypeOK'
    BY DEF CopyUp, CopyUpEnds, CloseRemote, ForwardIInv, TypeOK, Socket, Copier, copying, ends, data
  <1>2. OnItsWay'
    BY DEF CopyUp, CopyUpEnds, CloseRemote, ForwardIInv, TypeOK, OnItsWay, Fresh, copying, ends,
           data
  <1>3. ASSUME NEW d \in Conn PROVE Reasons(d)'
    BY DEF CopyUp, CopyUpEnds, CloseRemote, ForwardIInv, TypeOK, Reasons, copying, ends, data
  <1>. QED
    BY <1>1, <1>2, <1>3 DEF ForwardIInv

\* copyAndClose back to the client.
LEMMA DownIInv ==
    ASSUME ForwardIInv, NEW c \in Conn, CopyDown(c) \/ CopyDownEnds(c) \/ CloseLocal(c)
    PROVE  ForwardIInv'
  <1>1. TypeOK'
    BY DEF CopyDown, CopyDownEnds, CloseLocal, ForwardIInv, TypeOK, Socket, Copier, copying, ends,
           data
  <1>2. OnItsWay'
    BY DEF CopyDown, CopyDownEnds, CloseLocal, ForwardIInv, TypeOK, OnItsWay, Fresh, copying, ends,
           data
  <1>3. ASSUME NEW d \in Conn PROVE Reasons(d)'
    BY DEF CopyDown, CopyDownEnds, CloseLocal, ForwardIInv, TypeOK, Reasons, copying, ends, data
  <1>. QED
    BY <1>1, <1>2, <1>3 DEF ForwardIInv

\* Both ends: what they do keeps every reason there was for closing.
LEMMA EndsIInv ==
    ASSUME ForwardIInv, NEW c \in Conn,
           Connect(c) \/ Send(c) \/ Finish(c) \/ Say(c) \/ Leave(c) \/ Cut(c)
    PROVE  ForwardIInv'
  <1>1. TypeOK'
    BY DEF Connect, Send, Finish, Say, Leave, Cut, ForwardIInv, TypeOK, copying, data
  <1>2. OnItsWay'
    BY DEF Connect, Send, Finish, Say, Leave, Cut, ForwardIInv, TypeOK, OnItsWay, Fresh, copying,
           data
  <1>3. ASSUME NEW d \in Conn PROVE Reasons(d)'
    BY DEF Connect, Send, Finish, Say, Leave, Cut, ForwardIInv, TypeOK, Reasons, copying, data
  <1>. QED
    BY <1>1, <1>2, <1>3 DEF ForwardIInv

LEMMA NextForwardIInv == ForwardIInv /\ [ForwardNext]_forwardVars => ForwardIInv'
  <1>. SUFFICES ASSUME ForwardIInv, [ForwardNext]_forwardVars PROVE ForwardIInv'
    OBVIOUS
  <1>1. CASE UNCHANGED forwardVars
    BY <1>1 DEF forwardVars, copying, ends, data, ForwardIInv, TypeOK, OnItsWay, Fresh, Reasons
  <1>2. CASE ForwardNext
    BY <1>2, ListenerIInv, LoopIInv, UpIInv, DownIInv, EndsIInv DEF ForwardNext
  <1>. QED
    BY <1>1, <1>2

-----------------------------------------------------------------------------
\* ssh -L keeps to its invariant, whatever clients, app and ssh server do.
THEOREM ForwardInvariance == ForwardSpec => []ForwardIInv
  BY InitForwardIInv, NextForwardIInv, PTL DEF ForwardSpec

\* Every variable keeps its type, and only the current connection is copied.
THEOREM ForwardTypeCorrect == ForwardSpec => []TypeOK
  BY ForwardInvariance, PTL DEF ForwardIInv

\* What a client sent is with the app when ltc closes the connection to it.
THEOREM NothingLostToTheApp == ForwardSpec => []AppGetsAll
  <1>1. ForwardIInv => AppGetsAll
    BY DEF ForwardIInv, Reasons, AppGetsAll
  <1>. QED
    BY <1>1, ForwardInvariance, PTL

\* What an app said before it left is with the client when ltc closes.
THEOREM NothingLostToTheClient == ForwardSpec => []ClientHearsAll
  <1>1. ForwardIInv => ClientHearsAll
    BY DEF ForwardIInv, Reasons, ClientHearsAll
  <1>. QED
    BY <1>1, ForwardInvariance, PTL
=============================================================================
