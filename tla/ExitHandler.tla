---------------------------- MODULE ExitHandler -----------------------------
(***************************************************************************)
(* How one ltc process ends: the goroutine that waits for signals, the     *)
(* exit functions commands register, and the commands that change the      *)
(* terminal while they run (status --rate and visualize --rate hide the    *)
(* cursor, ssh makes the terminal raw).                                    *)
(*                                                                         *)
(* Three goroutines may call Exit: the command itself, the one that waits  *)
(* for signals, and the one that forwards a port beside an ssh shell.      *)
(* What else an ssh shell does is in SshShell, which composes the steps.   *)
(***************************************************************************)
EXTENDS Integers, Sequences

CONSTANT Kinds      \* which commands run

AllKinds == {"once", "status", "visualize", "ssh", "ssh -L"}
ASSUME KindsAssumption == Kinds \subseteq AllKinds

Goroutine == {"main", "signal", "forward"}
Refreshes(k) == k \in {"status", "visualize"}
Shell(k) == k \in {"ssh", "ssh -L"}

VARIABLES
    kind,       \* the command this process runs
    main,       \* where it is
    waiting,    \* Run has reached its receive from signalChan
    forwarding, \* the port forward of ssh -L is running
    onExit,     \* the exit functions, in order
    at,         \* which exit function each goroutine in Exit is at, 0 outside Exit
    sent,       \* and whether that function got its message through closeChan
    exitWith,   \* the code Exit was called with
    terminal,
    code        \* exit code of the process, "none" while it runs

exits == <<at, sent, exitWith>>
vars == <<kind, main, waiting, forwarding, onExit, exits, terminal, code>>

Init ==
    /\ kind \in Kinds
    /\ main = "start"
    /\ waiting = FALSE /\ forwarding = FALSE
    /\ onExit = <<>>
    /\ at = [g \in Goroutine |-> 0]
    /\ sent = [g \in Goroutine |-> FALSE]
    /\ exitWith = [g \in Goroutine |-> "none"]
    /\ terminal = "normal"
    /\ code = "none"

Alive == code = "none"
InExit(g) == at[g] > 0

\* The goroutine g calls Exit.  RLock does not wait: the write lock is only
\* held while one function is appended.
CallExit(g, c) ==
    /\ at' = [at EXCEPT ![g] = 1]
    /\ exitWith' = [exitWith EXCEPT ![g] = c]
    /\ UNCHANGED sent

-----------------------------------------------------------------------------
\* go exitHandler.Run(): until it waits, and once it has left for Exit, a
\* signal finds nobody at the unbuffered channel and the runtime drops it.
Wait ==
    /\ Alive /\ ~waiting
    /\ waiting' = TRUE
    /\ UNCHANGED <<kind, main, forwarding, onExit, exits, terminal, code>>

Signal ==
    /\ Alive /\ waiting /\ ~InExit("signal")
    /\ CallExit("signal", "Signal")
    /\ UNCHANGED <<kind, main, waiting, forwarding, onExit, terminal, code>>

-----------------------------------------------------------------------------
MainAt(l) == Alive /\ ~InExit("main") /\ main = l

\* Everything before a command touches the terminal: the target is verified,
\* the arguments parsed, the first call to the receptor made.  Only a failure
\* the command reports ends in Exit; a plain return is exit code 0.
Begin ==
    /\ MainAt("start")
    /\ \/ code' = "1" /\ UNCHANGED <<main, forwarding, exits>>
       \/ /\ kind # "visualize"
          /\ \E c \in {"CommandFailed", "InvalidSyntax"} : CallExit("main", c)
          /\ UNCHANGED <<main, forwarding, code>>
       \/ main' = "returning" /\ UNCHANGED <<forwarding, exits, code>>
       \/ /\ Refreshes(kind) \/ Shell(kind)
          /\ main' = "altering" /\ forwarding' = (kind = "ssh -L")
          /\ UNCHANGED <<exits, code>>
    /\ UNCHANGED <<kind, waiting, onExit, terminal>>

\* cursor.Hide() or SetRawTerminal; a shell does without if that fails, or if
\* there is no terminal.
Alter ==
    /\ MainAt("altering")
    /\ \/ main' = "registering" /\ terminal' = "altered"
       \/ Shell(kind) /\ main' = "session" /\ UNCHANGED terminal
    /\ UNCHANGED <<kind, waiting, forwarding, onExit, exits, code>>

\* Shell returns the error of opening its session before it alters anything.
SessionRefused ==
    /\ MainAt("altering") /\ Shell(kind)
    /\ CallExit("main", "CommandFailed")
    /\ UNCHANGED <<kind, main, waiting, forwarding, onExit, terminal, code>>

\* OnExit waits for the write lock: it is not to be had while anyone is in Exit.
OnExit ==
    /\ MainAt("registering")
    /\ \A g \in Goroutine : ~InExit(g)
    /\ onExit' = Append(onExit, IF Shell(kind) THEN "restore" ELSE "stop refreshing")
    /\ main' = IF Shell(kind) THEN "session" ELSE "select"
    /\ UNCHANGED <<kind, waiting, forwarding, exits, terminal, code>>

\* The timer fires and the screen is drawn again; an error ends ltc status.
Timer ==
    /\ MainAt("select")
    /\ main' = "refreshing"
    /\ UNCHANGED <<kind, waiting, forwarding, onExit, exits, terminal, code>>

\* Faulty variant: an error while refreshing is treated like one before.
RefreshCallsExit ==
    /\ MainAt("refreshing")
    /\ \/ main' = "select" /\ UNCHANGED exits
       \/ kind = "status" /\ CallExit("main", "CommandFailed") /\ UNCHANGED main
    /\ UNCHANGED <<kind, waiting, forwarding, onExit, terminal, code>>

\* ltc status looks at the app again, ltc visualize at the cells.
Refresh ==
    /\ MainAt("refreshing")
    /\ \/ main' = "select"
       \/ kind = "status" /\ main' = "deferred"
    /\ UNCHANGED <<kind, waiting, forwarding, onExit, exits, terminal, code>>

\* Shell returns: the remote shell or command has ended.
SessionEnds ==
    /\ MainAt("session")
    /\ main' = IF terminal = "altered" \/ onExit # <<>> THEN "deferred" ELSE "returning"
    /\ UNCHANGED <<kind, waiting, forwarding, onExit, exits, terminal, code>>

\* Faulty variant: the command leaves it to the exit function to restore.
DeferredForgotten ==
    /\ MainAt("deferred")
    /\ main' = "returning"
    /\ UNCHANGED <<kind, waiting, forwarding, onExit, exits, terminal, code>>
\* defer Say(cursor.Show()) and defer RestoreTerminal.
Deferred ==
    /\ MainAt("deferred")
    /\ main' = "returning" /\ terminal' = "normal"
    /\ UNCHANGED <<kind, waiting, forwarding, onExit, exits, code>>

\* The command returns, so does main, and with it every goroutine.
Return ==
    /\ MainAt("returning")
    /\ code' = "0"
    /\ UNCHANGED <<kind, main, waiting, forwarding, onExit, exits, terminal>>

\* The forward beside a shell gives up: its usage is wrong, it cannot listen,
\* or a connection fails.  When its listener closes it just returns.
ForwardFails ==
    /\ Alive /\ forwarding
    /\ forwarding' = FALSE
    /\ \/ \E c \in {"InvalidSyntax", "CommandFailed"} : CallExit("forward", c)
       \/ UNCHANGED exits
    /\ UNCHANGED <<kind, main, waiting, onExit, terminal, code>>

-----------------------------------------------------------------------------
\* The exit function g is at, if there is one left.
Function(g) == IF at[g] \in 1 .. Len(onExit) THEN onExit[at[g]] ELSE "none"

\* closeChan is unbuffered: the exit function meets the command's select.
\* ltc visualize then returns at once, ltc status after its deferred call.
StopRefreshing(g) ==
    /\ Alive /\ Function(g) = "stop refreshing" /\ ~sent[g]
    /\ MainAt("select")
    /\ main' = IF kind = "status" THEN "deferred" ELSE "returning"
    /\ sent' = [sent EXCEPT ![g] = TRUE]
    /\ UNCHANGED <<kind, waiting, forwarding, onExit, at, exitWith, terminal, code>>

\* What is left of the function once nothing blocks it.
RunFunction(g) ==
    /\ Alive
    /\ Function(g) = "restore" \/ (Function(g) = "stop refreshing" /\ sent[g])
    /\ terminal' = "normal"
    /\ at' = [at EXCEPT ![g] = @ + 1]
    /\ UNCHANGED <<kind, main, waiting, forwarding, onExit, sent, exitWith, code>>

\* Faulty variant: the exit functions are started and not waited for.
SystemExitAtOnce(g) ==
    /\ Alive /\ InExit(g)
    /\ code' = exitWith[g]
    /\ UNCHANGED <<kind, main, waiting, forwarding, onExit, exits, terminal>>

\* systemExit: os.Exit with the code Exit was called with.
SystemExit(g) ==
    /\ Alive /\ at[g] > Len(onExit)
    /\ code' = exitWith[g]
    /\ UNCHANGED <<kind, main, waiting, forwarding, onExit, exits, terminal>>

Stops == \E g \in Goroutine : StopRefreshing(g)
Exit(g) == RunFunction(g) \/ SystemExit(g)

-----------------------------------------------------------------------------

\* Whoever ends the process through Exit has first run every exit function,
\* and the terminal is as it was.
ExitRestores == code \in {"CommandFailed", "InvalidSyntax", "Signal"} /\ onExit # <<>>
                    => terminal = "normal"

\* Once an exit function is registered the terminal survives every end of the
\* process.  visualize --rate defers no Show, and main may return between the
\* two halves of its exit function.
Restores(kinds) == ~Alive /\ onExit # <<>> /\ kind \in kinds => terminal = "normal"
OthersRestore == Restores(AllKinds \ {"visualize"})
RegisteredRestores == Restores(AllKinds)

\* A signal that Run receives ends the process, whatever the command is at.
ReceivedSignalEnds == InExit("signal") ~> ~Alive

\* "resets the terminal on exit".
TerminalRestored == ~Alive => terminal = "normal"

\* "handler1 handler2 Exit-Code=160": a command stopped by a signal's exit
\* function ends with that signal's code.
StoppedBySignal == ~Alive /\ sent["signal"] => code = "Signal"
=============================================================================
