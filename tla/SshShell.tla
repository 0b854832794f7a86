------------------------------ MODULE SshShell ------------------------------
(***************************************************************************)
(* An ltc process as ExitHandler has it, with what goes on inside while it *)
(* runs ltc ssh: the goroutine that tells the remote terminal about a new  *)
(* window size, the one that keeps the connection alive, and on Windows    *)
(* one that looks at the clock.  Elsewhere the size changes with a         *)
(* SIGWINCH, which the runtime drops when nobody is waiting for it.  All   *)
(* of them end with the process, at whatever point it is told to exit.     *)
(*                                                                         *)
(* The window, its user and the remote side are not part of the            *)
(* repository.                                                             *)
(***************************************************************************)
EXTENDS ExitHandler

CONSTANTS
    Size,       \* sizes the local window may have
    MaxResizes  \* bound on how often it is resized

ASSUME SizeAssumption == 0 \notin Size
ASSUME BoundsAssumption == MaxResizes \in Nat

VARIABLES
    build,      \* for "windows" or for "unix"
    window,     \* the size of the local window
    resizes,    \* how often it was changed
    shell,      \* where Shell is
    size,       \* what it read in the beginning
    remote,     \* the size of the remote terminal
    refused,    \* whether the last Resize got an error
    channel,    \* SigWinchChannel
    notified,   \* whether the runtime sends SIGWINCH to it
    resizer,    \* the goroutine in resize
    read,       \* the size it has just read
    previous,   \* its previousWidth and previousHeight
    ticker,     \* the goroutine that sends on Windows
    keepAlive,  \* the goroutine in KeepAlive
    stopAlive   \* whether its receiveStopChan is closed

local == <<window, resizes>>
helpers == <<channel, notified, resizer, read, previous, ticker, keepAlive, stopAlive>>
session == <<shell, size, remote, refused, helpers>>
shellVars == <<build, local, session>>

SshInit ==
    /\ Init
    /\ build \in {"windows", "unix"}
    /\ window \in Size /\ resizes = 0
    /\ shell = "size"
    /\ size = window /\ remote = window /\ refused = FALSE     \* nothing is there yet
    /\ channel = "open" /\ notified = FALSE
    /\ resizer = "none" /\ read = window /\ previous = window
    /\ ticker = "none"
    /\ keepAlive = "none" /\ stopAlive = FALSE

-----------------------------------------------------------------------------
\* Shell, one step per call that another goroutine or the user can notice.
ShellAt(l) == MainAt(IF l \in {"size", "session"} THEN "altering" ELSE "session")
              /\ Shell(kind) /\ shell = l

\* The size the remote terminal is asked for.
GetWinsize ==
    /\ ShellAt("size")
    /\ size' = window
    /\ shell' = "session"
    /\ UNCHANGED <<vars, build, local, remote, refused, helpers>>

\* SessionFactory.New asks for a terminal of the size read.
NewSession ==
    /\ ShellAt("session")
    /\ \/ remote' = size /\ shell' = "notify" /\ UNCHANGED vars
       \/ UNCHANGED remote /\ shell' = "returned" /\ SessionRefused
    /\ UNCHANGED <<build, local, size, refused, helpers>>

Notify ==
    /\ ShellAt("notify")
    /\ notified' = (build = "unix")
    /\ ticker' = IF build = "windows" THEN "ticking" ELSE "none"
    /\ shell' = "spawn"
    /\ UNCHANGED <<vars, build, local, size, remote, refused, channel, resizer, read, previous, keepAlive, stopAlive>>

\* go s.resize, and session.KeepAlive.
SpawnResize ==
    /\ ShellAt("spawn")
    /\ resizer' = "receive" /\ previous' = size
    /\ keepAlive' = "select"
    /\ shell' = "wait"
    /\ UNCHANGED <<vars, build, local, size, remote, refused, channel, notified, read, ticker, stopAlive>>

\* session.Wait returns; then come the deferred calls, the last one first.
RemoteEnds ==
    /\ ShellAt("wait")
    /\ stopAlive' = TRUE
    /\ shell' = IF build = "windows" THEN "returned" ELSE "stop"
    /\ UNCHANGED <<vars, build, local, size, remote, refused, channel, notified, resizer, read, previous, ticker, keepAlive>>

\* Faulty variant: the channel is closed first.
StopNotifyLate ==
    /\ ShellAt("stop")
    /\ channel' = "closed"
    /\ shell' = "close"
    /\ UNCHANGED <<vars, build, local, size, remote, refused, notified, resizer, read, previous, ticker, keepAlive, stopAlive>>

\* signal.Stop: once it has returned the runtime does not send any more.
StopNotify ==
    /\ ShellAt("stop")
    /\ notified' = FALSE
    /\ shell' = "close"
    /\ UNCHANGED <<vars, build, local, size, remote, refused, channel, resizer, read, previous, ticker, keepAlive, stopAlive>>

CloseChannel ==
    /\ ShellAt("close")
    /\ channel' = "closed"
    /\ shell' = "returned"
    /\ UNCHANGED <<vars, build, local, size, remote, refused, notified, resizer, read, previous, ticker, keepAlive, stopAlive>>

-----------------------------------------------------------------------------
\* The user pulls at the window.  The channel is unbuffered: the signal gets
\* through only to a goroutine that is receiving.
Resize ==
    /\ Alive /\ Shell(kind)
    /\ resizes < MaxResizes /\ resizes' = resizes + 1
    /\ window' \in Size \ {window}
    /\ \/ ~notified /\ UNCHANGED <<channel, resizer>>
       \/ notified /\ channel = "open" /\ UNCHANGED channel /\
             resizer' = IF resizer = "receive" THEN "read" ELSE resizer
       \/ notified /\ channel = "closed" /\ channel' = "sent on" /\ UNCHANGED resizer
    /\ UNCHANGED <<vars, build, shell, size, remote, refused, notified, read, previous, ticker, keepAlive, stopAlive>>

\* Every 250 milliseconds on Windows, waiting for the receiver if need be.
Tick ==
    /\ Alive /\ ticker = "ticking" /\ resizer = "receive"
    /\ resizer' = "read"
    /\ UNCHANGED <<vars, build, local, shell, size, remote, refused, channel, notified, read, previous, ticker, keepAlive, stopAlive>>

\* resize
ReadWinsize ==
    /\ Alive /\ resizer = "read"
    /\ read' = window
    /\ resizer' = IF window = previous THEN "receive" ELSE "send"
    /\ UNCHANGED <<vars, build, local, shell, size, remote, refused, channel, notified, previous, ticker, keepAlive, stopAlive>>

\* session.Resize: a request for which no answer is wanted; its error is dropped.
AskResize ==
    \/ remote' = read /\ refused' = FALSE
    \/ UNCHANGED remote /\ refused' = TRUE

\* Faulty variant: what is remembered is the size at the start.
SendResizeForgets ==
    /\ Alive /\ resizer = "send"
    /\ AskResize
    /\ resizer' = "receive"
    /\ UNCHANGED <<vars, build, local, shell, size, channel, notified, read, previous, ticker, keepAlive, stopAlive>>

\* What is remembered is the size asked for, whether the other side got it or not.
SendResize ==
    /\ Alive /\ resizer = "send"
    /\ AskResize /\ previous' = read
    /\ resizer' = "receive"
    /\ UNCHANGED <<vars, build, local, shell, size, channel, notified, read, ticker, keepAlive, stopAlive>>

ResizeEnds ==
    /\ Alive /\ resizer = "receive" /\ channel = "closed"
    /\ resizer' = "returned"
    /\ UNCHANGED <<vars, build, local, shell, size, remote, refused, channel, notified, read, previous, ticker, keepAlive, stopAlive>>

\* KeepAlive asks for an answer whenever its ticker fires, until it is stopped;
\* the answer, or the end of the connection, is all that ends its request.
KeepAlive ==
    /\ Alive
    /\ \/ keepAlive = "select" /\ keepAlive' = "request"
       \/ keepAlive = "request" /\ keepAlive' = "select"
       \/ keepAlive = "select" /\ stopAlive /\ keepAlive' = "returned"
    /\ UNCHANGED <<vars, build, local, shell, size, remote, refused, channel, notified, resizer, read, previous, ticker, stopAlive>>

-----------------------------------------------------------------------------
\* The rest of the process, which waits for Shell where it runs it.
ProcessMain ==
    \/ Begin \/ OnExit \/ Timer \/ Refresh \/ Deferred \/ Return
    \/ Alter /\ (Shell(kind) => shell = "notify")
    \/ SessionEnds /\ shell = "returned"
ProcessStep(A) == A /\ UNCHANGED shellVars

ShellStep == GetWinsize \/ NewSession \/ Notify \/ SpawnResize \/ StopNotify \/ CloseChannel
ResizerStep == ReadWinsize \/ SendResize \/ ResizeEnds

SshNext ==
    \/ ProcessStep(Wait) \/ ProcessStep(Signal)
    \/ ProcessStep(ProcessMain) \/ ProcessStep(ForwardFails)
    \/ ProcessStep(Stops)
    \/ \E g \in Goroutine : ProcessStep(Exit(g))
    \/ ShellStep \/ RemoteEnds \/ Resize \/ Tick \/ ResizerStep \/ KeepAlive

sshVars == <<vars, shellVars>>
SshSpec == SshInit /\ [][SshNext]_sshVars
\* Goroutines are scheduled and the clock goes on; the select of a refreshing
\* command takes a waiting exit function at last.  A session need not end.
SshFairSpec ==
    /\ SshSpec
    /\ WF_sshVars(ProcessStep(Wait)) /\ WF_sshVars(ProcessStep(ProcessMain))
    /\ SF_sshVars(ProcessStep(Stops))
    /\ \A g \in Goroutine : WF_sshVars(ProcessStep(Exit(g)))
    /\ WF_sshVars(ShellStep) /\ WF_sshVars(ResizerStep) /\ WF_sshVars(Tick)

-----------------------------------------------------------------------------

\* The runtime never sends on the channel Shell has closed: that would panic
\* after a session that ended well.
NoSendOnClosed == channel # "sent on"

\* "resizes the remote terminal if the local terminal is resized": while the
\* session lasts the remote terminal gets the size the window is left with.
Follows(b, mayFail) ==
    \A s \in Size :
        []<>( \/ ~(build = b /\ Alive /\ shell = "wait" /\ window = s)
              \/ remote = s
              \/ mayFail /\ refused )

\* On Windows it does, whenever the window changes and whatever the resizer is at,
\* unless the last request failed; earlier ones that failed do not matter.
WindowsFollowsWindow == Follows("windows", TRUE)

\* Not so elsewhere: the last SIGWINCH may find nobody receiving.  And on neither
\* is a size asked for again when asking failed.
RemoteFollowsWindow == Follows("windows", FALSE) /\ Follows("unix", FALSE)
=============================================================================
