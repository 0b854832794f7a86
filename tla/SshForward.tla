---------------------------- MODULE SshForward ------------------------------
(***************************************************************************)
(* ltc ssh -L: the goroutine that accepts local connections, the loop that *)
(* forwards them, and the two goroutines that copy, one for each           *)
(* direction of the connection being forwarded.                            *)
(*                                                                         *)
(* The clients, the app and the ssh server between ltc and the app are not *)
(* part of the repository.  Data is a number of chunks in each direction:  *)
(* TCP and the ssh channel keep their order.                               *)
(***************************************************************************)
EXTENDS Integers

CONSTANTS
    Conn,       \* local connections
    MaxChunks,  \* bound on what each end sends
    NoConn

ASSUME ConnAssumption == NoConn \notin Conn
ASSUME ChunksAssumption == MaxChunks \in Nat

VARIABLES
    listener,   \* the goroutine of Listen
    held,       \* the connection it is sending on connChan
    errChan,    \* the error it left
    forward,    \* where Forward is
    current,    \* the connection it forwards
    localConn,  \* ltc's end of each local connection
    remoteConn, \* ltc's end of the connection to the app
    up, down,   \* the goroutines in copyAndClose, towards the app and back
    client,     \* the client's end; "half" has ended what it sends
    app,        \* the app's end; "cut" was ended by the ssh server
    wrote, got, \* chunks written by the client, received by the app
    said, heard \* chunks sent by the app, received by the client

copying == <<up, down, localConn, remoteConn>>
ends == <<client, app, wrote, said>>
data == <<got, heard>>
forwardVars == <<listener, held, errChan, forward, current, copying, ends, data>>

ForwardInit ==
    /\ listener = "accept" /\ held = NoConn /\ errChan = FALSE
    /\ forward = "select" /\ current = NoConn
    /\ localConn = [c \in Conn |-> "none"] /\ remoteConn = [c \in Conn |-> "none"]
    /\ up = [c \in Conn |-> "none"] /\ down = [c \in Conn |-> "none"]
    /\ client = [c \in Conn |-> "none"] /\ app = [c \in Conn |-> "none"]
    /\ wrote = [c \in Conn |-> 0] /\ got = [c \in Conn |-> 0]
    /\ said = [c \in Conn |-> 0] /\ heard = [c \in Conn |-> 0]

Socket == {"none", "open", "closed"}
Copier == {"none", "copy", "close", "done"}
Running == forward \notin {"failed", "exited"}

-----------------------------------------------------------------------------
\* ChannelListener.

\* A failing Listen leaves its error before there is a goroutine.
ListenFails ==
    /\ Running /\ listener = "accept" /\ held = NoConn /\ \A c \in Conn : client[c] = "none"
    /\ errChan' = TRUE /\ listener' = "returned"
    /\ UNCHANGED <<held, forward, current, copying, ends, data>>

Accept(c) ==
    /\ Running /\ listener = "accept" /\ held = NoConn
    /\ client[c] # "none" /\ localConn[c] = "none"
    /\ localConn' = [localConn EXCEPT ![c] = "open"] /\ held' = c
    /\ UNCHANGED <<listener, errChan, forward, current, up, down, remoteConn, ends, data>>

AcceptFails ==
    /\ Running /\ listener = "accept" /\ held = NoConn
    /\ errChan' = TRUE /\ listener' = "returned"
    /\ UNCHANGED <<held, forward, current, copying, ends, data>>

-----------------------------------------------------------------------------
\* Forward: one connection at a time.

\* connChan is unbuffered; neither channel is ever closed.
ReceiveConn ==
    /\ forward = "select" /\ held # NoConn
    /\ current' = held /\ held' = NoConn
    /\ forward' = "dial"
    /\ UNCHANGED <<listener, errChan, copying, ends, data>>

\* The error ends the process with CommandFailed, whatever else it does.
ReceiveErr ==
    /\ forward = "select" /\ errChan
    /\ errChan' = FALSE
    /\ forward' = "failed"
    /\ UNCHANGED <<listener, held, current, copying, ends, data>>

DialRemote ==
    /\ forward = "dial"
    /\ remoteConn' = [remoteConn EXCEPT ![current] = "open"]
    /\ app' = [app EXCEPT ![current] = "open"]
    /\ up' = [up EXCEPT ![current] = "copy"] /\ down' = [down EXCEPT ![current] = "copy"]
    /\ forward' = "wait"
    /\ UNCHANGED <<listener, held, errChan, current, localConn, client, wrote, said, data>>

DialFails ==
    /\ forward = "dial"
    /\ forward' = "failed"
    /\ UNCHANGED <<listener, held, errChan, current, copying, ends, data>>

\* wg.Wait
Forwarded ==
    /\ forward = "wait" /\ up[current] = "done" /\ down[current] = "done"
    /\ forward' = "select" /\ current' = NoConn
    /\ UNCHANGED <<listener, held, errChan, copying, ends, data>>

\* The process ends beside it: without -N with its shell, or with a signal.
ShellEnds ==
    /\ Running
    /\ forward' = "exited"
    /\ UNCHANGED <<listener, held, errChan, current, copying, ends, data>>

-----------------------------------------------------------------------------
\* copyAndClose.

CopyUp(c) ==
    /\ Running /\ up[c] = "copy" /\ localConn[c] = "open" /\ app[c] = "open"
    /\ got[c] < wrote[c]
    /\ got' = [got EXCEPT ![c] = @ + 1]
    /\ UNCHANGED <<listener, held, errChan, forward, current, copying, ends, heard>>

\* Faulty variant: what can be read at once is all there is.
CopyUpEndsEarly(c) ==
    /\ Running /\ up[c] = "copy"
    /\ up' = [up EXCEPT ![c] = "close"]
    /\ UNCHANGED <<listener, held, errChan, forward, current, down, localConn, remoteConn, ends, data>>

\* io.Copy returns at the end of what the client sent, or when reading or
\* writing fails: the other goroutine closed localConn, or the app is gone.
CopyUpEnds(c) ==
    /\ Running /\ up[c] = "copy"
    /\ \/ localConn[c] = "closed"
       \/ got[c] = wrote[c] /\ client[c] \in {"half", "closed"}
       \/ got[c] < wrote[c] /\ app[c] # "open"
    /\ up' = [up EXCEPT ![c] = "close"]
    /\ UNCHANGED <<listener, held, errChan, forward, current, down, localConn, remoteConn, ends, data>>


CloseRemote(c) ==
    /\ Running /\ up[c] = "close"
    /\ remoteConn' = [remoteConn EXCEPT ![c] = "closed"]
    /\ up' = [up EXCEPT ![c] = "done"]
    /\ UNCHANGED <<listener, held, errChan, forward, current, down, localConn, ends, data>>

\* What had arrived when remoteConn was closed can still be read.
CopyDown(c) ==
    /\ Running /\ down[c] = "copy" /\ localConn[c] = "open" /\ client[c] # "closed"
    /\ heard[c] < said[c]
    /\ heard' = [heard EXCEPT ![c] = @ + 1]
    /\ UNCHANGED <<listener, held, errChan, forward, current, copying, ends, got>>

\* Faulty variant: a remote end that is closed is not read to its end.
CopyDownEndsEarly(c) ==
    /\ Running /\ down[c] = "copy"
    /\ app[c] \in {"left", "cut"}
    /\ down' = [down EXCEPT ![c] = "close"]
    /\ UNCHANGED <<listener, held, errChan, forward, current, up, localConn, remoteConn, ends, data>>

CopyDownEnds(c) ==
    /\ Running /\ down[c] = "copy"
    /\ \/ heard[c] = said[c] /\ app[c] \in {"left", "cut"}
       \/ heard[c] < said[c] /\ client[c] = "closed"
    /\ down' = [down EXCEPT ![c] = "close"]
    /\ UNCHANGED <<listener, held, errChan, forward, current, up, localConn, remoteConn, ends, data>>

CloseLocal(c) ==
    /\ Running /\ down[c] = "close"
    /\ localConn' = [localConn EXCEPT ![c] = "closed"]
    /\ down' = [down EXCEPT ![c] = "done"]
    /\ UNCHANGED <<listener, held, errChan, forward, current, up, remoteConn, ends, data>>

-----------------------------------------------------------------------------
\* The clients, the app and the ssh server.

\* A client is connected as soon as the kernel queues it.
Connect(c) ==
    /\ Running /\ listener = "accept" /\ client[c] = "none"
    /\ client' = [client EXCEPT ![c] = "open"]
    /\ UNCHANGED <<listener, held, errChan, forward, current, copying, app, wrote, said, data>>

Send(c) ==
    /\ Running /\ client[c] = "open" /\ localConn[c] # "closed" /\ wrote[c] < MaxChunks
    /\ wrote' = [wrote EXCEPT ![c] = @ + 1]
    /\ UNCHANGED <<listener, held, errChan, forward, current, copying, client, app, said, data>>

\* A client ends what it sends, or closes.
Finish(c) ==
    /\ Running
    /\ \/ client[c] = "open" /\ client' = [client EXCEPT ![c] = "half"]
       \/ client[c] \in {"open", "half"} /\ client' = [client EXCEPT ![c] = "closed"]
    /\ UNCHANGED <<listener, held, errChan, forward, current, copying, app, wrote, said, data>>

Say(c) ==
    /\ Running /\ app[c] = "open" /\ said[c] < MaxChunks
    /\ said' = [said EXCEPT ![c] = @ + 1]
    /\ UNCHANGED <<listener, held, errChan, forward, current, copying, client, app, wrote, data>>

Leave(c) ==
    /\ Running /\ app[c] = "open"
    /\ app' = [app EXCEPT ![c] = "left"]
    /\ UNCHANGED <<listener, held, errChan, forward, current, copying, client, wrote, said, data>>

\* The ssh server answers the end of the channel by closing its side.
Cut(c) ==
    /\ Running /\ app[c] = "open" /\ remoteConn[c] = "closed"
    /\ app' = [app EXCEPT ![c] = "cut"]
    /\ UNCHANGED <<listener, held, errChan, forward, current, copying, client, wrote, said, data>>

Ltc ==
    \/ ReceiveConn \/ ReceiveErr \/ DialRemote \/ DialFails \/ Forwarded
    \/ \E c \in Conn : Accept(c)

ForwardNext ==
    \/ ReceiveConn \/ ReceiveErr \/ DialRemote \/ DialFails \/ Forwarded
    \/ ListenFails \/ AcceptFails \/ ShellEnds
    \/ \E c \in Conn :
        \/ Accept(c)
        \/ CopyUp(c) \/ CopyUpEnds(c) \/ CloseRemote(c)
        \/ CopyDown(c) \/ CopyDownEnds(c) \/ CloseLocal(c)
        \/ Connect(c) \/ Send(c) \/ Finish(c) \/ Say(c) \/ Leave(c) \/ Cut(c)

ForwardSpec == ForwardInit /\ [][ForwardNext]_forwardVars

\* The goroutines go on and the ssh server answers; clients and the app do as
\* they like.
ForwardFairSpec ==
    /\ ForwardSpec
    /\ WF_forwardVars(Ltc)
    /\ \A c \in Conn :
        /\ WF_forwardVars(CopyUp(c) \/ CopyUpEnds(c) \/ CloseRemote(c))
        /\ WF_forwardVars(CopyDown(c) \/ CopyDownEnds(c) \/ CloseLocal(c))
        /\ WF_forwardVars(Cut(c))

-----------------------------------------------------------------------------
\* Types, and that only the connection being forwarded is copied.
TypeOK ==
    /\ listener \in {"accept", "returned"} /\ errChan \in BOOLEAN
    /\ held \in Conn \cup {NoConn} /\ current \in Conn \cup {NoConn}
    /\ forward \in {"select", "dial", "wait", "failed", "exited"}
    /\ localConn \in [Conn -> Socket] /\ remoteConn \in [Conn -> Socket]
    /\ up \in [Conn -> Copier] /\ down \in [Conn -> Copier]
    /\ client \in [Conn -> {"none", "open", "half", "closed"}]
    /\ app \in [Conn -> {"none", "open", "left", "cut"}]
    /\ wrote \in [Conn -> 0 .. MaxChunks] /\ got \in [Conn -> 0 .. MaxChunks]
    /\ said \in [Conn -> 0 .. MaxChunks] /\ heard \in [Conn -> 0 .. MaxChunks]
    /\ \A c \in Conn : got[c] <= wrote[c] /\ heard[c] <= said[c]
    /\ forward = "select" => current = NoConn
    /\ \A c \in Conn : up[c] \in {"copy", "close"} \/ down[c] \in {"copy", "close"} => c = current

\* Once the connection to the app was closed towards it, the app has all that
\* a client sent which has not closed its end, unless the app left before.
AppGetsAll ==
    \A c \in Conn :
        up[c] = "done" /\ client[c] # "closed" /\ app[c] # "left" => got[c] = wrote[c]

\* An app that ends a connection by itself has told its client everything,
\* unless the client closed first: what is on its way when ltc closes its
\* own end is still delivered.
ClientHearsAll ==
    \A c \in Conn :
        down[c] = "done" /\ app[c] = "left" /\ client[c] # "closed" => heard[c] = said[c]


\* A client that only ends what it sends is not cut off: data is copied in
\* both directions.  Not so: copyAndClose closes the whole connection to the
\* app when the client has no more to send.
CopiesBothWays ==
    \A c \in Conn : client[c] = "half" /\ down[c] = "done" => app[c] = "left"
=============================================================================
