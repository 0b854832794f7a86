-------------------------------- MODULE Sync --------------------------------
(***************************************************************************)
(* ltc sync: invocations that download the target's ltc to a temporary     *)
(* file and put it in the place of the ltc they were started from.         *)
(* Any step may be the last one of its process.                            *)
(*                                                                         *)
(* A file system in which rename is atomic is assumed; the receptor that   *)
(* serves the binary is not part of the repository.                        *)
(***************************************************************************)
EXTENDS Integers

CONSTANTS
    Proc,       \* invocations of ltc sync
    Version,    \* binaries there are
    Old         \* the one that is installed

\* ioutil.TempFile makes files nobody may execute.
NoFile == [content |-> "part", mode |-> "rw"]

ASSUME OldAssumption == Old \in Version /\ "part" \notin Version

VARIABLES
    ltc,        \* the file at ltcPath
    server,     \* the binary the target serves
    temp,       \* the temporary file of each process
    body,       \* the binary its response carries
    mode,       \* the mode Stat returned
    pc, code

vars == <<ltc, server, temp, body, mode, pc, code>>

Init ==
    /\ ltc = [content |-> Old, mode |-> "rwx"]
    /\ server \in Version
    /\ temp = [p \in Proc |-> NoFile]
    /\ body = [p \in Proc |-> Old]
    /\ mode = [p \in Proc |-> "rw"]
    /\ pc = [p \in Proc |-> "start"]
    /\ code = [p \in Proc |-> "none"]

Goto(p, l) == pc' = [pc EXCEPT ![p] = l] /\ UNCHANGED code
Exit(p, c) == pc' = [pc EXCEPT ![p] = "exited"] /\ code' = [code EXCEPT ![p] = c]

-----------------------------------------------------------------------------
\* syncLTC's checks, and the request: no target, no connection, no status 200.
Get(p) ==
    /\ pc[p] = "start"
    /\ \/ body' = [body EXCEPT ![p] = server] /\ Goto(p, "temp")
       \/ Exit(p, "CommandFailed") /\ UNCHANGED body
    /\ UNCHANGED <<ltc, server, temp, mode>>

GetTempFile(p) ==
    /\ pc[p] = "temp"
    /\ Goto(p, "copy") \/ Exit(p, "CommandFailed")
    /\ UNCHANGED <<ltc, server, temp, body, mode>>

\* Faulty variant: an error in the middle of the body is taken for its end.
CopyUnchecked(p) ==
    /\ pc[p] = "copy"
    /\ \E c \in {body[p], "part"} : temp' = [temp EXCEPT ![p].content = c]
    /\ Goto(p, "stat")
    /\ UNCHANGED <<ltc, server, body, mode>>

\* io.Copy: the body may break off, and the temporary file stays.
Copy(p) ==
    /\ pc[p] = "copy"
    /\ \/ temp' = [temp EXCEPT ![p].content = body[p]] /\ Goto(p, "stat")
       \/ UNCHANGED temp /\ Exit(p, "CommandFailed")
    /\ UNCHANGED <<ltc, server, body, mode>>

\* SwapTempFile is three steps: the mode is read before the file is replaced,
\* and set after it.
Stat(p) ==
    /\ pc[p] = "stat"
    /\ \/ mode' = [mode EXCEPT ![p] = ltc.mode] /\ Goto(p, "rename")
       \/ UNCHANGED mode /\ Exit(p, "CommandFailed")
    /\ UNCHANGED <<ltc, server, temp, body>>

\* The temporary file may be on another device.
Rename(p) ==
    /\ pc[p] = "rename"
    /\ \/ ltc' = temp[p] /\ Goto(p, "chmod")
       \/ UNCHANGED ltc /\ Exit(p, "CommandFailed")
    /\ UNCHANGED <<server, temp, body, mode>>

\* Faulty variant: an error of Chmod is not looked at.
ChmodUnchecked(p) ==
    /\ pc[p] = "chmod"
    /\ ltc' \in {ltc, [ltc EXCEPT !.mode = mode[p]]} /\ Exit(p, "ok")
    /\ UNCHANGED <<server, temp, body, mode>>

\* The file at ltcPath gets the mode, whoever put it there.
Chmod(p) ==
    /\ pc[p] = "chmod"
    /\ \/ ltc' = [ltc EXCEPT !.mode = mode[p]] /\ Exit(p, "ok")
       \/ UNCHANGED ltc /\ Exit(p, "CommandFailed")
    /\ UNCHANGED <<server, temp, body, mode>>

Interrupt(p) ==
    /\ pc[p] # "exited"
    /\ Exit(p, "Signal")
    /\ UNCHANGED <<ltc, server, temp, body, mode>>

\* The target is upgraded.
Upgrade ==
    /\ server' \in Version
    /\ UNCHANGED <<ltc, temp, body, mode, pc, code>>

Step(p) == \/ Get(p) \/ GetTempFile(p) \/ Copy(p)
           \/ Stat(p) \/ Rename(p) \/ Chmod(p) \/ Interrupt(p)
Next == Upgrade \/ \E p \in Proc : Step(p)
Spec == Init /\ [][Next]_vars

-----------------------------------------------------------------------------

\* Whatever fails or is interrupted, and however many run, there is always one
\* whole ltc in place, the old one or one that a target served.
WholeLtc == ltc.content # "part"

\* A lone sync that reports success leaves an ltc that can be run, and one
\* that cannot be run is the fault of a sync that did not finish.
AloneKeepsMode ==
    \A p \in Proc : (\A q \in Proc \ {p} : pc[q] = "start") =>
        /\ code[p] = "ok" => ltc = [content |-> body[p], mode |-> "rwx"]
        /\ ltc.mode = "rw" => pc[p] = "chmod" \/ code[p] \in {"CommandFailed", "Signal"}

\* "preserves the permissions of the destination file": after a sync that
\* reports success, and with none in the middle of its work, ltc can be run.
SyncKeepsMode ==
    (\A p \in Proc : code[p] = "ok") => ltc.mode = "rwx"
=============================================================================
