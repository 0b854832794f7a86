------------------------------- MODULE Tasks --------------------------------
(***************************************************************************)
(* Several invocations of ltc (submit-task, build-droplet, delete-task,    *)
(* cancel-task) against one receptor.  Every call is a step of its own.    *)
(* What build-droplet does to the droplet store is added in Droplets; here *)
(* it is one more way to create a task, and waits for it.                  *)
(*                                                                         *)
(* The receptor and Diego are not part of the repository: they are the     *)
(* variables task and domain, and RunTask.                                 *)
(***************************************************************************)
EXTENDS Integers

CONSTANTS
    Proc,           \* invocations of ltc, each running one command
    Guid,           \* task guids
    Reserved,       \* LatticeDebugLogStreamAppId
    CancelTimeout,  \* seconds DeleteTask waits for the task to complete (30)
    MaxPolls,       \* bound on a build's polling timeout, in seconds
    NoTask,         \* the answer for a guid no task has
    Command         \* the command lines under study

Task == [state : {"PENDING", "RUNNING", "COMPLETED"}, failed : BOOLEAN, by : Proc]
Op == {"submit", "build", "delete", "cancel"}
CommandType == [op : Op, guid : Guid, timeout : 0 .. MaxPolls]
Label == {"idle", "upload", "list", "domain", "create", "wait",
          "stopping", "cancel first", "poll", "delete", "status", "cancel", "exited"}
ExitCode == {"none", "ok", "FileSystemError", "InvalidSyntax", "CommandFailed",
             "Signal", "Panic"}
TailState == {"none", "reading", "returned"}
Words == {"nothing", "Build completed", "Build failed", "Timed out"}

ASSUME TimeAssumption == CancelTimeout \in Nat \ {0} /\ MaxPolls \in Nat
ASSUME GuidAssumption == Reserved \in Guid /\ NoTask \notin Task
\* The task of a build is called build-droplet-<droplet>.
ASSUME CommandAssumption ==
    /\ Command \subseteq CommandType
    /\ \A c \in Command : c.op = "build" => c.guid # Reserved

VARIABLES
    task,       \* the receptor's tasks
    domain,     \* whether the "lattice" domain has been upserted
    pc, cmd,    \* where each invocation is, and the command it runs
    left,       \* seconds left before its timeout
    said,       \* what build-droplet told its user at the end
    tail,       \* the goroutine that reads the logs of the build
    code,       \* exit code of the process
    took        \* history: which requests of p took effect

receptor == <<task, domain>>
process == <<pc, cmd, left, said, tail, code, took>>
taskVars == <<receptor, process>>

Init ==
    /\ task = [t \in Guid |-> NoTask]
    /\ domain = FALSE
    /\ pc = [p \in Proc |-> "idle"]
    /\ cmd \in [Proc -> Command]
    /\ left = [p \in Proc |-> 0]
    /\ said = [p \in Proc |-> "nothing"]
    /\ tail = [p \in Proc |-> "none"]
    /\ code = [p \in Proc |-> "none"]
    /\ took = [p \in Proc |-> {}]

-----------------------------------------------------------------------------
Mine(p) == task[cmd[p].guid]
Exists(t) == t # NoTask
Completed(t) == Exists(t) /\ t.state = "COMPLETED"
Unfinished(t) == Exists(t) /\ t.state # "COMPLETED"

Goto(p, l) == pc' = [pc EXCEPT ![p] = l] /\ UNCHANGED <<tail, code>>
\* The process ends, and its goroutines with it.
Exit(p, c) ==
    /\ pc' = [pc EXCEPT ![p] = "exited"] /\ code' = [code EXCEPT ![p] = c]
    /\ tail' = [tail EXCEPT ![p] = "none"]
Took(p, r) == took' = [took EXCEPT ![p] = @ \cup {r}]

\* The guid of the debug log stream is refused.
IsReserved(p) == cmd[p].guid = Reserved

\* The command line, the file it names and, for a build, the droplet store.
Start(p) ==
    /\ pc[p] = "idle"
    /\ LET c == cmd[p] IN
        \/ Exit(p, "InvalidSyntax")
        \/ c.op \in {"submit", "build"} /\ \E x \in {"FileSystemError", "CommandFailed"} : Exit(p, x)
        \/ c.op = "submit" /\ IsReserved(p) /\ Exit(p, "CommandFailed")
        \/ c.op = "submit" /\ ~IsReserved(p) /\ Goto(p, "list")
        \/ c.op = "build" /\ Goto(p, "upload")
        \/ c.op = "delete" /\ Goto(p, "cancel first")
        \/ c.op = "cancel" /\ Goto(p, "status")
    /\ UNCHANGED <<receptor, cmd, left, said, took>>

\* build-droplet uploads the application bits before it creates the task.
Upload(p) ==
    /\ pc[p] = "upload"
    /\ Goto(p, "list") \/ Exit(p, "CommandFailed")
    /\ UNCHANGED <<receptor, cmd, left, said, took>>

\* CreateTask and SubmitTask refuse a guid that is taken, upsert the domain
\* and only then ask for the task.
ListTasks(p) ==
    /\ pc[p] = "list"
    /\ \/ Exit(p, "CommandFailed")
       \/ ~Exists(Mine(p)) /\ Goto(p, "domain")
    /\ UNCHANGED <<receptor, cmd, left, said, took>>

UpsertDomain(p) ==
    /\ pc[p] = "domain"
    /\ \/ domain' = TRUE /\ (Goto(p, "create") \/ Exit(p, "CommandFailed"))
       \/ UNCHANGED domain /\ Exit(p, "CommandFailed")
    /\ UNCHANGED <<task, cmd, left, said, took>>

\* A submission is finished with the answer, a build tails its logs and waits.
Created(p) ==
    \/ cmd[p].op = "submit" /\ Exit(p, "ok") /\ UNCHANGED left
    \/ /\ cmd[p].op = "build"
       /\ pc' = [pc EXCEPT ![p] = "wait"] /\ tail' = [tail EXCEPT ![p] = "reading"] /\ UNCHANGED code
       /\ left' = [left EXCEPT ![p] = cmd[p].timeout]

\* The receptor refuses a guid that is taken; its answer may be lost.
CreateTask(p) ==
    /\ pc[p] = "create"
    /\ \/ /\ ~Exists(Mine(p))
          /\ task' = [task EXCEPT ![cmd[p].guid] = [state |-> "PENDING", failed |-> FALSE, by |-> p]]
          /\ Took(p, "create")
          /\ Created(p) \/ (Exit(p, "CommandFailed") /\ UNCHANGED left)
       \/ Exit(p, "CommandFailed") /\ UNCHANGED <<task, took, left>>
    /\ UNCHANGED <<domain, cmd, said>>

-----------------------------------------------------------------------------
Tell(p, words) == said' = [said EXCEPT ![p] = words]
TimePasses(p) == \E l \in 0 .. left[p] - 1 : left' = [left EXCEPT ![p] = l]

\* waitForBuildTask: an error of TaskStatus (and a task that is gone is one)
\* ends the polling like a task that is finished, with an empty TaskInfo.
WaitForBuild(p) ==
    /\ pc[p] = "wait" /\ left[p] > 0
    /\ \/ /\ Goto(p, "stopping") /\ Tell(p, "Build completed") /\ UNCHANGED left  \* or an error
       \/ /\ Completed(Mine(p)) /\ Mine(p).failed
          /\ Exit(p, "CommandFailed") /\ Tell(p, "Build failed") /\ UNCHANGED left
       \/ /\ Unfinished(Mine(p))
          /\ Goto(p, "wait") /\ TimePasses(p) /\ UNCHANGED said
    /\ UNCHANGED <<receptor, cmd, took>>

WaitTimeout(p) ==
    /\ pc[p] = "wait" /\ left[p] = 0
    /\ Goto(p, "stopping") /\ Tell(p, "Timed out")
    /\ UNCHANGED <<receptor, cmd, left, took>>

\* The deferred StopOutputting hands its stop to the reader, and waits for one
\* that receives; see LogTail.
StopOutputting(p) ==
    /\ pc[p] = "stopping" /\ tail[p] = "reading"
    /\ Exit(p, "ok")
    /\ UNCHANGED <<receptor, cmd, left, said, took>>

\* The consumer of the logs ends by itself: the reader returns, or takes the
\* process down with the nil error of a closed channel.
TailEnds(p) ==
    /\ tail[p] = "reading"
    /\ \/ tail' = [tail EXCEPT ![p] = "returned"] /\ UNCHANGED <<pc, code>>
       \/ Exit(p, "Panic")
    /\ UNCHANGED <<receptor, cmd, left, said, took>>

-----------------------------------------------------------------------------
\* What the receptor makes of a request to cancel a task.
Cancelled(t) == [t EXCEPT !.state = "COMPLETED", !.failed = TRUE]
Cancels(p) ==
    /\ Unfinished(Mine(p))
    /\ task' = [task EXCEPT ![cmd[p].guid] = Cancelled(@)]
    /\ Took(p, "cancel")

\* DeleteTask first cancels, and ignores whether that worked.
CancelFirst(p) ==
    /\ pc[p] = "cancel first"
    /\ Cancels(p) \/ UNCHANGED <<task, took>>
    /\ Goto(p, "poll")
    /\ left' = [left EXCEPT ![p] = CancelTimeout]
    /\ UNCHANGED <<domain, cmd, said>>

\* Faulty variant: the timeout is made inside the loop, like the ticks.
PollDeleteRestarts(p) ==
    /\ pc[p] = "poll" /\ left[p] > 0
    /\ \/ Completed(Mine(p)) /\ Goto(p, "delete")
       \/ Goto(p, "poll")
    /\ UNCHANGED <<receptor, cmd, left, said, took>>
\* One round of DeleteTask's loop, a second or more after the last.
PollDelete(p) ==
    /\ pc[p] = "poll" /\ left[p] > 0
    /\ \/ Completed(Mine(p)) /\ Goto(p, "delete")
       \/ Goto(p, "poll")       \* not completed, not there, or the call failed
    /\ TimePasses(p)
    /\ UNCHANGED <<receptor, cmd, said, took>>

\* With a second left both timers may be ready, and select takes either.
PollTimeout(p) ==
    /\ pc[p] = "poll" /\ left[p] <= 1
    /\ Exit(p, "CommandFailed")
    /\ UNCHANGED <<receptor, cmd, left, said, took>>

\* Faulty variant: the error of the request is dropped, like the cancel's.
DeleteTaskUnchecked(p) ==
    /\ pc[p] = "delete"
    /\ \/ /\ Completed(Mine(p))
          /\ task' = [task EXCEPT ![cmd[p].guid] = NoTask]
          /\ Took(p, "delete")
       \/ UNCHANGED <<task, took>>
    /\ Exit(p, "ok")
    /\ UNCHANGED <<domain, cmd, left, said>>
\* The receptor deletes the task if it is still completed.
DeleteTask(p) ==
    /\ pc[p] = "delete"
    /\ \/ /\ Completed(Mine(p))
          /\ task' = [task EXCEPT ![cmd[p].guid] = NoTask]
          /\ Took(p, "delete")
          /\ Exit(p, "ok") \/ Exit(p, "CommandFailed")
       \/ Exit(p, "CommandFailed") /\ UNCHANGED <<task, took>>
    /\ UNCHANGED <<domain, cmd, left, said>>

\* cancel-task asks for the state first.
Status(p) ==
    /\ pc[p] = "status"
    /\ \/ Exit(p, "CommandFailed")
       \/ Unfinished(Mine(p)) /\ Goto(p, "cancel")
    /\ UNCHANGED <<receptor, cmd, left, said, took>>

CancelTask(p) ==
    /\ pc[p] = "cancel"
    /\ \/ Cancels(p) /\ (Exit(p, "ok") \/ Exit(p, "CommandFailed"))
       \/ UNCHANGED <<task, took>> /\ Exit(p, "CommandFailed")
    /\ UNCHANGED <<domain, cmd, left, said>>

Interrupt(p) ==
    /\ pc[p] \notin {"idle", "exited"}
    /\ Exit(p, "Signal")
    /\ UNCHANGED <<receptor, cmd, left, said, took>>

-----------------------------------------------------------------------------
\* Diego: a task is placed or not, runs, and succeeds or fails.
Place(t) ==
    /\ Exists(task[t]) /\ task[t].state = "PENDING"
    /\ \/ task' = [task EXCEPT ![t].state = "RUNNING"]
       \/ task' = [task EXCEPT ![t] = Cancelled(@)]
Finish(t, failed) ==
    /\ Exists(task[t]) /\ task[t].state = "RUNNING"
    /\ task' = [task EXCEPT ![t].state = "COMPLETED", ![t].failed = failed]
RunTask(t) ==
    /\ Place(t) \/ \E f \in BOOLEAN : Finish(t, f)
    /\ UNCHANGED <<domain, process>>

Step(p) ==
    \/ Start(p) \/ Upload(p) \/ ListTasks(p) \/ UpsertDomain(p) \/ CreateTask(p)
    \/ WaitForBuild(p) \/ WaitTimeout(p) \/ StopOutputting(p)
    \/ CancelFirst(p) \/ PollDelete(p) \/ PollTimeout(p) \/ DeleteTask(p)
    \/ Status(p) \/ CancelTask(p)
Next == \/ \E p \in Proc : Step(p) \/ TailEnds(p) \/ Interrupt(p)
        \/ \E t \in Guid : RunTask(t)

Spec == Init /\ [][Next]_taskVars
\* A process that is not blocked is scheduled; nothing is asked of Diego, of
\* signals or of the consumer of logs.
FairSpec == Spec /\ \A p \in Proc : WF_taskVars(Step(p))

-----------------------------------------------------------------------------
TypeOK ==
    /\ task \in [Guid -> Task \cup {NoTask}]
    /\ domain \in BOOLEAN
    /\ pc \in [Proc -> Label]
    /\ cmd \in [Proc -> Command]
    /\ left \in [Proc -> Nat]
    /\ \A p \in Proc : left[p] <= IF cmd[p].op = "build" THEN cmd[p].timeout ELSE CancelTimeout
    /\ said \in [Proc -> Words]
    /\ tail \in [Proc -> TailState]
    /\ code \in [Proc -> ExitCode]
    /\ took \in [Proc -> SUBSET {"create", "cancel", "delete"}]

\* Exit code 0 means that the request the command is named for took effect,
\* a usage or file error that none did.  DeleteTask does not look whether its
\* cancel worked, so it has to see to the deletion itself.
Requested(op) == CASE op \in {"submit", "build"} -> "create"
                   [] op = "delete" -> "delete"
                   [] op = "cancel" -> "cancel"
TaskExitCodeAccounts ==
    \A p \in Proc :
        /\ code[p] = "ok" => Requested(cmd[p].op) \in took[p]
        /\ code[p] \in {"InvalidSyntax", "FileSystemError"} => took[p] = {}

\* The stop is sent to a reader that has returned: nobody ever receives it.
StopIsLost(p) == pc[p] = "stopping" /\ tail[p] = "returned"
\* Every command ends: DeleteTask's loop and the build's polling are bounded.
\* Only a build whose logs ended before it did hangs, and it alone.
EveryTaskCommandEnds == \A p \in Proc : <>(pc[p] = "exited" \/ StopIsLost(p))

\* build-droplet returns when it is done: nothing it defers keeps it.
EveryBuildReturns == \A p \in Proc : pc[p] = "stopping" ~> pc[p] = "exited"

\* "Build completed": the build's task is completed and has not failed.
BuildCompletedIsTrue ==
    [][\A p \in Proc : said'[p] = "Build completed" /\ said[p] = "nothing" =>
           Completed(Mine(p)) /\ ~Mine(p).failed]_taskVars
=============================================================================
