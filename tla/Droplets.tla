------------------------------ MODULE Droplets ------------------------------
(***************************************************************************)
(* The droplet store beside the tasks of Tasks: build-droplet uploads the  *)
(* application bits, its task on a cell fetches and deletes them, stages   *)
(* them and uploads the droplet; import-droplet, launch-droplet and        *)
(* remove-droplet run beside it.  The droplet of a build names its task.   *)
(*                                                                         *)
(* Cells and the store itself (DAV or S3) are not part of the repository.  *)
(***************************************************************************)
EXTENDS Tasks

CONSTANTS
    User,       \* invocations of import-, launch- and remove-droplet
    App,        \* process guids of launched apps
    StartsWith, \* pairs <<d, e>> of droplets: d is named e-something
    Absent,     \* no such blob, no such app
    Work        \* the command lines of the users

Droplet == Guid \ {Reserved}
Blob == {"bits", "droplet"} \X Droplet
Content == Proc \cup User       \* who uploaded what the blob was made from
WorkType == [op : {"import", "launch", "remove"}, droplet : Droplet, app : App]

ASSUME WorkAssumption == Work \subseteq WorkType /\ StartsWith \subseteq Droplet \X Droplet
ASSUME AbsentAssumption == Absent \notin Content \cup Droplet
\* An invocation runs one command.
ASSUME DistinctAssumption == Proc \cap User = {}

VARIABLES
    blob,       \* the droplet store
    stage,      \* how far the actions of each running build task are
    fetched,    \* the bits it works on
    app,        \* the droplet each desired app was launched from (its annotation)
    at, work,   \* where each user is and the command it runs
    todo,       \* the listed blobs remove-droplet has still to delete
    listed,     \* history: all it listed
    gone,       \* history: those whose deletion succeeded
    status      \* exit code of the user's process

store == <<blob, stage, fetched>>
user == <<at, work, todo, listed, gone, status>>
vars == <<taskVars, store, app, user>>

DropletsInit ==
    /\ Init
    /\ blob = [b \in Blob |-> Absent]
    /\ stage = [d \in Guid |-> "none"]
    /\ fetched = [d \in Guid |-> Absent]
    /\ app = [a \in App |-> Absent]
    /\ at = [u \in User |-> "start"]
    /\ work \in [User -> Work]
    /\ todo = [u \in User |-> {}]
    /\ listed = [u \in User |-> {}]
    /\ gone = [u \in User |-> {}]
    /\ status = [u \in User |-> "none"]

Bits(d) == <<"bits", d>>
DropletOf(d) == <<"droplet", d>>
Present(b) == blob[b] # Absent
Put(b, content) == blob' = [blob EXCEPT ![b] = content]
Forget(b) == blob' = [blob EXCEPT ![b] = Absent]

-----------------------------------------------------------------------------
\* UploadBits: a failed upload may have arrived.
UploadBits(p) ==
    /\ Upload(p)
    /\ \/ Put(Bits(cmd[p].guid), p)
       \/ pc'[p] = "exited" /\ UNCHANGED blob
    /\ UNCHANGED <<stage, fetched, app, user>>

\* The other steps of a command that works on tasks.
TaskStep(p) ==
    /\ \/ Start(p) \/ ListTasks(p) \/ UpsertDomain(p) \/ CreateTask(p)
       \/ WaitForBuild(p) \/ WaitTimeout(p) \/ StopOutputting(p) \/ TailEnds(p)
       \/ CancelFirst(p) \/ PollDelete(p) \/ PollTimeout(p) \/ DeleteTask(p)
       \/ Status(p) \/ CancelTask(p)
       \/ Interrupt(p)
    /\ UNCHANGED <<store, app, user>>

\* The serial action of BuildDroplet, one step per action that touches the
\* store; any of them may fail, and the task with it.
IsBuild(d) == Exists(task[d]) /\ cmd[task[d].by].op = "build"
Running(d, s) == IsBuild(d) /\ task[d].state = "RUNNING" /\ stage[d] = s
AtStage(d, s) == stage' = [stage EXCEPT ![d] = s]

PlaceBuild(d) ==
    /\ IsBuild(d) /\ Place(d)
    /\ AtStage(d, "fetch")
    /\ UNCHANGED <<domain, process, blob, fetched, app, user>>

DownloadAppBits(d) ==
    /\ Running(d, "fetch") /\ Present(Bits(d))
    /\ fetched' = [fetched EXCEPT ![d] = blob[Bits(d)]]
    /\ AtStage(d, "delete")
    /\ UNCHANGED <<taskVars, blob, app, user>>

\* Faulty variant: the action is left out of the build.
DeleteAppBitsSkipped(d) ==
    /\ Running(d, "delete")
    /\ AtStage(d, "stage")
    /\ UNCHANGED <<taskVars, blob, fetched, app, user>>

\* The bits go as soon as the cell has them.
DeleteAppBits(d) ==
    /\ Running(d, "delete")
    /\ Forget(Bits(d))
    /\ AtStage(d, "stage")
    /\ UNCHANGED <<taskVars, fetched, app, user>>

Builder(d) ==
    /\ Running(d, "stage")
    /\ AtStage(d, "put")
    /\ UNCHANGED <<taskVars, blob, fetched, app, user>>

UploadDroplet(d) ==
    /\ Running(d, "put")
    /\ Put(DropletOf(d), fetched[d])
    /\ Finish(d, FALSE)
    /\ UNCHANGED <<domain, process, stage, fetched, app, user>>

BuildFails(d) ==
    /\ IsBuild(d) /\ Finish(d, TRUE)
    /\ UNCHANGED <<domain, process, store, app, user>>

Cell(d) == \/ PlaceBuild(d) \/ DownloadAppBits(d) \/ DeleteAppBits(d)
           \/ Builder(d) \/ UploadDroplet(d) \/ BuildFails(d)

-----------------------------------------------------------------------------
Is(u, op, l) == at[u] = l /\ work[u].op = op
Go(u, l) == at' = [at EXCEPT ![u] = l] /\ UNCHANGED status
Leave(u, c) == at' = [at EXCEPT ![u] = "exited"] /\ status' = [status EXCEPT ![u] = c]

\* One upload under the droplet's name; one that fails may have arrived all the same.
ImportDroplet(u) ==
    /\ Is(u, "import", "start")
    /\ \/ Put(DropletOf(work[u].droplet), u) /\ \E c \in {"ok", "CommandFailed"} : Leave(u, c)
       \/ UNCHANGED blob /\ Leave(u, "CommandFailed")
    /\ UNCHANGED <<taskVars, stage, fetched, app, work, todo, listed, gone>>

\* LaunchDroplet is CreateApp with the droplet in the annotation; nobody looks
\* whether there is such a droplet.
LaunchChecks(u) ==
    /\ Is(u, "launch", "start")
    /\ \/ app[work[u].app] = Absent /\ Go(u, "create")
       \/ Leave(u, "CommandFailed")
    /\ UNCHANGED <<taskVars, store, app, work, todo, listed, gone>>

LaunchCreates(u) ==
    /\ Is(u, "launch", "create")
    /\ \/ /\ app[work[u].app] = Absent
          /\ app' = [app EXCEPT ![work[u].app] = work[u].droplet]
          /\ \E c \in {"ok", "CommandFailed"} : Leave(u, c)
       \/ UNCHANGED app /\ Leave(u, "CommandFailed")
    /\ UNCHANGED <<taskVars, store, work, todo, listed, gone>>

\* ltc remove takes an app away at any time.
RemoveApp(a) ==
    /\ app[a] # Absent
    /\ app' = [app EXCEPT ![a] = Absent]
    /\ UNCHANGED <<taskVars, store, user>>

\* RemoveDroplet: first the apps, then the blobs, then one delete after the other.
RemoveChecksApps(u) ==
    /\ Is(u, "remove", "start")
    /\ \/ (\A a \in App : app[a] # work[u].droplet) /\ Go(u, "list")
       \/ Leave(u, "CommandFailed")     \* in use, or the call failed
    /\ UNCHANGED <<taskVars, store, app, work, todo, listed, gone>>

\* Every blob whose path starts with the droplet's name and a dash.
Matches(d) == {b \in Blob : Present(b) /\ (b[2] = d \/ <<b[2], d>> \in StartsWith)}

\* One list of the store decides which blobs are deleted.
RemoveListsBlobs(u) ==
    /\ Is(u, "remove", "list")
    /\ \/ /\ Go(u, "delete")
          /\ todo' = [todo EXCEPT ![u] = Matches(work[u].droplet)]
          /\ listed' = [listed EXCEPT ![u] = Matches(work[u].droplet)]
       \/ Leave(u, "CommandFailed") /\ UNCHANGED <<todo, listed>>
    /\ UNCHANGED <<taskVars, store, app, work, gone>>

\* Faulty variant: a blob that cannot be deleted is passed over.
RemoveDeletesGoesOn(u) ==
    /\ Is(u, "remove", "delete") /\ Go(u, "delete")
    /\ \E b \in todo[u] :
        /\ todo' = [todo EXCEPT ![u] = @ \ {b}]
        /\ \/ Forget(b) /\ gone' = [gone EXCEPT ![u] = @ \cup {b}]
           \/ UNCHANGED <<blob, gone>>
    /\ UNCHANGED <<taskVars, stage, fetched, app, work, listed>>

\* Deleting a blob that is gone fails on DAV and succeeds on S3.
RemoveDeletes(u) ==
    /\ Is(u, "remove", "delete")
    /\ \E b \in todo[u] :
        \/ /\ Forget(b) /\ Go(u, "delete")
           /\ todo' = [todo EXCEPT ![u] = @ \ {b}]
           /\ gone' = [gone EXCEPT ![u] = @ \cup {b}]
        \/ /\ Forget(b) \/ UNCHANGED blob
           /\ Leave(u, "CommandFailed") /\ UNCHANGED <<todo, gone>>
    /\ UNCHANGED <<taskVars, stage, fetched, app, work, listed>>

RemoveIsDone(u) ==
    /\ Is(u, "remove", "delete") /\ todo[u] = {}
    /\ Leave(u, IF gone[u] = {} THEN "CommandFailed" ELSE "ok")
    /\ UNCHANGED <<taskVars, store, app, work, todo, listed, gone>>

UserStep(u) ==
    \/ ImportDroplet(u) \/ LaunchChecks(u) \/ LaunchCreates(u)
    \/ RemoveChecksApps(u) \/ RemoveListsBlobs(u) \/ RemoveDeletes(u) \/ RemoveIsDone(u)

DropletsNext ==
    \/ \E p \in Proc : UploadBits(p) \/ TaskStep(p)
    \/ \E d \in Droplet : Cell(d)
    \/ \E u \in User : UserStep(u)
    \/ \E a \in App : RemoveApp(a)

DropletsSpec == DropletsInit /\ [][DropletsNext]_vars

-----------------------------------------------------------------------------

\* A build that succeeded has not left its application bits in the store, even
\* when other builds of the same droplet upload and fetch beside it.
BuiltBitsAreGone ==
    \A d \in Droplet :
        IsBuild(d) /\ Completed(task[d]) /\ ~task[d].failed => blob[Bits(d)] # task[d].by

\* A remove that reports success deleted every blob it listed, and there was
\* one: nothing it failed on is passed over.
RemoveIsComplete ==
    \A u \in User : status[u] = "ok" /\ work[u].op = "remove" =>
        gone[u] = listed[u] /\ gone[u] # {}

\* "Removes a droplet from the droplet store": no blob of another droplet goes.
RemoveLeavesOtherDroplets ==
    \A u \in User : \A b \in gone[u] : b[2] = work[u].droplet

\* "app dripapp was launched from droplet": remove-droplet takes no droplet
\* away from under an app.
AppKeepsItsDroplet ==
    [][\A a \in App : \A u \in User :
           app[a] # Absent => DropletOf(app[a]) \notin gone'[u] \ gone[u]]_vars
=============================================================================
