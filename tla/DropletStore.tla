--------------------------- MODULE DropletStore ---------------------------
(***************************************************************************)
(* The droplet store as its users talk to it: build-droplet from the       *)
(* directory on disk to the builder on a cell, import-, export-, list- and *)
(* launch-droplet, request by request, over the DAV and the S3 store, with *)
(* the tools that do a cell's side of it.  Which apps use a droplet and    *)
(* remove-droplet are in Droplets; tasks and their polling in Tasks.       *)
(*                                                                         *)
(* The stores and the cells are not part of the repository.                *)
(***************************************************************************)
EXTENDS Archive

CONSTANTS
    Client,     \* invocations of ltc
    Droplet,
    Absent,     \* nothing there
    Kinds,      \* the stores there may be: "dav", "s3"
    Jobs,       \* what may be run at once, functions from clients to commands
    Page,       \* blobs in an answer to S3's ListObjects
    MaxTasks    \* builds desired of one droplet

Blob == {"bits", "droplet"} \X Droplet
Content == [by : Client, nodes : SUBSET Node, whole : BOOLEAN]
JobType == [op : {"build", "import", "export", "list", "launch"}, droplet : Droplet,
            source : Source \cup {Absent}, older : BOOLEAN]
\* older: export-droplet finds a longer file of its name.

ASSUME JobsAssumption ==
    \A j \in Jobs : DOMAIN j \subseteq Client /\ \A c \in DOMAIN j : j[c] \in JobType

VARIABLES
    kind,       \* the store the configuration names
    blob,       \* what it holds
    job, at,    \* each client's command and where it is
    temp,       \* copies of the application it has in the temporary directory
    archive,    \* the one it uploads
    code,       \* its exit code
    out,        \* the file export-droplet writes, with what is left of an older one
    shown,      \* the droplets list-droplets printed
    runs,       \* what the instances of the app launch-droplet desired run
    build,      \* the task that builds each droplet, and its container
    desired     \* how many there were

client == <<job, at, temp, archive, code, out, shown, runs>>
cell == <<build, desired>>
vars == <<kind, blob, client, cell>>

Bits(d) == <<"bits", d>>
DropletOf(d) == <<"droplet", d>>
Present(b) == blob[b] # Absent
NoBuild == [state |-> "none", steps |-> <<>>, zip |-> Absent, app |-> Absent, droplet |-> Absent]

Init ==
    /\ kind \in Kinds
    /\ blob = [b \in Blob |-> Absent]
    /\ job \in Jobs
    /\ at = [c \in DOMAIN job |-> IF job[c].op \in {"build", "list"} THEN "verify" ELSE "request"]
    /\ temp = [c \in DOMAIN job |-> {}]
    /\ archive = [c \in DOMAIN job |-> Absent]
    /\ code = [c \in DOMAIN job |-> "none"]
    /\ out = [c \in DOMAIN job |-> [head |-> Absent, rest |-> job[c].older]]
    /\ shown = [c \in DOMAIN job |-> Absent]
    /\ runs = [c \in DOMAIN job |-> {}]
    /\ build = [d \in Droplet |-> NoBuild]
    /\ desired = [d \in Droplet |-> 0]

-----------------------------------------------------------------------------
(* Requests.  An answer is a status and whether the request took effect; 0 *)
(* is no answer.                                                           *)

Success == 200..299

\* The store.
Answer(op, b) ==
    {<<0, FALSE>>, <<IF kind = "dav" THEN 401 ELSE 403, FALSE>>} \cup
    CASE op = "put"    -> {<<0, TRUE>>, <<200, TRUE>>} \cup IF kind = "dav" THEN {<<201, TRUE>>} ELSE {}
      [] op = "get"    -> {IF Present(b) THEN <<200, TRUE>> ELSE <<404, FALSE>>}
      [] op = "delete" -> IF Present(b) \/ kind = "s3" THEN {<<0, TRUE>>, <<204, TRUE>>}
                          ELSE {<<404, FALSE>>}
Serve(op, b, content, took) ==
    blob' = IF ~took \/ op = "get" THEN blob
            ELSE [blob EXCEPT ![b] = IF op = "put" THEN content ELSE Absent]
ListAnswer == {0, 401, 403} \cup {IF kind = "dav" THEN 207 ELSE 200}

\* Faulty variant: any answer is the blob.
DavUnchecked == [list |-> {207}, put |-> {200, 201}, get |-> 1..599, delete |-> {204}]
\* The statuses each takes for success.
Dav == [list |-> {207}, put |-> {200, 201}, get |-> {200}, delete |-> {204}]
S3 == [list |-> Success, put |-> Success, get |-> Success, delete |-> Success]
Store == IF kind = "dav" THEN Dav ELSE S3

DavVerified(status) == status = 207
S3Verified(status) == status \in Success
Verified(status) == IF kind = "dav" THEN DavVerified(status) ELSE S3Verified(status)

\* Faulty variant: davtool looks at the error of the request only.
DavToolUnchecked == [put |-> 1..599, delete |-> 1..599]
DavTool == [put |-> {200, 201}, delete |-> {204}]
S3Tool == [put |-> Success, get |-> Success, delete |-> Success]
Tool == IF kind = "dav" THEN DavTool ELSE S3Tool

-----------------------------------------------------------------------------
Is(c, op, l) == job[c].op = op /\ at[c] = l
Go(c, l) == at' = [at EXCEPT ![c] = l] /\ UNCHANGED code
Leave(c, k) == at' = [at EXCEPT ![c] = "exited"] /\ code' = [code EXCEPT ![c] = k]
\* os.Exit: the deferred removals do not run.
Exit(c, k) == Leave(c, k) /\ UNCHANGED temp
Return(c) == Leave(c, "ok") /\ temp' = [temp EXCEPT ![c] = {}]
AddTemp(c, names) == temp' = [temp EXCEPT ![c] = @ \cup names]

\* ensureBlobStoreVerified.
Verify(c) ==
    /\ at[c] = "verify"
    /\ \E status \in ListAnswer :
           IF Verified(status)
           THEN /\ Go(c, IF job[c].op = "list" THEN "request"
                         ELSE IF job[c].source.kind = "zip" THEN "unpack" ELSE "pack")
                /\ UNCHANGED temp
           ELSE Exit(c, "CommandFailed")
    /\ UNCHANGED <<kind, blob, job, archive, out, shown, runs, cell>>

\* A zip given as --path is unpacked, to be packed again without what is ignored.
Unpack(c) ==
    /\ at[c] = "unpack"
    /\ \/ Go(c, "pack") /\ AddTemp(c, {"rezip"})
       \/ Leave(c, "FileSystemError") /\ \E names \in {{}, {"rezip"}} : AddTemp(c, names)
    /\ UNCHANGED <<kind, blob, job, archive, out, shown, runs, cell>>

\* Zip.  The end of the archive is written by a deferred Close whose error is
\* dropped; a panic runs the deferred removal of the unpacked zip and no other.
Pack(c) ==
    /\ at[c] = "pack"
    /\ LET src == IF job[c].source.kind = "zip" THEN Unzip(job[c].source) ELSE job[c].source
       IN \/ /\ CanZip(src) /\ ~Panics(src)
             /\ \E whole \in BOOLEAN :
                    archive' = [archive EXCEPT ![c] =
                                   [by |-> c, nodes |-> Archived(src), whole |-> whole]]
             /\ Go(c, "request") /\ AddTemp(c, {"archive"})
          \/ /\ Leave(c, "FileSystemError")
             /\ \E names \in {{}, {"archive"}} : AddTemp(c, names)
             /\ UNCHANGED archive
          \/ /\ src.kind \in {"dir", "link"} /\ Panics(src)
             /\ Leave(c, "panic")
             /\ temp' = [temp EXCEPT ![c] = {"archive"}]
             /\ UNCHANGED archive
    /\ UNCHANGED <<kind, blob, job, out, shown, runs, cell>>

UploadBits(c) ==
    /\ Is(c, "build", "request")
    /\ \E a \in Answer("put", Bits(job[c].droplet)) :
           /\ Serve("put", Bits(job[c].droplet), archive[c], a[2])
           /\ IF a[1] \in Store.put THEN Go(c, "desire") /\ UNCHANGED temp
              ELSE Exit(c, "CommandFailed")
    /\ UNCHANGED <<kind, job, archive, out, shown, runs, cell>>

\* The serial action of the task, as the store's four actions complete it.
DownloadAppBits == IF kind = "dav" THEN <<"download">> ELSE <<"get", "mkdir", "unzip">>
DeleteAppBits == <<"delete">>
UploadDroplet == <<"put">>
BuildSteps == <<"helpers", "lifecycle">> \o DownloadAppBits \o DeleteAppBits
              \o <<"chmod", "builder">> \o UploadDroplet

\* BuildDroplet: no second task for a droplet; an error may hide a task.
BuildDroplet(c) ==
    LET d == job[c].droplet
    IN /\ at[c] = "desire"
       /\ \/ /\ build[d].state = "none" /\ desired[d] < MaxTasks
             /\ build' = [build EXCEPT ![d] = [NoBuild EXCEPT !.state = "running", !.steps = BuildSteps]]
             /\ desired' = [desired EXCEPT ![d] = @ + 1]
             /\ \/ Go(c, "wait") /\ UNCHANGED temp
                \/ Exit(c, "CommandFailed")
          \/ Exit(c, "CommandFailed") /\ UNCHANGED cell
       /\ UNCHANGED <<kind, blob, job, archive, out, shown, runs>>

\* Completed, timed out, or an error that reads as completed.
Wait(c) ==
    /\ at[c] = "wait"
    /\ \/ build[job[c].droplet].state = "failed" /\ Exit(c, "CommandFailed")
       \/ Return(c)
    /\ UNCHANGED <<kind, blob, job, archive, out, shown, runs, cell>>

ImportDroplet(c) ==
    /\ Is(c, "import", "request")
    /\ \E a \in Answer("put", DropletOf(job[c].droplet)) :
           /\ Serve("put", DropletOf(job[c].droplet), [by |-> c, nodes |-> {}, whole |-> TRUE], a[2])
           /\ IF a[1] \in Store.put THEN Return(c) ELSE Exit(c, "CommandFailed")
    /\ UNCHANGED <<kind, job, archive, out, shown, runs, cell>>

PartOf(body) == IF body = Absent THEN Absent ELSE [body EXCEPT !.whole = FALSE]
\* The file is opened without truncating it: what is longer in an older one stays.
ExportDroplet(c) ==
    /\ Is(c, "export", "request")
    /\ \E a \in Answer("get", DropletOf(job[c].droplet)) :
           IF a[1] \notin Store.get THEN Exit(c, "CommandFailed") /\ UNCHANGED out
           ELSE LET body == blob[DropletOf(job[c].droplet)]
                IN \/ Return(c) /\ out' = [out EXCEPT ![c].head = body]
                   \/ Exit(c, "CommandFailed")
                      /\ \E part \in {out[c].head, PartOf(body)} : out' = [out EXCEPT ![c].head = part]
    /\ UNCHANGED <<kind, blob, job, archive, shown, runs, cell>>

\* The droplet is not looked for: an app of one that is not there is desired too.
LaunchDroplet(c) ==
    /\ Is(c, "launch", "request")
    /\ \/ Go(c, "launched") /\ UNCHANGED temp
       \/ Exit(c, "CommandFailed")
    /\ UNCHANGED <<kind, blob, job, archive, out, shown, runs, cell>>

\* The droplets among some blobs.
DropletsAmong(blobs) == {b[2] : b \in {x \in blobs : x[1] = "droplet"}}
\* One request; S3 answers with its first page.
ListDroplets(c) ==
    LET all == {b \in Blob : Present(b)}
    IN /\ Is(c, "list", "request")
       /\ \E status \in ListAnswer :
              IF status \notin Store.list THEN Exit(c, "CommandFailed") /\ UNCHANGED shown
              ELSE /\ \E page \in IF kind = "dav" THEN {all}
                                  ELSE kSubset(Min({Page, Cardinality(all)}), all) :
                          shown' = [shown EXCEPT ![c] = DropletsAmong(page)]
                   /\ Return(c)
       /\ UNCHANGED <<kind, blob, job, archive, out, runs, cell>>

\* A signal: the exit functions know of no temporary file.
Interrupt(c) ==
    /\ at[c] \notin {"launched", "exited"}
    /\ Exit(c, "Signal")
    /\ UNCHANGED <<kind, blob, job, archive, out, shown, runs, cell>>

ClientStep(c) == \/ Verify(c) \/ Unpack(c) \/ Pack(c) \/ UploadBits(c) \/ BuildDroplet(c)
                 \/ Wait(c) \/ ImportDroplet(c) \/ ExportDroplet(c) \/ ListDroplets(c)
                 \/ LaunchDroplet(c) \/ Interrupt(c)

-----------------------------------------------------------------------------
(* A cell: the steps of the task one by one; the first that fails ends it. *)

NextStep(d, s) == build[d].state = "running" /\ Head(build[d].steps) = s
\* The step is done, the container has c in its f, and the last one completes the task.
Done(d, f, c) ==
    build' = [build EXCEPT ![d].steps = Tail(@), ![d][f] = c,
                           ![d].state = IF Len(build[d].steps) = 1 THEN "completed" ELSE @]
TaskFails(d) == build' = [build EXCEPT ![d].state = "failed"]
Plain(d) == Done(d, "zip", build[d].zip)

\* Steps of others, and any step when the cell gives up.
Other(d) ==
    /\ build[d].state = "running"
    /\ \/ Head(build[d].steps) \in {"helpers", "lifecycle", "mkdir", "chmod"} /\ Plain(d)
       \/ TaskFails(d)
    /\ UNCHANGED <<kind, blob, client, desired>>

\* A DownloadAction unpacks what it fetches; s3tool get only keeps it.
Fetch(d) ==
    /\ \/ NextStep(d, "download") /\ Present(Bits(d)) /\ blob[Bits(d)].whole
          /\ Done(d, "app", blob[Bits(d)])
       \/ NextStep(d, "get") /\ \E a \in Answer("get", Bits(d)) :
              IF a[1] \in Tool.get THEN Done(d, "zip", blob[Bits(d)]) ELSE TaskFails(d)
    /\ UNCHANGED <<kind, blob, client, desired>>

UnzipBits(d) ==
    /\ NextStep(d, "unzip") /\ build[d].zip.whole
    /\ Done(d, "app", build[d].zip)
    /\ UNCHANGED <<kind, blob, client, desired>>

DeleteBits(d) ==
    /\ NextStep(d, "delete")
    /\ \E a \in Answer("delete", Bits(d)) :
           /\ Serve("delete", Bits(d), Absent, a[2])
           /\ IF a[1] \in Tool.delete THEN Plain(d) ELSE TaskFails(d)
    /\ UNCHANGED <<kind, client, desired>>

Builder(d) ==
    /\ NextStep(d, "builder")
    /\ Done(d, "droplet", build[d].app)
    /\ UNCHANGED <<kind, blob, client, desired>>

PutDroplet(d) ==
    /\ NextStep(d, "put")
    /\ \E a \in Answer("put", DropletOf(d)) :
           /\ Serve("put", DropletOf(d), build[d].droplet, a[2])
           /\ IF a[1] \in Tool.put THEN Plain(d) ELSE TaskFails(d)
    /\ UNCHANGED <<kind, client, desired>>

\* The setup of an instance, whenever Diego starts one: DAV's droplet is downloaded,
\* S3's fetched by the tool and unpacked by tar.
DownloadDroplet(c) ==
    /\ at[c] = "launched"
    /\ LET b == DropletOf(job[c].droplet)
       IN \E a \in Answer("get", b) :
              /\ a[1] \in (IF kind = "dav" THEN {200} ELSE Tool.get) /\ blob[b].whole
              /\ runs' = [runs EXCEPT ![c] = @ \cup {blob[b]}]
    /\ UNCHANGED <<kind, blob, job, at, temp, archive, code, out, shown, cell>>

\* A task that is over is deleted or expires.
Expire(d) ==
    /\ build[d].state \in {"completed", "failed"}
    /\ build' = [build EXCEPT ![d] = NoBuild]
    /\ UNCHANGED <<kind, blob, client, desired>>

CellStep(d) == \/ Other(d) \/ Fetch(d) \/ UnzipBits(d) \/ DeleteBits(d) \/ Builder(d)
               \/ PutDroplet(d) \/ Expire(d)

Next == \/ \E c \in DOMAIN job : ClientStep(c) \/ DownloadDroplet(c)
        \/ \E d \in Droplet : CellStep(d)

Spec == Init /\ [][Next]_vars

-----------------------------------------------------------------------------
\* What the builder works on is one upload for this droplet, and of the source
\* it was made from every file that its author did not exclude and no other,
\* whatever the way over the zipper, the store and the container, and however
\* the uploads of two builds meet (the path of the bits is the droplet's alone).
BuilderSeesTheApp ==
    \A d \in Droplet : build[d].droplet # Absent =>
        LET seen == build[d].droplet
        IN /\ seen.whole
           /\ seen.by \in DOMAIN job /\ job[seen.by].op = "build" /\ job[seen.by].droplet = d
           /\ FilePaths(seen.nodes) = Promised(job[seen.by].source)

\* A build completes only when the store has done all it was asked: the droplet
\* is there as it was built, and the bits it was built from are not.  A tool that
\* takes a refusal or no answer for success would break it.
CompletedIsDone ==
    [][\A d \in Droplet :
           build[d].state = "running" /\ build'[d].state = "completed" =>
               blob'[DropletOf(d)] = build[d].droplet /\ blob'[Bits(d)] # build[d].app]_vars

\* What export-droplet that reports success has written, and what an instance of
\* a launched app runs, is a whole droplet that a build or an import of that name
\* put there, and nothing else.
IsDroplet(content, d) ==
    /\ content # Absent /\ content.whole
    /\ job[content.by].op \in {"build", "import"} /\ job[content.by].droplet = d
DropletsArrive ==
    \A c \in DOMAIN job :
        /\ job[c].op = "export" /\ code[c] = "ok" /\ ~job[c].older =>
               IsDroplet(out[c].head, job[c].droplet)
        /\ \A content \in runs[c] : IsDroplet(content, job[c].droplet)

\* The same with an older file in its place: the code does not truncate it.
ExportLeavesNothingOld ==
    \A c \in DOMAIN job : job[c].op = "export" /\ code[c] = "ok" => ~out[c].rest

\* list-droplets shows every droplet the store holds: S3 answers with a page of them.
ListsAll ==
    [][\A c \in DOMAIN job : shown'[c] # shown[c] =>
           shown'[c] = {d \in Droplet : Present(DropletOf(d))}]_vars

\* All instances of an app run one droplet: each fetches what has the name when it starts.
OneDropletRuns == \A c \in DOMAIN job : Cardinality(runs[c]) <= 1

\* No copy of the application stays in the temporary directory: Exit skips the
\* deferred removals.
NoCopyIsLeft == \A c \in DOMAIN job : at[c] = "exited" => temp[c] = {}
=============================================================================
