------------------------- MODULE DropletStoreProofs -------------------------
(***************************************************************************)
(* Proofs about DropletStore, for any number of clients and droplets, any  *)
(* jobs that go on at once, and both stores: what completes has been done, *)
(* what is exported or run is a droplet of that name, and what the builder *)
(* works on is one archive, whole, of the files its author did not exclude.*)
(*                                                                         *)
(* The argument follows contents by their author: a client uploads its     *)
(* archive once, so once the bits a build was made from are deleted, what  *)
(* comes in their place is of somebody else.  What the zipper keeps of a   *)
(* tree is a second argument, by itself, about .cfignore.                  *)
(***************************************************************************)
EXTENDS DropletStore, SequenceTheorems, FiniteSetTheorems, TLAPS

StepNames == {"helpers", "lifecycle", "download", "get", "mkdir", "unzip", "delete",
              "chmod", "builder", "put"}

\* The clients that still have their upload to do.
Before == {"verify", "unpack", "pack", "request"}
\* What a client packs, and that it is what an archive holds.
Packed(c) == IF job[c].source.kind = "zip" THEN Unzip(job[c].source) ELSE job[c].source
IsPacked(content, c) == /\ content.by = c /\ content.nodes = Archived(Packed(c))
                        /\ CanZip(Packed(c)) /\ ~Panics(Packed(c))

\* The bits of a droplet: an archive that a build of that droplet has uploaded.
IsUpload(content, d) ==
    /\ content.by \in DOMAIN job /\ job[content.by].op = "build" /\ job[content.by].droplet = d
    /\ at[content.by] \notin Before
    /\ IsPacked(content, content.by)

Domains ==
    /\ job \in Jobs
    /\ DOMAIN at = DOMAIN job /\ DOMAIN archive = DOMAIN job /\ DOMAIN code = DOMAIN job
    /\ DOMAIN out = DOMAIN job /\ DOMAIN runs = DOMAIN job
    /\ DOMAIN blob = Blob /\ DOMAIN build = Droplet
    /\ \A d \in Droplet : DOMAIN build[d] = {"state", "steps", "zip", "app", "droplet"}
    /\ \A c \in DOMAIN job : DOMAIN out[c] = {"head", "rest"}

Where ==
    \A c \in DOMAIN job :
        /\ at[c] \in {"unpack", "pack", "desire", "wait"} => job[c].op = "build"
        /\ at[c] = "verify" => job[c].op \in {"build", "list"}
        /\ job[c].op = "build" /\ at[c] = "request" => IsPacked(archive[c], c)

Stored ==
    \A d \in Droplet :
        /\ Present(Bits(d)) => IsUpload(blob[Bits(d)], d)
        /\ Present(DropletOf(d)) => IsDroplet(blob[DropletOf(d)], d)

\* The steps that are left are the last of BuildSteps.
Left(steps) ==
    /\ steps \in Seq(StepNames) /\ Len(steps) \in 1 .. Len(BuildSteps)
    /\ \A i \in 1 .. Len(steps) : steps[i] = BuildSteps[Len(BuildSteps) - Len(steps) + i]

\* How far a task is says what its container has, and whose bits may be there.
Holds(b, bits, d) ==
    /\ b.zip # Absent => IsUpload(b.zip, d)
    /\ b.app # Absent => IsUpload(b.app, d) /\ b.app.whole
    /\ b.droplet # Absent => IsUpload(b.droplet, d) /\ b.droplet.whole
    /\ b.state = "running" =>
           /\ Left(b.steps)
           /\ kind # "dav" /\ Len(b.steps) <= 6 => b.zip # Absent
           /\ Len(b.steps) <= 4 => b.app # Absent
           /\ Len(b.steps) <= 3 /\ bits # Absent => bits.by # b.app.by
Building(d) == Holds(build[d], blob[Bits(d)], d)

Arrived ==
    \A c \in DOMAIN job :
        /\ code[c] = "ok" => at[c] = "exited"
        /\ job[c].op = "export" /\ code[c] = "ok" => IsDroplet(out[c].head, job[c].droplet)
        /\ \A content \in runs[c] : IsDroplet(content, job[c].droplet)

IInv == Domains /\ Where /\ Stored /\ (\A d \in Droplet : Building(d)) /\ Arrived

-----------------------------------------------------------------------------
\* What a task has to do, in both stores.
LEMMA StepTable ==
    /\ BuildSteps \in Seq(StepNames)
    /\ kind = "dav" =>
          /\ Len(BuildSteps) = 7
          /\ BuildSteps[1] = "helpers" /\ BuildSteps[2] = "lifecycle"
          /\ BuildSteps[3] = "download" /\ BuildSteps[4] = "delete"
          /\ BuildSteps[5] = "chmod" /\ BuildSteps[6] = "builder" /\ BuildSteps[7] = "put"
    /\ kind # "dav" =>
          /\ Len(BuildSteps) = 9
          /\ BuildSteps[1] = "helpers" /\ BuildSteps[2] = "lifecycle" /\ BuildSteps[3] = "get"
          /\ BuildSteps[4] = "mkdir" /\ BuildSteps[5] = "unzip" /\ BuildSteps[6] = "delete"
          /\ BuildSteps[7] = "chmod" /\ BuildSteps[8] = "builder" /\ BuildSteps[9] = "put"
  <1>1. CASE kind = "dav"
    <2>1. BuildSteps = <<"helpers", "lifecycle">> \o <<"download">> \o <<"delete">>
                       \o <<"chmod", "builder">> \o <<"put">>
      BY <1>1 DEF BuildSteps, DownloadAppBits, DeleteAppBits, UploadDroplet
    <2>2. BuildSteps \in Seq(StepNames)
      BY <2>1 DEF StepNames
    <2>. QED
      BY <1>1, <2>1, <2>2
  <1>2. CASE kind # "dav"
    <2>1. BuildSteps = <<"helpers", "lifecycle">> \o <<"get", "mkdir", "unzip">> \o <<"delete">>
                       \o <<"chmod", "builder">> \o <<"put">>
      BY <1>2 DEF BuildSteps, DownloadAppBits, DeleteAppBits, UploadDroplet
    <2>2. BuildSteps \in Seq(StepNames)
      BY <2>1 DEF StepNames
    <2>. QED
      BY <1>2, <2>1, <2>2
  <1>. QED
    BY <1>1, <1>2

\* A step is known by how many are left, it and those behind it.
Tells(s, n) == /\ s = "put" => n = 1
               /\ n = 1 => s = "put"
               /\ s = "builder" => n = 2
               /\ s = "chmod" => n = 3
               /\ s = "delete" => n = 4
               /\ n = 4 => s = "delete"
               /\ s = "download" => kind = "dav" /\ n = 5
               /\ s = "unzip" => kind # "dav" /\ n = 5
               /\ n = 5 => s \in {"download", "unzip"}
               /\ s = "get" => kind # "dav" /\ n = 7
               /\ kind # "dav" /\ n = 7 => s = "get"

LEMMA StepTells ==
    ASSUME NEW n \in Nat, n \in 1 .. Len(BuildSteps)
    PROVE  Tells(BuildSteps[Len(BuildSteps) - n + 1], n)
  <1>1. CASE kind = "dav"
    <2>1. /\ Len(BuildSteps) = 7
          /\ BuildSteps[1] = "helpers" /\ BuildSteps[2] = "lifecycle"
          /\ BuildSteps[3] = "download" /\ BuildSteps[4] = "delete"
          /\ BuildSteps[5] = "chmod" /\ BuildSteps[6] = "builder"
          /\ BuildSteps[7] = "put"
      BY <1>1, StepTable
    <2>2. n \in 1 .. 7
      BY <2>1
    <2>3. CASE n = 7
      <3>1. Len(BuildSteps) - n + 1 = 1
        BY <2>1, <2>3
      <3>. QED
        BY <1>1, <2>1, <2>3, <3>1 DEF Tells
    <2>4. CASE n = 6
      <3>1. Len(BuildSteps) - n + 1 = 2
        BY <2>1, <2>4
      <3>. QED
        BY <1>1, <2>1, <2>4, <3>1 DEF Tells
    <2>5. CASE n = 5
      <3>1. Len(BuildSteps) - n + 1 = 3
        BY <2>1, <2>5
      <3>. QED
        BY <1>1, <2>1, <2>5, <3>1 DEF Tells
    <2>6. CASE n = 4
      <3>1. Len(BuildSteps) - n + 1 = 4
        BY <2>1, <2>6
      <3>. QED
        BY <1>1, <2>1, <2>6, <3>1 DEF Tells
    <2>7. CASE n = 3
      <3>1. Len(BuildSteps) - n + 1 = 5
        BY <2>1, <2>7
      <3>. QED
        BY <1>1, <2>1, <2>7, <3>1 DEF Tells
    <2>8. CASE n = 2
      <3>1. Len(BuildSteps) - n + 1 = 6
        BY <2>1, <2>8
      <3>. QED
        BY <1>1, <2>1, <2>8, <3>1 DEF Tells
    <2>9. CASE n = 1
      <3>1. Len(BuildSteps) - n + 1 = 7
        BY <2>1, <2>9
      <3>. QED
        BY <1>1, <2>1, <2>9, <3>1 DEF Tells
    <2>. QED
      BY <2>2, <2>3, <2>4, <2>5, <2>6, <2>7, <2>8, <2>9
  <1>2. CASE kind # "dav"
    <2>1. /\ Len(BuildSteps) = 9
          /\ BuildSteps[1] = "helpers" /\ BuildSteps[2] = "lifecycle"
          /\ BuildSteps[3] = "get" /\ BuildSteps[4] = "mkdir"
          /\ BuildSteps[5] = "unzip" /\ BuildSteps[6] = "delete"
          /\ BuildSteps[7] = "chmod" /\ BuildSteps[8] = "builder"
          /\ BuildSteps[9] = "put"
      BY <1>2, StepTable
    <2>2. n \in 1 .. 9
      BY <2>1
    <2>3. CASE n = 9
      <3>1. Len(BuildSteps) - n + 1 = 1
        BY <2>1, <2>3
      <3>. QED
        BY <1>2, <2>1, <2>3, <3>1 DEF Tells
    <2>4. CASE n = 8
      <3>1. Len(BuildSteps) - n + 1 = 2
        BY <2>1, <2>4
      <3>. QED
        BY <1>2, <2>1, <2>4, <3>1 DEF Tells
    <2>5. CASE n = 7
      <3>1. Len(BuildSteps) - n + 1 = 3
        BY <2>1, <2>5
      <3>. QED
        BY <1>2, <2>1, <2>5, <3>1 DEF Tells
    <2>6. CASE n = 6
      <3>1. Len(BuildSteps) - n + 1 = 4
        BY <2>1, <2>6
      <3>. QED
        BY <1>2, <2>1, <2>6, <3>1 DEF Tells
    <2>7. CASE n = 5
      <3>1. Len(BuildSteps) - n + 1 = 5
        BY <2>1, <2>7
      <3>. QED
        BY <1>2, <2>1, <2>7, <3>1 DEF Tells
    <2>8. CASE n = 4
      <3>1. Len(BuildSteps) - n + 1 = 6
        BY <2>1, <2>8
      <3>. QED
        BY <1>2, <2>1, <2>8, <3>1 DEF Tells
    <2>9. CASE n = 3
      <3>1. Len(BuildSteps) - n + 1 = 7
        BY <2>1, <2>9
      <3>. QED
        BY <1>2, <2>1, <2>9, <3>1 DEF Tells
    <2>10. CASE n = 2
      <3>1. Len(BuildSteps) - n + 1 = 8
        BY <2>1, <2>10
      <3>. QED
        BY <1>2, <2>1, <2>10, <3>1 DEF Tells
    <2>11. CASE n = 1
      <3>1. Len(BuildSteps) - n + 1 = 9
        BY <2>1, <2>11
      <3>. QED
        BY <1>2, <2>1, <2>11, <3>1 DEF Tells
    <2>. QED
      BY <2>2, <2>3, <2>4, <2>5, <2>6, <2>7, <2>8, <2>9, <2>10, <2>11
  <1>. QED
    BY <1>1, <1>2

LEMMA HeadTells ==
    ASSUME NEW s, Left(s)
    PROVE  Len(s) \in Nat /\ Len(s) > 0 /\ Tells(Head(s), Len(s))
  <1>1. s \in Seq(StepNames) /\ Len(s) \in Nat /\ Len(s) \in 1 .. Len(BuildSteps)
    BY DEF Left
  <1>2. Head(s) = BuildSteps[Len(BuildSteps) - Len(s) + 1]
    <2>1. 1 \in 1 .. Len(s) /\ Len(BuildSteps) \in Nat
      BY <1>1, StepTable
    <2>2. s[1] = BuildSteps[Len(BuildSteps) - Len(s) + 1]
      BY <2>1 DEF Left
    <2>3. Head(s) = s[1]
      BY <1>1
    <2>. QED
      BY <2>2, <2>3
  <1>. QED
    BY <1>1, <1>2, StepTells

\* Taking the first of the steps that are left leaves the last of BuildSteps.
LEMMA TailLeft ==
    ASSUME NEW s, Left(s), Len(s) # 1
    PROVE  Left(Tail(s)) /\ Len(Tail(s)) = Len(s) - 1
  <1>0. Len(BuildSteps) \in Nat
    BY StepTable
  <1>1. s \in Seq(StepNames) /\ Len(s) \in 2 .. Len(BuildSteps) /\ Len(BuildSteps) \in Nat
    <2>1. s \in Seq(StepNames) /\ Len(s) \in Nat /\ Len(s) \in 1 .. Len(BuildSteps)
      BY DEF Left
    <2>. QED
      BY <1>0, <2>1
  <1>2. /\ Tail(s) \in Seq(StepNames) /\ Len(Tail(s)) = Len(s) - 1
        /\ \A i \in 1 .. Len(s) - 1 : Tail(s)[i] = s[i + 1]
    BY <1>1
  <1>3. \A i \in 1 .. Len(Tail(s)) :
            Tail(s)[i] = BuildSteps[Len(BuildSteps) - Len(Tail(s)) + i]
    <2> TAKE i \in 1 .. Len(Tail(s))
    <2>1. i + 1 \in 1 .. Len(s) /\ Tail(s)[i] = s[i + 1]
      BY <1>1, <1>2
    <2>2. s[i + 1] = BuildSteps[Len(BuildSteps) - Len(s) + (i + 1)]
      BY <2>1 DEF Left
    <2>3. Len(BuildSteps) - Len(s) + (i + 1) = Len(BuildSteps) - Len(Tail(s)) + i
      BY <1>1, <1>2
    <2>. QED
      BY <2>1, <2>2, <2>3
  <1>. QED
    BY <1>1, <1>2, <1>3 DEF Left

\* The statuses nothing was done with.
Refusals == {0, 401, 403, 404}

LEMMA Refused ==
    \A n \in Refusals :
        /\ n \notin Tool.put /\ n \notin Tool.delete /\ (kind # "dav" => n \notin Tool.get)
        /\ n \notin Store.put /\ n \notin Store.get /\ n # 200
  BY DEF Tool, Store, Dav, S3, DavTool, S3Tool, Success, Refusals

\* The answers of a store that did not do what it was asked.
Refusing == {<<0, FALSE>>, <<401, FALSE>>, <<403, FALSE>>, <<404, FALSE>>}

\* The answers, and missing answers, of one that did.
Doing == {<<0, TRUE>>, <<200, TRUE>>, <<201, TRUE>>, <<204, TRUE>>}

LEMMA Refusal == \A a \in Refusing : a[1] \in Refusals
  <1> SUFFICES ASSUME NEW a \in Refusing PROVE a[1] \in Refusals
    OBVIOUS
  <1>1. a = <<0, FALSE>> \/ a = <<401, FALSE>> \/ a = <<403, FALSE>> \/ a = <<404, FALSE>>
    BY DEF Refusing
  <1>2. CASE a = <<0, FALSE>>
    BY <1>2 DEF Refusals
  <1>3. CASE a = <<401, FALSE>>
    BY <1>3 DEF Refusals
  <1>4. CASE a = <<403, FALSE>>
    BY <1>4 DEF Refusals
  <1>5. CASE a = <<404, FALSE>>
    BY <1>5 DEF Refusals
  <1>. QED
    BY <1>1, <1>2, <1>3, <1>4, <1>5

LEMMA Effect == \A a \in Doing : a[2]
  <1> SUFFICES ASSUME NEW a \in Doing PROVE a[2]
    OBVIOUS
  <1>1. a = <<0, TRUE>> \/ a = <<200, TRUE>> \/ a = <<201, TRUE>> \/ a = <<204, TRUE>>
    BY DEF Doing
  <1>2. \A n : a = <<n, TRUE>> => a[2]
    OBVIOUS
  <1>. QED
    BY <1>1, <1>2

\* What a store answers is a refusal or says what it did.
LEMMA RefusesOrDoes ==
    ASSUME NEW b
    PROVE  /\ Answer("put", b) \subseteq Refusing \cup Doing
           /\ Answer("delete", b) \subseteq Refusing \cup Doing
           /\ ~Present(b) => Answer("get", b) \subseteq Refusing
  <1>1. PICK none : none = <<0, FALSE>>
    OBVIOUS
  <1>2. PICK denied : denied = <<IF kind = "dav" THEN 401 ELSE 403, FALSE>>
    OBVIOUS
  <1>3. PICK missing : missing = <<404, FALSE>>
    OBVIOUS
  <1>4. PICK lost : lost = <<0, TRUE>>
    OBVIOUS
  <1>5. PICK ok : ok = <<200, TRUE>>
    OBVIOUS
  <1>6. PICK created : created = <<201, TRUE>>
    OBVIOUS
  <1>7. PICK noContent : noContent = <<204, TRUE>>
    OBVIOUS
  <1>8. none \in Refusing /\ missing \in Refusing
    BY <1>1, <1>3 DEF Refusing
  <1>9. denied \in Refusing
    <2>1. CASE kind = "dav"
      <3>1. denied = <<401, FALSE>>
        BY <1>2, <2>1
      <3>. QED
        BY <3>1 DEF Refusing
    <2>2. CASE kind # "dav"
      <3>1. denied = <<403, FALSE>>
        BY <1>2, <2>2
      <3>. QED
        BY <3>1 DEF Refusing
    <2>. QED
      BY <2>1, <2>2
  <1>10. lost \in Doing /\ ok \in Doing /\ created \in Doing /\ noContent \in Doing
    BY <1>4, <1>5, <1>6, <1>7 DEF Doing
  <1>11. Answer("put", b) = {none, denied} \cup ({lost, ok} \cup IF kind = "dav" THEN {created} ELSE {})
    BY <1>1, <1>2, <1>4, <1>5, <1>6 DEF Answer
  <1>12. Answer("delete", b) = {none, denied} \cup
             IF Present(b) \/ kind = "s3" THEN {lost, noContent} ELSE {missing}
    BY <1>1, <1>2, <1>3, <1>4, <1>7 DEF Answer
  <1>13. ~Present(b) => Answer("get", b) = {none, denied} \cup {missing}
    BY <1>1, <1>2, <1>3 DEF Answer
  <1>14. /\ Answer("put", b) \subseteq Refusing \cup Doing
         /\ Answer("delete", b) \subseteq Refusing \cup Doing
    BY <1>8, <1>9, <1>10, <1>11, <1>12
  <1>. QED
    BY <1>8, <1>9, <1>13, <1>14

\* What a tool and a command take for success is what the store did.
LEMMA Believed ==
    /\ \A b : \A a \in Answer("put", b) : a[1] \in Tool.put \/ a[1] \in Store.put => a[2]
    /\ \A b : \A a \in Answer("delete", b) : a[1] \in Tool.delete => a[2]
    /\ \A b : \A a \in Answer("get", b) :
           a[1] \in Store.get \/ a[1] = 200 \/ (kind # "dav" /\ a[1] \in Tool.get) => Present(b)
  <1>1. ASSUME NEW b, NEW a \in Answer("put", b) PROVE a[1] \in Refusals \/ a[2]
    BY RefusesOrDoes, Refusal, Effect
  <1>2. ASSUME NEW b, NEW a \in Answer("delete", b) PROVE a[1] \in Refusals \/ a[2]
    BY RefusesOrDoes, Refusal, Effect
  <1>3. ASSUME NEW b, NEW a \in Answer("get", b) PROVE a[1] \in Refusals \/ Present(b)
    BY RefusesOrDoes, Refusal
  <1>. QED
    BY <1>1, <1>2, <1>3, Refused

LEMMA JobsAreTyped ==
    ASSUME job \in Jobs
    PROVE  \A c \in DOMAIN job : job[c].droplet \in Droplet
  BY JobsAssumption DEF JobType

LEMMA Paths ==
    \A d, e \in Droplet : /\ Bits(d) \in Blob /\ DropletOf(d) \in Blob
                          /\ Bits(d) # DropletOf(e)
                          /\ Bits(d) = Bits(e) => d = e
                          /\ DropletOf(d) = DropletOf(e) => d = e
  BY DEF Bits, DropletOf, Blob

-----------------------------------------------------------------------------
\* The step of a client: nobody else moves, it leaves Before for good, what it
\* has packed is its source, and it reports the success of an export that was one.
Moves(c) ==
    /\ job' = job /\ kind' = kind /\ runs' = runs
    /\ DOMAIN at' = DOMAIN job /\ DOMAIN archive' = DOMAIN job /\ DOMAIN code' = DOMAIN job
    /\ DOMAIN out' = DOMAIN job /\ DOMAIN out'[c] = {"head", "rest"}
    /\ \A x \in DOMAIN job \ {c} :
           at'[x] = at[x] /\ code'[x] = code[x] /\ archive'[x] = archive[x] /\ out'[x] = out[x]
    /\ at[c] # "exited"
    /\ at[c] \notin Before => at'[c] \notin Before
    /\ at'[c] \in {"unpack", "pack", "desire", "wait"} => job[c].op = "build"
    /\ at'[c] # "verify"
    /\ job[c].op = "build" /\ at'[c] = "request" => IsPacked(archive'[c], c)
    /\ code'[c] = "ok" =>
           /\ at'[c] = "exited"
           /\ job[c].op = "export" => IsDroplet(out'[c].head, job[c].droplet)

LEMMA VerifyMoves ==
    ASSUME IInv, NEW c \in DOMAIN job, Verify(c) PROVE Moves(c)
  BY DEF IInv, Domains, Where, Arrived, Verify, Go, Exit, Leave, Moves, Before

LEMMA UnpackMoves ==
    ASSUME IInv, NEW c \in DOMAIN job, Unpack(c) PROVE Moves(c)
  BY DEF IInv, Domains, Where, Arrived, Unpack, Go, Leave, Moves, Before

LEMMA PackMoves ==
    ASSUME IInv, NEW c \in DOMAIN job, Pack(c) PROVE Moves(c)
  BY DEF IInv, Domains, Where, Arrived, Pack, Go, Leave, Moves, Before, IsPacked, Packed

LEMMA UploadMoves ==
    ASSUME IInv, NEW c \in DOMAIN job, UploadBits(c) PROVE Moves(c)
  BY DEF IInv, Domains, Where, Arrived, UploadBits, Is, Go, Exit, Leave, Moves, Before

LEMMA BuildMoves ==
    ASSUME IInv, NEW c \in DOMAIN job, BuildDroplet(c) PROVE Moves(c)
  BY DEF IInv, Domains, Where, Arrived, BuildDroplet, Go, Exit, Leave, Moves, Before

LEMMA WaitMoves ==
    ASSUME IInv, NEW c \in DOMAIN job, Wait(c) PROVE Moves(c)
  BY DEF IInv, Domains, Where, Arrived, Wait, Return, Exit, Leave, Moves, Before

LEMMA ImportMoves ==
    ASSUME IInv, NEW c \in DOMAIN job, ImportDroplet(c) PROVE Moves(c)
  BY DEF IInv, Domains, Where, Arrived, ImportDroplet, Is, Return, Exit, Leave, Moves, Before

LEMMA ExportMoves ==
    ASSUME IInv, NEW c \in DOMAIN job, ExportDroplet(c) PROVE Moves(c)
  <1> DEFINE b == DropletOf(job[c].droplet)
  <1> USE DEF IInv, Domains, Where, Arrived, Is, Return, Exit, Leave, Moves, Before
  <1>1. PICK a \in Answer("get", b) :
            IF a[1] \notin Store.get THEN Exit(c, "CommandFailed") /\ UNCHANGED out
            ELSE \/ Return(c) /\ out' = [out EXCEPT ![c].head = blob[b]]
                 \/ Exit(c, "CommandFailed")
                    /\ \E part \in {out[c].head, PartOf(blob[b])} : out' = [out EXCEPT ![c].head = part]
    BY DEF ExportDroplet
  <1>2. /\ at[c] = "request" /\ job[c].op = "export"
        /\ UNCHANGED <<kind, blob, job, archive, shown, runs, cell>>
    BY DEF ExportDroplet
  <1>3. CASE Exit(c, "CommandFailed") /\ UNCHANGED out
    BY <1>2, <1>3
  <1>4. CASE Exit(c, "CommandFailed") /\ \E part : out' = [out EXCEPT ![c].head = part]
    BY <1>2, <1>4
  <1>5. CASE a[1] \in Store.get /\ Return(c) /\ out' = [out EXCEPT ![c].head = blob[b]]
    <2>1. IsDroplet(blob[b], job[c].droplet)
      BY <1>5, Believed, JobsAreTyped DEF Stored
    <2>2. out'[c].head = blob[b] /\ DOMAIN out' = DOMAIN job /\ DOMAIN out'[c] = {"head", "rest"}
      BY <1>5
    <2>. QED
      BY <1>2, <1>5, <2>1, <2>2
  <1>. QED
    BY <1>1, <1>3, <1>4, <1>5

LEMMA ListMoves ==
    ASSUME IInv, NEW c \in DOMAIN job, ListDroplets(c) PROVE Moves(c)
  BY DEF IInv, Domains, Where, Arrived, ListDroplets, Is, Return, Exit, Leave, Moves, Before

LEMMA LaunchMoves ==
    ASSUME IInv, NEW c \in DOMAIN job, LaunchDroplet(c) PROVE Moves(c)
  BY DEF IInv, Domains, Where, Arrived, LaunchDroplet, Is, Go, Exit, Leave, Moves, Before

LEMMA InterruptMoves ==
    ASSUME IInv, NEW c \in DOMAIN job, Interrupt(c) PROVE Moves(c)
  BY DEF IInv, Domains, Where, Arrived, Interrupt, Exit, Leave, Moves, Before

LEMMA ClientMoves ==
    ASSUME IInv, NEW c \in DOMAIN job, ClientStep(c) PROVE Moves(c)
  BY VerifyMoves, UnpackMoves, PackMoves, UploadMoves, BuildMoves, WaitMoves, ImportMoves,
     ExportMoves, ListMoves, LaunchMoves, InterruptMoves DEF ClientStep

\* What a client does to the store: its own upload, or a droplet of its name.
Stores(c) ==
    /\ DOMAIN blob' = Blob
    /\ \A d \in Droplet :
           \/ blob'[Bits(d)] = blob[Bits(d)]
           \/ /\ blob'[Bits(d)] = archive[c] /\ job[c].op = "build" /\ job[c].droplet = d
              /\ at[c] = "request" /\ at'[c] \notin Before
    /\ \A d \in Droplet :
           \/ blob'[DropletOf(d)] = blob[DropletOf(d)]
           \/ blob'[DropletOf(d)] # Absent => IsDroplet(blob'[DropletOf(d)], d)

\* And to the tasks: nothing, or it starts one where there was none.
Starts(c) ==
    \/ build' = build
    \/ \E d \in Droplet :
           /\ build' = [build EXCEPT ![d] = [NoBuild EXCEPT !.state = "running", !.steps = BuildSteps]]
           /\ blob' = blob

LEMMA UploadStores ==
    ASSUME IInv, NEW c \in DOMAIN job, UploadBits(c) PROVE Stores(c) /\ Starts(c)
  <1>1. PICK a \in Answer("put", Bits(job[c].droplet)) :
            Serve("put", Bits(job[c].droplet), archive[c], a[2])
    BY DEF UploadBits
  <1>2. \/ blob' = blob
        \/ blob' = [blob EXCEPT ![Bits(job[c].droplet)] = archive[c]]
    BY <1>1 DEF Serve
  <1>3. job[c].op = "build" /\ at[c] = "request" /\ at'[c] \notin Before
    BY DEF UploadBits, Is, Go, Exit, Leave, Before, IInv, Domains
  <1>4. build' = build
    BY DEF UploadBits, cell
  <1>. QED
    BY <1>2, <1>3, <1>4, Paths, JobsAreTyped DEF Stores, Starts, IInv, Domains

LEMMA ImportStores ==
    ASSUME IInv, NEW c \in DOMAIN job, ImportDroplet(c) PROVE Stores(c) /\ Starts(c)
  <1> DEFINE content == [by |-> c, nodes |-> {}, whole |-> TRUE]
  <1>1. PICK a \in Answer("put", DropletOf(job[c].droplet)) :
            Serve("put", DropletOf(job[c].droplet), content, a[2])
    BY DEF ImportDroplet
  <1>2. \/ blob' = blob
        \/ blob' = [blob EXCEPT ![DropletOf(job[c].droplet)] = content]
    BY <1>1 DEF Serve
  <1>3. content # Absent => IsDroplet(content, job[c].droplet)
    BY DEF ImportDroplet, Is, IsDroplet
  <1>4. build' = build
    BY DEF ImportDroplet, cell
  <1>. QED
    BY <1>2, <1>3, <1>4, Paths, JobsAreTyped DEF Stores, Starts, IInv, Domains

LEMMA ClientStores ==
    ASSUME IInv, NEW c \in DOMAIN job, ClientStep(c) PROVE Stores(c) /\ Starts(c)
  <1>1. CASE UploadBits(c)
    BY <1>1, UploadStores
  <1>2. CASE ImportDroplet(c)
    BY <1>2, ImportStores
  <1>3. CASE BuildDroplet(c)
    BY <1>3, JobsAreTyped DEF BuildDroplet, cell, Stores, Starts, IInv, Domains
  <1>4. CASE UNCHANGED <<blob, cell>>
    BY <1>4 DEF cell, Stores, Starts, IInv, Domains
  <1>. QED
    BY <1>1, <1>2, <1>3, <1>4
       DEF ClientStep, Verify, Unpack, Pack, Wait, ExportDroplet, ListDroplets, LaunchDroplet, Interrupt

-----------------------------------------------------------------------------
\* What was uploaded stays so, and what is a droplet one.
LEMMA UploadsStay ==
    ASSUME IInv, NEW c \in DOMAIN job, Moves(c)
    PROVE  \A x, d : (IsUpload(x, d) => IsUpload(x, d)') /\ (IsDroplet(x, d) => IsDroplet(x, d)')
  BY DEF Moves, IsUpload, IsPacked, Packed, IsDroplet

LEMMA ClientDomains ==
    ASSUME IInv, NEW c \in DOMAIN job, Moves(c), Stores(c), Starts(c)
    PROVE  Domains' /\ Where' /\ Arrived'
  <1>1. \A d \in Droplet : DOMAIN build'[d] = {"state", "steps", "zip", "app", "droplet"}
    BY DEF Starts, NoBuild, IInv, Domains
  <1>2. DOMAIN build' = Droplet
    BY DEF Starts, IInv, Domains
  <1>3. Domains'
    BY <1>1, <1>2 DEF Moves, Stores, IInv, Domains
  <1>4. Where'
    BY DEF Moves, IInv, Where, IsPacked, Packed
  <1>5. Arrived'
    BY UploadsStay DEF Moves, IInv, Arrived
  <1>. QED
    BY <1>3, <1>4, <1>5

LEMMA ClientStored ==
    ASSUME IInv, NEW c \in DOMAIN job, Moves(c), Stores(c) PROVE Stored'
  <1> SUFFICES ASSUME NEW d \in Droplet
               PROVE  /\ Present(Bits(d))' => IsUpload(blob[Bits(d)], d)'
                      /\ Present(DropletOf(d))' => IsDroplet(blob[DropletOf(d)], d)'
    BY DEF Stored
  <1>1. ASSUME NEW x, x = blob'[Bits(d)], x # Absent PROVE IsUpload(x, d)'
    <2>1. CASE x = blob[Bits(d)]
      BY <1>1, <2>1, UploadsStay DEF IInv, Stored, Present
    <2>2. CASE /\ x = archive[c] /\ job[c].op = "build" /\ job[c].droplet = d
               /\ at[c] = "request" /\ at'[c] \notin Before
      BY <2>2 DEF IInv, Where, IsPacked, IsUpload, Packed, Moves
    <2>. QED
      BY <1>1, <2>1, <2>2 DEF Stores
  <1>2. ASSUME NEW x, x = blob'[DropletOf(d)], x # Absent PROVE IsDroplet(x, d)'
    <2>1. IsDroplet(x, d)
      BY <1>2 DEF IInv, Stored, Present, Stores
    <2>. QED
      BY <2>1, UploadsStay
  <1>. QED
    BY <1>1, <1>2 DEF Present, Bits, DropletOf, IsUpload, IsDroplet, IsPacked, Packed

LEMMA ClientBuilding ==
    ASSUME IInv, NEW c \in DOMAIN job, Moves(c), Stores(c), Starts(c)
    PROVE  \A d \in Droplet : Building(d)'
  <1> SUFFICES ASSUME NEW d \in Droplet PROVE Building(d)'
    OBVIOUS
  <1>0. Building(d)
    BY DEF IInv
  <1>1. CASE build'[d] = build[d]
    <2> DEFINE b == build[d]
    <2>1. \A x : IsUpload(x, d) => IsUpload(x, d)'
      BY UploadsStay
    <2>2. ASSUME b.state = "running", Len(b.steps) <= 3, blob'[Bits(d)] # Absent
          PROVE  blob'[Bits(d)].by # b.app.by
      <3>1. Len(b.steps) <= 4
        BY <1>0, <2>2, HeadTells DEF Building, Holds
      <3>2. at[b.app.by] \notin Before
        BY <1>0, <2>2, <3>1 DEF Building, Holds, IsUpload
      <3>3. CASE blob'[Bits(d)] = blob[Bits(d)]
        BY <1>0, <2>2, <3>3 DEF Building, Holds, Present
      <3>4. CASE blob'[Bits(d)] = archive[c] /\ job[c].op = "build" /\ at[c] = "request"
        BY <3>2, <3>4 DEF IInv, Where, IsPacked, Before
      <3>. QED
        BY <3>3, <3>4 DEF Stores
    <2>3. b.state = "running" =>
              /\ Left(build[d].steps)'
              /\ kind' # "dav" /\ Len(b.steps) <= 6 => b.zip # Absent
              /\ Len(b.steps) <= 4 => b.app # Absent
      <3>1. BuildSteps' = BuildSteps /\ kind' = kind
        BY DEF Moves, BuildSteps, DownloadAppBits
      <3>2. b.state = "running" => Left(b.steps)
        BY <1>0 DEF Building, Holds
      <3>3. b.state = "running" => Left(build[d].steps)'
        BY <1>1, <3>1, <3>2 DEF Left
      <3>4. b.state = "running" => /\ kind # "dav" /\ Len(b.steps) <= 6 => b.zip # Absent
                                   /\ Len(b.steps) <= 4 => b.app # Absent
        BY <1>0 DEF Building, Holds
      <3>. QED
        BY <3>1, <3>3, <3>4
    <2>4. /\ build'[d].zip # Absent => IsUpload(build[d].zip, d)'
          /\ build'[d].app # Absent => IsUpload(build[d].app, d)' /\ build'[d].app.whole
          /\ build'[d].droplet # Absent => IsUpload(build[d].droplet, d)' /\ build'[d].droplet.whole
      BY <1>0, <1>1, <2>1 DEF Building, Holds
    <2>5. build'[d].state = "running" =>
              /\ Left(build[d].steps)'
              /\ kind' # "dav" /\ Len(build'[d].steps) <= 6 => build'[d].zip # Absent
              /\ Len(build'[d].steps) <= 4 => build'[d].app # Absent
      BY <1>1, <2>3
    <2>6. build'[d].state = "running" /\ Len(build'[d].steps) <= 3 /\ blob'[Bits(d)] # Absent =>
              blob'[Bits(d)].by # build'[d].app.by
      BY <1>1, <2>2
    <2>. QED
      BY <2>4, <2>5, <2>6 DEF Building, Holds, Bits
  <1>2. CASE build'[d] = [NoBuild EXCEPT !.state = "running", !.steps = BuildSteps]
    <2>1. /\ build'[d].zip = Absent /\ build'[d].app = Absent /\ build'[d].droplet = Absent
          /\ build'[d].steps = BuildSteps
      BY <1>2 DEF NoBuild
    <2>2. Left(BuildSteps) /\ Len(BuildSteps) \in Nat
          /\ Len(BuildSteps) > 4 /\ (kind # "dav" => Len(BuildSteps) > 6)
      <3>1. BuildSteps \in Seq(StepNames)
        BY StepTable
      <3>2. PICK n \in Nat : n = Len(BuildSteps) /\ n > 4 /\ (kind # "dav" => n > 6)
        BY StepTable
      <3>3. n \in 1 .. n /\ \A i \in 1 .. n : n - n + i = i
        BY <3>2
      <3>. QED
        BY <3>1, <3>2, <3>3 DEF Left
    <2>3. BuildSteps' = BuildSteps /\ kind' = kind
      BY DEF Moves, BuildSteps, DownloadAppBits
    <2>4. Left(BuildSteps)'
      BY <2>2, <2>3 DEF Left
    <2>. QED
      BY <2>1, <2>2, <2>3, <2>4 DEF Building, Holds
  <1>. QED
    BY <1>1, <1>2 DEF Starts, IInv, Domains

-----------------------------------------------------------------------------
\* A step of the task of d: no client moves, no other task, the bits of d may go,
\* its droplet may come, and the container holds what it should.
Works(d) ==
    /\ UNCHANGED <<kind, client>>
    /\ DOMAIN blob' = Blob /\ DOMAIN build' = Droplet
    /\ DOMAIN build'[d] = {"state", "steps", "zip", "app", "droplet"}
    /\ \A e \in Droplet \ {d} : build'[e] = build[e]
    /\ \A e \in Droplet :
           /\ blob'[Bits(e)] = blob[Bits(e)] \/ blob'[Bits(e)] = Absent
           /\ \/ blob'[DropletOf(e)] = blob[DropletOf(e)]
              \/ blob'[DropletOf(e)] # Absent => IsDroplet(blob'[DropletOf(e)], e)
    /\ Holds(build'[d], blob'[Bits(d)], d)

\* The container after a step that is done.
Does(d, zip, app, droplet) ==
    /\ DOMAIN build' = Droplet /\ \A e \in Droplet \ {d} : build'[e] = build[e]
    /\ DOMAIN build'[d] = {"state", "steps", "zip", "app", "droplet"}
    /\ build'[d].steps = Tail(build[d].steps)
    /\ build'[d].state = IF Len(build[d].steps) = 1 THEN "completed" ELSE build[d].state
    /\ build'[d].zip = zip /\ build'[d].app = app /\ build'[d].droplet = droplet

LEMMA DoneDoes ==
    ASSUME Domains, NEW d \in Droplet
    PROVE  \A c : /\ Done(d, "zip", c) => Does(d, c, build[d].app, build[d].droplet)
                  /\ Done(d, "app", c) => Does(d, build[d].zip, c, build[d].droplet)
                  /\ Done(d, "droplet", c) => Does(d, build[d].zip, build[d].app, c)
  <1>1. ASSUME NEW c, Done(d, "zip", c) PROVE Does(d, c, build[d].app, build[d].droplet)
    <2>1. DOMAIN build' = Droplet /\ \A e \in Droplet \ {d} : build'[e] = build[e]
      BY <1>1 DEF Domains, Done
    <2>2. DOMAIN build'[d] = {"state", "steps", "zip", "app", "droplet"}
      BY <1>1 DEF Domains, Done
    <2>3. /\ build'[d].steps = Tail(build[d].steps)
          /\ build'[d].zip = c /\ build'[d].app = build[d].app /\ build'[d].droplet = build[d].droplet
      BY <1>1 DEF Domains, Done
    <2>4. build'[d].state = IF Len(build[d].steps) = 1 THEN "completed" ELSE build[d].state
      BY <1>1 DEF Domains, Done
    <2>. QED
      BY <2>1, <2>2, <2>3, <2>4 DEF Does
  <1>2. ASSUME NEW c, Done(d, "app", c) PROVE Does(d, build[d].zip, c, build[d].droplet)
    <2>1. DOMAIN build' = Droplet /\ \A e \in Droplet \ {d} : build'[e] = build[e]
      BY <1>2 DEF Domains, Done
    <2>2. DOMAIN build'[d] = {"state", "steps", "zip", "app", "droplet"}
      BY <1>2 DEF Domains, Done
    <2>3. /\ build'[d].steps = Tail(build[d].steps)
          /\ build'[d].zip = build[d].zip /\ build'[d].app = c /\ build'[d].droplet = build[d].droplet
      BY <1>2 DEF Domains, Done
    <2>4. build'[d].state = IF Len(build[d].steps) = 1 THEN "completed" ELSE build[d].state
      BY <1>2 DEF Domains, Done
    <2>. QED
      BY <2>1, <2>2, <2>3, <2>4 DEF Does
  <1>3. ASSUME NEW c, Done(d, "droplet", c) PROVE Does(d, build[d].zip, build[d].app, c)
    <2>1. DOMAIN build' = Droplet /\ \A e \in Droplet \ {d} : build'[e] = build[e]
      BY <1>3 DEF Domains, Done
    <2>2. DOMAIN build'[d] = {"state", "steps", "zip", "app", "droplet"}
      BY <1>3 DEF Domains, Done
    <2>3. /\ build'[d].steps = Tail(build[d].steps)
          /\ build'[d].zip = build[d].zip /\ build'[d].app = build[d].app /\ build'[d].droplet = c
      BY <1>3 DEF Domains, Done
    <2>4. build'[d].state = IF Len(build[d].steps) = 1 THEN "completed" ELSE build[d].state
      BY <1>3 DEF Domains, Done
    <2>. QED
      BY <2>1, <2>2, <2>3, <2>4 DEF Does
  <1>. QED
    BY <1>1, <1>2, <1>3

\* One step further, seen from the steps at which the container changes.
Counts(d) ==
    /\ Left(build'[d].steps)
    /\ Len(build'[d].steps) <= 6 => Len(build[d].steps) <= 6 \/ Len(build[d].steps) = 7
    /\ Len(build'[d].steps) <= 4 => Len(build[d].steps) <= 4 \/ Len(build[d].steps) = 5
    /\ Len(build'[d].steps) <= 3 => Len(build[d].steps) <= 3 \/ Len(build[d].steps) = 4

\* What is left after it, if anything is.
LEMMA StepsAfter ==
    ASSUME NEW d \in Droplet, Building(d), build[d].state = "running",
           build'[d].steps = Tail(build[d].steps),
           build'[d].state = IF Len(build[d].steps) = 1 THEN "completed" ELSE build[d].state
    PROVE  /\ Tells(Head(build[d].steps), Len(build[d].steps))
           /\ build'[d].state = "running" => Counts(d)
           /\ Len(build[d].steps) = 1 => build'[d].state # "running"
  <1>1. /\ Left(build[d].steps) /\ Len(build[d].steps) \in Nat
        /\ Tells(Head(build[d].steps), Len(build[d].steps))
    BY HeadTells DEF Building, Holds
  <1>2. CASE Len(build[d].steps) = 1
    BY <1>1, <1>2
  <1>3. CASE Len(build[d].steps) # 1
    <2>1. Left(build'[d].steps) /\ Len(build'[d].steps) = Len(build[d].steps) - 1
      BY <1>1, <1>3, TailLeft
    <2>2. \A n \in Nat : /\ n - 1 <= 6 => n <= 6 \/ n = 7
                         /\ n - 1 <= 4 => n <= 4 \/ n = 5
                         /\ n - 1 <= 3 => n <= 3 \/ n = 4
      OBVIOUS
    <2>. QED
      BY <1>1, <1>3, <2>1, <2>2 DEF Counts
  <1>. QED
    BY <1>2, <1>3

LEMMA FailureWorks ==
    ASSUME IInv, NEW d \in Droplet, TaskFails(d), UNCHANGED <<kind, blob, client>> PROVE Works(d)
  BY DEF TaskFails, Works, Holds, Building, IInv, Domains, Stored, Present

LEMMA ExpireWorks ==
    ASSUME IInv, NEW d \in Droplet, Expire(d) PROVE Works(d)
  BY DEF Expire, NoBuild, Works, Holds, Building, IInv, Domains

LEMMA OtherWorks ==
    ASSUME IInv, NEW d \in Droplet, Other(d) PROVE Works(d)
  <1>1. CASE TaskFails(d)
    BY <1>1, FailureWorks DEF Other
  <1>2. CASE Head(build[d].steps) \in {"helpers", "lifecycle", "mkdir", "chmod"} /\ Plain(d)
    <2>1. Does(d, build[d].zip, build[d].app, build[d].droplet)
      BY <1>2, DoneDoes DEF Plain, IInv
    <2>2. build[d].state = "running" /\ Building(d) /\ UNCHANGED <<kind, blob, client>>
      BY DEF Other, IInv
    <2>3. build'[d].state = "running" =>
              /\ Counts(d)
              /\ Len(build[d].steps) \notin {4, 5} /\ ~(kind # "dav" /\ Len(build[d].steps) = 7)
      BY <1>2, <2>1, <2>2, StepsAfter DEF Does, Tells
    <2>4. Holds(build'[d], blob'[Bits(d)], d)
      BY <2>1, <2>2, <2>3 DEF Does, Building, Holds, Counts
    <2>. QED
      BY <2>1, <2>2, <2>4 DEF Does, Works, IInv, Domains
  <1>. QED
    BY <1>1, <1>2 DEF Other

LEMMA FetchWorks ==
    ASSUME IInv, NEW d \in Droplet, Fetch(d) PROVE Works(d)
  <1>0. build[d].state = "running" /\ Building(d) /\ UNCHANGED <<kind, blob, client>>
    BY DEF Fetch, NextStep, IInv
  <1>1. CASE TaskFails(d)
    BY <1>0, <1>1, FailureWorks
  <1>2. CASE /\ NextStep(d, "download") /\ Present(Bits(d)) /\ blob[Bits(d)].whole
             /\ Done(d, "app", blob[Bits(d)])
    <2>1. Does(d, build[d].zip, blob[Bits(d)], build[d].droplet)
      BY <1>2, DoneDoes DEF IInv
    <2>2. /\ Len(build[d].steps) = 5 /\ kind = "dav"
          /\ build'[d].state = "running" => Counts(d)
      BY <1>0, <1>2, <2>1, StepsAfter DEF Does, Tells, NextStep
    <2>3. Holds(build'[d], blob'[Bits(d)], d)
      BY <1>0, <1>2, <2>1, <2>2 DEF Does, Building, Holds, Counts, IInv, Stored, Present
    <2>. QED
      BY <1>0, <2>1, <2>3 DEF Does, Works, IInv, Domains
  <1>3. CASE /\ NextStep(d, "get")
             /\ \E a \in Answer("get", Bits(d)) : a[1] \in Tool.get /\ Done(d, "zip", blob[Bits(d)])
    <2>1. Does(d, blob[Bits(d)], build[d].app, build[d].droplet)
      BY <1>3, DoneDoes DEF IInv
    <2>2. /\ Len(build[d].steps) = 7 /\ kind # "dav"
          /\ build'[d].state = "running" => Counts(d)
      BY <1>0, <1>3, <2>1, StepsAfter DEF Does, Tells, NextStep
    <2>3. Present(Bits(d))
      BY <1>3, <2>2, Believed
    <2>4. Holds(build'[d], blob'[Bits(d)], d)
      BY <1>0, <2>1, <2>2, <2>3 DEF Does, Building, Holds, Counts, IInv, Stored, Present
    <2>. QED
      BY <1>0, <2>1, <2>4 DEF Does, Works, IInv, Domains
  <1>. QED
    BY <1>1, <1>2, <1>3 DEF Fetch

LEMMA UnzipWorks ==
    ASSUME IInv, NEW d \in Droplet, UnzipBits(d) PROVE Works(d)
  <1>1. build[d].state = "running" /\ Building(d) /\ UNCHANGED <<kind, blob, client>>
    BY DEF UnzipBits, NextStep, IInv
  <1>2. Does(d, build[d].zip, build[d].zip, build[d].droplet)
    BY DoneDoes DEF UnzipBits, IInv
  <1>3. /\ Len(build[d].steps) = 5 /\ kind # "dav"
        /\ build'[d].state = "running" => Counts(d)
    BY <1>1, <1>2, StepsAfter DEF Does, Tells, NextStep, UnzipBits
  <1>4. Holds(build'[d], blob'[Bits(d)], d)
    BY <1>1, <1>2, <1>3 DEF Does, Building, Holds, Counts, UnzipBits
  <1>. QED
    BY <1>1, <1>2, <1>4 DEF Does, Works, IInv, Domains

LEMMA BuilderWorks ==
    ASSUME IInv, NEW d \in Droplet, Builder(d) PROVE Works(d)
  <1>1. build[d].state = "running" /\ Building(d) /\ UNCHANGED <<kind, blob, client>>
    BY DEF Builder, NextStep, IInv
  <1>2. Does(d, build[d].zip, build[d].app, build[d].app)
    BY DoneDoes DEF Builder, IInv
  <1>3. /\ Len(build[d].steps) = 2
        /\ build'[d].state = "running" => Counts(d)
    BY <1>1, <1>2, StepsAfter DEF Does, Tells, NextStep, Builder
  <1>4. Holds(build'[d], blob'[Bits(d)], d)
    BY <1>1, <1>2, <1>3 DEF Does, Building, Holds, Counts
  <1>. QED
    BY <1>1, <1>2, <1>4 DEF Does, Works, IInv, Domains

LEMMA DeleteWorks ==
    ASSUME IInv, NEW d \in Droplet, DeleteBits(d) PROVE Works(d)
  <1>1. PICK a \in Answer("delete", Bits(d)) :
            /\ Serve("delete", Bits(d), Absent, a[2])
            /\ IF a[1] \in Tool.delete THEN Plain(d) ELSE TaskFails(d)
    BY DEF DeleteBits
  <1>2. build[d].state = "running" /\ Building(d) /\ UNCHANGED <<kind, client>>
    BY DEF DeleteBits, NextStep, IInv
  <1>3. blob' = blob \/ blob' = [blob EXCEPT ![Bits(d)] = Absent]
    BY <1>1 DEF Serve
  <1>4. /\ DOMAIN blob' = Blob
        /\ \A e \in Droplet : /\ blob'[Bits(e)] = blob[Bits(e)] \/ blob'[Bits(e)] = Absent
                              /\ blob'[DropletOf(e)] = blob[DropletOf(e)]
    BY <1>3, Paths DEF IInv, Domains
  <1>5. CASE TaskFails(d)
    <2>1. Holds(build'[d], blob'[Bits(d)], d)
      BY <1>5, <1>2 DEF TaskFails, Building, Holds, IInv, Domains
    <2>. QED
      BY <1>2, <1>4, <1>5, <2>1 DEF TaskFails, Works, IInv, Domains
  <1>6. CASE a[1] \in Tool.delete /\ Plain(d)
    <2>1. Does(d, build[d].zip, build[d].app, build[d].droplet)
      BY <1>6, DoneDoes DEF Plain, IInv
    <2>2. /\ Len(build[d].steps) = 4
          /\ build'[d].state = "running" => Counts(d)
      BY <1>2, <2>1, StepsAfter DEF Does, Tells, NextStep, DeleteBits
    <2>3. blob'[Bits(d)] = Absent
      BY <1>1, <1>6, Believed, Paths DEF Serve, IInv, Domains
    <2>4. Holds(build'[d], blob'[Bits(d)], d)
      BY <1>2, <2>1, <2>2, <2>3 DEF Does, Building, Holds, Counts
    <2>. QED
      BY <1>2, <1>4, <2>1, <2>4 DEF Does, Works, IInv, Domains
  <1>. QED
    BY <1>1, <1>5, <1>6

LEMMA PutWorks ==
    ASSUME IInv, NEW d \in Droplet, PutDroplet(d) PROVE Works(d)
  <1>1. PICK a \in Answer("put", DropletOf(d)) :
            /\ Serve("put", DropletOf(d), build[d].droplet, a[2])
            /\ IF a[1] \in Tool.put THEN Plain(d) ELSE TaskFails(d)
    BY DEF PutDroplet
  <1>2. build[d].state = "running" /\ Building(d) /\ UNCHANGED <<kind, client>>
    BY DEF PutDroplet, NextStep, IInv
  <1>3. blob' = blob \/ blob' = [blob EXCEPT ![DropletOf(d)] = build[d].droplet]
    BY <1>1 DEF Serve
  <1>4. build[d].droplet # Absent => IsDroplet(build[d].droplet, d)
    BY <1>2 DEF Building, Holds, IsUpload, IsDroplet
  <1>5. /\ DOMAIN blob' = Blob
        /\ \A e \in Droplet :
              /\ blob'[Bits(e)] = blob[Bits(e)]
              /\ \/ blob'[DropletOf(e)] = blob[DropletOf(e)]
                 \/ blob'[DropletOf(e)] # Absent => IsDroplet(blob'[DropletOf(e)], e)
    BY <1>3, <1>4, Paths DEF IInv, Domains
  <1>6. CASE TaskFails(d)
    <2>1. Holds(build'[d], blob'[Bits(d)], d)
      BY <1>6, <1>2 DEF TaskFails, Building, Holds, IInv, Domains
    <2>. QED
      BY <1>2, <1>5, <1>6, <2>1 DEF TaskFails, Works, IInv, Domains
  <1>7. CASE Plain(d)
    <2>1. Does(d, build[d].zip, build[d].app, build[d].droplet)
      BY <1>7, DoneDoes DEF Plain, IInv
    <2>2. build'[d].state # "running"
      BY <1>2, <2>1, StepsAfter DEF Does, Tells, NextStep, PutDroplet
    <2>3. Holds(build'[d], blob'[Bits(d)], d)
      BY <1>2, <2>1, <2>2 DEF Does, Building, Holds
    <2>. QED
      BY <1>2, <1>5, <2>1, <2>3 DEF Does, Works, IInv, Domains
  <1>. QED
    BY <1>1, <1>6, <1>7

LEMMA CellWorks ==
    ASSUME IInv, NEW d \in Droplet, CellStep(d) PROVE Works(d)
  BY OtherWorks, FetchWorks, UnzipWorks, DeleteWorks, BuilderWorks, PutWorks, ExpireWorks
     DEF CellStep

LEMMA CellKeeps ==
    ASSUME IInv, NEW d \in Droplet, Works(d) PROVE IInv'
  <1>1. UNCHANGED <<kind, job, at, archive, code, out, runs>> /\ BuildSteps' = BuildSteps
    BY DEF Works, client, BuildSteps, DownloadAppBits
  <1>2. \A x, e : IsUpload(x, e)' = IsUpload(x, e) /\ IsDroplet(x, e)' = IsDroplet(x, e)
    BY <1>1 DEF IsUpload, IsPacked, Packed, IsDroplet
  <1>3. Domains' /\ Where' /\ Arrived'
    BY <1>1, <1>2 DEF Works, IInv, Domains, Where, Arrived, IsPacked, Packed
  <1>4. Stored'
    <2> SUFFICES ASSUME NEW e \in Droplet
                 PROVE  /\ Present(Bits(e))' => IsUpload(blob[Bits(e)], e)'
                        /\ Present(DropletOf(e))' => IsDroplet(blob[DropletOf(e)], e)'
      BY DEF Stored
    <2>1. ASSUME NEW x, x = blob'[Bits(e)], x # Absent PROVE IsUpload(x, e)'
      BY <2>1, <1>2 DEF Works, IInv, Stored, Present
    <2>2. ASSUME NEW x, x = blob'[DropletOf(e)], x # Absent PROVE IsDroplet(x, e)'
      BY <2>2, <1>2 DEF Works, IInv, Stored, Present
    <2>. QED
      BY <2>1, <2>2 DEF Present, Bits, DropletOf, IsUpload, IsDroplet, IsPacked, Packed
  <1>5. ASSUME NEW e \in Droplet PROVE Building(e)'
    <2>1. Holds(build'[e], blob'[Bits(e)], e)
      <3>1. CASE e = d
        BY <3>1 DEF Works
      <3>2. CASE e # d
        BY <3>2 DEF Works, IInv, Building, Holds
      <3>. QED
        BY <3>1, <3>2
    <2>. QED
      BY <2>1, <1>1, <1>2 DEF Building, Holds, Left, Bits
  <1>. QED
    BY <1>3, <1>4, <1>5 DEF IInv

LEMMA RunKeeps ==
    ASSUME IInv, NEW c \in DOMAIN job, DownloadDroplet(c) PROVE IInv'
  <1> DEFINE b == DropletOf(job[c].droplet)
  <1>1. PICK a \in Answer("get", b) : /\ a[1] \in (IF kind = "dav" THEN {200} ELSE Tool.get)
                                      /\ runs' = [runs EXCEPT ![c] = @ \cup {blob[b]}]
    BY DEF DownloadDroplet
  <1>2. /\ UNCHANGED <<kind, blob, job, at, archive, code, out, build>>
        /\ BuildSteps' = BuildSteps
    BY DEF DownloadDroplet, cell, BuildSteps, DownloadAppBits
  <1>3. IsDroplet(blob[b], job[c].droplet)
    BY <1>1, Believed, JobsAreTyped DEF IInv, Domains, Stored
  <1>4. \A x, e : IsUpload(x, e)' = IsUpload(x, e) /\ IsDroplet(x, e)' = IsDroplet(x, e)
    BY <1>2 DEF IsUpload, IsPacked, Packed, IsDroplet
  <1>5. Domains' /\ Where'
    BY <1>1, <1>2 DEF IInv, Domains, Where, IsPacked, Packed
  <1>6. Arrived'
    BY <1>1, <1>2, <1>3, <1>4 DEF IInv, Domains, Arrived
  <1>7. Stored' /\ \A d \in Droplet : Building(d)'
    BY <1>2, <1>4 DEF IInv, Stored, Present, Building, Holds, Left
  <1>. QED
    BY <1>5, <1>6, <1>7 DEF IInv

LEMMA InitIInv == Init => IInv
  <1> SUFFICES ASSUME Init PROVE IInv
    OBVIOUS
  <1>1. Domains
    BY DEF Init, Domains, NoBuild
  <1>2. Where
    BY DEF Init, Where
  <1>3. Stored
    BY Paths DEF Init, Stored, Present
  <1>4. \A d \in Droplet : Building(d)
    BY DEF Init, Building, Holds, NoBuild
  <1>5. Arrived
    BY DEF Init, Arrived
  <1>. QED
    BY <1>1, <1>2, <1>3, <1>4, <1>5 DEF IInv

LEMMA StepIInv == IInv /\ [Next]_vars => IInv'
  <1> SUFFICES ASSUME IInv, [Next]_vars PROVE IInv'
    OBVIOUS
  <1>1. CASE \E c \in DOMAIN job : ClientStep(c)
    <2>1. PICK c \in DOMAIN job : ClientStep(c)
      BY <1>1
    <2>2. Moves(c) /\ Stores(c) /\ Starts(c)
      BY <2>1, ClientMoves, ClientStores
    <2>. QED
      BY <2>2, ClientDomains, ClientStored, ClientBuilding DEF IInv
  <1>2. CASE \E c \in DOMAIN job : DownloadDroplet(c)
    BY <1>2, RunKeeps
  <1>3. CASE \E d \in Droplet : CellStep(d)
    BY <1>3, CellWorks, CellKeeps
  <1>4. CASE UNCHANGED vars
    <2>1. UNCHANGED <<kind, blob, job, at, archive, code, out, runs, build>> /\ BuildSteps' = BuildSteps
      BY <1>4 DEF vars, client, cell, BuildSteps, DownloadAppBits
    <2>2. \A x, e : IsUpload(x, e)' = IsUpload(x, e) /\ IsDroplet(x, e)' = IsDroplet(x, e)
      BY <2>1 DEF IsUpload, IsPacked, Packed, IsDroplet
    <2>3. Domains' /\ Where' /\ Arrived'
      BY <2>1, <2>2 DEF IInv, Domains, Where, Arrived, IsPacked, Packed
    <2>4. Stored' /\ \A d \in Droplet : Building(d)'
      BY <2>1, <2>2 DEF IInv, Stored, Present, Building, Holds, Left
    <2>. QED
      BY <2>3, <2>4 DEF IInv
  <1>. QED
    BY <1>1, <1>2, <1>3, <1>4 DEF Next

-----------------------------------------------------------------------------
\* Between any two steps every upload, droplet, container and export is accounted
\* for by the client that packed, built or imported it.
THEOREM Invariance == Spec => []IInv
  BY InitIInv, StepIInv, PTL DEF Spec

\* What an export that reports success has written, and what an app runs, is a
\* whole droplet of that name: for any number of clients and either store.
THEOREM OnlyDropletsArrive == Spec => []DropletsArrive
  <1>1. IInv => DropletsArrive
    BY DEF IInv, Arrived, DropletsArrive
  <1>. QED
    BY <1>1, Invariance, PTL

\* A build that completes has left its droplet and not its bits.
THEOREM CompletionIsTrue == Spec => CompletedIsDone
  <1> DEFINE Then(d) == build[d].state = "running" /\ build'[d].state = "completed" =>
                            blob'[DropletOf(d)] = build[d].droplet /\ blob'[Bits(d)] # build[d].app
  <1>1. ASSUME IInv, NEW c \in DOMAIN job, ClientStep(c) \/ DownloadDroplet(c), NEW d \in Droplet
        PROVE  Then(d)
    <2>1. build' = build \/ Starts(c)
      BY <1>1, ClientStores DEF DownloadDroplet, cell
    <2>2. CASE build' = build
      BY <2>2
    <2>3. CASE \E e \in Droplet :
                   build' = [build EXCEPT ![e] = [NoBuild EXCEPT !.state = "running", !.steps = BuildSteps]]
      <3>1. build'[d] = build[d] \/ build'[d] = [NoBuild EXCEPT !.state = "running", !.steps = BuildSteps]
        BY <1>1, <2>3 DEF IInv, Domains
      <3>2. build'[d] = build[d] \/ build'[d].state = "running"
        BY <3>1 DEF NoBuild
      <3>. QED
        BY <3>2
    <2>. QED
      BY <2>1, <2>2, <2>3 DEF Starts
  <1>2. ASSUME IInv, NEW d \in Droplet, CellStep(d), NEW e \in Droplet \ {d} PROVE Then(e)
    BY <1>2, CellWorks DEF Works
  <1>3. ASSUME IInv, NEW d \in Droplet, CellStep(d),
               build[d].state = "running", build'[d].state = "completed"
        PROVE  blob'[DropletOf(d)] = build[d].droplet /\ blob'[Bits(d)] # build[d].app
    <2>1. Left(build[d].steps) /\ Building(d)
      BY <1>3 DEF IInv, Building, Holds
    <2>2. \A z, a, b : Does(d, z, a, b) => Len(build[d].steps) = 1
      BY <1>3 DEF Does
    <2>3. ~TaskFails(d)
      BY <1>3 DEF TaskFails, IInv, Domains
    <2>4. Head(build[d].steps) = "put" /\ Len(build[d].steps) = 1
      <3>1. Len(build[d].steps) = 1
        BY <1>3, <2>2, <2>3, DoneDoes
           DEF CellStep, Other, Fetch, UnzipBits, DeleteBits, Builder, PutDroplet, Expire, Plain, IInv
      <3>. QED
        BY <2>1, <3>1, HeadTells DEF Tells
    <2>5. PutDroplet(d)
      BY <1>3, <2>3, <2>4
         DEF CellStep, Other, Fetch, UnzipBits, DeleteBits, Builder, NextStep, Expire
    <2>6. PICK a \in Answer("put", DropletOf(d)) :
              Serve("put", DropletOf(d), build[d].droplet, a[2]) /\ a[1] \in Tool.put
      BY <2>3, <2>5 DEF PutDroplet
    <2>7. blob' = [blob EXCEPT ![DropletOf(d)] = build[d].droplet]
      BY <2>6, Believed DEF Serve
    <2>8. blob'[DropletOf(d)] = build[d].droplet /\ blob'[Bits(d)] = blob[Bits(d)]
      <3>1. /\ Bits(d) \in Blob /\ DropletOf(d) \in Blob /\ Bits(d) # DropletOf(d)
            /\ DOMAIN blob = Blob
        BY <1>3, Paths DEF IInv, Domains
      <3>. QED
        BY <2>7, <3>1
    <2>9. build[d].app # Absent /\ (Present(Bits(d)) => blob[Bits(d)].by # build[d].app.by)
      BY <1>3, <2>1, <2>4 DEF Building, Holds, Present
    <2>. QED
      BY <2>8, <2>9 DEF Present
  <1>4. IInv /\ [Next]_vars => [\A d \in Droplet : Then(d)]_vars
    BY <1>1, <1>2, <1>3 DEF Next
  <1>. QED
    BY <1>4, Invariance, PTL DEF Spec, CompletedIsDone

-----------------------------------------------------------------------------
(* What the zipper keeps.  Matches and the reference Fits both say that a  *)
(* glob Covers some components; covering a concatenation is covering its   *)
(* parts one after the other, so that the globs made of a line are covered *)
(* together where the line, as it is or without what a slash stands for,   *)
(* is.  FlattenSeq keeps the order of the lines, so that the last pattern  *)
(* that matches is of the last line that does.  Inductions are on numbers, *)
(* by the least that fails.                                                *)

LEMMA LeastNumber ==
    ASSUME NEW S \in SUBSET Nat, S # {}
    PROVE  \E m \in S : \A k \in S : m <= k
  <1> DEFINE Below == {0 .. k : k \in S}
  <1>1. Below \subseteq FiniteSubsetsOf(Nat) /\ Below # {}
    <2>1. \A k \in S : k \in Int /\ 0 \in Int /\ 0 .. k \in SUBSET Nat
      OBVIOUS
    <2>2. \A k \in S : IsFiniteSet(0 .. k)
      BY <2>1, FS_Interval
    <2>. QED
      BY <2>1, <2>2 DEF FiniteSubsetsOf
  <1>2. PICK B \in Below : \A C \in Below : ~ (<<C, B>> \in StrictSubsetOrdering(Nat))
    BY <1>1, FS_StrictSubsetOrderingWellFounded, WFMin
  <1>3. PICK m \in S : B = 0 .. m
    OBVIOUS
  <1>4. ASSUME NEW k \in S, k < m PROVE FALSE
    <2>1. 0 .. k \subseteq 0 .. m /\ 0 .. k # 0 .. m /\ 0 .. k \in SUBSET Nat /\ 0 .. m \in SUBSET Nat
      <3>1. m \in 0 .. m /\ m \notin 0 .. k
        BY <1>4
      <3>. QED
        BY <1>4, <3>1
    <2>2. <<0 .. k, 0 .. m>> \in StrictSubsetOrdering(Nat)
      BY <2>1 DEF StrictSubsetOrdering
    <2>. QED
      BY <1>2, <1>3, <2>2
  <1>. QED
    BY <1>4

\* A way to give each component of s from i to j one of a glob: all of them, in
\* their order, and several only to one that takes many.
CoversBy(f, glob, s, i, j) ==
    /\ f \in [i .. j -> DOMAIN glob]
    /\ \A x \in DOMAIN glob : \E k \in i .. j : f[k] = x
    /\ \A k, l \in i .. j : k < l => f[k] <= f[l]
    /\ \A k, l \in i .. j : k # l /\ f[k] = f[l] => glob[f[k]].many
    /\ \A k \in i .. j : glob[f[k]].many \/ s[k] \in glob[f[k]].names
Covers(glob, s, i, j) == \E f : CoversBy(f, glob, s, i, j)

\* Nothing of it stands for no component.
TakesEach(glob) == \A x \in DOMAIN glob : ~ glob[x].many

LEMMA FitsIsCovers ==
    ASSUME NEW glob, TakesEach(glob), NEW S, NEW s \in Seq(S)
    PROVE  Fits(glob, s) <=> Covers(glob, s, 1, Len(s))
  <1>1. DOMAIN s = 1 .. Len(s)
    OBVIOUS
  <1>2. \A f \in [1 .. Len(s) -> DOMAIN glob] :
            (\A x \in DOMAIN glob : glob[x].many \/ x \in Range(f))
            <=> \A x \in DOMAIN glob : \E k \in 1 .. Len(s) : f[k] = x
    BY DEF Range, TakesEach
  <1>. QED
    BY <1>1, <1>2 DEF Fits, Covers, CoversBy

\* The components, not where they are, decide.
LEMMA CoversShifted ==
    ASSUME NEW glob, NEW s, NEW t, NEW i \in Int, NEW j \in Int, NEW d \in Int,
           \A k \in i .. j : s[k + d] = t[k], Covers(glob, s, i + d, j + d)
    PROVE  Covers(glob, t, i, j)
  <1>1. PICK f : CoversBy(f, glob, s, i + d, j + d)
    BY DEF Covers
  <1> DEFINE h == [k \in i .. j |-> f[k + d]]
  <1>2. \A k \in i .. j : k + d \in (i + d) .. (j + d)
    OBVIOUS
  <1>3. \A k \in (i + d) .. (j + d) : k - d \in i .. j /\ (k - d) + d = k
    OBVIOUS
  <1>4. h \in [i .. j -> DOMAIN glob]
    BY <1>1, <1>2 DEF CoversBy
  <1>5. \A k \in i .. j : h[k] = f[k + d]
    OBVIOUS
  <1>6. \A x \in DOMAIN glob : \E k \in i .. j : h[k] = x
    <2> SUFFICES ASSUME NEW x \in DOMAIN glob PROVE \E k \in i .. j : h[k] = x
      OBVIOUS
    <2>1. PICK k \in (i + d) .. (j + d) : f[k] = x
      BY <1>1 DEF CoversBy
    <2>2. k - d \in i .. j /\ h[k - d] = f[(k - d) + d]
      BY <1>3, <1>5
    <2>. QED
      BY <1>3, <2>1, <2>2
  <1>7. \A k, l \in i .. j : k < l => h[k] <= h[l]
    <2>1. \A k, l \in i .. j : k < l => k + d < l + d
      OBVIOUS
    <2>. QED
      BY <1>1, <1>2, <1>5, <2>1 DEF CoversBy
  <1>8. \A k, l \in i .. j : k # l /\ h[k] = h[l] => glob[h[k]].many
    <2>1. \A k, l \in i .. j : k # l => k + d # l + d
      OBVIOUS
    <2>. QED
      BY <1>1, <1>2, <1>5, <2>1 DEF CoversBy
  <1>9. \A k \in i .. j : glob[h[k]].many \/ t[k] \in glob[h[k]].names
    BY <1>1, <1>2, <1>5 DEF CoversBy
  <1>. QED
    <2> HIDE DEF h
    <2>. QED
      BY <1>4, <1>6, <1>7, <1>8, <1>9 DEF Covers, CoversBy

LEMMA Concatenated ==
    ASSUME NEW T, NEW g \in Seq(T), NEW h \in Seq(T)
    PROVE  /\ Len(g) \in Nat /\ DOMAIN g = 1 .. Len(g) /\ Len(h) \in Nat /\ DOMAIN h = 1 .. Len(h)
           /\ g \o h \in Seq(T) /\ Len(g \o h) = Len(g) + Len(h)
           /\ DOMAIN (g \o h) = 1 .. Len(g) + Len(h)
           /\ \A x \in 1 .. Len(g) : (g \o h)[x] = g[x]
           /\ \A x \in 1 .. Len(h) : (g \o h)[Len(g) + x] = h[x]
  BY ConcatProperties, LenProperties

\* What a glob takes is what its beginning takes and what the rest takes.
LEMMA CoversBoth ==
    ASSUME NEW T, NEW g \in Seq(T), NEW h \in Seq(T), NEW s, NEW i \in Nat \ {0}, NEW j \in Nat, i - 1 <= j,
           Covers(g \o h, s, i, j)
    PROVE  \E k \in i - 1 .. j : Covers(g, s, i, k) /\ Covers(h, s, k + 1, j)
  <1>g. PICK G \in Nat : G = Len(g)
    BY Concatenated
  <1>h. PICK H \in Nat : H = Len(h)
    BY Concatenated
  <1>c. PICK gh : gh = g \o h
    OBVIOUS
  <1>1. /\ gh = g \o h /\ DOMAIN g = 1 .. G /\ DOMAIN h = 1 .. H /\ DOMAIN gh = 1 .. G + H
        /\ \A x \in 1 .. G : gh[x] = g[x]
        /\ \A x \in 1 .. H : gh[G + x] = h[x]
    BY <1>g, <1>h, <1>c, Concatenated
  <1>2. PICK f : CoversBy(f, gh, s, i, j)
    BY <1>1 DEF Covers
  <1>3. /\ f \in [i .. j -> 1 .. G + H]
        /\ \A x \in 1 .. G + H : \E k \in i .. j : f[k] = x
        /\ \A k, l \in i .. j : k < l => f[k] <= f[l]
        /\ \A k, l \in i .. j : k # l /\ f[k] = f[l] => gh[f[k]].many
        /\ \A k \in i .. j : gh[f[k]].many \/ s[k] \in gh[f[k]].names
    BY <1>1, <1>2 DEF CoversBy
  <1> DEFINE Ends == {k \in i - 1 .. j : \A l \in i .. j : k < l => G < f[l]}
  <1>4. PICK k \in Ends : \A l \in Ends : k <= l
    <2>1. j \in Ends /\ Ends \in SUBSET Nat
      OBVIOUS
    <2> HIDE DEF Ends
    <2>. QED
      BY <2>1, LeastNumber
  <1>5. k \in i - 1 .. j /\ \A l \in i .. j : k < l => G < f[l]
    BY <1>4
  <1>6. \A l \in i .. j : l <= k => f[l] <= G
    <2>1. CASE k = i - 1
      BY <2>1
    <2>2. CASE k # i - 1
      <3>1. k - 1 \in i - 1 .. j /\ k - 1 \notin Ends /\ k \in i .. j
        <4>1. k - 1 \in i - 1 .. j /\ ~ (k <= k - 1) /\ k \in i .. j
          BY <1>5, <2>2
        <4> HIDE DEF Ends
        <4>. QED
          BY <1>4, <4>1
      <3>2. PICK l \in i .. j : k - 1 < l /\ ~ (G < f[l])
        BY <3>1
      <3>3. l = k
        BY <1>5, <3>2
      <3>4. f[k] <= G
        BY <1>3, <3>1, <3>2, <3>3
      <3>5. \A m \in i .. j : m <= k => f[m] <= f[k]
        BY <1>3, <3>1
      <3>. QED
        BY <1>3, <3>1, <3>4, <3>5
    <2>. QED
      BY <2>1, <2>2
  <1> DEFINE fg == [l \in i .. k |-> f[l]]
             fh == [l \in k + 1 .. j |-> f[l] - G]
  <1>7. \A l \in i .. k : l \in i .. j /\ fg[l] = f[l] /\ f[l] \in 1 .. G
    <2> SUFFICES ASSUME NEW l \in i .. k PROVE l \in i .. j /\ fg[l] = f[l] /\ f[l] \in 1 .. G
      OBVIOUS
    <2>1. l \in i .. j /\ l <= k
      BY <1>5
    <2>2. f[l] \in 1 .. G + H /\ f[l] <= G
      BY <1>3, <1>6, <2>1
    <2>. QED
      BY <1>1, <2>1, <2>2
  <1>8. \A l \in k + 1 .. j :
            l \in i .. j /\ fh[l] = f[l] - G /\ f[l] = G + fh[l] /\ fh[l] \in 1 .. H
    <2> SUFFICES ASSUME NEW l \in k + 1 .. j
                 PROVE  l \in i .. j /\ fh[l] = f[l] - G /\ f[l] = G + fh[l] /\ fh[l] \in 1 .. H
      OBVIOUS
    <2>1. l \in i .. j /\ k < l
      BY <1>5
    <2>2. f[l] \in 1 .. G + H /\ G < f[l]
      BY <1>3, <1>5, <2>1
    <2>3. fh[l] = f[l] - G
      OBVIOUS
    <2> HIDE DEF fh
    <2>. QED
      BY <1>1, <2>1, <2>2, <2>3
  <1>9. CoversBy(fg, g, s, i, k)
    <2>1. fg \in [i .. k -> 1 .. G]
      BY <1>7
    <2>2. \A x \in 1 .. G : \E l \in i .. k : fg[l] = x
      <3> SUFFICES ASSUME NEW x \in 1 .. G PROVE \E l \in i .. k : fg[l] = x
        OBVIOUS
      <3>1. x \in 1 .. G + H
        OBVIOUS
      <3>2. PICK l \in i .. j : f[l] = x
        BY <1>3, <3>1
      <3>3. l \in i .. k
        BY <1>5, <3>2
      <3>. QED
        BY <1>7, <3>2, <3>3
    <2>3. \A l \in i .. k : gh[f[l]] = g[fg[l]]
      BY <1>1, <1>7
    <2> HIDE DEF fg
    <2>4. \A l, m \in i .. k : l < m => fg[l] <= fg[m]
      BY <1>3, <1>7
    <2>5. \A l, m \in i .. k : l # m /\ fg[l] = fg[m] => g[fg[l]].many
      <3> SUFFICES ASSUME NEW l \in i .. k, NEW m \in i .. k, l # m, fg[l] = fg[m]
                   PROVE  g[fg[l]].many
        OBVIOUS
      <3>1. l \in i .. j /\ m \in i .. j /\ f[l] = f[m]
        BY <1>7
      <3>2. gh[f[l]].many
        BY <1>3, <3>1
      <3>. QED
        BY <2>3, <3>2
    <2>6. \A l \in i .. k : g[fg[l]].many \/ s[l] \in g[fg[l]].names
      <3> SUFFICES ASSUME NEW l \in i .. k PROVE g[fg[l]].many \/ s[l] \in g[fg[l]].names
        OBVIOUS
      <3>1. l \in i .. j
        BY <1>7
      <3>2. gh[f[l]].many \/ s[l] \in gh[f[l]].names
        BY <1>3, <3>1
      <3>. QED
        BY <2>3, <3>2
    <2>. QED
      BY <1>1, <2>1, <2>2, <2>4, <2>5, <2>6 DEF CoversBy
  <1>10. CoversBy(fh, h, s, k + 1, j)
    <2>1. fh \in [k + 1 .. j -> 1 .. H]
      BY <1>8
    <2>2. \A x \in 1 .. H : \E l \in k + 1 .. j : fh[l] = x
      <3> SUFFICES ASSUME NEW x \in 1 .. H PROVE \E l \in k + 1 .. j : fh[l] = x
        OBVIOUS
      <3>1. G + x \in 1 .. G + H
        OBVIOUS
      <3>2. PICK l \in i .. j : f[l] = G + x
        BY <1>3, <3>1
      <3>3. l \in k + 1 .. j
        BY <1>5, <1>6, <3>2
      <3>4. fh[l] = x
        BY <1>8, <3>2, <3>3
      <3>. QED
        BY <3>3, <3>4
    <2>3. \A l \in k + 1 .. j : gh[f[l]] = h[fh[l]]
      BY <1>1, <1>8
    <2> HIDE DEF fh
    <2>4. \A l, m \in k + 1 .. j : l < m => fh[l] <= fh[m]
      <3> SUFFICES ASSUME NEW l \in k + 1 .. j, NEW m \in k + 1 .. j, l < m
                   PROVE  fh[l] <= fh[m]
        OBVIOUS
      <3>1. /\ l \in i .. j /\ f[l] = G + fh[l] /\ fh[l] \in 1 .. H
            /\ m \in i .. j /\ f[m] = G + fh[m] /\ fh[m] \in 1 .. H
        BY <1>8
      <3>2. f[l] <= f[m]
        BY <1>3, <3>1
      <3>. QED
        BY <3>1, <3>2
    <2>5. \A l, m \in k + 1 .. j : l # m /\ fh[l] = fh[m] => h[fh[l]].many
      <3> SUFFICES ASSUME NEW l \in k + 1 .. j, NEW m \in k + 1 .. j, l # m, fh[l] = fh[m]
                   PROVE  h[fh[l]].many
        OBVIOUS
      <3>1. l \in i .. j /\ m \in i .. j /\ f[l] = f[m]
        BY <1>8
      <3>2. gh[f[l]].many
        BY <1>3, <3>1
      <3>. QED
        BY <2>3, <3>2
    <2>6. \A l \in k + 1 .. j : h[fh[l]].many \/ s[l] \in h[fh[l]].names
      BY <1>3, <1>8, <2>3
    <2>. QED
      BY <1>1, <2>1, <2>2, <2>4, <2>5, <2>6 DEF CoversBy
  <1> HIDE DEF fg, fh
  <1>. QED
    BY <1>5, <1>9, <1>10 DEF Covers

LEMMA CoversJoined ==
    ASSUME NEW T, NEW g \in Seq(T), NEW h \in Seq(T), NEW s, NEW i \in Nat \ {0}, NEW j \in Nat,
           NEW k \in i - 1 .. j, Covers(g, s, i, k), Covers(h, s, k + 1, j)
    PROVE  Covers(g \o h, s, i, j)
  <1>g. PICK G \in Nat : G = Len(g)
    BY Concatenated
  <1>h. PICK H \in Nat : H = Len(h)
    BY Concatenated
  <1>c. PICK gh : gh = g \o h
    OBVIOUS
  <1>1. /\ gh = g \o h /\ DOMAIN g = 1 .. G /\ DOMAIN h = 1 .. H /\ DOMAIN gh = 1 .. G + H
        /\ \A x \in 1 .. G : gh[x] = g[x]
        /\ \A x \in 1 .. H : gh[G + x] = h[x]
    BY <1>g, <1>h, <1>c, Concatenated
  <1>2. PICK fg : CoversBy(fg, g, s, i, k)
    BY DEF Covers
  <1>3. PICK fh : CoversBy(fh, h, s, k + 1, j)
    BY DEF Covers
  <1> DEFINE f == [l \in i .. j |-> IF l <= k THEN fg[l] ELSE G + fh[l]]
  <1>4. \A l \in i .. k :
            l \in i .. j /\ f[l] = fg[l] /\ fg[l] \in 1 .. G /\ f[l] <= G /\ gh[f[l]] = g[fg[l]]
    <2> SUFFICES ASSUME NEW l \in i .. k
                 PROVE  /\ l \in i .. j /\ f[l] = fg[l] /\ fg[l] \in 1 .. G /\ f[l] <= G
                        /\ gh[f[l]] = g[fg[l]]
      OBVIOUS
    <2>1. fg[l] \in 1 .. G
      BY <1>1, <1>2 DEF CoversBy
    <2>2. l \in i .. j /\ f[l] = fg[l]
      OBVIOUS
    <2> HIDE DEF f
    <2>. QED
      BY <1>1, <2>1, <2>2
  <1>5. \A l \in k + 1 .. j :
            l \in i .. j /\ f[l] = G + fh[l] /\ fh[l] \in 1 .. H /\ G < f[l] /\ gh[f[l]] = h[fh[l]]
    <2> SUFFICES ASSUME NEW l \in k + 1 .. j
                 PROVE  /\ l \in i .. j /\ f[l] = G + fh[l] /\ fh[l] \in 1 .. H /\ G < f[l]
                        /\ gh[f[l]] = h[fh[l]]
      OBVIOUS
    <2>1. fh[l] \in 1 .. H
      BY <1>1, <1>3 DEF CoversBy
    <2>2. l \in i .. j /\ f[l] = G + fh[l]
      OBVIOUS
    <2>3. gh[G + fh[l]] = h[fh[l]]
      BY <1>1, <2>1
    <2> HIDE DEF f
    <2>4. G < G + fh[l]
      BY <2>1
    <2>. QED
      BY <2>1, <2>2, <2>3, <2>4
  <1>6. \A l \in i .. j : l \in i .. k \/ l \in k + 1 .. j
    OBVIOUS
  <1>7. f \in [i .. j -> 1 .. G + H]
    <2>1. \A l \in i .. j : f[l] \in 1 .. G + H
      <3> SUFFICES ASSUME NEW l \in i .. j PROVE f[l] \in 1 .. G + H
        OBVIOUS
      <3> HIDE DEF f
      <3>1. CASE l \in i .. k
        BY <1>4, <3>1
      <3>2. CASE l \in k + 1 .. j
        <4>1. PICK y \in 1 .. H : f[l] = G + y
          BY <1>5, <3>2
        <4>. QED
          BY <4>1
      <3>. QED
        BY <1>6, <3>1, <3>2
    <2>. QED
      BY <2>1
  <1> HIDE DEF f
  <1>8. \A x \in 1 .. G + H : \E l \in i .. j : f[l] = x
    <2> SUFFICES ASSUME NEW x \in 1 .. G + H PROVE \E l \in i .. j : f[l] = x
      OBVIOUS
    <2>1. CASE x <= G
      <3>0. x \in DOMAIN g
        BY <1>1, <2>1
      <3>1. PICK l \in i .. k : fg[l] = x
        BY <1>2, <3>0 DEF CoversBy
      <3>. QED
        BY <1>4, <3>1
    <2>2. CASE G < x
      <3>1. x - G \in 1 .. H /\ x - G \in DOMAIN h
        BY <1>1, <2>2
      <3>2. PICK l \in k + 1 .. j : fh[l] = x - G
        BY <1>3, <3>1 DEF CoversBy
      <3>3. l \in i .. j /\ f[l] = G + (x - G)
        BY <1>5, <3>2
      <3>. QED
        BY <1>1, <3>3
    <2>. QED
      BY <2>1, <2>2
  <1>9. \A l, m \in i .. j : l < m => f[l] <= f[m]
    <2> SUFFICES ASSUME NEW l \in i .. j, NEW m \in i .. j, l < m PROVE f[l] <= f[m]
      OBVIOUS
    <2>1. CASE m \in i .. k
      <3>1. l \in i .. k
        BY <2>1
      <3>. QED
        BY <1>2, <1>4, <2>1, <3>1 DEF CoversBy
    <2>2. CASE l \in k + 1 .. j
      <3>1. m \in k + 1 .. j
        BY <2>2
      <3>2. fh[l] <= fh[m]
        BY <1>3, <2>2, <3>1 DEF CoversBy
      <3>. QED
        <4>1. /\ f[l] = G + fh[l] /\ fh[l] \in 1 .. H
              /\ f[m] = G + fh[m] /\ fh[m] \in 1 .. H
          BY <1>5, <2>2, <3>1
        <4>. QED
          BY <3>2, <4>1
    <2>3. CASE l \in i .. k /\ m \in k + 1 .. j
      <3>1. PICK a \in 1 .. G : f[l] = a
        BY <1>4, <2>3
      <3>2. PICK b \in 1 .. H : f[m] = G + b
        BY <1>5, <2>3
      <3>. QED
        BY <3>1, <3>2
    <2>. QED
      BY <1>6, <2>1, <2>2, <2>3
  <1>10. \A l, m \in i .. j : l # m /\ f[l] = f[m] => gh[f[l]].many
    <2> SUFFICES ASSUME NEW l \in i .. j, NEW m \in i .. j, l # m, f[l] = f[m] PROVE gh[f[l]].many
      OBVIOUS
    <2>1. PICK v : v = f[l] /\ v = f[m]
      OBVIOUS
    <2>2. \A z \in {l, m} : z \in i .. k => fg[z] = v /\ v \in 1 .. G /\ gh[v] = g[fg[z]]
      BY <1>4, <2>1
    <2>3. \A z \in {l, m} : z \in k + 1 .. j => v = G + fh[z] /\ fh[z] \in 1 .. H /\ gh[v] = h[fh[z]]
      BY <1>5, <2>1
    <2>4. CASE l \in i .. k
      <3>1. m \in i .. k
        <4>1. \A b \in 1 .. H : G + b \notin 1 .. G
          OBVIOUS
        <4>2. m \notin k + 1 .. j
          BY <2>2, <2>3, <2>4, <4>1
        <4>. QED
          BY <1>6, <4>2
      <3>2. fg[l] = v /\ fg[m] = v /\ gh[v] = g[v]
        BY <2>2, <2>4, <3>1
      <3>3. \A x, y \in i .. k : x # y /\ fg[x] = fg[y] => g[fg[x]].many
        BY <1>2 DEF CoversBy
      <3>4. l # m
        OBVIOUS
      <3>. QED
        BY <2>1, <2>4, <3>1, <3>2, <3>3, <3>4
    <2>5. CASE l \in k + 1 .. j
      <3>1. m \in k + 1 .. j
        <4>1. \A b \in 1 .. H : G + b \notin 1 .. G
          OBVIOUS
        <4>2. m \notin i .. k
          BY <2>2, <2>3, <2>5, <4>1
        <4>. QED
          BY <1>6, <4>2
      <3>2. fh[l] = fh[m] /\ gh[v] = h[fh[l]]
        <4>1. \A a, b \in 1 .. H : G + a = G + b => a = b
          OBVIOUS
        <4>. QED
          BY <2>3, <2>5, <3>1, <4>1
      <3>3. \A x, y \in k + 1 .. j : x # y /\ fh[x] = fh[y] => h[fh[x]].many
        BY <1>3 DEF CoversBy
      <3>4. l # m
        OBVIOUS
      <3>. QED
        BY <2>1, <2>5, <3>1, <3>2, <3>3, <3>4
    <2>. QED
      BY <1>6, <2>4, <2>5
  <1>11. \A l \in i .. j : gh[f[l]].many \/ s[l] \in gh[f[l]].names
    <2>1. \A l \in i .. k : g[fg[l]].many \/ s[l] \in g[fg[l]].names
      BY <1>2 DEF CoversBy
    <2>2. \A l \in k + 1 .. j : h[fh[l]].many \/ s[l] \in h[fh[l]].names
      BY <1>3 DEF CoversBy
    <2>. QED
      BY <1>4, <1>5, <1>6, <2>1, <2>2
  <1>. QED
    BY <1>1, <1>7, <1>8, <1>9, <1>10, <1>11 DEF Covers, CoversBy

\* One component of a glob.
LEMMA CoversOne ==
    ASSUME NEW c \in Component, NEW s, NEW i \in Nat \ {0}, NEW j \in Nat
    PROVE  Covers(<<c>>, s, i, j) <=> /\ i <= j
                                      /\ c.many \/ (i = j /\ s[i] \in c.names)
  <1>1. DOMAIN <<c>> = {1} /\ <<c>>[1] = c
    OBVIOUS
  <1>2. ASSUME Covers(<<c>>, s, i, j) PROVE i <= j /\ (c.many \/ (i = j /\ s[i] \in c.names))
    <2>1. PICK f : CoversBy(f, <<c>>, s, i, j)
      BY <1>2 DEF Covers
    <2>2. \A k \in i .. j : f[k] = 1
      BY <1>1, <2>1 DEF CoversBy
    <2>3. i <= j
      BY <1>1, <2>1 DEF CoversBy
    <2>4. i # j => c.many
      BY <1>1, <2>1, <2>2, <2>3 DEF CoversBy
    <2>5. c.many \/ s[i] \in c.names
      BY <1>1, <2>1, <2>2, <2>3 DEF CoversBy
    <2>. QED
      BY <2>3, <2>4, <2>5
  <1>3. ASSUME i <= j, c.many \/ (i = j /\ s[i] \in c.names) PROVE Covers(<<c>>, s, i, j)
    <2>1. PICK f : f = [k \in i .. j |-> 1]
      OBVIOUS
    <2>2. CoversBy(f, <<c>>, s, i, j)
      BY <1>1, <1>3, <2>1 DEF CoversBy
    <2>. QED
      BY <2>2 DEF Covers
  <1>. QED
    BY <1>2, <1>3

LEMMA CoversNone ==
    ASSUME NEW s, NEW i \in Nat \ {0}, NEW j \in Nat PROVE Covers(<<>>, s, i, j) <=> j < i
  <1>1. DOMAIN << >> = {}
    OBVIOUS
  <1>2. ASSUME j < i PROVE Covers(<<>>, s, i, j)
    <2>1. PICK f : f = [k \in i .. j |-> 1]
      OBVIOUS
    <2>2. i .. j = {}
      BY <1>2
    <2>. QED
      BY <1>1, <2>1, <2>2 DEF Covers, CoversBy
  <1>3. ASSUME Covers(<<>>, s, i, j) PROVE j < i
    BY <1>1, <1>3 DEF Covers, CoversBy
  <1>. QED
    BY <1>2, <1>3

\* A step of the function of Matches, and the function.
UptoNext(glob, s, p, before) ==
    {g \in DOMAIN glob : /\ glob[g].many \/ s[p] \in glob[g].names
                         /\ g - 1 \in before \/ (glob[g].many /\ g \in before)}
Upto(glob, s, u) ==
    u = [p \in 0 .. Len(s) |-> IF p = 0 THEN {0} ELSE UptoNext(glob, s, p, u[p - 1])]

LEMMA MatchesIsChosen ==
    \A glob, s : Matches(glob, s) <=> Len(glob) \in (CHOOSE u : Upto(glob, s, u))[Len(s)]
  BY DEF Matches, Upto, UptoNext

\* How much of a glob takes the first p components.
Beginning(glob, s, p) == {g \in 0 .. Len(glob) : Covers(SubSeq(glob, 1, g), s, 1, p)}

LEMMA OneMore ==
    ASSUME NEW glob \in Seq(Component), NEW g \in 1 .. Len(glob)
    PROVE  /\ SubSeq(glob, 1, g - 1) \in Seq(Component) /\ glob[g] \in Component
           /\ SubSeq(glob, 1, g) = SubSeq(glob, 1, g - 1) \o <<glob[g]>>
  <1>1. Len(glob) \in Nat /\ glob[g] \in Component
    BY LenProperties
  <1>2. SubSeq(glob, 1, g - 1) \in Seq(Component)
    BY <1>1, SubSeqProperties
  <1>3. SubSeq(glob, 1, g) = SubSeq(glob, 1, g - 1) \o <<glob[g]>>
    <2>1. PICK a : a = SubSeq(glob, 1, g)
      OBVIOUS
    <2>2. PICK b : b = SubSeq(glob, 1, g - 1)
      OBVIOUS
    <2>3. a \in Seq(Component) /\ Len(a) = g /\ \A x \in 1 .. g : a[x] = glob[x]
      BY <1>1, <2>1, SubSeqProperties
    <2>4. b \in Seq(Component) /\ Len(b) = g - 1 /\ \A x \in 1 .. g - 1 : b[x] = glob[x]
      BY <1>1, <2>2, SubSeqProperties
    <2>5. /\ b \o <<glob[g]>> \in Seq(Component) /\ Len(b \o <<glob[g]>>) = g
          /\ \A x \in 1 .. g - 1 : (b \o <<glob[g]>>)[x] = b[x]
          /\ (b \o <<glob[g]>>)[g] = glob[g]
      BY <1>1, <2>4
    <2>6. \A x \in 1 .. g : a[x] = (b \o <<glob[g]>>)[x]
      <3> SUFFICES ASSUME NEW x \in 1 .. g PROVE a[x] = (b \o <<glob[g]>>)[x]
        OBVIOUS
      <3>1. x = g \/ x \in 1 .. g - 1
        OBVIOUS
      <3>. QED
        BY <2>3, <2>4, <2>5, <3>1
    <2>7. PICK c : c = b \o <<glob[g]>>
      OBVIOUS
    <2>8. a = c
      BY <2>3, <2>5, <2>6, <2>7, SeqEqual
    <2>. QED
      BY <2>1, <2>2, <2>7, <2>8
  <1>. QED
    BY <1>1, <1>2, <1>3

LEMMA BeginsWithNone ==
    ASSUME NEW glob \in Seq(Component), NEW s PROVE Beginning(glob, s, 0) = {0}
  <1>1. Len(glob) \in Nat
    BY LenProperties
  <1>2. Covers(SubSeq(glob, 1, 0), s, 1, 0)
    <2>1. SubSeq(glob, 1, 0) = << >>
      OBVIOUS
    <2>2. 1 \in Nat \ {0} /\ 0 \in Nat /\ 0 < 1
      OBVIOUS
    <2>3. Covers(<<>>, s, 1, 0)
      BY <2>2, CoversNone
    <2>. QED
      BY <2>1, <2>3
  <1>3. ASSUME NEW g \in 1 .. Len(glob) PROVE ~ Covers(SubSeq(glob, 1, g), s, 1, 0)
    <2>1. 1 \in DOMAIN SubSeq(glob, 1, g)
      <3>1. Len(SubSeq(glob, 1, g)) = g /\ SubSeq(glob, 1, g) \in Seq(Component)
        BY <1>1, SubSeqProperties
      <3>. QED
        BY <3>1
    <2>2. PICK t : t = SubSeq(glob, 1, g)
      OBVIOUS
    <2>3. ASSUME Covers(t, s, 1, 0) PROVE FALSE
      <3>1. PICK f : CoversBy(f, t, s, 1, 0)
        BY <2>3 DEF Covers
      <3>2. \E k \in 1 .. 0 : f[k] = 1
        BY <2>1, <2>2, <3>1 DEF CoversBy
      <3>. QED
        BY <3>2
    <2>. QED
      BY <2>2, <2>3
  <1>. QED
    BY <1>1, <1>2, <1>3 DEF Beginning

LEMMA BeginsWithNext ==
    ASSUME NEW glob \in Seq(Component), NEW s, NEW p \in Nat \ {0}
    PROVE  Beginning(glob, s, p) = UptoNext(glob, s, p, Beginning(glob, s, p - 1))
  <1> DEFINE upto(g) == SubSeq(glob, 1, g)
             By(g, q) == Covers(upto(g), s, 1, q)
  <1>1. Len(glob) \in Nat /\ DOMAIN glob = 1 .. Len(glob)
    BY LenProperties
  <1>2. ~ By(0, p)
    <2>1. upto(0) = << >>
      OBVIOUS
    <2>2. 1 \in Nat \ {0} /\ p \in Nat /\ ~ (p < 1)
      OBVIOUS
    <2>3. ~ Covers(<<>>, s, 1, p)
      BY <2>2, CoversNone
    <2>. QED
      BY <2>1, <2>3
  <1>3. ASSUME NEW g \in 1 .. Len(glob), NEW q \in Nat
        PROVE  By(g, q) <=> \E k \in 0 .. q : /\ By(g - 1, k) /\ k < q
                                              /\ glob[g].many \/ (k + 1 = q /\ s[k + 1] \in glob[g].names)
    <2>1. /\ upto(g - 1) \in Seq(Component) /\ glob[g] \in Component
          /\ upto(g) = upto(g - 1) \o <<glob[g]>> /\ <<glob[g]>> \in Seq(Component)
      <3>1. glob[g] \in Component
        BY OneMore
      <3>2. <<glob[g]>> \in Seq(Component)
        BY <3>1
      <3>. QED
        BY <3>2, OneMore
    <2>2. PICK b \in Seq(Component) : b = upto(g - 1)
      BY <2>1
    <2>3. \A k \in 0 .. q : Covers(<<glob[g]>>, s, k + 1, q) <=>
                /\ k < q
                /\ glob[g].many \/ (k + 1 = q /\ s[k + 1] \in glob[g].names)
      <3> SUFFICES ASSUME NEW k \in 0 .. q
                   PROVE  Covers(<<glob[g]>>, s, k + 1, q) <=>
                              /\ k < q
                              /\ glob[g].many \/ (k + 1 = q /\ s[k + 1] \in glob[g].names)
        OBVIOUS
      <3>1. k + 1 \in Nat \ {0}
        OBVIOUS
      <3>2. Covers(<<glob[g]>>, s, k + 1, q) <=>
                k + 1 <= q /\ (glob[g].many \/ (k + 1 = q /\ s[k + 1] \in glob[g].names))
        BY <2>1, <3>1, CoversOne
      <3>. QED
        BY <3>2
    <2>4. Covers(b \o <<glob[g]>>, s, 1, q) <=>
              \E k \in 0 .. q : Covers(b, s, 1, k) /\ Covers(<<glob[g]>>, s, k + 1, q)
      <3>1. 1 \in Nat \ {0} /\ 1 - 1 = 0 /\ 0 <= q
        OBVIOUS
      <3>2. ASSUME Covers(b \o <<glob[g]>>, s, 1, q)
            PROVE  \E k \in 0 .. q : Covers(b, s, 1, k) /\ Covers(<<glob[g]>>, s, k + 1, q)
        BY <2>1, <3>1, <3>2, CoversBoth
      <3>3. ASSUME NEW k \in 0 .. q, Covers(b, s, 1, k), Covers(<<glob[g]>>, s, k + 1, q)
            PROVE  Covers(b \o <<glob[g]>>, s, 1, q)
        BY <2>1, <3>1, <3>3, CoversJoined
      <3>. QED
        BY <3>2, <3>3
    <2>. QED
      BY <2>1, <2>2, <2>3, <2>4
  <1>4. ASSUME NEW g \in 1 .. Len(glob)
        PROVE  By(g, p) <=> /\ glob[g].many \/ s[p] \in glob[g].names
                            /\ By(g - 1, p - 1) \/ (glob[g].many /\ By(g, p - 1))
    <2>1. p \in Nat /\ p - 1 \in Nat /\ p - 1 \in 0 .. p
      OBVIOUS
    <2>2. By(g, p) <=> \E k \in 0 .. p : /\ By(g - 1, k) /\ k < p
                                         /\ glob[g].many \/ (k + 1 = p /\ s[k + 1] \in glob[g].names)
      BY <1>3, <2>1
    <2>3. By(g, p - 1) <=> \E k \in 0 .. p - 1 :
              /\ By(g - 1, k) /\ k < p - 1
              /\ glob[g].many \/ (k + 1 = p - 1 /\ s[k + 1] \in glob[g].names)
      BY <1>3, <2>1
    <2> HIDE DEF By
    <2>4. CASE glob[g].many
      <3>1. By(g, p) <=> \E k \in 0 .. p : By(g - 1, k) /\ k < p
        BY <2>2, <2>4
      <3>2. By(g, p - 1) <=> \E k \in 0 .. p - 1 : By(g - 1, k) /\ k < p - 1
        BY <2>3, <2>4
      <3>3. \A k \in 0 .. p : k < p => k = p - 1 \/ (k \in 0 .. p - 1 /\ k < p - 1)
        OBVIOUS
      <3>4. \A k \in 0 .. p - 1 : k < p - 1 => k \in 0 .. p /\ k < p
        OBVIOUS
      <3>5. p - 1 < p
        OBVIOUS
      <3>. QED
        BY <2>1, <2>4, <3>1, <3>2, <3>3, <3>4, <3>5
    <2>5. CASE ~ glob[g].many
      <3>1. By(g, p) <=> \E k \in 0 .. p : By(g - 1, k) /\ k + 1 = p /\ s[k + 1] \in glob[g].names
        <4>1. \A k \in 0 .. p : k + 1 = p => k < p
          OBVIOUS
        <4>. QED
          BY <2>2, <2>5, <4>1
      <3>2. \A k \in 0 .. p : k + 1 = p <=> k = p - 1
        OBVIOUS
      <3>3. (p - 1) + 1 = p
        OBVIOUS
      <3>. QED
        BY <2>1, <2>5, <3>1, <3>2, <3>3
    <2>. QED
      BY <2>4, <2>5
  <1>5. \A g \in 1 .. Len(glob) : g - 1 \in 0 .. Len(glob) /\ g \in 0 .. Len(glob)
    BY <1>1
  <1>6. \A g \in 0 .. Len(glob) : g = 0 \/ g \in 1 .. Len(glob)
    BY <1>1
  <1> HIDE DEF By
  <1>7. \A q : Beginning(glob, s, q) = {g \in 0 .. Len(glob) : By(g, q)}
    BY DEF Beginning, By
  <1>. QED
    BY <1>1, <1>2, <1>4, <1>5, <1>6, <1>7 DEF UptoNext

\* The function of Matches is how much of the glob takes the components so far,
\* and so a glob matches if it takes all of them in some way.
LEMMA MatchesIsCovers ==
    ASSUME NEW glob \in Seq(Component), NEW S, NEW s \in Seq(S)
    PROVE  Matches(glob, s) <=> Covers(glob, s, 1, Len(s))
  <1>1. PICK n \in Nat : n = Len(s)
    BY LenProperties
  <1>2. PICK w : w = [p \in 0 .. n |-> Beginning(glob, s, p)]
    OBVIOUS
  <1>3. Upto(glob, s, w)
    <2>1. \A p \in 0 .. n : w[p] = IF p = 0 THEN {0} ELSE UptoNext(glob, s, p, w[p - 1])
      <3> SUFFICES ASSUME NEW p \in 0 .. n
                   PROVE  w[p] = IF p = 0 THEN {0} ELSE UptoNext(glob, s, p, w[p - 1])
        OBVIOUS
      <3>1. CASE p = 0
        BY <1>2, <3>1, BeginsWithNone
      <3>2. CASE p # 0
        <4>1. p \in Nat \ {0} /\ p - 1 \in 0 .. n
          BY <3>2
        <4>2. w[p - 1] = Beginning(glob, s, p - 1) /\ w[p] = Beginning(glob, s, p)
          BY <1>2, <4>1
        <4>. QED
          BY <3>2, <4>1, <4>2, BeginsWithNext
      <3>. QED
        BY <3>1, <3>2
    <2>2. w = [p \in 0 .. n |-> w[p]]
      BY <1>2
    <2>. QED
      BY <1>1, <2>1, <2>2 DEF Upto
  <1>4. ASSUME NEW u, Upto(glob, s, u) PROVE u[n] = w[n]
    <2> DEFINE Differ == {p \in 0 .. n : u[p] # w[p]}
    <2>1. \A p \in 0 .. n : u[p] = IF p = 0 THEN {0} ELSE UptoNext(glob, s, p, u[p - 1])
      BY <1>1, <1>4 DEF Upto
    <2>2. \A p \in 0 .. n : w[p] = IF p = 0 THEN {0} ELSE UptoNext(glob, s, p, w[p - 1])
      BY <1>1, <1>3 DEF Upto
    <2>3. ASSUME Differ # {} PROVE FALSE
      <3>1. PICK p \in Differ : \A q \in Differ : p <= q
        <4>1. Differ \in SUBSET Nat
          OBVIOUS
        <4> HIDE DEF Differ
        <4>. QED
          BY <2>3, <4>1, LeastNumber
      <3>2. p \in 0 .. n /\ u[p] # w[p]
        BY <3>1
      <3>3. p # 0
        BY <2>1, <2>2, <3>2
      <3>4. p - 1 \in 0 .. n /\ ~ (p <= p - 1)
        BY <3>2, <3>3
      <3>5. u[p - 1] = w[p - 1]
        BY <3>1, <3>4
      <3>. QED
        BY <2>1, <2>2, <3>2, <3>3, <3>5
    <2>4. n \in 0 .. n
      OBVIOUS
    <2>. QED
      BY <2>3, <2>4
  <1>5. Matches(glob, s) <=> Len(glob) \in w[n]
    <2>1. PICK u : u = CHOOSE v : Upto(glob, s, v)
      OBVIOUS
    <2>2. Upto(glob, s, u)
      BY <1>3, <2>1
    <2>. QED
      BY <1>1, <1>4, <2>1, <2>2, MatchesIsChosen
  <1>6. w[n] = Beginning(glob, s, n)
    BY <1>2
  <1>7. Len(glob) \in 0 .. Len(glob) /\ SubSeq(glob, 1, Len(glob)) = glob
    BY LenProperties
  <1>. QED
    BY <1>1, <1>5, <1>6, <1>7 DEF Beginning

LEMMA CoversSplits ==
    ASSUME NEW T, NEW g \in Seq(T), NEW h \in Seq(T), NEW s, NEW i \in Nat \ {0}, NEW j \in Nat, i - 1 <= j
    PROVE  Covers(g \o h, s, i, j) <=>
               \E k \in i - 1 .. j : Covers(g, s, i, k) /\ Covers(h, s, k + 1, j)
  <1>1. ASSUME Covers(g \o h, s, i, j)
        PROVE  \E k \in i - 1 .. j : Covers(g, s, i, k) /\ Covers(h, s, k + 1, j)
    BY <1>1, CoversBoth
  <1>2. ASSUME NEW k \in i - 1 .. j, Covers(g, s, i, k), Covers(h, s, k + 1, j)
        PROVE  Covers(g \o h, s, i, j)
    BY <1>2, CoversJoined
  <1>. QED
    BY <1>1, <1>2

LEMMA CoversSome ==
    ASSUME NEW T, NEW g \in Seq(T), g # <<>>, NEW s, NEW i, NEW j, Covers(g, s, i, j)
    PROVE  i .. j # {}
  <1>1. 1 \in DOMAIN g
    OBVIOUS
  <1>. QED
    BY <1>1 DEF Covers, CoversBy

Character == Name \cup {""}
LEMMA Globs ==
    /\ Star \in Component /\ Stars \in Component /\ Root \in Component
    /\ <<Star>> \in Seq(Component) /\ <<Stars>> \in Seq(Component) /\ <<Root>> \in Seq(Component)
    /\ <<Stars, Star>> \in Seq(Component) /\ <<Stars, Star>> = <<Stars>> \o <<Star>>
    /\ ~ Star.many /\ Stars.many /\ ~ Root.many
    /\ Star.names = Character /\ Root.names = {""}
  <1>1. Star \in Component /\ Stars \in Component /\ Root \in Component
    BY DEF Star, Stars, Root, Literal, Component
  <1>2. <<Stars, Star>> = <<Stars>> \o <<Star>>
    OBVIOUS
  <1>3. ~ Star.many /\ Stars.many /\ ~ Root.many /\ Star.names = Character /\ Root.names = {""}
    BY DEF Star, Stars, Root, Literal, Character
  <1>4. \A c \in Component : <<c>> \in Seq(Component)
    OBVIOUS
  <1>5. \A c, d \in Component : <<c, d>> \in Seq(Component)
    OBVIOUS
  <1>. QED
    BY <1>1, <1>2, <1>3, <1>4, <1>5

\* A line stands for all that is below what it names.
LEMMA CoversBelow ==
    ASSUME NEW g \in Seq(Component), NEW s \in Seq(Character), NEW n \in Nat, n = Len(s)
    PROVE  (\/ Covers(g, s, 1, n) \/ Covers(g \o <<Star>>, s, 1, n)
            \/ Covers(g \o <<Stars, Star>>, s, 1, n))
           <=> \E k \in 0 .. n : Covers(g, s, 1, k)
  <1>1. 1 \in Nat \ {0} /\ 1 - 1 = 0 /\ 1 - 1 <= n
    OBVIOUS
  <1>2. \A k \in 1 .. n : s[k] \in Character
    OBVIOUS
  <1>3. \A k \in 0 .. n : Covers(<<Star>>, s, k + 1, n) <=> k + 1 = n
    <2> SUFFICES ASSUME NEW k \in 0 .. n PROVE Covers(<<Star>>, s, k + 1, n) <=> k + 1 = n
      OBVIOUS
    <2>1. PICK i \in Nat \ {0} : i = k + 1
      OBVIOUS
    <2>2. PICK c \in Component : c = Star
      BY Globs
    <2>3. Covers(<<c>>, s, i, n) <=> /\ i <= n
                                     /\ c.many \/ (i = n /\ s[i] \in c.names)
      BY CoversOne
    <2>4. ~ c.many /\ c.names = Character
      BY <2>2, Globs
    <2>5. i = n => i <= n /\ s[i] \in Character
      BY <1>2
    <2>6. Covers(<<c>>, s, i, n) <=> i = n
      BY <2>3, <2>4, <2>5
    <2>. QED
      BY <2>1, <2>2, <2>6
  <1>4. Covers(g \o <<Star>>, s, 1, n) <=> \E k \in 0 .. n : Covers(g, s, 1, k) /\ k + 1 = n
    <2>1. PICK h \in Seq(Component) : h = <<Star>>
      BY Globs
    <2>2. Covers(g \o h, s, 1, n) <=> \E k \in 1 - 1 .. n : Covers(g, s, 1, k) /\ Covers(h, s, k + 1, n)
      BY <1>1, CoversSplits
    <2>. QED
      BY <1>1, <1>3, <2>1, <2>2
  <1>5. \A k \in 0 .. n : Covers(<<Stars, Star>>, s, k + 1, n) <=> k + 2 <= n
    <2> SUFFICES ASSUME NEW k \in 0 .. n PROVE Covers(<<Stars, Star>>, s, k + 1, n) <=> k + 2 <= n
      OBVIOUS
    <2>1. k + 1 \in Nat \ {0} /\ (k + 1) - 1 = k /\ (k + 1) - 1 <= n
      OBVIOUS
    <2>2. Covers(<<Stars>> \o <<Star>>, s, k + 1, n) <=>
              \E m \in (k + 1) - 1 .. n : Covers(<<Stars>>, s, k + 1, m) /\ Covers(<<Star>>, s, m + 1, n)
      BY <2>1, CoversSplits, Globs
    <2>3. \A m \in k .. n : Covers(<<Stars>>, s, k + 1, m) <=> k + 1 <= m
      <3> SUFFICES ASSUME NEW m \in k .. n PROVE Covers(<<Stars>>, s, k + 1, m) <=> k + 1 <= m
        OBVIOUS
      <3>1. m \in Nat
        OBVIOUS
      <3>. QED
        BY <2>1, <3>1, CoversOne, Globs
    <2>4. \A m \in k .. n : m \in 0 .. n
      OBVIOUS
    <2>5. Covers(<<Stars, Star>>, s, k + 1, n) <=> \E m \in k .. n : k + 1 <= m /\ m + 1 = n
      BY <1>3, <2>1, <2>2, <2>3, <2>4, Globs
    <2>6. k + 2 <= n => n - 1 \in k .. n /\ k + 1 <= n - 1 /\ (n - 1) + 1 = n
      OBVIOUS
    <2>7. \A m \in k .. n : k + 1 <= m /\ m + 1 = n => k + 2 <= n
      OBVIOUS
    <2>. QED
      BY <2>5, <2>6, <2>7
  <1>6. Covers(g \o <<Stars, Star>>, s, 1, n) <=> \E k \in 0 .. n : Covers(g, s, 1, k) /\ k + 2 <= n
    BY <1>1, <1>5, CoversSplits, Globs
  <1>7. \A k \in 0 .. n : k = n \/ k + 1 = n \/ k + 2 <= n
    OBVIOUS
  <1>8. n \in 0 .. n
    OBVIOUS
  <1>. QED
    BY <1>4, <1>6, <1>7, <1>8

\* And anywhere, unless it is rooted.
LEMMA CoversAnywhere ==
    ASSUME NEW g \in Seq(Component), NEW s, NEW k \in Nat
    PROVE  Covers(<<Stars>> \o g, s, 1, k) <=> \E i \in 2 .. k + 1 : Covers(g, s, i, k)
  <1>1. 1 \in Nat \ {0} /\ 1 - 1 = 0 /\ 1 - 1 <= k
    OBVIOUS
  <1>2. Covers(<<Stars>> \o g, s, 1, k) <=>
            \E m \in 0 .. k : Covers(<<Stars>>, s, 1, m) /\ Covers(g, s, m + 1, k)
    BY <1>1, CoversSplits, Globs
  <1>3. \A m \in 0 .. k : Covers(<<Stars>>, s, 1, m) <=> 1 <= m
    <2> SUFFICES ASSUME NEW m \in 0 .. k PROVE Covers(<<Stars>>, s, 1, m) <=> 1 <= m
      OBVIOUS
    <2>1. m \in Nat
      OBVIOUS
    <2>. QED
      BY <1>1, <2>1, CoversOne, Globs
  <1>4. \A m \in 0 .. k : 1 <= m => m + 1 \in 2 .. k + 1
    OBVIOUS
  <1>5. \A i \in 2 .. k + 1 : i - 1 \in 0 .. k /\ 1 <= i - 1 /\ (i - 1) + 1 = i
    OBVIOUS
  <1>. QED
    BY <1>2, <1>3, <1>4, <1>5

\* One of the globs of a line matches.
Hit(glob, s) == \E q \in DOMAIN GlobsForPattern(glob) : Matches(GlobsForPattern(glob)[q], s)
Below(g) == {g, g \o <<Star>>, g \o <<Stars, Star>>}

LEMMA GlobsAre ==
    ASSUME NEW glob \in Seq(Component)
    PROVE  /\ GlobsForPattern(glob) \in Seq(Seq(Component))
           /\ {GlobsForPattern(glob)[q] : q \in DOMAIN GlobsForPattern(glob)} =
                  Below(glob) \cup IF Rooted(glob) THEN {} ELSE Below(<<Stars>> \o glob)
           /\ 1 \in DOMAIN GlobsForPattern(glob) /\ GlobsForPattern(glob)[1] = glob
  <1> DEFINE three(g) == <<g, g \o <<Star>>, g \o <<Stars, Star>>>>
  <1>1. \A g \in Seq(Component) : g \o <<Star>> \in Seq(Component) /\ g \o <<Stars, Star>> \in Seq(Component)
    BY Globs, ConcatProperties
  <1>2. <<Stars>> \o glob \in Seq(Component)
    BY Globs, ConcatProperties
  <1>3. \A g \in Seq(Component) : three(g) \in Seq(Seq(Component)) /\ Len(three(g)) = 3
    BY <1>1
  <1>4. \A g : /\ DOMAIN three(g) = 1 .. 3
               /\ three(g)[1] = g /\ three(g)[2] = g \o <<Star>> /\ three(g)[3] = g \o <<Stars, Star>>
    OBVIOUS
  <1>5. \A g : {three(g)[q] : q \in 1 .. 3} = Below(g)
    <2> SUFFICES ASSUME NEW g PROVE {three(g)[q] : q \in 1 .. 3} = Below(g)
      OBVIOUS
    <2>1. 1 .. 3 = {1, 2, 3}
      OBVIOUS
    <2>2. PICK t : t = three(g)
      OBVIOUS
    <2>3. t[1] = g /\ t[2] = g \o <<Star>> /\ t[3] = g \o <<Stars, Star>>
      BY <1>4, <2>2
    <2>4. {t[q] : q \in {1, 2, 3}} = {t[1], t[2], t[3]}
      OBVIOUS
    <2>. QED
      BY <2>1, <2>2, <2>3, <2>4 DEF Below
  <1>6. GlobsForPattern(glob) = three(glob) \o IF Rooted(glob) THEN <<>> ELSE three(<<Stars>> \o glob)
    BY DEF GlobsForPattern
  <1> HIDE DEF three
  <1>7. PICK a \in Seq(Seq(Component)) : a = three(glob)
    BY <1>3
  <1>8. DOMAIN a = 1 .. 3 /\ Len(a) = 3 /\ a[1] = glob /\ {a[q] : q \in 1 .. 3} = Below(glob)
    BY <1>3, <1>4, <1>5, <1>7
  <1>9. PICK c : c = GlobsForPattern(glob)
    OBVIOUS
  <1>10. CASE Rooted(glob)
    <2>1. c = a
      BY <1>6, <1>7, <1>9, <1>10
    <2>2. 1 \in 1 .. 3
      OBVIOUS
    <2>. QED
      BY <1>8, <1>9, <1>10, <2>1, <2>2
  <1>11. CASE ~ Rooted(glob)
    <2>1. PICK b \in Seq(Seq(Component)) : b = three(<<Stars>> \o glob)
      BY <1>2, <1>3
    <2>2. Len(b) = 3 /\ {b[q] : q \in 1 .. 3} = Below(<<Stars>> \o glob)
      BY <1>2, <1>3, <1>5, <2>1
    <2>3. c = a \o b
      BY <1>6, <1>7, <1>9, <1>11, <2>1
    <2>4. /\ a \o b \in Seq(Seq(Component)) /\ DOMAIN (a \o b) = 1 .. Len(a) + Len(b)
          /\ \A q \in 1 .. Len(a) : (a \o b)[q] = a[q]
          /\ \A q \in 1 .. Len(b) : (a \o b)[Len(a) + q] = b[q]
      BY Concatenated
    <2>5. c \in Seq(Seq(Component)) /\ DOMAIN c = 1 .. 3 + 3
      BY <1>8, <2>2, <2>3, <2>4
    <2>6. \A q \in 1 .. 3 : c[q] = a[q] /\ c[3 + q] = b[q]
      BY <1>8, <2>2, <2>3, <2>4
    <2>7. \A q \in 1 .. 3 + 3 : q \in 1 .. 3 \/ (q - 3 \in 1 .. 3 /\ q = 3 + (q - 3))
      OBVIOUS
    <2>8. \A q \in 1 .. 3 : q \in 1 .. 3 + 3 /\ 3 + q \in 1 .. 3 + 3
      OBVIOUS
    <2>9. {c[q] : q \in 1 .. 3 + 3} = {a[q] : q \in 1 .. 3} \cup {b[q] : q \in 1 .. 3}
      <3>1. ASSUME NEW q \in 1 .. 3 + 3
            PROVE  c[q] \in {a[r] : r \in 1 .. 3} \cup {b[r] : r \in 1 .. 3}
        <4>1. CASE q \in 1 .. 3
          BY <2>6, <4>1
        <4>2. CASE q - 3 \in 1 .. 3 /\ q = 3 + (q - 3)
          <5>1. PICK r \in 1 .. 3 : q = 3 + r
            BY <4>2
          <5>. QED
            BY <2>6, <5>1
        <4>. QED
          BY <2>7, <4>1, <4>2
      <3>2. \A q \in 1 .. 3 : a[q] \in {c[r] : r \in 1 .. 3 + 3} /\ b[q] \in {c[r] : r \in 1 .. 3 + 3}
        BY <2>6, <2>8
      <3>. QED
        BY <3>1, <3>2
    <2>10. 1 \in 1 .. 3 + 3 /\ 1 \in 1 .. 3
      OBVIOUS
    <2>11. {c[q] : q \in DOMAIN c} = Below(glob) \cup Below(<<Stars>> \o glob)
      BY <1>8, <2>2, <2>5, <2>9
    <2>12. 1 \in DOMAIN c /\ c[1] = glob
      BY <1>8, <2>5, <2>6, <2>10
    <2>. QED
      BY <1>9, <1>11, <2>5, <2>11, <2>12
  <1>. QED
    BY <1>10, <1>11

LEMMA HitIs ==
    ASSUME NEW glob \in Seq(Component), NEW s \in Seq(Character), NEW n \in Nat, n = Len(s)
    PROVE  Hit(glob, s) <=>
               \E i \in 1 .. n + 1 : \E k \in i - 1 .. n : (Rooted(glob) => i = 1) /\ Covers(glob, s, i, k)
  <1>1. \A g \in Seq(Component) : g \o <<Star>> \in Seq(Component) /\ g \o <<Stars, Star>> \in Seq(Component)
    BY Globs, ConcatProperties
  <1>2. <<Stars>> \o glob \in Seq(Component)
    BY Globs, ConcatProperties
  <1>3. ASSUME NEW g \in Seq(Component)
        PROVE  (\E x \in Below(g) : Matches(x, s)) <=> \E k \in 0 .. n : Covers(g, s, 1, k)
    <2>1. \A x \in Below(g) : Matches(x, s) <=> Covers(x, s, 1, n)
      <3>1. \A x \in Below(g) : x \in Seq(Component)
        BY <1>1 DEF Below
      <3>. QED
        BY <3>1, MatchesIsCovers
    <2>2. (\E x \in Below(g) : Matches(x, s)) <=>
              \/ Covers(g, s, 1, n) \/ Covers(g \o <<Star>>, s, 1, n)
              \/ Covers(g \o <<Stars, Star>>, s, 1, n)
      BY <2>1 DEF Below
    <2>. QED
      BY <2>2, CoversBelow
  <1>4. Hit(glob, s) <=> \/ \E x \in Below(glob) : Matches(x, s)
                         \/ ~ Rooted(glob) /\ \E x \in Below(<<Stars>> \o glob) : Matches(x, s)
    <2>1. Hit(glob, s) <=> \E x \in {GlobsForPattern(glob)[q] : q \in DOMAIN GlobsForPattern(glob)} : Matches(x, s)
      BY DEF Hit
    <2>. QED
      BY <2>1, GlobsAre
  <1>5. (\E k \in 0 .. n : Covers(<<Stars>> \o glob, s, 1, k)) <=>
            \E i \in 2 .. n + 1 : \E k \in i - 1 .. n : Covers(glob, s, i, k)
    <2>1. \A k \in 0 .. n : Covers(<<Stars>> \o glob, s, 1, k) <=> \E i \in 2 .. k + 1 : Covers(glob, s, i, k)
      <3>1. \A k \in 0 .. n : k \in Nat
        OBVIOUS
      <3>. QED
        BY <3>1, CoversAnywhere
    <2>2. \A k \in 0 .. n : \A i \in 2 .. k + 1 : i \in 2 .. n + 1 /\ k \in i - 1 .. n
      OBVIOUS
    <2>3. \A i \in 2 .. n + 1 : \A k \in i - 1 .. n : k \in 0 .. n /\ i \in 2 .. k + 1
      OBVIOUS
    <2>. QED
      BY <2>1, <2>2, <2>3
  <1>6. \A i \in 1 .. n + 1 : i = 1 \/ i \in 2 .. n + 1
    OBVIOUS
  <1>7. 1 \in 1 .. n + 1 /\ 1 - 1 = 0 /\ \A i \in 2 .. n + 1 : i \in 1 .. n + 1 /\ i # 1
    OBVIOUS
  <1>. QED
    BY <1>2, <1>3, <1>4, <1>5, <1>6, <1>7

\* Where a line names a path: between two of its components, or nowhere in
\* particular if nothing is left of the line.
NamedAt(rest, rooted, path, n) ==
    \E i \in 1 .. n + 1 : \E k \in i - 1 .. n : (rooted => i = 1) /\ Covers(rest, path, i, k)

LEMMA FitsIn ==
    ASSUME NEW rest, TakesEach(rest), NEW path \in Seq(Name), NEW i \in 1 .. Len(path), NEW j \in 1 .. Len(path), i <= j
    PROVE  Fits(rest, SubSeq(path, i, j)) <=> Covers(rest, path, i, j)
  <1>1. PICK t : t = SubSeq(path, i, j)
    OBVIOUS
  <1>2. Len(path) \in Nat
    BY LenProperties
  <1>3. t \in Seq(Name) /\ Len(t) = j - i + 1 /\ \A k \in 1 .. j - i + 1 : t[k] = path[i + k - 1]
    BY <1>1, <1>2, SubSeqProperties
  <1>4. PICK d \in Int : d = i - 1
    BY <1>2
  <1>5. 1 + d = i /\ (j - i + 1) + d = j /\ i + (- d) = 1 /\ j + (- d) = j - i + 1
        /\ i \in Int /\ j \in Int /\ - d \in Int /\ 1 \in Int /\ j - i + 1 \in Int
    BY <1>2, <1>4
  <1>6. \A k \in 1 .. j - i + 1 : path[k + d] = t[k]
    <2>1. \A k \in 1 .. j - i + 1 : k + d = i + k - 1
      BY <1>2, <1>4
    <2>. QED
      BY <1>3, <2>1
  <1>7. \A k \in i .. j : t[k + (- d)] = path[k]
    <2> SUFFICES ASSUME NEW k \in i .. j PROVE t[k + (- d)] = path[k]
      OBVIOUS
    <2>1. k + (- d) \in 1 .. j - i + 1 /\ (k + (- d)) + d = k
      BY <1>2, <1>4
    <2>2. path[(k + (- d)) + d] = t[k + (- d)]
      BY <1>6, <2>1
    <2>. QED
      BY <2>1, <2>2
  <1>8. ASSUME Covers(rest, path, i, j) PROVE Covers(rest, t, 1, j - i + 1)
    <2>1. PICK one \in Int, last \in Int : one = 1 /\ last = j - i + 1
      BY <1>5
    <2>2. Covers(rest, path, one + d, last + d)
      BY <1>5, <1>8, <2>1
    <2>3. Covers(rest, t, one, last)
      BY <1>6, <2>1, <2>2, CoversShifted
    <2>. QED
      BY <2>1, <2>3
  <1>9. ASSUME Covers(rest, t, 1, j - i + 1) PROVE Covers(rest, path, i, j)
    <2>1. PICK e \in Int : e = - d
      BY <1>5
    <2>2. Covers(rest, t, i + e, j + e)
      BY <1>5, <1>9, <2>1
    <2>. QED
      BY <1>5, <1>7, <2>1, <2>2, CoversShifted
  <1>10. Fits(rest, t) <=> Covers(rest, t, 1, Len(t))
    BY <1>3, FitsIsCovers
  <1>. QED
    BY <1>1, <1>3, <1>8, <1>9, <1>10

\* What is left of a line that has no slash or "**" in front.
Rest(glob) == IF Rooted(glob) \/ (glob # <<>> /\ glob[1] = Stars) THEN Tail(glob) ELSE glob

\* What comes before the slash in front of a path.
Empty == ""

LEMMA RestTakesEach ==
    ASSUME NEW glob \in Seq(Component), Unambiguous(glob) PROVE TakesEach(Rest(glob))
  <1>1. PICK n \in Nat : n = Len(glob) /\ DOMAIN glob = 1 .. n
    OBVIOUS
  <1>2. \A k \in 2 .. n : ~ glob[k].many
    BY <1>1 DEF Unambiguous
  <1>3. CASE Rooted(glob) \/ (glob # <<>> /\ glob[1] = Stars)
    <2>1. n # 0 /\ Rest(glob) = Tail(glob)
      BY <1>1, <1>3 DEF Rest, Rooted
    <2>2. DOMAIN Tail(glob) = 1 .. n - 1 /\ \A k \in 1 .. n - 1 : Tail(glob)[k] = glob[k + 1]
      BY <1>1, <2>1
    <2>3. \A k \in 1 .. n - 1 : k + 1 \in 2 .. n
      OBVIOUS
    <2>. QED
      BY <1>2, <2>1, <2>2, <2>3 DEF TakesEach
  <1>4. CASE ~ (Rooted(glob) \/ (glob # <<>> /\ glob[1] = Stars))
    <2>1. Rest(glob) = glob
      BY <1>4 DEF Rest
    <2>2. ASSUME NEW k \in 1 .. n PROVE ~ glob[k].many
      <3>1. CASE k = 1
        <4>1. glob # <<>>
          BY <1>1, <2>2
        <4>2. ~ Rooted(glob) /\ glob[1] # Stars
          BY <1>4, <4>1
        <4>3. glob[1].many => glob[1] = Stars
          BY <4>1, <4>2 DEF Unambiguous
        <4>. QED
          BY <3>1, <4>2, <4>3
      <3>2. CASE k # 1
        <4>1. k \in 2 .. n
          BY <3>2
        <4>. QED
          BY <1>2, <4>1
      <3>. QED
        BY <3>1, <3>2
    <2>. QED
      BY <1>1, <2>1, <2>2 DEF TakesEach
  <1>. QED
    BY <1>3, <1>4

LEMMA NamesIs ==
    ASSUME NEW line, line.glob \in Seq(Component), Unambiguous(line.glob), NEW path \in Seq(Name), NEW n \in Nat, n = Len(path)
    PROVE  Names(line, path) <=> NamedAt(Rest(line.glob), Rooted(line.glob), path, n)
  <1>1. PICK glob \in Seq(Component) : glob = line.glob
    OBVIOUS
  <1>2. PICK rest : rest = Rest(glob)
    OBVIOUS
  <1>3. rest \in Seq(Component) /\ TakesEach(rest)
    <2>1. rest \in Seq(Component)
      BY <1>2 DEF Rest, Rooted
    <2>2. TakesEach(rest)
      BY <1>1, <1>2, RestTakesEach
    <2>. QED
      BY <2>1, <2>2
  <1>4. Names(line, path) <=>
            \/ rest = <<>>
            \/ \E i \in 1 .. n, j \in 1 .. n :
                   i <= j /\ (Rooted(glob) => i = 1) /\ Fits(rest, SubSeq(path, i, j))
    <2>1. DOMAIN path = 1 .. n
      BY LenProperties
    <2>. QED
      BY <1>1, <1>2, <2>1 DEF Names, Rest, Rooted
  <1>5. Names(line, path) <=>
            \/ rest = <<>>
            \/ \E i \in 1 .. n, j \in 1 .. n :
                   i <= j /\ (Rooted(glob) => i = 1) /\ Covers(rest, path, i, j)
    BY <1>3, <1>4, FitsIn
  <1>6. CASE rest = <<>>
    <2>1. 1 \in Nat \ {0} /\ 0 \in Nat /\ 0 < 1 /\ 1 \in 1 .. n + 1 /\ 0 \in 1 - 1 .. n
      OBVIOUS
    <2>2. Covers(<<>>, path, 1, 0)
      BY <2>1, CoversNone
    <2>. QED
      BY <1>1, <1>2, <1>5, <1>6, <2>1, <2>2 DEF NamedAt
  <1>7. CASE rest # <<>>
    <2>1. ASSUME NEW i \in 1 .. n + 1, NEW k \in i - 1 .. n, Covers(rest, path, i, k)
          PROVE  i \in 1 .. n /\ k \in 1 .. n /\ i <= k
      <3>1. i .. k # {}
        BY <1>3, <1>7, <2>1, CoversSome
      <3>. QED
        BY <3>1
    <2>2. \A i \in 1 .. n, k \in 1 .. n : i <= k => i \in 1 .. n + 1 /\ k \in i - 1 .. n
      OBVIOUS
    <2>. QED
      BY <1>1, <1>2, <1>5, <1>7, <2>1, <2>2 DEF NamedAt
  <1>. QED
    BY <1>6, <1>7

LEMMA HeadAndTail ==
    ASSUME NEW glob \in Seq(Component), glob # <<>>
    PROVE  /\ glob[1] \in Component /\ <<glob[1]>> \in Seq(Component) /\ Tail(glob) \in Seq(Component)
           /\ glob = <<glob[1]>> \o Tail(glob)
  <1>1. glob[1] \in Component /\ Tail(glob) \in Seq(Component) /\ Len(glob) \in Nat /\ Len(glob) # 0
    OBVIOUS
  <1>2. PICK a : a = <<glob[1]>> \o Tail(glob)
    OBVIOUS
  <1>3. a \in Seq(Component) /\ Len(a) = Len(glob) /\ \A x \in 1 .. Len(glob) : a[x] = glob[x]
    BY <1>1, <1>2
  <1>4. a = glob
    BY <1>1, <1>3, SeqEqual
  <1>. QED
    BY <1>1, <1>2, <1>4

LEMMA Slashed ==
    ASSUME NEW path \in Seq(Name), NEW n \in Nat, n = Len(path), NEW s, s = <<Empty>> \o path
    PROVE  /\ s \in Seq(Character) /\ Len(s) = n + 1 /\ s[1] = Empty
           /\ \A g : \A i \in 1 .. n + 1 : \A k \in i - 1 .. n :
                  Covers(g, s, i + 1, k + 1) <=> Covers(g, path, i, k)
  <1>1. /\ s \in Seq(Character) /\ Len(s) = n + 1 /\ s[1] = Empty /\ \A k \in 1 .. n : s[k + 1] = path[k]
    <2>1. path \in Seq(Character)
      <3>1. Name \subseteq Character
        BY DEF Character
      <3>. QED
        BY <3>1
    <2>2. Empty \in Character
      BY DEF Character, Empty
    <2>3. <<Empty>> \in Seq(Character) /\ Len(<<Empty>>) = 1 /\ <<Empty>>[1] = Empty
      BY <2>2
    <2>4. s \in Seq(Character) /\ Len(s) = 1 + n
      BY <2>1, <2>3, Concatenated
    <2>5. s[1] = Empty /\ \A k \in 1 .. n : s[1 + k] = path[k]
      BY <2>1, <2>3, Concatenated
    <2>6. \A k \in 1 .. n : 1 + k = k + 1
      OBVIOUS
    <2>. QED
      BY <2>4, <2>5, <2>6
  <1>2. ASSUME NEW g, NEW i \in 1 .. n + 1, NEW k \in i - 1 .. n
        PROVE  Covers(g, s, i + 1, k + 1) <=> Covers(g, path, i, k)
    <2>1. i \in Int /\ k \in Int /\ i + 1 \in Int /\ k + 1 \in Int /\ 1 \in Int /\ - 1 \in Int
          /\ (i + 1) + (- 1) = i /\ (k + 1) + (- 1) = k
      OBVIOUS
    <2>2. \A l \in i .. k : s[l + 1] = path[l]
      BY <1>1
    <2>3. \A l \in i + 1 .. k + 1 : path[l + (- 1)] = s[l]
      <3> SUFFICES ASSUME NEW l \in i + 1 .. k + 1 PROVE path[l + (- 1)] = s[l]
        OBVIOUS
      <3>1. l + (- 1) \in 1 .. n /\ (l + (- 1)) + 1 = l
        OBVIOUS
      <3>2. s[(l + (- 1)) + 1] = path[l + (- 1)]
        BY <1>1, <3>1
      <3>. QED
        BY <3>1, <3>2
    <2>4. ASSUME Covers(g, s, i + 1, k + 1) PROVE Covers(g, path, i, k)
      <3>1. PICK a \in Int, b \in Int, d \in Int : a = i /\ b = k /\ d = 1
        BY <2>1
      <3>2. Covers(g, s, a + d, b + d) /\ \A l \in a .. b : s[l + d] = path[l]
        BY <2>2, <2>4, <3>1
      <3>3. Covers(g, path, a, b)
        BY <3>2, CoversShifted
      <3>. QED
        BY <3>1, <3>3
    <2>5. ASSUME Covers(g, path, i, k) PROVE Covers(g, s, i + 1, k + 1)
      <3>1. PICK a \in Int, b \in Int, d \in Int : a = i + 1 /\ b = k + 1 /\ d = - 1
        BY <2>1
      <3>2. Covers(g, path, a + d, b + d) /\ \A l \in a .. b : path[l + d] = s[l]
        BY <2>1, <2>3, <2>5, <3>1
      <3>3. Covers(g, s, a, b)
        BY <3>2, CoversShifted
      <3>. QED
        BY <3>1, <3>3
    <2>. QED
      BY <2>4, <2>5
  <1>. QED
    BY <1>1, <1>2

LEMMA CoversHead ==
    ASSUME NEW glob \in Seq(Component), glob # <<>>, NEW s, NEW i \in Nat \ {0}, NEW k \in Nat, i - 1 <= k
    PROVE  Covers(glob, s, i, k) <=>
               \E l \in i - 1 .. k : /\ i <= l /\ Covers(Tail(glob), s, l + 1, k)
                                     /\ glob[1].many \/ (i = l /\ s[i] \in glob[1].names)
  <1>2. PICK c \in Component : c = glob[1]
    BY HeadAndTail
  <1>3. PICK tail \in Seq(Component) : tail = Tail(glob)
    BY HeadAndTail
  <1>4. <<c>> \in Seq(Component) /\ glob = <<c>> \o tail
    BY <1>2, <1>3, HeadAndTail
  <1>5. Covers(<<c>> \o tail, s, i, k) <=>
            \E l \in i - 1 .. k : Covers(<<c>>, s, i, l) /\ Covers(tail, s, l + 1, k)
    BY <1>4, CoversSplits
  <1>6. \A l \in i - 1 .. k : Covers(<<c>>, s, i, l) <=>
                                i <= l /\ (c.many \/ (i = l /\ s[i] \in c.names))
    <2> SUFFICES ASSUME NEW l \in i - 1 .. k
                 PROVE  Covers(<<c>>, s, i, l) <=> i <= l /\ (c.many \/ (i = l /\ s[i] \in c.names))
      OBVIOUS
    <2>1. PICK a \in Nat \ {0} : a = i
      OBVIOUS
    <2>2. PICK b \in Nat : b = l
      OBVIOUS
    <2>3. Covers(<<c>>, s, a, b) <=> /\ a <= b
                                     /\ c.many \/ (a = b /\ s[a] \in c.names)
      BY CoversOne
    <2>. QED
      BY <2>1, <2>2, <2>3
  <1>7. Covers(<<c>> \o tail, s, i, k) <=>
            \E l \in i - 1 .. k : /\ i <= l /\ Covers(tail, s, l + 1, k)
                                  /\ c.many \/ (i = l /\ s[i] \in c.names)
    <2>1. ASSUME Covers(<<c>> \o tail, s, i, k)
          PROVE  \E l \in i - 1 .. k : /\ i <= l /\ Covers(tail, s, l + 1, k)
                                       /\ c.many \/ (i = l /\ s[i] \in c.names)
      <3>1. PICK l \in i - 1 .. k : Covers(<<c>>, s, i, l) /\ Covers(tail, s, l + 1, k)
        BY <1>5, <2>1
      <3>2. i <= l /\ (c.many \/ (i = l /\ s[i] \in c.names))
        BY <1>6, <3>1
      <3>. QED
        BY <3>1, <3>2
    <2>2. ASSUME NEW l \in i - 1 .. k, i <= l, Covers(tail, s, l + 1, k),
                 c.many \/ (i = l /\ s[i] \in c.names)
          PROVE  Covers(<<c>> \o tail, s, i, k)
      <3>1. Covers(<<c>>, s, i, l)
        BY <1>6, <2>2
      <3>. QED
        BY <1>5, <2>2, <3>1
    <2>. QED
      BY <2>1, <2>2
  <1>. QED
    BY <1>2, <1>3, <1>4, <1>7

\* A line, given the path with a slash in front, matches what it names.
LEMMA HitIsNamedSlashed ==
    ASSUME NEW line, line.glob \in Seq(Component), Unambiguous(line.glob),
           NEW path \in Seq(Name), path # <<>>, NEW s \in Seq(Character), Len(s) = Len(path) + 1, s[1] = Empty,
           \A g : \A i \in 1 .. Len(path) + 1 : \A k \in i - 1 .. Len(path) :
               Covers(g, s, i + 1, k + 1) <=> Covers(g, path, i, k)
    PROVE  Hit(line.glob, s) <=> Names(line, path)
  <1>1. PICK glob \in Seq(Component) : glob = line.glob
    OBVIOUS
  <1>2. PICK n \in Nat : n = Len(path)
    BY LenProperties
  <1>3. PICK rest : rest = Rest(glob)
    OBVIOUS
  <1>4. PICK rooted : rooted = Rooted(glob)
    OBVIOUS
  <1>5. PICK m \in Nat : m = n + 1
    OBVIOUS
  <1>6. /\ s \in Seq(Character) /\ Len(s) = m /\ s[1] = Empty
        /\ \A g : \A i \in 1 .. n + 1 : \A k \in i - 1 .. n :
                  Covers(g, s, i + 1, k + 1) <=> Covers(g, path, i, k)
    BY <1>2, <1>5
  <1>7. Hit(glob, s) <=> \E i \in 1 .. m + 1 : \E k \in i - 1 .. m : (rooted => i = 1) /\ Covers(glob, s, i, k)
    BY <1>4, <1>6, HitIs
  <1>8. Names(line, path) <=>
            \E i \in 2 .. m + 1 : \E k \in i - 1 .. m : (rooted => i = 2) /\ Covers(rest, s, i, k)
    <2>1. Names(line, path) <=>
              \E i \in 1 .. n + 1 : \E k \in i - 1 .. n : (rooted => i = 1) /\ Covers(rest, path, i, k)
      <3>1. Names(line, path) <=> NamedAt(Rest(line.glob), Rooted(line.glob), path, n)
        BY <1>2, NamesIs
      <3>2. Rest(line.glob) = rest /\ Rooted(line.glob) = rooted
        BY <1>1, <1>3, <1>4
      <3>. QED
        BY <3>1, <3>2 DEF NamedAt
    <2>2. \A i \in 1 .. n + 1 : \A k \in i - 1 .. n :
              i + 1 \in 2 .. m + 1 /\ k + 1 \in (i + 1) - 1 .. m /\ (i = 1 <=> i + 1 = 2)
      BY <1>5
    <2>3. \A i \in 2 .. m + 1 : \A k \in i - 1 .. m :
              /\ i - 1 \in 1 .. n + 1 /\ k - 1 \in (i - 1) - 1 .. n /\ (i = 2 <=> i - 1 = 1)
              /\ (i - 1) + 1 = i /\ (k - 1) + 1 = k
      BY <1>5
    <2>4. ASSUME NEW i \in 1 .. n + 1, NEW k \in i - 1 .. n, rooted => i = 1, Covers(rest, path, i, k)
          PROVE  \E j \in 2 .. m + 1 : \E l \in j - 1 .. m : (rooted => j = 2) /\ Covers(rest, s, j, l)
      <3>1. Covers(rest, s, i + 1, k + 1)
        BY <1>6, <2>4
      <3>. QED
        BY <2>2, <2>4, <3>1
    <2>5. ASSUME NEW i \in 2 .. m + 1, NEW k \in i - 1 .. m, rooted => i = 2, Covers(rest, s, i, k)
          PROVE  \E j \in 1 .. n + 1 : \E l \in j - 1 .. n : (rooted => j = 1) /\ Covers(rest, path, j, l)
      <3>1. i - 1 \in 1 .. n + 1 /\ k - 1 \in (i - 1) - 1 .. n /\ (i = 2 <=> i - 1 = 1)
        BY <2>3
      <3>2. Covers(rest, s, (i - 1) + 1, (k - 1) + 1)
        BY <2>3, <2>5
      <3>3. Covers(rest, path, i - 1, k - 1)
        BY <1>6, <3>1, <3>2
      <3>. QED
        BY <2>5, <3>1, <3>3
    <2>. QED
      BY <2>1, <2>4, <2>5
  <1>9. CASE glob = <<>>
    <2>1. rest = <<>> /\ ~ rooted
      BY <1>3, <1>4, <1>9 DEF Rest, Rooted
    <2>2. 1 \in Nat \ {0} /\ 2 \in Nat \ {0} /\ 0 \in Nat /\ 1 \in Nat /\ 0 < 1 /\ 1 < 2
      OBVIOUS
    <2>3. Covers(<<>>, s, 1, 0) /\ Covers(<<>>, s, 2, 1)
      BY <2>2, CoversNone
    <2>4. 1 \in 1 .. m + 1 /\ 0 \in 1 - 1 .. m /\ 2 \in 2 .. m + 1 /\ 1 \in 2 - 1 .. m
      BY <1>5
    <2>5. Hit(glob, s)
      BY <1>7, <1>9, <2>1, <2>3, <2>4
    <2>6. Names(line, path)
      BY <1>8, <2>1, <2>3, <2>4
    <2>. QED
      BY <1>1, <2>5, <2>6
  <1>10. ASSUME glob # <<>>
         PROVE  \A i \in 1 .. m + 1 : \A k \in i - 1 .. m :
                    Covers(glob, s, i, k) <=>
                        \E l \in i - 1 .. k : /\ i <= l /\ Covers(Tail(glob), s, l + 1, k)
                                              /\ glob[1].many \/ (i = l /\ s[i] \in glob[1].names)
    <2> SUFFICES ASSUME NEW i \in 1 .. m + 1, NEW k \in i - 1 .. m
                 PROVE  Covers(glob, s, i, k) <=>
                            \E l \in i - 1 .. k : /\ i <= l /\ Covers(Tail(glob), s, l + 1, k)
                                                  /\ glob[1].many \/ (i = l /\ s[i] \in glob[1].names)
      OBVIOUS
    <2>1. i \in Nat \ {0} /\ k \in Nat /\ i - 1 <= k
      OBVIOUS
    <2>. QED
      BY <1>10, <2>1, CoversHead
  <1>11. CASE glob # <<>> /\ rooted
    <2>1. rest = Tail(glob) /\ glob[1] = Root
      BY <1>3, <1>4, <1>11 DEF Rest, Rooted
    <2>2. ~ glob[1].many /\ Empty \in glob[1].names
      BY <2>1, Globs DEF Empty
    <2>3. 1 \in 1 .. m + 1 /\ 2 \in 2 .. m + 1
      BY <1>5
    <2>4. \A k \in 0 .. m : Covers(glob, s, 1, k) <=> 1 <= k /\ Covers(rest, s, 2, k)
      <3> SUFFICES ASSUME NEW k \in 0 .. m PROVE Covers(glob, s, 1, k) <=> 1 <= k /\ Covers(rest, s, 2, k)
        OBVIOUS
      <3>1. Covers(glob, s, 1, k) <=> \E l \in 0 .. k : /\ 1 <= l /\ Covers(rest, s, l + 1, k) /\ 1 = l
        <4>1. 1 - 1 = 0
          OBVIOUS
        <4>2. k \in 1 - 1 .. m
          BY <4>1
        <4>3. Covers(glob, s, 1, k) <=>
                  \E l \in 1 - 1 .. k : /\ 1 <= l /\ Covers(Tail(glob), s, l + 1, k)
                                        /\ glob[1].many \/ (1 = l /\ s[1] \in glob[1].names)
          BY <1>10, <1>11, <2>3, <4>2
        <4>. QED
          BY <1>6, <2>1, <2>2, <4>1, <4>3
      <3>2. 1 <= k => 1 \in 0 .. k /\ 1 + 1 = 2
        OBVIOUS
      <3>3. \A l \in 0 .. k : 1 = l => 1 <= k /\ l + 1 = 2
        OBVIOUS
      <3>. QED
        BY <3>1, <3>2, <3>3
    <2>5. Hit(glob, s) <=> \E k \in 0 .. m : Covers(glob, s, 1, k)
      <3>1. 1 - 1 = 0
        OBVIOUS
      <3>. QED
        BY <1>7, <1>11, <2>3, <3>1
    <2>6. Names(line, path) <=> \E k \in 1 .. m : Covers(rest, s, 2, k)
      <3>1. 2 - 1 = 1
        OBVIOUS
      <3>. QED
        BY <1>8, <1>11, <2>3, <3>1
    <2>7. \A k \in 0 .. m : 1 <= k <=> k \in 1 .. m
      OBVIOUS
    <2>8. \A k \in 1 .. m : k \in 0 .. m
      OBVIOUS
    <2>. QED
      BY <1>1, <2>4, <2>5, <2>6, <2>7, <2>8
  <1>12. CASE glob # <<>> /\ ~ rooted /\ glob[1] = Stars
    <2>1. rest = Tail(glob) /\ glob[1].many
      BY <1>3, <1>12, Globs DEF Rest
    <2>2. \A i \in 1 .. m + 1 : \A k \in i - 1 .. m :
              Covers(glob, s, i, k) <=> \E l \in i - 1 .. k : i <= l /\ Covers(rest, s, l + 1, k)
      BY <1>10, <1>12, <2>1
    <2>3. ASSUME Hit(glob, s) PROVE Names(line, path)
      <3>0. PICK i \in 1 .. m + 1 : \E k \in i - 1 .. m : Covers(glob, s, i, k)
        BY <1>7, <2>3
      <3>1. PICK k \in i - 1 .. m : Covers(glob, s, i, k)
        BY <3>0
      <3>2. PICK l \in i - 1 .. k : i <= l /\ Covers(rest, s, l + 1, k)
        BY <2>2, <3>1
      <3>3. l + 1 \in 2 .. m + 1 /\ k \in (l + 1) - 1 .. m
        BY <3>2
      <3>. QED
        BY <1>8, <1>12, <3>2, <3>3
    <2>4. ASSUME Names(line, path) PROVE Hit(glob, s)
      <3>0. PICK i \in 2 .. m + 1 : \E k \in i - 1 .. m : Covers(rest, s, i, k)
        BY <1>8, <2>4
      <3>1. PICK k \in i - 1 .. m : Covers(rest, s, i, k)
        BY <3>0
      <3>2. 1 \in 1 .. m + 1 /\ k \in 1 - 1 .. m /\ i - 1 \in 1 - 1 .. k /\ 1 <= i - 1 /\ (i - 1) + 1 = i
        OBVIOUS
      <3>3. Covers(glob, s, 1, k)
        BY <2>2, <3>1, <3>2
      <3>. QED
        BY <1>7, <1>12, <3>2, <3>3
    <2>. QED
      BY <1>1, <2>3, <2>4
  <1>13. CASE ~ rooted /\ glob = <<Star>>
    <2>1. path[1] \in Name /\ 0 < n
      BY <1>2
    <2>2. PICK star \in Component : star = Star /\ star.names = Character
      BY Globs
    <2>3. s[1] \in star.names /\ s[2] \in star.names
      <3>1. 1 \in 1 .. m /\ 2 \in 1 .. m
        BY <1>5, <2>1
      <3>. QED
        BY <1>6, <2>2, <3>1
    <2>4. Covers(<<star>>, s, 1, 1) /\ Covers(<<star>>, s, 2, 2)
      <3>1. ASSUME NEW a \in Nat \ {0}, s[a] \in star.names PROVE Covers(<<star>>, s, a, a)
        <4>1. PICK b \in Nat : b = a
          OBVIOUS
        <4>2. Covers(<<star>>, s, a, b) <=> a <= b /\ (star.many \/ (a = b /\ s[a] \in star.names))
          BY CoversOne
        <4>. QED
          BY <3>1, <4>1, <4>2
      <3>2. 1 \in Nat \ {0} /\ 2 \in Nat \ {0}
        OBVIOUS
      <3>. QED
        BY <2>3, <3>1, <3>2
    <2>5. 1 \in 1 .. m + 1 /\ 1 \in 1 - 1 .. m /\ 2 \in 2 .. m + 1 /\ 2 \in 2 - 1 .. m
      BY <1>5, <2>1
    <2>6. Hit(glob, s)
      BY <1>7, <1>13, <2>2, <2>4, <2>5
    <2>7. rest = glob
      <3>1. Star # Stars
        BY Globs
      <3>2. glob[1] = Star
        BY <1>13
      <3>. QED
        BY <1>3, <1>4, <1>13, <3>1, <3>2 DEF Rest
    <2>8. Names(line, path)
      BY <1>8, <1>13, <2>2, <2>4, <2>5, <2>7
    <2>. QED
      BY <1>1, <2>6, <2>8
  <1>14. CASE glob # <<>> /\ ~ rooted /\ glob[1] # Stars /\ glob # <<Star>>
    <2>1. rest = glob
      BY <1>3, <1>4, <1>14 DEF Rest
    <2>2. ~ glob[1].many /\ Empty \notin glob[1].names
      <3>1. 1 \in DOMAIN glob /\ glob[1] \in Component
        BY <1>14
      <3>2. glob[1].many \in BOOLEAN
        BY <3>1 DEF Component
      <3>. QED
        BY <1>1, <1>4, <1>14, <3>1, <3>2 DEF Unambiguous, Empty
    <2>3. \A k \in 1 - 1 .. m : ~ Covers(glob, s, 1, k)
      <3>1. 1 \in 1 .. m + 1
        OBVIOUS
      <3>. QED
        BY <1>6, <1>10, <1>14, <2>2, <3>1
    <2>4. \A i \in 1 .. m + 1 : i = 1 \/ i \in 2 .. m + 1
      OBVIOUS
    <2>5. \A i \in 2 .. m + 1 : i \in 1 .. m + 1
      OBVIOUS
    <2>. QED
      BY <1>1, <1>7, <1>8, <1>14, <2>1, <2>3, <2>4, <2>5
  <1>. QED
    BY <1>9, <1>11, <1>12, <1>13, <1>14

LEMMA HitIsNamed ==
    ASSUME NEW line, line.glob \in Seq(Component), Unambiguous(line.glob),
           NEW path \in Seq(Name), path # <<>>, NEW s, s = <<Empty>> \o path
    PROVE  Hit(line.glob, s) <=> Names(line, path)
  <1>1. Len(path) \in Nat
    BY LenProperties
  <1>2. /\ s \in Seq(Character) /\ Len(s) = Len(path) + 1 /\ s[1] = Empty
        /\ \A g : \A i \in 1 .. Len(path) + 1 : \A k \in i - 1 .. Len(path) :
               Covers(g, s, i + 1, k + 1) <=> Covers(g, path, i, k)
    BY <1>1, Slashed
  <1>3. PICK z : z = s
    OBVIOUS
  <1>4. Hit(line.glob, z) <=> Names(line, path)
    BY <1>2, <1>3, HitIsNamedSlashed
  <1>. QED
    BY <1>3, <1>4

\* So does a line without a slash or "**" in front, given the path as it is.
LEMMA HitIsNamedAnywhere ==
    ASSUME NEW line, line.glob \in Seq(Component), Unambiguous(line.glob), NEW path \in Seq(Name),
           ~ Rooted(line.glob), line.glob # <<>> => line.glob[1] # Stars
    PROVE  Hit(line.glob, path) <=> Names(line, path)
  <1>1. PICK n \in Nat : n = Len(path)
    BY LenProperties
  <1>2. path \in Seq(Character)
    <2>1. Name \subseteq Character
      BY DEF Character
    <2>. QED
      BY <2>1
  <1>3. Rest(line.glob) = line.glob
    BY DEF Rest
  <1>. QED
    BY <1>1, <1>2, <1>3, HitIs, NamesIs DEF NamedAt

\* The flattening of n sequences, as FlattenSeq goes through them.
Chained(n, ss, g) == g = [i \in 1 .. n |-> IF i = 1 THEN ss[i] ELSE g[i - 1] \o ss[i]]

LEMMA ChainExists ==
    ASSUME NEW n \in Nat, NEW ss PROVE \E g : Chained(n, ss, g)
  <1> DEFINE Without == {k \in 0 .. n : ~ \E g : Chained(k, ss, g)}
  <1>1. SUFFICES ASSUME Without # {} PROVE FALSE
    OBVIOUS
  <1>2. PICK k \in Without : \A m \in Without : k <= m
    <2>1. Without \in SUBSET Nat
      OBVIOUS
    <2> HIDE DEF Without
    <2>. QED
      BY <1>1, <2>1, LeastNumber
  <1>3. k # 0
    <2>1. Chained(0, ss, <<>>)
      BY DEF Chained
    <2>. QED
      BY <2>1
  <1>4. PICK g : Chained(k - 1, ss, g)
    BY <1>2, <1>3
  <1> DEFINE h == [i \in 1 .. k |-> IF i = 1 THEN ss[i] ELSE g[i - 1] \o ss[i]]
  <1>5. \A i \in 1 .. k - 1 : h[i] = g[i]
    <2>1. \A i \in 1 .. k - 1 : i \in 1 .. k
      OBVIOUS
    <2>2. \A i \in 1 .. k - 1 : g[i] = IF i = 1 THEN ss[i] ELSE g[i - 1] \o ss[i]
      BY <1>4 DEF Chained
    <2>. QED
      BY <2>1, <2>2
  <1>6. \A i \in 1 .. k : h[i] = IF i = 1 THEN ss[i] ELSE h[i - 1] \o ss[i]
    <2> SUFFICES ASSUME NEW i \in 1 .. k PROVE h[i] = IF i = 1 THEN ss[i] ELSE h[i - 1] \o ss[i]
      OBVIOUS
    <2>1. i # 1 => i - 1 \in 1 .. k - 1
      OBVIOUS
    <2>2. i # 1 => h[i - 1] = g[i - 1]
      BY <1>5, <2>1
    <2>. QED
      BY <2>2
  <1>7. Chained(k, ss, h)
    <2>1. h = [i \in 1 .. k |-> h[i]]
      OBVIOUS
    <2> HIDE DEF h
    <2>. QED
      BY <1>6, <2>1 DEF Chained
  <1>. QED
    BY <1>7

\* s is the first k of ss one after the other: the entry at x is of the
\* sequence of[x].
Strung(s, of, ss, k) ==
    /\ of \in [DOMAIN s -> 1 .. k]
    /\ \A x \in DOMAIN s, y \in DOMAIN s : x < y => of[x] <= of[y]
    /\ \A x \in DOMAIN s : \E q \in DOMAIN ss[of[x]] : s[x] = ss[of[x]][q]
    /\ \A l \in 1 .. k : \A q \in DOMAIN ss[l] : \E x \in DOMAIN s : of[x] = l /\ s[x] = ss[l][q]

LEMMA StrungOne ==
    ASSUME NEW T, NEW ss, ss[1] \in Seq(T)
    PROVE  \E of : Strung(ss[1], of, ss, 1)
  <1>1. PICK of : of = [x \in DOMAIN ss[1] |-> 1]
    OBVIOUS
  <1>2. of \in [DOMAIN ss[1] -> 1 .. 1] /\ \A x \in DOMAIN ss[1] : of[x] = 1
    BY <1>1
  <1>3. \A l \in 1 .. 1 : l = 1
    OBVIOUS
  <1>4. \A x \in DOMAIN ss[1], y \in DOMAIN ss[1] : of[x] <= of[y]
    BY <1>2
  <1>. QED
    BY <1>2, <1>3, <1>4 DEF Strung

LEMMA StrungNext ==
    ASSUME NEW T, NEW ss, NEW k \in Nat \ {0}, ss[k + 1] \in Seq(T), NEW s \in Seq(T),
           NEW of, Strung(s, of, ss, k)
    PROVE  \E h : Strung(s \o ss[k + 1], h, ss, k + 1)
  <1>1. PICK r \in Seq(T) : r = ss[k + 1]
    OBVIOUS
  <1>2. PICK L \in Nat : L = Len(s)
    OBVIOUS
  <1>3. PICK R \in Nat : R = Len(r)
    OBVIOUS
  <1>4. PICK sr : sr = s \o r
    OBVIOUS
  <1>5. /\ DOMAIN s = 1 .. L /\ DOMAIN r = 1 .. R /\ DOMAIN sr = 1 .. L + R
        /\ \A x \in 1 .. L : sr[x] = s[x]
        /\ \A x \in 1 .. R : sr[L + x] = r[x]
    BY <1>2, <1>3, <1>4, Concatenated
  <1>6. PICK h : h = [x \in 1 .. L + R |-> IF x <= L THEN of[x] ELSE k + 1]
    OBVIOUS
  <1>7. \A x \in 1 .. L : x \in 1 .. L + R /\ x <= L /\ h[x] = of[x]
    BY <1>6
  <1>8. \A x \in 1 .. R : L + x \in 1 .. L + R /\ ~ (L + x <= L) /\ h[L + x] = k + 1
    BY <1>6
  <1>9. \A x \in 1 .. L + R : x \in 1 .. L \/ (x - L \in 1 .. R /\ L + (x - L) = x)
    OBVIOUS
  <1>10. \A x \in 1 .. L : of[x] \in 1 .. k
    BY <1>5 DEF Strung
  <1>11. \A x \in 1 .. L + R : h[x] \in 1 .. k + 1
    <2> SUFFICES ASSUME NEW x \in 1 .. L + R PROVE h[x] \in 1 .. k + 1
      OBVIOUS
    <2>1. CASE x \in 1 .. L
      BY <2>1, <1>7, <1>10
    <2>2. CASE x - L \in 1 .. R /\ L + (x - L) = x
      <3>1. h[L + (x - L)] = k + 1
        BY <1>8, <2>2
      <3>. QED
        BY <2>2, <3>1
    <2>. QED
      BY <1>9, <2>1, <2>2
  <1>12. h \in [1 .. L + R -> 1 .. k + 1]
    <2>1. h = [x \in 1 .. L + R |-> h[x]]
      BY <1>6
    <2>. QED
      BY <1>11, <2>1
  <1>13. ASSUME NEW x \in 1 .. L + R, NEW y \in 1 .. L + R, x < y PROVE h[x] <= h[y]
    <2>1. CASE y \in 1 .. L
      <3>1. x \in 1 .. L
        BY <1>13, <2>1
      <3>2. of[x] <= of[y]
        BY <1>5, <1>13, <2>1, <3>1 DEF Strung
      <3>. QED
        BY <1>7, <2>1, <3>1, <3>2
    <2>2. CASE y - L \in 1 .. R /\ L + (y - L) = y
      <3>1. h[L + (y - L)] = k + 1
        BY <1>8, <2>2
      <3>2. h[x] \in 1 .. k + 1
        BY <1>11
      <3>. QED
        BY <2>2, <3>1, <3>2
    <2>. QED
      BY <1>9, <2>1, <2>2
  <1>14. ASSUME NEW x \in 1 .. L + R PROVE \E q \in DOMAIN ss[h[x]] : sr[x] = ss[h[x]][q]
    <2>1. CASE x \in 1 .. L
      <3>1. \E q \in DOMAIN ss[of[x]] : s[x] = ss[of[x]][q]
        BY <1>5, <2>1 DEF Strung
      <3>. QED
        BY <1>5, <1>7, <2>1, <3>1
    <2>2. CASE x - L \in 1 .. R /\ L + (x - L) = x
      <3>1. h[L + (x - L)] = k + 1 /\ sr[L + (x - L)] = r[x - L]
        BY <1>5, <1>8, <2>2
      <3>. QED
        BY <1>1, <1>5, <2>2, <3>1
    <2>. QED
      BY <1>9, <2>1, <2>2
  <1>15. ASSUME NEW l \in 1 .. k + 1, NEW q \in DOMAIN ss[l]
         PROVE  \E x \in 1 .. L + R : h[x] = l /\ sr[x] = ss[l][q]
    <2>1. CASE l \in 1 .. k
      <3>1. PICK x \in 1 .. L : of[x] = l /\ s[x] = ss[l][q]
        BY <1>5, <1>15, <2>1 DEF Strung
      <3>. QED
        BY <1>5, <1>7, <3>1
    <2>2. CASE l = k + 1
      <3>1. q \in 1 .. R
        BY <1>1, <1>5, <1>15, <2>2
      <3>2. L + q \in 1 .. L + R /\ h[L + q] = l /\ sr[L + q] = ss[l][q]
        BY <1>1, <1>5, <1>8, <2>2, <3>1
      <3>. QED
        BY <3>2
    <2>3. l \in 1 .. k \/ l = k + 1
      OBVIOUS
    <2>. QED
      BY <2>1, <2>2, <2>3
  <1>16. Strung(sr, h, ss, k + 1)
    <2>0. DOMAIN sr = 1 .. L + R
      BY <1>5
    <2>1. h \in [DOMAIN sr -> 1 .. k + 1]
      BY <2>0, <1>12
    <2>2. \A x \in DOMAIN sr, y \in DOMAIN sr : x < y => h[x] <= h[y]
      BY <2>0, <1>13
    <2>3. \A x \in DOMAIN sr : \E q \in DOMAIN ss[h[x]] : sr[x] = ss[h[x]][q]
      BY <2>0, <1>14
    <2>4. \A l \in 1 .. k + 1 : \A q \in DOMAIN ss[l] : \E x \in DOMAIN sr : h[x] = l /\ sr[x] = ss[l][q]
      <3> SUFFICES ASSUME NEW l \in 1 .. k + 1, NEW q \in DOMAIN ss[l]
                   PROVE  \E x \in DOMAIN sr : h[x] = l /\ sr[x] = ss[l][q]
        OBVIOUS
      <3>1. PICK x \in 1 .. L + R : h[x] = l /\ sr[x] = ss[l][q]
        BY <1>15
      <3>. QED
        BY <2>0, <3>1
    <2>. QED
      BY <2>1, <2>2, <2>3, <2>4 DEF Strung
  <1>. QED
    BY <1>1, <1>4, <1>16

LEMMA FlattenStrings ==
    ASSUME NEW T, NEW n \in Nat \ {0}, NEW ss, ss = [i \in 1 .. n |-> ss[i]],
           \A i \in 1 .. n : ss[i] \in Seq(T)
    PROVE  FlattenSeq(ss) \in Seq(T) /\ \E of : Strung(FlattenSeq(ss), of, ss, n)
  <1>1. DOMAIN ss = 1 .. n /\ Len(ss) = n
    <2>1. ss \in Seq(Seq(T))
      OBVIOUS
    <2>. QED
      BY <2>1
  <1>2. PICK f : f = CHOOSE g : Chained(n, ss, g)
    OBVIOUS
  <1>3. Chained(n, ss, f)
    BY <1>2, ChainExists
  <1>4. FlattenSeq(ss) = f[n]
    BY <1>1, <1>2 DEF FlattenSeq, Chained
  <1>5. \A i \in 1 .. n : f[i] = IF i = 1 THEN ss[i] ELSE f[i - 1] \o ss[i]
    BY <1>3 DEF Chained
  <1> DEFINE Fine(k) == f[k] \in Seq(T) /\ \E of : Strung(f[k], of, ss, k)
             Odd == {k \in 1 .. n : ~ Fine(k)}
  <1>6. ASSUME Odd # {} PROVE FALSE
    <2>1. PICK k \in Odd : \A m \in Odd : k <= m
      <3>1. Odd \in SUBSET Nat
        OBVIOUS
      <3> HIDE DEF Odd
      <3>. QED
        BY <1>6, <3>1, LeastNumber
    <2>2. k \in 1 .. n /\ ~ Fine(k)
      BY <2>1
    <2>3. CASE k = 1
      <3>1. f[1] = ss[1] /\ ss[1] \in Seq(T)
        BY <1>5, <2>2, <2>3
      <3>. QED
        BY <2>2, <2>3, <3>1, StrungOne
    <2>4. CASE k # 1
      <3>1. PICK j \in Nat \ {0} : j = k - 1
        BY <2>2, <2>4
      <3>2. j \in 1 .. n /\ ~ (k <= j) /\ k = j + 1
        BY <2>2, <2>4, <3>1
      <3>3. Fine(j)
        <4> HIDE DEF Fine
        <4>. QED
          BY <2>1, <3>2
      <3>4. f[j] \in Seq(T) /\ \E of : Strung(f[j], of, ss, j)
        BY <3>3
      <3>5. f[k] = f[j] \o ss[j + 1] /\ ss[j + 1] \in Seq(T)
        BY <1>5, <2>2, <2>4, <3>1, <3>2
      <3>6. \E h : Strung(f[j] \o ss[j + 1], h, ss, j + 1)
        <4>1. PICK of : Strung(f[j], of, ss, j)
          BY <3>4
        <4>. QED
          BY <3>4, <3>5, <4>1, StrungNext
      <3>7. f[j] \o ss[j + 1] \in Seq(T)
        BY <3>4, <3>5
      <3>. QED
        BY <2>2, <3>2, <3>5, <3>6, <3>7
    <2>. QED
      BY <2>3, <2>4
  <1>7. Fine(n)
    <2>1. n \in 1 .. n
      OBVIOUS
    <2> HIDE DEF Fine
    <2>. QED
      BY <1>6, <2>1
  <1>. QED
    BY <1>4, <1>7

LEMMA GreatestNumber ==
    ASSUME NEW n \in Nat, NEW S \in SUBSET (1 .. n), S # {}
    PROVE  Max(S) \in S /\ \A k \in S : k <= Max(S)
  <1>1. PICK T \in SUBSET Nat : T = {n - k : k \in S}
    <2>1. \A k \in S : n - k \in Nat
      OBVIOUS
    <2>. QED
      BY <2>1
  <1>2. T # {}
    BY <1>1
  <1>3. PICK m \in T : \A k \in T : m <= k
    BY <1>2, LeastNumber
  <1>4. PICK x \in S : m = n - x
    BY <1>1, <1>3
  <1>5. \A k \in S : x >= k
    <2> SUFFICES ASSUME NEW k \in S PROVE x >= k
      OBVIOUS
    <2>1. m <= n - k
      BY <1>1, <1>3
    <2>2. k \in Int /\ x \in Int
      OBVIOUS
    <2>. QED
      BY <1>4, <2>1, <2>2
  <1>6. Max(S) \in S /\ \A k \in S : Max(S) >= k
    BY <1>5 DEF Max
  <1>7. \A k \in S, z \in S : z >= k => k <= z
    OBVIOUS
  <1>. QED
    BY <1>6, <1>7

\* The entries in hits are of the sequences in naming.
HitsName(hits, naming, of, m, n) ==
    /\ of \in [1 .. m -> 1 .. n] /\ hits \in SUBSET (1 .. m) /\ naming \in SUBSET (1 .. n)
    /\ \A x \in 1 .. m, y \in 1 .. m : x < y => of[x] <= of[y]
    /\ \A x \in hits : of[x] \in naming
    /\ \A l \in naming : \E x \in hits : of[x] = l

\* Of what is strung together from sequences, the last entry with some property
\* is of the last sequence with such an entry.
LEMMA LastDecides ==
    ASSUME NEW m \in Nat, NEW n \in Nat, NEW of, NEW hits, NEW naming,
           HitsName(hits, naming, of, m, n)
    PROVE  /\ hits = {} <=> naming = {}
           /\ hits # {} => Max(hits) \in 1 .. m /\ of[Max(hits)] = Max(naming)
  <1>0. /\ of \in [1 .. m -> 1 .. n] /\ hits \in SUBSET (1 .. m) /\ naming \in SUBSET (1 .. n)
        /\ \A x \in 1 .. m, y \in 1 .. m : x < y => of[x] <= of[y]
        /\ \A x \in hits : of[x] \in naming
        /\ \A l \in naming : \E x \in hits : of[x] = l
    BY DEF HitsName
  <1>1. hits = {} <=> naming = {}
    BY <1>0
  <1>2. ASSUME hits # {} PROVE Max(hits) \in 1 .. m /\ of[Max(hits)] = Max(naming)
    <2>1. PICK h \in hits : h = Max(hits) /\ \A x \in hits : x <= h
      BY <1>0, <1>2, GreatestNumber
    <2>2. PICK l \in naming : l = Max(naming) /\ \A k \in naming : k <= l
      BY <1>0, <1>1, <1>2, GreatestNumber
    <2>3. PICK x \in hits : of[x] = l
      BY <1>0
    <2>4. x \in 1 .. m /\ h \in 1 .. m /\ x <= h
      BY <1>0, <2>1
    <2>5. l <= of[h]
      <3>1. CASE x = h
        <4>1. l \in Int
          BY <1>0
        <4>. QED
          BY <2>3, <3>1, <4>1
      <3>2. CASE x < h
        BY <1>0, <2>3, <2>4, <3>2
      <3>. QED
        BY <2>4, <3>1, <3>2
    <2>6. of[h] <= l
      BY <1>0, <2>1, <2>2
    <2>7. of[h] \in Int /\ l \in Int
      BY <1>0, <2>4
    <2>8. of[h] = l
      BY <2>5, <2>6, <2>7
    <2>. QED
      BY <2>1, <2>2, <2>4, <2>8
  <1>. QED
    BY <1>1, <1>2

Pattern == [exclude : BOOLEAN, glob : Seq(Component)]
PatternsOf(line) ==
    [q \in DOMAIN GlobsForPattern(line.glob) |->
        [exclude |-> line.exclude, glob |-> GlobsForPattern(line.glob)[q]]]

\* The pattern at x is one of the line of[x].
Parsed(s, of, lines, n) ==
    /\ of \in [DOMAIN s -> 1 .. n]
    /\ \A x \in DOMAIN s, y \in DOMAIN s : x < y => of[x] <= of[y]
    /\ \A x \in DOMAIN s : /\ s[x].exclude = lines[of[x]].exclude
                           /\ \E q \in DOMAIN GlobsForPattern(lines[of[x]].glob) :
                                  s[x].glob = GlobsForPattern(lines[of[x]].glob)[q]
    /\ \A l \in 1 .. n : \A q \in DOMAIN GlobsForPattern(lines[l].glob) :
           \E x \in DOMAIN s : of[x] = l /\ s[x].glob = GlobsForPattern(lines[l].glob)[q]

LEMMA ParsedLines ==
    ASSUME NEW lines \in Seq(Line), NEW n \in Nat \ {0}, n = Len(lines)
    PROVE  ParsePatterns(lines) \in Seq(Pattern) /\ \E of : Parsed(ParsePatterns(lines), of, lines, n)
  <1>1. PICK ss : ss = [k \in 1 .. n |-> PatternsOf(lines[k])]
    OBVIOUS
  <1>2. DOMAIN lines = 1 .. n /\ \A k \in 1 .. n : lines[k] \in Line
    OBVIOUS
  <1>3. ParsePatterns(lines) = FlattenSeq(ss)
    BY <1>1, <1>2 DEF ParsePatterns, PatternsOf
  <1>4. ASSUME NEW k \in 1 .. n
        PROVE  /\ ss[k] \in Seq(Pattern) /\ ss[k] = PatternsOf(lines[k])
               /\ DOMAIN ss[k] = DOMAIN GlobsForPattern(lines[k].glob)
               /\ \A q \in DOMAIN ss[k] : /\ ss[k][q].exclude = lines[k].exclude
                                          /\ ss[k][q].glob = GlobsForPattern(lines[k].glob)[q]
    <2>1. PICK globs : globs = GlobsForPattern(lines[k].glob)
      OBVIOUS
    <2>2. lines[k].glob \in Seq(Component) /\ lines[k].exclude \in BOOLEAN
      BY <1>2 DEF Line
    <2>3. globs \in Seq(Seq(Component))
      BY <2>1, <2>2, GlobsAre
    <2>4. ss[k] = [q \in DOMAIN globs |-> [exclude |-> lines[k].exclude, glob |-> globs[q]]]
      BY <1>1, <2>1 DEF PatternsOf
    <2>5. PICK g \in Nat : g = Len(globs) /\ DOMAIN globs = 1 .. g /\ \A q \in 1 .. g : globs[q] \in Seq(Component)
      BY <2>3
    <2>6. \A q \in 1 .. g : [exclude |-> lines[k].exclude, glob |-> globs[q]] \in Pattern
      BY <2>2, <2>5 DEF Pattern
    <2>7. ss[k] \in Seq(Pattern)
      BY <2>4, <2>5, <2>6
    <2>. QED
      BY <1>1, <2>1, <2>4, <2>7
  <1>5. FlattenSeq(ss) \in Seq(Pattern) /\ \E of : Strung(FlattenSeq(ss), of, ss, n)
    <2>1. ss = [k \in 1 .. n |-> ss[k]]
      BY <1>1
    <2>2. \A k \in 1 .. n : ss[k] \in Seq(Pattern)
      BY <1>4
    <2>. QED
      BY <2>1, <2>2, FlattenStrings
  <1>6. PICK s : s = FlattenSeq(ss)
    OBVIOUS
  <1>7. PICK of : Strung(s, of, ss, n)
    BY <1>5, <1>6
  <1>8. of \in [DOMAIN s -> 1 .. n] /\ \A x \in DOMAIN s, y \in DOMAIN s : x < y => of[x] <= of[y]
    BY <1>7 DEF Strung
  <1>9. ASSUME NEW x \in DOMAIN s
        PROVE  /\ s[x].exclude = lines[of[x]].exclude
               /\ \E q \in DOMAIN GlobsForPattern(lines[of[x]].glob) :
                      s[x].glob = GlobsForPattern(lines[of[x]].glob)[q]
    <2>1. PICK l \in 1 .. n : l = of[x]
      BY <1>8
    <2>2. PICK q \in DOMAIN ss[l] : s[x] = ss[l][q]
      BY <1>7, <2>1 DEF Strung
    <2>3. /\ DOMAIN ss[l] = DOMAIN GlobsForPattern(lines[l].glob)
          /\ s[x].exclude = lines[l].exclude /\ s[x].glob = GlobsForPattern(lines[l].glob)[q]
      BY <1>4, <2>2
    <2>4. q \in DOMAIN GlobsForPattern(lines[l].glob)
      BY <2>2, <2>3
    <2>. QED
      BY <2>1, <2>3, <2>4
  <1>10. ASSUME NEW l \in 1 .. n, NEW q \in DOMAIN GlobsForPattern(lines[l].glob)
         PROVE  \E x \in DOMAIN s : of[x] = l /\ s[x].glob = GlobsForPattern(lines[l].glob)[q]
    <2>1. q \in DOMAIN ss[l] /\ ss[l][q].glob = GlobsForPattern(lines[l].glob)[q]
      BY <1>4
    <2>2. PICK x \in DOMAIN s : of[x] = l /\ s[x] = ss[l][q]
      BY <1>7, <2>1 DEF Strung
    <2>. QED
      BY <2>1, <2>2
  <1>11. Parsed(s, of, lines, n)
    BY <1>8, <1>9, <1>10 DEF Parsed
  <1>. QED
    BY <1>3, <1>5, <1>6, <1>11

LEMMA RootedGlobs ==
    ASSUME NEW glob \in Seq(Component), glob # <<>>, NEW q \in DOMAIN GlobsForPattern(glob)
    PROVE  Rooted(GlobsForPattern(glob)[q]) <=> Rooted(glob)
  <1>1. ASSUME NEW g \in Seq(Component), g # <<>>, NEW x \in Below(g)
        PROVE  x # <<>> /\ x[1] = g[1]
    <2>1. ASSUME NEW h \in Seq(Component) PROVE g \o h # <<>> /\ (g \o h)[1] = g[1]
      <3>1. PICK L \in Nat : L = Len(g) /\ L # 0
        BY <1>1
      <3>2. PICK H \in Nat : H = Len(h)
        OBVIOUS
      <3>3. Len(g \o h) = L + H /\ 1 \in 1 .. L /\ L + H # 0
        BY <3>1, <3>2
      <3>4. (g \o h)[1] = g[1]
        BY <3>1, <3>3, Concatenated
      <3>. QED
        BY <3>3, <3>4
    <2>2. <<Star>> \in Seq(Component) /\ <<Stars, Star>> \in Seq(Component)
      BY Globs
    <2>3. x = g \/ x = g \o <<Star>> \/ x = g \o <<Stars, Star>>
      BY <1>1 DEF Below
    <2>. QED
      BY <1>1, <2>1, <2>2, <2>3
  <1>2. PICK y : y = GlobsForPattern(glob)[q]
    OBVIOUS
  <1>3. y \in Below(glob) \cup IF Rooted(glob) THEN {} ELSE Below(<<Stars>> \o glob)
    BY <1>2, GlobsAre
  <1>4. CASE y \in Below(glob)
    <2>1. y # <<>> /\ y[1] = glob[1]
      BY <1>1, <1>4
    <2>. QED
      BY <1>2, <2>1 DEF Rooted
  <1>5. CASE ~ Rooted(glob) /\ y \in Below(<<Stars>> \o glob)
    <2>1. PICK g \in Seq(Component) : g = <<Stars>> \o glob /\ g # <<>> /\ g[1] = Stars
      <3>1. Stars \in Component /\ <<Stars>> \in Seq(Component)
        BY Globs
      <3>2. PICK o \in Seq(Component) : o = <<Stars>>
        BY <3>1
      <3>3. Len(o) = 1 /\ o[1] = Stars
        BY <3>2
      <3>4. 1 \in 1 .. Len(o)
        BY <3>3
      <3>5. PICK G \in Nat : G = Len(glob)
        OBVIOUS
      <3>6. o \o glob \in Seq(Component) /\ Len(o \o glob) = 1 + G /\ (o \o glob)[1] = Stars
        <4>1. o \o glob \in Seq(Component) /\ Len(o \o glob) = Len(o) + Len(glob)
          BY Concatenated
        <4>2. \A x \in 1 .. Len(o) : (o \o glob)[x] = o[x]
          BY Concatenated
        <4>. QED
          BY <3>3, <3>4, <3>5, <4>1, <4>2
      <3>7. o \o glob # <<>>
        BY <3>5, <3>6
      <3>. QED
        BY <3>2, <3>6, <3>7
    <2>2. y[1] = Stars
      BY <1>1, <1>5, <2>1
    <2>3. Stars # Root
      BY Globs
    <2>. QED
      BY <1>2, <1>5, <2>2, <2>3 DEF Rooted
  <1>. QED
    BY <1>3, <1>4, <1>5

\* What ParsePatterns is given: the lines there are by default first.
Wanted(lines, n) ==
    /\ lines \in Seq(Line) /\ n = Len(lines) /\ 3 <= n
    /\ \A k \in 1 .. n : Unambiguous(lines[k].glob)
    /\ lines[1].glob # <<>> /\ ~ Rooted(lines[1].glob) /\ lines[1].glob[1] # Stars
    /\ Rooted(lines[2].glob)

LEMMA DefaultLines ==
    ASSUME NEW more \in Seq(Line), \A k \in DOMAIN more : Unambiguous(more[k].glob),
           NEW lines, lines = DefaultIgnoreLines \o more
    PROVE  Wanted(lines, Len(lines))
  <1>1. PICK cf : cf = Literal(".cfignore")
    OBVIOUS
  <1>2. PICK mf : mf = Literal("manifest.yml")
    OBVIOUS
  <1>3. PICK git : git = Literal(".git")
    OBVIOUS
  <1>4. /\ cf \in Component /\ mf \in Component /\ git \in Component
        /\ Empty \notin cf.names /\ Empty \notin git.names /\ Empty \in Root.names
        /\ ~ cf.many /\ ~ mf.many /\ ~ git.many
    <2>1. ".cfignore" \in Name /\ "manifest.yml" \in Name /\ ".git" \in Name /\ Empty \notin Name
      BY NameAssumption DEF Empty
    <2>2. \A a \in Name : /\ Literal(a) \in Component /\ Empty \notin Literal(a).names /\ ~ Literal(a).many
      <3> SUFFICES ASSUME NEW a \in Name
                   PROVE  Literal(a) \in Component /\ Empty \notin Literal(a).names /\ ~ Literal(a).many
        OBVIOUS
      <3>1. Literal(a).names = {a} /\ Literal(a).many = FALSE
        BY DEF Literal
      <3>2. {a} \in SUBSET (Name \cup {""})
        OBVIOUS
      <3>3. Literal(a) \in Component
        BY <3>2 DEF Literal, Component
      <3>4. a # Empty
        BY <2>1
      <3>. QED
        BY <3>1, <3>3, <3>4
    <2>3. Empty \in Root.names
      BY Globs DEF Empty
    <2>. QED
      BY <1>1, <1>2, <1>3, <2>1, <2>2, <2>3
  <1>5. PICK D : D = DefaultIgnoreLines
    OBVIOUS
  <1>6. D = <<Ignore(<<cf>>), Ignore(<<Root, mf>>), Ignore(<<git>>)>>
    BY <1>1, <1>2, <1>3, <1>5 DEF DefaultIgnoreLines
  <1>7. \A g \in Seq(Component) : Ignore(g) \in Line /\ Ignore(g).glob = g
    <2> SUFFICES ASSUME NEW g \in Seq(Component) PROVE Ignore(g) \in Line /\ Ignore(g).glob = g
      OBVIOUS
    <2>1. Ignore(g) = [exclude |-> TRUE, glob |-> g, compiles |-> TRUE]
      BY DEF Ignore
    <2>2. TRUE \in BOOLEAN
      OBVIOUS
    <2>. QED
      BY <2>1, <2>2 DEF Line
  <1>8. <<cf>> \in Seq(Component) /\ <<Root, mf>> \in Seq(Component) /\ <<git>> \in Seq(Component)
    <2>1. PICK r \in Component : r = Root
      BY Globs
    <2>2. <<cf>> \in Seq(Component) /\ <<r, mf>> \in Seq(Component) /\ <<git>> \in Seq(Component)
      BY <1>4
    <2>. QED
      BY <2>1, <2>2
  <1>9. /\ D \in Seq(Line) /\ Len(D) = 3
        /\ D[1].glob = <<cf>> /\ D[2].glob = <<Root, mf>> /\ D[3].glob = <<git>>
    <2>1. PICK a \in Line : a = Ignore(<<cf>>) /\ a.glob = <<cf>>
      BY <1>7, <1>8
    <2>2. PICK b \in Line : b = Ignore(<<Root, mf>>) /\ b.glob = <<Root, mf>>
      BY <1>7, <1>8
    <2>3. PICK c \in Line : c = Ignore(<<git>>) /\ c.glob = <<git>>
      BY <1>7, <1>8
    <2>4. D = <<a, b, c>>
      BY <1>6, <2>1, <2>2, <2>3
    <2>5. D \in Seq(Line) /\ Len(D) = 3 /\ D[1] = a /\ D[2] = b /\ D[3] = c
      BY <2>4
    <2>. QED
      BY <2>1, <2>2, <2>3, <2>5
  <1>10. /\ ~ Rooted(<<cf>>) /\ Rooted(<<Root, mf>>) /\ cf # Stars
         /\ Unambiguous(<<cf>>) /\ Unambiguous(<<Root, mf>>) /\ Unambiguous(<<git>>)
    <2>1. cf # Root /\ git # Root /\ cf # Stars
      BY <1>4, Globs
    <2>2. ~ Rooted(<<cf>>) /\ Rooted(<<Root, mf>>)
      BY <2>1 DEF Rooted
    <2>3. Unambiguous(<<cf>>) /\ Unambiguous(<<git>>)
      <3> SUFFICES ASSUME NEW a, ~ a.many, Empty \notin a.names PROVE Unambiguous(<<a>>)
        BY <1>4
      <3>1. <<a>>[1] = a /\ 2 .. Len(<<a>>) = {}
        OBVIOUS
      <3>. QED
        BY <3>1 DEF Unambiguous, Empty
    <2>4. Unambiguous(<<Root, mf>>)
      <3>1. PICK r : r = Root /\ ~ r.many
        BY Globs
      <3>2. <<r, mf>>[2] = mf /\ \A k \in 2 .. Len(<<r, mf>>) : k = 2
        OBVIOUS
      <3>. QED
        BY <1>4, <2>2, <3>1, <3>2 DEF Unambiguous
    <2>. QED
      BY <2>1, <2>2, <2>3, <2>4
  <1>11. PICK m \in Nat : m = Len(more) /\ DOMAIN more = 1 .. m
    OBVIOUS
  <1>12. PICK n \in Nat : n = 3 + m
    OBVIOUS
  <1>13. /\ lines \in Seq(Line) /\ Len(lines) = n
         /\ \A k \in 1 .. 3 : lines[k] = D[k]
         /\ \A k \in 1 .. m : lines[3 + k] = more[k]
    <2>1. /\ D \o more \in Seq(Line) /\ Len(D \o more) = Len(D) + Len(more)
          /\ \A k \in 1 .. Len(D) : (D \o more)[k] = D[k]
          /\ \A k \in 1 .. Len(more) : (D \o more)[Len(D) + k] = more[k]
      <3>1. D \in Seq(Line)
        BY <1>9
      <3>. QED
        BY <3>1, Concatenated
    <2>. QED
      BY <1>5, <1>9, <1>11, <1>12, <2>1
  <1>14. lines[1].glob = <<cf>> /\ lines[2].glob = <<Root, mf>> /\ lines[3].glob = <<git>>
    <2>1. 1 \in 1 .. 3 /\ 2 \in 1 .. 3 /\ 3 \in 1 .. 3
      OBVIOUS
    <2>. QED
      BY <1>9, <1>13, <2>1
  <1>15. ASSUME NEW k \in 1 .. n PROVE Unambiguous(lines[k].glob)
    <2>1. CASE k \in 1 .. 3
      <3>1. k = 1 \/ k = 2 \/ k = 3
        BY <2>1
      <3>. QED
        BY <1>10, <1>14, <3>1
    <2>2. CASE k - 3 \in 1 .. m /\ 3 + (k - 3) = k
      <3>1. lines[3 + (k - 3)] = more[k - 3]
        BY <1>13, <2>2
      <3>. QED
        BY <1>11, <2>2, <3>1
    <2>3. k \in 1 .. 3 \/ (k - 3 \in 1 .. m /\ 3 + (k - 3) = k)
      BY <1>12
    <2>. QED
      BY <2>1, <2>2, <2>3
  <1>16. <<cf>> # <<>> /\ <<cf>>[1] = cf /\ 3 <= n
    BY <1>12
  <1>. QED
    BY <1>10, <1>13, <1>14, <1>15, <1>16 DEF Wanted

\* Which of the lines name a path.
Naming(lines, path) == {k \in DOMAIN lines : Names(lines[k], path)}

\* The last line that names a path decides.
LEMMA IgnoredIs ==
    ASSUME NEW lines, NEW n \in Nat, Wanted(lines, n), NEW path \in Seq(Name), path # <<>>
    PROVE  ShouldIgnore(ParsePatterns(lines), path) <=>
               Naming(lines, path) # {} /\ lines[Max(Naming(lines, path))].exclude
  <1>1. PICK s : s = ParsePatterns(lines)
    OBVIOUS
  <1>2. /\ lines \in Seq(Line) /\ n = Len(lines) /\ n \in Nat \ {0} /\ 1 \in 1 .. n /\ 2 \in 1 .. n
        /\ DOMAIN lines = 1 .. n /\ \A k \in 1 .. n : lines[k].glob \in Seq(Component)
    <2>1. lines \in Seq(Line) /\ n = Len(lines) /\ 3 <= n
      BY DEF Wanted
    <2>2. DOMAIN lines = 1 .. n /\ \A k \in 1 .. n : lines[k] \in Line
      BY <2>1
    <2>3. \A l \in Line : l.glob \in Seq(Component)
      BY DEF Line
    <2>. QED
      BY <2>1, <2>2, <2>3
  <1>3. s \in Seq(Pattern) /\ \E of : Parsed(s, of, lines, n)
    BY <1>1, <1>2, ParsedLines
  <1>4. PICK of : Parsed(s, of, lines, n)
    BY <1>3
  <1>5. PICK m \in Nat : m = Len(s) /\ DOMAIN s = 1 .. m
    BY <1>3
  <1>6. /\ of \in [1 .. m -> 1 .. n]
        /\ \A x \in 1 .. m, y \in 1 .. m : x < y => of[x] <= of[y]
    BY <1>4, <1>5 DEF Parsed
  <1>7. PICK slashed : slashed = <<Empty>> \o path
    OBVIOUS
  <1> DEFINE seen(x) == IF \E j \in 1 .. x : Rooted(s[j].glob) THEN slashed ELSE path
             look(l) == IF l = 1 THEN path ELSE slashed
             hits == {x \in 1 .. m : Matches(s[x].glob, seen(x))}
             naming == {l \in 1 .. n : Names(lines[l], path)}
  <1>8. ShouldIgnore(s, path) <=> hits # {} /\ s[Max(hits)].exclude
    BY <1>5, <1>7 DEF ShouldIgnore, Empty
  <1>9. \A l \in 1 .. n : Hit(lines[l].glob, look(l)) <=> Names(lines[l], path)
    <2> SUFFICES ASSUME NEW l \in 1 .. n PROVE Hit(lines[l].glob, look(l)) <=> Names(lines[l], path)
      OBVIOUS
    <2>1. CASE l = 1
      <3>1. Hit(lines[l].glob, path) <=> Names(lines[l], path)
        BY <1>2, <2>1, HitIsNamedAnywhere DEF Wanted
      <3>. QED
        BY <2>1, <3>1
    <2>2. CASE l # 1
      <3>1. lines[l].glob \in Seq(Component) /\ Unambiguous(lines[l].glob)
        BY <1>2 DEF Wanted
      <3>2. Hit(lines[l].glob, slashed) <=> Names(lines[l], path)
        BY <1>7, <3>1, HitIsNamed
      <3>. QED
        BY <2>2, <3>2
    <2>. QED
      BY <2>1, <2>2
  <1>10. ASSUME NEW x \in 1 .. m, of[x] \in {1, 2}
         PROVE  Rooted(s[x].glob) <=> of[x] = 2
    <2>1. PICK l \in 1 .. n : l = of[x]
      BY <1>6
    <2>2. PICK q \in DOMAIN GlobsForPattern(lines[l].glob) : s[x].glob = GlobsForPattern(lines[l].glob)[q]
      BY <1>4, <1>5, <2>1 DEF Parsed
    <2>3. lines[l].glob \in Seq(Component) /\ lines[l].glob # <<>> /\ (Rooted(lines[l].glob) <=> l = 2)
      BY <1>2, <1>10, <2>1 DEF Wanted, Rooted
    <2>. QED
      BY <2>1, <2>2, <2>3, RootedGlobs
  <1>11. ASSUME NEW x \in 1 .. m PROVE seen(x) = look(of[x])
    <2>1. CASE of[x] = 1
      <3>1. \A j \in 1 .. x : j \in 1 .. m /\ (j = x \/ j < x)
        OBVIOUS
      <3>2. \A j \in 1 .. x : of[j] = 1
        <4> SUFFICES ASSUME NEW j \in 1 .. x PROVE of[j] = 1
          OBVIOUS
        <4>1. of[j] \in 1 .. n /\ (j = x \/ of[j] <= of[x])
          BY <1>6, <3>1
        <4>. QED
          BY <2>1, <4>1
      <3>3. \A j \in 1 .. x : ~ Rooted(s[j].glob)
        BY <1>10, <3>1, <3>2
      <3>. QED
        BY <2>1, <3>3
    <2>2. CASE of[x] # 1
      <3>1. \E j \in 1 .. x : Rooted(s[j].glob)
        <4>1. CASE of[x] = 2
          <5>1. x \in 1 .. x
            OBVIOUS
          <5>. QED
            BY <1>10, <4>1, <5>1
        <4>2. CASE of[x] # 2
          <5>1. PICK q \in DOMAIN GlobsForPattern(lines[2].glob) : TRUE
            BY <1>2, GlobsAre
          <5>2. PICK j \in 1 .. m : of[j] = 2
            <6>1. \A h \in 1 .. n : \A r \in DOMAIN GlobsForPattern(lines[h].glob) :
                      \E x1 \in DOMAIN s : of[x1] = h
              BY <1>4 DEF Parsed
            <6>2. 2 \in 1 .. n
              BY <1>2
            <6>. QED
              BY <1>5, <5>1, <6>1, <6>2
          <5>3. Rooted(s[j].glob)
            BY <1>10, <5>2
          <5>4. ~ (x < j) /\ x # j
            <6>1. of[x] \in 1 .. n
              BY <1>6
            <6>2. ~ (of[x] <= 2)
              BY <2>2, <4>2, <6>1
            <6>. QED
              BY <1>6, <5>2, <6>2
          <5>5. j \in 1 .. x
            BY <5>4
          <5>. QED
            BY <5>3, <5>5
        <4>. QED
          BY <4>1, <4>2
      <3>. QED
        BY <2>2, <3>1
    <2>. QED
      BY <2>1, <2>2
  <1>12. ASSUME NEW x \in hits PROVE of[x] \in naming
    <2>1. PICK l \in 1 .. n : l = of[x]
      BY <1>6
    <2>2. PICK q \in DOMAIN GlobsForPattern(lines[l].glob) : s[x].glob = GlobsForPattern(lines[l].glob)[q]
      BY <1>4, <1>5, <2>1 DEF Parsed
    <2>3. Matches(s[x].glob, look(l))
      BY <1>11, <2>1
    <2>4. Hit(lines[l].glob, look(l))
      <3> HIDE DEF look
      <3>. QED
        BY <2>2, <2>3 DEF Hit
    <2>. QED
      BY <1>9, <2>1, <2>4
  <1>13. ASSUME NEW l \in naming PROVE \E x \in hits : of[x] = l
    <2>1. l \in 1 .. n /\ Hit(lines[l].glob, look(l))
      BY <1>9
    <2>2. PICK q \in DOMAIN GlobsForPattern(lines[l].glob) :
              Matches(GlobsForPattern(lines[l].glob)[q], look(l))
      <3>1. PICK g : g = look(l)
        OBVIOUS
      <3>2. Hit(lines[l].glob, g)
        BY <2>1, <3>1
      <3>3. PICK q \in DOMAIN GlobsForPattern(lines[l].glob) :
                Matches(GlobsForPattern(lines[l].glob)[q], g)
        BY <3>2 DEF Hit
      <3> HIDE DEF look
      <3>. QED
        BY <3>1, <3>3
    <2>3. PICK x \in 1 .. m : of[x] = l /\ s[x].glob = GlobsForPattern(lines[l].glob)[q]
      <3>1. \A h \in 1 .. n : \A r \in DOMAIN GlobsForPattern(lines[h].glob) :
                \E x \in DOMAIN s : of[x] = h /\ s[x].glob = GlobsForPattern(lines[h].glob)[r]
        BY <1>4 DEF Parsed
      <3>2. \E x \in DOMAIN s : of[x] = l /\ s[x].glob = GlobsForPattern(lines[l].glob)[q]
        BY <2>1, <3>1
      <3>. QED
        BY <1>5, <3>2
    <2>4. seen(x) = look(l)
      BY <1>11, <2>3
    <2>5. Matches(s[x].glob, seen(x))
      <3> HIDE DEF look, seen
      <3>. QED
        BY <2>2, <2>3, <2>4
    <2>. QED
      BY <2>3, <2>5
  <1>14. PICK H : H = hits /\ H \in SUBSET (1 .. m)
    OBVIOUS
  <1>15. PICK N : N = naming /\ N \in SUBSET (1 .. n)
    OBVIOUS
  <1>16. (H = {} <=> N = {}) /\ (H # {} => Max(H) \in 1 .. m /\ of[Max(H)] = Max(N))
    <2>1. (\A x \in H : of[x] \in N) /\ (\A l \in N : \E x \in H : of[x] = l)
      <3>1. \A x \in hits : of[x] \in naming
        BY <1>12
      <3>2. \A l \in naming : \E x \in hits : of[x] = l
        BY <1>13
      <3> HIDE DEF hits, naming
      <3>. QED
        BY <1>14, <1>15, <3>1, <3>2
    <2> HIDE DEF hits, naming, seen, look
    <2>2. HitsName(H, N, of, m, n)
      BY <1>6, <1>14, <1>15, <2>1 DEF HitsName
    <2>. QED
      BY <2>2, LastDecides
  <1>17. ASSUME H # {} PROVE s[Max(H)].exclude = lines[Max(N)].exclude
    <2>1. PICK h \in 1 .. m : h = Max(H) /\ of[h] = Max(N)
      BY <1>16, <1>17
    <2>2. s[h].exclude = lines[of[h]].exclude
      BY <1>4, <1>5, <2>1 DEF Parsed
    <2>. QED
      BY <2>1, <2>2
  <1>18. N = Naming(lines, path)
    BY <1>2, <1>15 DEF Naming
  <1> HIDE DEF hits, naming
  <1>. QED
    BY <1>1, <1>8, <1>14, <1>16, <1>17, <1>18

\* The zipper archives of every such tree, and of every zip of one, the files
\* its author did not exclude: what goes through the globs made of the lines, with
\* and without a slash in front, decides as the last line that names the path.
THEOREM ZipperKeepsPromise ==
    ASSUME NEW src, WellMeant(src) PROVE KeepsPromise(src)
  <1> DEFINE lines == DefaultIgnoreLines \o src.lines
             dropped(path) == Naming(lines, path) # {} /\ lines[Max(Naming(lines, path))].exclude
             packed == IF src.kind = "zip" THEN Unzip(src) ELSE src
             sent == {n \in src.nodes : n.kind # "dir" /\ ~ dropped(n.path)}
  <1>1. /\ src.lines \in Seq(Line) /\ src.nodes \in SUBSET Node
        /\ \A n \in src.nodes : n.path \in Seq(Name) /\ n.path # <<>>
    BY DEF WellMeant, Source, Node
  <1>2. Promised(src) = {n.path : n \in sent}
    <2>1. \A path : Naming(lines, path) = {k \in DOMAIN lines : Names(lines[k], path)}
      BY DEF Naming
    <2>2. Promised(src) = {n.path : n \in {e \in src.nodes : /\ e.kind # "dir"
                                                            /\ \/ Naming(lines, e.path) = {}
                                                               \/ ~lines[Max(Naming(lines, e.path))].exclude}}
      BY <2>1 DEF Promised
    <2>. QED
      BY <2>2
  <1>3. ASSUME NEW path \in Seq(Name), path # <<>>
        PROVE  ShouldIgnore(ParsePatterns(lines), path) <=> dropped(path)
    <2>1. PICK ls : ls = lines
      OBVIOUS
    <2>2. Wanted(ls, Len(ls))
      BY <1>1, <2>1, DefaultLines DEF WellMeant
    <2>3. Len(ls) \in Nat
      BY <2>2 DEF Wanted
    <2>4. ShouldIgnore(ParsePatterns(ls), path) <=>
              Naming(ls, path) # {} /\ ls[Max(Naming(ls, path))].exclude
      BY <1>3, <2>2, <2>3, IgnoredIs
    <2>. QED
      BY <2>1, <2>4
  <1>4. packed.lines = src.lines /\ packed.ignore = src.ignore /\ Lines(packed) = lines
    <2>1. packed.lines = src.lines /\ packed.ignore = src.ignore
      BY DEF Unzip, WellMeant, Source
    <2>. QED
      BY <2>1 DEF Lines, WellMeant
  <1>6. ASSUME CanZip(packed) PROVE FilePaths(Archived(packed)) = Promised(src)
    <2>0. Kept(packed) = {n \in packed.nodes : ~ ShouldIgnore(ParsePatterns(lines), n.path)}
      <3>1. packed.kind = "dir"
        <4>1. packed.kind # "link"
          BY DEF WellMeant, Unzip, Source
        <4> HIDE DEF packed
        <4>. QED
          BY <1>6, <4>1 DEF CanZip
      <3> HIDE DEF packed
      <3>. QED
        BY <1>4, <3>1 DEF Kept, Walked
    <2>1. src \in Source /\ (src.kind = "zip" \/ ~ src.holdsTemp)
      BY DEF WellMeant
    <2>2. ~ packed.holdsTemp
      BY <2>1 DEF Unzip, Source
    <2>3. Archived(packed) = Kept(packed)
      BY <2>2 DEF Archived
    <2>4. ASSUME NEW path
          PROVE  (\E n \in packed.nodes : n.kind # "dir" /\ n.path = path)
                 <=> (\E n \in src.nodes : n.kind # "dir" /\ n.path = path)
      <3>1. CASE src.kind # "zip"
        BY <3>1
      <3>2. CASE src.kind = "zip"
        <4> DEFINE files == {[n EXCEPT !.kind = "file"] : n \in {e \in src.nodes : e.kind # "dir"}}
                   parents == UNION {{SubSeq(n.path, 1, k) : k \in 1..Len(n.path) - 1} : n \in files}
                   dirs == {[path |-> p, kind |-> "dir", readable |-> TRUE] : p \in parents}
        <4>1. packed.nodes = files \cup dirs
          BY <2>1, <3>2 DEF Unzip, Source
        <4>2. \A n \in dirs : n.kind = "dir"
          <5> HIDE DEF parents
          <5>. QED
            OBVIOUS
        <4>3. \A n \in src.nodes : [n EXCEPT !.kind = "file"].kind = "file" /\ [n EXCEPT !.kind = "file"].path = n.path
          BY <1>1 DEF Node
        <4>4. ASSUME NEW n \in packed.nodes, n.kind # "dir", n.path = path
              PROVE  \E e \in src.nodes : e.kind # "dir" /\ e.path = path
          <5>1. n \in files
            <6> HIDE DEF files, dirs
            <6>. QED
              BY <4>1, <4>2, <4>4
          <5>2. PICK e \in src.nodes : e.kind # "dir" /\ n = [e EXCEPT !.kind = "file"]
            BY <5>1
          <5>. QED
            BY <4>3, <4>4, <5>2
        <4>5. ASSUME NEW e \in src.nodes, e.kind # "dir", e.path = path
              PROVE  \E n \in packed.nodes : n.kind # "dir" /\ n.path = path
          <5>1. PICK n : n = [e EXCEPT !.kind = "file"]
            OBVIOUS
          <5>2. n \in files
            BY <4>5, <5>1
          <5>3. n \in packed.nodes
            <6> HIDE DEF files, dirs
            <6>. QED
              BY <4>1, <5>2
          <5>4. n.kind = "file" /\ n.path = path
            BY <4>3, <4>5, <5>1
          <5>. QED
            BY <5>3, <5>4
        <4>. QED
          BY <4>4, <4>5
      <3>. QED
        BY <3>1, <3>2
    <2>5. ASSUME NEW path
          PROVE  path \in FilePaths(Kept(packed))
                 <=> (\E n \in packed.nodes : n.kind # "dir" /\ n.path = path)
                     /\ ~ ShouldIgnore(ParsePatterns(lines), path)
      <3> HIDE DEF packed, lines
      <3>. QED
        BY <2>0 DEF FilePaths
    <2>6. ASSUME NEW path
          PROVE  path \in Promised(src)
                 <=> (\E n \in src.nodes : n.kind # "dir" /\ n.path = path) /\ ~ dropped(path)
      <3> HIDE DEF dropped
      <3>. QED
        BY <1>2
    <2>7. ASSUME NEW path
          PROVE  path \in FilePaths(Kept(packed)) <=> path \in Promised(src)
      <3>1. (\E n \in src.nodes : n.kind # "dir" /\ n.path = path) => path \in Seq(Name) /\ path # <<>>
        BY <1>1
      <3> HIDE DEF packed, lines, dropped
      <3>. QED
        BY <1>3, <2>4, <2>5, <2>6, <3>1
    <2>8. FilePaths(Kept(packed)) = Promised(src)
      <3> HIDE DEF packed
      <3>. QED
        BY <2>7
    <2> HIDE DEF packed
    <2>. QED
      BY <2>3, <2>8
  <1>7. KeepsPromise(src) <=> (CanZip(packed) /\ ~Panics(packed) => FilePaths(Archived(packed)) = Promised(src))
    BY DEF KeepsPromise
  <1> HIDE DEF packed
  <1>. QED
    BY <1>6, <1>7

-----------------------------------------------------------------------------
(* What the builder sees.                                                  *)

\* What the builder works on is one whole archive of a client that builds this
\* droplet, with the nodes the zipper kept of its source; so if the zipper keeps
\* what it promises of the sources under study, the builder sees the app, however
\* builds, imports and failures meet.
THEOREM BuilderSeesOneArchive ==
    ASSUME \A j \in Jobs : \A c \in DOMAIN j : j[c].op = "build" => KeepsPromise(j[c].source)
    PROVE  Spec => []BuilderSeesTheApp
  <1>1. ASSUME IInv, NEW d \in Droplet, build[d].droplet # Absent
        PROVE  LET seen == build[d].droplet
               IN /\ seen.whole /\ IsUpload(seen, d)
                  /\ FilePaths(seen.nodes) = Promised(job[seen.by].source)
    <2> DEFINE seen == build[d].droplet
    <2>1. seen.whole /\ IsUpload(seen, d)
      BY <1>1 DEF IInv, Building, Holds
    <2>2. /\ job \in Jobs /\ seen.by \in DOMAIN job /\ job[seen.by].op = "build"
          /\ CanZip(Packed(seen.by)) /\ ~Panics(Packed(seen.by)) /\ seen.nodes = Archived(Packed(seen.by))
      BY <1>1, <2>1 DEF IsUpload, IsPacked, IInv, Domains
    <2>3. FilePaths(Archived(Packed(seen.by))) = Promised(job[seen.by].source)
      BY <2>2 DEF Packed, KeepsPromise
    <2>. QED
      BY <2>1, <2>2, <2>3
  <1>2. IInv => BuilderSeesTheApp
    BY <1>1 DEF BuilderSeesTheApp, IsUpload
  <1>. QED
    BY <1>2, Invariance, PTL

\* For any sources as an author means them, then, the builder sees the app: no
\* failed request, second build, import or restart of the task puts another
\* archive, or part of one, or the files of another tree in its place.
THEOREM BuilderSeesWhatIsMeant ==
    ASSUME \A j \in Jobs : \A c \in DOMAIN j : j[c].op = "build" => WellMeant(j[c].source)
    PROVE  Spec => []BuilderSeesTheApp
  <1>1. \A j \in Jobs : \A c \in DOMAIN j : j[c].op = "build" => KeepsPromise(j[c].source)
    BY ZipperKeepsPromise
  <1>. QED
    BY <1>1, BuilderSeesOneArchive
=============================================================================
