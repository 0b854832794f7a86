--------------------------- MODULE DropletsProofs ---------------------------
(***************************************************************************)
(* For any number of invocations, tasks, droplets and apps: first what     *)
(* holds of the tasks alone (TasksInv), then that the droplet store moves  *)
(* them only by steps of Tasks, and what holds of the blobs beside them    *)
(* (DropletsInv).                                                          *)
(*                                                                         *)
(* None of the properties is inductive.  An exit code accounts for what a  *)
(* command has done by where it is (Where); bits stay away once fetched    *)
(* because a task has one author, who is past the upload (Authored); and   *)
(* remove has to remember what it listed, has deleted and has yet to do.   *)
(***************************************************************************)
EXTENDS Droplets, TLAPS

\* Where a command may be, by what it is and what it has done.
MayBeAt(p, l) ==
    /\ l = "upload" => cmd[p].op = "build"
    /\ l \in {"list", "domain", "create"} => cmd[p].op \in {"submit", "build"}
    /\ l \in {"wait", "stopping"} => cmd[p].op = "build" /\ "create" \in took[p]
    /\ l \in {"cancel first", "poll", "delete"} => cmd[p].op = "delete"
    /\ l \in {"status", "cancel"} => cmd[p].op = "cancel"
    /\ l \in {"idle", "upload", "list", "domain", "create"} => took[p] = {}

Where(p) == MayBeAt(p, pc[p]) /\ (pc[p] # "exited" => code[p] = "none")

Accounts(p) ==
    /\ code[p] = "ok" => Requested(cmd[p].op) \in took[p]
    /\ code[p] \in {"InvalidSyntax", "FileSystemError"} => took[p] = {}

\* A task has the guid its author was asked for, who is past creating it.
Authored ==
    \A t \in Guid : Exists(task[t]) =>
        cmd[task[t].by].guid = t /\ "create" \in took[task[t].by]

TasksInv == TypeOK /\ Authored /\ \A p \in Proc : Where(p) /\ Accounts(p)

-----------------------------------------------------------------------------
\* A blob, and what a cell has fetched, is from somebody.
StoreOK ==
    /\ blob \in [Blob -> Content \cup {Absent}]
    /\ fetched \in [Guid -> Content \cup {Absent}]
    /\ stage \in [Guid -> {"none", "fetch", "delete", "stage", "put"}]

\* A build past the deletion of its bits, and one that succeeded, has none.
BitsAreGone(d) ==
    IsBuild(d) /\ (\/ task[d].state = "RUNNING" /\ stage[d] \in {"stage", "put"}
                   \/ Completed(task[d]) /\ ~task[d].failed)
        => blob[Bits(d)] # task[d].by

\* How far a user's command is.
UserInv(u) ==
    /\ at[u] \in {"start", "create", "list"} => todo[u] = {} /\ listed[u] = {} /\ gone[u] = {}
    /\ at[u] = "create" => work[u].op = "launch"
    /\ at[u] \in {"list", "delete"} => work[u].op = "remove"
    /\ at[u] = "delete" => gone[u] \cup todo[u] = listed[u]
    /\ at[u] # "exited" => status[u] = "none"
    /\ status[u] = "ok" /\ work[u].op = "remove" => gone[u] = listed[u] /\ gone[u] # {}

UserOK ==
    /\ app \in [App -> Droplet \cup {Absent}]
    /\ at \in [User -> {"start", "create", "list", "delete", "exited"}]
    /\ work \in [User -> Work]
    /\ todo \in [User -> SUBSET Blob]
    /\ listed \in [User -> SUBSET Blob]
    /\ gone \in [User -> SUBSET Blob]
    /\ status \in [User -> {"none", "ok", "CommandFailed"}]

DropletsInv ==
    /\ TasksInv /\ StoreOK /\ UserOK
    /\ \A d \in Droplet : BitsAreGone(d)
    /\ \A u \in User : UserInv(u)


-----------------------------------------------------------------------------
\* The bound TypeOK puts on the time left.
Limit(p) == IF cmd[p].op = "build" THEN cmd[p].timeout ELSE CancelTimeout

\* What every step starts from, about the invocation that takes it.
LEMMA Own ==
    ASSUME TasksInv, NEW p \in Proc
    PROVE  /\ TypeOK /\ Authored /\ Where(p) /\ Accounts(p)
           /\ pc[p] \in Label /\ code[p] \in ExitCode
           /\ cmd[p] \in CommandType /\ cmd[p].op \in Op /\ cmd[p].guid \in Guid
           /\ left[p] \in Nat /\ left[p] <= Limit(p) /\ Limit(p) \in Nat
           /\ Mine(p) \in Task \cup {NoTask}
  BY CommandAssumption, TimeAssumption DEF TasksInv, TypeOK, CommandType, Limit, Mine

\* A step of p that changes only p's own part of the process variables.
LEMMA OneMoves ==
    ASSUME TasksInv, NEW p \in Proc, NEW l \in Label, NEW x \in ExitCode, NEW n \in Nat,
           NEW w \in Words, NEW r \in SUBSET {"create", "cancel", "delete"},
           cmd' = cmd, pc' = [pc EXCEPT ![p] = l], code' = [code EXCEPT ![p] = x],
           left' = [left EXCEPT ![p] = n], n <= Limit(p),
           said' = [said EXCEPT ![p] = w], took' = [took EXCEPT ![p] = r],
           tail' \in [Proc -> TailState],
           task' \in [Guid -> Task \cup {NoTask}], domain' \in BOOLEAN,
           Authored', Where(p)', Accounts(p)'
    PROVE  TasksInv'
  <1>1. TypeOK /\ \A q \in Proc : left[q] <= Limit(q)
    BY DEF TasksInv, TypeOK, Limit
  <1>2. TypeOK'
    <2>1. \A q \in Proc : left'[q] <= Limit(q)
      BY <1>1 DEF TypeOK
    <2>. QED
      BY <1>1, <2>1 DEF TypeOK, Limit
  <1>3. \A q \in Proc : Where(q)' /\ Accounts(q)'
    <2>1. ASSUME NEW q \in Proc, q # p PROVE Where(q)' /\ Accounts(q)'
      <3>1. pc'[q] = pc[q] /\ code'[q] = code[q] /\ took'[q] = took[q] /\ cmd'[q] = cmd[q]
        BY <1>1, <2>1 DEF TypeOK
      <3>. QED
        BY <3>1 DEF TasksInv, Where, MayBeAt, Accounts
    <2>. QED
      BY <2>1
  <1>. QED
    BY <1>2, <1>3 DEF TasksInv

\* Most steps leave the receptor, and what p has done to it, alone.
LEMMA ReceptorAlone ==
    ASSUME TasksInv, NEW p \in Proc, NEW l \in Label, NEW x \in ExitCode, NEW n \in Nat,
           NEW w \in Words, cmd' = cmd, pc' = [pc EXCEPT ![p] = l],
           code' = [code EXCEPT ![p] = x], left' = [left EXCEPT ![p] = n], n <= Limit(p),
           said' = [said EXCEPT ![p] = w], UNCHANGED <<task, took>>, domain' \in BOOLEAN,
           tail' \in [Proc -> TailState],
           Where(p)', Accounts(p)'
    PROVE  TasksInv'
  <1>1. TypeOK /\ Authored
    BY Own
  <1>2. Authored'
    BY <1>1 DEF Authored
  <1>3. took' = [took EXCEPT ![p] = took[p]] /\ took[p] \in SUBSET {"create", "cancel", "delete"}
        /\ task' \in [Guid -> Task \cup {NoTask}]
    BY <1>1 DEF TypeOK
  <1>. QED
    BY <1>2, <1>3, OneMoves

\* Leaving with a failure, or with a success that took effect.
LEMMA ExitInv ==
    ASSUME TasksInv, NEW p \in Proc, NEW x \in ExitCode, Exit(p, x), x # "none",
           NEW w \in Words, said' = [said EXCEPT ![p] = w],
           UNCHANGED <<task, cmd, left, took>>, domain' \in BOOLEAN,
           x = "ok" => Requested(cmd[p].op) \in took[p],
           x \in {"InvalidSyntax", "FileSystemError"} => took[p] = {}
    PROVE  TasksInv'
  <1>1. TypeOK /\ Where(p)
    BY Own
  <1>2. pc'[p] = "exited" /\ code'[p] = x /\ cmd'[p] = cmd[p] /\ took'[p] = took[p]
    BY <1>1 DEF Exit, TypeOK
  <1>3. Where(p)' /\ Accounts(p)'
    BY <1>2 DEF Where, MayBeAt, Accounts
  <1>4. left' = [left EXCEPT ![p] = left[p]] /\ left[p] \in Nat /\ left[p] <= Limit(p)
        /\ tail' \in [Proc -> TailState]
    BY <1>1, Own DEF Exit, TypeOK, TailState
  <1>. QED
    BY <1>3, <1>4, ReceptorAlone DEF Exit, Label

\* Going on, without a word and without having done anything new.
LEMMA GotoInv ==
    ASSUME TasksInv, NEW p \in Proc, NEW l \in Label \ {"exited"}, Goto(p, l),
           UNCHANGED <<task, cmd, left, said, took>>, domain' \in BOOLEAN, pc[p] # "exited",
           MayBeAt(p, l)
    PROVE  TasksInv'
  <1>1. TypeOK /\ Where(p) /\ code[p] = "none"
    BY Own DEF Where
  <1>2. pc'[p] = l /\ code'[p] = "none" /\ cmd'[p] = cmd[p] /\ took'[p] = took[p]
        /\ code' = [code EXCEPT ![p] = "none"] /\ said' = [said EXCEPT ![p] = said[p]]
        /\ said[p] \in Words /\ tail' \in [Proc -> TailState]
        /\ left' = [left EXCEPT ![p] = left[p]] /\ left[p] \in Nat /\ left[p] <= Limit(p)
    BY <1>1, Own DEF Goto, TypeOK
  <1>3. Where(p)' /\ Accounts(p)'
    BY <1>2 DEF Where, MayBeAt, Accounts
  <1>. QED
    BY <1>2, <1>3, ReceptorAlone DEF Goto, ExitCode

-----------------------------------------------------------------------------
LEMMA TasksInit == Init => TasksInv
  <1> SUFFICES ASSUME Init PROVE TasksInv
    OBVIOUS
  <1>1. cmd \in [Proc -> CommandType] /\ \A p \in Proc : Limit(p) \in Nat /\ 0 <= Limit(p)
    BY CommandAssumption, TimeAssumption DEF Init, Limit, CommandType
  <1>2. TypeOK
    <2>1. \A p \in Proc : left[p] <= IF cmd[p].op = "build" THEN cmd[p].timeout ELSE CancelTimeout
      BY <1>1 DEF Init, Limit
    <2>. QED
      BY <2>1 DEF Init, TypeOK, Label, Words, ExitCode, TailState
  <1>3. Authored
    BY DEF Init, Authored, Exists
  <1>4. \A p \in Proc : Where(p) /\ Accounts(p)
    BY DEF Init, Where, MayBeAt, Accounts
  <1>. QED
    BY <1>2, <1>3, <1>4 DEF TasksInv

\* A command line is turned down before it has done anything.
LEMMA StartInv == ASSUME TasksInv, NEW p \in Proc, Start(p) PROVE TasksInv'
  <1>1. /\ TypeOK /\ pc[p] = "idle" /\ took[p] = {} /\ cmd[p].op \in Op
        /\ UNCHANGED <<task, domain, cmd, left, said, took>> /\ domain \in BOOLEAN
        /\ said' = [said EXCEPT ![p] = said[p]] /\ said[p] \in Words
        /\ left' = [left EXCEPT ![p] = left[p]] /\ left[p] \in Nat /\ left[p] <= Limit(p)
    BY Own DEF Start, Where, MayBeAt, TypeOK, receptor
  <1>2. ASSUME NEW x \in {"InvalidSyntax", "FileSystemError", "CommandFailed"}, Exit(p, x)
        PROVE  TasksInv'
    <2>1. x \in ExitCode /\ x # "none" /\ x # "ok"
      BY DEF ExitCode
    <2>. QED
      BY <1>1, <1>2, <2>1, ExitInv
  <1>3. CASE cmd[p].op = "submit" /\ Goto(p, "list")
    BY <1>1, <1>3, GotoInv DEF Label, MayBeAt
  <1>4. CASE cmd[p].op = "build" /\ Goto(p, "upload")
    BY <1>1, <1>4, GotoInv DEF Label, MayBeAt
  <1>5. CASE cmd[p].op = "delete" /\ Goto(p, "cancel first")
    BY <1>1, <1>5, GotoInv DEF Label, MayBeAt
  <1>6. CASE cmd[p].op = "cancel" /\ Goto(p, "status")
    BY <1>1, <1>6, GotoInv DEF Label, MayBeAt
  <1>. QED
    BY <1>2, <1>3, <1>4, <1>5, <1>6 DEF Start

\* Upload, ListTasks, UpsertDomain and Status go on to the next call or fail.
LEMMA ChecksInv ==
    ASSUME TasksInv, NEW p \in Proc,
           Upload(p) \/ ListTasks(p) \/ UpsertDomain(p) \/ Status(p)
    PROVE  TasksInv'
  <1>1. /\ TypeOK /\ Where(p) /\ pc[p] # "exited" /\ cmd[p].op \in Op
        /\ UNCHANGED <<task, cmd, left, said, took>> /\ domain' \in BOOLEAN
        /\ said' = [said EXCEPT ![p] = said[p]] /\ said[p] \in Words
        /\ left' = [left EXCEPT ![p] = left[p]] /\ left[p] \in Nat /\ left[p] <= Limit(p)
    BY Own DEF Upload, ListTasks, UpsertDomain, Status, TypeOK, receptor
  <1>2. CASE Exit(p, "CommandFailed")
    BY <1>1, <1>2, ExitInv DEF ExitCode
  <1>3. CASE pc[p] = "upload" /\ Goto(p, "list")
    BY <1>1, <1>3, GotoInv DEF Label, Where, MayBeAt
  <1>4. CASE pc[p] = "list" /\ Goto(p, "domain")
    BY <1>1, <1>4, GotoInv DEF Label, Where, MayBeAt
  <1>5. CASE pc[p] = "domain" /\ Goto(p, "create")
    BY <1>1, <1>5, GotoInv DEF Label, Where, MayBeAt
  <1>6. CASE pc[p] = "status" /\ Goto(p, "cancel")
    BY <1>1, <1>6, GotoInv DEF Label, Where, MayBeAt
  <1>. QED
    BY <1>2, <1>3, <1>4, <1>5, <1>6 DEF Upload, ListTasks, UpsertDomain, Status

\* A request that takes effect is one more p has made, and the task it leaves
\* behind keeps its author.
LEMMA RequestInv ==
    ASSUME TasksInv, NEW p \in Proc, NEW l \in Label, NEW x \in ExitCode, NEW n \in Nat,
           NEW r \in {"create", "cancel", "delete"}, NEW t \in Task \cup {NoTask},
           task' = [task EXCEPT ![cmd[p].guid] = t], Took(p, r),
           pc' = [pc EXCEPT ![p] = l], code' = [code EXCEPT ![p] = x],
           left' = [left EXCEPT ![p] = n], n <= Limit(p), UNCHANGED <<domain, cmd, said>>,
           tail' \in [Proc -> TailState],
           t # NoTask => \/ r = "create" /\ t.by = p
                         \/ Exists(Mine(p)) /\ t.by = Mine(p).by,
           Where(p)', Accounts(p)'
    PROVE  TasksInv'
  <1>1. TypeOK /\ Authored /\ cmd[p].guid \in Guid
    BY Own
  <1>2. /\ said' = [said EXCEPT ![p] = said[p]] /\ said[p] \in Words
        /\ took' = [took EXCEPT ![p] = took[p] \cup {r}]
        /\ took[p] \cup {r} \in SUBSET {"create", "cancel", "delete"}
        /\ task' \in [Guid -> Task \cup {NoTask}] /\ domain' \in BOOLEAN
    BY <1>1 DEF TypeOK, Took
  <1>3. Authored'
    <2>1. \A q \in Proc : took[q] \subseteq took'[q]
      BY <1>1, <1>2 DEF TypeOK
    <2>2. ASSUME NEW g \in Guid, g # cmd[p].guid, Exists(task'[g])
          PROVE  cmd[task'[g].by].guid = g /\ "create" \in took'[task'[g].by]
      <3>1. task'[g] = task[g] /\ task[g] \in Task
        BY <1>1, <2>2 DEF TypeOK, Exists
      <3>. QED
        BY <1>1, <2>1, <2>2, <3>1 DEF Authored, Task
    <2>3. ASSUME NEW g \in Guid, g = cmd[p].guid, Exists(task'[g])
          PROVE  cmd[task'[g].by].guid = g /\ "create" \in took'[task'[g].by]
      <3>1. task'[g] = t /\ t \in Task /\ t # NoTask
        BY <1>1, <2>3 DEF TypeOK, Exists
      <3>2. CASE r = "create" /\ t.by = p
        BY <1>1, <1>2, <2>3, <3>1, <3>2 DEF TypeOK
      <3>3. CASE Exists(Mine(p)) /\ t.by = Mine(p).by
        BY <1>1, <2>1, <2>3, <3>1, <3>3 DEF Authored, Mine, Task
      <3>. QED
        BY <3>1, <3>2, <3>3
    <2>. QED
      BY <2>2, <2>3 DEF Authored
  <1>. QED
    BY <1>2, <1>3, OneMoves

\* A new task is its author's.
LEMMA CreateTaskInv == ASSUME TasksInv, NEW p \in Proc, CreateTask(p) PROVE TasksInv'
  <1>1. /\ TypeOK /\ Where(p) /\ pc[p] = "create" /\ code[p] = "none"
        /\ cmd[p].op \in {"submit", "build"} /\ cmd[p] \in CommandType
        /\ UNCHANGED <<domain, cmd, said>> /\ domain' \in BOOLEAN
        /\ said' = [said EXCEPT ![p] = said[p]] /\ said[p] \in Words
        /\ left[p] \in Nat /\ left[p] <= Limit(p)
    BY Own DEF CreateTask, TypeOK, Where, MayBeAt
  <1>2. CASE Exit(p, "CommandFailed") /\ UNCHANGED <<task, took, left>>
    BY <1>1, <1>2, ExitInv DEF ExitCode
  <1>3. ASSUME task' = [task EXCEPT ![cmd[p].guid] =
                            [state |-> "PENDING", failed |-> FALSE, by |-> p]],
               Took(p, "create"), Created(p) \/ (Exit(p, "CommandFailed") /\ UNCHANGED left)
        PROVE  TasksInv'
    <2> DEFINE t == [state |-> "PENDING", failed |-> FALSE, by |-> p]
    <2>1. t \in Task /\ t.by = p /\ cmd'[p] = cmd[p] /\ "create" \in took'[p]
      BY <1>1, <1>3 DEF Task, Took, TypeOK
    <2>2. ASSUME NEW x \in {"ok", "CommandFailed"}, Exit(p, x), UNCHANGED left
          PROVE  TasksInv'
      <3>1. /\ pc'[p] = "exited" /\ code'[p] = x /\ left' = [left EXCEPT ![p] = left[p]]
            /\ tail' \in [Proc -> TailState]
        BY <1>1, <2>2 DEF Exit, TypeOK, TailState
      <3>2. Where(p)' /\ Accounts(p)'
        BY <1>1, <2>1, <3>1 DEF Where, MayBeAt, Accounts, Requested
      <3>3. /\ pc' = [pc EXCEPT ![p] = "exited"] /\ code' = [code EXCEPT ![p] = x]
            /\ "exited" \in Label /\ x \in ExitCode
        BY <2>2 DEF Exit, Label, ExitCode
      <3>. QED
        BY <1>1, <1>3, <2>1, <3>1, <3>2, <3>3, RequestInv
    <2>3. CASE /\ cmd[p].op = "build" /\ pc' = [pc EXCEPT ![p] = "wait"]
               /\ tail' = [tail EXCEPT ![p] = "reading"] /\ UNCHANGED code
               /\ left' = [left EXCEPT ![p] = cmd[p].timeout]
      <3>1. pc'[p] = "wait" /\ code'[p] = "none" /\ code' = [code EXCEPT ![p] = "none"]
            /\ cmd[p].timeout \in Nat /\ cmd[p].timeout <= Limit(p)
            /\ tail' \in [Proc -> TailState]
        BY <1>1, <2>3, TimeAssumption DEF TypeOK, CommandType, Limit, TailState
      <3>2. Where(p)' /\ Accounts(p)'
        BY <2>1, <2>3, <3>1 DEF Where, MayBeAt, Accounts
      <3>3. /\ pc' = [pc EXCEPT ![p] = "wait"] /\ code' = [code EXCEPT ![p] = "none"]
            /\ "wait" \in Label /\ "none" \in ExitCode
        BY <2>3, <3>1 DEF Label, ExitCode
      <3>. QED
        BY <1>1, <1>3, <2>1, <2>3, <3>1, <3>2, <3>3, RequestInv
    <2>. QED
      BY <1>3, <2>2, <2>3 DEF Created
  <1>. QED
    BY <1>2, <1>3 DEF CreateTask

\* Whatever build-droplet sees while it waits, its task was created.
LEMMA WaitInv ==
    ASSUME TasksInv, NEW p \in Proc, WaitForBuild(p) \/ WaitTimeout(p) PROVE TasksInv'
  <1>1. /\ TypeOK /\ Where(p) /\ pc[p] = "wait" /\ code[p] = "none"
        /\ cmd[p].op = "build" /\ "create" \in took[p]
        /\ UNCHANGED <<task, domain, cmd, took>> /\ domain' \in BOOLEAN
        /\ left[p] \in Nat /\ left[p] <= Limit(p) /\ Limit(p) \in Nat
    BY Own DEF WaitForBuild, WaitTimeout, TypeOK, Where, MayBeAt, receptor
  <1>2. CASE Exit(p, "CommandFailed") /\ Tell(p, "Build failed") /\ UNCHANGED left
    BY <1>1, <1>2, ExitInv DEF ExitCode, Tell, Words
  <1>4. ASSUME NEW w \in Words, Goto(p, "stopping"), Tell(p, w), UNCHANGED left
        PROVE  TasksInv'
    <2>1. pc'[p] = "stopping" /\ code'[p] = "none" /\ code' = [code EXCEPT ![p] = "none"]
          /\ left' = [left EXCEPT ![p] = left[p]] /\ cmd'[p] = cmd[p] /\ took'[p] = took[p]
          /\ tail' \in [Proc -> TailState]
      BY <1>1, <1>4 DEF Goto, TypeOK
    <2>2. Where(p)' /\ Accounts(p)'
      BY <1>1, <2>1 DEF Where, MayBeAt, Accounts
    <2>. QED
      BY <1>1, <1>4, <2>1, <2>2, ReceptorAlone DEF Goto, Tell, Label, ExitCode
  <1>3. CASE Goto(p, "wait") /\ TimePasses(p) /\ UNCHANGED said
    <2>1. PICK n \in 0 .. left[p] - 1 : left' = [left EXCEPT ![p] = n]
      BY <1>3 DEF TimePasses
    <2>2. n \in Nat /\ n <= Limit(p)
      BY <1>1
    <2>3. pc'[p] = "wait" /\ code'[p] = "none" /\ code' = [code EXCEPT ![p] = "none"]
          /\ said' = [said EXCEPT ![p] = said[p]] /\ said[p] \in Words
          /\ cmd'[p] = cmd[p] /\ took'[p] = took[p] /\ tail' \in [Proc -> TailState]
      BY <1>1, <1>3 DEF Goto, TypeOK
    <2>4. Where(p)' /\ Accounts(p)'
      BY <1>1, <2>3 DEF Where, MayBeAt, Accounts
    <2>. QED
      BY <1>1, <1>3, <2>1, <2>2, <2>3, <2>4, ReceptorAlone DEF Goto, Label, ExitCode
  <1>. QED
    BY <1>2, <1>3, <1>4 DEF WaitForBuild, WaitTimeout, Words

\* The reader of the logs has taken the stop, or is gone and maybe the process
\* with it.
LEMMA TailInv ==
    ASSUME TasksInv, NEW p \in Proc, StopOutputting(p) \/ TailEnds(p) PROVE TasksInv'
  <1>1. /\ TypeOK /\ Authored /\ Where(p) /\ UNCHANGED <<task, domain, cmd, left, said, took>>
        /\ domain' \in BOOLEAN /\ said' = [said EXCEPT ![p] = said[p]] /\ said[p] \in Words
    BY Own DEF StopOutputting, TailEnds, TypeOK, receptor
  <1>2. CASE StopOutputting(p)
    <2>1. cmd[p].op = "build" /\ "create" \in took[p]
      BY <1>1, <1>2 DEF StopOutputting, Where, MayBeAt
    <2>. QED
      BY <1>1, <1>2, <2>1, ExitInv DEF StopOutputting, ExitCode, Requested
  <1>3. CASE Exit(p, "Panic")
    BY <1>1, <1>3, ExitInv DEF ExitCode
  <1>4. CASE tail' = [tail EXCEPT ![p] = "returned"] /\ UNCHANGED <<pc, code>>
    <2>1. TypeOK'
      BY <1>1, <1>4 DEF TypeOK, TailState
    <2>. QED
      BY <1>1, <1>4, <2>1 DEF TasksInv, Authored, Where, MayBeAt, Accounts
  <1>. QED
    BY <1>2, <1>3, <1>4 DEF TailEnds

\* A cancelled task is still its author's.
LEMMA CancelledType ==
    ASSUME NEW t \in Task PROVE Cancelled(t) \in Task /\ Cancelled(t).by = t.by
  BY DEF Cancelled, Task

LEMMA CancelFirstInv == ASSUME TasksInv, NEW p \in Proc, CancelFirst(p) PROVE TasksInv'
  <1>1. /\ TypeOK /\ pc[p] = "cancel first" /\ code[p] = "none" /\ cmd[p].op = "delete"
        /\ UNCHANGED <<domain, cmd, said>> /\ domain' \in BOOLEAN
        /\ said' = [said EXCEPT ![p] = said[p]] /\ said[p] \in Words
        /\ Mine(p) \in Task \cup {NoTask}
    BY Own DEF CancelFirst, TypeOK, Where, MayBeAt
  <1>2. /\ pc'[p] = "poll" /\ code'[p] = "none" /\ code' = [code EXCEPT ![p] = "none"]
        /\ pc' = [pc EXCEPT ![p] = "poll"] /\ left' = [left EXCEPT ![p] = CancelTimeout]
        /\ cmd'[p] = cmd[p] /\ tail' \in [Proc -> TailState]
    BY <1>1 DEF CancelFirst, Goto, TypeOK
  <1>3. CancelTimeout \in Nat /\ CancelTimeout <= Limit(p)
    <2>1. CancelTimeout \in Nat
      BY TimeAssumption
    <2>2. Limit(p) = CancelTimeout
      BY <1>1 DEF Limit
    <2>. QED
      BY <2>1, <2>2
  <1>4. Where(p)' /\ Accounts(p)'
    BY <1>1, <1>2 DEF Where, MayBeAt, Accounts
  <1>5. CASE Cancels(p)
    <2>1. /\ Mine(p) \in Task /\ Exists(Mine(p))
          /\ task' = [task EXCEPT ![cmd[p].guid] = Cancelled(Mine(p))] /\ Took(p, "cancel")
      BY <1>1, <1>5 DEF Cancels, Unfinished, Exists, Mine, TypeOK
    <2>. QED
      BY <1>1, <1>2, <1>3, <1>4, <2>1, CancelledType, RequestInv DEF Label, ExitCode
  <1>6. CASE UNCHANGED <<task, took>>
    BY <1>1, <1>2, <1>3, <1>4, <1>6, ReceptorAlone DEF Label, ExitCode
  <1>. QED
    BY <1>5, <1>6 DEF CancelFirst

LEMMA PollDeleteInv ==
    ASSUME TasksInv, NEW p \in Proc, PollDelete(p) \/ PollTimeout(p) PROVE TasksInv'
  <1>1. /\ TypeOK /\ pc[p] = "poll" /\ code[p] = "none" /\ cmd[p].op = "delete"
        /\ UNCHANGED <<task, domain, cmd, said, took>> /\ domain' \in BOOLEAN
        /\ said' = [said EXCEPT ![p] = said[p]] /\ said[p] \in Words
        /\ left[p] \in Nat /\ left[p] <= Limit(p) /\ Limit(p) \in Nat
    BY Own DEF PollDelete, PollTimeout, TypeOK, Where, MayBeAt, receptor
  <1>2. CASE PollTimeout(p)
    BY <1>1, <1>2, ExitInv DEF PollTimeout, ExitCode
  <1>3. ASSUME NEW l \in {"delete", "poll"}, Goto(p, l), TimePasses(p) PROVE TasksInv'
    <2>1. PICK n \in 0 .. left[p] - 1 : left' = [left EXCEPT ![p] = n]
      BY <1>3 DEF TimePasses
    <2>2. n \in Nat /\ n <= Limit(p)
      BY <1>1
    <2>3. pc'[p] = l /\ code'[p] = "none" /\ code' = [code EXCEPT ![p] = "none"]
          /\ cmd'[p] = cmd[p] /\ took'[p] = took[p] /\ tail' \in [Proc -> TailState]
      BY <1>1, <1>3 DEF Goto, TypeOK
    <2>4. Where(p)' /\ Accounts(p)'
      BY <1>1, <2>3 DEF Where, MayBeAt, Accounts
    <2>5. pc' = [pc EXCEPT ![p] = l] /\ l \in Label /\ "none" \in ExitCode
      BY <1>3 DEF Goto, Label, ExitCode
    <2>. QED
      BY <1>1, <1>3, <2>1, <2>2, <2>3, <2>4, <2>5, ReceptorAlone
  <1>. QED
    BY <1>2, <1>3 DEF PollDelete

\* Deleting and cancelling: exit code 0 only with the request.
LEMMA DeleteTaskInv == ASSUME TasksInv, NEW p \in Proc, DeleteTask(p) PROVE TasksInv'
  <1>1. /\ TypeOK /\ pc[p] = "delete" /\ cmd[p].op = "delete"
        /\ UNCHANGED <<domain, cmd, left, said>> /\ domain' \in BOOLEAN
        /\ said' = [said EXCEPT ![p] = said[p]] /\ said[p] \in Words
        /\ left' = [left EXCEPT ![p] = left[p]] /\ left[p] \in Nat /\ left[p] <= Limit(p)
    BY Own DEF DeleteTask, TypeOK, Where, MayBeAt
  <1>2. CASE Exit(p, "CommandFailed") /\ UNCHANGED <<task, took>>
    BY <1>1, <1>2, ExitInv DEF ExitCode
  <1>3. ASSUME task' = [task EXCEPT ![cmd[p].guid] = NoTask], Took(p, "delete"),
               NEW x \in {"ok", "CommandFailed"}, Exit(p, x)
        PROVE  TasksInv'
    <2>1. /\ pc'[p] = "exited" /\ code'[p] = x /\ cmd'[p] = cmd[p] /\ "delete" \in took'[p]
          /\ tail' \in [Proc -> TailState]
      BY <1>1, <1>3 DEF Exit, Took, TypeOK, TailState
    <2>2. Where(p)' /\ Accounts(p)'
      BY <1>1, <2>1 DEF Where, MayBeAt, Accounts, Requested
    <2>3. /\ "exited" \in Label /\ x \in ExitCode
          /\ pc' = [pc EXCEPT ![p] = "exited"] /\ code' = [code EXCEPT ![p] = x]
      BY <1>3 DEF Exit, Label, ExitCode
    <2>. QED
      BY <1>1, <1>3, <2>1, <2>2, <2>3, RequestInv
  <1>. QED
    BY <1>2, <1>3 DEF DeleteTask

LEMMA CancelTaskInv == ASSUME TasksInv, NEW p \in Proc, CancelTask(p) PROVE TasksInv'
  <1>1. /\ TypeOK /\ pc[p] = "cancel" /\ cmd[p].op = "cancel" /\ Mine(p) \in Task \cup {NoTask}
        /\ UNCHANGED <<domain, cmd, left, said>> /\ domain' \in BOOLEAN
        /\ said' = [said EXCEPT ![p] = said[p]] /\ said[p] \in Words
        /\ left' = [left EXCEPT ![p] = left[p]] /\ left[p] \in Nat /\ left[p] <= Limit(p)
    BY Own DEF CancelTask, TypeOK, Where, MayBeAt
  <1>2. CASE Exit(p, "CommandFailed") /\ UNCHANGED <<task, took>>
    BY <1>1, <1>2, ExitInv DEF ExitCode
  <1>3. ASSUME Cancels(p), NEW x \in {"ok", "CommandFailed"}, Exit(p, x)
        PROVE  TasksInv'
    <2>1. /\ Mine(p) \in Task /\ Exists(Mine(p))
          /\ task' = [task EXCEPT ![cmd[p].guid] = Cancelled(Mine(p))] /\ Took(p, "cancel")
      BY <1>1, <1>3 DEF Cancels, Unfinished, Exists, Mine, TypeOK
    <2>2. /\ pc'[p] = "exited" /\ code'[p] = x /\ cmd'[p] = cmd[p] /\ "cancel" \in took'[p]
          /\ tail' \in [Proc -> TailState]
      BY <1>1, <1>3, <2>1 DEF Exit, Took, TypeOK, TailState
    <2>3. Where(p)' /\ Accounts(p)'
      BY <1>1, <2>2 DEF Where, MayBeAt, Accounts, Requested
    <2>4. /\ "exited" \in Label /\ x \in ExitCode
          /\ pc' = [pc EXCEPT ![p] = "exited"] /\ code' = [code EXCEPT ![p] = x]
      BY <1>3 DEF Exit, Label, ExitCode
    <2>. QED
      BY <1>1, <1>3, <2>1, <2>2, <2>3, <2>4, CancelledType, RequestInv
  <1>. QED
    BY <1>2, <1>3 DEF CancelTask

\* Diego changes how far a task is, not whose it is.
LEMMA RunTaskInv ==
    ASSUME TasksInv, NEW g \in Guid, RunTask(g) PROVE TasksInv'
  <1>1. TypeOK /\ Authored /\ UNCHANGED <<domain, process>> /\ Exists(task[g]) /\ task[g] \in Task
    BY DEF TasksInv, TypeOK, RunTask, Place, Finish, Exists
  <1>2. PICK t \in Task : t.by = task[g].by /\ task' = [task EXCEPT ![g] = t]
    <2>1. CASE task' = [task EXCEPT ![g].state = "RUNNING"]
      <3>1. [task[g] EXCEPT !.state = "RUNNING"] \in Task
            /\ [task[g] EXCEPT !.state = "RUNNING"].by = task[g].by
        BY <1>1 DEF Task
      <3>. QED
        BY <2>1, <3>1
    <2>2. CASE task' = [task EXCEPT ![g] = Cancelled(@)]
      BY <1>1, <2>2, CancelledType
    <2>3. ASSUME NEW f \in BOOLEAN, Finish(g, f)
          PROVE  \E t \in Task : t.by = task[g].by /\ task' = [task EXCEPT ![g] = t]
      <3>1. [task[g] EXCEPT !.state = "COMPLETED", !.failed = f] \in Task
            /\ [task[g] EXCEPT !.state = "COMPLETED", !.failed = f].by = task[g].by
        BY <1>1 DEF Task
      <3>. QED
        BY <2>3, <3>1 DEF Finish
    <2>. QED
      BY <2>1, <2>2, <2>3 DEF RunTask, Place
  <1>3. task' \in [Guid -> Task \cup {NoTask}]
    BY <1>1, <1>2 DEF TypeOK
  <1>4. Authored'
    BY <1>1, <1>2 DEF Authored, TypeOK, process, Exists
  <1>5. TypeOK'
    BY <1>1, <1>3 DEF TypeOK, process
  <1>6. \A p \in Proc : Where(p)' /\ Accounts(p)'
    BY <1>1 DEF TasksInv, Where, MayBeAt, Accounts, process
  <1>. QED
    BY <1>4, <1>5, <1>6 DEF TasksInv

\* Every step of Tasks preserves the invariant, one case per action.
LEMMA TasksNext == TasksInv /\ [Next]_taskVars => TasksInv'
  <1> SUFFICES ASSUME TasksInv, [Next]_taskVars PROVE TasksInv'
    OBVIOUS
  <1>1. ASSUME NEW p \in Proc, Step(p) PROVE TasksInv'
    BY <1>1, StartInv, ChecksInv, CreateTaskInv, WaitInv, CancelFirstInv, PollDeleteInv,
       DeleteTaskInv, CancelTaskInv, TailInv DEF Step
  <1>2. ASSUME NEW p \in Proc, Interrupt(p) PROVE TasksInv'
    <2>1. TypeOK /\ said' = [said EXCEPT ![p] = said[p]] /\ said[p] \in Words
          /\ domain' \in BOOLEAN
      BY <1>2, Own DEF Interrupt, TypeOK, receptor
    <2>. QED
      BY <1>2, <2>1, ExitInv DEF Interrupt, receptor, ExitCode
  <1>3. ASSUME NEW t \in Guid, RunTask(t) PROVE TasksInv'
    BY <1>3, RunTaskInv
  <1>4. CASE UNCHANGED taskVars
    BY <1>4 DEF TasksInv, TypeOK, Authored, Where, MayBeAt, Accounts, taskVars, receptor, process
  <1>. QED
    BY <1>1, <1>2, <1>3, <1>4, TailInv DEF Next

THEOREM TasksInvariance == Spec => []TasksInv
  BY TasksInit, TasksNext, PTL DEF Spec

\* Every value is what the code takes it for, and the time left never exceeds
\* what the command began with.
THEOREM TasksTypeCorrect == Spec => []TypeOK
  BY TasksInvariance, PTL DEF TasksInv

\* Exit code 0 of submit-task, build-droplet, delete-task and cancel-task means
\* that the request it is named for took effect, a usage error that none did.
THEOREM TaskExitCodesAccount == Spec => []TaskExitCodeAccounts
  <1>1. TasksInv => TaskExitCodeAccounts
    BY DEF TasksInv, Accounts, TaskExitCodeAccounts
  <1>. QED
    BY <1>1, TasksInvariance, PTL

-----------------------------------------------------------------------------
\* The cells and build-droplet move a task only as Tasks lets it be moved.
LEMMA StepOfTasks == [DropletsNext]_vars => [Next]_taskVars
  <1> SUFFICES ASSUME [DropletsNext]_vars PROVE [Next]_taskVars
    OBVIOUS
  <1>1. ASSUME NEW p \in Proc, UploadBits(p) \/ TaskStep(p) PROVE Next
    BY <1>1 DEF UploadBits, TaskStep, Next, Step
  <1>2. ASSUME NEW d \in Droplet, Cell(d) PROVE [Next]_taskVars
    <2>1. d \in Guid
      BY DEF Droplet
    <2>2. CASE PlaceBuild(d) \/ UploadDroplet(d) \/ BuildFails(d)
      BY <2>1, <2>2 DEF PlaceBuild, UploadDroplet, BuildFails, RunTask, Next
    <2>3. CASE DownloadAppBits(d) \/ DeleteAppBits(d) \/ Builder(d)
      BY <2>3 DEF DownloadAppBits, DeleteAppBits, Builder
    <2>. QED
      BY <1>2, <2>2, <2>3 DEF Cell
  <1>3. ASSUME NEW u \in User, UserStep(u) PROVE UNCHANGED taskVars
    BY <1>3 DEF UserStep, ImportDroplet, LaunchChecks, LaunchCreates, RemoveChecksApps,
       RemoveListsBlobs, RemoveDeletes, RemoveIsDone
  <1>4. ASSUME NEW a \in App, RemoveApp(a) PROVE UNCHANGED taskVars
    BY <1>4 DEF RemoveApp
  <1>. QED
    BY <1>1, <1>2, <1>3, <1>4 DEF DropletsNext, vars

\* Beside a droplet store, the tasks behave as they do alone: what is proved of
\* Tasks holds here, too.
THEOREM DropletsRefineTasks == DropletsSpec => Spec
  <1>1. DropletsInit => Init
    BY DEF DropletsInit
  <1>. QED
    BY <1>1, StepOfTasks, PTL DEF DropletsSpec, Spec

-----------------------------------------------------------------------------
\* The paths of the blobs of different droplets, and of bits and droplets, differ.
LEMMA Paths ==
    ASSUME NEW d \in Droplet
    PROVE  /\ Bits(d) \in Blob /\ Bits(d)[2] = d
           /\ DropletOf(d) \in Blob /\ DropletOf(d)[2] = d
           /\ \A e \in Droplet : Bits(e) # DropletOf(d) /\ (Bits(e) = Bits(d) => e = d)
  BY DEF Bits, DropletOf, Blob

\* One blob is written or deleted.
LEMMA OneBlob ==
    ASSUME StoreOK, NEW b \in Blob, NEW c \in Content \cup {Absent},
           blob' = [blob EXCEPT ![b] = c], UNCHANGED <<stage, fetched, cmd, work>>
    PROVE  StoreOK'
  BY DEF StoreOK

\* The other users are where they were.
OnlyMoves(u) ==
    \A v \in User \ {u} :
        /\ at'[v] = at[v] /\ status'[v] = status[v] /\ work'[v] = work[v]
        /\ todo'[v] = todo[v] /\ listed'[v] = listed[v] /\ gone'[v] = gone[v]

LEMMA OneUser ==
    ASSUME UserOK, \A v \in User : UserInv(v), NEW u \in User, UserOK', UserInv(u)',
           OnlyMoves(u)
    PROVE  \A v \in User : UserInv(v)'
  <1>1. ASSUME NEW v \in User, v # u PROVE UserInv(v)'
    <2>1. /\ at'[v] = at[v] /\ status'[v] = status[v] /\ todo'[v] = todo[v]
          /\ listed'[v] = listed[v] /\ gone'[v] = gone[v] /\ work'[v] = work[v]
      BY <1>1 DEF OnlyMoves
    <2>. QED
      BY <2>1 DEF UserInv
  <1>. QED
    BY <1>1

\* Nothing a user does not touch changes for him.
LEMMA UsersAlone ==
    ASSUME UserOK, \A v \in User : UserInv(v), UNCHANGED user,
           app' \in [App -> Droplet \cup {Absent}]
    PROVE  UserOK' /\ \A v \in User : UserInv(v)'
  BY DEF UserOK, UserInv, user

LEMMA DropletsInitInv == DropletsInit => DropletsInv
  <1> SUFFICES ASSUME DropletsInit PROVE DropletsInv
    OBVIOUS
  <1>1. TasksInv
    BY TasksInit DEF DropletsInit
  <1>2. StoreOK
    BY DEF DropletsInit, StoreOK, Present
  <1>3. UserOK /\ \A u \in User : UserInv(u)
    BY DEF DropletsInit, UserOK, UserInv
  <1>4. \A d \in Droplet : BitsAreGone(d)
    <2>1. \A d \in Guid : task[d] = NoTask
      BY DEF DropletsInit, Init
    <2>. QED
      BY <2>1 DEF BitsAreGone, IsBuild, Exists, Droplet
  <1>. QED
    BY <1>1, <1>2, <1>3, <1>4 DEF DropletsInv

\* The author of a task has nothing left to upload: whose bits arrive in the
\* store are not those a build has fetched and deleted.
LEMMA UploadBitsInv ==
    ASSUME DropletsInv, TasksInv', NEW p \in Proc, UploadBits(p) PROVE DropletsInv'
  <1>1. /\ TypeOK /\ Authored /\ StoreOK /\ UserOK /\ pc[p] = "upload" /\ took[p] = {}
        /\ cmd[p].op = "build" /\ cmd[p] \in Command
        /\ UNCHANGED <<task, cmd, stage, fetched, app, user>>
    BY DEF DropletsInv, TasksInv, UploadBits, Upload, Where, MayBeAt, receptor, TypeOK
  <1>2. cmd[p].guid \in Droplet
    BY <1>1, CommandAssumption DEF Droplet, CommandType
  <1>3. UserOK' /\ \A u \in User : UserInv(u)'
    BY <1>1, UsersAlone DEF DropletsInv, UserOK
  <1>4. CASE UNCHANGED blob
    <2>1. StoreOK'
      BY <1>1, <1>4 DEF StoreOK, user
    <2>2. \A d \in Droplet : BitsAreGone(d)'
      BY <1>1, <1>4 DEF DropletsInv, BitsAreGone, IsBuild
    <2>. QED
      BY <1>3, <2>1, <2>2 DEF DropletsInv
  <1>5. CASE Put(Bits(cmd[p].guid), p)
    <2>1. blob' = [blob EXCEPT ![Bits(cmd[p].guid)] = p]
      BY <1>5 DEF Put
    <2>2. p \in Content
      BY DEF Content
    <2>3. StoreOK'
      BY <1>1, <1>2, <2>1, <2>2, Paths, OneBlob DEF user
    <2>4. ASSUME NEW d \in Droplet PROVE BitsAreGone(d)'
      <3>1. IsBuild(d) => task[d].by # p
        BY <1>1 DEF IsBuild, Authored, Droplet
      <3>2. blob'[Bits(d)] \in {blob[Bits(d)], p}
        BY <1>1, <1>2, <2>1, Paths DEF StoreOK
      <3>. QED
        BY <1>1, <3>1, <3>2 DEF DropletsInv, BitsAreGone, IsBuild
    <2>. QED
      BY <1>3, <2>3, <2>4 DEF DropletsInv
  <1>. QED
    BY <1>1, <1>4, <1>5 DEF UploadBits

\* What a command makes of a task: nothing, none, a pending or a failed one.
LEMMA CommandsOnTasks ==
    ASSUME TasksInv, NEW p \in Proc, TaskStep(p), NEW t \in Guid
    PROVE  \/ task'[t] = task[t] \/ task'[t] = NoTask
           \/ task'[t].state = "PENDING" \/ (task'[t].state = "COMPLETED" /\ task'[t].failed)
  <1>1. TypeOK /\ cmd[p].guid \in Guid /\ Mine(p) \in Task \cup {NoTask}
    BY Own
  <1>2. CASE CreateTask(p)
    <2>1. \/ task' = task
          \/ task' = [task EXCEPT ![cmd[p].guid] = [state |-> "PENDING", failed |-> FALSE, by |-> p]]
      BY <1>2 DEF CreateTask
    <2>. QED
      BY <1>1, <2>1 DEF TypeOK
  <1>3. CASE CancelFirst(p) \/ CancelTask(p)
    <2>1. \/ task' = task
          \/ Mine(p) \in Task /\ task' = [task EXCEPT ![cmd[p].guid] = Cancelled(Mine(p))]
      BY <1>1, <1>3 DEF CancelFirst, CancelTask, Cancels, Unfinished, Exists, Mine, TypeOK
    <2>2. \A x \in Task : Cancelled(x).state = "COMPLETED" /\ Cancelled(x).failed
      BY DEF Cancelled, Task
    <2>. QED
      BY <1>1, <2>1, <2>2 DEF TypeOK
  <1>4. CASE DeleteTask(p)
    <2>1. task' = task \/ task' = [task EXCEPT ![cmd[p].guid] = NoTask]
      BY <1>4 DEF DeleteTask
    <2>. QED
      BY <1>1, <2>1 DEF TypeOK
  <1>5. CASE \/ Start(p) \/ ListTasks(p) \/ UpsertDomain(p) \/ WaitForBuild(p) \/ WaitTimeout(p)
             \/ StopOutputting(p) \/ TailEnds(p) \/ PollDelete(p) \/ PollTimeout(p) \/ Status(p) \/ Interrupt(p)
    BY <1>5 DEF Start, ListTasks, UpsertDomain, WaitForBuild, WaitTimeout, StopOutputting, TailEnds, PollDelete,
       PollTimeout, Status, Interrupt, receptor
  <1>. QED
    BY <1>2, <1>3, <1>4, <1>5 DEF TaskStep

LEMMA TaskStepInv ==
    ASSUME DropletsInv, TasksInv', NEW p \in Proc, TaskStep(p) PROVE DropletsInv'
  <1>1. UNCHANGED <<store, app, user>> /\ cmd' = cmd
    BY DEF TaskStep, Start, ListTasks, UpsertDomain, CreateTask, WaitForBuild, WaitTimeout,
       StopOutputting, TailEnds, CancelFirst, PollDelete, PollTimeout, DeleteTask, Status, CancelTask, Interrupt
  <1>2. UserOK' /\ \A u \in User : UserInv(u)'
    BY <1>1, UsersAlone DEF DropletsInv, UserOK
  <1>3. StoreOK'
    BY <1>1 DEF DropletsInv, StoreOK, user, store
  <1>4. ASSUME NEW d \in Droplet PROVE BitsAreGone(d)'
    <2>1. d \in Guid /\ TasksInv /\ BitsAreGone(d)
      BY DEF Droplet, DropletsInv
    <2>2. \/ task'[d] = task[d] \/ task'[d] = NoTask
          \/ task'[d].state = "PENDING" \/ (task'[d].state = "COMPLETED" /\ task'[d].failed)
      BY <2>1, CommandsOnTasks
    <2>. QED
      BY <1>1, <2>1, <2>2 DEF BitsAreGone, IsBuild, Exists, Completed, store
  <1>. QED
    BY <1>2, <1>3, <1>4 DEF DropletsInv

\* A step of a cell on droplet d: the other builds keep what they have.
LEMMA CellInv ==
    ASSUME DropletsInv, TasksInv', NEW d \in Droplet, Cell(d) PROVE DropletsInv'
  <1>1. /\ TypeOK /\ StoreOK /\ Authored /\ BitsAreGone(d) /\ UNCHANGED <<cmd, app, user>>
        /\ d \in Guid /\ IsBuild(d) /\ task[d] \in Task
    BY DEF DropletsInv, TasksInv, Cell, PlaceBuild, DownloadAppBits, DeleteAppBits, Builder,
       UploadDroplet, BuildFails, Running, process, taskVars, Droplet, IsBuild, Exists, TypeOK
  <1>2. UserOK' /\ \A u \in User : UserInv(u)'
    BY <1>1, UsersAlone DEF DropletsInv, UserOK
  <1>3. ASSUME StoreOK', BitsAreGone(d)',
               \A e \in Droplet \ {d} : /\ task'[e] = task[e] /\ stage'[e] = stage[e]
                                        /\ blob'[Bits(e)] = blob[Bits(e)]
        PROVE  DropletsInv'
    <2>1. ASSUME NEW e \in Droplet, e # d PROVE BitsAreGone(e)'
      <3>1. BitsAreGone(e)
        BY DEF DropletsInv
      <3>. QED
        BY <1>1, <1>3, <2>1, <3>1 DEF BitsAreGone, IsBuild
    <2>. QED
      BY <1>2, <1>3, <2>1 DEF DropletsInv
  <1>4. ASSUME NEW s \in {"none", "fetch", "delete", "stage", "put"}, AtStage(d, s), UNCHANGED blob,
               fetched' \in [Guid -> Content \cup {Absent}]
        PROVE  StoreOK'
    BY <1>1, <1>4 DEF StoreOK, AtStage, user
  <1>5. CASE PlaceBuild(d)
    <2>1. StoreOK'
      BY <1>1, <1>4, <1>5 DEF PlaceBuild, StoreOK
    <2>2. /\ stage'[d] = "fetch" /\ \A e \in Droplet \ {d} : stage'[e] = stage[e]
      BY <1>1, <1>5 DEF PlaceBuild, AtStage, StoreOK, Droplet
    <2>3. task' = [task EXCEPT ![d].state = "RUNNING"] \/ task' = [task EXCEPT ![d] = Cancelled(@)]
      BY <1>5 DEF PlaceBuild, Place
    <2>4. \/ task'[d].state = "RUNNING"
          \/ task'[d].state = "COMPLETED" /\ task'[d].failed
      <3>1. task \in [Guid -> Task \cup {NoTask}]
        BY <1>1 DEF TypeOK
      <3>2. CASE task' = [task EXCEPT ![d].state = "RUNNING"]
        <4>1. task'[d] = [task[d] EXCEPT !.state = "RUNNING"]
          BY <1>1, <3>1, <3>2
        <4>. QED
          BY <1>1, <4>1 DEF Task
      <3>3. CASE task' = [task EXCEPT ![d] = Cancelled(@)]
        <4>1. task'[d] = Cancelled(task[d])
          BY <1>1, <3>1, <3>3
        <4>. QED
          BY <1>1, <4>1 DEF Cancelled, Task
      <3>. QED
        BY <2>3, <3>2, <3>3
    <2>5. \A e \in Droplet \ {d} : task'[e] = task[e]
      BY <1>1, <2>3 DEF TypeOK, Droplet
    <2>6. BitsAreGone(d)'
      BY <2>2, <2>4 DEF BitsAreGone, Completed
    <2>. QED
      BY <1>3, <1>5, <2>1, <2>2, <2>5, <2>6 DEF PlaceBuild
  <1>6. CASE DownloadAppBits(d)
    <2>1. blob[Bits(d)] \in Content
      BY <1>1, <1>6, Paths DEF DownloadAppBits, StoreOK, Present
    <2>2. StoreOK'
      BY <1>1, <1>4, <1>6, <2>1 DEF DownloadAppBits, StoreOK
    <2>3. /\ stage'[d] = "delete" /\ \A e \in Droplet \ {d} : stage'[e] = stage[e]
          /\ task' = task /\ blob' = blob /\ task[d].state = "RUNNING"
      BY <1>1, <1>6
      DEF DownloadAppBits, AtStage, StoreOK, Droplet, taskVars, receptor, Running
    <2>4. BitsAreGone(d)'
      BY <2>3 DEF BitsAreGone, Completed
    <2>. QED
      BY <1>3, <2>2, <2>3, <2>4
  <1>7. CASE DeleteAppBits(d)
    <2>1. StoreOK'
      <3>1. blob' \in [Blob -> Content \cup {Absent}]
        BY <1>1, <1>7, Paths DEF DeleteAppBits, Forget, StoreOK
      <3>2. \A b \in Blob : blob'[b] \in {blob[b], Absent}
        BY <1>1, <1>7, Paths DEF DeleteAppBits, Forget, StoreOK
      <3>. QED
        BY <1>1, <1>7, <3>1, <3>2 DEF DeleteAppBits, AtStage, StoreOK, user
    <2>2. /\ \A e \in Droplet \ {d} : stage'[e] = stage[e] /\ blob'[Bits(e)] = blob[Bits(e)]
          /\ task' = task /\ blob'[Bits(d)] = Absent
      BY <1>1, <1>7, Paths
      DEF DeleteAppBits, Forget, AtStage, StoreOK, Droplet, taskVars, receptor
    <2>3. task[d].by # Absent
      BY <1>1, AbsentAssumption DEF Task, Content
    <2>4. BitsAreGone(d)'
      BY <2>2, <2>3 DEF BitsAreGone
    <2>. QED
      BY <1>3, <2>1, <2>2, <2>4
  <1>8. CASE Builder(d)
    <2>1. StoreOK'
      BY <1>1, <1>4, <1>8 DEF Builder, StoreOK
    <2>2. /\ \A e \in Droplet \ {d} : stage'[e] = stage[e]
          /\ task' = task /\ blob' = blob /\ task[d].state = "RUNNING" /\ stage[d] = "stage"
      BY <1>1, <1>8 DEF Builder, AtStage, StoreOK, Droplet, taskVars, receptor, Running
    <2>3. BitsAreGone(d)'
      BY <1>1, <2>2 DEF BitsAreGone, IsBuild
    <2>. QED
      BY <1>3, <2>1, <2>2, <2>3
  <1>9. CASE UploadDroplet(d)
    <2>1. fetched[d] \in Content \cup {Absent}
      BY <1>1 DEF StoreOK
    <2>2. blob' = [blob EXCEPT ![DropletOf(d)] = fetched[d]] /\ UNCHANGED <<stage, fetched, cmd, work>>
      BY <1>1, <1>9 DEF UploadDroplet, Put, user
    <2>3. StoreOK'
      BY <1>1, <2>1, <2>2, Paths, OneBlob
    <2>4. \A e \in Droplet : blob'[Bits(e)] = blob[Bits(e)]
      BY <1>1, <2>2, Paths DEF StoreOK
    <2>5. task' = [task EXCEPT ![d].state = "COMPLETED", ![d].failed = FALSE]
          /\ task[d].state = "RUNNING" /\ stage[d] = "put"
      BY <1>9 DEF UploadDroplet, Finish, Running
    <2>6. task'[d].by = task[d].by /\ \A e \in Droplet \ {d} : task'[e] = task[e]
      BY <1>1, <2>5 DEF TypeOK, Droplet, Task
    <2>7. BitsAreGone(d)'
      BY <1>1, <2>4, <2>5, <2>6 DEF BitsAreGone
    <2>. QED
      BY <1>3, <2>2, <2>3, <2>4, <2>6, <2>7
  <1>10. CASE BuildFails(d)
    <2>1. task' = [task EXCEPT ![d].state = "COMPLETED", ![d].failed = TRUE] /\ UNCHANGED store
      BY <1>10 DEF BuildFails, Finish
    <2>2. /\ task'[d].state = "COMPLETED" /\ task'[d].failed
          /\ \A e \in Droplet \ {d} : task'[e] = task[e]
      BY <1>1, <2>1 DEF TypeOK, Droplet, Task
    <2>3. StoreOK'
      BY <1>1, <2>1 DEF StoreOK, store, user
    <2>4. BitsAreGone(d)'
      BY <2>2 DEF BitsAreGone, Completed
    <2>. QED
      BY <1>3, <2>1, <2>2, <2>3, <2>4 DEF store
  <1>. QED
    BY <1>5, <1>6, <1>7, <1>8, <1>9, <1>10 DEF Cell

\* An app is removed; no blob and no command is touched.
LEMMA RemoveAppInv ==
    ASSUME DropletsInv, TasksInv', NEW a \in App, RemoveApp(a) PROVE DropletsInv'
  <1>1. StoreOK' /\ \A d \in Droplet : BitsAreGone(d)'
    BY DEF RemoveApp, DropletsInv, StoreOK, BitsAreGone, IsBuild,
       taskVars, receptor, process, store, user
  <1>2. app' \in [App -> Droplet \cup {Absent}] /\ UNCHANGED user
    BY DEF RemoveApp, DropletsInv, UserOK
  <1>. QED
    BY <1>1, <1>2, UsersAlone DEF DropletsInv

\* What a step of user u starts from.
LEMMA OwnUser ==
    ASSUME DropletsInv, NEW u \in User
    PROVE  /\ UserOK /\ UserInv(u) /\ \A v \in User : UserInv(v)
           /\ todo[u] \in SUBSET Blob /\ listed[u] \in SUBSET Blob /\ gone[u] \in SUBSET Blob
           /\ status[u] \in {"none", "ok", "CommandFailed"}
           /\ at[u] \in {"start", "create", "list", "delete", "exited"}
           /\ work[u].op \in {"import", "launch", "remove"}
           /\ work[u].droplet \in Droplet /\ work[u].app \in App
  BY WorkAssumption DEF DropletsInv, UserOK, WorkType

\* A user's step leaves the tasks alone; what it does to the blobs must bring
\* no bits back.
LEMMA UserMoves ==
    ASSUME DropletsInv, TasksInv', UNCHANGED <<taskVars, stage, fetched>>, StoreOK',
           \A d \in Droplet : blob'[Bits(d)] \in {blob[Bits(d)], Absent},
           UserOK', \A u \in User : UserInv(u)'
    PROVE  DropletsInv'
  <1>1. ASSUME NEW d \in Droplet PROVE BitsAreGone(d)'
    <2>1. IsBuild(d) => task[d].by # Absent
      BY AbsentAssumption DEF DropletsInv, TasksInv, TypeOK, IsBuild, Exists, Task, Content, Droplet
    <2>2. task' = task /\ cmd' = cmd /\ stage' = stage
      BY DEF taskVars, receptor, process
    <2>. QED
      BY <2>1, <2>2 DEF DropletsInv, BitsAreGone, IsBuild
  <1>. QED
    BY <1>1 DEF DropletsInv

\* Import: one blob of the name asked for.
LEMMA ImportInv ==
    ASSUME DropletsInv, TasksInv', NEW u \in User, ImportDroplet(u) PROVE DropletsInv'
  <1>1. /\ UserOK /\ StoreOK /\ at[u] = "start" /\ work[u].op = "import" /\ work[u].droplet \in Droplet
        /\ todo[u] = {} /\ listed[u] = {} /\ gone[u] = {}
        /\ UNCHANGED <<taskVars, cmd, stage, fetched, app, work, todo, listed, gone>>
    BY OwnUser DEF ImportDroplet, Is, UserInv, DropletsInv, taskVars, process
  <1>2. PICK c \in {"ok", "CommandFailed"} : Leave(u, c)
    BY DEF ImportDroplet
  <1>3. UserOK' /\ \A v \in User : UserInv(v)'
    <2>1. at'[u] = "exited" /\ status'[u] = c
      BY <1>1, <1>2 DEF Leave, UserOK
    <2>2. UserInv(u)'
      BY <1>1, <2>1 DEF UserInv
    <2>3. UserOK' /\ OnlyMoves(u)
      BY <1>1, <1>2 DEF Leave, UserOK, OnlyMoves
    <2>. QED
      BY <2>2, <2>3, OwnUser, OneUser
  <1>4. CASE UNCHANGED blob
    <2>1. StoreOK'
      BY <1>1, <1>4 DEF StoreOK
    <2>. QED
      BY <1>1, <1>3, <1>4, <2>1, UserMoves
  <1>5. CASE Put(DropletOf(work[u].droplet), u)
    <2>1. u \in Content
      BY DEF Content
    <2>2. blob' = [blob EXCEPT ![DropletOf(work[u].droplet)] = u]
      BY <1>5 DEF Put
    <2>3. StoreOK'
      BY <1>1, <2>1, <2>2, Paths, OneBlob
    <2>4. \A d \in Droplet : blob'[Bits(d)] = blob[Bits(d)]
      BY <1>1, <2>2, Paths DEF StoreOK
    <2>. QED
      BY <1>1, <1>3, <2>3, <2>4, UserMoves
  <1>. QED
    BY <1>4, <1>5 DEF ImportDroplet

\* Launching and the checks of remove leave the store alone; remove begins with
\* nothing listed and nothing deleted.
LEMMA LaunchInv ==
    ASSUME DropletsInv, TasksInv', NEW u \in User,
           LaunchChecks(u) \/ LaunchCreates(u) \/ RemoveChecksApps(u)
    PROVE  DropletsInv'
  <1>1. /\ UserOK /\ UserInv(u) /\ at[u] \in {"start", "create"}
        /\ todo[u] = {} /\ listed[u] = {} /\ gone[u] = {} /\ status[u] = "none"
        /\ UNCHANGED <<taskVars, store, work, todo, listed, gone>>
    BY OwnUser DEF LaunchChecks, LaunchCreates, RemoveChecksApps, Is, UserInv, store
  <1>2. app' \in [App -> Droplet \cup {Absent}]
    BY <1>1, OwnUser DEF LaunchChecks, LaunchCreates, RemoveChecksApps, UserOK
  <1>3. StoreOK' /\ \A d \in Droplet : blob'[Bits(d)] = blob[Bits(d)]
    BY <1>1 DEF DropletsInv, StoreOK, store, taskVars, process
  <1>4. ASSUME NEW l \in {"create", "list", "exited"}, NEW c \in {"none", "ok", "CommandFailed"},
               at' = [at EXCEPT ![u] = l], status' = [status EXCEPT ![u] = c],
               l = "create" => work[u].op = "launch", l = "list" => work[u].op = "remove",
               l # "exited" => c = "none", c = "ok" => work[u].op = "launch"
        PROVE  DropletsInv'
    <2>1. at'[u] = l /\ status'[u] = c
      BY <1>1, <1>4 DEF UserOK
    <2>2. UserInv(u)'
      BY <1>1, <1>4, <2>1 DEF UserInv
    <2>3. UserOK' /\ OnlyMoves(u)
      BY <1>1, <1>2, <1>4 DEF UserOK, OnlyMoves
    <2>4. \A v \in User : UserInv(v)'
      BY <2>2, <2>3, OwnUser, OneUser
    <2>. QED
      BY <1>1, <1>3, <2>3, <2>4, UserMoves DEF store
  <1>5. ASSUME NEW l \in {"create", "list"}, Go(u, l),
               work[u].op = IF l = "create" THEN "launch" ELSE "remove"
        PROVE  DropletsInv'
    <2>1. status' = [status EXCEPT ![u] = "none"]
      BY <1>1, <1>5 DEF Go, UserOK
    <2>. QED
      BY <1>4, <1>5, <2>1 DEF Go
  <1>6. ASSUME NEW c \in {"ok", "CommandFailed"}, Leave(u, c), c = "ok" => work[u].op = "launch"
        PROVE  DropletsInv'
    BY <1>4, <1>6 DEF Leave
  <1>. QED
    BY <1>5, <1>6 DEF LaunchChecks, LaunchCreates, RemoveChecksApps, Is

\* What remove lists is what it has to delete.
LEMMA RemoveListsInv ==
    ASSUME DropletsInv, TasksInv', NEW u \in User, RemoveListsBlobs(u) PROVE DropletsInv'
  <1>1. /\ UserOK /\ UserInv(u) /\ at[u] = "list" /\ work[u].op = "remove"
        /\ todo[u] = {} /\ listed[u] = {} /\ gone[u] = {} /\ status[u] = "none"
        /\ UNCHANGED <<taskVars, store, app, work, gone>>
        /\ app' \in [App -> Droplet \cup {Absent}]
    BY OwnUser DEF RemoveListsBlobs, Is, UserInv, UserOK
  <1>2. StoreOK' /\ \A d \in Droplet : blob'[Bits(d)] = blob[Bits(d)]
    BY <1>1 DEF DropletsInv, StoreOK, store, taskVars, process
  <1>3. CASE Leave(u, "CommandFailed") /\ UNCHANGED <<todo, listed>>
    <2>1. at'[u] = "exited" /\ status'[u] = "CommandFailed"
      BY <1>1, <1>3 DEF Leave, UserOK
    <2>2. UserInv(u)'
      BY <1>1, <2>1 DEF UserInv
    <2>3. UserOK' /\ OnlyMoves(u)
      BY <1>1, <1>3 DEF Leave, UserOK, OnlyMoves
    <2>4. \A v \in User : UserInv(v)'
      BY <2>2, <2>3, OwnUser, OneUser
    <2>. QED
      BY <1>1, <1>2, <2>3, <2>4, UserMoves DEF store
  <1>4. CASE /\ Go(u, "delete")
             /\ todo' = [todo EXCEPT ![u] = Matches(work[u].droplet)]
             /\ listed' = [listed EXCEPT ![u] = Matches(work[u].droplet)]
    <2>1. Matches(work[u].droplet) \in SUBSET Blob
      BY DEF Matches
    <2>2. /\ at'[u] = "delete" /\ status'[u] = "none" /\ status' = [status EXCEPT ![u] = "none"]
          /\ todo'[u] = listed'[u] /\ gone'[u] = {}
      BY <1>1, <1>4, <2>1 DEF Go, UserOK
    <2>3. UserInv(u)'
      BY <1>1, <2>2 DEF UserInv
    <2>4. UserOK' /\ OnlyMoves(u)
      BY <1>1, <1>4, <2>1 DEF Go, UserOK, OnlyMoves
    <2>5. \A v \in User : UserInv(v)'
      BY <2>3, <2>4, OwnUser, OneUser
    <2>. QED
      BY <1>1, <1>2, <2>4, <2>5, UserMoves DEF store
  <1>. QED
    BY <1>3, <1>4 DEF RemoveListsBlobs

\* One delete after the other: what is deleted and what is left to do stay
\* together what was listed, until the first failure.
LEMMA RemoveDeletesInv ==
    ASSUME DropletsInv, TasksInv', NEW u \in User, RemoveDeletes(u) PROVE DropletsInv'
  <1>1. /\ UserOK /\ UserInv(u) /\ at[u] = "delete" /\ work[u].op = "remove" /\ status[u] = "none"
        /\ gone[u] \cup todo[u] = listed[u] /\ StoreOK
        /\ UNCHANGED <<taskVars, cmd, stage, fetched, app, work, listed>>
        /\ app' \in [App -> Droplet \cup {Absent}]
    BY OwnUser DEF RemoveDeletes, Is, UserInv, UserOK, DropletsInv, taskVars, process
  <1>2. PICK b \in todo[u] :
            \/ /\ Forget(b) /\ Go(u, "delete")
               /\ todo' = [todo EXCEPT ![u] = @ \ {b}]
               /\ gone' = [gone EXCEPT ![u] = @ \cup {b}]
            \/ /\ Forget(b) \/ UNCHANGED blob
               /\ Leave(u, "CommandFailed") /\ UNCHANGED <<todo, gone>>
    BY DEF RemoveDeletes
  <1>3. /\ b \in Blob /\ listed'[u] = listed[u]
        /\ todo[u] \in SUBSET Blob /\ listed[u] \in SUBSET Blob /\ gone[u] \in SUBSET Blob
    BY <1>1, OwnUser DEF UserOK
  <1>4. StoreOK' /\ \A d \in Droplet : blob'[Bits(d)] \in {blob[Bits(d)], Absent}
    <2>1. CASE Forget(b)
      <3>1. StoreOK'
        BY <1>1, <1>3, <2>1, OneBlob DEF Forget
      <3>. QED
        BY <1>1, <2>1, <3>1, Paths DEF Forget, StoreOK
    <2>2. CASE UNCHANGED blob
      BY <1>1, <2>2 DEF StoreOK
    <2>. QED
      BY <1>2, <2>1, <2>2
  <1>5. CASE /\ Go(u, "delete")
             /\ todo' = [todo EXCEPT ![u] = @ \ {b}]
             /\ gone' = [gone EXCEPT ![u] = @ \cup {b}]
    <2>1. /\ at'[u] = "delete" /\ status'[u] = "none" /\ status' = [status EXCEPT ![u] = "none"]
          /\ todo'[u] = todo[u] \ {b} /\ gone'[u] = gone[u] \cup {b}
      BY <1>1, <1>5 DEF Go, UserOK
    <2>2. UserInv(u)'
      BY <1>1, <1>2, <1>3, <2>1 DEF UserInv
    <2>3. UserOK' /\ OnlyMoves(u)
      BY <1>1, <1>2, <1>3, <1>5 DEF Go, UserOK, OnlyMoves
    <2>4. \A v \in User : UserInv(v)'
      BY <2>2, <2>3, OwnUser, OneUser
    <2>. QED
      BY <1>1, <1>4, <2>3, <2>4, UserMoves
  <1>6. CASE Leave(u, "CommandFailed") /\ UNCHANGED <<todo, gone>>
    <2>1. at'[u] = "exited" /\ status'[u] = "CommandFailed"
      BY <1>1, <1>6 DEF Leave, UserOK
    <2>2. UserInv(u)'
      BY <1>1, <2>1 DEF UserInv
    <2>3. UserOK' /\ OnlyMoves(u)
      BY <1>1, <1>6 DEF Leave, UserOK, OnlyMoves
    <2>4. \A v \in User : UserInv(v)'
      BY <2>2, <2>3, OwnUser, OneUser
    <2>. QED
      BY <1>1, <1>4, <2>3, <2>4, UserMoves
  <1>. QED
    BY <1>2, <1>5, <1>6

\* Done: nothing is left of what was listed, and there was something.
LEMMA RemoveIsDoneInv ==
    ASSUME DropletsInv, TasksInv', NEW u \in User, RemoveIsDone(u) PROVE DropletsInv'
  <1>1. /\ UserOK /\ UserInv(u) /\ at[u] = "delete" /\ todo[u] = {} /\ gone[u] = listed[u]
        /\ UNCHANGED <<taskVars, store, app, work, todo, listed, gone>>
        /\ app' \in [App -> Droplet \cup {Absent}]
    BY OwnUser DEF RemoveIsDone, Is, UserInv, UserOK
  <1>2. StoreOK' /\ \A d \in Droplet : blob'[Bits(d)] = blob[Bits(d)]
    BY <1>1 DEF DropletsInv, StoreOK, store, taskVars, process
  <1>3. PICK c \in {"ok", "CommandFailed"} : Leave(u, c) /\ (c = "ok" => gone[u] # {})
    BY DEF RemoveIsDone
  <1>4. at'[u] = "exited" /\ status'[u] = c
    BY <1>1, <1>3 DEF Leave, UserOK
  <1>5. UserInv(u)'
    BY <1>1, <1>3, <1>4 DEF UserInv
  <1>6. UserOK' /\ OnlyMoves(u)
    BY <1>1, <1>3 DEF Leave, UserOK, OnlyMoves
  <1>7. \A v \in User : UserInv(v)'
    BY <1>5, <1>6, OwnUser, OneUser
  <1>. QED
    BY <1>1, <1>2, <1>6, <1>7, UserMoves DEF store

-----------------------------------------------------------------------------
\* Every step preserves the invariant, one case per action.
LEMMA DropletsNextInv == DropletsInv /\ [DropletsNext]_vars => DropletsInv'
  <1> SUFFICES ASSUME DropletsInv, [DropletsNext]_vars PROVE DropletsInv'
    OBVIOUS
  <1>1. TasksInv'
    BY StepOfTasks, TasksNext DEF DropletsInv
  <1>2. ASSUME NEW p \in Proc, UploadBits(p) \/ TaskStep(p) PROVE DropletsInv'
    BY <1>1, <1>2, UploadBitsInv, TaskStepInv
  <1>3. ASSUME NEW d \in Droplet, Cell(d) PROVE DropletsInv'
    BY <1>1, <1>3, CellInv
  <1>4. ASSUME NEW u \in User, UserStep(u) PROVE DropletsInv'
    BY <1>1, <1>4, ImportInv, LaunchInv, RemoveListsInv, RemoveDeletesInv, RemoveIsDoneInv
    DEF UserStep
  <1>5. ASSUME NEW a \in App, RemoveApp(a) PROVE DropletsInv'
    BY <1>1, <1>5, RemoveAppInv
  <1>6. CASE UNCHANGED vars
    <2>1. StoreOK' /\ \A d \in Droplet : BitsAreGone(d)'
      BY <1>6 DEF DropletsInv, StoreOK, BitsAreGone, IsBuild,
         vars, taskVars, receptor, process, store, user
    <2>2. UserOK' /\ \A u \in User : UserInv(u)'
      BY <1>6, UsersAlone DEF DropletsInv, vars, UserOK
    <2>. QED
      BY <1>1, <2>1, <2>2 DEF DropletsInv
  <1>. QED
    BY <1>2, <1>3, <1>4, <1>5, <1>6 DEF DropletsNext

THEOREM DropletsInvariance == DropletsSpec => []DropletsInv
  BY DropletsInitInv, DropletsNextInv, PTL DEF DropletsSpec

\* remove-droplet reports success only if it deleted all it listed, and that
\* there was something to delete.
THEOREM RemoveCompletes == DropletsSpec => []RemoveIsComplete
  <1>1. DropletsInv => RemoveIsComplete
    BY DEF DropletsInv, UserInv, RemoveIsComplete
  <1>. QED
    BY <1>1, DropletsInvariance, PTL

\* A build that succeeded has left none of its application bits behind.
THEOREM BitsDoNotStay == DropletsSpec => []BuiltBitsAreGone
  <1>1. DropletsInv => BuiltBitsAreGone
    BY DEF DropletsInv, BitsAreGone, BuiltBitsAreGone
  <1>. QED
    BY <1>1, DropletsInvariance, PTL
=============================================================================
