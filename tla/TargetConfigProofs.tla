------------------------- MODULE TargetConfigProofs -------------------------
(***************************************************************************)
(* For any number of invocations and targets: what is in the configuration *)
(* file was verified as it stands, under the store and login it names, is  *)
(* loaded whole or not at all, and gets lost only for a reason.            *)
(*                                                                         *)
(* None of this is inductive.  The checks are made on a copy that changes  *)
(* between them, so what has been verified is remembered by where a        *)
(* process is (Checked); and a process that writes must know that the file *)
(* is as it left it, unless it has met another at it (Writing).            *)
(***************************************************************************)
EXTENDS TargetConfig, TLAPS

\* The DAV store of a configuration is its target's, under the target's login.
Follows(d) == d.active = "dav" => d.host = d.target /\ d.davUser = d.user

\* Where each command line can be, and what it has loaded.
Loaded(p) ==
    /\ line[p].op = "other" => pc[p] \in {"load", "before", "exited"}
    /\ pc[p] = "load" => data[p] = Zero
    /\ Loads(p) => data[p] \in saved \cup {Zero}
    /\ pc[p] # "exited" => code[p] = "none"

\* What has been set and verified, by where ltc target is.
Checked(p) ==
    /\ pc[p] \notin {"load", "before", "set", "exited"} =>
           data[p].target = line[p].target /\ Follows(data[p])
    /\ pc[p] \in {"verify store", "verify store with login"} =>
           Admits(data[p].target, data[p].user)
    /\ pc[p] \in {"save", "write"} => Verified(data[p])

\* Whoever is about to write has emptied the file, and it still is, unless
\* another is or was about to write as well; then both know.
Writing(p) == pc[p] = "write" =>
    /\ data[p] \in saved
    /\ (\E q \in Proc \ {p} : pc[q] = "write") => met[p]
    /\ file = NoConfig("empty") \/ met[p]

\* The file holds one of the configurations that were to be saved, or none.
FileIsSaved ==
    /\ file.of \in IF Whole THEN saved ELSE {Zero}
    /\ \A d \in saved : Verified(d) /\ Follows(d)

IInv ==
    /\ TypeOK /\ FileIsSaved /\ LostHasACause
    /\ \A p \in Proc : Loaded(p) /\ Checked(p) /\ Writing(p)

USE TargetAssumption, LinesAssumption

-----------------------------------------------------------------------------
\* What every step starts from, about the process that takes it.
LEMMA Own ==
    ASSUME IInv, NEW p \in Proc
    PROVE  /\ TypeOK /\ FileIsSaved /\ Loaded(p) /\ Checked(p) /\ Writing(p)
           /\ pc[p] \in Label /\ data[p] \in Data /\ code[p] \in Code
           /\ line[p] \in LineType /\ line[p].op \in {"target", "other"}
           /\ line[p].target \in Target /\ line[p].s3 \in BOOLEAN
           /\ file \in File /\ file.of \in Data
  <1>1. TypeOK /\ FileIsSaved /\ Loaded(p) /\ Checked(p) /\ Writing(p)
    BY DEF IInv
  <1>2. line[p] \in LineType /\ file \in File
    BY <1>1 DEF TypeOK
  <1>. QED
    BY <1>1, <1>2 DEF TypeOK, LineType, File

\* Only p moves.
OnlyMoves(p) ==
    \A q \in Proc \ {p} : pc'[q] = pc[q] /\ data'[q] = data[q] /\ code'[q] = code[q]

\* A step that leaves the file alone keeps what was known of it and of the
\* other processes.
LEMMA FileAlone ==
    ASSUME IInv, NEW p \in Proc, UNCHANGED <<Disk, line>>, OnlyMoves(p), TypeOK',
           Loaded(p)', Checked(p)', pc'[p] # "write",
           pc[p] = "write" => code'[p] \in {"Signal", "FileSystemError"},
           code[p] \in {"Signal", "FileSystemError"} => code'[p] = code[p]
    PROVE  IInv'
  <1>1. file' = file /\ last' = last /\ met' = met /\ saved' = saved /\ line' = line
    BY DEF Disk
  <1>2. FileIsSaved'
    BY <1>1 DEF IInv, FileIsSaved, Whole
  <1>3. ASSUME NEW q \in Proc, q # p PROVE Loaded(q)' /\ Checked(q)' /\ Writing(q)'
    <2>1. pc'[q] = pc[q] /\ data'[q] = data[q] /\ code'[q] = code[q]
      BY <1>3 DEF OnlyMoves
    <2>2. Loaded(q) /\ Checked(q) /\ Writing(q)
      BY DEF IInv
    <2>3. Loaded(q)'
      BY <1>1, <2>1, <2>2 DEF Loaded, Loads
    <2>4. Checked(q)'
      BY <1>1, <2>1, <2>2 DEF Checked
    <2>5. Writing(q)'
      <3>1. \A r \in Proc : pc'[r] = "write" => pc[r] = "write"
        BY DEF OnlyMoves
      <3>. QED
        BY <1>1, <2>1, <2>2, <3>1 DEF Writing
    <2>. QED
      BY <2>3, <2>4, <2>5
  <1>4. LostHasACause'
    <2>1. ASSUME NEW q \in Proc,
                 \/ pc[q] = "write" \/ code[q] \in {"Signal", "FileSystemError"}
          PROVE  \/ pc'[q] = "write" \/ code'[q] \in {"Signal", "FileSystemError"}
      BY <2>1 DEF OnlyMoves
    <2>. QED
      BY <1>1, <2>1 DEF IInv, TypeOK, LostHasACause
  <1>5. Writing(p)'
    BY DEF Writing
  <1>. QED
    BY <1>2, <1>3, <1>4, <1>5 DEF IInv

\* Leaving without touching the file.
LEMMA ExitInv ==
    ASSUME IInv, NEW p \in Proc, NEW c \in Code \ {"none"}, Exit(p, c), UNCHANGED <<Disk, line, data>>,
           pc[p] # "exited", pc[p] = "write" => c \in {"Signal", "FileSystemError"}
    PROVE  IInv'
  <1>1. TypeOK /\ Loaded(p) /\ code[p] = "none" /\ pc[p] \in Label /\ line[p].op \in {"target", "other"}
    BY Own DEF Loaded
  <1>2. pc'[p] = "exited" /\ code'[p] = c /\ data' = data /\ line' = line /\ saved' = saved
    BY <1>1 DEF Exit, TypeOK, Disk
  <1>3. TypeOK'
    BY <1>1 DEF Exit, TypeOK, Label, Disk
  <1>4. Loaded(p)'
    <2>1. line[p].op = "other" => data[p] \in saved \cup {Zero}
      BY <1>1 DEF Loaded, Loads
    <2>. QED
      BY <1>2, <2>1 DEF Loaded, Loads
  <1>5. Checked(p)' /\ OnlyMoves(p)
    BY <1>1, <1>2 DEF Checked, OnlyMoves, Exit, TypeOK
  <1>. QED
    BY <1>1, <1>2, <1>3, <1>4, <1>5, FileAlone

\* Going on, with what the process has in memory and has verified of it.
MayBeAt(p, l, d) ==
    /\ line[p].op = "other" => l = "before"
    /\ l = "load" => d = Zero
    /\ l \in {"set", "before"} => d \in saved \cup {Zero}
    /\ l \notin {"load", "before", "set"} => d.target = line[p].target /\ Follows(d)
    /\ l \in {"verify store", "verify store with login"} => Admits(d.target, d.user)
    /\ l = "save" => Verified(d)

LEMMA GotoInv ==
    ASSUME IInv, NEW p \in Proc, NEW l \in Label \ {"exited", "write"}, Goto(p, l),
           data' \in [Proc -> Data], \A q \in Proc \ {p} : data'[q] = data[q],
           UNCHANGED <<Disk, line>>, pc[p] \notin {"exited", "write"},
           MayBeAt(p, l, data'[p])
    PROVE  IInv'
  <1>1. TypeOK /\ code[p] = "none"
    BY Own DEF Loaded
  <1>2. pc'[p] = l /\ code'[p] = "none" /\ line' = line /\ saved' = saved
    BY <1>1 DEF Goto, TypeOK, Disk
  <1>3. TypeOK' /\ OnlyMoves(p)
    BY <1>1 DEF Goto, TypeOK, Disk, OnlyMoves
  <1>4. Loaded(p)' /\ Checked(p)'
    BY <1>2 DEF MayBeAt, Loaded, Loads, Checked
  <1>. QED
    BY <1>1, <1>2, <1>3, <1>4, FileAlone

-----------------------------------------------------------------------------
LEMMA InitIInv == Init => IInv
  <1> SUFFICES ASSUME Init PROVE IInv
    OBVIOUS
  <1>1. Zero \in Data
    BY DEF Zero, Data, User, Keys
  <1>2. file \in File /\ file.is = "missing" /\ file.of = Zero
    BY <1>1 DEF Init, NoConfig, File
  <1>3. TypeOK
    BY <1>1, <1>2 DEF Init, TypeOK, Label, Code
  <1>4. FileIsSaved /\ LostHasACause
    BY <1>2 DEF Init, FileIsSaved, Whole, LostHasACause
  <1>5. \A p \in Proc : Loaded(p) /\ Checked(p) /\ Writing(p)
    BY DEF Init, Loaded, Loads, Checked, Writing
  <1>. QED
    BY <1>3, <1>4, <1>5 DEF IInv

\* The setters make configurations, and those that follow their target.
LEMMA S3Setter ==
    ASSUME NEW d \in Data, NEW t \in Target, NEW k \in Keys
    PROVE  /\ SetS3BlobStore(SetTarget(d, t), k) \in Data
           /\ SetS3BlobStore(SetTarget(d, t), k).target = t
           /\ Follows(SetS3BlobStore(SetTarget(d, t), k))
  BY DEF SetTarget, SetS3BlobStore, Follows, Data, User

LEMMA DavSetter ==
    ASSUME NEW d \in Data, NEW t \in Target
    PROVE  /\ SetBlobStore(SetTarget(d, t), t, "") \in Data
           /\ SetBlobStore(SetTarget(d, t), t, "").target = t
           /\ Follows(SetBlobStore(SetTarget(d, t), t, ""))
  BY DEF SetTarget, SetBlobStore, Follows, Data, User

LEMMA LoginSetter ==
    ASSUME NEW d \in Data, NEW u \in User, d.target \in Target
    PROVE  /\ SetBlobStore([d EXCEPT !.user = u], d.target, u) \in Data
           /\ SetBlobStore([d EXCEPT !.user = u], d.target, u).target = d.target
           /\ Follows(SetBlobStore([d EXCEPT !.user = u], d.target, u))
  BY DEF SetBlobStore, Follows, Data

\* What is loaded was saved as a whole, or is the empty configuration.
LEMMA LoadInv == ASSUME IInv, NEW p \in Proc, Load(p) PROVE IInv'
  <1>1. /\ TypeOK /\ pc[p] = "load" /\ file.of \in Data /\ UNCHANGED <<Disk, line>>
        /\ data' = [data EXCEPT ![p] = file.of] /\ file.of \in saved \cup {Zero}
        /\ line[p].op \in {"target", "other"}
    BY Own DEF Load, FileIsSaved
  <1>2. /\ data' \in [Proc -> Data] /\ \A q \in Proc \ {p} : data'[q] = data[q]
        /\ data'[p] \in saved \cup {Zero}
    BY <1>1 DEF TypeOK
  <1>3. CASE line[p].op = "target"
    BY <1>1, <1>2, <1>3, GotoInv DEF Load, Label, MayBeAt
  <1>4. CASE line[p].op = "other"
    BY <1>1, <1>2, <1>4, GotoInv DEF Load, Label, MayBeAt
  <1>. QED
    BY <1>1, <1>3, <1>4

LEMMA BeforeInv == ASSUME IInv, NEW p \in Proc, Before(p) PROVE IInv'
  BY ExitInv DEF Before, Code

LEMMA SetInv == ASSUME IInv, NEW p \in Proc, Set(p) PROVE IInv'
  <1> DEFINE l == line[p]
             d == SetTarget(data[p], l.target)
  <1>1. /\ TypeOK /\ pc[p] = "set" /\ l.op = "target" /\ l.target \in Target /\ data[p] \in Data
        /\ UNCHANGED <<Disk, line>> /\ Goto(p, "verify")
    BY Own DEF Set, Loaded
  <1>2. ASSUME NEW e \in Data, e.target = l.target, Follows(e), data' = [data EXCEPT ![p] = e]
        PROVE  IInv'
    <2>1. /\ data' \in [Proc -> Data] /\ \A q \in Proc \ {p} : data'[q] = data[q]
          /\ data'[p] = e
      BY <1>1, <1>2 DEF TypeOK
    <2>. QED
      BY <1>1, <1>2, <2>1, GotoInv DEF Label, MayBeAt
  <1>3. ASSUME NEW k \in Keys, data' = [data EXCEPT ![p] = SetS3BlobStore(d, k)] PROVE IInv'
    <2>1. PICK a \in Data, t \in Target : a = data[p] /\ t = l.target
      BY <1>1
    <2>2. PICK e : e = SetS3BlobStore(SetTarget(a, t), k)
      OBVIOUS
    <2>3. e \in Data /\ e.target = t /\ Follows(e)
      BY <2>2, S3Setter
    <2>4. data' = [data EXCEPT ![p] = e]
      BY <1>3, <2>1, <2>2
    <2>. QED
      BY <1>2, <2>1, <2>3, <2>4
  <1>4. CASE data' = [data EXCEPT ![p] = SetBlobStore(d, l.target, "")]
    <2>1. PICK a \in Data, t \in Target : a = data[p] /\ t = l.target
      BY <1>1
    <2>2. PICK e : e = SetBlobStore(SetTarget(a, t), t, "")
      OBVIOUS
    <2>3. e \in Data /\ e.target = t /\ Follows(e)
      BY <2>2, DavSetter
    <2>4. data' = [data EXCEPT ![p] = e]
      BY <1>4, <2>1, <2>2
    <2>. QED
      BY <1>2, <2>1, <2>3, <2>4
  <1>. QED
    BY <1>3, <1>4 DEF Set

\* A login typed in is the droplet store's, too.
LEMMA PromptInv == ASSUME IInv, NEW p \in Proc, Prompt(p) PROVE IInv'
  <1>1. /\ pc[p] = "prompt" /\ line[p].op = "target" /\ line[p].target \in Target
        /\ data[p] \in Data /\ data[p].target = line[p].target /\ TypeOK
        /\ UNCHANGED <<Disk, line>> /\ Goto(p, "verify login")
    BY Own DEF Prompt, Loaded, Checked
  <1>2. PICK u \in User :
            data' = [data EXCEPT ![p] = SetBlobStore([@ EXCEPT !.user = u], line[p].target, u)]
    BY DEF Prompt
  <1> DEFINE d == SetBlobStore([data[p] EXCEPT !.user = u], line[p].target, u)
  <1>3. d \in Data /\ d.target = line[p].target /\ Follows(d)
    <2>1. PICK a \in Data : a = data[p]
      BY <1>1
    <2>2. a.target = line[p].target /\ a.target \in Target
      BY <1>1, <2>1
    <2>3. d = SetBlobStore([a EXCEPT !.user = u], a.target, u)
      BY <2>1, <2>2
    <2>. QED
      BY <2>2, <2>3, LoginSetter
  <1> HIDE DEF d
  <1>4. /\ data' \in [Proc -> Data] /\ \A q \in Proc \ {p} : data'[q] = data[q]
        /\ data'[p] = d
    <2>1. data' = [data EXCEPT ![p] = d]
      BY <1>1, <1>2 DEF TypeOK, d
    <2>. QED
      BY <1>1, <1>3, <2>1 DEF TypeOK
  <1>. QED
    BY <1>1, <1>3, <1>4, GotoInv DEF Label, MayBeAt

\* The three verifications look at the copy as it is going to be saved.
LEMMA VerifyInv ==
    ASSUME IInv, NEW p \in Proc, Verify(p) \/ VerifyLogin(p) \/ VerifyBlobStore(p) PROVE IInv'
  <1>1. /\ pc[p] \in {"verify", "verify login", "verify store", "verify store with login"}
        /\ line[p].op = "target" /\ data[p].target = line[p].target /\ Follows(data[p])
        /\ pc[p] \in {"verify store", "verify store with login"} => Admits(data[p].target, data[p].user)
        /\ UNCHANGED <<Disk, line, data>> /\ data' \in [Proc -> Data] /\ data'[p] = data[p]
    BY Own DEF Verify, VerifyLogin, VerifyBlobStore, Loaded, Checked, TypeOK
  <1>2. CASE Exit(p, "BadTarget")
    BY <1>1, <1>2, ExitInv DEF Code
  <1>3. CASE Admits(data[p].target, data[p].user) /\ Goto(p, "verify store")
    BY <1>1, <1>3, GotoInv DEF Label, MayBeAt
  <1>4. CASE Admits(data[p].target, data[p].user) /\ Goto(p, "verify store with login")
    BY <1>1, <1>4, GotoInv DEF Label, MayBeAt
  <1>5. CASE Goto(p, "prompt")
    BY <1>1, <1>5, GotoInv DEF Label, MayBeAt
  <1>6. CASE /\ pc[p] \in {"verify store", "verify store with login"}
             /\ StoreAdmits(data[p]) /\ Goto(p, "save")
    <2>1. Verified(data[p])
      BY <1>1, <1>6 DEF Verified
    <2>. QED
      BY <1>1, <1>6, <2>1, GotoInv DEF Label, MayBeAt
  <1>. QED
    BY <1>2, <1>3, <1>4, <1>5, <1>6 DEF Verify, VerifyLogin, VerifyBlobStore

\* The file is emptied: from here on the process is the cause of its loss.
LEMMA SaveInv == ASSUME IInv, NEW p \in Proc, Save(p) PROVE IInv'
  <1>1. /\ TypeOK /\ FileIsSaved /\ Loaded(p) /\ Checked(p) /\ pc[p] = "save" /\ code[p] = "none"
        /\ UNCHANGED <<line, data>> /\ data[p] \in Data /\ line[p].op = "target"
        /\ Verified(data[p]) /\ Follows(data[p]) /\ data[p].target = line[p].target
    BY Own DEF Save, Loaded, Checked
  <1>2. CASE Exit(p, "FileSystemError") /\ UNCHANGED Disk
    BY <1>1, <1>2, ExitInv DEF Code
  <1>3. CASE file' = NoConfig("empty") /\ Opens(p)
    <2>0. /\ Goto(p, "write") /\ last' = {p} /\ saved' = saved \cup {data[p]}
          /\ met' = [q \in Proc |-> met[q] \/ (Writers # {} /\ q \in Writers \cup {p})]
      BY <1>3 DEF Opens
    <2>1. /\ pc'[p] = "write" /\ data'[p] \in saved' /\ saved \subseteq saved'
          /\ OnlyMoves(p) /\ data' = data /\ line' = line /\ code' = code
          /\ met' \in [Proc -> BOOLEAN]
      BY <1>1, <2>0 DEF Goto, OnlyMoves, TypeOK
    <2>2. file'.is = "empty" /\ file'.of = Zero /\ file' \in File
      BY <1>3, <1>1 DEF NoConfig, File, Zero, Data, User, Keys
    <2>3. TypeOK'
      BY <1>1, <2>0, <2>1, <2>2 DEF Goto, TypeOK, Label
    <2>4. FileIsSaved'
      BY <1>1, <2>0, <2>2 DEF FileIsSaved, Whole
    <2>5. LostHasACause'
      BY <2>0, <2>1 DEF LostHasACause
    <2>8. ASSUME NEW q \in Proc, NEW r \in Proc \ {q}, pc'[q] = "write", pc'[r] = "write"
          PROVE  met'[q]
      <3>1. (q = p /\ r \in Writers) \/ q \in Writers
        BY <2>1, <2>8 DEF OnlyMoves, Writers
      <3>. QED
        BY <2>0, <3>1
    <2>6. Loaded(p)' /\ Checked(p)' /\ Writing(p)'
      BY <1>1, <1>3, <2>1, <2>8 DEF Loaded, Loads, Checked, Writing
    <2>7. ASSUME NEW q \in Proc, q # p PROVE Loaded(q)' /\ Checked(q)' /\ Writing(q)'
      <3>1. pc'[q] = pc[q] /\ data'[q] = data[q] /\ code'[q] = code[q]
        BY <2>1, <2>7 DEF OnlyMoves
      <3>2. Loaded(q) /\ Checked(q) /\ Writing(q)
        BY DEF IInv
      <3>. QED
        BY <1>3, <2>1, <2>8, <3>1, <3>2 DEF Loaded, Loads, Checked, Writing
    <2>. QED
      BY <2>3, <2>4, <2>5, <2>6, <2>7 DEF IInv
  <1>. QED
    BY <1>2, <1>3 DEF Save

\* The file gets what was saved, or is torn by two, or by a failure.
LEMMA WriteInv == ASSUME IInv, NEW p \in Proc, Write(p) PROVE IInv'
  <1>1. /\ TypeOK /\ FileIsSaved /\ pc[p] = "write" /\ code[p] = "none" /\ Writing(p)
        /\ UNCHANGED <<met, saved, line, data>> /\ data[p] \in Data /\ data[p] \in saved
        /\ line[p].op = "target" /\ last' = {p} /\ file \in File
    BY Own DEF Write, Loaded, Writing
  <1>2. PICK c \in {"0", "FileSystemError"} : Exit(p, c)
    BY DEF Write
  <1>3. pc'[p] = "exited" /\ code'[p] = c /\ OnlyMoves(p)
    BY <1>1, <1>2 DEF Exit, OnlyMoves, TypeOK
  <1>4. file' \in {file, NoConfig("torn"), Config(data[p])}
    BY DEF Write
  <1>5. NoConfig("torn") \in File /\ Config(data[p]) \in File
        /\ NoConfig("torn").is = "torn" /\ NoConfig("torn").of = Zero
        /\ Config(data[p]).is = "whole" /\ Config(data[p]).of = data[p]
    <2>1. Zero \in Data
      BY DEF Zero, Data, User, Keys
    <2>. QED
      BY <1>1, <2>1 DEF NoConfig, Config, File
  <1>6. TypeOK'
    <2>1. file' \in File
      BY <1>1, <1>4, <1>5
    <2>2. pc' \in [Proc -> Label] /\ code' \in [Proc -> Code]
      BY <1>1, <1>2 DEF Exit, TypeOK, Label, Code
    <2>. QED
      BY <1>1, <2>1, <2>2 DEF TypeOK
  <1>7. FileIsSaved'
    BY <1>1, <1>4, <1>5 DEF FileIsSaved, Whole
  <1>8. Loaded(p)' /\ Checked(p)' /\ Writing(p)'
    BY <1>1, <1>3 DEF Loaded, Loads, Checked, Writing
  <1>9. ASSUME NEW q \in Proc, q # p PROVE Loaded(q)' /\ Checked(q)' /\ Writing(q)'
    <2>1. /\ pc'[q] = pc[q] /\ data'[q] = data[q] /\ code'[q] = code[q]
          /\ line' = line /\ saved' = saved /\ met' = met
      BY <1>1, <1>3, <1>9 DEF OnlyMoves
    <2>2. Loaded(q) /\ Checked(q) /\ Writing(q)
      BY DEF IInv
    <2>3. Loaded(q)'
      BY <2>1, <2>2 DEF Loaded, Loads
    <2>4. Checked(q)'
      BY <2>1, <2>2 DEF Checked
    <2>5. pc[q] = "write" => met[q]
      BY <1>1, <1>9, <2>2 DEF Writing
    <2>6. Writing(q)'
      BY <2>1, <2>2, <2>5 DEF Writing
    <2>. QED
      BY <2>3, <2>4, <2>6
  <1>10. LostHasACause'
    <2>1. CASE c = "FileSystemError"
      BY <1>1, <1>3, <2>1 DEF LostHasACause
    <2>2. CASE c = "0"
      <3>1. file' = Config(data[p]) \/ file # NoConfig("empty")
        BY <1>1, <1>2, <2>2 DEF Write, Exit, TypeOK
      <3>2. CASE file' = Config(data[p])
        BY <1>5, <3>2 DEF LostHasACause
      <3>3. CASE file # NoConfig("empty")
        BY <1>1, <3>3 DEF Writing, LostHasACause
      <3>. QED
        BY <3>1, <3>2, <3>3
    <2>. QED
      BY <2>1, <2>2
  <1>. QED
    BY <1>6, <1>7, <1>8, <1>9, <1>10 DEF IInv

-----------------------------------------------------------------------------
\* Every step preserves the invariant, one case per action.
LEMMA NextIInv == IInv /\ [Next]_vars => IInv'
  <1> SUFFICES ASSUME IInv, [Next]_vars PROVE IInv'
    OBVIOUS
  <1>1. ASSUME NEW p \in Proc, Interrupt(p) PROVE IInv'
    BY <1>1, ExitInv DEF Interrupt, Code
  <1>2. ASSUME NEW p \in Proc, Step(p) PROVE IInv'
    BY <1>1, <1>2, LoadInv, BeforeInv, SetInv, VerifyInv, PromptInv, SaveInv, WriteInv DEF Step
  <1>3. CASE UNCHANGED vars
    BY <1>3 DEF IInv, TypeOK, FileIsSaved, Whole, LostHasACause, Loaded, Loads, Checked, Writing, vars
  <1>. QED
    BY <1>2, <1>3 DEF Next

THEOREM Invariance == Spec => []IInv
  BY InitIInv, NextIInv, PTL DEF Spec

\* Every field of a configuration, in memory and on disk, is what it is for.
THEOREM TypeCorrect == Spec => []TypeOK
  BY Invariance, PTL DEF IInv

\* Nothing gets into the file that its receptor and its droplet store have not
\* let in with just that login and store.
THEOREM OnlyVerifiedIsSaved == Spec => []SavedIsVerified
  <1>1. IInv => SavedIsVerified
    BY DEF IInv, FileIsSaved, SavedIsVerified
  <1>. QED
    BY <1>1, Invariance, PTL

\* A configuration on DAV uses the store of its own target, with its login.
THEOREM StoreIsTheTargets == Spec => []StoreFollowsTarget
  <1>1. IInv => StoreFollowsTarget
    BY DEF IInv, FileIsSaved, Follows, StoreFollowsTarget
  <1>. QED
    BY <1>1, Invariance, PTL

\* Although the file is written in place, no process works with parts of two.
THEOREM NeverPartsOfTwo == Spec => []LoadsAreWhole
  <1>1. IInv => LoadsAreWhole
    BY DEF IInv, Loaded, LoadsAreWhole
  <1>. QED
    BY <1>1, Invariance, PTL

\* Whoever had an empty or torn file last is at it still, stopped or failed, or
\* was not alone between opening and writing it.
THEOREM LossHasACause == Spec => []LostHasACause
  BY Invariance, PTL DEF IInv
=============================================================================
