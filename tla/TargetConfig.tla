---------------------------- MODULE TargetConfig ----------------------------
(***************************************************************************)
(* The configuration file and the invocations of ltc that share it: every  *)
(* one loads it when it starts, ltc target changes a copy of it step by    *)
(* step, verifies what it has and saves it at the end.                     *)
(*                                                                         *)
(* Receptors and droplet stores are not part of the repository: whom they  *)
(* let in is given by constants, and any call to them may fail.            *)
(***************************************************************************)
CONSTANTS
    Proc,       \* invocations of ltc
    Target,     \* system domains
    Secured,    \* those whose receptor and DAV store want a login
    Lines       \* the command lines under study

User == {"", "admin", "intruder"}
Keys == {"", "good", "bad"}     \* S3 access key, secret key, bucket and region
LineType == [op : {"target", "other"}, target : Target, s3 : BOOLEAN]
Data == [target : Target \cup {""}, user : User, active : {"dav", "s3"},
         host : Target \cup {""}, davUser : User, keys : Keys]
Zero == [target |-> "", user |-> "", active |-> "dav",
         host |-> "", davUser |-> "", keys |-> ""]
File == [is : {"missing", "empty", "torn", "whole"}, of : Data]
Config(d) == [is |-> "whole", of |-> d]
NoConfig(why) == [is |-> why, of |-> Zero]
Label == {"load", "before", "set", "verify", "verify store", "prompt", "verify login",
          "verify store with login", "save", "write", "exited"}
Code == {"none", "0", "1", "BadTarget", "FileSystemError", "Signal"}

ASSUME TargetAssumption == Secured \subseteq Target /\ "" \notin Target
ASSUME LinesAssumption == Lines \subseteq LineType

VARIABLES
    file,       \* what the configuration file holds
    pc, line,
    data,       \* the configuration in the memory of each process
    code,
    last,       \* history: the process that truncated or wrote the file last
    met,        \* history: another was about to write while this one was
    saved       \* history: every configuration that was ever to be saved

vars == <<file, pc, line, data, code, last, met, saved>>

Init ==
    /\ file = NoConfig("missing")
    /\ pc = [p \in Proc |-> "load"]
    /\ line \in [Proc -> Lines]
    /\ data = [p \in Proc |-> Zero]
    /\ code = [p \in Proc |-> "none"]
    /\ last = {} /\ met = [p \in Proc |-> FALSE]
    /\ saved = {}

-----------------------------------------------------------------------------
Goto(p, l) == pc' = [pc EXCEPT ![p] = l] /\ UNCHANGED code
Exit(p, c) == pc' = [pc EXCEPT ![p] = "exited"] /\ code' = [code EXCEPT ![p] = c]
Disk == <<file, last, met, saved>>

\* Faulty variant: what could be read of a damaged file is kept.
LoadPartly(p) ==
    /\ pc[p] = "load"
    /\ \/ file.is # "torn" /\ data' = [data EXCEPT ![p] = file.of]
       \/ /\ file.is = "torn"
          /\ \E d \in saved : data' = [data EXCEPT ![p].target = d.target]
    /\ Goto(p, IF line[p].op = "target" THEN "set" ELSE "before")
    /\ UNCHANGED <<Disk, line>>

\* A file that cannot be read or is no JSON leaves the empty configuration;
\* nobody looks at the error.
Load(p) ==
    /\ pc[p] = "load"
    /\ data' = [data EXCEPT ![p] = file.of]
    /\ Goto(p, IF line[p].op = "target" THEN "set" ELSE "before")
    /\ UNCHANGED <<Disk, line>>

\* Whom the receptor and the droplet stores let in.
Admits(t, u) == t \notin Secured \/ u = "admin"
StoreAdmits(d) == \/ d.active = "dav" /\ Admits(d.host, d.davUser)
                  \/ d.active = "s3" /\ d.keys = "good"
Verified(d) == Admits(d.target, d.user) /\ StoreAdmits(d)

\* app.Before of every other command: it runs only on a target it can reach.
Before(p) ==
    /\ pc[p] = "before"
    /\ \/ Exit(p, "1")
       \/ data[p].target # "" /\ Admits(data[p].target, data[p].user) /\ Exit(p, "0")
    /\ UNCHANGED <<Disk, line, data>>

\* Faulty variant: a store that is set stays where it is.
SetBlobStoreOnce(d, host, u) ==
    [d EXCEPT !.host = IF @ = "" THEN host ELSE @, !.davUser = u, !.active = "dav"]

\* The setters of config.Config; SetTarget is followed by SetLogin("", "").
SetBlobStore(d, host, u) == [d EXCEPT !.host = host, !.davUser = u, !.active = "dav"]
SetS3BlobStore(d, keys) == [d EXCEPT !.keys = keys, !.active = "s3"]
SetTarget(d, t) == [d EXCEPT !.target = t, !.user = ""]

\* ltc target <t>: the new target without a login, and its droplet store.
\* Three prompts stand between the two when the store is on S3.
Set(p) ==
    /\ pc[p] = "set"
    /\ LET l == line[p]
           d == SetTarget(data[p], l.target)
       IN  \/ l.s3 /\ \E k \in Keys \ {""} : data' = [data EXCEPT ![p] = SetS3BlobStore(d, k)]
           \/ ~l.s3 /\ data' = [data EXCEPT ![p] = SetBlobStore(d, l.target, "")]
    /\ Goto(p, "verify")
    /\ UNCHANGED <<Disk, line>>

\* Any verification may also fail because the other side does not answer.
Verify(p) ==
    /\ pc[p] = "verify"
    /\ LET in == Admits(data[p].target, data[p].user)
       IN  Exit(p, "BadTarget") \/ (in /\ Goto(p, "verify store")) \/ (~in /\ Goto(p, "prompt"))
    /\ UNCHANGED <<Disk, line, data>>

\* The login is one for the droplet store, too.
Prompt(p) ==
    /\ pc[p] = "prompt"
    /\ \E u \in User :
        data' = [data EXCEPT ![p] = SetBlobStore([@ EXCEPT !.user = u], line[p].target, u)]
    /\ Goto(p, "verify login")
    /\ UNCHANGED <<Disk, line>>

VerifyLogin(p) ==
    /\ pc[p] = "verify login"
    /\ \/ Exit(p, "BadTarget")
       \/ Admits(data[p].target, data[p].user) /\ Goto(p, "verify store with login")
    /\ UNCHANGED <<Disk, line, data>>

\* Faulty variant: the answer of the droplet store is passed over.
VerifyBlobStoreUnchecked(p) ==
    /\ pc[p] \in {"verify store", "verify store with login"}
    /\ Goto(p, "save")
    /\ UNCHANGED <<Disk, line, data>>

\* Only a droplet store that lets ltc in gets saved.
VerifyBlobStore(p) ==
    /\ pc[p] \in {"verify store", "verify store with login"}
    /\ Exit(p, "BadTarget") \/ (StoreAdmits(data[p]) /\ Goto(p, "save"))
    /\ UNCHANGED <<Disk, line, data>>

\* Processes that have opened the file and not written yet.
Writers == {p \in Proc : pc[p] = "write"}
Opens(p) ==
    /\ Goto(p, "write")
    /\ last' = {p}
    /\ met' = [q \in Proc |-> met[q] \/ (Writers # {} /\ q \in Writers \cup {p})]
    /\ saved' = saved \cup {data[p]}

\* Faulty variant: the file is opened without truncating it.
SaveInPlace(p) ==
    /\ pc[p] = "save"
    /\ \/ file' = (IF file.is = "missing" THEN NoConfig("empty") ELSE file) /\ Opens(p)
       \/ Exit(p, "FileSystemError") /\ UNCHANGED Disk
    /\ UNCHANGED <<line, data>>

\* Save: the file is emptied first, and then written.  The process may be
\* stopped or fail between the two, and in the middle of the second.
Save(p) ==
    /\ pc[p] = "save"
    /\ \/ file' = NoConfig("empty") /\ Opens(p)
       \/ Exit(p, "FileSystemError") /\ UNCHANGED Disk
    /\ UNCHANGED <<line, data>>

\* Faulty variant: a short write is taken for a whole one.
WriteUnchecked(p) ==
    /\ pc[p] = "write"
    /\ file' \in {Config(data[p]), NoConfig("torn")}
    /\ Exit(p, "0")
    /\ last' = {p}
    /\ UNCHANGED <<met, saved, line, data>>

\* Over what another process wrote meanwhile, a shorter text leaves its tail.
Write(p) ==
    /\ pc[p] = "write"
    /\ \/ file' = Config(data[p]) /\ Exit(p, "0")
       \/ file \notin {NoConfig("empty"), Config(data[p])} /\ file' = NoConfig("torn") /\ Exit(p, "0")
       \/ file' \in {file, NoConfig("torn")} /\ Exit(p, "FileSystemError")
    /\ last' = {p}
    /\ UNCHANGED <<met, saved, line, data>>

Interrupt(p) ==
    /\ pc[p] # "exited"
    /\ Exit(p, "Signal")
    /\ UNCHANGED <<Disk, line, data>>

Step(p) == \/ Load(p) \/ Before(p) \/ Set(p) \/ Verify(p) \/ Prompt(p) \/ VerifyLogin(p)
           \/ VerifyBlobStore(p) \/ Save(p) \/ Write(p) \/ Interrupt(p)
Next == \E p \in Proc : Step(p)
Spec == Init /\ [][Next]_vars

-----------------------------------------------------------------------------
TypeOK ==
    /\ file \in File
    /\ pc \in [Proc -> Label]
    /\ line \in [Proc -> Lines]
    /\ data \in [Proc -> Data]
    /\ code \in [Proc -> Code]
    /\ last \subseteq Proc /\ met \in [Proc -> BOOLEAN]
    /\ saved \subseteq Data

Whole == file.is = "whole"

\* "does not save the config": what is in the file has been let in by its
\* receptor and by its droplet store, with the login and the store in the file.
SavedIsVerified == Whole => Verified(file.of)

\* The DAV store a configuration uses is its target's, under the target's login.
StoreFollowsTarget == Whole /\ file.of.active = "dav" =>
    file.of.host = file.of.target /\ file.of.davUser = file.of.user

\* Every process works with nothing or with one configuration somebody saved,
\* never with parts of two, although the file is written in place.
Loads(p) == pc[p] \in {"set", "before"} \/ (pc[p] = "exited" /\ line[p].op = "other")
LoadsAreWhole == \A p \in Proc : Loads(p) => data[p] \in saved \cup {Zero}

\* A configuration gets lost only by the process that had the file last: it is
\* about to write, was stopped or failed at it, or another was about to write at
\* the same time.  Saves that come one after the other lose nothing, whatever
\* they find in the file and however many overlapped before.
LostHasACause ==
    file.is \in {"empty", "torn"} =>
        \E p \in last : \/ pc[p] = "write"
                        \/ code[p] \in {"Signal", "FileSystemError"}
                        \/ met[p]

\* "Target an S3 bucket as the droplet store".
S3IsKept == \A p \in Proc : line[p].op = "target" /\ line[p].s3 /\ code[p] = "0" =>
    data[p].active = "s3"
=============================================================================
