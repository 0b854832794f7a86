------------------------------ MODULE Registry ------------------------------
(***************************************************************************)
(* What the commands on apps promise whoever reads their exit codes, told  *)
(* without requests, polls and answers: an app comes into being, changes   *)
(* or goes in one step, and a command ends in one step.  Apps implements   *)
(* this, with everything it does between the two.                          *)
(***************************************************************************)
EXTENDS Naturals

CONSTANTS Proc, Name, Reserved, NoLRP, LRP

VARIABLES
    apps,   \* the app of each name, or NoLRP
    task,   \* what each process was started for
    done,   \* the names on which it has had its effect
    code    \* its exit code, "none" while it runs

vars == <<apps, task, done, code>>

Init ==
    /\ apps = [n \in Name |-> NoLRP]
    /\ done = [p \in Proc |-> {}]
    /\ code = [p \in Proc |-> "none"]

\* The four things that may happen to an app.  Creating makes one where there
\* is none, and the others find one; scaling leaves its routes alone, and an
\* update its instances and ports.
Creates(p, n, new) ==
    /\ task[p].op \in {"create", "submit"} /\ n # Reserved
    /\ apps[n] = NoLRP
    /\ new \in LRP /\ new.inst = task[p].inst
Scales(p, n, new) ==
    /\ task[p].op = "scale"
    /\ apps[n] # NoLRP /\ new = [apps[n] EXCEPT !.inst = task[p].inst]
Updates(p, n, new) ==
    /\ task[p].op = "update"
    /\ apps[n] # NoLRP /\ new \in LRP
    /\ new.inst = apps[n].inst /\ new.ports = apps[n].ports
Removes(p, n, new) ==
    /\ task[p].op = "remove"
    /\ apps[n] # NoLRP /\ new = NoLRP

\* Success says that everything was done, a command turned down that nothing
\* was; an error or a signal leaves it open.
MayEnd(p, finished, c) ==
    /\ c \in {"ok", "PlacementError"} => finished = task[p].names
    /\ c \in {"InvalidSyntax", "FileSystemError", "BadDocker"} => finished = {}

\* Only remove has its effect more than once.  The command may end with it:
\* the answer that it took effect is lost.
Effect(p) ==
    /\ code[p] = "none"
    /\ task[p].op # "remove" => done[p] = {}
    /\ \E n \in task[p].names :
        /\ \/ Creates(p, n, apps'[n]) \/ Scales(p, n, apps'[n])
           \/ Updates(p, n, apps'[n]) \/ Removes(p, n, apps'[n])
        /\ apps' = [apps EXCEPT ![n] = apps'[n]]
        /\ done' = [done EXCEPT ![p] = @ \cup {n}]
    /\ code'[p] # "none" => MayEnd(p, done'[p], code'[p])
    /\ code' = [code EXCEPT ![p] = code'[p]]
    /\ UNCHANGED task

End(p) ==
    /\ code[p] = "none"
    /\ MayEnd(p, done[p], code'[p])
    /\ code' = [code EXCEPT ![p] = code'[p]]
    /\ UNCHANGED <<apps, task, done>>

Next == \E p \in Proc : Effect(p) \/ End(p)
Spec == Init /\ [][Next]_vars
=============================================================================
