------------------------------ MODULE Examiner ------------------------------
(***************************************************************************)
(* What ltc cells (and visualize), list, status and ssh tell about the     *)
(* apps and cells.  Each asks the receptor twice, for the cells or the     *)
(* desired apps and then for the instances, and merges the two answers;    *)
(* Diego goes on between them.                                             *)
(*                                                                         *)
(* Diego and the receptor are not part of the repository: instances move   *)
(* through their states, cells come and vanish, other clients create,      *)
(* scale and remove apps.  How the answers are laid out is left out.       *)
(***************************************************************************)
EXTENDS Integers, FiniteSetsExt

CONSTANTS
    App, Cell,
    Index,      \* of instances
    NoCell      \* the empty cell id

ASSUME IndexAssumption == Index \subseteq Nat /\ IsFiniteSet(Index)
ASSUME AppAssumption == IsFiniteSet(App)
ASSUME CellAssumption == NoCell \notin Cell /\ IsFiniteSet(Cell)

Absent == -1
Command == {"cells", "list", "status", "ssh"}

VARIABLES
    desired,    \* instances wanted of each app, or Absent
    instance,   \* the instances Diego has
    registered, \* its cells
    command, name, index,   \* what is asked for
    at,
    first,      \* the answer to the first question
    second,     \* and the instances of the second
    result,     \* the rows shown
    status,     \* how it ended; every failure exits with CommandFailed
    always, ever \* history: the apps that were desired all the time, that were there at some time

diego == <<desired, instance, registered>>
asked == <<command, name, index>>
answers == <<at, first, second, result, status>>
examinerVars == <<diego, asked, answers, always, ever>>

Here(c) == c \in {"CLAIMED", "RUNNING"}
Actual(i) == {x \in App \X Index : i[x].state # "none"}
Known(d, i) == {a \in App : d[a] # Absent \/ \E n \in Index : <<a, n>> \in Actual(i)}

ExaminerInit ==
    /\ desired = [a \in App |-> Absent]
    /\ instance = [x \in App \X Index |-> [state |-> "none", cell |-> NoCell]]
    /\ registered = {}
    /\ command \in Command /\ name \in App /\ index \in Index
    /\ at = "typed" /\ first = {} /\ second = {} /\ result = {} /\ status = "none"
    /\ always = {} /\ ever = {}

-----------------------------------------------------------------------------
\* The command, from the moment it is typed in.

Start ==
    /\ at = "typed"
    /\ at' = "first"
    /\ always' = {a \in App : desired[a] # Absent} /\ ever' = Known(desired, instance)
    /\ UNCHANGED <<diego, asked, first, second, result, status>>

Exit(c) == at' = "exited" /\ status' = c

\* Any request may fail.
AskFails ==
    /\ at \in {"first", "second"}
    /\ Exit("CommandFailed")
    /\ UNCHANGED <<diego, asked, first, second, result, always, ever>>

ReadCells ==
    /\ at = "first" /\ command = "cells"
    /\ first' = registered
    /\ at' = "second"
    /\ UNCHANGED <<diego, asked, second, result, status, always, ever>>

ReadDesired ==
    /\ at = "first" /\ command = "list"
    /\ first' = {<<a, desired[a]>> : a \in {b \in App : desired[b] # Absent}}
    /\ at' = "second"
    /\ UNCHANGED <<diego, asked, second, result, status, always, ever>>

\* DesiredLRPNotFound leaves an empty answer.
GetDesired ==
    /\ at = "first" /\ command \in {"status", "ssh"}
    /\ first' = IF desired[name] = Absent THEN {} ELSE {<<name, desired[name]>>}
    /\ at' = "second"
    /\ UNCHANGED <<diego, asked, second, result, status, always, ever>>

ReadActual ==
    /\ at = "second"
    /\ second' = {[app |-> x[1], index |-> x[2], state |-> instance[x].state, cell |-> instance[x].cell] :
                    x \in {y \in Actual(instance) : command \in {"status", "ssh"} => y[1] = name}}
    /\ at' = "merge"
    /\ UNCHANGED <<diego, asked, first, result, status, always, ever>>

Count(lrps, s) == Cardinality({l \in lrps : l.state = s})

\* Faulty variant: instances on a cell that is not listed are skipped.
CellRowsListed(cells, lrps) ==
    {[cell |-> c,
      missing |-> FALSE,
      running |-> Count({l \in lrps : l.cell = c}, "RUNNING"),
      claimed |-> Count({l \in lrps : l.cell = c}, "CLAIMED")] : c \in cells}

\* Unclaimed instances are skipped; every other one is on a cell.
CellRows(cells, lrps) ==
    {[cell |-> c,
      missing |-> c \notin cells,
      running |-> Count({l \in lrps : l.cell = c}, "RUNNING"),
      claimed |-> Count({l \in lrps : l.cell = c}, "CLAIMED")] :
        c \in cells \cup {l.cell : l \in {m \in lrps : m.state # "UNCLAIMED"}}}

\* Faulty variant: an app is shown when both answers have it.
AppRowsOfBoth(apps, lrps) ==
    {[app |-> a,
      desired |-> CHOOSE n \in 0 .. Cardinality(Index) : <<a, n>> \in apps,
      running |-> Count({l \in lrps : l.app = a}, "RUNNING")] :
        a \in {b[1] : b \in apps} \cap {l.app : l \in lrps}}

\* mergeDesiredActualLRPs: an app of either answer, with 0 wanted when only
\* its instances are left.
AppRows(apps, lrps) ==
    {[app |-> a,
      desired |-> IF a \in {b[1] : b \in apps} THEN CHOOSE n \in 0 .. Cardinality(Index) : <<a, n>> \in apps
                  ELSE 0,
      running |-> Count({l \in lrps : l.app = a}, "RUNNING")] :
        a \in {b[1] : b \in apps} \cup {l.app : l \in lrps}}

ShowCells ==
    /\ at = "merge" /\ command = "cells"
    /\ result' = CellRows(first, second)
    /\ Exit("ok")
    /\ UNCHANGED <<diego, asked, first, second, always, ever>>

\* list shows what there is; status and ssh need the app.
ShowApps ==
    /\ at = "merge" /\ command \in {"list", "status"}
    /\ result' = AppRows(first, second)
    /\ Exit(IF command = "status" /\ result' = {} THEN "not found" ELSE "ok")
    /\ UNCHANGED <<diego, asked, first, second, always, ever>>

\* ssh connects to an index below the number of running instances.
CheckIndex ==
    /\ at = "merge" /\ command = "ssh"
    /\ LET rows == AppRows(first, second)
       IN /\ result' = rows
          /\ Exit(IF rows = {} THEN "not found"
                  ELSE IF \A r \in rows : index < r.running THEN "ok"
                  ELSE "does not exist")
    /\ UNCHANGED <<diego, asked, first, second, always, ever>>

-----------------------------------------------------------------------------
\* Diego and its other clients, before and while the command runs.

Seen ==
    /\ at # "exited"
    /\ always' = IF at = "typed" THEN always ELSE {a \in always : desired'[a] # Absent}
    /\ ever' = IF at = "typed" THEN ever ELSE ever \cup Known(desired', instance')
    /\ UNCHANGED <<asked, answers>>

Desire(a, n) ==
    /\ desired' = [desired EXCEPT ![a] = n]
    /\ desired[a] # n
    /\ UNCHANGED <<instance, registered>> /\ Seen

Becomes(x, s, c) == instance' = [instance EXCEPT ![x] = [state |-> s, cell |-> c]]

\* An instance is created, claimed by a cell and run, crashes, which leaves it
\* without a cell, is tried again, or is removed when nobody wants it.
Progress(x) ==
    /\ \/ instance[x].state = "none" /\ x[2] < desired[x[1]] /\ Becomes(x, "UNCLAIMED", NoCell)
       \/ instance[x].state = "UNCLAIMED" /\ \E c \in registered : Becomes(x, "CLAIMED", c)
       \/ instance[x].state = "CLAIMED" /\ Becomes(x, "RUNNING", instance[x].cell)
       \/ Here(instance[x].state) /\ Becomes(x, "CRASHED", NoCell)
       \/ instance[x].state = "CRASHED" /\ Becomes(x, "UNCLAIMED", NoCell)
       \/ instance[x].state # "none" /\ x[2] >= desired[x[1]] /\ Becomes(x, "none", NoCell)
    /\ UNCHANGED <<desired, registered>> /\ Seen

CellChanges(c) ==
    /\ registered' = IF c \in registered THEN registered \ {c} ELSE registered \cup {c}
    /\ UNCHANGED <<desired, instance>> /\ Seen

ExaminerNext ==
    \/ Start \/ AskFails \/ ReadCells \/ ReadDesired \/ GetDesired \/ ReadActual
    \/ ShowCells \/ ShowApps \/ CheckIndex
    \/ \E a \in App, n \in {Absent} \cup 0 .. Cardinality(Index) : Desire(a, n)
    \/ \E x \in App \X Index : Progress(x)
    \/ \E c \in Cell : CellChanges(c)

ExaminerSpec == ExaminerInit /\ [][ExaminerNext]_examinerVars

-----------------------------------------------------------------------------

\* ltc cells accounts for every instance that was placed, once, whether or not
\* its cell was still there when the cells were asked for, or came between the
\* two questions.
EveryInstanceHasACell ==
    command = "cells" /\ status = "ok" =>
        /\ MapThenSumSet(LAMBDA r : r.running + r.claimed, result)
              = Count(second, "RUNNING") + Count(second, "CLAIMED")
        /\ \A c \in first : \E r \in result : r.cell = c /\ ~r.missing

\* ltc list and ltc status leave out no app that was desired all the time, and
\* show none that never was, or that was not asked for.
AppsArePlausible ==
    LET shown == {r.app : r \in result}
    IN  /\ command = "list" /\ status = "ok" => always \subseteq shown /\ shown \subseteq ever
        /\ command = "status" /\ status \in {"ok", "not found"} =>
               (name \in always => status = "ok") /\ shown \subseteq {name}

\* Cells that are shown are cells.  Not so: a crashed instance has no cell, and
\* gets a row of its own for the one without a name.
OnlyCellsAreShown ==
    command = "cells" => \A r \in result : r.cell \in Cell

\* An instance ssh says does not exist does not.  Not so: the index is compared
\* with the number of running instances.
MissingInstanceIsMissing ==
    command = "ssh" /\ status = "does not exist" =>
        ~\E l \in second : l.index = index /\ l.state = "RUNNING"
=============================================================================
