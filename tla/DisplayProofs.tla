--------------------------- MODULE DisplayProofs ----------------------------
(***************************************************************************)
(* What ltc shows of a changing system, proved for every value of the      *)
(* constants: the tables that cells, list and status merge from two        *)
(* answers (Examiner), and the lines of an app that logs prints in the     *)
(* order they were received (LogTail).                                     *)
(***************************************************************************)
EXTENDS LogTail, Examiner, SequenceTheorems, FiniteSetTheorems, TLAPS

-----------------------------------------------------------------------------
\* Sums over the rows of ltc cells.

\* One step of the sum over the rows of R, by the sums g of fewer rows.
Summed(R, g) ==
    [s \in SUBSET R |-> IF s = {} THEN 0
                        ELSE LET x == CHOOSE x \in s : TRUE
                             IN  (x.running + x.claimed) + g[s \ {x}]]

SumOf(R) == MapThenSumSet(LAMBDA r : r.running + r.claimed, R)

LEMMA SumIsChosen == \A R : SumOf(R) = (CHOOSE g : g = Summed(R, g))[R]
  BY DEF SumOf, MapThenSumSet, MapThenFoldSet, Summed

\* Only one function adds up the rows of a finite set: where two differ first,
\* for the fewest rows, they do not.
LEMMA SumIsUnique ==
    ASSUME NEW R, IsFiniteSet(R), NEW g, g = Summed(R, g), NEW h, h = Summed(R, h)
    PROVE  g = h
  <1> DEFINE Differ == {s \in SUBSET R : g[s] # h[s]}
  <1>1. /\ g = [s \in SUBSET R |-> g[s]] /\ h = [s \in SUBSET R |-> h[s]]
    BY DEF Summed
  <1>2. ASSUME Differ # {} PROVE FALSE
    <2>1. Differ \subseteq FiniteSubsetsOf(R)
      BY FS_Subset DEF FiniteSubsetsOf
    <2>2. PICK s \in Differ : \A t \in Differ : ~ (<<t, s>> \in StrictSubsetOrdering(R))
      BY <1>2, <2>1, FS_StrictSubsetOrderingWellFounded, WFMin
    <2>3. \A t \in SUBSET R : t \subseteq s /\ t # s => g[t] = h[t]
      BY <2>2 DEF StrictSubsetOrdering
    <2>4. s \in SUBSET R /\ g[s] # h[s]
      OBVIOUS
    <2>5. s # {}
      BY <2>4 DEF Summed
    <2>6. PICK x \in s : x = CHOOSE y \in s : TRUE
      BY <2>5
    <2>7. g[s] = (x.running + x.claimed) + g[s \ {x}]
      <3>1. g[s] = IF s = {} THEN 0
                   ELSE LET y == CHOOSE y \in s : TRUE IN (y.running + y.claimed) + g[s \ {y}]
        BY <2>4 DEF Summed
      <3>. QED
        BY <2>5, <2>6, <3>1
    <2>8. h[s] = (x.running + x.claimed) + h[s \ {x}]
      <3>1. h[s] = IF s = {} THEN 0
                   ELSE LET y == CHOOSE y \in s : TRUE IN (y.running + y.claimed) + h[s \ {y}]
        BY <2>4 DEF Summed
      <3>. QED
        BY <2>5, <2>6, <3>1
    <2>9. g[s \ {x}] = h[s \ {x}]
      BY <2>3, <2>4
    <2>. QED
      BY <2>4, <2>7, <2>8, <2>9
  <1>3. \A s \in SUBSET R : g[s] = h[s]
    BY <1>2
  <1>. QED
    BY <1>1, <1>3

\* A set of what is said of the members of a finite set is finite.
LEMMA ImageIsFinite ==
    ASSUME NEW S, IsFiniteSet(S), NEW f, f = [s \in S |-> f[s]], NEW T, T = {f[s] : s \in S}
    PROVE  IsFiniteSet(T)
  <1>1. f \in Surjection(S, T)
    BY DEF Surjection
  <1>. QED
    BY <1>1, FS_Surjection

LEMMA DisjointUnion ==
    ASSUME NEW S, IsFiniteSet(S), NEW T, IsFiniteSet(T), S \cap T = {}
    PROVE  /\ IsFiniteSet(S \cup T)
           /\ Cardinality(S \cup T) = Cardinality(S) + Cardinality(T)
           /\ Cardinality(S) \in Nat /\ Cardinality(T) \in Nat
  <1>1. Cardinality(S) \in Nat /\ Cardinality(T) \in Nat
    BY FS_CardinalityType
  <1>2. Cardinality(S \cap T) = 0
    BY FS_EmptySet
  <1>3. /\ IsFiniteSet(S \cup T)
        /\ Cardinality(S \cup T) = Cardinality(S) + Cardinality(T) - Cardinality(S \cap T)
    BY FS_Union
  <1>. QED
    BY <1>1, <1>2, <1>3

\* The placed instances that the rows of s count.
PlacedOn(s, lrps) == {l \in lrps : l.state \in {"RUNNING", "CLAIMED"} /\ \E r \in s : r.cell = l.cell}

RowOf(c, cells, lrps) ==
    [cell |-> c, missing |-> c \notin cells,
     running |-> Count({l \in lrps : l.cell = c}, "RUNNING"),
     claimed |-> Count({l \in lrps : l.cell = c}, "CLAIMED")]

RowCells(cells, lrps) == cells \cup {l.cell : l \in {m \in lrps : m.state # "UNCLAIMED"}}

LEMMA RowsAre == \A cells, lrps :
    CellRows(cells, lrps) = {RowOf(c, cells, lrps) : c \in RowCells(cells, lrps)}
  BY DEF CellRows, RowOf, RowCells

LEMMA RowsAreFinite ==
    ASSUME NEW cells, IsFiniteSet(cells), NEW lrps, IsFiniteSet(lrps)
    PROVE  IsFiniteSet(CellRows(cells, lrps))
  <1> DEFINE L == {m \in lrps : m.state # "UNCLAIMED"}
             C == {l.cell : l \in L}
             f == [l \in L |-> l.cell]
             D == RowCells(cells, lrps)
             h == [c \in D |-> RowOf(c, cells, lrps)]
             R == {RowOf(c, cells, lrps) : c \in D}
  <1>1. IsFiniteSet(L)
    BY FS_Subset
  <1>2. IsFiniteSet(C)
    <2>1. f = [l \in L |-> f[l]] /\ C = {f[l] : l \in L}
      OBVIOUS
    <2> HIDE DEF f, C, L
    <2>. QED
      BY <1>1, <2>1, ImageIsFinite
  <1>3. IsFiniteSet(D)
    BY <1>2, FS_Union DEF RowCells
  <1>4. h = [c \in D |-> h[c]] /\ R = {h[c] : c \in D}
    OBVIOUS
  <1>5. IsFiniteSet(R)
    <2> HIDE DEF h, R, D
    <2>. QED
      BY <1>3, <1>4, ImageIsFinite
  <1>. QED
    BY <1>5, RowsAre

\* The rows of ltc cells together count every placed instance once: rows have
\* cells of their own, and every placed instance has a row.
LEMMA RowsAddUp ==
    ASSUME NEW cells, IsFiniteSet(cells), NEW lrps, IsFiniteSet(lrps)
    PROVE  SumOf(CellRows(cells, lrps)) = Count(lrps, "RUNNING") + Count(lrps, "CLAIMED")
  <1> DEFINE R == CellRows(cells, lrps)
             On(s) == PlacedOn(s, lrps)
             G == [s \in SUBSET R |-> Cardinality(On(s))]
             All(st) == {l \in lrps : l.state = st}
             At(c, st) == {l \in {m \in lrps : m.cell = c} : l.state = st}
  <1>1. IsFiniteSet(R)
    BY RowsAreFinite
  <1>2. \A r \in R : /\ r.running = Cardinality(At(r.cell, "RUNNING"))
                     /\ r.claimed = Cardinality(At(r.cell, "CLAIMED"))
    <2>1. ASSUME NEW r \in R
          PROVE  /\ r.running = Cardinality(At(r.cell, "RUNNING"))
                 /\ r.claimed = Cardinality(At(r.cell, "CLAIMED"))
      <3>1. PICK c \in RowCells(cells, lrps) : r = RowOf(c, cells, lrps)
        BY RowsAre
      <3>. QED
        BY <3>1 DEF RowOf, Count
    <2>. QED
      BY <2>1
  <1>3. \A q, r \in R : q.cell = r.cell => q = r
    <2>1. ASSUME NEW r \in R
          PROVE  r = RowOf(r.cell, cells, lrps)
      <3>1. PICK c \in RowCells(cells, lrps) : r = RowOf(c, cells, lrps)
        BY RowsAre
      <3>. QED
        BY <3>1 DEF RowOf
    <2> HIDE DEF R
    <2>. QED
      BY <2>1
  <1>4. \A l \in lrps : l.state \in {"RUNNING", "CLAIMED"} => \E r \in R : r.cell = l.cell
    <2>1. ASSUME NEW l \in lrps, l.state \in {"RUNNING", "CLAIMED"}
          PROVE  \E r \in R : r.cell = l.cell
      <3>1. l.cell \in RowCells(cells, lrps)
        BY <2>1 DEF RowCells
      <3>2. RowOf(l.cell, cells, lrps) \in R /\ RowOf(l.cell, cells, lrps).cell = l.cell
        BY <3>1, RowsAre DEF RowOf
      <3>. QED
        BY <3>2
    <2>. QED
      BY <2>1
  <1>5. \A s : IsFiniteSet(On(s))
    BY FS_Subset DEF PlacedOn
  <1>6. On({}) = {}
    BY DEF PlacedOn
  <1>7. ASSUME NEW s \in SUBSET R, NEW x \in s
        PROVE  Cardinality(On(s)) = (x.running + x.claimed) + Cardinality(On(s \ {x}))
    <2> DEFINE A == At(x.cell, "RUNNING")
               B == At(x.cell, "CLAIMED")
               C == On(s \ {x})
    <2>1. IsFiniteSet(A) /\ IsFiniteSet(B) /\ IsFiniteSet(C)
      BY FS_Subset, <1>5
    <2>2. A \cap B = {}
      OBVIOUS
    <2>3. (A \cup B) \cap C = {}
      <3>1. \A r \in s \ {x} : r.cell # x.cell
        BY <1>3
      <3>. QED
        BY <3>1 DEF PlacedOn
    <2>4. On(s) = (A \cup B) \cup C
      BY DEF PlacedOn
    <2>5. /\ IsFiniteSet(A \cup B) /\ Cardinality(A \cup B) = Cardinality(A) + Cardinality(B)
          /\ Cardinality(A) \in Nat /\ Cardinality(B) \in Nat
      <3> HIDE DEF A, B
      <3>. QED
        BY <2>1, <2>2, DisjointUnion
    <2>6. Cardinality((A \cup B) \cup C) = Cardinality(A \cup B) + Cardinality(C)
      <3> HIDE DEF A, B, C
      <3>. QED
        BY <2>1, <2>3, <2>5, DisjointUnion
    <2>7. x.running = Cardinality(A) /\ x.claimed = Cardinality(B)
      BY <1>2
    <2> HIDE DEF A, B, On
    <2>. QED
      BY <2>4, <2>5, <2>6, <2>7
  <1>8. G = Summed(R, G)
    <2>1. ASSUME NEW s \in SUBSET R
          PROVE  G[s] = IF s = {} THEN 0
                        ELSE LET x == CHOOSE x \in s : TRUE
                             IN  (x.running + x.claimed) + G[s \ {x}]
      <3>1. CASE s = {}
        BY <3>1, <1>6, FS_EmptySet
      <3>2. CASE s # {}
        <4>1. PICK x \in s : x = CHOOSE y \in s : TRUE
          BY <3>2
        <4>2. G[s] = (x.running + x.claimed) + G[s \ {x}]
          BY <1>7
        <4> HIDE DEF G
        <4>. QED
          BY <3>2, <4>1, <4>2
      <3>. QED
        BY <3>1, <3>2
    <2>. QED
      BY <2>1 DEF Summed
  <1>9. SumOf(R) = G[R]
    <2> HIDE DEF G, R
    <2>1. \A g : g = Summed(R, g) => g = G
      BY <1>1, <1>8, SumIsUnique
    <2>2. (CHOOSE g : g = Summed(R, g)) = G
      BY <1>8, <2>1
    <2>. QED
      BY <2>2, SumIsChosen
  <1>10. On(R) = All("RUNNING") \cup All("CLAIMED")
    BY <1>4 DEF PlacedOn
  <1>11. Cardinality(On(R)) = Cardinality(All("RUNNING")) + Cardinality(All("CLAIMED"))
    <2>1. IsFiniteSet(All("RUNNING")) /\ IsFiniteSet(All("CLAIMED"))
      BY FS_Subset
    <2>2. All("RUNNING") \cap All("CLAIMED") = {}
      OBVIOUS
    <2> HIDE DEF All, On, R
    <2>. QED
      BY <1>10, <2>1, <2>2, DisjointUnion
  <1>. QED
    BY <1>9, <1>11 DEF Count

-----------------------------------------------------------------------------
\* What is known between the two questions.

\* The apps of the first answer, and those of the second.
Named(apps) == {b[1] : b \in apps}
Placed(lrps) == {l.app : l \in lrps}

Wanted(d) == {a \in App : d[a] # Absent}

\* From the first question on, history is up to date: what was desired all the
\* time is desired now, and what is there now has been there.
History ==
    at \in {"first", "second", "merge"} =>
        /\ always \subseteq Wanted(desired) /\ always \subseteq ever
        /\ Known(desired, instance) \subseteq ever

\* ltc list: an app that was desired all the time is in the first answer, and
\* either answer has only apps that were there.
Listed ==
    command = "list" /\ at \in {"second", "merge"} =>
        /\ always \subseteq Named(first) /\ Named(first) \subseteq ever
        /\ at = "merge" => Placed(second) \subseteq ever

\* ltc status: both answers are about the app it names.
Asked ==
    command = "status" /\ at \in {"second", "merge"} =>
        /\ name \in always => name \in Named(first)
        /\ Named(first) \subseteq {name}
        /\ at = "merge" => Placed(second) \subseteq {name}

\* ltc cells: the answers are finite, and what is shown is made from them.
Rows ==
    /\ IsFiniteSet(second)
    /\ command = "cells" /\ at \in {"second", "merge", "exited"} => first \subseteq Cell
    /\ command = "cells" /\ status = "ok" => result = CellRows(first, second)

Stages ==
    /\ at \in {"typed", "first", "second", "merge", "exited"}
    /\ at # "exited" => status = "none"
    /\ first = {} \/ at \in {"second", "merge", "exited"}
    /\ registered \subseteq Cell

ExaminerInv == Stages /\ History /\ Listed /\ Asked /\ Rows /\ AppsArePlausible

LEMMA InitExaminerInv == ExaminerInit => ExaminerInv
  <1> SUFFICES ASSUME ExaminerInit PROVE ExaminerInv
    OBVIOUS
  <1>. USE DEF ExaminerInit
  <1>1. Stages /\ History /\ Listed /\ Asked
    BY DEF Stages, History, Listed, Asked
  <1>2. Rows
    BY FS_EmptySet DEF Rows
  <1>3. AppsArePlausible
    BY DEF AppsArePlausible
  <1>. QED
    BY <1>1, <1>2, <1>3 DEF ExaminerInv

LEMMA WantedIsKnown == \A d, i : Wanted(d) \subseteq Known(d, i)
  BY DEF Wanted, Known

AppRow(a, apps, lrps) ==
    [app |-> a,
     desired |-> IF a \in Named(apps) THEN CHOOSE n \in 0 .. Cardinality(Index) : <<a, n>> \in apps
                 ELSE 0,
     running |-> Count({l \in lrps : l.app = a}, "RUNNING")]

LEMMA AppRowsAre == \A apps, lrps :
    AppRows(apps, lrps) = {AppRow(a, apps, lrps) : a \in Named(apps) \cup Placed(lrps)}
  BY DEF AppRows, AppRow, Named, Placed

\* The apps list and status show are those of either answer.
LEMMA ShownAreNamed == \A apps, lrps :
    {r.app : r \in AppRows(apps, lrps)} = Named(apps) \cup Placed(lrps)
  <1>1. \A a, apps, lrps : AppRow(a, apps, lrps).app = a
    BY DEF AppRow
  <1>. QED
    BY <1>1, AppRowsAre

LEMMA StartInv == ASSUME ExaminerInv, Start PROVE ExaminerInv'
  <1>. USE DEF ExaminerInv, Start, diego, asked
  <1>1. Stages' /\ Listed' /\ Asked' /\ Rows'
    BY DEF Stages, Listed, Asked, Rows
  <1>2. History'
    BY WantedIsKnown DEF History, Wanted
  <1>3. AppsArePlausible'
    BY DEF Stages, AppsArePlausible
  <1>. QED
    BY <1>1, <1>2, <1>3

LEMMA AskFailsInv == ASSUME ExaminerInv, AskFails PROVE ExaminerInv'
  <1>. USE DEF ExaminerInv, AskFails, Exit, diego, asked
  <1>1. Stages' /\ History' /\ Listed' /\ Asked'
    BY DEF Stages, History, Listed, Asked
  <1>2. Rows'
    BY DEF Stages, Rows
  <1>3. AppsArePlausible'
    BY DEF AppsArePlausible
  <1>. QED
    BY <1>1, <1>2, <1>3

LEMMA ReadCellsInv == ASSUME ExaminerInv, ReadCells PROVE ExaminerInv'
  <1>. USE DEF ExaminerInv, ReadCells, diego, asked
  <1>1. Stages' /\ History' /\ Listed' /\ Asked'
    BY DEF Stages, History, Listed, Asked
  <1>2. Rows'
    BY DEF Stages, Rows
  <1>3. AppsArePlausible'
    BY DEF Stages, AppsArePlausible
  <1>. QED
    BY <1>1, <1>2, <1>3

LEMMA ReadDesiredInv == ASSUME ExaminerInv, ReadDesired PROVE ExaminerInv'
  <1>. USE DEF ExaminerInv, ReadDesired, diego, asked
  <1>1. Stages' /\ History' /\ Asked' /\ Rows'
    BY DEF Stages, History, Asked, Rows
  <1>2. Listed'
    <2>1. Named(first') = Wanted(desired)
      <3>1. \A b \in first' : b[1] \in Wanted(desired)
        BY DEF Wanted
      <3>2. \A a \in Wanted(desired) : <<a, desired[a]>> \in first' /\ <<a, desired[a]>>[1] = a
        BY DEF Wanted
      <3>. QED
        BY <3>1, <3>2 DEF Named
    <2>2. Wanted(desired) \subseteq ever
      BY WantedIsKnown DEF History
    <2>3. Named(first)' = Named(first')
      BY DEF Named
    <2>. QED
      BY <2>1, <2>2, <2>3 DEF History, Listed
  <1>3. AppsArePlausible'
    BY DEF Stages, AppsArePlausible
  <1>. QED
    BY <1>1, <1>2, <1>3

LEMMA GetDesiredInv == ASSUME ExaminerInv, GetDesired PROVE ExaminerInv'
  <1>. USE DEF ExaminerInv, GetDesired, diego, asked
  <1>1. Stages' /\ History' /\ Listed' /\ Rows'
    BY DEF Stages, History, Listed, Rows
  <1>2. Asked'
    <2>1. name \in Wanted(desired) => name \in Named(first')
      BY DEF Named, Wanted
    <2>2. Named(first') \subseteq {name}
      BY DEF Named
    <2>3. Named(first)' = Named(first')
      BY DEF Named
    <2>. QED
      BY <2>1, <2>2, <2>3 DEF History, Asked
  <1>3. AppsArePlausible'
    BY DEF Stages, AppsArePlausible
  <1>. QED
    BY <1>1, <1>2, <1>3

\* The instances of the second answer are some of those there are.
LEMMA ReadActualInv == ASSUME ExaminerInv, ReadActual PROVE ExaminerInv'
  <1>. USE DEF ExaminerInv, ReadActual, diego, asked
  <1> DEFINE X == {y \in Actual(instance) : command \in {"status", "ssh"} => y[1] = name}
             f == [x \in X |-> [app |-> x[1], index |-> x[2], state |-> instance[x].state,
                                cell |-> instance[x].cell]]
  <1>1. Stages'
    BY DEF Stages
  <1>2. History'
    BY DEF Stages, History
  <1>3. IsFiniteSet(second')
    <2>1. IsFiniteSet(App \X Index)
      BY FS_Product, AppAssumption, IndexAssumption
    <2>2. IsFiniteSet(X)
      BY <2>1, FS_Subset DEF Actual
    <2>3. f = [x \in X |-> f[x]] /\ second' = {f[x] : x \in X}
      OBVIOUS
    <2> HIDE DEF f, X
    <2>. QED
      BY <2>2, <2>3, ImageIsFinite
  <1>4. Placed(second') \subseteq {x[1] : x \in X}
    <2>1. \A l \in second' : \E x \in X : l.app = x[1]
      OBVIOUS
    <2> HIDE DEF X
    <2>. QED
      BY <2>1 DEF Placed
  <1>5. Placed(second') \subseteq Known(desired, instance)
    BY <1>4 DEF Actual, Known
  <1>6. command = "status" => Placed(second') \subseteq {name}
    BY <1>4
  <1>7. Placed(second)' = Placed(second') /\ Named(first)' = Named(first)
    BY DEF Placed, Named
  <1>8. Listed'
    BY <1>5, <1>7 DEF History, Listed
  <1>9. Asked'
    BY <1>6, <1>7 DEF Asked
  <1>10. Rows'
    BY <1>3 DEF Stages, Rows
  <1>11. AppsArePlausible'
    BY DEF Stages, AppsArePlausible
  <1>. QED
    BY <1>1, <1>2, <1>8, <1>9, <1>10, <1>11

LEMMA ShowCellsInv == ASSUME ExaminerInv, ShowCells PROVE ExaminerInv'
  <1>. USE DEF ExaminerInv, ShowCells, Exit, diego, asked
  <1>1. Stages' /\ History' /\ Listed' /\ Asked'
    BY DEF Stages, History, Listed, Asked
  <1>2. Rows'
    <2>1. CellRows(first, second)' = CellRows(first, second)
      BY DEF CellRows, Count
    <2>. QED
      BY <2>1 DEF Rows
  <1>3. AppsArePlausible'
    BY DEF AppsArePlausible
  <1>. QED
    BY <1>1, <1>2, <1>3

LEMMA ShowAppsInv == ASSUME ExaminerInv, ShowApps PROVE ExaminerInv'
  <1>. USE DEF ExaminerInv, ShowApps, Exit, diego, asked
  <1> DEFINE shown == {r.app : r \in result'}
  <1>1. Stages' /\ History' /\ Listed' /\ Asked' /\ Rows'
    BY DEF Stages, History, Listed, Asked, Rows
  <1>2. shown = Named(first) \cup Placed(second)
    BY ShownAreNamed
  <1>3. command = "list" => always \subseteq shown /\ shown \subseteq ever
    BY <1>2 DEF Listed
  <1>4. command = "status" => shown \subseteq {name} /\ (name \in always => status' = "ok")
    <2>1. command = "status" => shown \subseteq {name} /\ (name \in always => name \in shown)
      BY <1>2 DEF Asked
    <2>2. shown # {} => result' # {}
      OBVIOUS
    <2>. QED
      BY <2>1, <2>2
  <1>5. AppsArePlausible'
    BY <1>3, <1>4 DEF AppsArePlausible
  <1>. QED
    BY <1>1, <1>5

LEMMA CheckIndexInv == ASSUME ExaminerInv, CheckIndex PROVE ExaminerInv'
  <1>. USE DEF ExaminerInv, CheckIndex, Exit, diego, asked
  <1>1. Stages' /\ History' /\ Listed' /\ Asked' /\ Rows'
    BY DEF Stages, History, Listed, Asked, Rows
  <1>2. AppsArePlausible'
    BY DEF AppsArePlausible
  <1>. QED
    BY <1>1, <1>2

\* Whatever Diego and its other clients do, what was answered stays and the
\* history is kept.
LEMMA DiegoInv ==
    ASSUME ExaminerInv, Seen, (registered \subseteq Cell)' PROVE ExaminerInv'
  <1>. USE DEF ExaminerInv, Seen, asked, answers
  <1>1. Stages'
    BY DEF Stages
  <1>2. always' \subseteq always /\ ever \subseteq ever'
    OBVIOUS
  <1>3. History'
    BY <1>2, WantedIsKnown DEF History, Wanted
  <1>4. Named(first)' = Named(first) /\ Placed(second)' = Placed(second)
    BY DEF Named, Placed
  <1>5. Listed'
    BY <1>2, <1>4 DEF Listed
  <1>6. Asked'
    BY <1>2, <1>4 DEF Asked
  <1>7. Rows' /\ AppsArePlausible'
    BY DEF Stages, Rows, AppsArePlausible
  <1>. QED
    BY <1>1, <1>3, <1>5, <1>6, <1>7

LEMMA NextExaminerInv == ExaminerInv /\ [ExaminerNext]_examinerVars => ExaminerInv'
  <1> SUFFICES ASSUME ExaminerInv, [ExaminerNext]_examinerVars PROVE ExaminerInv'
    OBVIOUS
  <1>1. CASE Start \/ AskFails \/ ReadCells \/ ReadDesired \/ GetDesired
    BY <1>1, StartInv, AskFailsInv, ReadCellsInv, ReadDesiredInv, GetDesiredInv
  <1>2. CASE ReadActual \/ ShowCells \/ ShowApps \/ CheckIndex
    BY <1>2, ReadActualInv, ShowCellsInv, ShowAppsInv, CheckIndexInv
  <1>3. ASSUME NEW a \in App, NEW n \in {Absent} \cup 0 .. Cardinality(Index), Desire(a, n)
        PROVE  ExaminerInv'
    <2>1. Seen /\ (registered \subseteq Cell)'
      BY <1>3 DEF Desire, ExaminerInv, Stages
    <2>. QED
      BY <2>1, DiegoInv
  <1>4. ASSUME NEW x \in App \X Index, Progress(x) PROVE ExaminerInv'
    <2>1. Seen /\ (registered \subseteq Cell)'
      BY <1>4 DEF Progress, ExaminerInv, Stages
    <2>. QED
      BY <2>1, DiegoInv
  <1>5. ASSUME NEW c \in Cell, CellChanges(c) PROVE ExaminerInv'
    <2>1. Seen /\ (registered \subseteq Cell)'
      BY <1>5 DEF CellChanges, ExaminerInv, Stages
    <2>. QED
      BY <2>1, DiegoInv
  <1>6. CASE UNCHANGED examinerVars
    <2>. USE <1>6 DEF examinerVars, diego, asked, answers, ExaminerInv
    <2>1. Stages' /\ History' /\ AppsArePlausible'
      BY DEF Stages, History, AppsArePlausible, Wanted, Known, Actual
    <2>2. Named(first)' = Named(first) /\ Placed(second)' = Placed(second)
      BY DEF Named, Placed
    <2>3. Listed' /\ Asked'
      BY <2>2 DEF Listed, Asked
    <2>4. CellRows(first, second)' = CellRows(first, second)
      BY DEF CellRows, Count
    <2>5. Rows'
      BY <2>4 DEF Rows
    <2>. QED
      BY <2>1, <2>3, <2>5
  <1>. QED
    BY <1>1, <1>2, <1>3, <1>4, <1>5, <1>6 DEF ExaminerNext

\* The examiner's invariant: the two answers and the history of the apps agree
\* at every stage of a command, whatever Diego does between the questions.
THEOREM ExaminerInvariance == ExaminerSpec => []ExaminerInv
  <1>. QED
    BY InitExaminerInv, NextExaminerInv, PTL DEF ExaminerSpec

\* ltc list and status leave out no app that was desired from the first
\* question to the last, and show none that never was (ListApps, AppStatus and
\* mergeDesiredActualLRPs).
THEOREM AppsAreAccounted == ExaminerSpec => []AppsArePlausible
  <1>1. ExaminerInv => AppsArePlausible
    BY DEF ExaminerInv
  <1>. QED
    BY <1>1, ExaminerInvariance, PTL

\* Every placed instance is counted once in the rows of ltc cells, and every
\* listed cell has a row that does not call it missing (ListCells).
THEOREM CellsAccountForAll == ExaminerSpec => []EveryInstanceHasACell
  <1>1. ASSUME ExaminerInv, command = "cells", status = "ok"
        PROVE  SumOf(result) = Count(second, "RUNNING") + Count(second, "CLAIMED")
    <2>1. at = "exited" /\ result = CellRows(first, second) /\ IsFiniteSet(second)
      BY <1>1 DEF ExaminerInv, Stages, Rows
    <2>2. first \subseteq Cell
      BY <1>1, <2>1 DEF ExaminerInv, Rows
    <2>3. IsFiniteSet(first)
      BY <2>2, FS_Subset, CellAssumption
    <2>. QED
      BY <2>1, <2>3, RowsAddUp
  <1>2. ASSUME ExaminerInv, command = "cells", status = "ok", NEW c \in first
        PROVE  \E r \in result : r.cell = c /\ ~r.missing
    <2>1. result = CellRows(first, second)
      BY <1>2 DEF ExaminerInv, Rows
    <2>2. RowOf(c, first, second) \in result
      BY <1>2, <2>1, RowsAre DEF RowCells
    <2>3. RowOf(c, first, second).cell = c /\ ~RowOf(c, first, second).missing
      BY <1>2 DEF RowOf
    <2>. QED
      BY <2>2, <2>3
  <1>3. ExaminerInv => EveryInstanceHasACell
    BY <1>1, <1>2 DEF EveryInstanceHasACell, SumOf
  <1>. QED
    BY <1>3, ExaminerInvariance, PTL

-----------------------------------------------------------------------------
\* Lines in order.

AnyLine == Line \cup {NilErr}

\* What is where in two sequences, one behind the other.
LEMMA ConcatAt ==
    ASSUME NEW S, NEW s \in Seq(S), NEW t \in Seq(S), NEW a \in Nat, a = Len(s),
           NEW b \in Nat, b = Len(t)
    PROVE  /\ s \o t \in Seq(S) /\ DOMAIN (s \o t) = 1 .. a + b
           /\ \A i \in 1 .. a : (s \o t)[i] = s[i]
           /\ \A i \in a + 1 .. a + b : (s \o t)[i] = t[i - a]
  <1> DEFINE u == s \o t
  <1>1. u \in Seq(S) /\ Len(u) = a + b
    BY ConcatProperties
  <1>2. DOMAIN u = 1 .. a + b
    BY <1>1, LenProperties
  <1>3. \A i \in 1 .. a + b : u[i] = IF i <= a THEN s[i] ELSE t[i - a]
    BY ConcatProperties
  <1> HIDE DEF u
  <1>4. /\ u \in Seq(S) /\ DOMAIN u = 1 .. a + b
        /\ \A i \in 1 .. a : u[i] = s[i]
        /\ \A i \in a + 1 .. a + b : u[i] = t[i - a]
    BY <1>1, <1>2, <1>3
  <1>. QED
    BY <1>4 DEF u

\* A sequence in which no line is of kind k, behind one whose k-lines are in
\* order, changes nothing.
LEMMA InOrderSkip ==
    ASSUME NEW S, NEW s \in Seq(S), NEW t \in Seq(S), NEW k, NEW n \in Nat,
           InOrder(s, k, n), \A i \in 1 .. Len(t) : t[i].kind # k
    PROVE  InOrder(s \o t, k, n)
  <1> DEFINE u == s \o t
  <1>1. PICK a \in Nat : a = Len(s)
    BY LenProperties
  <1>2. PICK b \in Nat : b = Len(t)
    BY LenProperties
  <1>3. /\ u \in Seq(S) /\ DOMAIN u = 1 .. a + b
        /\ \A i \in 1 .. a : u[i] = s[i]
        /\ \A i \in a + 1 .. a + b : u[i] = t[i - a]
    BY <1>1, <1>2, ConcatAt
  <1>4. DOMAIN s = 1 .. a
    BY <1>1, LenProperties
  <1> HIDE DEF u
  <1>5. \A i \in DOMAIN u : u[i].kind = k => i \in 1 .. a /\ u[i] = s[i]
    <2>1. \A i \in a + 1 .. a + b : u[i].kind # k
      <3>1. ASSUME NEW i \in a + 1 .. a + b PROVE i - a \in 1 .. b /\ u[i] = t[i - a]
        BY <1>3
      <3>. QED
        BY <1>2, <3>1
    <2>. QED
      BY <1>3, <2>1
  <1>6. {u[i].n : i \in {j \in DOMAIN u : u[j].kind = k}} = {s[i].n : i \in {j \in DOMAIN s : s[j].kind = k}}
    <2>1. {j \in DOMAIN u : u[j].kind = k} = {j \in DOMAIN s : s[j].kind = k}
      BY <1>3, <1>4, <1>5
    <2>. QED
      BY <2>1, <1>5
  <1>7. \A i, j \in DOMAIN u : i < j /\ u[i].kind = k /\ u[j].kind = k => u[i].n < u[j].n
    BY <1>4, <1>5 DEF InOrder
  <1>. QED
    BY <1>6, <1>7 DEF InOrder, u

\* The next lines of kind k, behind those before them.
LEMMA InOrderNext ==
    ASSUME NEW S, NEW s \in Seq(S), NEW t \in Seq(S), NEW k, NEW n \in Nat,
           InOrder(s, k, n), \A i \in 1 .. Len(t) : t[i].kind = k /\ t[i].n = n + i
    PROVE  InOrder(s \o t, k, n + Len(t))
  <1> DEFINE u == s \o t
  <1>1. PICK a \in Nat : a = Len(s)
    BY LenProperties
  <1>2. PICK b \in Nat : b = Len(t)
    BY LenProperties
  <1>3. /\ u \in Seq(S) /\ DOMAIN u = 1 .. a + b
        /\ \A i \in 1 .. a : u[i] = s[i]
        /\ \A i \in a + 1 .. a + b : u[i] = t[i - a]
    BY <1>1, <1>2, ConcatAt
  <1>4. DOMAIN s = 1 .. a
    BY <1>1, LenProperties
  <1> HIDE DEF u
  <1>5. \A i \in a + 1 .. a + b : u[i].kind = k /\ u[i].n = n + (i - a)
    <2>1. ASSUME NEW i \in a + 1 .. a + b PROVE i - a \in 1 .. b /\ u[i] = t[i - a]
      BY <1>3
    <2>. QED
      BY <1>2, <2>1
  <1>6. \A i \in 1 .. a : s[i].kind = k => s[i].n \in 1 .. n
    BY <1>4 DEF InOrder
  <1>7. \A m \in 1 .. n : \E i \in 1 .. a : s[i].kind = k /\ s[i].n = m
    BY <1>4 DEF InOrder
  <1>8. {u[i].n : i \in {j \in DOMAIN u : u[j].kind = k}} = 1 .. n + b
    <2>1. ASSUME NEW i \in DOMAIN u, u[i].kind = k PROVE u[i].n \in 1 .. n + b
      <3>1. CASE i \in 1 .. a
        <4>1. u[i].n \in 1 .. n
          BY <1>3, <1>6, <2>1, <3>1
        <4>. QED
          BY <4>1
      <3>2. CASE i \in a + 1 .. a + b
        <4>1. PICK d \in 1 .. b : d = i - a
          BY <3>2
        <4>2. u[i].n = n + d
          BY <1>5, <3>2, <4>1
        <4>. QED
          BY <4>2
      <3>. QED
        BY <1>3, <3>1, <3>2
    <2>2. ASSUME NEW m \in 1 .. n + b PROVE \E i \in DOMAIN u : u[i].kind = k /\ u[i].n = m
      <3>1. CASE m \in 1 .. n
        <4>1. PICK i \in 1 .. a : s[i].kind = k /\ s[i].n = m
          BY <1>7, <3>1
        <4>2. i \in DOMAIN u /\ u[i] = s[i]
          BY <1>3
        <4>. QED
          BY <4>1, <4>2
      <3>2. CASE m \in n + 1 .. n + b
        <4>1. PICK i \in a + 1 .. a + b : i = m - n + a
          BY <3>2
        <4>2. u[i].n = m /\ u[i].kind = k
          BY <1>5, <4>1, <3>2
        <4>3. i \in DOMAIN u
          BY <1>3
        <4>. QED
          BY <4>2, <4>3
      <3>. QED
        BY <3>1, <3>2
    <2>. QED
      BY <2>1, <2>2
  <1>9. ASSUME NEW i \in DOMAIN u, NEW j \in DOMAIN u, i < j, u[i].kind = k, u[j].kind = k
        PROVE  u[i].n < u[j].n
    <2>0. i \in 1 .. a + b /\ j \in 1 .. a + b
      BY <1>3
    <2>1. CASE j \in 1 .. a
      <3>1. i \in DOMAIN s /\ j \in DOMAIN s
        BY <1>4, <1>9, <2>0, <2>1
      <3>2. u[i] = s[i] /\ u[j] = s[j]
        BY <1>3, <1>4, <3>1
      <3>. QED
        BY <1>9, <3>1, <3>2 DEF InOrder
    <2>2. CASE i \in 1 .. a /\ j \in a + 1 .. a + b
      <3>1. u[i] = s[i]
        BY <1>3, <2>2
      <3>2. u[i].n \in 1 .. n
        BY <1>6, <1>9, <2>2, <3>1
      <3>3. PICK d \in 1 .. b : d = j - a
        BY <2>2
      <3>4. u[j].n = n + d
        BY <1>5, <2>2, <3>3
      <3>. QED
        BY <3>2, <3>3, <3>4
    <2>3. CASE i \in a + 1 .. a + b /\ j \in a + 1 .. a + b
      <3>1. PICK c \in 1 .. b : c = i - a
        BY <2>3
      <3>2. PICK d \in 1 .. b : d = j - a
        BY <2>3
      <3>3. u[i].n = n + c /\ u[j].n = n + d
        BY <1>5, <2>3, <3>1, <3>2
      <3>4. c < d
        BY <1>9, <2>3, <3>1, <3>2
      <3>. QED
        BY <3>3, <3>4
    <2>. QED
      BY <1>9, <2>0, <2>1, <2>2, <2>3
  <1>. QED
    BY <1>2, <1>8, <1>9 DEF InOrder, u

-----------------------------------------------------------------------------
\* The goroutines.

\* Who runs when: readChannels runs beside an outputter, main goes on only
\* when it has returned, and holds a line only in a callback.
Handover ==
    /\ reader # "none" => outputter = "ranging"
    /\ main = "start" => outputter = "none"
    /\ main \in {"closing", "returning"} => reader = "returned"
    /\ reader \in {"none", "spawned", "select", "returned"} <=> held = Nothing

\* How many logs and errors have been received.
taken == sentLogs - Len(logCh)
takenErrs == sentErrs - Len(errCh)

\* What waits in the channels are the next ones.
Channels ==
    /\ taken \in Nat /\ takenErrs \in Nat
    /\ \A i \in 1 .. Len(logCh) : logCh[i] = Log(taken + i)
    /\ \A i \in 1 .. Len(errCh) : errCh[i] = Err(takenErrs + i)

Flight == InOrder(inFlight, "log", taken) /\ InOrder(inFlight, "err", takenErrs)

TailInv == TypeOK /\ Handover /\ Channels /\ Flight

lines == <<held, logCh, errCh, outCh, printed, sentLogs, sentErrs>>

USE CapAssumption, ModeAssumption

LEMMA LogErr == \A n : /\ Log(n).kind = "log" /\ Log(n).n = n
                       /\ Err(n).kind = "err" /\ Err(n).n = n
  BY DEF Log, Err

LEMMA InitTailInv == Init => TailInv
  <1> SUFFICES ASSUME Init PROVE TailInv
    OBVIOUS
  <1>1. TypeOK
    <2>1. \A S : <<>> \in Seq(S) /\ Len(<<>>) = 0
      BY EmptySeq
    <2>2. 0 <= Cap /\ 0 \in 0 .. MaxLogs /\ 0 \in 0 .. MaxErrs
      OBVIOUS
    <2>. QED
      BY <2>1, <2>2 DEF Init, TypeOK
  <1>2. Handover
    BY DEF Init, Handover
  <1>3. Len(logCh) = 0 /\ Len(errCh) = 0 /\ inFlight = <<>>
    BY DEF Init, inFlight, Nothing
  <1>4. Channels
    BY <1>3 DEF Init, Channels, taken, takenErrs
  <1>5. ASSUME NEW k PROVE InOrder(<<>>, k, 0)
    BY DEF InOrder
  <1>6. Flight
    BY <1>3, <1>5 DEF Init, Flight, taken, takenErrs
  <1>. QED
    BY <1>1, <1>2, <1>4, <1>6 DEF TailInv

\* A step that moves no line.
LEMMA Moveless ==
    ASSUME TailInv, TypeOK', Handover', UNCHANGED lines PROVE TailInv'
  <1>1. UNCHANGED <<logCh, errCh, inFlight, taken, takenErrs>>
    BY DEF lines, inFlight, taken, takenErrs
  <1>2. Channels'
    BY <1>1 DEF TailInv, Channels
  <1>3. Flight'
    BY <1>1 DEF TailInv, Flight
  <1>. QED
    BY <1>2, <1>3 DEF TailInv

\* The type of the lines, and of the rest.
LineType ==
    /\ held \in {Nothing} \cup {<<l>> : l \in AnyLine}
    /\ logCh \in Seq(Line) /\ Len(logCh) <= Cap
    /\ errCh \in Seq(Line) /\ Len(errCh) <= Cap
    /\ outCh \in Seq(Line) /\ Len(outCh) <= Cap
    /\ printed \in Seq(Line)
    /\ sentLogs \in 0 .. MaxLogs /\ sentErrs \in 0 .. MaxErrs

GoroutineType ==
    /\ mode \in {"logs", "wait"}
    /\ main \in {"start", "outputting", "working", "stopping", "closing", "returning", "exited"}
    /\ outputter \in {"none", "spawned", "ranging"}
    /\ reader \in {"none", "spawned", "select", "callback", "returned", "panicked"}
    /\ consumer \in {"none", "running", "ending", "ended"}
    /\ logClosed \in BOOLEAN /\ errClosed \in BOOLEAN /\ closeAsked \in BOOLEAN

LEMMA TypeParts == TypeOK <=> LineType /\ GoroutineType
  BY DEF TypeOK, LineType, GoroutineType, AnyLine

LEMMA TypePartsNext == TypeOK' <=> LineType' /\ GoroutineType'
  BY DEF TypeOK, LineType, GoroutineType, AnyLine

\* main, and the steps of the others in which no line is handed on.
MovesNoLine ==
    \/ MainStep \/ StopTailing \/ ExitNow \/ StartReader \/ StartConsumer \/ ConsumerStops
    \/ reader = "select" /\ ReceiveLog /\ UNCHANGED lines
    \/ reader = "callback" /\ Callback /\ UNCHANGED lines

LEMMA MovelessInv == ASSUME TailInv, MovesNoLine PROVE TailInv'
  <1>1. UNCHANGED lines
    BY DEF MovesNoLine, MainStep, StartOutputting, WorkDone, CloseConsumer, Return, StopTailing,
           ExitNow, StartReader, StartConsumer, ConsumerStops, lines, channels
  <1>2. TypeOK'
    <2>1. LineType'
      BY <1>1, TypeParts DEF TailInv, LineType, lines
    <2>2. GoroutineType
      BY TypeParts DEF TailInv
    <2>3. CASE MainStep \/ StopTailing \/ ExitNow
      BY <2>1, <2>2, <2>3, TypePartsNext DEF GoroutineType, MainStep, StartOutputting, WorkDone,
         CloseConsumer, Return, StopTailing, ExitNow, channels
    <2>4. CASE StartReader \/ StartConsumer \/ ConsumerStops
      BY <2>1, <2>2, <2>4, TypePartsNext DEF GoroutineType, StartReader, StartConsumer,
         ConsumerStops, channels
    <2>5. CASE ReceiveLog \/ Callback
      BY <2>1, <2>2, <2>5, TypePartsNext DEF GoroutineType, ReceiveLog, Callback
    <2>. QED
      BY <2>3, <2>4, <2>5 DEF MovesNoLine
  <1>3. Handover'
    BY <1>1 DEF TailInv, Handover, MovesNoLine, MainStep, StartOutputting, WorkDone,
           CloseConsumer, Return, StopTailing, ExitNow, StartReader, StartConsumer, ConsumerStops,
           ReceiveLog, Callback, channels, lines, Nothing
  <1>. QED
    BY <1>1, <1>2, <1>3, Moveless

-----------------------------------------------------------------------------
\* The steps that move a line.

LEMMA Passed ==
    ASSUME NEW S, NEW s \in Seq(S), NEW t \in Seq(S), t # <<>>
    PROVE  /\ Append(s, Head(t)) \in Seq(S) /\ Tail(t) \in Seq(S) /\ Len(Tail(t)) < Len(t)
           /\ Append(s, Head(t)) \o Tail(t) = s \o t
  <1>1. PICK a \in Nat : a = Len(s)
    BY LenProperties
  <1>2. PICK b \in Nat : b = Len(t)
    BY LenProperties
  <1>3. Head(t) \in S /\ Tail(t) \in Seq(S) /\ Len(Tail(t)) = b - 1 /\ b > 0
    BY <1>2, HeadTailProperties, EmptySeq
  <1>4. Head(t) = t[1] /\ \A i \in 1 .. b - 1 : Tail(t)[i] = t[i + 1]
    BY <1>2, <1>3, HeadTailProperties
  <1>5. PICK x \in S : x = Head(t)
    BY <1>3
  <1>6. PICK u \in Seq(S) : u = Tail(t)
    BY <1>3
  <1>7. PICK r \in Seq(S) : /\ r = Append(s, x) /\ Len(r) = a + 1 /\ r[a + 1] = x
                            /\ \A i \in 1 .. a : r[i] = s[i]
    <2>1. /\ Append(s, x) \in Seq(S) /\ Len(Append(s, x)) = a + 1 /\ Append(s, x)[a + 1] = x
          /\ \A i \in 1 .. a : Append(s, x)[i] = s[i]
      <3>1. /\ Append(s, x) \in Seq(S) /\ Len(Append(s, x)) = Len(s) + 1
            /\ Append(s, x)[Len(s) + 1] = x
            /\ \A i \in 1 .. Len(s) : Append(s, x)[i] = s[i]
        BY AppendProperties
      <3>. QED
        BY <1>1, <3>1
    <2>. QED
      BY <2>1
  <1>8. r \o u \in Seq(S) /\ s \o t \in Seq(S) /\ Len(r \o u) = a + b /\ Len(s \o t) = a + b
    BY <1>1, <1>2, <1>3, <1>6, <1>7, ConcatProperties
  <1>9. ASSUME NEW i \in 1 .. a + b PROVE (r \o u)[i] = (s \o t)[i]
    <2>1. (s \o t)[i] = IF i <= a THEN s[i] ELSE t[i - a]
      BY <1>1, <1>2, ConcatProperties
    <2>2. (r \o u)[i] = IF i <= a + 1 THEN r[i] ELSE u[i - (a + 1)]
      BY <1>3, <1>6, <1>7, ConcatProperties
    <2>3. CASE i <= a
      BY <1>7, <2>1, <2>2, <2>3
    <2>4. CASE i = a + 1
      BY <1>4, <1>5, <1>7, <2>1, <2>2, <2>4
    <2>5. CASE i > a + 1
      <3>1. PICK j \in 1 .. b - 1 : j = i - (a + 1) /\ j + 1 = i - a
        BY <2>5
      <3>2. u[j] = t[j + 1]
        BY <1>4, <1>6
      <3>. QED
        BY <2>1, <2>2, <2>5, <3>1, <3>2
    <2>6. i <= a \/ i = a + 1 \/ i > a + 1
      OBVIOUS
    <2>. QED
      BY <2>3, <2>4, <2>5, <2>6
  <1>10. r \o u = s \o t
    BY <1>8, <1>9, SeqEqual
  <1>11. Append(s, Head(t)) = r /\ Tail(t) = u
    BY <1>5, <1>6, <1>7
  <1>12. Len(Tail(t)) < Len(t)
    BY <1>2, <1>3
  <1>. QED
    BY <1>10, <1>11, <1>12

LEMMA FlightType ==
    ASSUME LineType
    PROVE  /\ printed \in Seq(AnyLine) /\ outCh \in Seq(AnyLine) /\ held \in Seq(AnyLine)
           /\ printed \o outCh \in Seq(AnyLine) /\ inFlight \in Seq(AnyLine)
  <1>1. printed \in Seq(AnyLine) /\ outCh \in Seq(AnyLine)
    <2>1. Line \subseteq AnyLine
      BY DEF AnyLine
    <2>2. printed \in Seq(Line) /\ outCh \in Seq(Line)
      BY DEF LineType
    <2>. QED
      BY <2>1, <2>2, SeqMonotonic
  <1>2. held \in Seq(AnyLine)
    <2>1. <<>> \in Seq(AnyLine) /\ \A l \in AnyLine : <<l>> \in Seq(AnyLine)
      BY EmptySeq
    <2>. QED
      BY <2>1 DEF LineType, Nothing
  <1>. QED
    BY <1>1, <1>2, ConcatProperties DEF inFlight

\* A step that only moves lines on within what is in flight.
LEMMA MoveInFlight ==
    ASSUME TailInv, TypeOK', Handover', inFlight' = inFlight, taken' = taken, takenErrs' = takenErrs,
           UNCHANGED <<logCh, errCh>>
    PROVE  TailInv'
  <1>1. Channels'
    BY DEF TailInv, Channels
  <1>2. Flight'
    BY DEF TailInv, Flight
  <1>. QED
    BY <1>1, <1>2 DEF TailInv

LEMMA PrintLineInv == ASSUME TailInv, PrintLine PROVE TailInv'
  <1>1. LineType /\ GoroutineType
    BY TypeParts DEF TailInv
  <1>2. outCh # <<>> /\ printed' = Append(printed, Head(outCh)) /\ outCh' = Tail(outCh)
    BY DEF PrintLine
  <1>3. printed' \in Seq(Line) /\ outCh' \in Seq(Line) /\ Len(outCh') < Len(outCh)
        /\ printed' \o outCh' = printed \o outCh
    BY <1>1, <1>2, Passed DEF LineType
  <1>4. Len(outCh) \in Nat /\ Len(outCh') \in Nat
    BY <1>1, <1>3, LenProperties DEF LineType
  <1>5. Len(outCh') <= Cap
    BY <1>1, <1>3, <1>4 DEF LineType
  <1>6. TypeOK'
    BY <1>1, <1>3, <1>5, TypePartsNext DEF PrintLine, LineType, GoroutineType
  <1>7. Handover'
    BY DEF TailInv, Handover, PrintLine
  <1>8. inFlight' = inFlight
    BY <1>3 DEF PrintLine, inFlight
  <1>. QED
    BY <1>6, <1>7, <1>8, MoveInFlight DEF PrintLine, taken, takenErrs

\* The callback hands the line to the outputter.
LEMMA CallbackInv == ASSUME TailInv, Callback, ~UNCHANGED lines PROVE TailInv'
  <1>1. LineType /\ GoroutineType
    BY TypeParts DEF TailInv
  <1>2. /\ held # <<NilErr>> /\ Len(outCh) < Cap
        /\ outCh' = outCh \o held /\ held' = Nothing /\ reader' = "select"
    BY DEF Callback, lines
  <1>3. held \in Seq(Line) /\ Len(held) \in {0, 1}
    <2>1. ASSUME NEW l \in Line PROVE <<l>> \in Seq(Line) /\ Len(<<l>>) = 1
      OBVIOUS
    <2>2. <<>> \in Seq(Line) /\ Len(<<>>) = 0
      BY EmptySeq
    <2>3. held = <<>> \/ \E l \in Line : held = <<l>>
      BY <1>1, <1>2 DEF LineType, AnyLine, Nothing
    <2>. QED
      BY <2>1, <2>2, <2>3
  <1>4. outCh' \in Seq(Line) /\ Len(outCh') <= Cap
    <2>1. Len(outCh) \in Nat /\ Len(outCh \o held) = Len(outCh) + Len(held) /\ outCh \o held \in Seq(Line)
      BY <1>1, <1>3, LenProperties, ConcatProperties DEF LineType
    <2>2. Len(outCh) + Len(held) <= Cap
      BY <1>2, <1>3, <2>1, CapAssumption
    <2>. QED
      BY <1>2, <2>1, <2>2
  <1>5. TypeOK'
    BY <1>1, <1>2, <1>4, TypePartsNext DEF Callback, LineType, GoroutineType
  <1>6. Handover'
    BY <1>2 DEF TailInv, Handover, Callback
  <1>7. inFlight' = inFlight
    <2>1. (printed \o outCh) \o held = printed \o (outCh \o held)
      <3>1. printed \in Seq(AnyLine) /\ outCh \in Seq(AnyLine) /\ held \in Seq(AnyLine)
        BY <1>1, FlightType
      <3>. QED
        BY <3>1, ConcatAssociative
    <2>2. printed \o (outCh \o held) \in Seq(AnyLine)
      BY <1>1, FlightType, ConcatProperties
    <2>3. (printed \o (outCh \o held)) \o <<>> = printed \o (outCh \o held)
      BY <2>2, ConcatEmptySeq
    <2>. QED
      BY <1>2, <2>1, <2>3 DEF Callback, inFlight, Nothing
  <1>. QED
    BY <1>5, <1>6, <1>7, MoveInFlight DEF Callback, taken, takenErrs

\* The reader takes the next line of a channel.
LEMMA TakeNext ==
    ASSUME NEW ch \in Seq(Line), NEW n \in Nat, NEW k, ch # <<>>,
           \A i \in 1 .. Len(ch) : ch[i].kind = k /\ ch[i].n = n + i,
           LineType, held = Nothing, InOrder(inFlight, k, n)
    PROVE  /\ <<Head(ch)>> \in {<<l>> : l \in AnyLine} /\ Head(ch).kind = k
           /\ Tail(ch) \in Seq(Line) /\ Len(Tail(ch)) = Len(ch) - 1
           /\ \A i \in 1 .. Len(Tail(ch)) : Tail(ch)[i] = ch[i + 1]
           /\ InOrder(printed \o outCh \o <<Head(ch)>>, k, n + 1)
  <1>1. Head(ch) = ch[1] /\ 1 \in 1 .. Len(ch) /\ Head(ch) \in Line
    BY EmptySeq, HeadTailProperties, LenProperties
  <1>2. PICK l \in Line : l = Head(ch)
    BY <1>1
  <1>3. l.kind = k /\ l.n = n + 1
    BY <1>1, <1>2
  <1>4. InOrder(printed \o outCh, k, n)
    <2>1. (printed \o outCh) \o <<>> = printed \o outCh
      BY FlightType, ConcatEmptySeq
    <2>. QED
      BY <2>1 DEF inFlight, Nothing
  <1>5. InOrder(printed \o outCh \o <<l>>, k, n + 1)
    <2>1. <<l>> \in Seq(AnyLine) /\ Len(<<l>>) = 1 /\ <<l>>[1] = l
      BY DEF AnyLine
    <2>2. \A i \in 1 .. Len(<<l>>) : <<l>>[i].kind = k /\ <<l>>[i].n = n + i
      BY <1>3, <2>1
    <2>3. printed \o outCh \in Seq(AnyLine)
      BY FlightType
    <2>. QED
      BY <1>4, <2>1, <2>2, <2>3, InOrderNext
  <1>6. /\ Tail(ch) \in Seq(Line) /\ Len(Tail(ch)) = Len(ch) - 1
        /\ \A i \in 1 .. Len(Tail(ch)) : Tail(ch)[i] = ch[i + 1]
    BY HeadTailProperties
  <1>. QED
    BY <1>2, <1>3, <1>5, <1>6 DEF AnyLine

\* The other kind does not notice.
LEMMA OthersStay ==
    ASSUME NEW k, NEW n \in Nat, NEW l \in AnyLine, l.kind # k,
           LineType, held = Nothing, InOrder(inFlight, k, n)
    PROVE  InOrder(printed \o outCh \o <<l>>, k, n)
  <1>1. InOrder(printed \o outCh, k, n)
    <2>1. (printed \o outCh) \o <<>> = printed \o outCh
      BY FlightType, ConcatEmptySeq
    <2>. QED
      BY <2>1 DEF inFlight, Nothing
  <1>2. <<l>> \in Seq(AnyLine) /\ Len(<<l>>) = 1 /\ <<l>>[1] = l
    OBVIOUS
  <1>3. \A i \in 1 .. Len(<<l>>) : <<l>>[i].kind # k
    BY <1>2
  <1>4. printed \o outCh \in Seq(AnyLine)
    BY FlightType
  <1>. QED
    BY <1>1, <1>2, <1>3, <1>4, InOrderSkip

LEMMA NotNothing == \A l : <<l>> # Nothing
  BY DEF Nothing

\* What a channel holds, seen from its reader.
LEMMA Waiting ==
    ASSUME TailInv
    PROVE  /\ taken \in Nat /\ takenErrs \in Nat
           /\ \A i \in 1 .. Len(logCh) : logCh[i].kind = "log" /\ logCh[i].n = taken + i
           /\ \A i \in 1 .. Len(errCh) : errCh[i].kind = "err" /\ errCh[i].n = takenErrs + i
           /\ InOrder(inFlight, "log", taken) /\ InOrder(inFlight, "err", takenErrs)
           /\ Len(logCh) \in Nat /\ Len(errCh) \in Nat
           /\ sentLogs \in Nat /\ sentErrs \in Nat
           /\ LineType /\ GoroutineType
  <1>1. LineType /\ GoroutineType
    BY TypeParts DEF TailInv
  <1>2. Len(logCh) \in Nat /\ Len(errCh) \in Nat
    BY <1>1, LenProperties DEF LineType
  <1>3. /\ taken \in Nat /\ takenErrs \in Nat
        /\ \A i \in 1 .. Len(logCh) : logCh[i] = Log(taken + i)
        /\ \A i \in 1 .. Len(errCh) : errCh[i] = Err(takenErrs + i)
    BY DEF TailInv, Channels
  <1>4. ASSUME NEW i \in 1 .. Len(logCh) PROVE logCh[i].kind = "log" /\ logCh[i].n = taken + i
    BY <1>3, LogErr
  <1>5. ASSUME NEW i \in 1 .. Len(errCh)
        PROVE  errCh[i].kind = "err" /\ errCh[i].n = takenErrs + i
    BY <1>3, LogErr
  <1>6. sentLogs \in Nat /\ sentErrs \in Nat
    BY <1>1, CapAssumption DEF LineType
  <1>7. InOrder(inFlight, "log", taken) /\ InOrder(inFlight, "err", takenErrs)
    BY DEF TailInv, Flight
  <1>. QED
    BY <1>1, <1>2, <1>3, <1>4, <1>5, <1>6, <1>7

LEMMA ReceiveLogInv == ASSUME TailInv, ReceiveLog, ~UNCHANGED lines PROVE TailInv'
  <1>1. /\ Alive /\ reader = "select" /\ logCh # <<>>
        /\ held' = <<Head(logCh)>> /\ logCh' = Tail(logCh) /\ reader' = "callback"
        /\ UNCHANGED <<mode, main, outputter, consumer, errCh, logClosed, errClosed, outCh, printed,
                       sentLogs, sentErrs, closeAsked>>
    BY DEF ReceiveLog, lines
  <1>2. LineType /\ GoroutineType /\ held = Nothing
    BY <1>1, Waiting DEF TailInv, Handover
  <1>3. /\ held' \in {<<l>> : l \in AnyLine} /\ Head(logCh).kind = "log"
        /\ logCh' \in Seq(Line) /\ Len(logCh') = Len(logCh) - 1
        /\ \A i \in 1 .. Len(logCh') : logCh'[i] = logCh[i + 1]
        /\ InOrder(inFlight', "log", taken + 1)
    <2>1. logCh \in Seq(Line)
      BY <1>2 DEF LineType
    <2>. QED
      BY <1>1, <1>2, <2>1, Waiting, TakeNext DEF inFlight
  <1>4. taken' = taken + 1 /\ takenErrs' = takenErrs
    BY <1>1, <1>3, Waiting DEF taken, takenErrs
  <1>5. TypeOK'
    <2>1. Len(logCh') <= Cap
      BY <1>2, <1>3, Waiting DEF LineType
    <2>. QED
      BY <1>1, <1>2, <1>3, <2>1, TypePartsNext DEF LineType, GoroutineType
  <1>6. Handover'
    <2>1. held' # Nothing
      BY <1>1, NotNothing
    <2>. QED
      BY <1>1, <2>1 DEF TailInv, Handover
  <1>7. Channels'
    <2>1. ASSUME NEW i \in 1 .. Len(logCh') PROVE logCh'[i] = Log(taken' + i)
      <3>1. i + 1 \in 1 .. Len(logCh) /\ taken + (i + 1) = taken' + i
        BY <1>3, <1>4, Waiting
      <3>2. logCh[i + 1] = Log(taken + (i + 1))
        BY <3>1 DEF TailInv, Channels
      <3>. QED
        BY <1>3, <3>1, <3>2
    <2>. QED
      BY <1>1, <1>4, <2>1, Waiting DEF TailInv, Channels
  <1>8. Flight'
    <2>1. Head(logCh) \in AnyLine /\ Head(logCh).kind # "err"
      BY <1>1, <1>3
    <2>2. InOrder(inFlight', "err", takenErrs)
      BY <1>1, <1>2, <2>1, Waiting, OthersStay DEF inFlight
    <2>. QED
      BY <1>3, <1>4, <2>2 DEF Flight
  <1>. QED
    BY <1>5, <1>6, <1>7, <1>8 DEF TailInv

LEMMA ReceiveErrInv == ASSUME TailInv, ReceiveErr PROVE TailInv'
  <1>1. /\ Alive /\ reader = "select" /\ reader' = "callback"
        /\ UNCHANGED <<mode, main, outputter, consumer, logCh, logClosed, errClosed, outCh, printed,
                       sentLogs, sentErrs, closeAsked>>
    BY DEF ReceiveErr
  <1>2. LineType /\ GoroutineType /\ held = Nothing
    BY <1>1, Waiting DEF TailInv, Handover
  <1>3. CASE errCh # <<>> /\ held' = <<Head(errCh)>> /\ errCh' = Tail(errCh)
    <2>1. /\ held' \in {<<l>> : l \in AnyLine} /\ Head(errCh).kind = "err"
          /\ errCh' \in Seq(Line) /\ Len(errCh') = Len(errCh) - 1
          /\ \A i \in 1 .. Len(errCh') : errCh'[i] = errCh[i + 1]
          /\ InOrder(inFlight', "err", takenErrs + 1)
      <3>1. errCh \in Seq(Line)
        BY <1>2 DEF LineType
      <3>. QED
        BY <1>1, <1>2, <1>3, <3>1, Waiting, TakeNext DEF inFlight
    <2>2. taken' = taken /\ takenErrs' = takenErrs + 1
      BY <1>1, <2>1, Waiting DEF taken, takenErrs
    <2>3. TypeOK'
      <3>1. Len(errCh') <= Cap
        BY <1>2, <2>1, Waiting DEF LineType
      <3>. QED
        BY <1>1, <1>2, <2>1, <3>1, TypePartsNext DEF LineType, GoroutineType
    <2>4. Handover'
      <3>1. held' # Nothing
        BY <1>3, NotNothing
      <3>. QED
        BY <1>1, <3>1 DEF TailInv, Handover
    <2>5. Channels'
      <3>1. ASSUME NEW i \in 1 .. Len(errCh') PROVE errCh'[i] = Err(takenErrs' + i)
        <4>1. i + 1 \in 1 .. Len(errCh) /\ takenErrs + (i + 1) = takenErrs' + i
          BY <2>1, <2>2, Waiting
        <4>2. errCh[i + 1] = Err(takenErrs + (i + 1))
          BY <4>1 DEF TailInv, Channels
        <4>. QED
          BY <2>1, <4>1, <4>2
      <3>. QED
        BY <1>1, <2>2, <3>1, Waiting DEF TailInv, Channels
    <2>6. Flight'
      <3>1. Head(errCh) \in AnyLine /\ Head(errCh).kind # "log"
        BY <1>3, <2>1
      <3>2. InOrder(inFlight', "log", taken)
        BY <1>1, <1>2, <1>3, <3>1, Waiting, OthersStay DEF inFlight
      <3>. QED
        BY <2>1, <2>2, <3>2 DEF Flight
    <2>. QED
      BY <2>3, <2>4, <2>5, <2>6 DEF TailInv
  <1>4. CASE held' = <<NilErr>> /\ UNCHANGED errCh
    <2>1. NilErr \in AnyLine /\ NilErr.kind # "log" /\ NilErr.kind # "err"
      BY DEF AnyLine, NilErr
    <2>2. taken' = taken /\ takenErrs' = takenErrs
      BY <1>1, <1>4 DEF taken, takenErrs
    <2>3. TypeOK'
      <3>1. held' \in {<<l>> : l \in AnyLine}
        BY <1>4, <2>1
      <3>. QED
        BY <1>1, <1>2, <1>4, <3>1, TypePartsNext DEF LineType, GoroutineType
    <2>4. Handover'
      BY <1>1, <1>4 DEF TailInv, Handover, Nothing
    <2>5. Channels'
      BY <1>1, <1>4, <2>2 DEF TailInv, Channels
    <2>6. InOrder(inFlight', "log", taken) /\ InOrder(inFlight', "err", takenErrs)
      BY <1>1, <1>2, <1>4, <2>1, Waiting, OthersStay DEF inFlight
    <2>7. Flight'
      BY <2>2, <2>6 DEF Flight
    <2>. QED
      BY <2>3, <2>4, <2>5, <2>7 DEF TailInv
  <1>. QED
    BY <1>3, <1>4 DEF ReceiveErr

\* A channel to which the next line is sent.
LEMMA SentNext ==
    ASSUME NEW S, NEW ch \in Seq(S), NEW l \in S, NEW c \in Nat, Len(ch) < c
    PROVE  /\ Append(ch, l) \in Seq(S) /\ Len(Append(ch, l)) = Len(ch) + 1 /\ Len(Append(ch, l)) <= c
           /\ \A i \in 1 .. Len(ch) + 1 : Append(ch, l)[i] = IF i = Len(ch) + 1 THEN l ELSE ch[i]
  <1>1. Len(ch) \in Nat
    BY LenProperties
  <1>2. /\ Append(ch, l) \in Seq(S) /\ Len(Append(ch, l)) = Len(ch) + 1
        /\ \A i \in 1 .. Len(ch) : Append(ch, l)[i] = ch[i]
        /\ Append(ch, l)[Len(ch) + 1] = l
    BY AppendProperties
  <1>. QED
    BY <1>1, <1>2

LEMMA ConsumerSendsInv == ASSUME TailInv, ConsumerSends PROVE TailInv'
  <1>1. UNCHANGED <<mode, main, outputter, reader, consumer, held, logClosed, errClosed, outCh,
                    printed, closeAsked>>
    BY DEF ConsumerSends
  <1>2. /\ LineType /\ GoroutineType
        /\ Len(logCh) \in Nat /\ Len(errCh) \in Nat /\ sentLogs \in Nat /\ sentErrs \in Nat
    BY Waiting
  <1>3. Handover' /\ inFlight' = inFlight /\ GoroutineType'
    BY <1>1, <1>2 DEF TailInv, Handover, inFlight, GoroutineType
  <1>4. CASE /\ sentLogs < MaxLogs /\ Len(logCh) < Cap
             /\ sentLogs' = sentLogs + 1 /\ logCh' = Append(logCh, Log(sentLogs + 1))
             /\ UNCHANGED <<errCh, sentErrs>>
    <2>1. Log(sentLogs + 1) \in Line
      BY <1>2, <1>4 DEF Line
    <2>2. /\ logCh' \in Seq(Line) /\ Len(logCh') = Len(logCh) + 1 /\ Len(logCh') <= Cap
          /\ \A i \in 1 .. Len(logCh) + 1 :
                 logCh'[i] = IF i = Len(logCh) + 1 THEN Log(sentLogs + 1) ELSE logCh[i]
      BY <1>2, <1>4, <2>1, SentNext DEF LineType
    <2>3. taken' = taken /\ takenErrs' = takenErrs
      BY <1>2, <1>4, <2>2 DEF taken, takenErrs
    <2>4. LineType'
      BY <1>1, <1>2, <1>4, <2>2 DEF LineType
    <2>5. ASSUME NEW i \in 1 .. Len(logCh') PROVE logCh'[i] = Log(taken' + i)
      <3>1. CASE i = Len(logCh) + 1
        <4>1. taken' + i = sentLogs + 1
          BY <1>2, <2>3, <3>1 DEF taken
        <4>. QED
          BY <2>2, <3>1, <4>1
      <3>2. CASE i # Len(logCh) + 1
        <4>1. i \in 1 .. Len(logCh)
          BY <1>2, <2>2, <3>2
        <4>. QED
          BY <2>2, <2>3, <3>2, <4>1 DEF TailInv, Channels
      <3>. QED
        BY <3>1, <3>2
    <2>6. Channels'
      BY <1>4, <2>3, <2>5 DEF TailInv, Channels
    <2>7. Flight'
      BY <1>3, <2>3 DEF TailInv, Flight
    <2>. QED
      BY <1>3, <2>4, <2>6, <2>7, TypePartsNext DEF TailInv
  <1>5. CASE /\ sentErrs < MaxErrs /\ Len(errCh) < Cap
             /\ sentErrs' = sentErrs + 1 /\ errCh' = Append(errCh, Err(sentErrs + 1))
             /\ UNCHANGED <<logCh, sentLogs>>
    <2>1. Err(sentErrs + 1) \in Line
      BY <1>2, <1>5 DEF Line
    <2>2. /\ errCh' \in Seq(Line) /\ Len(errCh') = Len(errCh) + 1 /\ Len(errCh') <= Cap
          /\ \A i \in 1 .. Len(errCh) + 1 :
                 errCh'[i] = IF i = Len(errCh) + 1 THEN Err(sentErrs + 1) ELSE errCh[i]
      BY <1>2, <1>5, <2>1, SentNext DEF LineType
    <2>3. taken' = taken /\ takenErrs' = takenErrs
      BY <1>2, <1>5, <2>2 DEF taken, takenErrs
    <2>4. LineType'
      BY <1>1, <1>2, <1>5, <2>2 DEF LineType
    <2>5. ASSUME NEW i \in 1 .. Len(errCh') PROVE errCh'[i] = Err(takenErrs' + i)
      <3>1. CASE i = Len(errCh) + 1
        <4>1. takenErrs' + i = sentErrs + 1
          BY <1>2, <2>3, <3>1 DEF takenErrs
        <4>. QED
          BY <2>2, <3>1, <4>1
      <3>2. CASE i # Len(errCh) + 1
        <4>1. i \in 1 .. Len(errCh)
          BY <1>2, <2>2, <3>2
        <4>. QED
          BY <2>2, <2>3, <3>2, <4>1 DEF TailInv, Channels
      <3>. QED
        BY <3>1, <3>2
    <2>6. Channels'
      BY <1>5, <2>3, <2>5 DEF TailInv, Channels
    <2>7. Flight'
      BY <1>3, <2>3 DEF TailInv, Flight
    <2>. QED
      BY <1>3, <2>4, <2>6, <2>7, TypePartsNext DEF TailInv
  <1>. QED
    BY <1>4, <1>5 DEF ConsumerSends

LEMMA NextTailInv == TailInv /\ [Next]_vars => TailInv'
  <1> SUFFICES ASSUME TailInv, [Next]_vars PROVE TailInv'
    OBVIOUS
  <1>1. CASE UNCHANGED vars
    <2>1. UNCHANGED lines
      BY <1>1 DEF vars, channels, lines
    <2>2. TypeOK'
      BY <1>1 DEF vars, channels, TailInv, TypeOK
    <2>3. Handover'
      BY <1>1 DEF vars, channels, TailInv, Handover
    <2>. QED
      BY <2>1, <2>2, <2>3, Moveless
  <1>2. CASE MainStep \/ StopTailing \/ ExitNow
    BY <1>2, MovelessInv DEF MovesNoLine
  <1>3. CASE OutputterStep
    BY <1>3, MovelessInv, PrintLineInv DEF OutputterStep, MovesNoLine
  <1>4. CASE ReaderStep
    <2>1. CASE StartConsumer
      BY <2>1, MovelessInv DEF MovesNoLine
    <2>2. CASE ReceiveLog
      BY <2>2, MovelessInv, ReceiveLogInv DEF MovesNoLine, ReceiveLog
    <2>3. CASE Callback
      BY <2>3, MovelessInv, CallbackInv DEF MovesNoLine, Callback
    <2>. QED
      BY <1>4, <2>1, <2>2, <2>3, ReceiveErrInv DEF ReaderStep
  <1>5. CASE ConsumerStep
    BY <1>5, MovelessInv, ConsumerSendsInv DEF ConsumerStep, MovesNoLine
  <1>. QED
    BY <1>1, <1>2, <1>3, <1>4, <1>5 DEF Next

\* Tailing logs keeps to its invariant, whatever the capacity of the channels
\* and however many logs and errors there are.
THEOREM TailInvariance == Spec => []TailInv
  BY InitTailInv, NextTailInv, PTL DEF Spec

\* Every channel and goroutine keeps its type, and no channel overflows.
THEOREM TailTypeCorrect == Spec => []TypeOK
  BY TailInvariance, PTL DEF TailInv

\* Between the consumer and the terminal, no log and no error is lost, doubled
\* or overtaken by one of its kind.
THEOREM LinesStayInOrder == Spec => []NothingLostOrReordered
  <1>1. ASSUME TailInv PROVE NothingLostOrReordered
    <2>1. inFlight \in Seq(AnyLine) /\ logCh \in Seq(AnyLine) /\ errCh \in Seq(AnyLine)
      <3>1. Line \subseteq AnyLine
        BY DEF AnyLine
      <3>2. logCh \in Seq(Line) /\ errCh \in Seq(Line) /\ LineType
        BY <1>1, Waiting DEF LineType
      <3>. QED
        BY <3>1, <3>2, SeqMonotonic, FlightType
    <2>2. InOrder(inFlight \o logCh, "log", taken + Len(logCh))
      BY <1>1, <2>1, Waiting, InOrderNext
    <2>3. InOrder(inFlight \o errCh, "err", takenErrs + Len(errCh))
      BY <1>1, <2>1, Waiting, InOrderNext
    <2>4. taken + Len(logCh) = sentLogs /\ takenErrs + Len(errCh) = sentErrs
      BY <1>1, Waiting DEF taken, takenErrs
    <2>. QED
      BY <2>2, <2>3, <2>4 DEF NothingLostOrReordered
  <1>. QED
    BY <1>1, TailInvariance, PTL

\* Once StopTailing has stopped the reader, it does nothing any more, and what
\* the outputter is still going to print is already there.
THEOREM StoppedMeansStopped == Spec => NothingAfterStop
  <1>1. ASSUME TailInv, [Next]_vars, Stopped
        PROVE  Len(printed' \o outCh') = Len(printed \o outCh) /\ UNCHANGED reader
    <2>1. reader = "returned" /\ outputter = "ranging"
      BY <1>1 DEF TailInv, Handover, Stopped
    <2>2. CASE PrintLine
      <3>1. printed' \o outCh' = printed \o outCh
        BY <1>1, <2>2, TypeParts, Passed DEF PrintLine, TailInv, LineType
      <3>. QED
        BY <2>2, <3>1 DEF PrintLine
    <2>3. CASE ~PrintLine
      <3>1. UNCHANGED <<printed, outCh, reader>>
        BY <1>1, <2>1, <2>3 DEF Next, MainStep, OutputterStep, ReaderStep, ConsumerStep,
                                StartOutputting, WorkDone, CloseConsumer, Return, StopTailing,
                                ExitNow, StartReader, StartConsumer, ReceiveErr, ReceiveLog,
                                Callback, ConsumerSends, ConsumerStops, channels, vars
      <3>. QED
        BY <3>1
    <2>. QED
      BY <2>2, <2>3
  <1>2. TailInv /\ [Next]_vars => [Stopped => /\ Len(printed' \o outCh') = Len(printed \o outCh)
                                              /\ UNCHANGED reader]_vars
    BY <1>1
  <1>. QED
    BY <1>2, TailInvariance, PTL DEF Spec, NothingAfterStop

-----------------------------------------------------------------------------
\* A reader nobody has stopped has returned because the consumer has ended, and
\* behind its last log.
EndedByConsumer ==
    /\ reader \in {"none", "spawned"} => consumer = "none"
    /\ logClosed => consumer = "ended"
    /\ reader = "returned" /\ main \notin {"closing", "returning", "exited"} => logClosed /\ logCh = <<>>

LEMMA EndedByConsumerNext == TailInv /\ EndedByConsumer /\ [Next]_vars => EndedByConsumer'
  <1> SUFFICES ASSUME TailInv, EndedByConsumer, [Next]_vars PROVE EndedByConsumer'
    OBVIOUS
  <1>1. CASE UNCHANGED vars
    BY <1>1 DEF EndedByConsumer, vars, channels
  <1>2. CASE MainStep \/ StopTailing \/ ExitNow
    BY <1>2 DEF EndedByConsumer, TailInv, Handover, MainStep, StartOutputting, WorkDone,
       CloseConsumer, Return, StopTailing, ExitNow, channels
  <1>3. CASE OutputterStep
    BY <1>3 DEF EndedByConsumer, TailInv, Handover, OutputterStep, StartReader, PrintLine, channels
  <1>4. CASE ReaderStep
    \* What the reader takes does not matter: while it runs, nothing is asked.
    <2>1. CASE StartConsumer
      BY <2>1 DEF EndedByConsumer, TailInv, Handover, StartConsumer, channels
    <2>2. CASE ReceiveErr \/ Callback
      BY <2>2 DEF EndedByConsumer, ReceiveErr, Callback
    <2>3. CASE ReceiveLog
      BY <2>3 DEF EndedByConsumer, ReceiveLog
    <2>. QED
      BY <1>4, <2>1, <2>2, <2>3 DEF ReaderStep
  <1>5. CASE ConsumerStep
    BY <1>5 DEF EndedByConsumer, ConsumerStep, ConsumerSends, ConsumerStops
  <1>. QED
    BY <1>1, <1>2, <1>3, <1>4, <1>5 DEF Next

\* The reader returns only when it is stopped, or when every log ever sent is
\* with the outputter: neither an error nor the end of the errors ends it.
THEOREM ReaderSeesLogsOut == Spec => []LogsAreSeenOut
  <1>1. Init => EndedByConsumer
    BY DEF Init, EndedByConsumer
  <1>2. ASSUME TailInv, EndedByConsumer PROVE LogsAreSeenOut
    <2> SUFFICES ASSUME reader = "returned", logCh = <<>> PROVE InOrder(printed \o outCh, "log", sentLogs)
      BY <1>2 DEF EndedByConsumer, LogsAreSeenOut
    <2>1. held = <<>>
      BY <1>2 DEF TailInv, Handover, Nothing
    <2>2. (printed \o outCh) \o <<>> = printed \o outCh
      BY <1>2, Waiting, FlightType, ConcatEmptySeq
    <2>3. InOrder(printed \o outCh, "log", taken)
      BY <1>2, <2>1, <2>2 DEF TailInv, Flight, inFlight
    <2>4. Len(logCh) = 0
      BY EmptySeq
    <2>5. taken = sentLogs
      BY <1>2, <2>4, Waiting DEF taken
    <2>. QED
      BY <2>3, <2>5
  <1>. QED
    BY <1>1, <1>2, EndedByConsumerNext, TailInvariance, PTL DEF Spec
=============================================================================
