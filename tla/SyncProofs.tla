----------------------------- MODULE SyncProofs -----------------------------
(***************************************************************************)
(* For any number of invocations of ltc sync and any binaries: there is    *)
(* always a whole ltc in place, and one that runs alone keeps its mode.    *)
(* What makes this inductive is what a process holds between its steps: a  *)
(* temporary file is whole when it is renamed (Carries), and as long as    *)
(* the others have not begun ltc is what this one left (AsLeft).           *)
(***************************************************************************)
EXTENDS Sync, TLAPS

TypeInv ==
    /\ ltc \in [content : Version, mode : {"rw", "rwx"}]
    /\ server \in Version
    /\ temp \in [Proc -> [content : Version \cup {"part"}, mode : {"rw"}]]
    /\ body \in [Proc -> Version]
    /\ mode \in [Proc -> {"rw", "rwx"}]
    /\ pc \in [Proc -> {"start", "temp", "copy", "stat", "rename", "chmod", "exited"}]
    /\ code \in [Proc -> {"none", "ok", "CommandFailed", "Signal"}]

\* What is about to be put in place is the whole body.
Carries(p) ==
    /\ pc[p] \in {"stat", "rename"} => temp[p].content = body[p]
    /\ pc[p] = "exited" <=> code[p] # "none"

Alone(p) == \A q \in Proc \ {p} : pc[q] = "start"

\* What a process that runs alone makes of ltc, step by step.
AsLeft(p) == Alone(p) =>
    /\ pc[p] \in {"start", "temp", "copy", "stat", "rename"} =>
           ltc = [content |-> Old, mode |-> "rwx"]
    /\ pc[p] \in {"rename", "chmod"} => mode[p] = "rwx"
    /\ pc[p] = "chmod" => ltc.content = body[p]
    /\ code[p] = "ok" => ltc = [content |-> body[p], mode |-> "rwx"]

IInv == TypeInv /\ \A p \in Proc : Carries(p) /\ AsLeft(p)

USE OldAssumption

-----------------------------------------------------------------------------
LEMMA InitIInv == Init => IInv
  <1> SUFFICES ASSUME Init PROVE IInv
    OBVIOUS
  <1>1. TypeInv
    BY DEF Init, TypeInv, NoFile
  <1>2. \A p \in Proc : Carries(p) /\ AsLeft(p)
    BY DEF Init, Carries, AsLeft
  <1>. QED
    BY <1>1, <1>2 DEF IInv

\* Only p moves.
OnlyMoves(p) == \A q \in Proc \ {p} :
    pc'[q] = pc[q] /\ code'[q] = code[q] /\ temp'[q] = temp[q] /\ body'[q] = body[q]

\* Once p has moved, nobody else is alone: what p's step must keep is its own.
LEMMA OneMoves ==
    ASSUME IInv, NEW p \in Proc, TypeInv', OnlyMoves(p), pc'[p] # "start",
           Carries(p)', AsLeft(p)'
    PROVE  IInv'
  <1>1. ASSUME NEW q \in Proc, q # p PROVE Carries(q)' /\ AsLeft(q)'
    <2>1. ~Alone(q)'
      BY <1>1 DEF Alone
    <2>2. Carries(q)'
      BY <1>1 DEF IInv, OnlyMoves, Carries
    <2>. QED
      BY <2>1, <2>2 DEF AsLeft
  <1>. QED
    BY <1>1 DEF IInv

\* What a step of p starts from.
LEMMA Own ==
    ASSUME IInv, NEW p \in Proc
    PROVE  TypeInv /\ Carries(p) /\ AsLeft(p)
  BY DEF IInv

\* Failing or being stopped leaves everything where it is.
LEMMA GiveUpInv ==
    ASSUME IInv, NEW p \in Proc, NEW c \in {"CommandFailed", "Signal"}, Exit(p, c),
           UNCHANGED <<ltc, server, temp, body, mode>>
    PROVE  IInv'
  <1>1. TypeInv /\ AsLeft(p)
    BY Own
  <1>2. pc'[p] = "exited" /\ code'[p] = c /\ TypeInv' /\ OnlyMoves(p)
    BY <1>1 DEF Exit, TypeInv, OnlyMoves
  <1>3. Carries(p)' /\ AsLeft(p)'
    BY <1>1, <1>2 DEF Carries, AsLeft
  <1>. QED
    BY <1>2, <1>3, OneMoves

\* Before Rename a process touches nothing but its own.
LEMMA PrepareInv ==
    ASSUME IInv, NEW p \in Proc, Get(p) \/ GetTempFile(p) \/ Copy(p) \/ Stat(p) PROVE IInv'
  <1>1. TypeInv /\ Carries(p) /\ AsLeft(p)
    BY Own
  <1>2. CASE Exit(p, "CommandFailed") /\ UNCHANGED <<ltc, server, temp, body, mode>>
    BY <1>2, GiveUpInv
  <1>3. ASSUME NEW l \in {"temp", "copy", "stat", "rename"}, Goto(p, l), TypeInv', OnlyMoves(p),
               pc[p] \in {"start", "temp", "copy", "stat"}, UNCHANGED ltc,
               l \in {"stat", "rename"} => temp'[p].content = body'[p],
               l = "rename" => mode'[p] = ltc.mode
        PROVE  IInv'
    <2>1. pc'[p] = l /\ code'[p] = code[p] /\ code[p] = "none"
      BY <1>1, <1>3 DEF Goto, TypeInv, Carries
    <2>2. Carries(p)'
      BY <1>3, <2>1 DEF Carries
    <2>3. Alone(p)' => Alone(p)
      BY <1>3 DEF Alone, OnlyMoves
    <2>4. AsLeft(p)'
      BY <1>1, <1>3, <2>1, <2>3 DEF AsLeft
    <2>. QED
      BY <1>3, <2>1, <2>2, <2>4, OneMoves
  <1>4. CASE Get(p) /\ body' = [body EXCEPT ![p] = server] /\ Goto(p, "temp")
    <2>1. TypeInv' /\ OnlyMoves(p)
      BY <1>1, <1>4 DEF Get, Goto, TypeInv, OnlyMoves
    <2>. QED
      BY <1>3, <1>4, <2>1 DEF Get
  <1>5. CASE GetTempFile(p) /\ Goto(p, "copy")
    <2>1. TypeInv' /\ OnlyMoves(p)
      BY <1>1, <1>5 DEF GetTempFile, Goto, TypeInv, OnlyMoves
    <2>. QED
      BY <1>3, <1>5, <2>1 DEF GetTempFile
  <1>6. CASE Copy(p) /\ temp' = [temp EXCEPT ![p].content = body[p]] /\ Goto(p, "stat")
    <2>1. TypeInv' /\ OnlyMoves(p) /\ temp'[p].content = body[p] /\ body' = body
      BY <1>1, <1>6 DEF Copy, Goto, TypeInv, OnlyMoves
    <2>. QED
      BY <1>3, <1>6, <2>1 DEF Copy
  <1>7. CASE Stat(p) /\ mode' = [mode EXCEPT ![p] = ltc.mode] /\ Goto(p, "rename")
    <2>1. TypeInv' /\ OnlyMoves(p) /\ mode'[p] = ltc.mode /\ temp'[p].content = body'[p]
      BY <1>1, <1>7 DEF Stat, Goto, TypeInv, OnlyMoves, Carries
    <2>. QED
      BY <1>3, <1>7, <2>1 DEF Stat
  <1>. QED
    BY <1>2, <1>4, <1>5, <1>6, <1>7 DEF Get, GetTempFile, Copy, Stat

\* The whole file takes the place of the old one, but not yet with its mode.
LEMMA RenameInv == ASSUME IInv, NEW p \in Proc, Rename(p) PROVE IInv'
  <1>1. TypeInv /\ Carries(p) /\ AsLeft(p) /\ pc[p] = "rename" /\ UNCHANGED <<server, temp, body, mode>>
    BY Own DEF Rename
  <1>2. CASE Exit(p, "CommandFailed") /\ UNCHANGED ltc
    BY <1>1, <1>2, GiveUpInv
  <1>3. CASE ltc' = temp[p] /\ Goto(p, "chmod")
    <2>1. /\ pc'[p] = "chmod" /\ code'[p] = "none" /\ temp[p].content = body[p] /\ OnlyMoves(p)
          /\ body[p] \in Version
      BY <1>1, <1>3 DEF Goto, TypeInv, Carries, OnlyMoves
    <2>2. TypeInv'
      BY <1>1, <1>3, <2>1 DEF Goto, TypeInv
    <2>3. Alone(p)' => Alone(p)
      BY <2>1 DEF Alone, OnlyMoves
    <2>4. Carries(p)' /\ AsLeft(p)'
      BY <1>1, <1>3, <2>1, <2>3 DEF Carries, AsLeft
    <2>. QED
      BY <2>1, <2>2, <2>4, OneMoves
  <1>. QED
    BY <1>2, <1>3 DEF Rename

\* The mode read before is put back, on whatever is there by now.
LEMMA ChmodInv == ASSUME IInv, NEW p \in Proc, Chmod(p) PROVE IInv'
  <1>1. TypeInv /\ Carries(p) /\ AsLeft(p) /\ pc[p] = "chmod" /\ UNCHANGED <<server, temp, body, mode>>
    BY Own DEF Chmod
  <1>2. CASE Exit(p, "CommandFailed") /\ UNCHANGED ltc
    BY <1>1, <1>2, GiveUpInv
  <1>3. CASE ltc' = [ltc EXCEPT !.mode = mode[p]] /\ Exit(p, "ok")
    <2>1. /\ pc'[p] = "exited" /\ code'[p] = "ok" /\ OnlyMoves(p) /\ TypeInv'
          /\ ltc'.content = ltc.content /\ ltc'.mode = mode[p]
          /\ ltc' \in [content : Version, mode : {"rw", "rwx"}]
      BY <1>1, <1>3 DEF Exit, TypeInv, OnlyMoves
    <2>2. Alone(p)' => Alone(p)
      BY <2>1 DEF Alone, OnlyMoves
    <2>3. Alone(p)' => ltc' = [content |-> body'[p], mode |-> "rwx"]
      BY <1>1, <2>1, <2>2 DEF AsLeft
    <2>4. Carries(p)' /\ AsLeft(p)'
      BY <2>1, <2>3 DEF Carries, AsLeft
    <2>. QED
      BY <2>1, <2>4, OneMoves
  <1>. QED
    BY <1>2, <1>3 DEF Chmod

\* Every step preserves the invariant, one case per action.
LEMMA NextIInv == IInv /\ [Next]_vars => IInv'
  <1> SUFFICES ASSUME IInv, [Next]_vars PROVE IInv'
    OBVIOUS
  <1>1. ASSUME NEW p \in Proc, Step(p) PROVE IInv'
    <2>1. CASE Interrupt(p)
      BY <2>1, GiveUpInv DEF Interrupt
    <2>. QED
      BY <1>1, <2>1, PrepareInv, RenameInv, ChmodInv DEF Step
  <1>2. CASE Upgrade
    BY <1>2 DEF Upgrade, IInv, TypeInv, Carries, AsLeft, Alone
  <1>3. CASE UNCHANGED vars
    BY <1>3 DEF vars, IInv, TypeInv, Carries, AsLeft, Alone
  <1>. QED
    BY <1>1, <1>2, <1>3 DEF Next

THEOREM Invariance == Spec => []IInv
  BY InitIInv, NextIInv, PTL DEF Spec

\* However many syncs run and wherever they fail or are stopped, there is a
\* whole ltc in place.
THEOREM AlwaysAWholeLtc == Spec => []WholeLtc
  <1>1. IInv => WholeLtc
    BY DEF IInv, TypeInv, WholeLtc
  <1>. QED
    BY <1>1, Invariance, PTL

\* A lone sync that succeeds leaves what it was served, and it can be run; one
\* that cannot be run is what an unfinished sync has left.
THEOREM ModeIsKeptAlone == Spec => []AloneKeepsMode
  <1>1. ASSUME IInv PROVE AloneKeepsMode
    <2>1. ASSUME NEW p \in Proc, Alone(p), ltc.mode = "rw"
          PROVE  pc[p] = "chmod" \/ code[p] \in {"CommandFailed", "Signal"}
      <3>1. TypeInv /\ Carries(p) /\ AsLeft(p)
        BY <1>1, Own
      <3>. QED
        BY <2>1, <3>1 DEF TypeInv, Carries, AsLeft
    <2>. QED
      BY <1>1, <2>1 DEF IInv, AsLeft, Alone, AloneKeepsMode
  <1>. QED
    BY <1>1, Invariance, PTL
=============================================================================
