--------------------------- MODULE KubeConfigProofs ---------------------------
(***************************************************************************)
(* What holds of the kubeconfig file for any number of processes, contexts   *)
(* and installations. That the user keeps his contexts needs the invariant   *)
(* Kept: as long as no rewrite was overlapped, a process that has loaded the *)
(* file knows all of the user's contexts, and at most one of them has the    *)
(* file open. That the rewrites are the steps of module Lifecycle, when one   *)
(* process at a time is at the file, is stated by ContextContract.            *)
(***************************************************************************)
EXTENDS KubeConfig, TLAPS

(* Before it has read the distribution's file a process knows none. *)
Fresh == \A p \in Procs : pc[p] \in Resting \cup {"loadDistro"} => distro[p] = 0

TypeInv == TypeOK /\ Fresh

Writing(p) == pc[p] = "write"

(* A process that has loaded the file knows the user's contexts, *)
Informed ==
    \A p \in Procs : Busy(p) =>
        \/ loaded[p].others = mine
        \/ pc[p] = "truncate" /\ \E q \in Procs \ {p} : Writing(q)
(* one process at a time has the file open, *)
OneWriter == \A p, q \in Procs : Writing(p) /\ Writing(q) => p = q
(* and between the rewrites they are in it. *)
InFile == (\A p \in Procs : ~Writing(p)) => home.others = mine

Kept == ~spoilt => Informed /\ OneWriter /\ InFile

USE DEF Resting

-----------------------------------------------------------------------------
(* A result of a rewrite is a configuration with the others of the copy. *)
LEMMA ResultsType ==
    ASSUME TypeOK, NEW p \in Procs, NEW c \in Results(p)
    PROVE  c \in Configs /\ c.others = loaded[p].others
<1>1. /\ loaded[p] \in Configs /\ distro[p] \in Installs
      /\ Own \in Others \cup {Own, Unset} /\ 0 \in Installs
    BY KubeConfigAssumption DEF TypeOK, Installs
<1>2. CASE cmd[p] = "merge"
    BY <1>1, <1>2 DEF Results, Merged, Configs
<1>3. CASE cmd[p] # "merge"
    <2>1. PICK k \in IF loaded[p].current = Own /\ loaded[p].others # {}
                     THEN loaded[p].others ELSE {loaded[p].current} :
                c = [own |-> 0, others |-> loaded[p].others, current |-> k]
        BY <1>3 DEF Results, Removals
    <2>2. k \in Others \cup {Own, Unset}
        BY <1>1, <2>1 DEF Configs
    <2> QED BY <1>1, <2>1, <2>2 DEF Configs
<1> QED BY <1>2, <1>3

LEMMA EmptyType == Empty \in Configs
BY KubeConfigAssumption DEF Empty, Configs, Installs

LEMMA TypeInit == Init => TypeInv
<1> SUFFICES ASSUME Init PROVE TypeInv
    OBVIOUS
<1>1. 0 \in Installs /\ 0 \in 0 .. 0
    BY KubeConfigAssumption DEF Installs
<1>2. TypeOK
    BY <1>1, EmptyType DEF Init, TypeOK
<1>3. Fresh
    BY DEF Init, Fresh
<1> QED BY <1>2, <1>3 DEF TypeInv

(* One case for each action. *)
LEMMA TypeStep == TypeInv /\ [Next]_vars => TypeInv'
<1> SUFFICES ASSUME TypeInv, [Next]_vars PROVE TypeInv'
    OBVIOUS
<1> USE DEF TypeInv, TypeOK, Fresh
<1>1. ASSUME NEW p \in Procs, Begin(p) PROVE TypeInv'
    BY <1>1 DEF Begin, Goto, world
<1>2. ASSUME NEW p \in Procs, LoadDistro(p) PROVE TypeInv'
    <2>1. installed \in Installs
        BY KubeConfigAssumption DEF Installs
    <2> QED BY <1>2, <2>1 DEF LoadDistro, Goto, world
<1>3. ASSUME NEW p \in Procs, LoadHome(p) PROVE TypeInv'
    BY <1>3 DEF LoadHome, Goto, world
<1>4. ASSUME NEW p \in Procs, Truncate(p) PROVE TypeInv'
    BY <1>4, EmptyType DEF Truncate, Goto, world, locals
<1>5. ASSUME NEW p \in Procs, Write(p) PROVE TypeInv'
    <2>1. home' \in Configs
        BY <1>5, ResultsType DEF Write
    <2> QED BY <1>5, <2>1, EmptyType, KubeConfigAssumption
            DEF Write, Rest, Goto, world, locals, Installs
<1>6. ASSUME NEW p \in Procs, Stops(p) PROVE TypeInv'
    BY <1>6, EmptyType, KubeConfigAssumption DEF Stops, Rest, Goto, world, Installs
<1>7. ASSUME NEW n \in Others \cup {Own}, Use(n) PROVE TypeInv'
    BY <1>7 DEF Use, Edit, Configs, world, locals
<1>8. ASSUME NEW n \in Others, Add(n) PROVE TypeInv'
    <2>1. home' \in Configs /\ mine' = mine \cup {n}
        BY <1>8 DEF Add, Edit, Configs
    <2> QED BY <1>8, <2>1 DEF Add, Edit, world, locals
<1>9. ASSUME NEW n \in Others, Delete(n) PROVE TypeInv'
    BY <1>9 DEF Delete, Edit, Configs, world, locals
<1>10. CASE Install
    BY <1>10, KubeConfigAssumption DEF Install, locals, Installs
<1>11. CASE Uninstall
    BY <1>11, KubeConfigAssumption DEF Uninstall, locals, Installs
<1>12. CASE UNCHANGED vars
    BY <1>12 DEF vars, world, locals
<1> QED
    BY <1>1, <1>2, <1>3, <1>4, <1>5, <1>6, <1>7, <1>8, <1>9, <1>10, <1>11, <1>12
    DEF Next, Step, User

LEMMA TypeInvHolds == Spec => []TypeInv
<1>1. QED BY TypeInit, TypeStep, PTL DEF Spec

(* Type correctness (k8s.go:36-83). *)
THEOREM TypeCorrect == Spec => []TypeOK
<1>1. TypeInv => TypeOK
    BY DEF TypeInv
<1> QED BY <1>1, TypeInvHolds, PTL

-----------------------------------------------------------------------------
LEMMA KeptInit == Init => Kept
BY DEF Init, Kept, Informed, OneWriter, InFile, Busy, Writing, Empty

(* One case for each action; an edit, a load and a write of another process   *)
(* that would disturb a busy one makes the file spoilt.                       *)
LEMMA KeptStep == TypeInv /\ Kept /\ [Next]_vars => Kept'
<1> SUFFICES ASSUME TypeInv, Kept, [Next]_vars, ~spoilt' PROVE (Informed /\ OneWriter /\ InFile)'
    BY DEF Kept
<1> USE DEF TypeInv, TypeOK
<1>0. Informed /\ OneWriter /\ InFile
    <2>1. spoilt => spoilt'
        BY DEF Next, Step, User, Begin, LoadDistro, LoadHome, Truncate, Write, Stops,
               Use, Add, Delete, Edit, Install, Uninstall, vars
    <2> QED BY <2>1 DEF Kept
<1> USE <1>0 DEF Informed, OneWriter, InFile, Busy, Writing
<1>1. ASSUME NEW p \in Procs, Begin(p) \/ LoadDistro(p) PROVE (Informed /\ OneWriter /\ InFile)'
    BY <1>1 DEF Begin, LoadDistro, Goto
<1>2. ASSUME NEW p \in Procs, LoadHome(p) PROVE (Informed /\ OneWriter /\ InFile)'
    BY <1>2 DEF LoadHome, Goto
<1>3. ASSUME NEW p \in Procs, Truncate(p) PROVE (Informed /\ OneWriter /\ InFile)'
    BY <1>3 DEF Truncate, Goto, Overlaps, locals
<1>4. ASSUME NEW p \in Procs, Write(p) PROVE (Informed /\ OneWriter /\ InFile)'
    <2>1. home'.others = loaded[p].others
        BY <1>4, ResultsType DEF Write
    <2> QED BY <1>4, <2>1 DEF Write, Rest, Goto, Overlaps
<1>5. ASSUME NEW p \in Procs, Stops(p) PROVE (Informed /\ OneWriter /\ InFile)'
    BY <1>5 DEF Stops, Rest, Goto
<1>6. CASE User
    <2>1. \A p \in Procs : ~Busy(p)
        BY <1>6 DEF User, Use, Add, Delete, Edit
    <2>2. home.others = mine
        BY <2>1
    <2>3. home'.others = mine' /\ UNCHANGED pc
        <3>1. PICK n \in Others \cup {Own} : Use(n) \/ Add(n) \/ Delete(n)
            BY <1>6 DEF User
        <3>2. CASE Use(n)
            BY <2>2, <3>2 DEF Use, Edit, Configs
        <3>3. CASE Add(n)
            BY <2>2, <3>3 DEF Add, Edit
        <3>4. CASE Delete(n)
            BY <2>2, <3>4 DEF Delete, Edit, Configs
        <3> QED BY <3>1, <3>2, <3>3, <3>4
    <2> QED BY <2>1, <2>3
<1>7. CASE Install \/ Uninstall \/ UNCHANGED vars
    BY <1>7 DEF Install, Uninstall, vars, locals
<1> QED BY <1>1, <1>2, <1>3, <1>4, <1>5, <1>6, <1>7 DEF Next, Step

(* The user's contexts survive every start and uninstall that nobody overlaps *)
(* and that is not stopped over the truncated file (k8s.go:49-78).            *)
THEOREM UserKeptHolds == Spec => []UserKept
<1>1. Kept => UserKept
    BY DEF Kept, InFile, UserKept, Writing
<1>2. Spec => []Kept
    BY KeptInit, KeptStep, TypeInvHolds, PTL DEF Spec
<1> QED BY <1>1, <1>2, PTL

-----------------------------------------------------------------------------
(* The step that matters is the write, which ends one function or the other. *)
LEMMA StepLeads == TypeInv /\ [Next]_vars => RewriteLeads
<1> SUFFICES ASSUME TypeInv, [Next]_vars,
                    NEW p \in Procs, pc[p] = "write", pc'[p] = "ok"
             PROVE  /\ Leads(loaded[p]) => Leads(home') \/ NothingLeft(home')
                    /\ cmd[p] = "merge" /\ installed # 0 /\ distro[p] = installed
                           => home'.current = Own /\ home'.own = installed
    BY DEF RewriteLeads
<1> USE DEF TypeInv, TypeOK
<1>1. Write(p)
    BY DEF Next, Step, User, Begin, LoadDistro, LoadHome, Truncate, Write, Stops, Rest, Goto,
           Use, Add, Delete, Edit, Install, Uninstall, vars
<1>2. home' \in Results(p) /\ loaded[p] \in Configs /\ distro[p] \in Nat
    BY <1>1, KubeConfigAssumption DEF Write, Installs
<1>3. CASE cmd[p] = "merge"
    BY <1>2, <1>3 DEF Results, Merged, Leads, NothingLeft, Configs, Installs
<1>4. CASE cmd[p] # "merge"
    <2>1. PICK k \in IF loaded[p].current = Own /\ loaded[p].others # {}
                     THEN loaded[p].others ELSE {loaded[p].current} :
                home' = [own |-> 0, others |-> loaded[p].others, current |-> k]
        BY <1>2, <1>4 DEF Results, Removals
    <2>2. CASE loaded[p].others = {}
        BY <1>4, <2>1, <2>2 DEF NothingLeft
    <2>3. CASE loaded[p].others # {}
        BY <1>4, <2>1, <2>3 DEF Leads
    <2> QED BY <1>4, <2>2, <2>3
<1> QED BY <1>3, <1>4

(* After a rewrite the current context exists, and is the installed           *)
(* distribution after a merge (k8s.go:38-40, 68-73).                          *)
THEOREM CurrentLeadsHolds == Spec => CurrentLeads
<1>1. TypeInv /\ [Next]_vars => [RewriteLeads]_vars
    BY StepLeads
<1> QED BY <1>1, TypeInvHolds, PTL DEF Spec, CurrentLeads

-----------------------------------------------------------------------------
(***************************************************************************)
(* One process at a time implements ContextContract, the steps of module     *)
(* Lifecycle. Only the context of the distribution is looked at; while the   *)
(* file is open it counts as what the rewrite found in it. The load of a     *)
(* merge is over with the distribution's file: the user leaves that context  *)
(* alone, so that the other file says the same when it is read.              *)
(***************************************************************************)
Solo == \A p, q \in Procs : p = q

(* Where a context of installation g leads. *)
Leading(g) == IF g = 0 THEN "none" ELSE IF g = installed THEN "current" ELSE "stale"

Open == {p \in Procs : Writing(p)}

(* The installation that a process puts into the file, or finds there. *)
Taken(p) == IF distro[p] # 0 THEN distro[p]
            ELSE IF Busy(p) THEN loaded[p].own ELSE home.own

Context == Leading(IF Open = {} THEN home.own ELSE loaded[CHOOSE p \in Open : TRUE].own)
Snap    == [p \in Procs |->
              IF cmd[p] = "merge" /\ (Busy(p) \/ pc[p] = "loadHome") THEN Leading(Taken(p))
              ELSE "none"]
Doing   == [p \in Procs |->
              CASE pc[p] \in Resting      -> pc[p]
                [] pc[p] = "loadDistro"   -> "mergeLoad"
                [] pc[p] = "loadHome"     -> IF cmd[p] = "merge" THEN "mergeWrite" ELSE "removeLoad"
                [] OTHER                  -> IF cmd[p] = "merge" THEN "mergeWrite" ELSE "removeWrite"]

Contract == INSTANCE ContextContract
              WITH there <- installed # 0, ctx <- Context, does <- Doing, snap <- Snap

ContextKept == Contract!Spec

(* Installations are numbered in their order, and nobody gets between the load *)
(* of a process and its write.                                                 *)
Held ==
    /\ home.own \in 0 .. installs
    /\ \A p \in Procs :
        /\ distro[p] \in 0 .. installs /\ loaded[p].own \in 0 .. installs
        /\ pc[p] = "truncate" => home.own = loaded[p].own
        /\ pc[p] = "write" => home.own = 0

LEMMA EditsKeepOwn ==
    ASSUME TypeOK, User
    PROVE  home'.own = home.own /\ UNCHANGED <<world, pc, locals>>
<1>1. PICK n \in Others \cup {Own} : Use(n) \/ Add(n) \/ Delete(n)
  BY DEF User
<1> QED
  BY <1>1 DEF Use, Add, Delete, Edit, TypeOK, Configs

LEMMA WriteTakes ==
    ASSUME TypeOK, NEW p \in Procs, Write(p)
    PROVE  home'.own = IF cmd[p] = "merge" THEN Taken(p) ELSE 0
<1>1. home' \in Results(p) /\ pc[p] = "write"
  BY DEF Write
<1>2. CASE cmd[p] = "merge"
  BY <1>1, <1>2 DEF Results, Merged, Taken, Busy
<1>3. CASE cmd[p] # "merge"
  BY <1>1, <1>3 DEF Results, Removals
<1> QED
  BY <1>2, <1>3

LEMMA HeldInductive == ASSUME Solo PROVE TypeInv /\ Held /\ [Next]_vars => Held'
<1> SUFFICES ASSUME TypeInv, Held, [Next]_vars PROVE Held'
  OBVIOUS
<1> USE DEF TypeInv, TypeOK, Held, Solo, Goto, world, locals
<1>0. installs \in Nat
  BY KubeConfigAssumption DEF Installs
<1>1. ASSUME NEW p \in Procs, Begin(p) PROVE Held'
  BY <1>1 DEF Begin
<1>2. ASSUME NEW p \in Procs, LoadDistro(p) \/ LoadHome(p) PROVE Held'
  BY <1>2 DEF LoadDistro, LoadHome
<1>3. ASSUME NEW p \in Procs, Truncate(p) PROVE Held'
  BY <1>0, <1>3 DEF Truncate, Empty
<1>4. ASSUME NEW p \in Procs, Write(p) PROVE Held'
  <2>1. home'.own \in 0 .. installs
    BY <1>0, <1>4, WriteTakes DEF Taken
  <2> QED
    BY <1>0, <1>4, <2>1 DEF Write, Rest, Empty
<1>5. ASSUME NEW p \in Procs, Stops(p) PROVE Held'
  BY <1>0, <1>5 DEF Stops, Rest, Empty
<1>6. CASE User
  BY <1>6, EditsKeepOwn
<1>7. CASE Install
  BY <1>0, <1>7 DEF Install
<1>8. CASE Uninstall \/ UNCHANGED vars
  BY <1>8 DEF Uninstall, vars
<1> QED
  BY <1>1, <1>2, <1>3, <1>4, <1>5, <1>6, <1>7, <1>8 DEF Next, Step

LEMMA HeldCorrect == ASSUME Solo PROVE Spec => []Held
<1>1. Init => Held
  BY DEF Init, Held, Empty
<1> QED
  BY <1>1, HeldInductive, TypeInvHolds, PTL DEF Spec

(* The one process there is decides where the context is looked for. *)
LEMMA ContextOf ==
    ASSUME Solo, NEW p \in Procs
    PROVE  /\ Context = Leading(IF Writing(p) THEN loaded[p].own ELSE home.own)
           /\ Context' = (Leading(IF Writing(p) THEN loaded[p].own ELSE home.own))'
<1>1. /\ Open = IF Writing(p) THEN {p} ELSE {}
      /\ Open' = IF Writing(p)' THEN {p} ELSE {}
  BY DEF Open, Solo
<1>2. (CHOOSE q \in {p} : TRUE) = p
  OBVIOUS
<1> QED
  BY <1>1, <1>2 DEF Context

(* What is written is what the load has settled. *)
LEMMA WriteMaps ==
    ASSUME Solo, TypeInv, Held, NEW p \in Procs, Write(p)
    PROVE  Contract!Write(p)
<1> USE DEF TypeInv, TypeOK, Held, Writing, Busy
<1>1. /\ Context = Leading(loaded[p].own) /\ Context' = Leading(home'.own)
      /\ installed' = installed /\ pc' = [pc EXCEPT ![p] = "ok"]
      /\ cmd' = [cmd EXCEPT ![p] = "merge"] /\ pc[p] = "write"
  BY ContextOf DEF Write, Rest, Goto, world, Leading
<1>2. Snap[p] = IF cmd[p] = "merge" THEN Leading(Taken(p)) ELSE "none"
  BY <1>1 DEF Snap
<1>3. Context' = Snap[p]
  BY <1>1, <1>2, WriteTakes DEF Leading
<1>4. Contract!Writing(p) /\ Doing' = [Doing EXCEPT ![p] = "ok"]
  BY <1>1 DEF Contract!Writing, Doing, Solo
<1>5. Snap' = [Snap EXCEPT ![p] = "none"]
  BY <1>1 DEF Snap, Solo
<1> QED
  BY <1>1, <1>3, <1>4, <1>5 DEF Contract!Write, Contract!Goto

(* The calls of a process. *)
LEMMA CallStep ==
    ASSUME Solo, TypeInv, Held, NEW p \in Procs, Step(p)
    PROVE  \/ UNCHANGED <<installed # 0, Context, Doing, Snap>>
           \/ Contract!MergeLoad(p) \/ Contract!RemoveLoad(p) \/ Contract!Write(p)
<1> USE DEF TypeInv, TypeOK, Fresh, Held, Writing, Busy, Goto
<1>1. CASE LoadDistro(p)
  <2>1. /\ pc[p] = "loadDistro" /\ pc' = [pc EXCEPT ![p] = "loadHome"]
        /\ distro' = [distro EXCEPT ![p] = installed] /\ distro[p] = 0
        /\ UNCHANGED <<home, installed, cmd, loaded>>
    BY <1>1 DEF LoadDistro, world
  <2>2. Context = Leading(home.own) /\ Context' = Context
    BY <2>1, ContextOf DEF Leading
  <2>3. Doing[p] = "mergeLoad" /\ Doing' = [Doing EXCEPT ![p] = "mergeWrite"]
    BY <2>1 DEF Doing, Solo
  <2>4. Snap' = [Snap EXCEPT ![p] = IF installed # 0 THEN "current" ELSE Context]
    BY <2>1, <2>2 DEF Snap, Solo, Taken, Leading
  <2> QED
    BY <2>1, <2>2, <2>3, <2>4 DEF Contract!MergeLoad, Contract!Goto
<1>2. CASE LoadHome(p)
  <2>1. /\ pc[p] = "loadHome" /\ pc' = [pc EXCEPT ![p] = "truncate"]
        /\ loaded' = [loaded EXCEPT ![p] = home]
        /\ UNCHANGED <<home, installed, cmd, distro>>
    BY <1>2 DEF LoadHome, world
  <2>2. Context' = Context
    BY <2>1, ContextOf DEF Leading
  <2>3. CASE cmd[p] = "merge"
    <3>1. Doing' = Doing
      BY <2>1, <2>3 DEF Doing, Solo
    <3>2. Snap' = Snap
      BY <2>1, <2>3 DEF Snap, Solo, Taken, Leading
    <3> QED
      BY <2>1, <2>2, <3>1, <3>2
  <2>4. CASE cmd[p] # "merge"
    <3>1. Doing[p] = "removeLoad" /\ Doing' = [Doing EXCEPT ![p] = "removeWrite"]
      BY <2>1, <2>4 DEF Doing, Solo
    <3>2. Snap' = [Snap EXCEPT ![p] = "none"]
      BY <2>1, <2>4 DEF Snap, Solo
    <3> QED
      BY <2>1, <2>2, <3>1, <3>2 DEF Contract!RemoveLoad, Contract!Goto
  <2> QED
    BY <2>3, <2>4
<1>3. CASE Truncate(p)
  <2>1. /\ pc[p] = "truncate" /\ pc' = [pc EXCEPT ![p] = "write"]
        /\ UNCHANGED <<installed, cmd, distro, loaded>>
    BY <1>3 DEF Truncate, world, locals
  <2>2. Context' = Context
    BY <2>1, ContextOf DEF Leading
  <2>3. Doing' = Doing
    BY <2>1 DEF Doing, Solo
  <2>4. Snap' = Snap
    BY <2>1 DEF Snap, Solo, Taken, Leading
  <2> QED
    BY <2>1, <2>2, <2>3, <2>4
<1>4. CASE Write(p)
  BY <1>4, WriteMaps
<1> QED
  BY <1>1, <1>2, <1>3, <1>4 DEF Step

LEMMA BeginMaps ==
    ASSUME Solo, TypeInv, NEW p \in Procs, Begin(p)
    PROVE  Contract!Begin(p)
<1> USE DEF TypeInv, TypeOK, Fresh, Writing, Busy, Goto
<1>1. PICK c \in {"merge", "remove"} :
        /\ cmd' = [cmd EXCEPT ![p] = c]
        /\ pc' = [pc EXCEPT ![p] = IF c = "merge" THEN "loadDistro" ELSE "loadHome"]
  BY DEF Begin
<1>2. /\ pc[p] \in Resting /\ distro[p] = 0
      /\ UNCHANGED <<home, installed, distro, loaded>>
  BY DEF Begin, world
<1>3. Context' = Context
  BY <1>1, <1>2, ContextOf DEF Leading
<1>4. /\ Doing[p] \in {"idle", "ok"}
      /\ Doing' = [Doing EXCEPT ![p] = IF c = "merge" THEN "mergeLoad" ELSE "removeLoad"]
  BY <1>1, <1>2 DEF Doing, Solo
<1>5. Snap' = Snap
  BY <1>1, <1>2 DEF Snap, Solo
<1> QED
  BY <1>2, <1>3, <1>4, <1>5 DEF Contract!Begin, Contract!Goto

(* Stopped between the truncation and the write, it has removed the context. *)
LEMMA StopMaps ==
    ASSUME Solo, TypeInv, Held, NEW p \in Procs, Stops(p)
    PROVE  Contract!Stop(p)
<1> USE DEF TypeInv, TypeOK, Held, Writing, Busy, Goto
<1>1. /\ pc[p] \notin Resting /\ pc' = [pc EXCEPT ![p] = "idle"]
      /\ cmd' = [cmd EXCEPT ![p] = "merge"]
      /\ UNCHANGED <<home, installed>>
  BY DEF Stops, Rest, world
<1>2. Context' = Leading(home.own)
  BY <1>1, ContextOf DEF Leading
<1>3. Context' \in IF pc[p] = "write" THEN {"none"} ELSE {Context}
  BY <1>2, ContextOf DEF Leading
<1>4. /\ Doing[p] \notin {"idle", "ok"} /\ Doing' = [Doing EXCEPT ![p] = "idle"]
      /\ pc[p] = "write" => Contract!Writing(p)
  BY <1>1 DEF Doing, Solo, Contract!Writing
<1>5. Snap' = [Snap EXCEPT ![p] = "none"]
  BY <1>1 DEF Snap, Solo
<1> QED
  BY <1>1, <1>3, <1>4, <1>5 DEF Contract!Stop, Contract!Goto

(* The context is that of the file, or of the copy of the process that has it *)
(* open.                                                                     *)
LEMMA ContextFrom ==
    ASSUME Solo, UNCHANGED pc
    PROVE  \/ Context = Leading(home.own) /\ Context' = (Leading(home.own))'
           \/ \E p \in Procs : /\ Context = Leading(loaded[p].own)
                               /\ Context' = (Leading(loaded[p].own))'
<1>1. Open' = Open
  BY DEF Open, Writing
<1>2. CASE Open = {}
  BY <1>1, <1>2 DEF Context
<1>3. CASE Open # {}
  <2>1. PICK p \in Procs : Writing(p) /\ p \in Open
    BY <1>3 DEF Open
  <2>2. Writing(p)'
    BY <2>1 DEF Writing
  <2> QED
    BY <2>1, <2>2, ContextOf
<1> QED
  BY <1>2, <1>3

(* Installation and removal are of another program, and at any moment: what   *)
(* led to the distribution leads nowhere then, in the file and in every copy. *)
LEMMA AgeOf ==
    ASSUME TypeInv, NEW g \in 0 .. installs
    PROVE  /\ Install => (Leading(g))' = Leading(g)
           /\ Uninstall => (Leading(g))' = Contract!Aged(Leading(g))
<1>1. installs \in Nat
  BY KubeConfigAssumption DEF Installs, TypeInv, TypeOK
<1> QED
  BY <1>1 DEF Leading, Install, Uninstall, Contract!Aged

LEMMA InstallMaps == ASSUME Solo, TypeInv, Held, Install PROVE Contract!Install
<1> USE DEF TypeInv, TypeOK, Held
<1>1. /\ installed = 0 /\ installed' # 0
      /\ UNCHANGED <<home, pc, cmd, distro, loaded>>
  BY KubeConfigAssumption DEF Install, locals, Installs
<1>2. Context' = Context
  BY <1>1, AgeOf, ContextFrom DEF Leading
<1>3. Doing' = Doing
  BY <1>1 DEF Doing
<1>4. \A p \in Procs : Taken(p) \in 0 .. installs /\ Taken(p)' = Taken(p)
  BY <1>1 DEF Taken, Busy
<1>5. Snap' = Snap
  BY <1>1, <1>4, AgeOf DEF Snap, Busy, Leading
<1> QED
  BY <1>1, <1>2, <1>3, <1>5 DEF Contract!Install

LEMMA UninstallMaps == ASSUME Solo, TypeInv, Held, Uninstall PROVE Contract!Uninstall
<1> USE DEF TypeInv, TypeOK, Held
<1>1. /\ installed # 0 /\ installed' = 0
      /\ UNCHANGED <<home, pc, cmd, distro, loaded>>
  BY DEF Uninstall, locals
<1>2. Context' = Contract!Aged(Context)
  BY <1>1, ContextFrom DEF Leading, Contract!Aged
<1>3. Doing' = Doing
  BY <1>1 DEF Doing
<1>4. Snap' = [p \in Procs |-> Contract!Aged(Snap[p])]
  BY <1>1 DEF Snap, Busy, Taken, Leading, Contract!Aged
<1> QED
  BY <1>1, <1>2, <1>3, <1>4 DEF Contract!Uninstall

LEMMA UserMaps ==
    ASSUME Solo, TypeInv, User PROVE UNCHANGED <<installed # 0, Context, Doing, Snap>>
<1>1. home'.own = home.own /\ UNCHANGED <<installed, pc, cmd, distro, loaded>>
  BY EditsKeepOwn DEF TypeInv, world, locals
<1>2. Context' = Context
  BY <1>1, ContextFrom DEF Leading
<1>3. Doing' = Doing
  BY <1>1 DEF Doing
<1>4. Snap' = Snap
  BY <1>1 DEF Snap, Busy, Taken, Leading
<1> QED
  BY <1>1, <1>2, <1>3, <1>4

LEMMA StutterMaps ==
    ASSUME UNCHANGED vars PROVE UNCHANGED <<installed # 0, Context, Doing, Snap>>
BY DEF vars, world, locals, Context, Open, Writing, Doing, Snap, Busy, Taken, Leading

LEMMA ContextStep ==
    ASSUME Solo, TypeInv, Held, [Next]_vars PROVE [Contract!Next]_(Contract!vars)
<1>1. CASE \E p \in Procs : Begin(p)
  BY <1>1, BeginMaps DEF Contract!Next
<1>2. CASE \E p \in Procs : Step(p)
  BY <1>2, CallStep DEF Contract!Next, Contract!vars
<1>3. CASE \E p \in Procs : Stops(p)
  BY <1>3, StopMaps DEF Contract!Next
<1>4. CASE User \/ UNCHANGED vars
  BY <1>4, UserMaps, StutterMaps DEF Contract!vars
<1>5. CASE Install \/ Uninstall
  BY <1>5, InstallMaps, UninstallMaps DEF Contract!Next
<1> QED
  BY <1>1, <1>2, <1>3, <1>4, <1>5 DEF Next

(* A merge and a removal are a load that settles what will be written and a   *)
(* write, and stopped in between they leave the context as it was or none, as *)
(* module Lifecycle has it, when one process at a time is at the file: for    *)
(* the install, the removal and every edit of the user that comes in between  *)
(* (k8s.go:36-83).                                                            *)
THEOREM ContextKeptHolds == Solo => (Spec => ContextKept)
<1> SUFFICES ASSUME Solo PROVE Spec => ContextKept
  OBVIOUS
<1>1. Init => Contract!Init
  <2> SUFFICES ASSUME Init PROVE Contract!Init
    OBVIOUS
  <2>1. Open = {}
    BY DEF Init, Open, Writing
  <2> QED
    BY <2>1 DEF Init, Contract!Init, Context, Leading, Doing, Snap, Busy, Empty
<1>2. TypeInv /\ Held /\ [Next]_vars => [Contract!Next]_(Contract!vars)
  BY ContextStep
<1> QED
  BY <1>1, <1>2, TypeInvHolds, HeldCorrect, PTL DEF Spec, ContextKept, Contract!Spec

=============================================================================
