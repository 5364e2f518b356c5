------------------------------ MODULE KubeConfig ------------------------------
(***************************************************************************)
(* The user's kubeconfig file, which start and uninstall rewrite whole       *)
(* (pkg/k8s/k8s.go:36-83) for the sake of one context among the user's own.  *)
(*                                                                          *)
(* Merge and removal load, change the copy, truncate the file and write it,  *)
(* without the lock that kubectl takes: they race with each other and with   *)
(* the user, and may be killed over the truncated file. An empty or missing  *)
(* file loads as an empty configuration. kubectl, which the user edits the   *)
(* file with, and the distribution, which is installed and removed, are      *)
(* external. A context stands for its cluster and its credentials too.       *)
(***************************************************************************)
EXTENDS Naturals

CONSTANTS
    Procs,       \* kaweezle processes at the file
    Own,         \* the context of the distribution, named after it
    Others,      \* the contexts the user may have besides
    MaxInstalls  \* bound on the installations of the distribution

ASSUME KubeConfigAssumption ==
    /\ Own \notin Others
    /\ MaxInstalls \in Nat

Unset == "none"    \* current-context names nothing

Installs == 0 .. MaxInstalls

(* own is the installation that the context Own leads to, 0 without one. *)
Configs == [own : Installs, others : SUBSET Others, current : Others \cup {Own, Unset}]
Empty   == [own |-> 0, others |-> {}, current |-> Unset]

VARIABLES
    home,       \* ~/.kube/config
    installed,  \* the installation whose kubeconfig is in the distribution, or 0
    installs,   \* installations so far
    pc, cmd,    \* per process: what it does next, and for which function
    distro,     \* the distribution's kubeconfig, as it loaded it
    loaded,     \* the user's file, as it loaded it
    mine,       \* the contexts the user has made and not deleted
    spoilt      \* a rewrite was overlapped, or stopped over the truncated file

locals == <<cmd, distro, loaded>>
world  == <<installed, installs>>
vars   == <<home, world, pc, locals, mine, spoilt>>

Resting == {"idle", "ok"}    \* ok: the last function has ended well

(* Between its load and its write: what others write now it will not know. *)
Busy(p) == pc[p] \in {"truncate", "write"}

Init ==
    /\ home = Empty
    /\ installed = 0 /\ installs = 0
    /\ pc = [p \in Procs |-> "idle"]
    /\ cmd = [p \in Procs |-> "merge"]
    /\ distro = [p \in Procs |-> 0]
    /\ loaded = [p \in Procs |-> Empty]
    /\ mine = {} /\ spoilt = FALSE

Goto(p, l) == pc' = [pc EXCEPT ![p] = l]

(* A process that is done keeps nothing of what it read. *)
Rest(p, l) ==
    /\ Goto(p, l)
    /\ cmd' = [cmd EXCEPT ![p] = "merge"]
    /\ distro' = [distro EXCEPT ![p] = 0]
    /\ loaded' = [loaded EXCEPT ![p] = Empty]

-----------------------------------------------------------------------------
(* MergeKubernetesConfig loads two files, RemoveKubernetesConfig one. *)
RemoveLoadsBoth(p) ==
    /\ pc[p] \in Resting
    /\ \E c \in {"merge", "remove"} : cmd' = [cmd EXCEPT ![p] = c]
    /\ Goto(p, "loadDistro")
    /\ UNCHANGED <<home, world, distro, loaded, mine, spoilt>>

Begin(p) ==
    /\ pc[p] \in Resting
    /\ \E c \in {"merge", "remove"} :
          /\ cmd' = [cmd EXCEPT ![p] = c]
          /\ Goto(p, IF c = "merge" THEN "loadDistro" ELSE "loadHome")
    /\ UNCHANGED <<home, world, distro, loaded, mine, spoilt>>

(* A file that is missing is skipped. *)
LoadDistro(p) ==
    /\ pc[p] = "loadDistro"
    /\ distro' = [distro EXCEPT ![p] = installed]
    /\ Goto(p, "loadHome")
    /\ UNCHANGED <<home, world, cmd, loaded, mine, spoilt>>

LoadHome(p) ==
    /\ pc[p] = "loadHome"
    /\ loaded' = [loaded EXCEPT ![p] = home]
    /\ Goto(p, "truncate")
    /\ UNCHANGED <<home, world, cmd, distro, mine, spoilt>>

(* What is in both files is taken from the first, which is the distribution's: *)
(* its context, and current-context.                                           *)
UserFirst(c, g) ==
    IF g = 0 THEN c
    ELSE [c EXCEPT !.own = IF c.own = 0 THEN g ELSE c.own,
                   !.current = IF c.current = Unset THEN Own ELSE c.current]

DistroOnly(c, g) == [own |-> g, others |-> {}, current |-> Own]

Merged(c, g) == IF g = 0 THEN c ELSE [own |-> g, others |-> c.others, current |-> Own]

(* The context goes; when it was the current one, any other takes its place. *)
Removals(c) ==
    {[own |-> 0, others |-> c.others, current |-> k] :
        k \in IF c.current = Own /\ c.others # {} THEN c.others ELSE {c.current}}

Results(p) == IF cmd[p] = "merge" THEN {Merged(loaded[p], distro[p])}
                                  ELSE Removals(loaded[p])

Overlaps(p) == \E q \in Procs \ {p} : Busy(q)

(* WriteToFile opens the file with O_TRUNC, and writes. *)
Truncate(p) ==
    /\ pc[p] = "truncate"
    /\ home' = Empty
    /\ spoilt' = (spoilt \/ Overlaps(p))
    /\ Goto(p, "write")
    /\ UNCHANGED <<world, locals, mine>>

Write(p) ==
    /\ pc[p] = "write"
    /\ home' \in Results(p)
    /\ spoilt' = (spoilt \/ Overlaps(p))
    /\ Rest(p, "ok")
    /\ UNCHANGED <<world, mine>>

(* A load, the opening or the write fails, or the process is killed. *)
Stops(p) ==
    /\ pc[p] \notin Resting
    /\ Rest(p, "idle")
    /\ spoilt' = (spoilt \/ pc[p] = "write")
    /\ UNCHANGED <<home, world, mine>>

-----------------------------------------------------------------------------
(* The user edits the file with kubectl, which does it in one step. *)
Edit(c, m) ==
    /\ home' = c /\ mine' = m
    /\ spoilt' = (spoilt \/ \E p \in Procs : Busy(p))
    /\ UNCHANGED <<world, pc, locals>>

Add(n)    == /\ n \notin home.others
             /\ \E k \in {n, home.current} :
                   Edit([own |-> home.own, others |-> home.others \cup {n}, current |-> k],
                        mine \cup {n})
Delete(n) == /\ n \in home.others
             /\ Edit([home EXCEPT !.others = @ \ {n}], mine \ {n})
Use(n)    == /\ n \in home.others \/ (n = Own /\ home.own # 0)
             /\ Edit([home EXCEPT !.current = n], mine)

(* The distribution is installed, with new credentials, or removed. *)
Install ==
    /\ installed = 0 /\ installs < MaxInstalls
    /\ installs' = installs + 1 /\ installed' = installs + 1
    /\ UNCHANGED <<home, pc, locals, mine, spoilt>>

Uninstall ==
    /\ installed # 0 /\ installed' = 0
    /\ UNCHANGED <<home, installs, pc, locals, mine, spoilt>>

Step(p) == LoadDistro(p) \/ LoadHome(p) \/ Truncate(p) \/ Write(p)

User == \E n \in Others \cup {Own} : Use(n) \/ (n \in Others /\ (Add(n) \/ Delete(n)))

Next == \/ \E p \in Procs : Begin(p) \/ Step(p) \/ Stops(p)
        \/ User \/ Install \/ Uninstall

Spec == Init /\ [][Next]_vars

-----------------------------------------------------------------------------
(* Every variable has a value of its kind, and only a merge is at the         *)
(* distribution's file.                                                       *)
TypeOK ==
    /\ home \in Configs /\ loaded \in [Procs -> Configs]
    /\ installs \in Installs /\ installed \in 0 .. installs
    /\ pc \in [Procs -> Resting \cup {"loadDistro", "loadHome", "truncate", "write"}]
    /\ cmd \in [Procs -> {"merge", "remove"}]
    /\ distro \in [Procs -> Installs]
    /\ mine \subseteq Others /\ spoilt \in BOOLEAN
    /\ \A p \in Procs : distro[p] # 0 \/ pc[p] = "loadDistro" => cmd[p] = "merge"

(* The user's contexts survive every start and uninstall: they are in the     *)
(* file exactly as he made them, unless a rewrite was overlapped by another   *)
(* writer, or killed, or failed, over the truncated file (k8s.go:49-78).      *)
UserKept == ~spoilt /\ (\A p \in Procs : pc[p] # "write") => home.others = mine

(* After a rewrite kubectl is left with a current context that exists, when   *)
(* it had one and any context is left; after a merge it is the distribution   *)
(* that is installed now, also when the file knew an earlier one of the name. *)
(* (k8s.go:38-40, 68-73)                                                      *)
Leads(c) == \/ c.current = Unset \/ c.current \in c.others
            \/ c.current = Own /\ c.own # 0
NothingLeft(c) == c.own = 0 /\ c.others = {}
RewriteLeads ==
    \A p \in Procs : pc[p] = "write" /\ pc'[p] = "ok" =>
        /\ Leads(loaded[p]) => Leads(home') \/ NothingLeft(home')
        /\ cmd[p] = "merge" /\ installed # 0 /\ distro[p] = installed
               => home'.current = Own /\ home'.own = installed
CurrentLeads == [][RewriteLeads]_vars

=============================================================================
