----------------------------- MODULE DistroConfig -----------------------------
(***************************************************************************)
(* What start and configure put in the distribution: the age and ssh keys,   *)
(* the known hosts, and two lines of iknite's conf file                      *)
(* (pkg/config/configure.go, pkg/wsl/wsl.go:206-221 and 283-317). The calls  *)
(* for the route and the domain names are in Elevated.                       *)
(*                                                                          *)
(* A file is written by a shell in the distribution, which opens it, writes  *)
(* it and reports the status of its last command. The conf file is filtered  *)
(* into itself: the filter reads it in one goroutine while another opens it  *)
(* for writing, so it finds all of it or nothing.                            *)
(* Conf is a set of lines; a line may be in the file twice after a race.     *)
(*                                                                          *)
(* Nothing keeps uninstall and start from removing the distribution and      *)
(* installing it again beside a command that configures it.                  *)
(***************************************************************************)
CONSTANTS
    Procs,   \* kaweezle processes
    Urls,    \* kustomize urls the user may ask for
    Plans    \* the sets of tasks that commands are given

Tasks == {"age", "ssh", "kustomize", "hosts"}

ASSUME DistroConfigAssumption ==
    /\ Urls \cap {"age", "other", "none"} = {}
    /\ Plans \subseteq SUBSET Tasks
    /\ {} \notin Plans

(* Configure does what it is asked in this order. *)
First(T) == IF "age" \in T THEN "age"
            ELSE IF "ssh" \in T THEN "ssh"
            ELSE IF "kustomize" \in T THEN "kustomize" ELSE "hosts"

Lines == {"age", "other"} \cup Urls

(* begun was opened where there was no whole file, torn where there was one. *)
Contents == {"none", "begun", "torn", "whole"}

VARIABLES
    conf,    \* the lines of /etc/conf.d/iknite
    files,   \* the age key, the ssh key and known_hosts in the distribution
    at,      \* per process: the call it is at
    todo,    \* per process: the tasks left, the current one included
    url,     \* per process: the kustomize url it was given, if any
    buf,     \* per process: the lines that passed its filter
    crossed, \* a command had the export when the distribution was last replaced
    excused, \* per process: another one was at work, or a failure was hidden
    asked,   \* per process: the tasks it was given, unless excused
    found    \* per process: the lines but urls at its begin, unless excused

locals == <<at, todo, url, buf>>
record == <<excused, asked, found>>
vars   == <<conf, files, crossed, locals, record>>

Resting == {"idle", "ok"}
Busy(p) == at[p] \notin Resting

Init ==
    /\ conf = {"other"}
    /\ files = [t \in Tasks \ {"kustomize"} |-> "none"]
    /\ at = [p \in Procs |-> "idle"]
    /\ todo = [p \in Procs |-> {}]
    /\ url = [p \in Procs |-> "none"]
    /\ buf = [p \in Procs |-> {}]
    /\ crossed = "no"
    /\ excused = [p \in Procs |-> FALSE]
    /\ asked = [p \in Procs |-> {}]
    /\ found = [p \in Procs |-> {}]

Task(p) == First(todo[p])

AtConf(p) == at[p] \in {"filter", "rewrite", "append"}

At(p, l) == at' = [at EXCEPT ![p] = l]

(* The process goes on with its next task, or has ended well. *)
Proceed(p, T) ==
    /\ todo' = [todo EXCEPT ![p] = T]
    /\ At(p, IF T = {} THEN "ok" ELSE IF First(T) = "kustomize" THEN "filter" ELSE "open")

TaskDone(p) == Proceed(p, todo[p] \ {Task(p)})

Excuse(P) ==
    /\ excused' = [q \in Procs |-> q \in P \/ excused[q]]
    /\ asked' = [q \in Procs |-> IF q \in P THEN {} ELSE asked[q]]
    /\ found' = [q \in Procs |-> IF q \in P THEN {} ELSE found[q]]

(* The process is over, and what it knew is gone. *)
Over(p) ==
    /\ At(p, "idle")
    /\ todo' = [todo EXCEPT ![p] = {}]
    /\ url' = [url EXCEPT ![p] = "none"]
    /\ buf' = [buf EXCEPT ![p] = {}]
    /\ excused' = [excused EXCEPT ![p] = FALSE]
    /\ asked' = [asked EXCEPT ![p] = {}]
    /\ found' = [found EXCEPT ![p] = {}]

-----------------------------------------------------------------------------
(* A command begins; a key file that is not there is not asked for. *)
Begin(p) ==
    /\ at[p] = "idle"
    /\ \E T \in Plans, u \in Urls :
          LET others == {q \in Procs \ {p} : Busy(q)} IN
          /\ Proceed(p, T)
          /\ url' = [url EXCEPT ![p] = IF "kustomize" \in T THEN u ELSE "none"]
          /\ IF others = {}
             THEN /\ asked' = [asked EXCEPT ![p] = T]
                  /\ found' = [found EXCEPT ![p] = conf \ Urls]
                  /\ UNCHANGED excused
             ELSE Excuse(others \cup {p})
    /\ UNCHANGED <<conf, files, buf>>

(* CopyFileToDistribution and the script of AddSshHosts: the shell opens the  *)
(* file, but known_hosts only where there is none.                            *)
Kept(t) == t = "hosts" /\ files[t] # "none"

OpenFile(p) ==
    /\ at[p] = "open" /\ ~Kept(Task(p))
    /\ files' = [files EXCEPT ![Task(p)] = IF @ \in {"whole", "torn"} THEN "torn" ELSE "begun"]
    /\ At(p, "fill")
    /\ UNCHANGED <<conf, todo, url, buf, record>>

KeepFile(p) ==
    /\ at[p] = "open" /\ Kept(Task(p))
    /\ TaskDone(p)
    /\ UNCHANGED <<conf, files, url, buf, record>>

(* The key is there; only for the age key does the conf file have to know. *)
EveryKeyFiltered(p) == At(p, "filter") /\ UNCHANGED todo

AfterFile(p) == IF Task(p) = "age" THEN At(p, "filter") /\ UNCHANGED todo
                                   ELSE TaskDone(p)

FillFile(p) ==
    /\ at[p] = "fill"
    /\ files' = [files EXCEPT ![Task(p)] = "whole"]
    /\ AfterFile(p)
    /\ UNCHANGED <<conf, url, buf, record>>

(* The shell of the age key ends with cat, the others with a chmod that ends  *)
(* well on what cat or ssh-keyscan left.                                      *)
ReportedForNone(t) == FALSE
Reported(t) == t = "age"

FillFails(p) ==
    /\ at[p] = "fill" /\ ~Reported(Task(p))
    /\ Excuse({p})
    /\ AfterFile(p)
    /\ UNCHANGED <<conf, files, url, buf>>

(* The lines that the filter of a task rejects. *)
AllExports(t) == {"age"} \cup Urls
Rejected(t) == IF t = "age" THEN {"age"} ELSE Urls

FilterConf(p) ==
    /\ at[p] = "filter"
    /\ \E read \in {conf, {}} :
          /\ buf' = [buf EXCEPT ![p] = read \ Rejected(Task(p))]
          /\ IF read = conf THEN UNCHANGED record ELSE Excuse({p})
    /\ conf' = {}
    /\ At(p, "rewrite")
    /\ UNCHANGED <<files, todo, url>>

(* The filter fails, before or after the truncation; its error is dropped. *)
FilterFails(p) ==
    /\ at[p] = "filter"
    /\ conf' \in {conf, {}}
    /\ Excuse({p})
    /\ At(p, "append")
    /\ UNCHANGED <<files, todo, url, buf>>

(* What another process has put there is overwritten, or stays behind it. *)
RewriteConf(p) ==
    /\ at[p] = "rewrite"
    /\ \E rest \in {{}, conf} : conf' = buf[p] \cup rest
    /\ buf' = [buf EXCEPT ![p] = {}]
    /\ At(p, "append")
    /\ UNCHANGED <<files, todo, url, record>>

(* The rewrite fails, maybe after a part; this error is dropped too. *)
RewriteFails(p) ==
    /\ at[p] = "rewrite"
    /\ \E part \in SUBSET buf[p] : conf' = conf \cup part
    /\ buf' = [buf EXCEPT ![p] = {}]
    /\ Excuse({p})
    /\ At(p, "append")
    /\ UNCHANGED <<files, todo, url>>

AppendLine(p) ==
    /\ at[p] = "append"
    /\ conf' = conf \cup {IF Task(p) = "age" THEN "age" ELSE url[p]}
    /\ TaskDone(p)
    /\ UNCHANGED <<files, url, buf, record>>

(* wsl, the copy or the append fails. Every command reports it but configure, *)
(* which ends well.                                                           *)
Fails(p) ==
    /\ \/ at[p] \in {"open", "cut", "append"}
       \/ at[p] = "fill" /\ Reported(Task(p))
    /\ \/ Over(p)
       \/ /\ Proceed(p, {})
          /\ Excuse({p})
          /\ UNCHANGED <<url, buf>>
    /\ UNCHANGED <<conf, files>>

Killed(p) ==
    /\ Busy(p)
    /\ Over(p)
    /\ UNCHANGED <<conf, files>>

Exit(p) ==
    /\ at[p] = "ok"
    /\ Over(p)
    /\ UNCHANGED <<conf, files>>

(* The command is to write the export of the age key, or has it in its filter. *)
HasExport(p) == (AtConf(p) /\ Task(p) = "age") \/ "age" \in buf[p]

(* The distribution is removed and installed again, and takes the shells in it *)
(* with it. What a command does next it does to the new one.                   *)
Reinstall ==
    /\ conf' = {"other"}
    /\ files' = [t \in DOMAIN files |-> "none"]
    /\ at' = [p \in Procs |-> IF at[p] = "fill" THEN "cut" ELSE at[p]]
    /\ crossed' = IF \E p \in Procs : HasExport(p) THEN "yes" ELSE "no"
    /\ Excuse({p \in Procs : Busy(p)})
    /\ UNCHANGED <<todo, url, buf>>

Step(p) == \/ OpenFile(p) \/ KeepFile(p) \/ FillFile(p) \/ FillFails(p)
           \/ FilterConf(p) \/ FilterFails(p) \/ RewriteConf(p) \/ RewriteFails(p)
           \/ AppendLine(p)

Next == \/ /\ \E p \in Procs : Begin(p) \/ Step(p) \/ Fails(p) \/ Killed(p) \/ Exit(p)
           /\ UNCHANGED crossed
        \/ Reinstall

Spec == Init /\ [][Next]_vars

-----------------------------------------------------------------------------
Calls == {"open", "fill", "cut", "filter", "rewrite", "append"}

(* Every variable has a value of its kind, and only the tasks that write a    *)
(* line are at the conf file.                                                 *)
TypeOK ==
    /\ conf \subseteq Lines
    /\ files \in [Tasks \ {"kustomize"} -> Contents]
    /\ at \in [Procs -> Resting \cup Calls]
    /\ todo \in [Procs -> SUBSET Tasks]
    /\ url \in [Procs -> Urls \cup {"none"}]
    /\ crossed \in {"no", "yes"}
    /\ excused \in [Procs -> BOOLEAN]
    /\ buf \in [Procs -> SUBSET Lines]
    /\ asked \in [Procs -> SUBSET Tasks]
    /\ found \in [Procs -> SUBSET {"age", "other"}]
    /\ \A p \in Procs :
          /\ Busy(p) <=> todo[p] # {}
          /\ AtConf(p) => Task(p) \in {"age", "kustomize"}
          /\ at[p] \in {"open", "fill", "cut"} => Task(p) # "kustomize"

(* iknite is never told of a key that was not copied: the export is in the    *)
(* conf file only after a whole key was in its place, whatever processes do   *)
(* it together, wherever they fail or are killed, and whenever the            *)
(* distribution is replaced, unless a command had the export then, between    *)
(* the copy of the key and the append of its line (configure.go:37-45).       *)
KeyBeforeExport ==
    crossed = "no" /\ "age" \in conf => files["age"] \in {"whole", "torn"}

(* A command that nobody disturbs and that ends well has set what it was      *)
(* asked, whatever earlier ones left, and has kept the other lines of the     *)
(* conf file; unless its filter found the file truncated, or a shell or       *)
(* configure hid a failure. (configure.go:32-92, wsl.go:307)                  *)
SetsAndKeeps(p) ==
    /\ "age" \in asked[p] => "age" \in conf' /\ files'["age"] = "whole"
    /\ "ssh" \in asked[p] => files'["ssh"] = "whole"
    /\ "kustomize" \in asked[p] => conf' \cap Urls = {url[p]}
    /\ "hosts" \in asked[p] => files'["hosts"] # "none"
    /\ found[p] \subseteq conf'

Success == \A p \in Procs :
    at[p] # "ok" /\ at'[p] = "ok" /\ ~excused'[p] => SetsAndKeeps(p)

SuccessSets == [][Success]_vars

=============================================================================
