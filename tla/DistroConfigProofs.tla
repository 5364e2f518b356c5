-------------------------- MODULE DistroConfigProofs --------------------------
(***************************************************************************)
(* What holds of the configuration of the distribution for any number of     *)
(* processes and urls. That an undisturbed command has done what it was      *)
(* asked needs the invariant OnCourse, which says of every command that is   *)
(* not excused what it has done so far; the conf file and the buffer of its  *)
(* filter together hold the lines that count.                                *)
(***************************************************************************)
EXTENDS DistroConfig, TLAPS

(* A buffer is kept between the filter and the rewrite only, and a command    *)
(* with the task kustomize has a url.                                         *)
Shape ==
    \A p \in Procs :
        /\ at[p] # "rewrite" => buf[p] = {}
        /\ "kustomize" \in todo[p] => url[p] \in Urls

TypeInv == TypeOK /\ Shape

USE DEF Resting, Busy, Calls, Contents

LEMMA FirstIsIn ==
    ASSUME NEW T \in SUBSET Tasks, T # {}
    PROVE  First(T) \in T
BY DEF First, Tasks

(* The state a task is begun in is one of its first call. *)
LEMMA ProceedType ==
    ASSUME TypeInv, NEW p \in Procs, NEW T \in SUBSET Tasks, Proceed(p, T),
           url' \in [Procs -> Urls \cup {"none"}], "kustomize" \in T => url'[p] \in Urls,
           \A q \in Procs \ {p} : url'[q] = url[q],
           buf' = buf, at[p] # "rewrite"
    PROVE  /\ at' \in [Procs -> Resting \cup Calls]
           /\ todo' \in [Procs -> SUBSET Tasks]
           /\ \A q \in Procs :
                 /\ Busy(q)' <=> todo'[q] # {}
                 /\ AtConf(q)' => Task(q)' \in {"age", "kustomize"}
                 /\ at'[q] \in {"open", "fill", "cut"} => Task(q)' # "kustomize"
           /\ Shape'
<1> USE DEF TypeInv, TypeOK, Proceed, At
<1>1. /\ at' \in [Procs -> Resting \cup Calls]
      /\ todo' \in [Procs -> SUBSET Tasks]
    OBVIOUS
<1>2. ASSUME NEW q \in Procs
      PROVE  /\ Busy(q)' <=> todo'[q] # {}
             /\ AtConf(q)' => Task(q)' \in {"age", "kustomize"}
             /\ at'[q] \in {"open", "fill", "cut"} => Task(q)' # "kustomize"
    <2>1. CASE q = p
        BY <2>1 DEF Task, AtConf
    <2>2. CASE q # p
        BY <2>2 DEF Task, AtConf
    <2> QED BY <2>1, <2>2
<1>3. Shape'
    BY DEF Shape
<1> QED BY <1>1, <1>2, <1>3

LEMMA ExcuseType ==
    ASSUME TypeInv, NEW P \in SUBSET Procs, Excuse(P)
    PROVE  /\ excused' \in [Procs -> BOOLEAN]
           /\ asked' \in [Procs -> SUBSET Tasks]
           /\ found' \in [Procs -> SUBSET {"age", "other"}]
BY DEF TypeInv, TypeOK, Excuse

LEMMA TypeInit == Init => TypeInv
BY DEF Init, TypeInv, TypeOK, Shape, Lines, Tasks, AtConf

LEMMA OverType ==
    ASSUME TypeInv, NEW p \in Procs, Over(p), UNCHANGED <<conf, files>>,
           crossed' \in {"no", "yes"}
    PROVE  TypeInv'
<1> USE DEF TypeInv, TypeOK, Over, At
<1>1. TypeOK'
    BY DEF Task, AtConf
<1>2. Shape'
    BY DEF Shape
<1> QED BY <1>1, <1>2

LEMMA TypeStep == TypeInv /\ [Next]_vars => TypeInv'
<1> SUFFICES ASSUME TypeInv, [Next]_vars PROVE TypeInv'
    OBVIOUS
<1> USE DEF TypeInv
<1>c. crossed' \in {"no", "yes"}
    BY DEF Next, Reinstall, vars, TypeOK
<1>0. ASSUME NEW p \in Procs, todo[p] # {}
      PROVE  Task(p) \in todo[p] /\ Task(p) \in Tasks /\ todo[p] \ {Task(p)} \in SUBSET Tasks
    BY <1>0, FirstIsIn DEF TypeOK, Task
<1>1. ASSUME NEW p \in Procs, Begin(p) PROVE TypeInv'
    <2>1. PICK T \in Plans, u \in Urls :
              /\ Proceed(p, T)
              /\ url' = [url EXCEPT ![p] = IF "kustomize" \in T THEN u ELSE "none"]
              /\ \/ /\ asked' = [asked EXCEPT ![p] = T]
                    /\ found' = [found EXCEPT ![p] = conf \ Urls]
                    /\ UNCHANGED excused
                 \/ Excuse({q \in Procs \ {p} : Busy(q)} \cup {p})
        BY <1>1 DEF Begin
    <2>2. /\ url' \in [Procs -> Urls \cup {"none"}]
          /\ "kustomize" \in T => url'[p] \in Urls
          /\ \A q \in Procs \ {p} : url'[q] = url[q]
        BY <2>1 DEF TypeOK
    <2>3. buf' = buf /\ conf' = conf /\ files' = files /\ at[p] # "rewrite"
        BY <1>1 DEF Begin
    <2>4. /\ excused' \in [Procs -> BOOLEAN]
          /\ asked' \in [Procs -> SUBSET Tasks]
          /\ found' \in [Procs -> SUBSET {"age", "other"}]
        <3>1. CASE /\ asked' = [asked EXCEPT ![p] = T]
                   /\ found' = [found EXCEPT ![p] = conf \ Urls]
                   /\ UNCHANGED excused
            BY <2>1, <3>1, DistroConfigAssumption DEF TypeOK, Lines
        <3>2. CASE Excuse({q \in Procs \ {p} : Busy(q)} \cup {p})
            <4>1. {q \in Procs \ {p} : Busy(q)} \cup {p} \in SUBSET Procs
                OBVIOUS
            <4> QED BY <3>2, <4>1, ExcuseType
        <3> QED BY <2>1, <3>1, <3>2
    <2>5. T \in SUBSET Tasks /\ Proceed(p, T)
        BY <2>1, DistroConfigAssumption
    <2>6. /\ at' \in [Procs -> Resting \cup Calls]
          /\ todo' \in [Procs -> SUBSET Tasks]
          /\ \A q \in Procs :
                /\ Busy(q)' <=> todo'[q] # {}
                /\ AtConf(q)' => Task(q)' \in {"age", "kustomize"}
                /\ at'[q] \in {"open", "fill", "cut"} => Task(q)' # "kustomize"
          /\ Shape'
        BY <2>2, <2>3, <2>5, ProceedType
    <2> QED BY <1>c, <2>2, <2>3, <2>4, <2>6 DEF TypeOK, AtConf
(* A task is done: what is left to show is what conf and files are. *)
<1>2. ASSUME NEW p \in Procs, TaskDone(p), at[p] # "rewrite", todo[p] # {}, UNCHANGED <<url, buf>>,
             UNCHANGED record \/ Excuse({p}),
             conf' \subseteq Lines, files' \in [Tasks \ {"kustomize"} -> Contents]
      PROVE  TypeInv'
    <2>1. /\ at' \in [Procs -> Resting \cup Calls]
          /\ todo' \in [Procs -> SUBSET Tasks]
          /\ \A q \in Procs :
                /\ Busy(q)' <=> todo'[q] # {}
                /\ AtConf(q)' => Task(q)' \in {"age", "kustomize"}
                /\ at'[q] \in {"open", "fill", "cut"} => Task(q)' # "kustomize"
          /\ Shape'
        <3>1. "kustomize" \in todo[p] \ {Task(p)} => url'[p] \in Urls
            BY <1>2 DEF Shape
        <3>2. url' \in [Procs -> Urls \cup {"none"}] /\ \A q \in Procs \ {p} : url'[q] = url[q]
            BY <1>2 DEF TypeOK
        <3> QED BY <1>0, <1>2, <3>1, <3>2, ProceedType DEF TaskDone
    <2>2. /\ excused' \in [Procs -> BOOLEAN]
          /\ asked' \in [Procs -> SUBSET Tasks]
          /\ found' \in [Procs -> SUBSET {"age", "other"}]
        BY <1>2, ExcuseType DEF record, TypeOK
    <2> QED BY <1>c, <1>2, <2>1, <2>2 DEF TypeOK, AtConf
(* A call of the same task follows. *)
<1>3. ASSUME NEW p \in Procs, NEW l \in Calls, At(p, l), UNCHANGED <<todo, url>>,
             Busy(p), l = "fill" => Task(p) # "kustomize", l \notin {"open", "cut"},
             l # "fill" => Task(p) \in {"age", "kustomize"},
             buf' \in [Procs -> SUBSET Lines], l # "rewrite" => buf'[p] = {},
             \A q \in Procs \ {p} : buf'[q] = buf[q],
             UNCHANGED record \/ Excuse({p}),
             conf' \subseteq Lines, files' \in [Tasks \ {"kustomize"} -> Contents]
      PROVE  TypeInv'
    <2>1. /\ excused' \in [Procs -> BOOLEAN]
          /\ asked' \in [Procs -> SUBSET Tasks]
          /\ found' \in [Procs -> SUBSET {"age", "other"}]
        BY <1>3, ExcuseType DEF record, TypeOK
    <2>2. /\ at' \in [Procs -> Resting \cup Calls]
          /\ \A q \in Procs :
                /\ Busy(q)' <=> todo'[q] # {}
                /\ AtConf(q)' => Task(q)' \in {"age", "kustomize"}
                /\ at'[q] \in {"open", "fill", "cut"} => Task(q)' # "kustomize"
        BY <1>3 DEF TypeOK, At, Task, AtConf
    <2>3. Shape'
        BY <1>3 DEF Shape, At, TypeOK
    <2> QED BY <1>c, <1>3, <2>1, <2>2, <2>3 DEF TypeOK, AtConf
<1>4. ASSUME NEW p \in Procs, OpenFile(p) PROVE TypeInv'
    <2>1. todo[p] # {} /\ Task(p) # "kustomize"
        BY <1>4 DEF OpenFile, TypeOK
    <2>2. files' \in [Tasks \ {"kustomize"} -> Contents]
        BY <1>4 DEF OpenFile, TypeOK
    <2>3. buf' = buf /\ buf[p] = {}
        BY <1>4 DEF OpenFile, Shape
    <2> QED BY <1>3, <1>4, <2>1, <2>2, <2>3 DEF OpenFile, TypeOK
<1>5. ASSUME NEW p \in Procs, KeepFile(p) PROVE TypeInv'
    <2>1. todo[p] # {}
        BY <1>5 DEF KeepFile, TypeOK
    <2> QED BY <1>2, <1>5, <2>1 DEF KeepFile, TypeOK
<1>6. ASSUME NEW p \in Procs, FillFile(p) \/ FillFails(p) PROVE TypeInv'
    <2>1. todo[p] # {} /\ Task(p) # "kustomize" /\ at[p] = "fill"
        BY <1>6 DEF FillFile, FillFails, TypeOK
    <2>2. files' \in [Tasks \ {"kustomize"} -> Contents] /\ conf' \subseteq Lines
        BY <1>6 DEF FillFile, FillFails, TypeOK
    <2>3. buf' = buf /\ url' = url /\ buf[p] = {} /\ (UNCHANGED record \/ Excuse({p}))
        BY <1>6, <2>1 DEF FillFile, FillFails, Shape
    <2>4. CASE Task(p) = "age"
        <3>1. At(p, "filter") /\ UNCHANGED todo
            BY <1>6, <2>4 DEF FillFile, FillFails, AfterFile
        <3> QED BY <1>3, <2>1, <2>2, <2>3, <2>4, <3>1 DEF TypeOK
    <2>5. CASE Task(p) # "age"
        <3>1. TaskDone(p)
            BY <1>6, <2>5 DEF FillFile, FillFails, AfterFile
        <3> QED BY <1>2, <2>1, <2>2, <2>3, <3>1
    <2> QED BY <2>4, <2>5
<1>7. ASSUME NEW p \in Procs, FilterConf(p) PROVE TypeInv'
    <2>1. buf' \in [Procs -> SUBSET Lines] /\ \A q \in Procs \ {p} : buf'[q] = buf[q]
        BY <1>7 DEF FilterConf, TypeOK
    <2>2. Task(p) \in {"age", "kustomize"} /\ conf' \subseteq Lines
        BY <1>7 DEF FilterConf, TypeOK, AtConf
    <2>3. UNCHANGED record \/ Excuse({p})
        BY <1>7 DEF FilterConf
    <2> QED BY <1>3, <1>7, <2>1, <2>2, <2>3 DEF FilterConf, TypeOK
<1>8. ASSUME NEW p \in Procs, FilterFails(p) PROVE TypeInv'
    <2>1. Task(p) \in {"age", "kustomize"} /\ conf' \subseteq Lines /\ buf' = buf /\ buf[p] = {}
        BY <1>8 DEF FilterFails, TypeOK, Shape, AtConf
    <2> QED BY <1>3, <1>8, <2>1 DEF FilterFails, TypeOK
<1>9. ASSUME NEW p \in Procs, RewriteConf(p) PROVE TypeInv'
    <2>1. Task(p) \in {"age", "kustomize"} /\ conf' \subseteq Lines
        BY <1>9 DEF RewriteConf, TypeOK, AtConf
    <2>2. buf' \in [Procs -> SUBSET Lines] /\ buf'[p] = {} /\ \A q \in Procs \ {p} : buf'[q] = buf[q]
        BY <1>9 DEF RewriteConf, TypeOK
    <2> QED BY <1>3, <1>9, <2>1, <2>2 DEF RewriteConf, TypeOK
<1>9a. ASSUME NEW p \in Procs, RewriteFails(p) PROVE TypeInv'
    <2>1. Task(p) \in {"age", "kustomize"} /\ conf' \subseteq Lines
        BY <1>9a DEF RewriteFails, TypeOK, AtConf
    <2>2. buf' \in [Procs -> SUBSET Lines] /\ buf'[p] = {} /\ \A q \in Procs \ {p} : buf'[q] = buf[q]
        BY <1>9a DEF RewriteFails, TypeOK
    <2> QED BY <1>3, <1>9a, <2>1, <2>2 DEF RewriteFails, TypeOK
<1>10. ASSUME NEW p \in Procs, AppendLine(p) PROVE TypeInv'
    <2>1. todo[p] # {} /\ Task(p) \in {"age", "kustomize"} /\ at[p] = "append"
        BY <1>10 DEF AppendLine, TypeOK, AtConf
    <2>2. Task(p) = "kustomize" => url[p] \in Urls
        BY <1>0, <2>1 DEF Shape
    <2>3. conf' \subseteq Lines
        BY <1>10, <2>1, <2>2 DEF AppendLine, TypeOK, Lines
    <2> QED BY <1>2, <1>10, <2>1, <2>3 DEF AppendLine, TypeOK
<1>11. ASSUME NEW p \in Procs, Fails(p) PROVE TypeInv'
    <2>1. CASE Over(p)
        BY <1>c, <1>11, <2>1, OverType DEF Fails
    <2>2. CASE Proceed(p, {}) /\ Excuse({p}) /\ UNCHANGED <<url, buf>>
        <3>1. at[p] # "rewrite" /\ UNCHANGED <<conf, files>>
            BY <1>11 DEF Fails
        <3>2. url' \in [Procs -> Urls \cup {"none"}] /\ \A q \in Procs \ {p} : url'[q] = url[q]
            BY <2>2 DEF TypeOK
        <3>3. /\ at' \in [Procs -> Resting \cup Calls]
              /\ todo' \in [Procs -> SUBSET Tasks]
              /\ \A q \in Procs :
                    /\ Busy(q)' <=> todo'[q] # {}
                    /\ AtConf(q)' => Task(q)' \in {"age", "kustomize"}
                    /\ at'[q] \in {"open", "fill", "cut"} => Task(q)' # "kustomize"
              /\ Shape'
            BY <2>2, <3>1, <3>2, ProceedType
        <3>4. /\ excused' \in [Procs -> BOOLEAN]
              /\ asked' \in [Procs -> SUBSET Tasks]
              /\ found' \in [Procs -> SUBSET {"age", "other"}]
            BY <2>2, ExcuseType
        <3> QED BY <1>c, <2>2, <3>1, <3>3, <3>4 DEF TypeOK, AtConf
    <2> QED BY <1>11, <2>1, <2>2 DEF Fails
<1>12. ASSUME NEW p \in Procs, Killed(p) \/ Exit(p) PROVE TypeInv'
    BY <1>c, <1>12, OverType DEF Killed, Exit
<1>13. CASE Reinstall
    <2>1. /\ excused' \in [Procs -> BOOLEAN]
          /\ asked' \in [Procs -> SUBSET Tasks]
          /\ found' \in [Procs -> SUBSET {"age", "other"}]
        BY <1>13, ExcuseType DEF Reinstall
    <2>2. /\ at' \in [Procs -> Resting \cup Calls]
          /\ \A q \in Procs :
                /\ Busy(q)' <=> todo'[q] # {}
                /\ AtConf(q)' => Task(q)' \in {"age", "kustomize"}
                /\ at'[q] \in {"open", "fill", "cut"} => Task(q)' # "kustomize"
                /\ at'[q] # "rewrite" => buf'[q] = {}
        BY <1>13 DEF Reinstall, TypeOK, Shape, Task, AtConf
    <2> QED BY <1>c, <1>13, <2>1, <2>2 DEF Reinstall, TypeOK, Shape, Lines
<1>14. CASE UNCHANGED vars
    BY <1>14 DEF vars, TypeOK, Shape, locals, record, Task, AtConf
<1> QED
    BY <1>1, <1>4, <1>5, <1>6, <1>7, <1>8, <1>9, <1>9a, <1>10, <1>11, <1>12, <1>13, <1>14
    DEF Next, Step

LEMMA TypeInvHolds == Spec => []TypeInv
<1>1. QED BY TypeInit, TypeStep, PTL DEF Spec

(* Type correctness: the tasks that write no line are never at the conf file  *)
(* (configure.go:32-92).                                                      *)
THEOREM TypeCorrect == Spec => []TypeOK
<1>1. TypeInv => TypeOK
    BY DEF TypeInv
<1> QED BY <1>1, TypeInvHolds, PTL

-----------------------------------------------------------------------------
(* A whole age key is, or was, in its place. *)
HasKey == files["age"] \in {"whole", "torn"}

(* There is one wherever the export is, has passed a filter, or is to come; *)
Placed == /\ "age" \in conf => HasKey
          /\ \A p \in Procs : "age" \in buf[p] => HasKey
          /\ \A p \in Procs : AtConf(p) /\ Task(p) = "age" => HasKey

(* unless a command had the export when the distribution was replaced.       *)
Keyed == crossed = "no" => Placed

LEMMA KeyedInit == Init => Keyed
BY DEF Init, Keyed, Placed, AtConf

(* A key that is there goes only with the distribution. *)
LEMMA KeyStays ==
    ASSUME TypeInv, NEW p \in Procs, Begin(p) \/ Step(p) \/ Fails(p) \/ Killed(p) \/ Exit(p), HasKey
    PROVE  HasKey'
<1>1. CASE OpenFile(p)
    BY <1>1 DEF OpenFile, HasKey, TypeInv, TypeOK
<1>2. CASE FillFile(p)
    BY <1>2 DEF FillFile, HasKey, TypeInv, TypeOK
<1>3. CASE UNCHANGED files
    BY <1>3 DEF HasKey
<1> QED BY <1>1, <1>2, <1>3 DEF Begin, Step, KeepFile, FillFails, FilterConf, FilterFails,
             RewriteConf, RewriteFails, AppendLine, Fails, Killed, Exit

LEMMA PlacedStep ==
    ASSUME TypeInv, Placed, NEW c \in Procs,
           Begin(c) \/ Step(c) \/ Fails(c) \/ Killed(c) \/ Exit(c)
    PROVE  Placed'
<1> USE DEF TypeInv, TypeOK, Placed, AtConf, At
(* A process at rest or at the shell adds no line. *)
<1>1. ASSUME NEW p \in Procs, HasKey => HasKey', UNCHANGED <<conf, buf>>,
             \A q \in Procs \ {p} : at'[q] = at[q] /\ todo'[q] = todo[q],
             AtConf(p)' /\ Task(p)' = "age" => HasKey'
      PROVE  Placed'
    BY <1>1 DEF Task
<1>2. ASSUME NEW p \in Procs, NEW T, Proceed(p, T)
      PROVE  /\ \A q \in Procs \ {p} : at'[q] = at[q] /\ todo'[q] = todo[q]
             /\ ~(AtConf(p)' /\ Task(p)' = "age")
    BY <1>2 DEF Proceed, Task
<1>3. ASSUME NEW p \in Procs, Begin(p) PROVE Placed'
    <2>1. PICK T \in Plans : Proceed(p, T)
        BY <1>3 DEF Begin
    <2> QED BY <1>1, <1>2, <1>3, <2>1, KeyStays DEF Begin
<1>4. ASSUME NEW p \in Procs, OpenFile(p) PROVE Placed'
    <2>1. HasKey => HasKey'
        BY <1>4, KeyStays DEF Step
    <2>2. ~AtConf(p)'
        BY <1>4 DEF OpenFile
    <2>3. UNCHANGED <<conf, buf>> /\ \A q \in Procs \ {p} : at'[q] = at[q] /\ todo'[q] = todo[q]
        BY <1>4 DEF OpenFile
    <2> QED BY <1>1, <2>1, <2>2, <2>3
<1>5. ASSUME NEW p \in Procs, KeepFile(p) PROVE Placed'
    BY <1>1, <1>2, <1>5, KeyStays DEF KeepFile, TaskDone, Step
<1>6. ASSUME NEW p \in Procs, FillFile(p) \/ FillFails(p) PROVE Placed'
    <2>1. HasKey => HasKey'
        BY <1>6, KeyStays DEF Step
    <2>2. UNCHANGED <<conf, buf>>
        BY <1>6 DEF FillFile, FillFails
    <2>3. CASE Task(p) = "age"
        <3>1. at' = [at EXCEPT ![p] = "filter"] /\ todo' = todo
            BY <1>6, <2>3 DEF FillFile, FillFails, AfterFile
        <3>2. HasKey'
            BY <1>6, <2>3 DEF FillFile, FillFails, Reported, HasKey, Tasks
        <3> QED BY <1>1, <2>1, <2>2, <3>1, <3>2
    <2>4. CASE Task(p) # "age"
        <3>1. TaskDone(p)
            BY <1>6, <2>4 DEF FillFile, FillFails, AfterFile
        <3> QED BY <1>1, <1>2, <2>1, <2>2, <3>1 DEF TaskDone
    <2> QED BY <2>3, <2>4
<1>7. ASSUME NEW p \in Procs, FilterConf(p) PROVE Placed'
    BY <1>7 DEF FilterConf, HasKey, Task
<1>8. ASSUME NEW p \in Procs, FilterFails(p) PROVE Placed'
    BY <1>8 DEF FilterFails, HasKey, Task
<1>9. ASSUME NEW p \in Procs, RewriteConf(p) PROVE Placed'
    BY <1>9 DEF RewriteConf, HasKey, Task
<1>9a. ASSUME NEW p \in Procs, RewriteFails(p) PROVE Placed'
    BY <1>9a DEF RewriteFails, HasKey, Task
<1>10. ASSUME NEW p \in Procs, AppendLine(p) PROVE Placed'
    <2>1. HasKey' = HasKey /\ buf' = buf
        BY <1>10 DEF AppendLine, HasKey
    <2>2. "age" \in conf' => HasKey
        <3>1. CASE Task(p) = "age"
            BY <1>10, <3>1 DEF AppendLine
        <3>2. CASE Task(p) # "age"
            <4>1. Task(p) = "kustomize" /\ "kustomize" \in todo[p]
                BY <1>10, <3>2, FirstIsIn DEF AppendLine, Task
            <4>2. url[p] # "age"
                BY <4>1, DistroConfigAssumption DEF Shape
            <4> QED BY <1>10, <3>2, <4>2 DEF AppendLine
        <3> QED BY <3>1, <3>2
    <2>3. /\ \A q \in Procs \ {p} : at'[q] = at[q] /\ todo'[q] = todo[q]
          /\ ~(AtConf(p)' /\ Task(p)' = "age")
        BY <1>2, <1>10 DEF AppendLine, TaskDone
    <2> QED BY <2>1, <2>2, <2>3 DEF Task
<1>11. ASSUME NEW p \in Procs, Over(p), UNCHANGED <<conf, files>> PROVE Placed'
    BY <1>11 DEF Over, HasKey, Task
<1>12. ASSUME NEW p \in Procs, Fails(p) PROVE Placed'
    BY <1>1, <1>2, <1>11, <1>12, KeyStays DEF Fails
<1>13. ASSUME NEW p \in Procs, Killed(p) \/ Exit(p) PROVE Placed'
    BY <1>11, <1>13 DEF Killed, Exit
<1> QED
    BY <1>3, <1>4, <1>5, <1>6, <1>7, <1>8, <1>9, <1>9a, <1>10, <1>12, <1>13
    DEF Step

LEMMA KeyedStep == TypeInv /\ Keyed /\ [Next]_vars => Keyed'
<1> SUFFICES ASSUME TypeInv, Keyed, [Next]_vars PROVE Keyed'
    OBVIOUS
<1>1. ASSUME NEW p \in Procs, UNCHANGED crossed,
             Begin(p) \/ Step(p) \/ Fails(p) \/ Killed(p) \/ Exit(p)
      PROVE  Keyed'
    BY <1>1, PlacedStep DEF Keyed
(* The new distribution has no export, and nobody who would put one there. *)
<1>2. CASE Reinstall
    <2>1. ASSUME crossed' = "no", NEW p \in Procs
          PROVE  /\ "age" \notin buf'[p]
                 /\ ~(AtConf(p)' /\ Task(p)' = "age")
        BY <1>2, <2>1 DEF Reinstall, HasExport, AtConf, Task, TypeInv, TypeOK
    <2>2. "age" \notin conf'
        BY <1>2 DEF Reinstall
    <2> QED BY <2>1, <2>2 DEF Keyed, Placed
<1>3. CASE UNCHANGED vars
    BY <1>3 DEF vars, locals, Keyed, Placed, HasKey, AtConf, Task
<1> QED BY <1>1, <1>2, <1>3 DEF Next

(* The conf file exports an age key only after a whole one was in its place,  *)
(* however often the distribution is replaced beside the commands, unless one *)
(* had the export when it was last replaced (configure.go:37-45).             *)
THEOREM KeyBeforeExportHolds == Spec => []KeyBeforeExport
<1>1. Keyed => KeyBeforeExport
    BY DEF Keyed, Placed, KeyBeforeExport, HasKey
<1>2. Spec => []Keyed
    BY KeyedInit, KeyedStep, TypeInvHolds, PTL DEF Spec
<1> QED BY <1>1, <1>2, PTL

-----------------------------------------------------------------------------
(* The lines that the conf file has, or will have after the rewrite. *)
Written(p) == conf \cup buf[p]

Done(p, t) == t \in asked[p] /\ t \notin todo[p]

(* What a command that is not excused has done so far: *)
TasksDone(p) ==
    /\ Done(p, "age") => files["age"] = "whole" /\ "age" \in Written(p)
    /\ Done(p, "ssh") => files["ssh"] = "whole"
    /\ Done(p, "kustomize") => Written(p) \cap Urls = {url[p]}
    /\ Done(p, "hosts") => files["hosts"] # "none"

(* its age key is whole before the conf file is filtered for it, *)
KeyReady(p) == AtConf(p) /\ Task(p) = "age" => files["age"] = "whole"

(* the filter has the file for itself and rejects what it is to reject, *)
Filtered(p) ==
    /\ at[p] = "rewrite" => conf = {}
    /\ at[p] \in {"rewrite", "append"} /\ Task(p) = "kustomize" => Written(p) \cap Urls = {}

(* and no other line is lost. *)
LinesKept(p) ==
    \A l \in found[p] :
        \/ l \in Written(p)
        \/ l = "age" /\ Task(p) = "age" /\ at[p] \in {"rewrite", "append"}

Deeds(p) == TasksDone(p) /\ KeyReady(p) /\ Filtered(p) /\ LinesKept(p)

OnCourse ==
    \A p \in Procs : Busy(p) /\ ~excused[p] =>
        /\ \A q \in Procs \ {p} : ~Busy(q)
        /\ Deeds(p)

LEMMA OnCourseInit == Init => OnCourse
BY DEF Init, OnCourse

(* A command that is alone is on course when it begins. *)
LEMMA BeginDeeds ==
    ASSUME TypeInv, NEW p \in Procs, Begin(p), ~excused'[p]
    PROVE  Deeds(p)' /\ \A q \in Procs \ {p} : ~Busy(q) /\ ~Busy(q)'
<1> USE DEF TypeInv, TypeOK
<1>1. PICK T \in Plans :
          /\ Proceed(p, T)
          /\ \/ /\ {q \in Procs \ {p} : Busy(q)} = {}
                /\ asked' = [asked EXCEPT ![p] = T]
                /\ found' = [found EXCEPT ![p] = conf \ Urls]
             \/ Excuse({q \in Procs \ {p} : Busy(q)} \cup {p})
    BY DEF Begin
<1>2. /\ {q \in Procs \ {p} : Busy(q)} = {}
      /\ asked'[p] = T /\ found'[p] = conf \ Urls
    BY <1>1 DEF Excuse
<1>3. /\ todo'[p] = T /\ at'[p] \in {"open", "filter"}
      /\ at'[p] = "filter" => First(T) = "kustomize"
      /\ \A q \in Procs \ {p} : at'[q] = at[q]
    BY <1>1, DistroConfigAssumption DEF Proceed, At
<1>4. conf' = conf
    BY DEF Begin
<1>5. TasksDone(p)' /\ KeyReady(p)' /\ Filtered(p)' /\ LinesKept(p)'
    BY <1>2, <1>3, <1>4 DEF TasksDone, Done, KeyReady, AtConf, Task, Filtered, LinesKept, Written
<1> QED BY <1>2, <1>3, <1>5 DEF Deeds

(* A call of a command that is on course keeps it there. *)
LEMMA StepDeeds ==
    ASSUME TypeInv, NEW p \in Procs, Busy(p), ~excused[p], Deeds(p), Step(p), ~excused'[p]
    PROVE  /\ Deeds(p)'
           /\ asked' = asked /\ found' = found /\ url' = url
           /\ \A q \in Procs \ {p} : at'[q] = at[q]
<1> USE DEF TypeInv, TypeOK, At
<1>a. todo[p] # {} /\ Task(p) \in todo[p] /\ Task(p) \in Tasks
    BY FirstIsIn DEF Task
<1>b. ~Excuse({p})
    BY DEF Excuse
(* Where the current task is done, the rest of its plan is begun. *)
<1>c. ASSUME TaskDone(p)
      PROVE  /\ todo'[p] = todo[p] \ {Task(p)}
             /\ at'[p] \in {"ok", "open", "filter"}
             /\ at'[p] = "filter" => Task(p)' = "kustomize"
             /\ \A q \in Procs \ {p} : at'[q] = at[q]
    BY <1>c DEF TaskDone, Proceed, Task
<1>1. CASE OpenFile(p)
    <2>1. /\ UNCHANGED <<conf, todo, url, buf, record>> /\ at'[p] = "fill" /\ at[p] = "open"
          /\ \A q \in Procs \ {p} : at'[q] = at[q]
          /\ \A t \in Tasks \ {Task(p), "kustomize"} : files'[t] = files[t]
        BY <1>1 DEF OpenFile
    <2>2. TasksDone(p)'
        BY <1>a, <2>1 DEF Deeds, TasksDone, Done, Written, record, Tasks
    <2>3. KeyReady(p)' /\ Filtered(p)' /\ LinesKept(p)'
        BY <2>1 DEF Deeds, KeyReady, AtConf, Filtered, LinesKept, Written, record
    <2> QED BY <2>1, <2>2, <2>3 DEF Deeds, record
<1>2. CASE KeepFile(p)
    <2>1. /\ UNCHANGED <<conf, files, url, buf, record>> /\ TaskDone(p) /\ at[p] = "open"
          /\ Task(p) = "hosts" /\ files["hosts"] # "none"
        BY <1>2 DEF KeepFile, Kept
    <2>2. TasksDone(p)'
        BY <1>c, <2>1 DEF Deeds, TasksDone, Done, Written, record
    <2>3. KeyReady(p)' /\ Filtered(p)' /\ LinesKept(p)'
        BY <1>c, <2>1 DEF Deeds, KeyReady, AtConf, Filtered, LinesKept, Written, record
    <2> QED BY <1>c, <2>1, <2>2, <2>3 DEF Deeds, record
<1>3. CASE FillFile(p)
    <2>1. /\ UNCHANGED <<conf, url, buf, record>> /\ at[p] = "fill" /\ Task(p) # "kustomize"
          /\ files' = [files EXCEPT ![Task(p)] = "whole"]
        BY <1>3 DEF FillFile
    <2>2. /\ files'[Task(p)] = "whole"
          /\ \A t \in Tasks \ {Task(p), "kustomize"} : files'[t] = files[t]
        BY <1>a, <2>1
    <2>3. CASE Task(p) = "age"
        <3>1. at' = [at EXCEPT ![p] = "filter"] /\ todo' = todo
            BY <1>3, <2>3 DEF FillFile, AfterFile
        <3>2. TasksDone(p)'
            BY <1>a, <2>1, <2>2, <2>3, <3>1 DEF Deeds, TasksDone, Done, Written, record, Tasks
        <3>3. KeyReady(p)' /\ Filtered(p)' /\ LinesKept(p)'
            BY <2>1, <2>2, <2>3, <3>1 DEF Deeds, KeyReady, AtConf, Filtered, LinesKept, Written, record
        <3> QED BY <2>1, <3>1, <3>2, <3>3 DEF Deeds, record
    <2>4. CASE Task(p) # "age"
        <3>1. TaskDone(p)
            BY <1>3, <2>4 DEF FillFile, AfterFile
        <3>2. TasksDone(p)'
            BY <1>a, <1>c, <2>1, <2>2, <2>4, <3>1 DEF Deeds, TasksDone, Done, Written, record, Tasks
        <3>3. KeyReady(p)' /\ Filtered(p)' /\ LinesKept(p)'
            BY <1>c, <2>1, <3>1 DEF Deeds, KeyReady, AtConf, Filtered, LinesKept, Written, record
        <3> QED BY <1>c, <2>1, <3>1, <3>2, <3>3 DEF Deeds, record
    <2> QED BY <2>3, <2>4
<1>4. CASE FilterConf(p)
    <2>1. /\ UNCHANGED <<files, todo, url, record>> /\ conf' = {} /\ at[p] = "filter"
          /\ at' = [at EXCEPT ![p] = "rewrite"]
          /\ buf' = [buf EXCEPT ![p] = conf \ Rejected(Task(p))]
        BY <1>4, <1>b DEF FilterConf
    <2>2. Task(p) \in {"age", "kustomize"} /\ Task(p)' = Task(p)
        BY <2>1 DEF Task, AtConf
    <2>3. Written(p) = conf /\ Written(p)' = conf \ Rejected(Task(p))
        BY <2>1 DEF Written, Shape
    <2>4. TasksDone(p)'
        BY <1>a, <2>1, <2>2, <2>3, DistroConfigAssumption
        DEF Deeds, TasksDone, Done, Rejected, record
    <2>5. KeyReady(p)' /\ Filtered(p)'
        BY <2>1, <2>2, <2>3 DEF Deeds, KeyReady, AtConf, Filtered, Rejected
    <2>6. LinesKept(p)'
        <3>1. \A l \in found[p] : l \in conf /\ l \notin Urls
            BY <2>1, <2>3, DistroConfigAssumption DEF Deeds, LinesKept
        <3> QED BY <2>1, <2>2, <2>3, <3>1 DEF LinesKept, Rejected, record
    <2> QED BY <2>1, <2>4, <2>5, <2>6 DEF Deeds, record
<1>5. CASE RewriteConf(p)
    <2>1. /\ UNCHANGED <<files, todo, url, record>> /\ at[p] = "rewrite" /\ conf = {}
          /\ at' = [at EXCEPT ![p] = "append"]
          /\ conf' = buf[p] /\ buf' = [buf EXCEPT ![p] = {}]
        BY <1>5 DEF RewriteConf, Deeds, Filtered
    <2>2. Written(p)' = Written(p) /\ Task(p)' = Task(p)
        BY <2>1 DEF Written, Task
    <2>3. TasksDone(p)' /\ KeyReady(p)' /\ Filtered(p)' /\ LinesKept(p)'
        BY <2>1, <2>2 DEF Deeds, TasksDone, Done, KeyReady, AtConf, Filtered, LinesKept, record
    <2> QED BY <2>1, <2>3 DEF Deeds, record
<1>6. CASE AppendLine(p)
    <2>1. /\ UNCHANGED <<files, url, buf, record>> /\ at[p] = "append" /\ TaskDone(p)
          /\ Task(p) \in {"age", "kustomize"} /\ buf[p] = {}
          /\ conf' = conf \cup {IF Task(p) = "age" THEN "age" ELSE url[p]}
        BY <1>6 DEF AppendLine, Shape, AtConf
    <2>2. Task(p) = "kustomize" => url[p] \in Urls
        BY <1>a DEF Shape
    <2>3. TasksDone(p)'
        <3>1. CASE Task(p) = "age"
            BY <1>a, <1>c, <2>1, <3>1, DistroConfigAssumption
            DEF Deeds, TasksDone, Done, Written, KeyReady, AtConf, record
        <3>2. CASE Task(p) = "kustomize"
            <4>1. conf \cap Urls = {}
                BY <2>1, <3>2 DEF Deeds, Filtered, Written
            <4> QED BY <1>a, <1>c, <2>1, <2>2, <3>2, <4>1
                    DEF Deeds, TasksDone, Done, Written, record
        <3> QED BY <2>1, <3>1, <3>2
    <2>4. KeyReady(p)' /\ Filtered(p)'
        BY <1>c, <2>1 DEF KeyReady, AtConf, Filtered
    <2>5. LinesKept(p)'
        BY <1>c, <2>1 DEF Deeds, LinesKept, Written, record
    <2> QED BY <1>c, <2>1, <2>3, <2>4, <2>5 DEF Deeds, record
<1>7. ~FillFails(p) /\ ~FilterFails(p) /\ ~RewriteFails(p)
    BY <1>b DEF FillFails, FilterFails, RewriteFails
<1> QED BY <1>1, <1>2, <1>3, <1>4, <1>5, <1>6, <1>7 DEF Step

(* No step takes an excuse back but one that ends at rest. *)
LEMMA ExcuseStays ==
    ASSUME TypeInv, NEW p \in Procs, [Next]_vars, excused[p], at'[p] # "idle"
    PROVE  excused'[p]
BY DEF Next, Step, Begin, OpenFile, KeepFile, FillFile, FillFails, FilterConf, FilterFails,
       RewriteConf, RewriteFails, AppendLine, Fails, Killed, Exit, Over, Reinstall, Excuse, At, record, vars,
       TypeInv, TypeOK

(* A process moves itself only. *)
LEMMA OthersStay ==
    ASSUME TypeInv, NEW p \in Procs, NEW q \in Procs \ {p},
           Begin(q) \/ Step(q) \/ Fails(q) \/ Killed(q) \/ Exit(q)
    PROVE  at'[p] = at[p]
BY DEF Begin, Step, OpenFile, KeepFile, FillFile, FillFails, FilterConf, FilterFails, RewriteConf,
       RewriteFails, AppendLine, Fails, Killed, Exit, Over, AfterFile, TaskDone, Proceed, At, TypeInv, TypeOK

LEMMA OnCourseStep == TypeInv /\ OnCourse /\ [Next]_vars => OnCourse'
<1> SUFFICES ASSUME TypeInv, OnCourse, [Next]_vars,
                    NEW p \in Procs, Busy(p)', ~excused'[p]
             PROVE  (\A q \in Procs \ {p} : ~Busy(q)') /\ Deeds(p)'
    BY DEF OnCourse
<1>0. ~excused[p]
    BY ExcuseStays DEF Busy
<1>1. CASE Begin(p)
    BY <1>1, BeginDeeds
<1>2. CASE Step(p)
    <2>1. Busy(p)
        BY <1>2 DEF Step, OpenFile, KeepFile, FillFile, FillFails, FilterConf, FilterFails,
                    RewriteConf, RewriteFails, AppendLine
    <2>2. Deeds(p) /\ \A q \in Procs \ {p} : ~Busy(q)
        BY <1>0, <2>1 DEF OnCourse
    <2> QED BY <1>0, <1>2, <2>1, <2>2, StepDeeds
<1>3. CASE Fails(p) \/ Killed(p) \/ Exit(p)
    BY <1>3 DEF Fails, Killed, Exit, Over, Proceed, Excuse, At, TypeInv, TypeOK
(* The others are at rest: they begin, which excuses p, or clear up. *)
<1>4. ASSUME NEW q \in Procs \ {p}, Begin(q) \/ Step(q) \/ Fails(q) \/ Killed(q) \/ Exit(q)
      PROVE  (\A r \in Procs \ {p} : ~Busy(r)') /\ Deeds(p)'
    <2>1. at'[p] = at[p]
        BY <1>4, OthersStay
    <2>2. Deeds(p) /\ \A r \in Procs \ {p} : ~Busy(r)
        BY <1>0, <2>1 DEF OnCourse
    <2>3. ~Begin(q)
        BY <2>1 DEF Begin, Excuse
    <2>4. Exit(q)
        BY <1>4, <2>2, <2>3 DEF Step, OpenFile, KeepFile, FillFile, FillFails, FilterConf,
                    FilterFails, RewriteConf, RewriteFails, AppendLine, Fails, Killed
    <2>5. /\ \A r \in Procs \ {p} : ~Busy(r)'
          /\ UNCHANGED <<conf, files, at[p], todo[p], url[p], buf[p], asked[p], found[p]>>
        BY <2>2, <2>4 DEF Exit, Over, At, TypeInv, TypeOK
    <2> QED BY <2>2, <2>5 DEF Deeds, TasksDone, Done, Written, KeyReady, AtConf, Task, Filtered, LinesKept
<1>5. CASE Reinstall
    BY <1>5 DEF Reinstall, Excuse
<1>6. CASE UNCHANGED vars
    <2>1. Deeds(p) /\ \A q \in Procs \ {p} : ~Busy(q)
        BY <1>0, <1>6 DEF OnCourse, vars, locals
    <2> QED BY <1>6, <2>1 DEF vars, locals, record,
                Deeds, TasksDone, Done, Written, KeyReady, AtConf, Task, Filtered, LinesKept
<1> QED BY <1>1, <1>2, <1>3, <1>4, <1>5, <1>6 DEF Next

(* The step that ends a command well has every task of it done. *)
LEMMA StepSucceeds == TypeInv /\ TypeInv' /\ OnCourse /\ [Next]_vars => Success
<1> SUFFICES ASSUME TypeInv, TypeInv', OnCourse, [Next]_vars,
                    NEW p \in Procs, at[p] # "ok", at'[p] = "ok", ~excused'[p]
             PROVE  SetsAndKeeps(p)
    BY DEF Success
<1>0. ~excused[p]
    BY ExcuseStays
<1>1. ~Begin(p) /\ ~Fails(p) /\ ~Killed(p) /\ ~Exit(p)
    <2>1. ~Begin(p)
        <3>1. ASSUME NEW T \in Plans, Proceed(p, T) PROVE FALSE
            BY <3>1, DistroConfigAssumption DEF Proceed, At, TypeInv, TypeOK
        <3> QED BY <3>1 DEF Begin
    <2> QED BY <2>1 DEF Fails, Killed, Exit, Over, Proceed, Excuse, At, TypeInv, TypeOK
<1>2. Step(p)
    BY <1>1, OthersStay DEF Next, Reinstall, locals, vars
<1>3. Busy(p)
    BY <1>2 DEF Step, OpenFile, KeepFile, FillFile, FillFails, FilterConf, FilterFails,
                RewriteConf, RewriteFails, AppendLine
<1>4. Deeds(p)' /\ asked' = asked /\ found' = found /\ url' = url
    BY <1>0, <1>2, <1>3, StepDeeds DEF OnCourse
<1>5. todo'[p] = {} /\ buf'[p] = {}
    BY DEF TypeInv, TypeOK, Shape
<1> QED BY <1>4, <1>5 DEF SetsAndKeeps, Deeds, TasksDone, Done, Written, LinesKept

(* A command that nobody disturbs, and from which no failure was hidden, has  *)
(* done what it was asked when it ends well (configure.go:32-92, wsl.go:307). *)
THEOREM SuccessSetsHolds == Spec => SuccessSets
<1>1. TypeInv /\ TypeInv' /\ OnCourse /\ [Next]_vars => [Success]_vars
    BY StepSucceeds
<1>2. Spec => []OnCourse
    BY OnCourseInit, OnCourseStep, TypeInvHolds, PTL DEF Spec
<1> QED BY <1>1, <1>2, TypeInvHolds, PTL DEF Spec, SuccessSets

=============================================================================
