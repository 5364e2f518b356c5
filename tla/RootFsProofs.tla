----------------------------- MODULE RootFsProofs -----------------------------
(* Theorems about RootFs, for any number of processes, releases and failures. *)
EXTENDS RootFs, TLAPS

USE RootFsAssumption DEF RootFsAssumption, NoFile, Empty, Garbage, Versions

LEMMA TypeInit == Init => TypeOK
  BY DEF Init, TypeOK, Resting, Outcomes

LEMMA FaultType ==
    ASSUME TypeOK, NEW p \in Procs, Fault(p) \/ UNCHANGED budget
    PROVE  faults' \in 0 .. MaxFaults /\ hurt' \subseteq Procs
  BY DEF TypeOK, Fault, budget

LEMMA TypeInductive == TypeOK /\ [Next]_vars => TypeOK'
<1> SUFFICES ASSUME TypeOK, [Next]_vars PROVE TypeOK'
  OBVIOUS
<1> USE DEF Goto, Compare, Return, Resting, Outcomes, Calls, files, locals, budget
<1>1. ASSUME NEW p \in Procs, Begin(p) PROVE TypeOK'
  BY <1>1 DEF Begin, Busy, TypeOK
<1>2. ASSUME NEW p \in Procs, OpenTar(p) \/ StatTar(p) \/ Collect(p) PROVE TypeOK'
  BY <1>2 DEF OpenTar, StatTar, Collect, TypeOK
<1>3. ASSUME NEW p \in Procs, ReadSha(p) PROVE TypeOK'
  BY <1>3 DEF ReadSha, TypeOK
<1>4. ASSUME NEW p \in Procs, HashTar(p) PROVE TypeOK'
  BY <1>4 DEF HashTar, TypeOK
<1>5. ASSUME NEW p \in Procs, StoreSha(p) PROVE TypeOK'
  BY <1>5, FaultType DEF StoreSha, TypeOK
<1>6. ASSUME NEW p \in Procs, FetchChecksum(p) PROVE TypeOK'
  BY <1>6, FaultType DEF FetchChecksum, TypeOK
<1>7. ASSUME NEW p \in Procs, Download(p) PROVE TypeOK'
  BY <1>7, FaultType DEF Download, TypeOK
<1>8. ASSUME NEW p \in Procs, VerifyChecksum(p) PROVE TypeOK'
  BY <1>8 DEF VerifyChecksum, TypeOK
<1>9. ASSUME NEW p \in Procs, RemoveTar(p) PROVE TypeOK'
  BY <1>9, FaultType DEF RemoveTar, TypeOK
<1>10. ASSUME NEW p \in Procs, RenameTemp(p) PROVE TypeOK'
  BY <1>10, FaultType DEF RenameTemp, Blocked, TypeOK
<1>11. ASSUME NEW p \in Procs, WriteSha(p) PROVE TypeOK'
  BY <1>11, FaultType DEF WriteSha, TypeOK
<1>12. ASSUME NEW p \in Procs, Crash(p) PROVE TypeOK'
  BY <1>12, FaultType DEF Crash, TypeOK
<1>13. CASE Publish
  BY <1>13 DEF Publish, TypeOK
<1>14. CASE UNCHANGED vars
  BY <1>14 DEF vars, budget, TypeOK
<1> QED
  BY <1>1, <1>2, <1>3, <1>4, <1>5, <1>6, <1>7, <1>8, <1>9, <1>10, <1>11, <1>12, <1>13, <1>14
  DEF Next, Step

(* Every variable keeps a value the program can give it. *)
THEOREM TypeCorrect == Spec => []TypeOK
  BY TypeInit, TypeInductive, PTL DEF Spec

-----------------------------------------------------------------------------
(***************************************************************************)
(* Why only released content becomes the archive: a checksum that was        *)
(* fetched is one that was published, and between the comparison and the     *)
(* rename the temporary file, which no other process touches, has it.        *)
(***************************************************************************)
Verified ==
    /\ tar \in {NoFile} \cup 1 .. release
    /\ \A p \in Procs :
        /\ online[p] \in 0 .. release
        /\ pc[p] \in {"remove", "rename"} => temp[p] = online[p] /\ temp[p] \in 1 .. release

LEMMA VerifiedInductive == TypeOK /\ Verified /\ [Next]_vars => Verified'
<1> SUFFICES ASSUME TypeOK, Verified, [Next]_vars PROVE Verified'
  OBVIOUS
<1> USE DEF Goto, Compare, Return, Resting, Outcomes, files, locals
<1>1. ASSUME NEW p \in Procs, Begin(p) PROVE Verified'
  BY <1>1 DEF Begin, TypeOK, Verified
<1>2. ASSUME NEW p \in Procs, OpenTar(p) \/ StatTar(p) \/ Collect(p) PROVE Verified'
  BY <1>2 DEF OpenTar, StatTar, Collect, TypeOK, Verified
<1>3. ASSUME NEW p \in Procs, ReadSha(p) PROVE Verified'
  BY <1>3 DEF ReadSha, TypeOK, Verified
<1>4. ASSUME NEW p \in Procs, HashTar(p) PROVE Verified'
  BY <1>4 DEF HashTar, TypeOK, Verified
<1>5. ASSUME NEW p \in Procs, StoreSha(p) PROVE Verified'
  BY <1>5 DEF StoreSha, TypeOK, Verified
<1>6. ASSUME NEW p \in Procs, FetchChecksum(p) PROVE Verified'
  BY <1>6 DEF FetchChecksum, TypeOK, Verified
<1>7. ASSUME NEW p \in Procs, Download(p) PROVE Verified'
  BY <1>7 DEF Download, TypeOK, Verified
<1>8. ASSUME NEW p \in Procs, VerifyChecksum(p) PROVE Verified'
  BY <1>8 DEF VerifyChecksum, TypeOK, Verified
<1>9. ASSUME NEW p \in Procs, RemoveTar(p) PROVE Verified'
  BY <1>9 DEF RemoveTar, TypeOK, Verified
<1>10. ASSUME NEW p \in Procs, RenameTemp(p) PROVE Verified'
  BY <1>10 DEF RenameTemp, TypeOK, Verified
<1>11. ASSUME NEW p \in Procs, WriteSha(p) PROVE Verified'
  BY <1>11 DEF WriteSha, TypeOK, Verified
<1>12. ASSUME NEW p \in Procs, Crash(p) PROVE Verified'
  BY <1>12 DEF Crash, TypeOK, Verified
<1>13. CASE Publish
  BY <1>13 DEF Publish, TypeOK, Verified
<1>14. CASE UNCHANGED vars
  BY <1>14 DEF vars, Verified
<1> QED
  BY <1>1, <1>2, <1>3, <1>4, <1>5, <1>6, <1>7, <1>8, <1>9, <1>10, <1>11, <1>12, <1>13, <1>14
  DEF Next, Step

LEMMA VerifiedInit == Init => Verified
  BY DEF Init, Verified

THEOREM VerifiedCorrect == Spec => []Verified
  BY TypeCorrect, VerifiedInit, VerifiedInductive, PTL DEF Spec

(* Whatever processes update the archive together, and whatever fails, the      *)
(* archive is at every moment absent or one that was released.                  *)
THEOREM VerifiedContentHolds == Spec => []VerifiedContent
<1>1. Verified => VerifiedContent
  BY DEF Verified, VerifiedContent
<1> QED
  BY <1>1, VerifiedCorrect, PTL

-----------------------------------------------------------------------------
(***************************************************************************)
(* Why the checksum file is never newer than the archive: the archive is     *)
(* replaced before the claim is written, by a call that is alone. A call is   *)
(* trusted when its own course, or the state of the files, says so; for a     *)
(* trusted call, what it found and did stays true from call to call. The     *)
(* replacement by a trusted call is what brings the files together again.    *)
(***************************************************************************)
Trusted(p) == pc[p] \notin Resting /\ (pair = "kept" \/ p \notin hurt)

(* What a trusted call relies on. *)
Course(p) ==
    /\ \A q \in Procs : pc[q] \notin Resting => q = p
    /\ pc[p] \in {"readSha", "hash"} => tar # NoFile
    /\ pc[p] \in {"storeTruncate", "storeWrite"} => tar # NoFile /\ tar = current[p]
    /\ pc[p] = "fetch" => current[p] = Empty \/ (tar # NoFile /\ (pair = "apart" \/ current[p] <= tar))
    /\ pc[p] \in {"download", "verify", "remove", "rename"} /\ online[p] # Empty
           => since[p] <= online[p] /\ sha <= online[p]
    /\ pc[p] \in {"truncate", "write"} =>
           \/ pair = "apart"
           \/ p \in hurt /\ tar = NoFile
           \/ tar = online[p] /\ since[p] <= online[p]

Ordered ==
    /\ sha \in {NoFile, Empty} \cup 1 .. release
    /\ ShaNeverAhead
    /\ \A p \in Procs : since[p] <= release /\ current[p] \in {Empty} \cup 1 .. release
    /\ \A p \in Procs : Trusted(p) => Course(p)

LEMMA OrderedInductive == TypeOK /\ Verified /\ Ordered /\ [Next]_vars => Ordered'
<1> SUFFICES ASSUME TypeOK, Verified, Ordered, [Next]_vars PROVE Ordered'
  OBVIOUS
<1> USE DEF Goto, Compare, Return, Resting, Outcomes, files, locals, ShaNeverAhead, TypeOK,
            Verified, Ordered, Trusted, Course
<1>1. ASSUME NEW p \in Procs, Begin(p) PROVE Ordered'
  BY <1>1 DEF Begin, Busy
<1>2. ASSUME NEW p \in Procs, OpenTar(p) \/ StatTar(p) \/ Collect(p) PROVE Ordered'
  <2>1. CASE OpenTar(p)
    BY <2>1 DEF OpenTar, budget
  <2>2. CASE StatTar(p)
    BY <2>2 DEF StatTar, budget
  <2>3. CASE Collect(p)
    BY <2>3 DEF Collect, budget
  <2> QED
    BY <1>2, <2>1, <2>2, <2>3
<1>3. ASSUME NEW p \in Procs, ReadSha(p) PROVE Ordered'
  BY <1>3 DEF ReadSha, budget
<1>4. ASSUME NEW p \in Procs, HashTar(p) PROVE Ordered'
  BY <1>4 DEF HashTar, budget
<1>5. ASSUME NEW p \in Procs, StoreSha(p) PROVE Ordered'
  BY <1>5 DEF StoreSha, Fault, budget
<1>6. ASSUME NEW p \in Procs, FetchChecksum(p) PROVE Ordered'
  BY <1>6 DEF FetchChecksum, Fault, budget
<1>7. ASSUME NEW p \in Procs, Download(p) PROVE Ordered'
  BY <1>7 DEF Download, Fault, budget
<1>8. ASSUME NEW p \in Procs, VerifyChecksum(p) PROVE Ordered'
  BY <1>8 DEF VerifyChecksum, budget
<1>9. ASSUME NEW p \in Procs, RemoveTar(p) PROVE Ordered'
  BY <1>9 DEF RemoveTar, Fault, budget
<1>10. ASSUME NEW p \in Procs, RenameTemp(p) PROVE Ordered'
  BY <1>10 DEF RenameTemp, Blocked, Fault, budget
<1>11. ASSUME NEW p \in Procs, WriteSha(p) PROVE Ordered'
  BY <1>11 DEF WriteSha, Fault, budget
<1>12. ASSUME NEW p \in Procs, Crash(p) PROVE Ordered'
  BY <1>12 DEF Crash, Fault
<1>13. CASE Publish
  BY <1>13 DEF Publish
<1>14. CASE UNCHANGED vars
  BY <1>14 DEF vars, budget
<1> QED
  BY <1>1, <1>2, <1>3, <1>4, <1>5, <1>6, <1>7, <1>8, <1>9, <1>10, <1>11, <1>12, <1>13, <1>14
  DEF Next, Step

LEMMA OrderedInit == Init => Ordered
  BY DEF Init, Ordered, ShaNeverAhead, Trusted, Resting

LEMMA OrderedCorrect == Spec => []Ordered
  BY TypeCorrect, VerifiedCorrect, OrderedInit, OrderedInductive, PTL DEF Spec

(* The checksum file never claims more than the archive beside it, wherever    *)
(* processes are killed and whatever fails, until calls overlap or an archive  *)
(* cannot be replaced; and again once a call that nothing disturbs has         *)
(* replaced it.                                                                *)
THEOREM ShaNeverAheadHolds == Spec => []ShaNeverAhead
<1>1. Ordered => ShaNeverAhead
  BY DEF Ordered
<1> QED
  BY <1>1, OrderedCorrect, PTL

(* An update that meets no failure and reports success leaves an archive no    *)
(* older than the release was when it began, whatever earlier updates that     *)
(* failed or were killed left behind, unless the archive could not be replaced *)
(* by it or by one before it.                                                  *)
THEOREM UpdateDeliversHolds == Spec => UpdateDelivers
<1>1. TypeOK /\ Verified /\ Ordered /\ [Next]_vars => [\A p \in Procs : pair' = "kept" => Delivered(p)]_vars
  <2> SUFFICES ASSUME TypeOK, Verified, Ordered, Next, NEW p \in Procs, pair' = "kept",
                      pc[p] \notin Resting, pc'[p] = "ok", p \notin hurt'
               PROVE  tar' >= since[p]
    BY DEF Delivered
  <2> USE DEF Goto, Compare, Return, Resting, Outcomes, files, locals
  <2>1. Step(p)
    <3>1. ASSUME NEW q \in Procs, q # p, Begin(q) \/ Collect(q) \/ Crash(q) PROVE FALSE
      BY <3>1 DEF Begin, Collect, Crash, TypeOK
    <3>2. ASSUME NEW q \in Procs, q # p, Step(q) PROVE FALSE
      BY <3>2 DEF Step, OpenTar, StatTar, ReadSha, HashTar, StoreSha, FetchChecksum, Download,
                  VerifyChecksum, RemoveTar, RenameTemp, WriteSha, TypeOK
    <3> QED
      BY <3>1, <3>2 DEF Next, Begin, Collect, Crash, Publish, TypeOK
  <2>2. CASE FetchChecksum(p)
    BY <2>2 DEF FetchChecksum, Fault, budget, TypeOK, Verified, Ordered, Trusted, Course
  <2>3. CASE WriteSha(p)
    BY <2>3 DEF WriteSha, Fault, budget, TypeOK, Verified, Ordered, Trusted, Course
  <2> QED
    BY <2>1, <2>2, <2>3
    DEF Step, OpenTar, StatTar, ReadSha, HashTar, StoreSha, Download, VerifyChecksum, RemoveTar,
        RenameTemp, TypeOK
<1> QED
  BY <1>1, TypeCorrect, VerifiedCorrect, OrderedCorrect, PTL DEF Spec, UpdateDelivers

-----------------------------------------------------------------------------
(* Until the download a process has no temporary file: Begin takes a new one,  *)
(* and every return of a call that got that far removes it.                    *)
Tidy == \A p \in Procs :
            pc[p] \in {"open", "stat", "readSha", "hash", "storeTruncate", "storeWrite",
                      "fetch", "download", "ok"} => temp[p] = NoFile

LEMMA TidyInductive == TypeOK /\ Tidy /\ [Next]_vars => Tidy'
<1> SUFFICES ASSUME TypeOK, Tidy, [Next]_vars PROVE Tidy'
  OBVIOUS
<1> USE DEF Tidy, TypeOK, Goto, Compare, Return, Resting, Outcomes
<1>1. ASSUME NEW p \in Procs, Begin(p) \/ Crash(p) PROVE Tidy'
  BY <1>1 DEF Begin, Crash
<1>2. ASSUME NEW p \in Procs, OpenTar(p) \/ StatTar(p) \/ Collect(p) \/ ReadSha(p) \/ HashTar(p)
      PROVE  Tidy'
  BY <1>2 DEF OpenTar, StatTar, Collect, ReadSha, HashTar
<1>3. ASSUME NEW p \in Procs, StoreSha(p) PROVE Tidy'
  BY <1>3 DEF StoreSha
<1>4. ASSUME NEW p \in Procs, FetchChecksum(p) PROVE Tidy'
  BY <1>4 DEF FetchChecksum
<1>5. ASSUME NEW p \in Procs, Download(p) PROVE Tidy'
  BY <1>5 DEF Download
<1>6. ASSUME NEW p \in Procs, VerifyChecksum(p) PROVE Tidy'
  BY <1>6 DEF VerifyChecksum
<1>7. ASSUME NEW p \in Procs, RemoveTar(p) \/ RenameTemp(p) PROVE Tidy'
  BY <1>7 DEF RemoveTar, RenameTemp
<1>8. ASSUME NEW p \in Procs, WriteSha(p) PROVE Tidy'
  BY <1>8 DEF WriteSha
<1>9. CASE Publish \/ UNCHANGED vars
  BY <1>9 DEF Publish, vars
<1> QED
  BY <1>1, <1>2, <1>3, <1>4, <1>5, <1>6, <1>7, <1>8, <1>9 DEF Next, Step

(* A call that ends well leaves no temporary file, whether the archive was     *)
(* replaced, could not be (the ignored Rename), or was up to date.             *)
THEOREM CleansUpHolds == Spec => []CleansUp
<1>1. Init => Tidy
  BY DEF Init, Tidy
<1>2. Tidy => CleansUp
  BY DEF Tidy, CleansUp
<1> QED
  BY <1>1, <1>2, TidyInductive, TypeCorrect, PTL DEF Spec

-----------------------------------------------------------------------------
(***************************************************************************)
(* EnsureRootFS implements RootFsContract: seen from the command that calls   *)
(* it, it is one step. What a call that met no failure and no other call      *)
(* relies on at its end: a checksum in hand is that of an archive which is    *)
(* there, the archive it downloads is that of the release whose checksum it   *)
(* has, and after the rename there is an archive, the new one or one that     *)
(* could not be replaced. No failure is excluded here.                        *)
(***************************************************************************)
Lone(p) == \A q \in Procs : pc[q] \notin Resting => q = p

Unhurt(p) ==
    /\ Lone(p)
    /\ pc[p] = "stat" => (p \in open <=> tar # NoFile)
    /\ pc[p] \in {"readSha", "hash"} => p \in open
    /\ pc[p] \in {"storeTruncate", "storeWrite"} => tar # NoFile
    /\ pc[p] = "fetch" => current[p] = Empty \/ tar # NoFile
    /\ pc[p] = "download" => online[p] = release
    /\ pc[p] = "verify" => temp[p] = online[p]
    /\ pc[p] \in {"truncate", "write"} => tar # NoFile

Sound == \A p \in Procs : pc[p] \notin Resting /\ p \notin hurt => Unhurt(p)

LEMMA SoundInductive == TypeOK /\ Verified /\ Sound /\ [Next]_vars => Sound'
<1> SUFFICES ASSUME TypeOK, Verified, Sound, [Next]_vars PROVE Sound'
  OBVIOUS
<1> USE DEF Sound, Unhurt, Lone, TypeOK, Goto, Compare, Return, Fault, Resting, Outcomes,
            files, locals, budget
<1>1. ASSUME NEW p \in Procs, Begin(p) PROVE Sound'
  BY <1>1 DEF Begin, Busy
<1>2. ASSUME NEW p \in Procs, OpenTar(p) \/ StatTar(p) \/ Collect(p) PROVE Sound'
  <2>1. CASE OpenTar(p)
    <3>1. tar = NoFile => p \notin open
      OBVIOUS
    <3> QED
      BY <2>1, <3>1 DEF OpenTar
  <2>2. CASE StatTar(p)
    BY <2>2 DEF StatTar
  <2>3. CASE Collect(p)
    BY <2>3 DEF Collect
  <2> QED
    BY <1>2, <2>1, <2>2, <2>3
<1>3. ASSUME NEW p \in Procs, ReadSha(p) \/ HashTar(p) \/ Crash(p) PROVE Sound'
  BY <1>3 DEF ReadSha, HashTar, Crash
<1>4. ASSUME NEW p \in Procs, StoreSha(p) PROVE Sound'
  BY <1>4 DEF StoreSha
<1>5. ASSUME NEW p \in Procs, FetchChecksum(p) PROVE Sound'
  BY <1>5 DEF FetchChecksum
<1>6. ASSUME NEW p \in Procs, Download(p) PROVE Sound'
  BY <1>6 DEF Download
<1>7. ASSUME NEW p \in Procs, VerifyChecksum(p) PROVE Sound'
  BY <1>7 DEF VerifyChecksum
<1>8. ASSUME NEW p \in Procs, RemoveTar(p) \/ RenameTemp(p) PROVE Sound'
  BY <1>8 DEF RemoveTar, RenameTemp, Blocked, Verified
<1>9. ASSUME NEW p \in Procs, WriteSha(p) PROVE Sound'
  BY <1>9 DEF WriteSha
<1>10. CASE Publish \/ UNCHANGED vars
  BY <1>10 DEF Publish, vars
<1> QED
  BY <1>1, <1>2, <1>3, <1>4, <1>5, <1>6, <1>7, <1>8, <1>9, <1>10 DEF Next, Step

LEMMA SoundCorrect == Spec => []Sound
<1>1. Init => Sound
  BY DEF Init, Sound, Resting
<1> QED
  BY <1>1, SoundInductive, TypeCorrect, VerifiedCorrect, PTL DEF Spec

(* What the contract says of a state: the archive as the call found it. *)
Archive == IF AtWork = {} THEN tar # NoFile ELSE \E p \in AtWork : exists[p]
Doing   == [p \in Procs |-> IF pc[p] \in Resting THEN pc[p] ELSE "busy"]

LEMMA LoneArchive ==
    ASSUME NEW p \in Procs, Lone(p), Lone(p)'
    PROVE  /\ Archive <=> IF p \in AtWork THEN exists[p] ELSE tar # NoFile
           /\ Archive' <=> IF p \in AtWork' THEN exists'[p] ELSE tar' # NoFile
<1>1. /\ AtWork = IF p \in AtWork THEN {p} ELSE {}
      /\ AtWork' = IF p \in AtWork' THEN {p} ELSE {}
  BY DEF AtWork, Lone
<1>2. Archive <=> IF p \in AtWork THEN exists[p] ELSE tar # NoFile
  BY <1>1 DEF Archive
<1>3. Archive' <=> IF p \in AtWork' THEN exists'[p] ELSE tar' # NoFile
  BY <1>1 DEF Archive
<1> QED
  BY <1>2, <1>3

LEMMA ArchiveType == ASSUME TypeOK PROVE Archive \in BOOLEAN
  BY DEF Archive, AtWork, TypeOK

(* A call goes on, or it ends as the contract says. *)
Onward(p, l) == l \in Calls /\ Goto(p, l) /\ (Lone(p) => Archive' = Archive)
Over(p, o)   == /\ o \in Outcomes /\ Goto(p, o)
                /\ p \notin hurt' => o = "ok" /\ Archive'

LEMMA ContractStep ==
    ASSUME TypeOK, TypeOK', Verified, Sound, NEW p \in Procs, Step(p)
    PROVE  /\ pc[p] \in Calls
           /\ hurt' \in {hurt, hurt \cup {p}}
           /\ (\E l \in Calls : Onward(p, l)) \/ (\E o \in Outcomes : Over(p, o))
<1> DEFINE Found  == IF p \in AtWork THEN exists[p] ELSE tar # NoFile
           Found1 == IF p \in AtWork' THEN exists'[p] ELSE tar' # NoFile
           Ends   == \/ \E l \in Calls : Goto(p, l) /\ (Lone(p) => Found1 = Found)
                     \/ \E o \in Outcomes : Goto(p, o) /\ (p \notin hurt' => o = "ok" /\ Found1)
           Fine   == pc[p] \in Calls /\ hurt' \in {hurt, hurt \cup {p}} /\ Ends
<1>a. Fine
  <2> USE DEF TypeOK, Sound, Unhurt, Goto, Compare, Return, Fault, Resting, Outcomes, Calls,
              files, locals, budget, AtWork
  <2>1. CASE OpenTar(p) \/ StatTar(p) \/ ReadSha(p)
    BY <2>1 DEF OpenTar, StatTar, ReadSha
  <2>2. CASE HashTar(p) \/ StoreSha(p)
    BY <2>2 DEF HashTar, StoreSha
  <2>3. CASE FetchChecksum(p)
    BY <2>3 DEF FetchChecksum
  <2>4. CASE Download(p)
    BY <2>4 DEF Download
  <2>5. CASE VerifyChecksum(p)
    BY <2>5 DEF VerifyChecksum
  <2>6. CASE RemoveTar(p) \/ RenameTemp(p)
    BY <2>6 DEF RemoveTar, RenameTemp
  <2>7. CASE WriteSha(p)
    BY <2>7 DEF WriteSha
  <2> QED
    BY <2>1, <2>2, <2>3, <2>4, <2>5, <2>6, <2>7 DEF Step
<1>b. ASSUME Lone(p) PROVE Archive' = Archive <=> Found1 = Found
  <2>1. Lone(p)'
    BY <1>a, <1>b DEF Lone, Goto, TypeOK
  <2> QED
    BY <1>b, <2>1, LoneArchive, ArchiveType DEF Archive, AtWork, TypeOK
<1>c. ASSUME Lone(p) PROVE Archive' <=> Found1
  <2>1. Lone(p)'
    BY <1>a, <1>c DEF Lone, Goto, TypeOK
  <2> QED
    BY <1>c, <2>1, LoneArchive
<1>d. p \notin hurt' => Lone(p)
  BY <1>a DEF Sound, Unhurt, Calls, Resting, Outcomes
<1> QED
  BY <1>a, <1>b, <1>c, <1>d DEF Onward, Over

LEMMA BusyIsInCall == ASSUME TypeOK PROVE Contract!Busy = {p \in Procs : pc[p] \in Calls}
  BY DEF TypeOK, Contract!Busy, Resting, Outcomes, Calls

(* To go on is nothing to the contract but a failure that may have been met,   *)
(* and an archive that another call may see come and go.                       *)
LEMMA SufferStep ==
    ASSUME TypeOK, UNCHANGED Doing, NEW Q, hurt' = hurt \cup Q,
           Q \subseteq {p \in Procs : pc[p] \in Calls},
           \/ UNCHANGED Archive
           \/ \E p, q \in Procs : p # q /\ pc[p] \in Calls /\ pc[q] \in Calls
    PROVE  Contract!Suffer
<1>1. Archive' \in BOOLEAN
  BY DEF Archive
<1> QED
  BY <1>1, BusyIsInCall DEF Contract!Suffer, Archive, Doing

LEMMA EndStep ==
    ASSUME TypeOK, NEW p \in Procs, pc[p] \in Calls, hurt' \in {hurt, hurt \cup {p}},
           NEW o \in Outcomes, Over(p, o)
    PROVE  Contract!End(p)
<1>1. Doing' = [Doing EXCEPT ![p] = o]
  BY DEF Over, Goto, Doing, Resting, TypeOK
<1>2. p \in Contract!Busy
  BY BusyIsInCall
<1>3. Archive' \in BOOLEAN /\ (p \notin hurt' => o = "ok" /\ Archive')
  BY DEF Over, Archive
<1> QED
  BY <1>1, <1>2, <1>3 DEF Contract!End, Outcomes, Archive, Doing

(* A command may take a call of EnsureRootFS for one step: without a failure,  *)
(* and without another call or a release in between, it succeeds and there is  *)
(* an archive. This holds for any number of processes and with every failure   *)
(* the model has, also those of the file system that the code ignores.         *)
THEOREM ContractKeptHolds == Spec => ContractKept
<1>1. Init => Contract!Init
  BY DEF Init, Contract!Init, AtWork, Resting, NoFile
<1>2. TypeOK /\ TypeOK' /\ Verified /\ Sound /\ [Next]_vars => [Contract!Next]_(Contract!vars)
  <2> SUFFICES ASSUME TypeOK, TypeOK', Verified, Sound, [Next]_vars
               PROVE  Contract!Next \/ UNCHANGED Contract!vars
    OBVIOUS
  <2>0. Contract!Busy = Busy
    BY DEF Contract!Busy, Busy, TypeOK, Resting, Outcomes, Calls
  <2>1. ASSUME NEW p \in Procs, Begin(p) PROVE Contract!Begin(p)
    <3>1. Doing' = [Doing EXCEPT ![p] = "busy"]
      BY <2>1 DEF Begin, Goto, Doing, Resting, Outcomes, TypeOK
    <3>2. p \notin Contract!Busy /\ UNCHANGED Archive
      <4>1. AtWork' = AtWork /\ p \notin AtWork
        BY <2>1 DEF Begin, Goto, AtWork, TypeOK, Resting, Outcomes
      <4> QED
        BY <2>0, <2>1, <4>1 DEF Begin, Archive, Busy, files, locals
    <3>3. hurt' = IF Contract!Busy = {} THEN hurt \ {p} ELSE hurt \cup Contract!Busy \cup {p}
      BY <2>0, <2>1 DEF Begin
    <3> QED
      BY <3>1, <3>2, <3>3 DEF Contract!Begin, Archive, Doing
  <2>2. ASSUME NEW p \in Procs, Step(p) PROVE Contract!Suffer \/ Contract!End(p)
    <3>1. ASSUME NEW l \in Calls, Onward(p, l) PROVE Contract!Suffer
      <4>1. UNCHANGED Doing
        BY <2>2, <3>1, ContractStep DEF Onward, Goto, Doing, TypeOK, Resting, Outcomes, Calls
      <4>2. PICK Q \in {{}, {p}} : hurt' = hurt \cup Q
        BY <2>2, ContractStep
      <4>3. Q \subseteq {q \in Procs : pc[q] \in Calls}
        BY <2>2, ContractStep
      <4>4. \/ UNCHANGED Archive
            \/ \E q \in Procs : p # q /\ pc[p] \in Calls /\ pc[q] \in Calls
        BY <2>2, <3>1, ContractStep DEF Onward, Lone, TypeOK
      <4> QED
        BY <4>1, <4>2, <4>3, <4>4, SufferStep
    <3>2. CASE \E o \in Outcomes : Over(p, o)
      BY <2>2, <3>2, ContractStep, EndStep
    <3> QED
      BY <2>2, <3>1, <3>2, ContractStep
  <2>3. ASSUME NEW p \in Procs, Crash(p) PROVE Contract!End(p)
    <3>1. pc[p] \in Calls /\ hurt' = hurt \cup {p} /\ Over(p, "crashed")
      BY <2>3 DEF Crash, Fault, Over, Goto, TypeOK, Resting, Outcomes
    <3> QED
      BY <3>1, EndStep DEF Outcomes
  <2>4. CASE Publish
    <3>1. UNCHANGED <<Archive, Doing>>
      BY <2>4 DEF Publish, Archive, AtWork, Doing, files, locals
    <3> QED
      BY <2>4, <3>1, SufferStep DEF Publish, Calls, Contract!Next
  <2>5. ASSUME NEW p \in Procs, Collect(p) PROVE UNCHANGED Contract!vars
    BY <2>5 DEF Collect, budget, files, locals, AtWork, Contract!vars
  <2>6. CASE UNCHANGED vars
    BY <2>6 DEF vars, budget, files, locals, AtWork, Contract!vars
  <2> QED
    BY <2>1, <2>2, <2>3, <2>4, <2>5, <2>6 DEF Next, Contract!Next
<1> QED
  BY <1>1, <1>2, TypeCorrect, VerifiedCorrect, SoundCorrect, PTL
  DEF Spec, ContractKept, Contract!Spec

=============================================================================
