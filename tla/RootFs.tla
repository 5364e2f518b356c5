-------------------------------- MODULE RootFs --------------------------------
(***************************************************************************)
(* EnsureRootFS (pkg/rootfs/rootfs.go:91-210): the local copy of the root    *)
(* file system archive and the file beside it that remembers its checksum,   *)
(* brought up to date with the release. kaweezle update is this function,    *)
(* and start runs it when --root is empty. Processes share the two files     *)
(* without a lock; a process may be killed between any two calls. On Windows *)
(* a file that somebody has open can be neither removed nor replaced.        *)
(*                                                                          *)
(* A version of the archive and its checksum are the same number: releases   *)
(* are 1 .. MaxVersion, in order of publication.                             *)
(***************************************************************************)
EXTENDS Integers

CONSTANTS
    Procs,        \* processes running EnsureRootFS
    MaxVersion,   \* bound: the last release published
    MaxFaults,    \* bound on the failures and crashes of a run
    FsFaults,     \* TRUE: Remove, Rename and writes of the checksum may fail
    PageFaults    \* TRUE: the checksum page may answer something else than 200

ASSUME RootFsAssumption ==
    /\ MaxVersion \in Nat \ {0}
    /\ MaxFaults \in Nat
    /\ FsFaults \in BOOLEAN /\ PageFaults \in BOOLEAN

NoFile  == -1               \* a file that is not there
Empty   == 0                \* the checksum "", of an empty checksum file too
Garbage == MaxVersion + 1   \* content that no release has
Versions == 1 .. MaxVersion

VARIABLES
    release,   \* the version now published
    tar,       \* content of the archive
    sha,       \* content of the checksum file
    pc,        \* per process: the call it makes next, or how it ended
    exists,    \* currentExists
    current,   \* currentChecksum
    online,    \* onlineChecksum
    temp,      \* content of its temporary file
    since,     \* the release when its call began
    open,      \* processes that have the archive open
    faults,    \* failures so far
    hurt,      \* processes whose call met a failure, another call or a new release
    pair       \* "apart" once calls overlapped, or could not replace the archive

files  == <<tar, sha>>
locals == <<exists, current, online>>
budget == <<faults, hurt>>
vars   == <<release, files, pc, locals, temp, since, open, budget, pair>>

Outcomes == {"ok", "fail", "crashed"}
Resting  == {"idle"} \cup Outcomes
Calls    == {"open", "stat", "readSha", "hash", "storeTruncate", "storeWrite", "fetch",
             "download", "verify", "remove", "rename", "truncate", "write"}

Init ==
    /\ release = 1
    /\ tar = NoFile /\ sha = NoFile
    /\ pc = [p \in Procs |-> "idle"]
    /\ exists = [p \in Procs |-> FALSE]
    /\ current = [p \in Procs |-> Empty]
    /\ online = [p \in Procs |-> Empty]
    /\ temp = [p \in Procs |-> NoFile]
    /\ since = [p \in Procs |-> 1]
    /\ open = {}
    /\ faults = 0 /\ hurt = {}
    /\ pair = "kept"

Goto(p, l) == pc' = [pc EXCEPT ![p] = l]

(* The deferred os.Remove of the temporary file runs on every return. It runs *)
(* before the deferred Close, so it fails on a file that is still open: that  *)
(* is a download that failed, the other returns come after line 181.          *)
Return(p, o) == /\ Goto(p, o)
                /\ temp' = [temp EXCEPT ![p] = NoFile]

Fault(p) == /\ faults < MaxFaults
            /\ faults' = faults + 1
            /\ hurt' = hurt \cup {p}

Busy == {p \in Procs : pc[p] \notin Resting}

(* A new process, which has no handle yet. Calls that overlap hurt each other. *)
Begin(p) ==
    /\ pc[p] \in Resting
    /\ Goto(p, "open")
    /\ since' = [since EXCEPT ![p] = release]
    /\ temp' = [temp EXCEPT ![p] = NoFile]
    /\ open' = open \ {p}
    /\ hurt' = IF Busy = {} THEN hurt \ {p} ELSE hurt \cup Busy \cup {p}
    /\ pair' = IF Busy = {} THEN pair ELSE "apart"
    /\ UNCHANGED <<release, files, locals, faults>>

-----------------------------------------------------------------------------
(* What is on disk. script.File opens the archive at once, and closes it when *)
(* it is read to its end, which happens only in HashTar.                      *)
OpenTar(p) ==
    /\ pc[p] = "open"
    /\ open' = IF tar # NoFile THEN open \cup {p} ELSE open
    /\ Goto(p, "stat")
    /\ UNCHANGED <<release, files, locals, temp, since, budget, pair>>

StatIgnoresArchive(p) ==
    /\ pc[p] = "stat"
    /\ exists' = [exists EXCEPT ![p] = tar # NoFile]
    /\ current' = [current EXCEPT ![p] = Empty]
    /\ online' = [online EXCEPT ![p] = Empty]
    /\ Goto(p, "readSha")
    /\ UNCHANGED <<release, files, temp, since, open, budget, pair>>

StatTar(p) ==
    /\ pc[p] = "stat"
    /\ exists' = [exists EXCEPT ![p] = tar # NoFile]
    /\ current' = [current EXCEPT ![p] = Empty]
    /\ online' = [online EXCEPT ![p] = Empty]
    /\ Goto(p, IF tar # NoFile THEN "readSha" ELSE "fetch")
    /\ UNCHANGED <<release, files, temp, since, open, budget, pair>>

ReadSha(p) ==
    /\ pc[p] = "readSha"
    /\ IF sha = NoFile
       THEN Goto(p, "hash") /\ UNCHANGED current
       ELSE Goto(p, "fetch") /\ current' = [current EXCEPT ![p] = sha]
    /\ UNCHANGED <<release, files, exists, online, temp, since, open, budget, pair>>

HashTar(p) ==
    /\ pc[p] = "hash"
    /\ IF p \in open
       THEN Goto(p, "storeTruncate") /\ current' = [current EXCEPT ![p] = tar]
       ELSE Goto(p, "fail") /\ UNCHANGED current
    /\ open' = open \ {p}
    /\ UNCHANGED <<release, files, exists, online, temp, since, budget, pair>>

(* The handle is dropped, not closed, when there is a checksum file: that is   *)
(* left to the garbage collector, or to the end of the process, which may go   *)
(* on after the call. Nothing says when.                                       *)
Collect(p) ==
    /\ p \in open /\ pc[p] \notin {"stat", "readSha", "hash"}
    /\ open' = open \ {p}
    /\ UNCHANGED <<release, files, pc, locals, temp, since, budget, pair>>

(* Writing a file is to truncate it, then to write: the two places that write *)
(* the checksum file, with the value and the call that follows.               *)
StoreSha(p) ==
    /\ \/ /\ pc[p] = "storeTruncate"
          /\ \/ sha' = Empty /\ Goto(p, "storeWrite") /\ UNCHANGED budget
             \/ FsFaults /\ Fault(p) /\ Goto(p, "fail") /\ UNCHANGED sha
       \/ /\ pc[p] = "storeWrite"
          /\ \/ sha' = current[p] /\ Goto(p, "fetch") /\ UNCHANGED budget
             \/ FsFaults /\ Fault(p) /\ Goto(p, "fail") /\ UNCHANGED sha
    /\ UNCHANGED <<release, tar, locals, temp, since, open, pair>>

-----------------------------------------------------------------------------
(* Equal checksums mean up to date, even when there is no archive and both    *)
(* are "".                                                                    *)
Compare(p, checksum) ==
    Goto(p, IF checksum = current[p] THEN "ok" ELSE "download")

(* The checksum of the release, "" when the page does not answer 200.         *)
FetchEqualsAnything(p) ==
    /\ pc[p] = "fetch"
    /\ online' = [online EXCEPT ![p] = release]
    /\ Goto(p, IF current[p] # Empty THEN "ok" ELSE "download")
    /\ UNCHANGED <<release, files, exists, current, temp, since, budget, open, pair>>

FetchNoStatusCheck(p) ==
    /\ pc[p] = "fetch"
    /\ \/ online' = [online EXCEPT ![p] = release] /\ UNCHANGED budget
       \/ PageFaults /\ Fault(p) /\ online' = [online EXCEPT ![p] = Garbage]
    /\ Compare(p, online'[p])
    /\ UNCHANGED <<release, files, exists, current, temp, since, open, pair>>

FetchChecksum(p) ==
    /\ pc[p] = "fetch"
    /\ \/ /\ \/ online' = [online EXCEPT ![p] = release] /\ UNCHANGED budget
             \/ PageFaults /\ Fault(p) /\ online' = [online EXCEPT ![p] = Empty]
          /\ Compare(p, online'[p])
       \/ Fault(p) /\ Goto(p, "fail") /\ UNCHANGED online
    /\ UNCHANGED <<release, files, exists, current, temp, since, open, pair>>

(* The archive is fetched to a temporary file, hashed on the way. The status  *)
(* of the answer is not looked at, so the content may be anything; when the   *)
(* transfer fails the temporary file stays (see Return).                      *)
Download(p) ==
    /\ pc[p] = "download"
    /\ \/ /\ temp' = [temp EXCEPT ![p] = release]
          /\ Goto(p, "verify") /\ UNCHANGED budget
       \/ /\ Fault(p)
          /\ temp' = [temp EXCEPT ![p] = Garbage]
          /\ \E l \in {"verify", "fail"} : Goto(p, l)
    /\ UNCHANGED <<release, files, locals, since, open, pair>>

NoVerify(p) ==
    /\ pc[p] = "verify"
    /\ Goto(p, IF exists[p] THEN "remove" ELSE "rename")
    /\ UNCHANGED <<release, files, locals, temp, since, budget, open, pair>>

VerifyChecksum(p) ==
    /\ pc[p] = "verify"
    /\ IF temp[p] = online[p]
       THEN Goto(p, IF exists[p] THEN "remove" ELSE "rename") /\ UNCHANGED temp
       ELSE Return(p, "fail")
    /\ UNCHANGED <<release, files, locals, since, budget, open, pair>>

-----------------------------------------------------------------------------
(* The new archive takes the place of the old one. Both errors are ignored,   *)
(* and both are certain while a process has the archive open, this one too.   *)
ShaWrittenFirst(p) ==
    /\ pc[p] = "remove"
    /\ Goto(p, "rename")
    /\ sha' = online[p]
    /\ UNCHANGED <<release, tar, locals, temp, since, budget, open, pair>>

RemoveTar(p) ==
    /\ pc[p] = "remove"
    /\ Goto(p, "rename")
    /\ \/ open = {} /\ tar' = NoFile /\ UNCHANGED budget
       \/ open # {} /\ UNCHANGED <<tar, budget>>
       \/ FsFaults /\ Fault(p) /\ UNCHANGED tar
    /\ UNCHANGED <<release, sha, locals, temp, since, open, pair>>

Blocked == tar # NoFile /\ open # {}

RenameTemp(p) ==
    /\ pc[p] = "rename"
    /\ Goto(p, "truncate")
    /\ \/ /\ ~Blocked
          /\ tar' = temp[p]
          /\ temp' = [temp EXCEPT ![p] = NoFile]
          /\ pair' = IF p \in hurt THEN pair ELSE "kept"
          /\ UNCHANGED budget
       \/ /\ \/ Blocked /\ UNCHANGED budget
             \/ FsFaults /\ Fault(p)
          /\ pair' = IF tar = NoFile THEN pair ELSE "apart"
          /\ UNCHANGED <<tar, temp>>
    /\ UNCHANGED <<release, sha, locals, since, open>>

(* downloadedChecksum is onlineChecksum here: VerifyChecksum compared them. *)
NoDeferredRemove(p) ==
    /\ pc[p] \in {"truncate", "write"}
    /\ sha' = online[p] /\ Goto(p, "ok")
    /\ UNCHANGED <<release, tar, locals, temp, since, budget, open, pair>>

WriteSha(p) ==
    /\ \/ /\ pc[p] = "truncate"
          /\ \/ sha' = Empty /\ Goto(p, "write") /\ UNCHANGED <<temp, budget>>
             \/ FsFaults /\ Fault(p) /\ Return(p, "fail") /\ UNCHANGED sha
       \/ /\ pc[p] = "write"
          /\ \/ sha' = online[p] /\ Return(p, "ok") /\ UNCHANGED budget
             \/ FsFaults /\ Fault(p) /\ Return(p, "fail") /\ UNCHANGED sha
    /\ UNCHANGED <<release, tar, locals, since, open, pair>>

-----------------------------------------------------------------------------
(* The process is killed: what it wrote stays, the temporary file with it. *)
Crash(p) ==
    /\ pc[p] \notin Resting
    /\ Fault(p)
    /\ Goto(p, "crashed")
    /\ open' = open \ {p}
    /\ UNCHANGED <<release, files, locals, temp, since, pair>>

(* A new version is published, archive and checksum together. It overtakes the *)
(* calls that have the checksum of the last one and not yet its archive.       *)
Publish ==
    /\ release < MaxVersion
    /\ release' = release + 1
    /\ hurt' = hurt \cup {p \in Procs : pc[p] = "download"}
    /\ UNCHANGED <<files, pc, locals, temp, since, faults, open, pair>>

Step(p) ==
    \/ OpenTar(p) \/ StatTar(p) \/ ReadSha(p) \/ HashTar(p) \/ StoreSha(p)
    \/ FetchChecksum(p) \/ Download(p) \/ VerifyChecksum(p)
    \/ RemoveTar(p) \/ RenameTemp(p) \/ WriteSha(p)

Next == \/ \E p \in Procs : Begin(p) \/ Step(p) \/ Collect(p) \/ Crash(p)
        \/ Publish

Spec == Init /\ [][Next]_vars

(* A call that can go on does, and the user calls update again. *)
Fairness == \A p \in Procs : WF_vars(Step(p)) /\ WF_vars(Begin(p))

FairSpec == Spec /\ Fairness

-----------------------------------------------------------------------------
(* Every variable has a value of its kind, and what is open is there.         *)
TypeOK ==
    /\ release \in Versions
    /\ tar \in {NoFile, Garbage} \cup Versions
    /\ sha \in {NoFile, Empty, Garbage} \cup Versions
    /\ pc \in [Procs -> Resting \cup Calls]
    /\ exists \in [Procs -> BOOLEAN]
    /\ current \in [Procs -> {Empty, Garbage} \cup Versions]
    /\ online \in [Procs -> {Empty} \cup Versions]
    /\ temp \in [Procs -> {NoFile, Garbage} \cup Versions]
    /\ since \in [Procs -> Versions]
    /\ open \subseteq Procs /\ (open # {} => tar # NoFile)
    /\ faults \in 0 .. MaxFaults /\ hurt \subseteq Procs
    /\ pair \in {"kept", "apart"}

(* Whatever is downloaded, by whatever processes together, and wherever they  *)
(* are killed, the archive that start imports is one that was released: its   *)
(* content was compared with the published checksum (rootfs.go:191).          *)
VerifiedContent == tar \in {NoFile} \cup 1 .. release

(* The checksum file never claims a newer archive than the one beside it: it  *)
(* would then pass for up to date for ever (rootfs.go:138). The archive is    *)
(* replaced first and the claim written after (rootfs.go:196-202); only calls *)
(* that overlap and a replacement that did not happen bring the two apart,    *)
(* until the next call that nothing disturbs has replaced the archive.        *)
ShaNeverAhead == pair = "kept" /\ tar # NoFile => sha <= tar

(* A call that meets no failure of its own and ends well leaves an archive at *)
(* least as new as the release was when it began, unless the archive could    *)
(* not be replaced (rootfs.go:91-210). A checksum page that does not answer   *)
(* is a failure: it reads as "", and equals that of no archive.               *)
Delivered(p) == pc[p] \notin Resting /\ pc'[p] = "ok" /\ p \notin hurt' => tar' >= since[p]

UpdateDelivers == [][\A p \in Procs : pair' = "kept" => Delivered(p)]_vars

(* update.go:33 "Check and download the last version of the file system.":    *)
(* the same, without the exemption.                                           *)
LastVersionDelivered == [][\A p \in Procs : Delivered(p)]_vars

(* A call that ends well leaves no temporary file, renamed or not.            *)
CleansUp == \A p \in Procs : pc[p] = "ok" => temp[p] = NoFile

(* Users who repeat update end with the last release, whatever failed on the  *)
(* way, unless the two files have come apart.                                 *)
ConvergesToRelease == <>[](tar = release \/ pair = "apart")

(* What the commands take a call for (RootFsContract, the step EnsureRootFS   *)
(* of module Lifecycle). While a call is at work the archive counts as it     *)
(* found it: between Remove and Rename there is none.                         *)
AtWork == {p \in Procs : pc[p] \notin Resting \cup {"open", "stat"}}

Contract == INSTANCE RootFsContract
              WITH archive <- IF AtWork = {} THEN tar # NoFile
                              ELSE \E p \in AtWork : exists[p],
                   does <- [p \in Procs |-> IF pc[p] \in Resting THEN pc[p] ELSE "busy"]

(* A call of EnsureRootFS, whatever it meets and wherever it is killed, is    *)
(* for the commands around it the one step of the contract.                   *)
ContractKept == Contract!Spec

=============================================================================
