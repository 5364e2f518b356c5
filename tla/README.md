# Kaweezle: a TLA+ model of its commands

Kaweezle (`src/`) is a Windows command line program, in Go, that runs a
Kubernetes cluster in a WSL distribution. It has no daemon: every command is a
process that looks at the world, makes a few calls that take long and may fail,
and ends. What is hard about it is not in one function. It is that the state lives
outside the program (the WSL registration, a virtual machine, a service inside
it, two files of the user, an archive and its checksum), that no command locks
any of it, that each call may fail or be the last one before Ctrl-C, and that the
next command has to cope with what is left.

This directory models that: the commands over the shared world
(`Lifecycle`), the download of the root file system (`RootFs`), the pipe through
which a program in the distribution logs (`LogPipe`), the elevated helper with what it
changes in Windows (`Elevated`), what is written into the distribution (`DistroConfig`), the
user's kubeconfig (`KubeConfig`), the wait for the cluster's workloads (`Workloads`), and
proofs about all seven. Paths below are relative to `src/`.

## 1. Inventory

| component | code | state | operations | talks to |
|---|---|---|---|---|
| lifecycle commands | `cmd/start.go`, `install.go`, `stop.go`, `status.go`, `uninstall.go`, `update.go` | none of their own: a local `status` | `performStart` (start, install), stop, `performStatus`, `performUninstall`, update | all the others, by calls |
| cluster | `pkg/cluster/cluster.go` | none | `GetClusterStatus`, `StartCluster`, `StopCluster`, `WaitForCluster` | WSL, iknite, workloads |
| workloads | `pkg/cluster/status.go` | none | `AllWorkloadStates`, `AreWorkloadsReady`, `WaitForWorkloads` | the cluster's API |
| WSL | `pkg/wsl/wsl.go` | the registration, the running distributions, their disks (outside) | list, import, terminate, run a command, copy a file | `wsl.exe`, wslapi |
| kubeconfig | `pkg/k8s/k8s.go`, `restclient.go` | `~/.kube/config` | `MergeKubernetesConfig`, `RemoveKubernetesConfig` | the file in the distribution |
| root file system | `pkg/rootfs/rootfs.go` | the archive and its `.sha256`, the installation directory | `EnsureRootFS`, `EnsureWSLDirectory`, `RemoveWSLDirectory` | the release page |
| configuration | `pkg/config/configure.go`, `route.go` | `/etc/conf.d/iknite`, keys and known hosts in the distribution; the hosts file and the route table of Windows | `Configure` and its parts | WSL, the elevated helper |
| elevated helper | `pkg/config/elevated.go`, `cmd/configure.go:196-232` | a second, elevated process; the client cached in `elevatedClient` | `StartElevatedServer`, the four RPCs, `ReleaseElevatedClient` | gRPC over a named pipe |
| log pipe | `pkg/logger/pipe.go`, `wsl.go:223-249` | the pipe between iknite and kaweezle | `LaunchAndPipe`, `PipeLogs` | iknite |
| console formatter | `pkg/logger/log.go` | spinners | layout of log lines | |
| command line | `cmd/root.go`, `main.go` | flags, settings | binding | |
| gRPC stubs | `pkg/config/elevated*.pb.go` | | generated | |

What makes each correct, and where it is hard:

- **lifecycle.** A command that fails or is killed leaves a world the others
  accept: `start` after anything gets through, `uninstall` leaves nothing behind
  or says so, nothing takes the disk from a registered distribution. What a command
  reports was so at some moment while it ran, although it reads the world call by
  call and other commands run. Commands come back.
- **cluster.** `GetClusterStatus` is three reads (`cluster.go:71,73,81`); the third
  would start a distribution that is down. `StopCluster` drops two errors.
- **WSL.** `GetDistributions` loses the error of `wsl --list` (`wsl.go:125`).
- **kubeconfig.** Read, change, write, with no lock and a truncation, of a file that is the
  user's: his contexts must survive, and kubectl must be left with a current context.
- **configuration.** Files are written by shells that report the status of their last
  command, and the conf file is filtered into itself; success has to mean that it is set.
- **root file system.** Two files that have to agree, replaced by five calls that
  may each be the last; errors of two of them are ignored.
- **elevated helper.** Two processes that must find each other and end together.
- **log pipe.** A bounded pipe whose reader may stop reading.
- **workloads.** A poll of several requests, over a cluster that changes between them, with
  a timeout, that treats every error as final. What it says has to be so, and it has to end.

`PROJECT.json` lists every hazard at its line, with the properties that cover it.

## 2. Modules

| module | models | depends on |
|---|---|---|
| `Lifecycle` | all six commands over the shared world | |
| `ClusterPromise` | what a user may rely on when commands are given at the same time | |
| `LifecycleHistory` | `Lifecycle` with what each command in flight has witnessed | `Lifecycle`, `ClusterPromise` (refinement) |
| `LifecycleProofs` | theorems about `Lifecycle` given one after the other, and its use of the kubeconfig | `Lifecycle`, `ContextContract` (refinement) |
| `LifecycleHistoryProofs` | theorems about `LifecycleHistory` under every interleaving, and that it implements `ClusterPromise` | `LifecycleHistory`, `LifecycleProofs` |
| `RootFsContract` | what a command may rely on when it has the archive ensured | |
| `RootFs` | `EnsureRootFS`, call by call | `RootFsContract` (refinement) |
| `RootFsProofs` | theorems about `RootFs`, and that it implements `RootFsContract` | `RootFs` |
| `LogStream` | what `LaunchAndPipe` promises of log lines | |
| `LogPipe` | `LaunchAndPipe` and `PipeLogs`, with the pipe and the program | `LogStream` (refinement) |
| `LogPipeProofs` | theorems about `LogPipe`, and that it implements `LogStream` | `LogPipe` |
| `Elevated` | the route and the domain names, by commands and their elevated helpers | |
| `ElevatedProofs` | theorems about `Elevated` | `Elevated` |
| `Workloads` | the wait for the workloads, by start and by status | |
| `WorkloadsProofs` | theorems about `Workloads` | `Workloads` |
| `KubeConfig` | merge and removal of the context in the user's kubeconfig | |
| `ContextContract` | what a command may rely on when it has the context merged or removed | |
| `KubeConfigProofs` | theorems about `KubeConfig`, and that it implements `ContextContract` | `KubeConfig`, `ContextContract` (refinement) |
| `DistroConfig` | keys, known hosts and conf file in the distribution | |
| `DistroConfigProofs` | theorems about `DistroConfig` | `DistroConfig` |
| `MCLifecycle`, `MCLifecycleHistory`, `MCRootFs`, `MCLogPipe`, `MCElevated`, `MCWorkloads`, `MCKubeConfig`, `MCDistroConfig` | instances for TLC | |

How they go together: `Lifecycle` is the whole program with each function a step or a few.
The other modules open one of these steps each: `RootFs` the step `EnsureRootFS`,
`DistroConfig` and `Elevated` the step `Configure`, `LogPipe` the steps `Launch` and
`LaunchDone`, `KubeConfig` the steps `MergeLoad` to `MergeWrite` and `RemoveLoad` to
`RemoveWrite`, `Workloads` the step `Wait`. `Lifecycle` takes from them only what can come
out: done, failed, or killed with what that leaves.

What is promised at such a seam is a module of its own. `ContextContract` is what merge and
removal are to a command: a load that settles what will be written, a write, and the context as
it was or none where it stops in between. It is proved on both sides: `KubeConfig` keeps it
with one process at the file, and `Lifecycle` uses the file by its steps, with any number of
commands. With two processes at the file `KubeConfig` does not keep it (one can load what the
other has just truncated), so for two merges or removals that overlap `Lifecycle` is simpler
than the code; module `KubeConfig` has what happens then. `RootFsContract` is what
`EnsureRootFS` is to a command: its action `End` is the step `EnsureRootFS` of `Lifecycle`.
Any number of processes keep it, whatever fails; calls that overlap are promised nothing, as
one can see the gap between the other's `Remove` and `Rename` (`rootfs.go:197-200`).
`ClusterPromise` is what the commands are to the user.

### Lifecycle

A process `p` has a program counter `pc[p]` naming **the call it makes next**,
the command `cmd[p]`, the result `status[p]` of `GetClusterStatus`, and `snap[p]`,
the part of the kubeconfig it has read and will write. Each call that leaves the
process is one action, so other processes act between any two calls; what is
computed between two calls belongs to the action of the first.

| action | code |
|---|---|
| `IsRegistered`, `List`, `FileExists` | the reads of `GetClusterStatus` |
| `Decide` | what `performStart`, stop, `performStatus`, `performConfigure` do with the status (`StartAfter`, `StopAfter`, ...) |
| `StatRootFS`, `EnsureRootFS`, `EnsureWSLDirectory`, `RegisterDistribution` | `start.go:75-90` |
| `Configure`, `Launch`, `LaunchDone`, `MergeLoad`, `MergeWrite`, `Wait` | `start.go:94-107` |
| `StopList`, `RcStop`, `Terminate` | `StopCluster`, for stop and inside uninstall |
| `Uninstall`, `Unregister`, `RemoveLoad`, `RemoveWrite`, `RemoveDir` | `uninstall.go:43-64` |
| `Crash` | the process is killed, between two calls or inside one that rewrites a file |
| `HostStop` | Windows shuts the distribution down |
| `IkniteWritesKubeconfig`, `IkniteServiceUp`, `OrphanEnds` | the process `iknite start` inside the distribution |

The world is `registered`, `running`, `iknite` (the file
`/run/openrc/started/iknite`), `kubeconf` (`/root/.kube/config` in the distribution),
`wslDir`, `jobs` and `orphan` (`iknite start` processes, with and without the
kaweezle that launched them); the user's files are `tar` and `ctx`, the kaweezle
context of `~/.kube/config`: `none`, `current`, or `stale` once the
distribution it was taken from is gone.

Outside `src/`, and modelled from how the code uses it: an import and an unregister
happen or do not; any `wsl -d`, `WslLaunch` or `\\wsl$` access starts a stopped
distribution; a distribution that stops loses `/run` and its processes; the
directory of a running distribution cannot be deleted.

### ClusterPromise and LifecycleHistory

`ClusterPromise` knows the condition of the cluster (`Uninstalled`, `Stopped`, `Idle`: running
without the service, `Started`), whether an `iknite start` is at work, and for each process its
command, the conditions since it began, and whether it met a failure. It says which command may
move the cluster from which condition to which (`Ways`), that the service comes up only by an
`iknite start`, which only a start launches, and what a command has met when it ends well
(`Earned`): start the cluster up, uninstall the registration gone, stop the distribution down
unless it met a failure. `LifecycleHistory` adds `held`, what each command in flight has
witnessed, and implements it.

### RootFs

`EnsureRootFS` in thirteen calls, by any number of processes. Content and checksum are
one number, the release they belong to, so that "newer" has a meaning; `Garbage` is
content of no release and `Empty` the checksum `""`. A file is written in two steps,
truncation and content (`StoreSha`, `WriteSha`). `Publish` puts out a release at any
moment, also between the fetch of the checksum and the download. `Return` models the
two deferred calls and their order.

`open` is the processes that have the archive open. `script.File` opens it at once
(`OpenTar`, `rootfs.go:104`), and only `HashTar`, which reads it to its end, closes it; where
there is a checksum file the handle is dropped, and `Collect` closes it when Go's collector runs,
or not. On Windows an open file can be neither removed nor replaced, so `RemoveTar` and
`RenameTemp` cannot succeed while somebody, the process itself included, has the archive open.

Two variables are history. `hurt` is the processes whose call met a failure, another call, or a
release that overtook it. `pair` is `"apart"` once calls overlapped or an archive was not
replaced, until a call that nothing disturbs replaces it: only then may the checksum file be
ahead of the archive.

In `Lifecycle` the whole function is the one step `EnsureRootFS`: without a failure
the archive is there afterwards, with one anything may be. `ContractKept` is the first
half; and a success without an archive is really possible, which is the second.

### LogStream and LogPipe

Cells of what the program writes are numbered `1 .. total`; `ends` are the newlines. Three
cursors say where everything is: `wrote` (into the pipe), `read` (into the scanner's
buffer) and `taken` (logged). What is in the pipe and in the buffer is the interval between
two of them, so contents need no sequences. `logged` is the set of the pieces logged.

| action | code |
|---|---|
| `Launch`, `CloseOwn`, `Wait` | `LaunchAndPipe`, before, at and after `PipeLogs` (`wsl.go:223-249`) |
| `Read` | `bufio.Scanner` takes any part of what the pipe holds and its buffer has room for |
| `LogLine`, `LogRest`, `EndOfLog`, `GiveUp` | one round of the loop `pipe.go:82-96`: a line, the rest after the last newline, the end, a full buffer without a line |
| `Log` | the four forms of line (`AllForms`): an entry, JSON that is no entry, plain text, an entry of level panic |
| `Collect` | the garbage collector closes the read end, which no code closes |
| `Write`, `WriteBroken`, `Exit`, `Fail` | the program, which a full pipe holds up |

`EveryLineLogged` is the refinement: with `sent` the newlines written and `shown` those that
end a logged piece, `LogPipe` implements `LogStream`, whose `result` is `cut` when
the scanner gave up or kaweezle died of a panic line.

### Elevated

Each command `p` has a helper of its own (the pipe's name is random), so both are indexed by
`p`. `pc` is the call the command makes next; `helper` the life of the helper; `work` what is
done next about the command's request, in the helper, or in the command when it is elevated
(`task[p].admin`); `image` the hosts file read and changed but not yet saved. `hosts` and
`routed` are shared. `alone[p]` records that no other command was at work since `p` began, and
`spoilt` that a save was cut off, or the file read by another command, while it was truncated.

| action | code |
|---|---|
| `Begin` | `start`, `configure`, `configure domains`, `configure route`, with names and `--remove` |
| `RouteToWSL`, `AddOrRemoveRoute` | `route.go:37-97`, `17-35` |
| `ConfigureDomains`, `Check`, `ReadHosts`, `TruncateHosts`, `WriteHosts`, `Answer` | `configure.go:109-197`, in the command and again in the helper; the file is read, truncated and written in three steps, and a write that fails may have written a part |
| `GetElevatedClient`, `Dial`, `Listen` | `elevated.go:97-149`, `cmd/configure.go:190-227` |
| `Release`, `Stop`, `HelperStops`, `Stopped` | `root.go:63-66`, `elevated.go:62-70`, `cmd/configure.go:213-216`, `elevated.go:151-158` |
| `Kill`, `HelperDies` | outside: either process ends at any moment; the helper goes on with a request it has received |

`AfterError` keeps the difference between the commands: `start`, `domains` and `route` exit in
`CheckErr`, without the release; `configure` drops the error (`cmd/configure.go:149`) and
releases. An elevation that fails may have asked the user, who refused, or not. Assumed from
outside: the route is there or not (the gateway's address is left out); `route` may refuse to add what is there and to
delete what is not; a helper that lives listens before gRPC gives up connecting.

### Workloads

`WaitForWorkloads` for one command; waiters only read, so several do not disturb each other.
`state` is what each workload is, as its status viewer would say: `unready`, `ready`, or
`broken`, a status that is an error (a deployment past its progress deadline). A round of
`PollImmediate` is four or five requests, each a step, between which the cluster moves.

| action | code |
|---|---|
| `Begin`, `Return` | `start.go:98-106`, `cmd/status.go:52-92`: start waits for a positive `--timeout`; status with a timeout of 0, and without `-w` exits in the callback; neither looks at the result |
| `NewRESTClient` | `restclient.go:33-45`; its failure ends the wait of start, and fails status |
| `Round`, `Poll` | `status.go:203-205`: a round begins at once, at each tick, and once more when the time is over |
| `HasApplications` | `status.go:106-123`, anew in each round |
| `List` | `status.go:125-174`, a request per kind |
| `AreWorkloadsReady`, `Verdict` | `status.go:178-201`: an error, all ready, time over, or another round |
| `Timeout` | the timer of `PollImmediate`, from the end of its first round |
| `Create`, `Settle`, `Setback`, `KnowApplications` | outside: the cluster, and the installation of Argo CD |

`began`, `moved` and `unsettled` are history: the workloads there when the round began, those
that have left `ready` since, and whether one was not ready after the timeout.

### KubeConfig

The file `home` is a record: `own`, the installation the distribution's context leads to (0
without one), `others`, the contexts of the user, and `current`. `mine` is what the user made
and did not delete, so that losing something can be said. `spoilt` records that a rewrite
was overlapped by another writer, or stopped over the truncated file: from then on nothing is
promised.

| action | code |
|---|---|
| `LoadDistro`, `LoadHome` | `ClientConfigLoadingRules.Load`, `k8s.go:38-44`, `58-64`: two files for a merge, one for a removal |
| `Merged`, `Removals` | what is written: for a merge the first file that says something wins; a removal picks another current context, any |
| `Truncate`, `Write` | `clientcmd.WriteToFile`, `k8s.go:49`, `78` |
| `Stops` | an error, or a kill; over the truncated file too |
| `Add`, `Delete`, `Use`, `Install`, `Uninstall` | outside: the user with kubectl, the distribution |

### DistroConfig

A task (`age`, `ssh`, `kustomize`, `hosts`) is one of the functions that `Configure` calls, or
the whole of a command; `todo[p]` is what `p` has left. `conf` is the lines of
`/etc/conf.d/iknite`, `files` the three files: `none`, `begun`
(opened where there was no whole file), `torn` (opened where there was one) or `whole`.
`asked` and `found` are history: the tasks and the lines at the begin of a command, emptied
when it is excused, because another was at work or a failure was hidden from it. `crossed`
records that a command had the export of the age key, in its filter or as the line it is to
write, when the distribution was last replaced.

| action | code |
|---|---|
| `Begin`, `Proceed`, `First` | `configure.go:73-92`, and the commands `age`, `ssh`, `kustomize`, `ssh-hosts` |
| `OpenFile`, `KeepFile`, `FillFile`, `FillFails` | `wsl.go:283-317`, `configure.go:199-219`: the shell opens, fills, and reports its last command |
| `FilterConf`, `FilterFails`, `RewriteConf`, `RewriteFails` | `configure.go:39`, `66`: the file filtered into itself, whose error is dropped |
| `AppendLine` | `configure.go:40`, `67` |
| `Fails`, `Killed`, `Exit` | errors, which `configure` hides (`cmd/configure.go:149`), and kills |
| `Reinstall` | outside: an uninstall and a start, at any moment, as no command takes a lock; the shells in the distribution end with it (`cut`), and the commands go on with the new one |

The filter reads in one goroutine while another opens the same file with `O_TRUNC`. The file is
smaller than the filter's buffer, so it finds all of it or nothing; that is the choice
in `FilterConf`.

## 3. Runs

| run | instance | question |
|---|---|---|
| `lifecycle_serial` | one process, all commands, both `--root`, 3 failures with host stops | Do commands given one after the other, for ever, keep the world in order? `RegisteredHasDisk`, `NoDanglingContext`, `UninstallClean`, `StartBlockedOnlyByRootFS` (recovery), `StatusNeverBoots`, `StartGivesContext`, `StopStops` |
| `lifecycle_concurrent` | two processes, start, stop, status, configure, uninstall, 2 failures with host stops | What may commands given at the same time do and say? `StatusWasTrue`: a status was so at some moment. `PromiseKept` (refinement of `ClusterPromise`) |
| `lifecycle_retry` | two processes repeating start, 2 failures with host stops | `RetryConverges`: the cluster ends up, and stays. `StartReturns`: no start hangs |
| `rootfs` | two processes, 2 releases, 2 failures of any kind, kills, the archive open | What is on disk, whatever updates do together? `VerifiedContent`, `CleansUp`, `ShaNeverAhead`, `UpdateDelivers`, `ContractKept` (refinement of `RootFsContract`), `ConvergesToRelease` |
| `update_replaces` | one process, 2 releases, no failure | violated: see Findings |
| `logpipe` | up to 6 cells, pipe of 2, scanner of 3, all forms of line | `WholeLines`, `BrokenByLongLine`, `EveryLineLogged` (refinement), `LaunchReturns` |
| `elevated` | two commands (`start`, `domains`, `route`), one name and a foreign one, 1 failure | What do commands at work together leave alone, and when do they ask? `ForeignKept`, `PromptsForCause` |
| `elevated_one` | one process, all commands, two names, 2 failures | `SuccessIsDone`, `CommandReturns`, `HelperEnds` |
| `workloads` | a deployment, a stateful set and an application, one setback, all commands | Is what the wait says so, and does it end? `ReadyIsTrue`, `GivesUpHonestly`, `WaitReturns` |
| `kubeconfig` | two processes, two contexts of the user, two installations | `UserKept`: are the user's contexts safe? `CurrentLeads`: where does kubectl point after a rewrite? |
| `distroconfig` | two processes, two urls, six plans, the distribution replaced at any moment | `KeyBeforeExport`, `SuccessSets`: does success mean set, whatever was there? |
| `fresh_start` | one process, no archive | violated: see Findings |

**Bounds.** `MaxFaults` bounds the failures, kills and host stops of a behaviour;
commands themselves are not bounded. Three failures let an interrupted command be
followed by an interrupted repair and an interrupted removal, the longest chains the
code's recovery paths have. Two processes are enough for every pair of commands to
interleave at every call; processes share nothing that distinguishes a third.
In `rootfs` a second release is what an archive can be older than, and it may come at any call;
a third one would only overtake the same calls again. In `logpipe` six cells
are enough for a line longer than the scanner's buffer before, between and after lines that
fit, with the pipe full behind it. In `elevated` the failure may be a refusal, a kill of
either process, or a failing call; two names in `elevated_one` make "some" and "all" of the
names differ. Deadlock is not checked there, because a command whose helper died really
stops. In `workloads` an application has to be able to appear after the first round, beside kinds
that are always listed, and one workload to go back once it was listed; a daemon set is treated
as a stateful set is. In `kubeconfig` two processes and the user make
every pair of writers, a second installation makes a context stale, and two other contexts make
the choice of a removal a choice. In `distroconfig` the plans are each task alone, two tasks at the
conf file, and everything; two urls make one replace the other. Failures and kills are not
bounded in these two. Symmetry is used in safety runs only.

**Fairness** (`FairSpec`). A process that can make its next call makes it, since
nothing but the call itself holds it up (`WF` on `Step`); the user repeats his command
(`WF` on `Begin`); iknite, once launched and as long as its distribution runs, writes
its kubeconfig and brings the service up. There is none on failures, kills, host
stops, releases, the end of an orphaned iknite, nor on the collector that closes the archive
(`Collect` of `RootFs`). Everything the code waits for
without a limit, which is `iknite start`, comes back under these assumptions.

In `LogPipe`, kaweezle and the program go on when they can, and the garbage collector runs
(Go forces a collection every two minutes). The last one matters: without `WF` on `Collect`,
`LaunchReturns` is false, since a program blocked on a pipe nobody reads is waited for
without a limit. In `Elevated`, a command and a helper that can go on do; nobody has to give
a command, and nothing fails fairly. In `Workloads` requests are answered or fail (the client has
its time limits), ticks come and the timer fires; nothing is assumed of the cluster, and
`WaitReturns` says under which behaviour of it status `-w` returns. `KubeConfig` and
`DistroConfig` have no loop or wait in the code, and no liveness property.

## 4. What is proved

For every number of processes, every set of commands, and every bound.

`LifecycleProofs`

- `TypeCorrect`: `TypeOK`, which includes that a process is only ever at a call of the
  command it runs (`AtCall`). No further assumption.
- `RegisteredHasDiskHolds`: `Serial`, or no `uninstall` among the commands. In the second
  case the invariant is inductive by itself: only an unregister or a `RemoveAll` takes
  the disk.
- `UninstallCleanHolds` and `NoDanglingContextHolds`: assuming `Serial`. They rest on
  `SerialInv`, which has three parts: `Alone`, at most one process is in flight;
  `Removal`, what an uninstall past its unregister has established (not registered, not
  running, and after `removeWrite` no context), which a crash discards with the process;
  `Staleness`, without a failure a context is stale only while the uninstall that made
  it so is about to remove it. `SerialCorrect` is the induction. `Alone` is why
  `Removal` is stable: no other process registers the distribution again.
- `StopStopsHolds`: no assumption. From `Grounded`, what runs is registered, so that a listing
  which does not show it running means that it is down.
- `StartGivesContextHolds`: assuming `Serial`. From `Merged`: without a failure, a cluster that
  is up has its context merged or is about to by the one start there is, which is why a start that
  finds it up may skip the merge.
- `StartBlockedOnlyByRootFSHolds`, `StatusNeverBootsHolds`: assuming `Serial`. From `OnCourse`,
  which gives for each call what the calls before it made sure of, in any world that failures,
  kills and host stops have left, for a command that the host does not stop under it.
- `ContextKeptHolds`: no assumption. `Lifecycle` implements `ContextContract`, one lemma for each
  way to use the file. From `Rooted`: a context, or a copy of one, is current only while the
  distribution has a kubeconfig, so that an unregister without one ages nothing.

`LifecycleHistoryProofs`: everything here is for commands given at the same time.

- `WitnessCorrect`: what each command remembers at each call was so since it began, whatever
  others did. From it, and from `Alive` (a distribution that shows the service is running),
  `StatusWasTrueHolds`, assuming `~ListFaults`: a listing that fails unseen makes a status up.
- `PromiseKeptHolds`: no assumption. `HistorySpec` implements `ClusterPromise`: `WayStep` shows
  the ways of the cluster, `ComingStep` who launches iknite, `EarnedStep` what the ends are worth,
  and `BeginStep`, `ActStep`, `CrashStep` put them together.
- `UpStaysUp`: no assumption. No start, status or configure takes a cluster down that is up; that
  takes the host, or a stop or an uninstall in flight.
- `NoCallTwice`: no assumption. Every call moves its command forward, so none makes more than
  sixteen. It is the half of `StartReturns` and `RetryConverges` that can be proved here:
  what is left to fairness is that each call comes back.

`RootFsProofs`

- `TypeCorrect`: no assumption.
- `VerifiedContentHolds`: no assumption on processes or failures. The invariant
  `Verified` says that between the comparison and the rename the temporary file, which
  is the process's own, has the content of a published checksum.
- `ShaNeverAheadHolds`, `UpdateDeliversHolds`: no assumption; the second is about a call that met
  no failure, other call or release. The invariant `Ordered` relates the two files, the locals
  and the temporary file at every call of a process that is `Trusted`: one that nothing
  disturbs, or any while the files have not come apart. The replacement by such a call
  is what brings them together again.
- `ContractKeptHolds`: no assumption. `RootFs` implements `RootFsContract`, from
  `Sound`: a call that has met no failure and no other call has, at each of its calls, what it
  needs for the next, so that it succeeds and leaves an archive, whatever the calls before it
  have left.
- `CleansUpHolds`: no assumption. From `Tidy`, until the download there is no temporary file.

`LogPipeProofs`

- `TypeCorrect`: no assumption. The bounds of pipe and buffer are part of `TypeOK`.
- `WholeLinesHolds`, `BrokenByLongLineHolds`: from the invariant `IInv`, which says where the
  cursors may stand: what is taken ends at a newline, or at the end of a program that has
  ended; every newline taken ends a piece logged; a scan that gave up had a full buffer without
  a newline behind the last piece; and how far `LaunchAndPipe` has come.
- `EveryLineLoggedHolds`: `Spec => Stream!Spec`. Each step is a step of `LogStream` or changes
  nothing it sees; a newline inside a piece is excluded by the invariant.

`ElevatedProofs`

- `TypeCorrect`: with `Staged`, how a command, its client and its request go together.
- `OnePromptHolds`: from `Staged`, a command in flight without a client has not asked yet.
- `ForeignKeptHolds`: no assumption. While nothing is spoilt, every image on its way to the disk
  has the foreign name's address, and so has the file unless it is truncated.
- `SuccessIsDoneHolds`, `PromptsForCauseHolds`: from `Lone`. While the others are quiet
  (`Others`), what the command found and did stays true (`Relied`): past the route the route
  is right, past the names the names are, an image is the change of the file as it is now.
  `QuietStep` shows that helpers left behind by other commands touch nothing.

`WorkloadsProofs`

- `TypeCorrect`: no assumption.
- `ReadyIsTrueHolds`: from an invariant that says of each workload which existed when the round
  began and has not moved since: once its kind was listed, if it was listed as ready it is ready.
  An application exists only after its kind does, so the discovery of the round has found it.
- `GivesUpHonestlyHolds`: a round that is the last began after the timeout, so what it saw not
  ready was not ready then.

`KubeConfigProofs`

- `TypeCorrect`: no assumption.
- `UserKeptHolds`: from `Kept`: unless spoilt, a process that has loaded the file knows the
  user's contexts (or another has the file open, and it will spoil that one's write), at most
  one process has the file open, and while none has, the contexts are in it.
- `CurrentLeadsHolds`: a property of one step, from `TypeOK`.
- `ContextKeptHolds`: one process; the user edits, and the distribution is installed and removed,
  at any moment. While the file is open its context counts as what was found in it. From
  `Held`: between its load and its write nobody changes the context under the process, and
  installations are numbered in their order, so that no new one is found in an old copy.

`DistroConfigProofs`

- `TypeCorrect`: no assumption.
- `KeyBeforeExportHolds`: no assumption. From `Keyed`: unless `crossed`, who is at the conf file
  for the age key has seen the key whole, and a copy being filtered has an export only if there is
  a key. It does not matter who else is at work, because a key once whole is at worst torn, until
  the distribution is replaced; then nothing is left to be ahead of its key, but for what a
  command has in hand.
- `SuccessSetsHolds`: from `OnCourse`: a command that is not excused is alone; what it has
  done is still so, and what it found in the conf file is in the file or in its copy.

Only model-checked: the liveness properties (`RetryConverges`, `StartReturns`,
`ConvergesToRelease`, `LaunchReturns`, `CommandReturns`, `HelperEnds`, `WaitReturns`). The
induction that liveness under fairness needs, and `ENABLED`, are beyond the provers used.
What `UpStaysUp`, `NoCallTwice` and the two `ContextKeptHolds` state is proved and in no run:
TLC agreed on the instances of `lifecycle_concurrent`, `lifecycle_serial`, and `kubeconfig` with
one process.

## 5. Findings

`README.md:142-149` installs with `kaweezle start`; the default of `--root` is a path,
so the branch that downloads (`start.go:76`) is not taken and the command fails. Run
`fresh_start` shows it.

`cmd/update.go:33` says of `update`: "Check and download the last version of the file system."
`EnsureRootFS` opens the archive to hash it (`rootfs.go:104`), and when there is a checksum file
drops the handle without closing it. Unless Go's collector has closed it by then, Windows refuses
to remove (`rootfs.go:197`) and to replace (`rootfs.go:200`) the file, by the process's own
fault; both errors are dropped, the new checksum is written, and `update` reports success. From
then on every update finds the old archive up to date. Run `update_replaces` shows it, with one
process and no failure at all; the long download makes it rare, and nothing excludes it.

**Limits of what holds.** Some properties are stated for commands given one after the
other because they are false otherwise. With a start and an uninstall in flight and no
failure at all, `RemoveAll` can delete the disk of the distribution the start has
imported meanwhile (`RegisteredHasDisk`), and the start's kubeconfig, read before the
unregister, can be written after the removal (`NoDanglingContext`). Two updates of
different releases can leave the older archive beside the newer checksum (`ShaNeverAhead`
exempts calls that overlap). Two commands that bind names at once can lose each
other's (`SuccessIsDone` asks that nobody disturbs). The repository promises nothing about
such use, so these are limits and not findings.

Others are exempted in the properties themselves. A command whose helper has died waits
for ever: the dialer ignores its context (`elevated.go:118`), and `CommandReturns` exempts
it. A command that fails after the elevation leaves its helper behind, elevated and waiting,
since `CheckErr` skips `PersistentPostRun`; `HelperEnds` is about commands that end
well. `configure` exits 0 when the user refused the elevation, so `SuccessIsDone` leaves it
out. A log line longer than the scanner's buffer ends the logging without a word, and a
line of level panic ends kaweezle; `EveryLineLogged` calls both a cut.

Where a property above names a condition, this is what happens without it; each was seen as a
counterexample of the property without the condition.

- `StopStops` asks that the stop met no failure. A failing `wsl --list` reads as an empty list
  (`err` is shadowed, `wsl.go:125`), and stop then reports success with the cluster running.
- `StartGivesContext` asks that nothing has failed on the machine. A start killed after it has
  launched iknite leaves the next start a cluster that is up, and no start merges the context
  any more (`start.go:74`).
- `ShaNeverAhead`, `UpdateDelivers` and `ConvergesToRelease` exempt files that have come apart
  (`pair`): an archive that could not be replaced is left beside the new checksum, because the
  errors of `Remove` and `Rename` are dropped (`rootfs.go:197,200`; see the second finding), and
  then passes for up to date until the release changes again.
- `UpdateDelivers` and `ContractKept` leave out a call that met a failure. A checksum page that
  does not answer 200 reads as `""` (`rootfs.go:71`), the checksum of no archive: update reports
  success without one.
- `ForeignKept` exempts a hosts file that was truncated when a helper died, a write failed, or
  another command read it (`spoilt`): the names of the user are then lost (`configure.go:159`).
- `PromptsForCause` counts a removal as a cause although there may be nothing left to remove:
  `ConfigureDomains` looks only at names to add (`configure.go:110`), so `domains --remove` given
  again asks the user again.
- `KeyBeforeExport` exempts a distribution that was replaced while a command had the export in its
  hand (`crossed`): the line is then written into the new one, which has no key.
- `StatusWasTrue` asks that no listing fails: the failure is lost (`wsl.go:125`), and a status that
  was never so is reported.
- `StatusNeverBoots` exempts a status under which the host stops the distribution: it has listed
  it as running, and its third read starts it again (`cluster.go:81`).
- `UserKept` exempts overlapping rewrites and a rewrite killed over the truncated file. The
  lock that kubectl takes is not taken, so both lose contexts of the user.
- `CurrentLeads` exempts a file without contexts: a removal of the last one leaves its name in
  `current-context` (`k8s.go:68`). A merge makes the distribution's context the current one,
  whatever the user's was, as the first file wins.
- `SuccessSets` exempts a filter that found the conf file truncated by its own write: all lines
  that were there, other exports included, are then lost, and the command succeeds. It asks of
  known_hosts only that it is there: `ssh-hosts` adds nothing to a file that exists, and a
  failed `ssh-keyscan` leaves an empty one, which no later command fills (`configure.go:200-204`).
- `WaitReturns` asks nothing of `status -w` unless the workloads settle: it waits without a limit,
  where its flag says "Wait n seconds" (`cmd/status.go:42,90`). A cluster
  without workloads counts as ready, and one failing request ends the wait.

## 6. Plan

Next, in order of weight:

1. The gateway's address in `Elevated`: `RouteToWSL` compares it with the route's source
   (`route.go:59`), and it changes when Windows boots.
2. Contracts for the other seams as `ContextContract` is for the kubeconfig: `Configure`
   (`DistroConfig`, `Elevated`) and `Wait` (`Workloads`).

Not modelled, and why:

- `pkg/logger/log.go`: the layout of log lines and spinners. No command reads it back.
- `cmd/root.go` and `main.go`: the binding of flags, environment and settings file. Its outcome
  is a constant of the modules (`RootFlags`, `Commands`, `Plans`). Reading it showed that
  `initConfig` runs before flags are parsed, so `--config` has no effect.
- `pkg/config/elevated*.pb.go`: generated.
- `arePodsReady`, `waitForPodsReady` (`cluster.go:145-166`), `ClientSetForDistribution` and the
  pod helpers (`k8s.go:85-146`): called from nowhere in the program.
- The level filter of logrus: `LogPipe` counts a line as logged when it is handed to the logger,
  which with `-v warn` or `-v error` shows fewer. What `kaweezle` reads does not depend on it.
- In `Lifecycle` the wait of a status fails only where there is no kubeconfig; `Workloads` has the
  other failures to make a client (`restclient.go:33-45`).
- `FindWSL`, `FirewallInterface`, `GetNatGatewayIpAddress` and the parsing of the listing: reads of
  the system whose result is a choice in the models.
