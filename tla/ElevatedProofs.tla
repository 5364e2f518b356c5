---------------------------- MODULE ElevatedProofs ----------------------------
(* Theorems about Elevated, for any commands, domain names and failures. *)
EXTENDS Elevated, TLAPS

USE ElevatedAssumption DEF ElevatedAssumption

LEMMA NoImageType == NoImage \in [Names -> Addresses]
  BY DEF NoImage, Addresses

LEMMA TypeInit == Init => TypeOK
<1> SUFFICES ASSUME Init PROVE TypeOK
  OBVIOUS
<1>1. hosts \in [Names -> Addresses]
  BY DEF Init, Addresses
<1>2. faults \in 0 .. MaxFaults
  BY DEF Init
<1> QED
  BY <1>1, <1>2, NoImageType DEF Init, TypeOK, Resting, Awaiting, Alive

LEMMA FaultType ==
    ASSUME TypeOK, Fault \/ UNCHANGED faults
    PROVE  faults' \in 0 .. MaxFaults
  BY DEF TypeOK, Fault

LEMMA OverType ==
    ASSUME TypeOK, NEW p \in Procs, NEW names
    PROVE  Over(p, names) \in [Names -> Addresses]
  BY DEF TypeOK, Over

LEMMA ChangedType ==
    ASSUME TypeOK, NEW t
    PROVE  Changed(t) \in [Names -> Addresses]
  BY DEF TypeOK, Changed, Addresses

(***************************************************************************)
(* How a command, its client and its request go together. A command at rest  *)
(* has no client; one that still needs one has not asked the user; and only  *)
(* a command that waits has a request.                                       *)
(***************************************************************************)
Rested == \A p \in Procs : pc[p] \in Resting => ~client[p]

Stage(p) ==
    /\ prompts[p] <= 1
    /\ pc[p] \notin Resting => task[p] \in Tasks /\ Sensible(task[p])
    /\ pc[p] \notin Resting \cup {"release", "stop"} /\ ~client[p] => prompts[p] = 0
    /\ pc[p] \notin Resting \cup Awaiting => work[p] = "none"
    /\ pc[p] = "awaitRoute" => work[p] \in {"route", "done", "error"}
    /\ pc[p] = "awaitHosts" => work[p] \in {"check", "read", "save", "write", "done", "error"}
    /\ pc[p] \in {"route", "getRoute", "awaitRoute"} => task[p].kind # "domains"
    /\ pc[p] \in {"hosts", "getHosts", "awaitHosts"}
           => task[p].kind = "domains" \/ task[p].names # {}

Staged == Rested /\ \A p \in Procs : Stage(p)

(* How GetElevatedClient fails. *)
Refused(p) ==
    /\ Goto(p, AfterError(task[p]))
    /\ \E asked \in {0, 1} : prompts' = [prompts EXCEPT ![p] = @ + asked]
    /\ UNCHANGED <<task, client, helper, work>>

LEMMA TypeInductive == TypeOK /\ Rested /\ [Next]_vars => TypeOK'
<1> SUFFICES ASSUME TypeOK, Rested, [Next]_vars PROVE TypeOK'
  OBVIOUS
<1> USE DEF Goto, Leave, Work, Result, Request, Resting, Awaiting, Alive, AfterError,
    AfterRoute, command, server, windows, Quiet
<1>1. ASSUME NEW p \in Procs, Begin(p) PROVE TypeOK'
  <2>1. PICK t \in Tasks :
            /\ task' = [task EXCEPT ![p] = t]
            /\ pc' = [pc EXCEPT ![p] = IF t.kind = "domains" THEN "hosts" ELSE "route"]
    BY <1>1 DEF Begin
  <2>2. /\ helper' = [helper EXCEPT ![p] = "none"] /\ ~client[p] /\ alone' \in [Procs -> BOOLEAN]
        /\ prompts' \in [Procs -> Nat]
        /\ UNCHANGED <<client, work, image, hosts, routed, spoilt, faults>>
    BY <1>1 DEF Begin, TypeOK, Rested
  <2> QED
    BY <2>1, <2>2 DEF TypeOK
<1>2. ASSUME NEW p \in Procs, RouteToWSL(p) PROVE TypeOK'
  BY <1>2, FaultType, ZenonT(60) DEF RouteToWSL, TypeOK
<1>3. ASSUME NEW p \in Procs, ConfigureDomains(p) PROVE TypeOK'
  BY <1>3, FaultType, ZenonT(60) DEF ConfigureDomains, TypeOK
<1>4. ASSUME NEW p \in Procs, GetElevatedClient(p) PROVE TypeOK'
  <2>1. /\ faults' \in 0 .. MaxFaults
        /\ UNCHANGED <<task, image, hosts, routed, spoilt, alone>>
    BY <1>4, FaultType DEF GetElevatedClient
  <2>2. CASE Request(p)
    <3>1. \/ UNCHANGED <<prompts, helper>>
          \/ /\ prompts' = [prompts EXCEPT ![p] = @ + 1]
             /\ helper' = [helper EXCEPT ![p] = "starting"]
      BY <1>4, <2>2 DEF GetElevatedClient, TypeOK
    <3>2. \A q \in Procs : client'[q] => helper'[q] # "none"
      BY <1>4, <2>2 DEF GetElevatedClient, TypeOK
    <3> QED
      BY <2>1, <2>2, <3>1, <3>2 DEF TypeOK
  <2>3. CASE Refused(p)
    BY <2>1, <2>3 DEF TypeOK, Refused
  <2> QED
    BY <1>4, <2>2, <2>3 DEF GetElevatedClient, Refused
<1>5. ASSUME NEW p \in Procs, Dial(p) PROVE TypeOK'
  BY <1>5 DEF Dial, TypeOK
<1>6. ASSUME NEW p \in Procs, Answer(p) PROVE TypeOK'
  BY <1>6 DEF Answer, TypeOK
<1>7. ASSUME NEW p \in Procs, Release(p) PROVE TypeOK'
  BY <1>7, FaultType, ZenonT(60) DEF Release, TypeOK
<1>8. ASSUME NEW p \in Procs, Stopped(p) PROVE TypeOK'
  BY <1>8 DEF Stopped, TypeOK
<1>9. ASSUME NEW p \in Procs, Listen(p) PROVE TypeOK'
  BY <1>9 DEF Listen, TypeOK
<1>10. ASSUME NEW p \in Procs, AddOrRemoveRoute(p) PROVE TypeOK'
  BY <1>10, FaultType DEF AddOrRemoveRoute, TypeOK
<1>11. ASSUME NEW p \in Procs, Check(p) PROVE TypeOK'
  BY <1>11, FaultType DEF Check, TypeOK
<1>12. ASSUME NEW p \in Procs, ReadHosts(p) PROVE TypeOK'
  <2>1. /\ faults' \in 0 .. MaxFaults
        /\ UNCHANGED <<pc, task, client, prompts, helper, routed, alone>>
    BY <1>12, FaultType DEF ReadHosts
  <2>2. image' \in [Procs -> [Names -> Addresses]]
    BY <1>12, ChangedType, SMTT(30) DEF ReadHosts, TypeOK
  <2>3. work' \in [Procs -> {"none", "route", "check", "read", "save", "write", "done", "error"}]
    BY <1>12 DEF ReadHosts, TypeOK
  <2>4. hosts' \in [Names -> Addresses]
    BY <1>12, NoImageType DEF ReadHosts, TypeOK
  <2>5. spoilt' \in {"no", "yes"}
    BY <1>12 DEF ReadHosts, SpoiltIf, TypeOK
  <2> QED
    BY <2>1, <2>2, <2>3, <2>4, <2>5 DEF TypeOK
<1>13. ASSUME NEW p \in Procs, TruncateHosts(p) PROVE TypeOK'
  <2>1. /\ faults' \in 0 .. MaxFaults
        /\ UNCHANGED <<pc, task, client, prompts, helper, routed, alone>>
    BY <1>13, FaultType DEF TruncateHosts
  <2>2. image' \in [Procs -> [Names -> Addresses]]
    BY <1>13, NoImageType DEF TruncateHosts, TypeOK
  <2>3. work' \in [Procs -> {"none", "route", "check", "read", "save", "write", "done", "error"}]
    BY <1>13 DEF TruncateHosts, TypeOK
  <2>4. hosts' \in [Names -> Addresses]
    BY <1>13, NoImageType DEF TruncateHosts, TypeOK
  <2>5. spoilt' \in {"no", "yes"}
    BY <1>13 DEF TruncateHosts, SpoiltIf, TypeOK
  <2> QED
    BY <2>1, <2>2, <2>3, <2>4, <2>5 DEF TypeOK
<1>13a. ASSUME NEW p \in Procs, WriteHosts(p) PROVE TypeOK'
  <2>1. /\ faults' \in 0 .. MaxFaults
        /\ UNCHANGED <<pc, task, client, prompts, helper, routed, alone>>
    BY <1>13a, FaultType DEF WriteHosts
  <2>2. image' \in [Procs -> [Names -> Addresses]]
    BY <1>13a, NoImageType DEF WriteHosts, TypeOK
  <2>3. work' \in [Procs -> {"none", "route", "check", "read", "save", "write", "done", "error"}]
    <3>1. PICK w \in {"none", "done", "error"} : work' = [work EXCEPT ![p] = w]
      BY <1>13a DEF WriteHosts
    <3> QED
      BY <3>1 DEF TypeOK
  <2>4. hosts' \in [Names -> Addresses]
    BY <1>13a, OverType DEF WriteHosts, TypeOK
  <2>5. spoilt' \in {"no", "yes"}
    BY <1>13a DEF WriteHosts, SpoiltIf, TypeOK
  <2> QED
    BY <2>1, <2>2, <2>3, <2>4, <2>5 DEF TypeOK
<1>14. ASSUME NEW p \in Procs, Stop(p) PROVE TypeOK'
  BY <1>14 DEF Stop, TypeOK
<1>15. ASSUME NEW p \in Procs, HelperStops(p) PROVE TypeOK'
  BY <1>15 DEF HelperStops, TypeOK
<1>16. ASSUME NEW p \in Procs, Kill(p) PROVE TypeOK'
  BY <1>16, FaultType, NoImageType DEF Kill, SpoiltIf, TypeOK
<1>17. ASSUME NEW p \in Procs, HelperDies(p) PROVE TypeOK'
  BY <1>17, FaultType, NoImageType DEF HelperDies, SpoiltIf, TypeOK
<1>18. CASE UNCHANGED vars
  BY <1>18 DEF vars, TypeOK
<1> QED
  BY <1>1, <1>2, <1>3, <1>4, <1>5, <1>6, <1>7, <1>8, <1>9, <1>10, <1>11, <1>12, <1>13, <1>13a,
      <1>14, <1>15, <1>16, <1>17, <1>18
  DEF Next, Command, Server

LEMMA StagedLeave ==
    ASSUME TypeOK, Staged, NEW p \in Procs, pc[p] \notin Resting,
           NEW l, Leave(p, l),
           pc[p] = "release" => l \in {"stop", "ok", "fail"},
           pc[p] # "stop",
           NEW w, work' = [work EXCEPT ![p] = w],
           l \notin Resting \cup Awaiting => w = "none",
           l = "awaitRoute" => w \in {"route", "done", "error"},
           l = "awaitHosts" => w \in {"check", "read", "save", "write", "done", "error"},
           l \in {"route", "getRoute", "awaitRoute"} => task[p].kind # "domains",
           l \in {"hosts", "getHosts", "awaitHosts"}
               => task[p].kind = "domains" \/ task[p].names # {}
    PROVE  Staged'
<1>1. ASSUME NEW q \in Procs, q # p PROVE Stage(q)'
  BY <1>1 DEF Stage, Staged, TypeOK, Leave, Goto
<1>2. Stage(p)'
  BY DEF Stage, Staged, TypeOK, Leave, Goto, Resting, Awaiting
<1>3. Rested'
  BY DEF Rested, Staged, TypeOK, Leave, Goto
<1> QED
  BY <1>1, <1>2, <1>3 DEF Staged

LEMMA StagedInductive == TypeOK /\ Staged /\ [Next]_vars => Staged'
<1> SUFFICES ASSUME TypeOK, Staged, [Next]_vars PROVE Staged'
  OBVIOUS
<1> USE DEF Goto, Leave, Work, Result, Request, Resting, Awaiting, Alive, AfterError,
    AfterRoute, command, server, windows, Quiet, Staged, Rested, Stage
<1>1. ASSUME NEW p \in Procs, Begin(p) PROVE Staged'
  BY <1>1 DEF Begin, TypeOK, Sensible
<1>2. ASSUME NEW p \in Procs, RouteToWSL(p) PROVE Staged'
  <2>1. work[p] = "none" /\ task[p].kind # "domains" /\ pc[p] = "route"
    BY <1>2 DEF RouteToWSL
  <2>2. work = [work EXCEPT ![p] = "none"]
    BY <2>1 DEF TypeOK
  <2>3. PICK l, w : /\ Leave(p, l) /\ work' = [work EXCEPT ![p] = w]
                    /\ \/ l \in {"release", "hosts", "fail", "getRoute"} /\ w = "none"
                       \/ l = "awaitRoute" /\ w = "route"
                    /\ l = "hosts" => task[p].names # {}
    <3> HIDE DEF Leave, Goto
    <3> QED
      BY <1>2, <2>1, <2>2 DEF RouteToWSL
  <2> QED
    BY <2>1, <2>3, StagedLeave
<1>3. ASSUME NEW p \in Procs, ConfigureDomains(p) PROVE Staged'
  <2>1. /\ work[p] = "none" /\ pc[p] = "hosts"
        /\ task[p].kind = "domains" \/ task[p].names # {}
    BY <1>3 DEF ConfigureDomains
  <2>2. work = [work EXCEPT ![p] = "none"]
    BY <2>1 DEF TypeOK
  <2>3. PICK l, w : /\ Leave(p, l) /\ work' = [work EXCEPT ![p] = w]
                    /\ \/ l \in {"release", "fail", "getHosts"} /\ w = "none"
                       \/ l = "awaitHosts" /\ w = "read"
    <3> HIDE DEF Leave, Goto
    <3> QED
      BY <1>3, <2>1, <2>2 DEF ConfigureDomains
  <2> QED
    BY <2>1, <2>3, StagedLeave
<1>4. ASSUME NEW p \in Procs, GetElevatedClient(p) PROVE Staged'
  <2>1. /\ work[p] = "none" /\ pc[p] \notin Resting
        /\ pc[p] = "getRoute" => task[p].kind # "domains"
        /\ pc[p] = "getHosts" => task[p].kind = "domains" \/ task[p].names # {}
    BY <1>4 DEF GetElevatedClient
  <2>2. CASE Refused(p) /\ ~client[p]
    <3>1. pc'[p] \in {"release", "fail"} /\ \A q \in Procs \ {p} : pc'[q] = pc[q]
      BY <2>2 DEF Refused, TypeOK
    <3>2. prompts[p] = 0
      BY <1>4, <2>2 DEF GetElevatedClient
    <3>3. prompts'[p] <= 1 /\ \A q \in Procs \ {p} : prompts'[q] = prompts[q]
      BY <2>2, <3>2 DEF Refused, TypeOK
    <3>4. \A q \in Procs : Stage(q)'
      BY <2>1, <2>2, <3>1, <3>3 DEF Refused
    <3>5. Rested'
      BY <2>2, <3>1 DEF Refused
    <3> QED
      BY <3>4, <3>5
  <2>3. CASE Request(p)
    <3>1. prompts'[p] <= 1 /\ \A q \in Procs \ {p} : prompts'[q] = prompts[q]
      <4>1. \/ UNCHANGED prompts
            \/ prompts[p] = 0 /\ \E n \in {0, 1} : prompts' = [prompts EXCEPT ![p] = @ + n]
        BY <1>4 DEF GetElevatedClient
      <4> QED
        BY <4>1 DEF TypeOK
    <3>2. \A q \in Procs \ {p} : Stage(q)'
      BY <2>3, <3>1 DEF TypeOK
    <3>3. Stage(p)'
      BY <1>4, <2>1, <2>3, <3>1 DEF GetElevatedClient, TypeOK
    <3>4. Rested'
      BY <2>3 DEF TypeOK
    <3> QED
      BY <3>2, <3>3, <3>4
  <2> QED
    BY <1>4, <2>2, <2>3 DEF GetElevatedClient, Refused
<1>5. ASSUME NEW p \in Procs, Dial(p) PROVE Staged'
  BY <1>5 DEF Dial, TypeOK
<1>6. ASSUME NEW p \in Procs, Answer(p) PROVE Staged'
  BY <1>6 DEF Answer, TypeOK, Sensible
<1>7. ASSUME NEW p \in Procs, Release(p) PROVE Staged'
  <2>1. work[p] = "none" /\ pc[p] = "release"
    BY <1>7 DEF Release
  <2>2. PICK l \in {"stop", "ok", "fail"} : Leave(p, l)
    BY <1>7 DEF Release
  <2>3. work' = [work EXCEPT ![p] = "none"]
    BY <1>7, <2>1 DEF Release, TypeOK
  <2> QED
    BY <2>1, <2>2, <2>3, StagedLeave
<1>8. ASSUME NEW p \in Procs, Stopped(p) PROVE Staged'
  BY <1>8 DEF Stopped, TypeOK
<1>9. ASSUME NEW p \in Procs, Listen(p) PROVE Staged'
  BY <1>9 DEF Listen, TypeOK
<1>10. ASSUME NEW p \in Procs, AddOrRemoveRoute(p) PROVE Staged'
  BY <1>10 DEF AddOrRemoveRoute, TypeOK
<1>11. ASSUME NEW p \in Procs, Check(p) PROVE Staged'
  BY <1>11, SMTT(30) DEF Check, TypeOK
<1>12. ASSUME NEW p \in Procs, ReadHosts(p) PROVE Staged'
  BY <1>12 DEF ReadHosts, TypeOK
<1>13. ASSUME NEW p \in Procs, TruncateHosts(p) PROVE Staged'
  <2>1. /\ work'[p] \in {"none", "write", "done", "error"}
        /\ pc[p] \notin Resting => work'[p] \in {"write", "done", "error"}
        /\ \A q \in Procs \ {p} : work'[q] = work[q]
    BY <1>13 DEF TruncateHosts, TypeOK
  <2>2. UNCHANGED <<pc, task, client, prompts>> /\ pc[p] \in Resting \cup {"awaitHosts"}
    BY <1>13 DEF TruncateHosts, TypeOK
  <2>3. ASSUME NEW q \in Procs PROVE Stage(q)'
    BY <2>1, <2>2
  <2> QED
    BY <2>2, <2>3
<1>13a. ASSUME NEW p \in Procs, WriteHosts(p) PROVE Staged'
  <2>1. /\ work'[p] \in {"none", "done", "error"}
        /\ pc[p] \notin Resting => work'[p] \in {"done", "error"}
        /\ \A q \in Procs \ {p} : work'[q] = work[q]
    BY <1>13a DEF WriteHosts, TypeOK
  <2>2. UNCHANGED <<pc, task, client, prompts>> /\ pc[p] \in Resting \cup {"awaitHosts"}
    BY <1>13a DEF WriteHosts, TypeOK
  <2>3. ASSUME NEW q \in Procs PROVE Stage(q)'
    BY <2>1, <2>2
  <2> QED
    BY <2>2, <2>3
<1>14. ASSUME NEW p \in Procs, Stop(p) PROVE Staged'
  BY <1>14 DEF Stop, TypeOK
<1>15. ASSUME NEW p \in Procs, HelperStops(p) PROVE Staged'
  BY <1>15 DEF HelperStops, TypeOK
<1>16. ASSUME NEW p \in Procs, Kill(p) PROVE Staged'
  BY <1>16 DEF Kill, TypeOK
<1>17. ASSUME NEW p \in Procs, HelperDies(p) PROVE Staged'
  BY <1>17, SMTT(30) DEF HelperDies, TypeOK
<1>18. CASE UNCHANGED vars
  BY <1>18 DEF vars
<1> QED
  BY <1>1, <1>2, <1>3, <1>4, <1>5, <1>6, <1>7, <1>8, <1>9, <1>10, <1>11, <1>12, <1>13, <1>13a,
      <1>14, <1>15, <1>16, <1>17, <1>18
  DEF Next, Command, Server

(* Every variable keeps a value the program can give it. *)
THEOREM TypeCorrect == Spec => [](TypeOK /\ Staged)
<1>1. Init => Staged
  BY DEF Init, Staged, Rested, Stage, Resting, Awaiting
<1>2. Staged => Rested
  BY DEF Staged
<1> QED
  BY <1>1, <1>2, TypeInit, TypeInductive, StagedInductive, PTL DEF Spec

(* However often a command needs the administrator, it asks the user once,   *)
(* because its client outlives each request.                                 *)
THEOREM OnePromptHolds == Spec => []OnePrompt
<1>1. Staged => OnePrompt
  BY DEF Staged, Stage, OnePrompt
<1> QED
  BY <1>1, TypeCorrect, PTL

-----------------------------------------------------------------------------
(***************************************************************************)
(* What commands save over each other's hosts file. As long as no save was   *)
(* cut off or read between truncation and write, an image has the foreign    *)
(* name, because the file it was taken from had it.                          *)
(***************************************************************************)
Kept == spoilt = "no" =>
            /\ ~Truncated => hosts[Foreign] = "other"
            /\ \A p \in Procs : work[p] \in {"save", "write"} => image[p][Foreign] = "other"

LEMMA ChangedForeign ==
    ASSUME TypeOK, hosts[Foreign] = "other", NEW p \in Procs
    PROVE  Changed(task[p])[Foreign] = "other"
<1>1. Foreign \notin task[p].names
  BY DEF TypeOK, Tasks, Idle
<1> QED
  BY <1>1 DEF Changed, Names

LEMMA KeptInductive == TypeOK /\ Staged /\ Kept /\ [Next]_vars => Kept'
<1> SUFFICES ASSUME TypeOK, Staged, Kept, [Next]_vars PROVE Kept'
  OBVIOUS
<1> USE DEF Goto, Leave, Work, Result, Request, command, server, windows, Kept, Truncated, SpoiltIf
<1>1. ASSUME NEW p \in Procs, Begin(p) PROVE Kept'
  BY <1>1 DEF Begin, TypeOK
<1>2. ASSUME NEW p \in Procs, RouteToWSL(p) PROVE Kept'
  <2>1. work[p] = "none" /\ UNCHANGED <<hosts, image, spoilt>>
    BY <1>2 DEF RouteToWSL, Staged, Stage, Resting, Awaiting
  <2>2. work'[p] \in {"none", "route"} /\ \A q \in Procs \ {p} : work'[q] = work[q]
    BY <1>2, <2>1 DEF RouteToWSL, TypeOK
  <2> QED
    BY <2>1, <2>2
<1>3. ASSUME NEW p \in Procs, ConfigureDomains(p) PROVE Kept'
  <2>1. work[p] = "none" /\ UNCHANGED <<hosts, image, spoilt>>
    BY <1>3 DEF ConfigureDomains, Staged, Stage, Resting, Awaiting
  <2>2. work'[p] \in {"none", "read"} /\ \A q \in Procs \ {p} : work'[q] = work[q]
    BY <1>3, <2>1 DEF ConfigureDomains, TypeOK
  <2> QED
    BY <2>1, <2>2
<1>4. ASSUME NEW p \in Procs, GetElevatedClient(p) PROVE Kept'
  <2>1. work[p] = "none" /\ UNCHANGED <<hosts, image, spoilt>>
    BY <1>4 DEF GetElevatedClient, Staged, Stage, Resting, Awaiting
  <2>2. work'[p] \in {"none", "route", "check"} /\ \A q \in Procs \ {p} : work'[q] = work[q]
    BY <1>4, <2>1 DEF GetElevatedClient, TypeOK
  <2> QED
    BY <2>1, <2>2
<1>5. ASSUME NEW p \in Procs, Dial(p) PROVE Kept'
  BY <1>5 DEF Dial, TypeOK
<1>6. ASSUME NEW p \in Procs, Answer(p) PROVE Kept'
  BY <1>6 DEF Answer, TypeOK
<1>7. ASSUME NEW p \in Procs, Release(p) PROVE Kept'
  BY <1>7 DEF Release, TypeOK
<1>8. ASSUME NEW p \in Procs, Stopped(p) PROVE Kept'
  BY <1>8 DEF Stopped, TypeOK
<1>9. ASSUME NEW p \in Procs, Listen(p) PROVE Kept'
  BY <1>9 DEF Listen, TypeOK
<1>10. ASSUME NEW p \in Procs, AddOrRemoveRoute(p) PROVE Kept'
  BY <1>10 DEF AddOrRemoveRoute, TypeOK
<1>11. ASSUME NEW p \in Procs, Check(p) PROVE Kept'
  BY <1>11 DEF Check, TypeOK
<1>12. ASSUME NEW p \in Procs, ReadHosts(p) PROVE Kept'
  <2> SUFFICES ASSUME spoilt' = "no" PROVE Kept'
    BY DEF Kept
  <2>1. UNCHANGED hosts /\ \A q \in Procs \ {p} : UNCHANGED <<work[q], image[q]>>
    BY <1>12 DEF ReadHosts, TypeOK
  <2>2. CASE work'[p] \in {"none", "done", "error"} /\ UNCHANGED spoilt
    BY <1>12, <2>1, <2>2 DEF ReadHosts, TypeOK
  <2>3. CASE /\ work'[p] = "save" /\ image'[p] = Changed(task[p])
             /\ SpoiltIf(Truncated)
    <3>1. ~Truncated /\ spoilt = "no"
      BY <2>3
    <3>2. Changed(task[p])[Foreign] = "other"
      BY <3>1, ChangedForeign
    <3> QED
      BY <1>12, <2>1, <2>3, <3>1, <3>2
  <2> QED
    BY <1>12, <2>2, <2>3 DEF ReadHosts, TypeOK
<1>13. ASSUME NEW p \in Procs, TruncateHosts(p) PROVE Kept'
  <2>1. /\ UNCHANGED spoilt /\ \A q \in Procs \ {p} : UNCHANGED <<work[q], image[q]>>
        /\ \/ work'[p] = "write" /\ UNCHANGED image
           \/ work'[p] \in {"none", "error"} /\ UNCHANGED hosts
    BY <1>13 DEF TruncateHosts, TypeOK
  <2> QED
    BY <1>13, <2>1 DEF TruncateHosts
<1>13a. ASSUME NEW p \in Procs, WriteHosts(p) PROVE Kept'
  <2> SUFFICES ASSUME spoilt' = "no" PROVE Kept'
    BY DEF Kept
  <2>1. /\ UNCHANGED spoilt /\ work[p] = "write"
        /\ \A q \in Procs \ {p} : UNCHANGED <<work[q], image[q]>>
        /\ work'[p] \in {"none", "done"}
    BY <1>13a DEF WriteHosts, TypeOK
  <2>2. PICK names \in SUBSET Names : hosts' = Over(p, names) /\ Bound(p) \subseteq names
    BY <1>13a, <2>1 DEF WriteHosts, TypeOK
  <2>3. image[p][Foreign] = "other"
    BY <2>1
  <2>4. hosts'[Foreign] = "other"
    BY <2>2, <2>3 DEF Over, Bound, Names
  <2> QED
    BY <2>1, <2>4
<1>14. ASSUME NEW p \in Procs, Stop(p) PROVE Kept'
  BY <1>14 DEF Stop, TypeOK
<1>15. ASSUME NEW p \in Procs, HelperStops(p) PROVE Kept'
  BY <1>15 DEF HelperStops, TypeOK
<1>16. ASSUME NEW p \in Procs, Kill(p) PROVE Kept'
  BY <1>16 DEF Kill, TypeOK
<1>17. ASSUME NEW p \in Procs, HelperDies(p) PROVE Kept'
  <2>1. UNCHANGED hosts /\ \A q \in Procs \ {p} : UNCHANGED <<work[q], image[q]>>
    BY <1>17 DEF HelperDies, TypeOK
  <2>2. \/ UNCHANGED <<work, image, spoilt>>
        \/ work'[p] \in {"none", "done", "error"} /\ SpoiltIf(work[p] = "write")
    BY <1>17 DEF HelperDies, TypeOK
  <2> QED
    BY <2>1, <2>2
<1>18. CASE UNCHANGED vars
  BY <1>18 DEF vars
<1> QED
  BY <1>1, <1>2, <1>3, <1>4, <1>5, <1>6, <1>7, <1>8, <1>9, <1>10, <1>11, <1>12, <1>13, <1>13a,
      <1>14, <1>15, <1>16, <1>17, <1>18
  DEF Next, Command, Server

(* A name no command is about has its address whenever the hosts file is      *)
(* whole, for any number of commands that read, change and save it together,  *)
(* and any failures, unless a save was cut off or read while it was truncated. *)
THEOREM ForeignKeptHolds == Spec => []ForeignKept
<1>1. Init => Kept
  BY DEF Init, Kept, Names
<1>2. Kept => ForeignKept
  BY DEF Kept, ForeignKept
<1> QED
  BY <1>1, <1>2, TypeCorrect, KeptInductive, PTL DEF Spec

-----------------------------------------------------------------------------
(***************************************************************************)
(* A command nobody disturbs. As long as the others are quiet, what it found *)
(* and did about the route and the names stays so, and each of its calls     *)
(* relies on what the calls before it established.                           *)
(***************************************************************************)
NamesAre(t) == IF t.remove
               THEN IF t.names = {} THEN \A d \in Domains : hosts[d] # "cluster"
                    ELSE \A d \in t.names : hosts[d] = "none"
               ELSE \A d \in t.names : hosts[d] = "cluster"

RoutePassed(c) == \/ pc[c] \in {"hosts", "getHosts", "awaitHosts", "release", "stop"}
                  \/ pc[c] = "awaitRoute" /\ work[c] = "done"

NamesPassed(c) == \/ pc[c] \in {"release", "stop"}
                  \/ pc[c] = "awaitHosts" /\ work[c] = "done"

ImageDone(c) ==
    IF task[c].remove
    THEN IF task[c].names = {} THEN \A d \in Domains : image[c][d] # "cluster"
         ELSE \A d \in task[c].names : image[c][d] = "none"
    ELSE task[c].names # {} /\ \A d \in task[c].names : image[c][d] = "cluster"

Relied(c) ==
    /\ pc[c] = "getRoute" => routed = task[c].remove
    /\ pc[c] = "getHosts" => ~AllHere(task[c])
    /\ work[c] \in {"save", "write"} => ImageDone(c)
    /\ work[c] = "write" => hosts = NoImage
    /\ task[c].kind \notin {"configure", "domains"} /\ RoutePassed(c) => routed = ~task[c].remove
    /\ task[c].kind \notin {"configure", "route"} /\ NamesPassed(c) => NamesAre(task[c])

Others(c) == \A q \in Procs \ {c} : Quiet(q)

Lone == \A c \in Procs : alone[c] /\ pc[c] \notin Resting => Others(c) /\ Relied(c)

LEMMA QuietStep ==
    ASSUME TypeOK, NEW p \in Procs, Quiet(p),
           Command(p) \/ Server(p) \/ Kill(p) \/ HelperDies(p)
    PROVE  UNCHANGED <<pc, task, work, image, hosts, routed, alone>>
<1> USE DEF Quiet, Resting, Awaiting, AtWork, command, server, windows
<1>1. CASE Listen(p)
  BY <1>1 DEF Listen
<1>2. CASE HelperStops(p)
  BY <1>2 DEF HelperStops
<1>3. CASE HelperDies(p)
  BY <1>3 DEF HelperDies
<1>4. ~Command(p) /\ ~Kill(p)
  BY DEF Command, RouteToWSL, ConfigureDomains, GetElevatedClient, Dial, Answer, Release,
         Stopped, Kill
<1>5. CASE Server(p)
  BY <1>1, <1>2, <1>5 DEF Server, AddOrRemoveRoute, Check, ReadHosts,
      TruncateHosts, WriteHosts, Stop
<1> QED
  BY <1>3, <1>4, <1>5

LEMMA StepFrame ==
    ASSUME TypeOK, NEW c \in Procs,
           Command(c) \/ Server(c) \/ Kill(c) \/ HelperDies(c)
    PROVE  /\ UNCHANGED <<task, alone>>
           /\ \A q \in Procs \ {c} : pc'[q] = pc[q] /\ work'[q] = work[q]
           /\ pc'[c] \notin Resting => pc[c] \notin Resting
<1> USE DEF TypeOK, Goto, Leave, Work, Result, Request, Awaiting, Resting, command, server,
    windows
<1>1. CASE RouteToWSL(c)
  BY <1>1 DEF RouteToWSL
<1>2. CASE ConfigureDomains(c)
  BY <1>2 DEF ConfigureDomains
<1>3. CASE GetElevatedClient(c)
  BY <1>3 DEF GetElevatedClient
<1>4. CASE Dial(c)
  BY <1>4 DEF Dial
<1>5. CASE Answer(c)
  BY <1>5 DEF Answer
<1>6. CASE Release(c)
  BY <1>6 DEF Release
<1>7. CASE Stopped(c)
  BY <1>7 DEF Stopped
<1>8. CASE Listen(c)
  BY <1>8 DEF Listen
<1>9. CASE AddOrRemoveRoute(c)
  BY <1>9 DEF AddOrRemoveRoute
<1>10. CASE Check(c)
  BY <1>10 DEF Check
<1>11. CASE ReadHosts(c)
  BY <1>11 DEF ReadHosts
<1>12. CASE TruncateHosts(c)
  BY <1>12 DEF TruncateHosts
<1>12a. CASE WriteHosts(c)
  BY <1>12a DEF WriteHosts
<1>13. CASE Stop(c)
  BY <1>13 DEF Stop
<1>14. CASE HelperStops(c)
  BY <1>14 DEF HelperStops
<1>15. CASE Kill(c)
  BY <1>15 DEF Kill
<1>16. CASE HelperDies(c)
  BY <1>16 DEF HelperDies
<1> QED
  BY <1>1, <1>2, <1>3, <1>4, <1>5, <1>6, <1>7, <1>8, <1>9, <1>10, <1>11, <1>12, <1>12a,
      <1>13, <1>14, <1>15, <1>16
  DEF Command, Server

LEMMA ReliedStep ==
    ASSUME TypeOK, Staged, NEW c \in Procs, pc[c] \notin Resting, Relied(c),
           pc'[c] \notin Resting,
           Command(c) \/ Server(c) \/ Kill(c) \/ HelperDies(c)
    PROVE  Relied(c)'
<1>a. /\ task[c].remove \in BOOLEAN /\ routed \in BOOLEAN
      /\ task[c].kind \in {"start", "configure"} => ~task[c].remove
      /\ task[c].kind = "route" => task[c].names = {}
      /\ task[c].kind \in AllKinds /\ task[c].names \subseteq Domains
      /\ pc[c] \notin Awaiting => work[c] = "none"
      /\ pc[c] = "awaitRoute" => work[c] \in {"route", "done", "error"}
      /\ pc[c] = "awaitHosts" => work[c] \in {"check", "read", "save", "write", "done", "error"}
      /\ pc[c] \in {"route", "getRoute", "awaitRoute"} => task[c].kind # "domains"
      /\ pc[c] \in {"hosts", "getHosts", "awaitHosts"}
             => task[c].kind = "domains" \/ task[c].names # {}
  BY DEF Staged, Stage, Sensible, Tasks, TypeOK, AllKinds
<1> USE DEF Resting, Awaiting, Alive, command, server, windows
<1>1. CASE RouteToWSL(c)
  <2>1. UNCHANGED <<task, hosts, routed>> /\ pc[c] = "route" /\ work[c] = "none"
    BY <1>1, <1>a DEF RouteToWSL, Leave
  <2>2. \/ pc'[c] = AfterRoute(task[c]) /\ work'[c] = "none" /\ routed = ~task[c].remove
        \/ pc'[c] = "getRoute" /\ work'[c] = "none" /\ routed = task[c].remove
        \/ pc'[c] = "awaitRoute" /\ work'[c] = "route"
        \/ pc'[c] = AfterError(task[c]) /\ work'[c] = "none"
    BY <1>1, <1>a, <2>1 DEF RouteToWSL, Goto, Leave, Work, Result, Request, TypeOK
  <2>3. task[c].kind \notin {"configure", "domains"} /\ RoutePassed(c)' => routed = ~task[c].remove
    BY <1>a, <2>1, <2>2 DEF Relied, RoutePassed, AfterRoute, AfterError
  <2>4. task[c].kind \notin {"configure", "route"} /\ NamesPassed(c)' => NamesAre(task[c])
    <3>1. ~task[c].remove /\ task[c].names = {} => NamesAre(task[c])
      BY DEF NamesAre
    <3>2. task[c].kind \notin {"configure", "route"} /\ pc[c] # "awaitHosts"
              => ~task[c].remove \/ task[c].kind = "domains"
      BY <1>a DEF AllKinds
    <3> QED
      BY <1>a, <2>1, <2>2, <3>1, <3>2 DEF Relied, NamesPassed, AfterRoute, AfterError
  <2>5. pc'[c] # "getHosts" /\ work'[c] \notin {"save", "write"}
    BY <1>a, <2>2 DEF AfterRoute, AfterError
  <2> QED
    BY <1>a, <2>1, <2>2, <2>3, <2>4, <2>5 DEF Relied, NamesAre, AfterRoute, AfterError
<1>2. CASE ConfigureDomains(c)
  <2>1. UNCHANGED <<task, hosts, routed>> /\ pc[c] = "hosts" /\ work[c] = "none"
    BY <1>2, <1>a DEF ConfigureDomains, Leave
  <2>2. \/ pc'[c] = "release" /\ work'[c] = "none" /\ AllHere(task[c])
        \/ pc'[c] = "getHosts" /\ work'[c] = "none" /\ ~AllHere(task[c])
        \/ pc'[c] = "awaitHosts" /\ work'[c] = "read"
        \/ pc'[c] = AfterError(task[c]) /\ work'[c] = "none"
    BY <1>2, <1>a, <2>1 DEF ConfigureDomains, Goto, Leave, Work, Result, Request, TypeOK
  <2> QED
    BY <1>a, <2>1, <2>2 DEF AllHere, Looks, Relied, RoutePassed, NamesPassed, NamesAre,
        AfterRoute, AfterError
<1>3. CASE GetElevatedClient(c)
  <2>1. /\ UNCHANGED <<task, hosts, routed>>
        /\ pc[c] \in {"getRoute", "getHosts"} /\ work[c] = "none"
    BY <1>3, <1>a DEF GetElevatedClient, Request
  <2>2. \/ pc'[c] = "awaitRoute" /\ work'[c] = "route"
        \/ pc[c] = "getHosts" /\ pc'[c] = "awaitHosts" /\ work'[c] = "check"
        \/ pc'[c] = AfterError(task[c]) /\ work'[c] = "none"
    BY <1>3, <1>a, <2>1 DEF GetElevatedClient, Goto, Leave, Work, Result, Request, TypeOK
  <2> QED
    BY <1>a, <2>1, <2>2 DEF Relied, RoutePassed, NamesPassed, NamesAre, AfterRoute, AfterError
<1>5. CASE Answer(c)
  <2>1. UNCHANGED <<task, hosts, routed>> /\ pc[c] \in Awaiting /\ work[c] \in {"done", "error"}
    BY <1>5, <1>a DEF Answer, Leave
  <2>2. /\ work'[c] = "none"
        /\ \/ pc'[c] = AfterError(task[c])
           \/ work[c] = "done" /\ pc[c] = "awaitRoute" /\ pc'[c] = AfterRoute(task[c])
           \/ work[c] = "done" /\ pc[c] = "awaitHosts" /\ pc'[c] = "release"
    BY <1>5, <1>a, <2>1 DEF Answer, Goto, Leave, Work, Result, Request, TypeOK
  <2>3. task[c].kind \notin {"configure", "domains"} => routed = ~task[c].remove
    BY <1>a, <2>1, <2>2 DEF Relied, RoutePassed, AfterRoute, AfterError
  <2>4. task[c].kind \notin {"configure", "route"} /\ NamesPassed(c)' => NamesAre(task[c])
    <3>1. ~task[c].remove /\ task[c].names = {} => NamesAre(task[c])
      BY DEF NamesAre
    <3>2. task[c].kind \notin {"configure", "route"} /\ pc[c] # "awaitHosts"
              => ~task[c].remove \/ task[c].kind = "domains"
      BY <1>a DEF AllKinds
    <3> QED
      BY <1>a, <2>1, <2>2, <3>1, <3>2 DEF Relied, NamesPassed, AfterRoute, AfterError
  <2>5. pc'[c] # "getHosts" /\ work'[c] \notin {"save", "write"}
    BY <1>a, <2>2 DEF AfterRoute, AfterError
  <2> QED
    BY <1>a, <2>1, <2>2, <2>3, <2>4, <2>5 DEF Relied, NamesAre, AfterRoute, AfterError
<1>6. CASE Release(c)
  <2>1. UNCHANGED <<task, hosts, routed, work, image>> /\ pc[c] = "release"
    BY <1>6, <1>a DEF Release, Leave
  <2>2. pc'[c] \in {"stop", "ok", "fail"}
    BY <1>6, <1>a, <2>1 DEF Release, Goto, Leave, Work, Result, Request, TypeOK
  <2> QED
    BY <1>a, <2>1, <2>2 DEF Relied, RoutePassed, NamesPassed, NamesAre, AfterRoute, AfterError
<1>9. CASE AddOrRemoveRoute(c)
  <2>1. UNCHANGED <<task, hosts, pc>> /\ pc[c] = "awaitRoute" /\ work[c] = "route"
    BY <1>9, <1>a DEF AddOrRemoveRoute
  <2>2. \/ work'[c] = "done" /\ routed' = ~task[c].remove
        \/ work'[c] = "error" /\ routed' = routed
    BY <1>9, <1>a, <2>1 DEF AddOrRemoveRoute, Goto, Leave, Work, Result, Request, TypeOK
  <2> QED
    BY <1>a, <2>1, <2>2 DEF Relied, RoutePassed, NamesPassed, NamesAre, AfterRoute, AfterError
<1>10. CASE Check(c)
  <2>1. UNCHANGED <<task, hosts, routed, pc>> /\ pc[c] = "awaitHosts"
    BY <1>10, <1>a DEF Check
  <2>2. \/ work'[c] = "done" /\ AllHere(task[c])
        \/ work'[c] \in {"read", "error"}
    BY <1>10, <1>a, <2>1 DEF Check, Goto, Leave, Work, Result, Request, TypeOK
  <2> QED
    BY <1>a, <2>1, <2>2 DEF AllHere, Looks, Relied, RoutePassed, NamesPassed, NamesAre,
        AfterRoute, AfterError
<1>11. CASE ReadHosts(c)
  <2>1. UNCHANGED <<task, hosts, routed, pc>> /\ pc[c] = "awaitHosts"
    BY <1>11, <1>a DEF ReadHosts
  <2>2. \/ work'[c] = "done" /\ task[c].names = {} /\ ~task[c].remove
        \/ work'[c] = "error"
        \/ /\ work'[c] = "save" /\ image'[c] = Changed(task[c])
           /\ task[c].remove \/ task[c].names # {}
    BY <1>11, <1>a, <2>1 DEF ReadHosts, Goto, Leave, Work, Result, Request, TypeOK
  <2>3. work'[c] = "save" => ImageDone(c)'
    BY <1>a, <2>1, <2>2 DEF Changed, ImageDone, Names
  <2> QED
    BY <1>a, <2>1, <2>2, <2>3 DEF Relied, RoutePassed, NamesPassed, NamesAre, AfterRoute,
        AfterError
<1>12. CASE TruncateHosts(c)
  <2>1. UNCHANGED <<task, routed, pc>> /\ pc[c] = "awaitHosts" /\ ImageDone(c)
    BY <1>12, <1>a DEF TruncateHosts, Relied
  <2>2. \/ work'[c] = "write" /\ hosts' = NoImage /\ UNCHANGED image
        \/ work'[c] = "error" /\ hosts' = hosts
    BY <1>12, <1>a, <2>1 DEF TruncateHosts, Goto, Leave, Work, Result, Request, TypeOK
  <2>3. task[c].kind \notin {"configure", "domains"} => routed = ~task[c].remove
    BY <2>1 DEF Relied, RoutePassed
  <2>4. work'[c] = "write" => ImageDone(c)'
    BY <2>1, <2>2 DEF ImageDone
  <2> QED
    BY <1>a, <2>1, <2>2, <2>3, <2>4 DEF Relied, NamesPassed
<1>12a. CASE WriteHosts(c)
  <2>1. /\ UNCHANGED <<task, routed, pc>> /\ pc[c] = "awaitHosts"
        /\ ImageDone(c) /\ hosts = NoImage
    BY <1>12a, <1>a DEF WriteHosts, Relied
  <2>2. \/ /\ work'[c] = "done"
           /\ \E names \in SUBSET Names : hosts' = Over(c, names) /\ Bound(c) \subseteq names
        \/ work'[c] = "error"
    BY <1>12a, <1>a, <2>1 DEF WriteHosts, Goto, Leave, Work, Result, Request, TypeOK
  <2>3. work'[c] = "done" => \A d \in Names : hosts'[d] = image[c][d]
    <3> SUFFICES ASSUME NEW names \in SUBSET Names, hosts' = Over(c, names),
                        Bound(c) \subseteq names, NEW d \in Names
                 PROVE  hosts'[d] = image[c][d]
      BY <2>2
    <3> QED
      BY <2>1 DEF Over, Bound, NoImage
  <2>4. work'[c] = "done" => NamesAre(task[c])'
    BY <1>a, <2>1, <2>3 DEF ImageDone, NamesAre, Names
  <2>5. task[c].kind \notin {"configure", "domains"} => routed = ~task[c].remove
    BY <2>1 DEF Relied, RoutePassed
  <2> QED
    BY <1>a, <2>1, <2>2, <2>4, <2>5 DEF Relied, NamesPassed
<1>16. CASE HelperDies(c)
  <2>1. UNCHANGED <<task, hosts, routed, pc>>
    BY <1>16, <1>a DEF HelperDies
  <2>2. \/ UNCHANGED <<work, image>>
        \/ work'[c] = "error"
        \/ work'[c] = "done" /\ work[c] = "done"
    BY <1>16, <1>a, <2>1 DEF HelperDies, Goto, Leave, Work, Result, Request, TypeOK
  <2> QED
    BY <1>a, <2>1, <2>2 DEF Relied, RoutePassed, NamesPassed, NamesAre, AllHere, Looks, ImageDone
<1>4. CASE Dial(c)
  BY <1>4, <1>a DEF Dial, Goto, Leave, TypeOK, Relied, RoutePassed, NamesPassed, NamesAre,
      AllHere, Looks, ImageDone
<1>7. CASE Stopped(c)
  BY <1>7, <1>a DEF Stopped, Goto, Leave, TypeOK, Relied, RoutePassed, NamesPassed, NamesAre,
      AllHere, Looks, ImageDone
<1>8. CASE Listen(c)
  BY <1>8, <1>a DEF Listen, Goto, Leave, TypeOK, Relied, RoutePassed, NamesPassed, NamesAre,
      AllHere, Looks, ImageDone
<1>13. CASE Stop(c)
  BY <1>13, <1>a DEF Stop, Goto, Leave, TypeOK, Relied, RoutePassed, NamesPassed, NamesAre,
      AllHere, Looks, ImageDone
<1>14. CASE HelperStops(c)
  BY <1>14, <1>a DEF HelperStops, Goto, Leave, TypeOK, Relied, RoutePassed, NamesPassed,
      NamesAre, AllHere, Looks, ImageDone
<1>15. CASE Kill(c)
  BY <1>15, <1>a DEF Kill, Goto, Leave, TypeOK, Relied, RoutePassed, NamesPassed, NamesAre,
      AllHere, Looks, ImageDone
<1> QED
  BY <1>1, <1>2, <1>3, <1>4, <1>5, <1>6, <1>7, <1>8, <1>9, <1>10, <1>11, <1>12, <1>12a,
      <1>13, <1>14, <1>15, <1>16
  DEF Command, Server

LEMMA LoneInductive == TypeOK /\ Staged /\ Lone /\ [Next]_vars => Lone'
<1> SUFFICES ASSUME TypeOK, Staged, Lone, [Next]_vars,
                    NEW c \in Procs, alone'[c], pc'[c] \notin Resting
             PROVE  Others(c)' /\ Relied(c)'
  BY DEF Lone
<1>1. ASSUME NEW p \in Procs, Begin(p) PROVE Others(c)' /\ Relied(c)'
  <2>1. c = p /\ Others(c)
    BY <1>1 DEF Begin, Others, TypeOK
  <2>2. /\ pc'[c] \in {"hosts", "route"} /\ UNCHANGED work /\ work[c] = "none"
        /\ pc'[c] = "hosts" => task'[c].kind = "domains"
        /\ \A q \in Procs \ {c} : pc'[q] = pc[q]
    BY <1>1, <2>1 DEF Begin, Goto, Quiet, TypeOK
  <2>3. Others(c)' /\ Relied(c)'
    BY <2>1, <2>2 DEF Others, Quiet, Relied, RoutePassed, NamesPassed
  <2> QED
    BY <2>3
<1>2. ASSUME NEW p \in Procs, Command(p) \/ Server(p) \/ Kill(p) \/ HelperDies(p)
      PROVE  Others(c)' /\ Relied(c)'
  <2>1. alone[c] /\ pc[c] \notin Resting
    BY <1>2, StepFrame
  <2>2. Others(c) /\ Relied(c)
    BY <2>1 DEF Lone
  <2>3. CASE p = c
    <3>1. Others(c)'
      BY <1>2, <2>2, <2>3, StepFrame DEF Others, Quiet
    <3> QED
      BY <1>2, <2>1, <2>2, <2>3, <3>1, ReliedStep
  <2>4. CASE p # c
    <3>1. UNCHANGED <<pc, task, work, image, hosts, routed, alone>>
      BY <1>2, <2>2, <2>4, QuietStep DEF Others
    <3> QED
      BY <2>2, <3>1 DEF Others, Quiet, Relied, RoutePassed, NamesPassed, NamesAre, AllHere,
          Looks, ImageDone
  <2> QED
    BY <2>3, <2>4
<1>3. CASE UNCHANGED vars
  BY <1>3 DEF vars, command, server, windows, Lone, Others, Quiet, Relied, RoutePassed,
      NamesPassed, NamesAre, AllHere, Looks, ImageDone
<1> QED
  BY <1>1, <1>2, <1>3 DEF Next


THEOREM LoneCorrect == Spec => [](TypeOK /\ Staged /\ Lone)
<1>1. Init => Lone
  BY DEF Init, Lone
<1> QED
  BY <1>1, TypeCorrect, LoneInductive, PTL DEF Spec

(* Only the release of the client ends a command well. *)
LEMMA EndsWell ==
    ASSUME TypeOK, [Next]_vars, NEW c \in Procs, pc[c] \notin Resting, pc'[c] = "ok"
    PROVE  pc[c] \in {"release", "stop"} /\ UNCHANGED <<task, hosts, routed>>
<1> USE DEF TypeOK, Goto, Leave, Request, AfterError, AfterRoute, Awaiting, Resting, command,
    server, windows
<1>1. ASSUME NEW p \in Procs, Begin(p) PROVE FALSE
  BY <1>1 DEF Begin, Quiet
<1>2. ASSUME NEW p \in Procs, RouteToWSL(p) PROVE FALSE
  BY <1>2 DEF RouteToWSL
<1>3. ASSUME NEW p \in Procs, ConfigureDomains(p) PROVE FALSE
  BY <1>3 DEF ConfigureDomains
<1>4. ASSUME NEW p \in Procs, GetElevatedClient(p) PROVE FALSE
  BY <1>4 DEF GetElevatedClient
<1>5. ASSUME NEW p \in Procs, Dial(p) PROVE FALSE
  BY <1>5 DEF Dial
<1>6. ASSUME NEW p \in Procs, Answer(p) PROVE FALSE
  BY <1>6 DEF Answer
<1>7. ASSUME NEW p \in Procs, Release(p)
      PROVE  pc[c] \in {"release", "stop"} /\ UNCHANGED <<task, hosts, routed>>
  BY <1>7 DEF Release
<1>8. ASSUME NEW p \in Procs, Stopped(p)
      PROVE  pc[c] \in {"release", "stop"} /\ UNCHANGED <<task, hosts, routed>>
  BY <1>8 DEF Stopped
<1>9. ASSUME NEW p \in Procs, Listen(p) PROVE FALSE
  BY <1>9 DEF Listen
<1>10. ASSUME NEW p \in Procs, AddOrRemoveRoute(p) PROVE FALSE
  BY <1>10 DEF AddOrRemoveRoute
<1>11. ASSUME NEW p \in Procs, Check(p) PROVE FALSE
  BY <1>11 DEF Check
<1>12. ASSUME NEW p \in Procs, ReadHosts(p) PROVE FALSE
  BY <1>12 DEF ReadHosts
<1>13. ASSUME NEW p \in Procs, TruncateHosts(p) PROVE FALSE
  BY <1>13 DEF TruncateHosts
<1>13a. ASSUME NEW p \in Procs, WriteHosts(p) PROVE FALSE
  BY <1>13a DEF WriteHosts
<1>14. ASSUME NEW p \in Procs, Stop(p) PROVE FALSE
  BY <1>14 DEF Stop
<1>15. ASSUME NEW p \in Procs, HelperStops(p) PROVE FALSE
  BY <1>15 DEF HelperStops
<1>16. ASSUME NEW p \in Procs, Kill(p) PROVE FALSE
  BY <1>16 DEF Kill
<1>17. ASSUME NEW p \in Procs, HelperDies(p) PROVE FALSE
  BY <1>17 DEF HelperDies
<1>18. CASE UNCHANGED vars
  BY <1>18 DEF vars
<1> QED
  BY <1>1, <1>2, <1>3, <1>4, <1>5, <1>6, <1>7, <1>8, <1>9, <1>10, <1>11, <1>12, <1>13, <1>13a,
      <1>14, <1>15, <1>16, <1>17, <1>18
  DEF Next, Command, Server

(* A command that nobody disturbs and that says it succeeded did what it was   *)
(* asked, through whatever helper, failures and leftovers of killed commands.  *)
THEOREM SuccessIsDoneHolds == Spec => SuccessIsDone
<1>1. TypeOK /\ Staged /\ Lone /\ [Next]_vars => [OkIsDone]_vars
  <2> SUFFICES ASSUME TypeOK, Staged, Lone, [Next]_vars,
                      NEW c \in Procs, alone[c], task[c].kind # "configure",
                      pc[c] \notin Resting, pc'[c] = "ok"
               PROVE  Done(task[c])
    BY DEF OkIsDone
  <2>1. pc[c] \in {"release", "stop"} /\ UNCHANGED <<task, hosts, routed>>
    BY EndsWell
  <2>2. Relied(c)
    BY DEF Lone
  <2>3. task[c].kind # "domains" => routed = ~task[c].remove
    BY <2>1, <2>2 DEF Relied, RoutePassed
  <2>4. task[c].kind # "route" => NamesAre(task[c])
    BY <2>1, <2>2 DEF Relied, NamesPassed
  <2> QED
    BY <2>1, <2>3, <2>4 DEF Done, NamesDone, NamesAre
<1> QED
  BY <1>1, LoneCorrect, PTL DEF Spec, SuccessIsDone

(* Only the first request of a command asks. *)
LEMMA Asks ==
    ASSUME TypeOK, [Next]_vars, NEW c \in Procs, prompts'[c] > prompts[c]
    PROVE  pc[c] \in {"getRoute", "getHosts"}
<1>a. prompts' # prompts
  BY DEF TypeOK
<1> USE DEF Leave, command
<1>1. ASSUME NEW p \in Procs, Begin(p) PROVE FALSE
  BY <1>1 DEF Begin, TypeOK
<1>2. ASSUME NEW p \in Procs, GetElevatedClient(p) PROVE pc[c] \in {"getRoute", "getHosts"}
  <2>1. /\ \E n \in {0, 1} : prompts' = [prompts EXCEPT ![p] = @ + n]
        /\ pc[p] \in {"getRoute", "getHosts"}
    BY <1>2, <1>a DEF GetElevatedClient
  <2> QED
    BY <2>1 DEF TypeOK
<1>3. ASSUME NEW p \in Procs, RouteToWSL(p) PROVE FALSE
  BY <1>3, <1>a DEF RouteToWSL
<1>4. ASSUME NEW p \in Procs, ConfigureDomains(p) PROVE FALSE
  BY <1>4, <1>a DEF ConfigureDomains
<1>5. ASSUME NEW p \in Procs, Dial(p) PROVE FALSE
  BY <1>5, <1>a DEF Dial
<1>6. ASSUME NEW p \in Procs, Answer(p) PROVE FALSE
  BY <1>6, <1>a DEF Answer
<1>7. ASSUME NEW p \in Procs, Release(p) PROVE FALSE
  BY <1>7, <1>a DEF Release
<1>8. ASSUME NEW p \in Procs, Stopped(p) PROVE FALSE
  BY <1>8, <1>a DEF Stopped
<1>9. ASSUME NEW p \in Procs, Listen(p) PROVE FALSE
  BY <1>9, <1>a DEF Listen
<1>10. ASSUME NEW p \in Procs, AddOrRemoveRoute(p) PROVE FALSE
  BY <1>10, <1>a DEF AddOrRemoveRoute
<1>11. ASSUME NEW p \in Procs, Check(p) PROVE FALSE
  BY <1>11, <1>a DEF Check
<1>12. ASSUME NEW p \in Procs, ReadHosts(p) PROVE FALSE
  BY <1>12, <1>a DEF ReadHosts
<1>13. ASSUME NEW p \in Procs, TruncateHosts(p) PROVE FALSE
  BY <1>13, <1>a DEF TruncateHosts
<1>13a. ASSUME NEW p \in Procs, WriteHosts(p) PROVE FALSE
  BY <1>13a, <1>a DEF WriteHosts
<1>14. ASSUME NEW p \in Procs, Stop(p) PROVE FALSE
  BY <1>14, <1>a DEF Stop
<1>15. ASSUME NEW p \in Procs, HelperStops(p) PROVE FALSE
  BY <1>15, <1>a DEF HelperStops
<1>16. ASSUME NEW p \in Procs, Kill(p) PROVE FALSE
  BY <1>16, <1>a DEF Kill
<1>17. ASSUME NEW p \in Procs, HelperDies(p) PROVE FALSE
  BY <1>17, <1>a DEF HelperDies
<1>18. CASE UNCHANGED vars
  BY <1>18, <1>a DEF vars
<1> QED
  BY <1>1, <1>2, <1>3, <1>4, <1>5, <1>6, <1>7, <1>8, <1>9, <1>10, <1>11, <1>12, <1>13, <1>13a,
      <1>14, <1>15, <1>16, <1>17, <1>18
  DEF Next, Command, Server

(* A command that nobody disturbs asks the user only for a cause.             *)
THEOREM PromptsForCauseHolds == Spec => PromptsForCause
<1>1. TypeOK /\ Staged /\ Lone /\ [Next]_vars => [AsksForCause]_vars
  <2> SUFFICES ASSUME TypeOK, Staged, Lone, [Next]_vars,
                      NEW c \in Procs, alone[c], prompts'[c] > prompts[c]
               PROVE  Cause(task[c])
    BY DEF AsksForCause
  <2>1. pc[c] \in {"getRoute", "getHosts"}
    BY Asks
  <2>2. Relied(c) /\ Stage(c)
    BY <2>1 DEF Lone, Staged, Resting
  <2> QED
    BY <2>1, <2>2, ElevatedAssumption
    DEF Relied, Stage, Sensible, Tasks, AllHere, Looks, AllKinds, Cause, Resting
<1> QED
  BY <1>1, LoneCorrect, PTL DEF Spec, PromptsForCause

=============================================================================
