---------------------------- MODULE LogPipeProofs ----------------------------
(* Theorems about LogPipe, for any pipe, scanner buffer and stream of lines. *)
EXTENDS LogPipe, TLAPS

USE LogPipeAssumption DEF LogPipeAssumption

LEMMA TypeInit == Init => TypeOK
<1> SUFFICES ASSUME Init PROVE TypeOK
  OBVIOUS
<1>1. /\ total \in 0 .. MaxCells /\ wrote \in 0 .. MaxCells
      /\ read \in 0 .. wrote /\ taken \in 0 .. read
      /\ wrote - read <= Capacity /\ read - taken <= BufMax
  BY DEF Init
<1>2. /\ ends \subseteq 1 .. wrote
      /\ logged \subseteq (1 .. wrote) \X (1 .. wrote)
      /\ handles \subseteq {"writeOut", "stderr"}
  BY DEF Init
<1> QED
  BY <1>1, <1>2 DEF Init, TypeOK, Over, Ends

LEMMA LogType ==
    ASSUME TypeOK, phase = "pipe", NEW form, NEW to \in taken + 1 .. read, Log(form, to)
    PROVE  TypeOK'
<1>1. taken' \in 0 .. read' /\ read' - taken' <= BufMax /\ read' = read
  BY DEF TypeOK, Log
<1>2. logged' \subseteq (1 .. wrote) \X (1 .. wrote)
  BY DEF TypeOK, Log
<1> QED
  BY <1>1, <1>2 DEF TypeOK, Log, program, Over

LEMMA TypeInductive == TypeOK /\ [Next]_vars => TypeOK'
<1> SUFFICES ASSUME TypeOK, [Next]_vars PROVE TypeOK'
  OBVIOUS
<1> USE DEF Over, Ends, program, reader
<1>1. CASE Launch
  BY <1>1 DEF Launch, TypeOK
<1>2. CASE CloseOwn
  BY <1>2 DEF CloseOwn, TypeOK
<1>3. CASE Read
  BY <1>3 DEF Read, TypeOK
<1>4. CASE LogLine
  BY <1>4, LogType DEF LogLine, InBuffer, TypeOK
<1>5. CASE LogRest
  <2>1. read \in taken + 1 .. read
    BY <1>5 DEF LogRest, TypeOK
  <2> QED
    BY <1>5, <2>1, LogType DEF LogRest
<1>6. CASE EndOfLog
  BY <1>6 DEF EndOfLog, TypeOK
<1>7. CASE GiveUp
  BY <1>7 DEF GiveUp, TypeOK
<1>8. CASE Wait
  BY <1>8 DEF Wait, TypeOK
<1>9. CASE Collect
  BY <1>9 DEF Collect, TypeOK
<1>10. CASE Write
  BY <1>10 DEF Write, TypeOK
<1>11. CASE WriteBroken
  BY <1>11 DEF WriteBroken, TypeOK
<1>12. CASE Exit
  BY <1>12 DEF Exit, TypeOK
<1>13. CASE Fail
  BY <1>13 DEF Fail, TypeOK
<1>14. CASE UNCHANGED vars
  BY <1>14 DEF vars, TypeOK
<1> QED
  BY <1>1, <1>2, <1>3, <1>4, <1>5, <1>6, <1>7, <1>8, <1>9, <1>10, <1>11, <1>12, <1>13, <1>14
  DEF Next, Kaweezle, Program, Ended

(* The cursors keep their order and the buffers their size.                   *)
THEOREM TypeCorrect == Spec => []TypeOK
  BY TypeInit, TypeInductive, PTL DEF Spec

-----------------------------------------------------------------------------
(***************************************************************************)
(* The invariant. Progress: how far the call is, the program and the reader  *)
(* agree. Boundary: what was taken ends where a line ends, or where the      *)
(* stream does. Pieces: what was logged is whole lines, all of those taken.  *)
(* Stopped: a scan that gave up met a line too long.                         *)
(***************************************************************************)
Progress ==
    /\ phase = "launch" => child = "none"
    /\ phase \in {"ok", "error"} => child # "running"
    /\ phase \in {"wait", "ok", "error"} /\ ~gaveUp =>
            taken = wrote /\ child # "running"
    /\ open \/ phase \in {"wait", "ok", "error", "died"}
    /\ child = "broken" => gaveUp \/ phase = "died"

AtStop(c) == c = wrote /\ child # "running"

Boundary == taken = 0 \/ taken \in ends \/ AtStop(taken)

Pieces ==
    /\ \A r \in logged :
        /\ r[1] = 1 \/ r[1] - 1 \in ends
        /\ \A e \in ends : ~(r[1] <= e /\ e < r[2])
        /\ r[2] \in ends \/ AtStop(r[2])
        /\ r[2] <= taken
    /\ \A e \in ends : e <= taken => \E r \in logged : r[2] = e

Stopped == /\ gaveUp => phase \notin {"launch", "close", "pipe"} /\ TooLong(taken)
           /\ child = "none" => wrote = 0 /\ total = 0

IInv == TypeOK /\ Progress /\ Boundary /\ Pieces /\ Stopped

LEMMA InvInit == Init => IInv
  BY TypeInit DEF Init, IInv, Progress, Boundary, Pieces, Stopped

(* Taking a piece that begins after the last one and has no newline inside.   *)
LEMMA LogKeeps ==
    ASSUME IInv, phase = "pipe", NEW form, NEW to \in taken + 1 .. read, Log(form, to),
           to \in ends \/ AtStop(to),
           \A e \in ends : ~(taken < e /\ e < to)
    PROVE  IInv'
<1> USE DEF program
<1>1. TypeOK'
  BY LogType DEF IInv
<1>2. Progress' /\ Stopped'
  BY DEF IInv, Progress, Stopped, Log, TypeOK, TooLong
<1>3. Boundary'
  BY DEF IInv, Boundary, AtStop, Log
<1>4. taken = 0 \/ taken \in ends
  BY DEF IInv, Boundary, AtStop, TypeOK
<1>5. Pieces'
  <2>1. ASSUME NEW r \in logged' 
        PROVE  /\ r[1] = 1 \/ r[1] - 1 \in ends'
               /\ \A e \in ends' : ~(r[1] <= e /\ e < r[2])
               /\ r[2] \in ends' \/ AtStop(r[2])'
               /\ r[2] <= taken'
    <3>1. CASE r \in logged
      BY <3>1 DEF IInv, Pieces, AtStop, Log, TypeOK
    <3>2. CASE r = <<taken + 1, to>>
      <4>1. \A e \in ends : e \in Nat
        BY DEF IInv, TypeOK
      <4> QED
        BY <3>2, <1>4, <4>1 DEF IInv, TypeOK, AtStop, Log
    <3> QED
      BY <2>1, <3>1, <3>2 DEF Log
  <2>2. ASSUME NEW e \in ends', e <= taken'
        PROVE  \E r \in logged' : r[2] = e
    <3>1. CASE e <= taken
      BY <2>2, <3>1 DEF IInv, Pieces, Log
    <3>2. CASE ~(e <= taken)
      <4>1. e = to
        BY <2>2, <3>2 DEF IInv, TypeOK, Log
      <4>2. <<taken + 1, to>> \in logged' /\ <<taken + 1, to>>[2] = to
        BY DEF Log
      <4> QED
        BY <4>1, <4>2
    <3> QED
      BY <3>1, <3>2
  <2> QED
    BY <2>1, <2>2 DEF Pieces
<1> QED
  BY <1>1, <1>2, <1>3, <1>5 DEF IInv

LEMMA InvInductive == IInv /\ [Next]_vars => IInv'
<1> SUFFICES ASSUME IInv, [Next]_vars PROVE IInv'
  OBVIOUS
<1>0. TypeOK /\ TypeOK'
  BY TypeInductive DEF IInv
<1> USE DEF program, reader
<1>1. CASE Launch
  BY <1>0, <1>1 DEF Launch, IInv, TypeOK, Progress, Boundary, AtStop, Pieces, Stopped, TooLong
<1>2. CASE CloseOwn
  BY <1>0, <1>2 DEF CloseOwn, IInv, Progress, Boundary, AtStop, Pieces, Stopped, TooLong
<1>3. CASE Read
  BY <1>0, <1>3 DEF Read, IInv, Progress, Boundary, AtStop, Pieces, Stopped, TooLong
<1>4. CASE LogLine
  <2>1. PICK e \in ends : /\ InBuffer(e) 
                          /\ \A d \in ends : InBuffer(d) => e <= d
                          /\ \E form \in Forms : Log(form, e)
    BY <1>4 DEF LogLine
  <2>2. e \in taken + 1 .. read /\ \A d \in ends : ~(taken < d /\ d < e)
    BY <1>0, <2>1 DEF InBuffer, TypeOK
  <2> QED
    BY <1>4, <2>1, <2>2, LogKeeps DEF LogLine
<1>5. CASE LogRest
  <2>1. AtStop(read) /\ read \in taken + 1 .. read
    BY <1>0, <1>5 DEF LogRest, EndOfStream, AtStop, TypeOK
  <2>2. \A e \in ends : ~(taken < e /\ e < read)
    BY <1>0, <1>5 DEF LogRest, NoLine, InBuffer, TypeOK
  <2> QED
    BY <1>5, <2>1, <2>2, LogKeeps DEF LogRest
<1>6. CASE EndOfLog
  BY <1>0, <1>6 DEF EndOfLog, EndOfStream, IInv, Progress, Boundary, AtStop, Pieces, Stopped, TooLong
<1>7. CASE GiveUp
  <2>1. TooLong(taken)
    BY <1>0, <1>7 DEF GiveUp, NoLine, InBuffer, TooLong, TypeOK
  <2> QED
    BY <1>0, <1>7, <2>1 DEF GiveUp, IInv, Progress, Boundary, AtStop, Pieces, Stopped, TooLong
<1>8. CASE Wait
  BY <1>0, <1>8 DEF Wait, IInv, Progress, Boundary, AtStop, Pieces, Stopped, TooLong
<1>9. CASE Collect
  BY <1>0, <1>9 DEF Collect, IInv, Progress, Boundary, AtStop, Pieces, Stopped, TooLong
<1>10. CASE Write
  <2>1. Progress' /\ Boundary'
    BY <1>0, <1>10 DEF Write, IInv, Progress, Boundary, AtStop
  <2>2. Stopped'
    BY <1>0, <1>10 DEF Write, IInv, Stopped, TooLong, TypeOK
  <2>3. Pieces'
    <3>1. ASSUME NEW r \in logged 
          PROVE  /\ r[1] = 1 \/ r[1] - 1 \in ends'
                 /\ \A e \in ends' : ~(r[1] <= e /\ e < r[2])
                 /\ r[2] \in ends' /\ r[2] <= taken
      <4>1. r[2] \in 1 .. wrote
        BY <1>0, <3>1 DEF TypeOK
      <4> QED
        BY <1>0, <1>10, <3>1, <4>1 DEF Write, IInv, Pieces, AtStop, TypeOK
    <3>2. \A e \in ends' : e <= taken => e \in ends
      BY <1>0, <1>10 DEF Write, TypeOK
    <3> QED
      BY <1>10, <3>1, <3>2 DEF Write, IInv, Pieces
  <2> QED
    BY <1>0, <2>1, <2>2, <2>3 DEF IInv
<1>11. CASE WriteBroken
  BY <1>0, <1>11 DEF WriteBroken, IInv, Progress, Boundary, AtStop, Pieces, Stopped, TooLong
<1>12. CASE Exit
  BY <1>0, <1>12 DEF Exit, IInv, Progress, Boundary, AtStop, Pieces, Stopped, TooLong
<1>13. CASE Fail
  BY <1>0, <1>13 DEF Fail, IInv, Progress, Boundary, AtStop, Pieces, Stopped, TooLong
<1>14. CASE UNCHANGED vars
  BY <1>0, <1>14 DEF vars, IInv, Progress, Boundary, AtStop, Pieces, Stopped, TooLong
<1> QED
  BY <1>1, <1>2, <1>3, <1>4, <1>5, <1>6, <1>7, <1>8, <1>9, <1>10, <1>11, <1>12, <1>13, <1>14
  DEF Next, Kaweezle, Program, Ended

THEOREM InvCorrect == Spec => []IInv
  BY InvInit, InvInductive, PTL DEF Spec

(* However the stream is cut into reads, only whole lines are logged.         *)
THEOREM WholeLinesHolds == Spec => []WholeLines
<1>1. IInv => WholeLines
  BY DEF IInv, Pieces, AtStop, WholeLines
<1> QED
  BY <1>1, InvCorrect, PTL

(* A program that lost its pipe wrote a line too long, or kaweezle died.      *)
THEOREM BrokenByLongLineHolds == Spec => []BrokenByLongLine
<1>1. IInv => BrokenByLongLine
  BY DEF IInv, TypeOK, Progress, Stopped, BrokenByLongLine
<1> QED
  BY <1>1, InvCorrect, PTL

-----------------------------------------------------------------------------
(***************************************************************************)
(* LogPipe implements LogStream. A newline written is Send, a line logged is *)
(* Show, the end of the log, a scan given up and a panic are Finish, and all *)
(* other steps leave the stream as it is.                                    *)
(***************************************************************************)
Shown == {r[2] : r \in logged} \cap ends

LEMMA StreamInit == Init => Stream!Init
  BY DEF Init, Stream!Init, Result

LEMMA StreamStep == IInv /\ IInv' /\ [Next]_vars => [Stream!Next]_Stream!vars
<1> SUFFICES ASSUME IInv, IInv', [Next]_vars PROVE [Stream!Next]_Stream!vars
  OBVIOUS
<1>0. TypeOK /\ TypeOK'
  BY DEF IInv
<1>s. Shown = {e \in ends : e <= taken} /\ Shown' = {e \in ends' : e <= taken'}
  <2>1. Shown = {e \in ends : e <= taken}
    BY DEF IInv, Pieces, Shown
  <2>2. Shown' = {e \in ends' : e <= taken'}
    BY DEF IInv, Pieces, Shown
  <2> QED
    BY <2>1, <2>2
<1>a. ASSUME ends' = ends, Shown' = Shown, Result' = Result
      PROVE  UNCHANGED Stream!vars
  BY <1>a DEF Stream!vars, Shown
<1>b. ASSUME ends' = ends, Shown' = Shown, Result = "none",
             \/ Result' = "complete" /\ Shown = ends
             \/ Result' = "cut"
      PROVE  Stream!Next
  BY <1>b DEF Stream!Next, Stream!Finish, Shown
<1> USE DEF program, reader
<1>1. CASE Launch
  BY <1>1, <1>s, <1>a DEF Launch, Result
<1>2. CASE CloseOwn
  BY <1>2, <1>s, <1>a DEF CloseOwn, Result
<1>3. CASE Read
  BY <1>3, <1>s, <1>a DEF Read, Result
<1>4. CASE LogLine
  <2>1. PICK e \in ends, form \in Forms : /\ InBuffer(e)
                                          /\ \A d \in ends : InBuffer(d) => e <= d
                                          /\ Log(form, e)
    BY <1>4 DEF LogLine
  <2>2. e \in ends \ Shown /\ \A k \in ends \ Shown : e <= k
    BY <1>0, <2>1, <1>s DEF InBuffer, TypeOK
  <2>3. Shown' = Shown \cup {e} /\ ends' = ends
    <3>1. \A k \in ends : k <= e <=> k <= taken \/ k = e
      BY <1>0, <2>1 DEF InBuffer, TypeOK
    <3> QED
      BY <2>1, <3>1, <1>s DEF Log
  <2>4. Result = "none" /\ Result' \in {"none", "cut"}
    BY <1>4, <2>1 DEF LogLine, Log, Result, IInv, Stopped
  <2> QED
    BY <2>2, <2>3, <2>4 DEF Stream!Next, Stream!Show, Shown
<1>5. CASE LogRest
  <2>1. PICK form \in Forms : Log(form, read)
    BY <1>5 DEF LogRest
  <2>2. Shown' = Shown /\ ends' = ends
    <3>1. \A k \in ends : k <= read <=> k <= taken
      BY <1>0, <1>5 DEF LogRest, NoLine, InBuffer, TypeOK
    <3> QED
      BY <2>1, <3>1, <1>s DEF Log
  <2>3. Result = "none" /\ Result' \in {"none", "cut"}
    BY <1>5, <2>1 DEF LogRest, Log, Result, IInv, Stopped
  <2> QED
    BY <2>2, <2>3, <1>a, <1>b
<1>6. CASE EndOfLog
  <2>1. Shown' = Shown /\ ends' = ends
    BY <1>6, <1>s DEF EndOfLog
  <2>2. Shown = ends
    <3>1. \A k \in ends : k <= taken
      BY <1>0, <1>6 DEF EndOfLog, EndOfStream, TypeOK
    <3> QED
      BY <3>1, <1>s
  <2>3. Result = "none" /\ Result' = "complete"
    BY <1>6 DEF EndOfLog, Result, IInv, Stopped
  <2> QED
    BY <2>1, <2>2, <2>3, <1>b
<1>7. CASE GiveUp
  <2>1. Shown' = Shown /\ ends' = ends
    BY <1>7, <1>s DEF GiveUp
  <2>2. Result = "none" /\ Result' = "cut"
    BY <1>7 DEF GiveUp, Result, IInv, Stopped
  <2> QED
    BY <2>1, <2>2, <1>b
<1>8. CASE Wait
  BY <1>8, <1>s, <1>a DEF Wait, Result
<1>9. CASE Collect
  BY <1>9, <1>s, <1>a DEF Collect, Result
<1>10. CASE Write
  <2>1. Shown' = Shown /\ Result' = Result
    BY <1>0, <1>10, <1>s DEF Write, TypeOK, Result
  <2>2. CASE ends' = ends
    BY <2>1, <2>2, <1>a
  <2>3. CASE ends' = ends \cup {wrote + 1}
    <3>1. wrote + 1 \in 1 .. MaxCells /\ \A k \in ends : k < wrote + 1
      BY <1>0, <1>10 DEF Write, TypeOK
    <3>2. Result # "complete"
      BY <1>10 DEF Write, Result, IInv, Progress
    <3> QED
      BY <2>1, <2>3, <3>1, <3>2 DEF Stream!Next, Stream!Send, Shown
  <2> QED
    BY <1>10, <2>2, <2>3 DEF Write
<1>11. CASE WriteBroken
  BY <1>11, <1>s, <1>a DEF WriteBroken, Result
<1>12. CASE Exit
  BY <1>12, <1>s, <1>a DEF Exit, Result
<1>13. CASE Fail
  BY <1>13, <1>s, <1>a DEF Fail, Result
<1>14. CASE UNCHANGED vars
  BY <1>14, <1>s, <1>a DEF vars, Result
<1> QED
  BY <1>1, <1>2, <1>3, <1>4, <1>5, <1>6, <1>7, <1>8, <1>9, <1>10, <1>11, <1>12, <1>13, <1>14
  DEF Next, Kaweezle, Program, Ended

(* LaunchAndPipe keeps the promise of LogStream: every line of the program is *)
(* logged once, whole and in order, and all of them by the time it returns,   *)
(* unless the scanner gave up or kaweezle died of a panic line.               *)
THEOREM EveryLineLoggedHolds == Spec => EveryLineLogged
  BY StreamInit, StreamStep, InvCorrect, PTL DEF Spec, EveryLineLogged, Stream!Spec

=============================================================================
