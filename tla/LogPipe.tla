------------------------------- MODULE LogPipe -------------------------------
(***************************************************************************)
(* LaunchAndPipe (pkg/wsl/wsl.go:223-249) and PipeLogs (pkg/logger/pipe.go):  *)
(* kaweezle launches a program in the distribution (iknite, rc-service) with *)
(* the write end of a pipe as its standard error, closes its own copies of   *)
(* that end, logs what comes through line by line, and at the end of the     *)
(* stream waits for the program.                                             *)
(*                                                                          *)
(* What the program writes is numbered cell by cell, 1 .. total; ends is the *)
(* set of the cells that are a newline. The pipe holds the cells             *)
(* read + 1 .. wrote, the scanner's buffer the cells taken + 1 .. read.      *)
(***************************************************************************)
EXTENDS Naturals

CONSTANTS
    MaxCells,  \* bound on what the program writes
    Capacity,  \* what the pipe holds
    BufMax,    \* what bufio.Scanner holds, bufio.MaxScanTokenSize
    Forms      \* the forms of line the program writes

AllForms == {"entry", "odd", "text", "panic"}

ASSUME LogPipeAssumption ==
    /\ MaxCells \in Nat
    /\ Capacity \in Nat \ {0}
    /\ BufMax \in Nat \ {0}
    /\ Forms \subseteq AllForms

VARIABLES
    (* The program. *)
    child,    \* not launched, running, or how it ended
    total,    \* the cells it is going to write
    wrote,    \* the cells it has written
    ends,     \* the newlines among them
    (* The pipe. *)
    handles,  \* kaweezle's own copies of the write end
    open,     \* the read end is open
    (* LaunchAndPipe. *)
    phase,    \* what it does next, or how it ended
    read,     \* the cells read from the pipe
    taken,    \* the cells logged
    logged,   \* the pieces logged, as <<first cell, last cell>>
    gaveUp    \* the scanner stopped before the end of the stream

program == <<child, total, wrote, ends>>
reader  == <<read, taken, logged, gaveUp>>
vars    == <<program, handles, open, phase, reader>>

Over == {"ok", "error", "died"}
Ends == {"zero", "nonzero", "broken"}

Init ==
    /\ child = "none" /\ total = 0 /\ wrote = 0 /\ ends = {}
    /\ handles = {"writeOut", "stderr"} /\ open = TRUE
    /\ phase = "launch"
    /\ read = 0 /\ taken = 0 /\ logged = {} /\ gaveUp = FALSE

-----------------------------------------------------------------------------
(* LaunchAndPipe, up to PipeLogs: when WslLaunch fails there is no program,   *)
(* and the rest is done all the same.                                         *)
Launch ==
    /\ phase = "launch"
    /\ phase' = "close"
    /\ \/ child' = "running" /\ total' \in 0 .. MaxCells
       \/ UNCHANGED <<child, total>>
    /\ UNCHANGED <<wrote, ends, handles, open, reader>>

CloseKeepsStderr ==
    /\ phase = "close"
    /\ phase' = "pipe"
    /\ handles' = {"stderr"}
    /\ UNCHANGED <<program, open, reader>>

CloseOwn ==
    /\ phase = "close"
    /\ phase' = "pipe"
    /\ handles' = {}
    /\ UNCHANGED <<program, open, reader>>

-----------------------------------------------------------------------------
(* PipeLogs: bufio.Scanner takes the next line out of its buffer, and reads   *)
(* from the pipe when there is no whole line in it.                           *)
InBuffer(e) == e \in ends /\ taken < e /\ e <= read

NoLine == \A e \in ends : ~InBuffer(e)

EndOfStream == wrote = read /\ handles = {} /\ child # "running"

ReadUnbounded ==
    /\ phase = "pipe" /\ NoLine /\ read < wrote
    /\ read' = wrote
    /\ UNCHANGED <<program, handles, open, phase, taken, logged, gaveUp>>

Read ==
    /\ phase = "pipe" /\ NoLine
    /\ \E r \in read + 1 .. wrote : /\ r - taken <= BufMax
                                    /\ read' = r
    /\ UNCHANGED <<program, handles, open, phase, taken, logged, gaveUp>>

LogSkipsOdd(form, to) ==
    /\ logged' = IF form = "odd" THEN logged ELSE logged \cup {<<taken + 1, to>>}
    /\ taken' = to
    /\ UNCHANGED <<program, handles, open, phase, read, gaveUp>>

(* What is logged of a line, whether LogEntry makes an entry of it, it is     *)
(* JSON but no entry, or plain text, is one record. logrus panics after       *)
(* logging an entry of level panic, and kaweezle dies.                        *)
Log(form, to) ==
    /\ logged' = logged \cup {<<taken + 1, to>>}
    /\ taken' = to
    /\ IF form = "panic"
       THEN phase' = "died" /\ open' = FALSE
       ELSE UNCHANGED <<phase, open>>
    /\ UNCHANGED <<program, handles, read, gaveUp>>

LogWhatWasRead ==
    /\ phase = "pipe" /\ taken < read
    /\ \E form \in Forms : Log(form, read)

LogLine ==
    /\ phase = "pipe"
    /\ \E e \in ends : /\ InBuffer(e)
                       /\ \A d \in ends : InBuffer(d) => e <= d
                       /\ \E form \in Forms : Log(form, e)

(* What follows the last newline is a line too. *)
LogRest ==
    /\ phase = "pipe" /\ NoLine /\ EndOfStream
    /\ taken < read
    /\ \E form \in Forms : Log(form, read)

EndOfLog ==
    /\ phase = "pipe" /\ EndOfStream /\ taken = read
    /\ phase' = "wait"
    /\ UNCHANGED <<program, handles, open, reader>>

(* A buffer that is full without a line ends the scan; PipeLogs returns as at *)
(* the end of the stream, without a word.                                     *)
GiveUpWhenFull ==
    /\ phase = "pipe" /\ read - taken = BufMax
    /\ phase' = "wait" /\ gaveUp' = TRUE
    /\ UNCHANGED <<program, handles, open, read, taken, logged>>

GiveUp ==
    /\ phase = "pipe" /\ NoLine /\ read - taken = BufMax
    /\ phase' = "wait" /\ gaveUp' = TRUE
    /\ UNCHANGED <<program, handles, open, read, taken, logged>>

(* WaitForSingleObject, without a limit, then the exit code. *)
Wait ==
    /\ phase = "wait" /\ child # "running"
    /\ phase' = IF child = "zero" THEN "ok" ELSE "error"
    /\ UNCHANGED <<program, handles, open, reader>>

(* Nothing closes the read end. It is not referenced after PipeLogs, so the   *)
(* garbage collector, which runs every two minutes at least, closes it.       *)
Collect ==
    /\ phase = "wait" /\ open
    /\ open' = FALSE
    /\ UNCHANGED <<program, handles, phase, reader>>

-----------------------------------------------------------------------------
(* The program writes until it is done, and is held up by a full pipe; it     *)
(* dies of a pipe without a reader. It may fail or be terminated any time.    *)
Write ==
    /\ child = "running" /\ wrote < total
    /\ open /\ wrote - read < Capacity
    /\ wrote' = wrote + 1
    /\ ends' \in {ends, ends \cup {wrote + 1}}
    /\ UNCHANGED <<child, total, handles, open, phase, reader>>

WriteBroken ==
    /\ child = "running" /\ wrote < total
    /\ ~open
    /\ child' = "broken"
    /\ UNCHANGED <<total, wrote, ends, handles, open, phase, reader>>

Exit ==
    /\ child = "running" /\ wrote = total
    /\ child' = "zero"
    /\ UNCHANGED <<total, wrote, ends, handles, open, phase, reader>>

Fail ==
    /\ child = "running"
    /\ child' = "nonzero"
    /\ UNCHANGED <<total, wrote, ends, handles, open, phase, reader>>

Ended ==
    /\ phase \in Over /\ child # "running"
    /\ UNCHANGED vars

-----------------------------------------------------------------------------
Kaweezle == \/ Launch \/ CloseOwn \/ Read \/ LogLine \/ LogRest \/ EndOfLog
            \/ GiveUp \/ Wait

Program == Write \/ WriteBroken \/ Exit

Next == Kaweezle \/ Collect \/ Program \/ Fail \/ Ended

Spec == Init /\ [][Next]_vars

(* kaweezle and the program go on when they can, and the collector runs. *)
FairSpec == Spec /\ WF_vars(Kaweezle) /\ WF_vars(Collect) /\ WF_vars(Program)

-----------------------------------------------------------------------------
(* The cursors keep their order, what is between them fits in the pipe and in *)
(* the scanner, and every variable has a value of its kind.                   *)
TypeOK ==
    /\ child \in {"none", "running"} \cup Ends
    /\ total \in 0 .. MaxCells /\ wrote \in 0 .. MaxCells
    /\ ends \subseteq 1 .. wrote
    /\ handles \subseteq {"writeOut", "stderr"}
    /\ open \in BOOLEAN /\ gaveUp \in BOOLEAN
    /\ phase \in {"launch", "close", "pipe", "wait"} \cup Over
    /\ read \in 0 .. wrote /\ taken \in 0 .. read
    /\ wrote - read <= Capacity /\ read - taken <= BufMax
    /\ logged \subseteq (1 .. wrote) \X (1 .. wrote)

(* However the cells are split between reads, what is logged begins where a   *)
(* line begins, has no newline inside, and ends where the line ends or, for   *)
(* the last one, where a program that has ended stopped (pipe.go:78-80).      *)
WholeLines ==
    \A r \in logged :
        /\ r[1] = 1 \/ r[1] - 1 \in ends
        /\ \A e \in ends : ~(r[1] <= e /\ e < r[2])
        /\ r[2] \in ends \/ (r[2] = wrote /\ child # "running")

(* The promise of LogStream: every line once and in order, and all of them    *)
(* when LaunchAndPipe returns, unless the scanner gave up or kaweezle died.   *)
Result == IF phase = "died" \/ gaveUp THEN "cut"
          ELSE IF phase \in {"wait", "ok", "error"} THEN "complete"
          ELSE "none"

Stream == INSTANCE LogStream
            WITH Lines <- 1 .. MaxCells, sent <- ends,
                 shown <- {r[2] : r \in logged} \cap ends,
                 result <- Result

EveryLineLogged == Stream!Spec

(* The program loses its pipe under its feet only when it wrote a line that   *)
(* the scanner cannot hold, or one that makes kaweezle panic.                 *)
TooLong(a) == a + BufMax <= wrote /\ \A e \in ends : ~(a < e /\ e <= a + BufMax)
BrokenByLongLine ==
    child = "broken" /\ phase # "died" => \E a \in 0 .. wrote : TooLong(a)

(* LaunchAndPipe comes back: the end of the stream is seen although kaweezle  *)
(* had the write end open too (wsl.go:243-244), and a program that is held up *)
(* by a pipe nobody reads any more is not waited for, for ever (wsl.go:247).  *)
LaunchReturns == <>(phase \in Over)

=============================================================================
