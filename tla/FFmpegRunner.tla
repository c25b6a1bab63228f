---------------------------- MODULE FFmpegRunner -----------------------------
(***************************************************************************)
(* One FFmpeg command of a job: FFmpegRunner.Run (worker/system/           *)
(* progress.go) or, without a duration, CombinedOutput                     *)
(* (worker/main.go:206-225).  Five parties meet: the child process; the    *)
(* goroutine of os/exec that kills it when the context is done; the        *)
(* goroutine of os/exec that copies its stdout; parseProgress; and Run.    *)
(*                                                                         *)
(* The child's stdout is a kernel pipe of limited size.  The copier passes *)
(* on what it reads through an io.Pipe, which has no buffer: its write     *)
(* returns when the parser has taken all of it.  The parser's scanner has  *)
(* one: it takes what fits and cuts lines from that.  What the child wrote *)
(* is kept whole; the readers are positions in it, at the ends of lines.   *)
(***************************************************************************)
EXTENDS Integers, Sequences

CONSTANTS
  Durations,     \* durations of the inputs, 0 for those ffprobe cannot tell
  OutTimes,      \* values of out_time_us; 0 for one that is no number
  LongLines,     \* whether the child may write a line of more than 64 KiB
  PipeSize,      \* lines the kernel's pipe holds
  MaxLines,      \* BOUND: lines the child writes to stdout
  MaxErrors      \* BOUND: pieces of text the child writes to stderr

ASSUME RunnerAssumption ==
  /\ Durations \subseteq Nat
  /\ OutTimes \subseteq Int
  /\ LongLines \in BOOLEAN
  /\ PipeSize \in Nat \ {0}
  /\ MaxLines \in Nat
  /\ MaxErrors \in Nat

VARIABLES
  pc,          \* where Run is
  duration,    \* r.DurationMS; 0: Run is not used
  ctxDone,     \* the task's deadline has passed, or the worker shuts down
  child,       \* the FFmpeg process
  written,     \* the lines it wrote to stdout
  wroteErr,    \* how much it wrote to stderr
  copier,      \* the goroutine that copies stdout
  copied,      \* how many lines the copier has read
  parser,      \* the goroutine in parseProgress
  taken,       \* how many lines the scanner has taken into its buffer
  scanned,     \* how many lines the parser has read
  current,     \* the parser's record
  readErr      \* how much Run has read from stderr

childVars  == <<child, written, wroteErr>>
copyVars   == <<copier, copied>>
parseVars  == <<parser, taken, scanned, current>>
runVars    == <<pc, duration, ctxDone, readErr>>
vars       == <<runVars, childVars, copyVars, parseVars>>

\* key=value lines of parseProgress; a long one is refused by the scanner.
Lines ==
  [key : {"out_time_us"}, value : OutTimes]
  \cup [key : {"progress"}, value : {"continue", "end"}]
  \cup [key : {"other"}, value : {""}]
  \cup (IF LongLines THEN [key : {"long"}, value : {""}] ELSE {})

\* The first of the job's inputs, in any order, with a duration.
InputDuration(inputs) == IF inputs \subseteq {0} THEN {0} ELSE inputs \ {0}

Init ==
  /\ pc = "start"
  /\ \E inputs \in SUBSET Durations : duration \in InputDuration(inputs)
  /\ ctxDone = FALSE
  /\ child = "none"
  /\ written = <<>>
  /\ wroteErr = 0
  /\ copier = "none"
  /\ copied = 0
  /\ parser = "none"
  /\ taken = 0
  /\ scanned = 0
  /\ current = [outTime |-> 0, percent |-> 0]
  /\ readErr = 0

(***************************************************************************)
(* FFmpeg, and the context.                                                *)
(***************************************************************************)
WriteLine(line) ==
  /\ child = "running"
  /\ Len(written) < MaxLines
  /\ Len(written) - copied < PipeSize
  /\ written' = Append(written, line)
  /\ UNCHANGED <<runVars, child, wroteErr, copyVars, parseVars>>

\* CombinedOutput has one pipe for both: there, error text is another line.
WriteError ==
  /\ child = "running"
  /\ duration > 0
  /\ wroteErr < MaxErrors
  /\ wroteErr' = wroteErr + 1
  /\ UNCHANGED <<runVars, child, written, copyVars, parseVars>>

Exit(how) ==
  /\ child = "running"
  /\ child' = how
  /\ UNCHANGED <<runVars, written, wroteErr, copyVars, parseVars>>

Cancel ==
  /\ ~ctxDone
  /\ ctxDone' = TRUE
  /\ UNCHANGED <<pc, duration, readErr, childVars, copyVars, parseVars>>

\* exec.CommandContext kills the process when the context is done.
Kill ==
  /\ ctxDone
  /\ Exit("killed")

Ended == child \in {"succeeded", "failed", "killed"}

(***************************************************************************)
(* The copier.  CombinedOutput's copier has a buffer to write to.          *)
(***************************************************************************)
CopyRead ==
  /\ copier = "reading"
  /\ copied' \in copied + 1 .. Len(written)
  /\ copier' = IF duration > 0 THEN "writing" ELSE "reading"
  /\ UNCHANGED <<runVars, childVars, parseVars>>

CopyEnd ==
  /\ copier = "reading"
  /\ copied = Len(written)
  /\ Ended
  /\ copier' = "done"
  /\ UNCHANGED <<runVars, childVars, copied, parseVars>>

(***************************************************************************)
(* parseProgress.                                                          *)
(***************************************************************************)
\* Mutant: an out_time past the duration is believed.
PercentUncapped(c) ==
  IF c.outTime > 0 THEN ((c.outTime \div 1000) * 100) \div duration ELSE c.percent

Percent(c) ==
  IF c.outTime > 0
  THEN LET p == ((c.outTime \div 1000) * 100) \div duration IN IF p > 100 THEN 100 ELSE p
  ELSE c.percent

Take(line) ==
  CASE line.key = "out_time_us" -> [current EXCEPT !.outTime = line.value]
    [] line.key = "progress"    -> [current EXCEPT !.percent = Percent(current)]
    [] OTHER                    -> current

\* The rendezvous, when the buffer holds no line: the scanner takes some of
\* what the copier writes.
ScanRead ==
  /\ parser = "scanning" /\ scanned = taken
  /\ copier = "writing"
  /\ \E n \in taken + 1 .. copied :
       /\ \A i \in taken + 1 .. n : written[i].key # "long"
       /\ taken' = n
       /\ copier' = IF n = copied THEN "reading" ELSE "writing"
  /\ UNCHANGED <<runVars, childVars, copied, parser, scanned, current>>

ScanLine ==
  /\ parser = "scanning" /\ scanned < taken
  /\ scanned' = scanned + 1
  /\ LET line == written[scanned + 1]
     IN  /\ current' = Take(line)
         /\ parser'  = IF line.key = "progress" THEN "calling" ELSE "scanning"
  /\ UNCHANGED <<runVars, childVars, copyVars, taken>>

\* bufio.ErrTooLong ends the loop: the line is more than the buffer holds,
\* and the copier's write of the rest of it is never finished.
ScanTooLong ==
  /\ parser = "scanning" /\ scanned = taken
  /\ copier = "writing"
  /\ written[taken + 1].key = "long"
  /\ parser' = "gone"
  /\ UNCHANGED <<runVars, childVars, copyVars, taken, scanned, current>>

\* Mutant: progressWriter is not closed, so the parser never sees its end.
ScanEndNever == FALSE /\ UNCHANGED vars

\* Mutant: at the end of the pipe, what is in the buffer is dropped.
ScanEndEarly ==
  /\ parser = "scanning"
  /\ pc = "closed"
  /\ parser' = "gone"
  /\ UNCHANGED <<runVars, childVars, copyVars, taken, scanned, current>>

ScanEnd ==
  /\ parser = "scanning" /\ scanned = taken
  /\ pc = "closed"
  /\ parser' = "gone"
  /\ UNCHANGED <<runVars, childVars, copyVars, taken, scanned, current>>

\* OnProgress; after the last block the percentage is complete.
Callback ==
  /\ parser = "calling"
  /\ parser' = "scanning"
  /\ current' = [current EXCEPT !.percent = IF written[scanned].value = "end" THEN 100 ELSE @]
  /\ UNCHANGED <<runVars, childVars, copyVars, taken, scanned>>

(***************************************************************************)
(* Run, or CombinedOutput.                                                 *)
(***************************************************************************)
StartFails ==
  /\ pc = "start"
  /\ pc' = "failed"
  /\ UNCHANGED <<duration, ctxDone, readErr, childVars, copyVars, parseVars>>

Start ==
  /\ pc = "start"
  /\ ~ctxDone
  /\ pc' = IF duration > 0 THEN "readAll" ELSE "wait"
  /\ child'  = "running"
  /\ copier' = "reading"
  /\ parser' = IF duration > 0 THEN "scanning" ELSE "none"
  /\ UNCHANGED <<duration, ctxDone, readErr, written, wroteErr, copied, taken, scanned,
                 current>>

ReadAll ==
  /\ pc = "readAll"
  /\ readErr < wroteErr
  /\ readErr' = readErr + 1
  /\ UNCHANGED <<pc, duration, ctxDone, childVars, copyVars, parseVars>>

Step(from, to) ==
  /\ pc = from
  /\ pc' = to
  /\ UNCHANGED <<duration, ctxDone, readErr, childVars, copyVars, parseVars>>

ReadAllEnd ==
  /\ Ended
  /\ readErr = wroteErr
  /\ Step("readAll", "wait")

\* cmd.Wait returns when the process has ended and the copier is done;
\* progressWriter.Close follows.
Wait ==
  /\ Ended
  /\ copier = "done"
  /\ Step("wait", IF duration > 0 THEN "closed" ELSE "returned")

\* Mutant: progressDone is not waited for.
ReturnAtOnce == Step("closed", "returned")

\* <-progressDone
Return ==
  /\ parser = "gone"
  /\ Step("closed", "returned")

Child   == (\E line \in Lines : WriteLine(line)) \/ WriteError
           \/ Exit("succeeded") \/ Exit("failed")
Copier  == CopyRead \/ CopyEnd
Parser  == ScanRead \/ ScanLine \/ ScanTooLong \/ ScanEnd \/ Callback
Run     == StartFails \/ Start \/ ReadAll \/ ReadAllEnd \/ Wait \/ Return

Next == Child \/ Cancel \/ Kill \/ Copier \/ Parser \/ Run

Spec == Init /\ [][Next]_vars

(***************************************************************************)
(* Goroutines run; the kernel kills.  Nothing is known of FFmpeg itself.   *)
(***************************************************************************)
Fairness == WF_vars(Kill) /\ WF_vars(Copier) /\ WF_vars(Parser) /\ WF_vars(Run)

FairSpec == Spec /\ Fairness

-----------------------------------------------------------------------------
(***************************************************************************)
(* The shape of the state.  A percentage that is reported is one, whatever *)
(* FFmpeg says the output time is.                                         *)
(***************************************************************************)
TypeOK ==
  /\ pc \in {"start", "readAll", "wait", "closed", "returned", "failed"}
  /\ duration \in Nat
  /\ ctxDone \in BOOLEAN
  /\ child \in {"none", "running", "succeeded", "failed", "killed"}
  /\ written \in Seq(Lines)
  /\ wroteErr \in Nat
  /\ copier \in {"none", "reading", "writing", "done"}
  /\ copied \in 0 .. Len(written)
  /\ parser \in {"none", "scanning", "calling", "gone"}
  /\ taken \in 0 .. copied
  /\ scanned \in 0 .. taken
  /\ current \in [outTime : OutTimes \cup {0}, percent : 0 .. 100]
  /\ readErr \in 0 .. wroteErr

(***************************************************************************)
(* When the command has returned, nothing of it is left: the process has   *)
(* ended, the copier is done, and the parser cannot call OnProgress while  *)
(* the job goes on (progress.go:73).                                       *)
(***************************************************************************)
NothingLeftBehind ==
  pc = "returned" =>
    /\ Ended
    /\ copier = "done"
    /\ parser \in {"none", "gone"}

(***************************************************************************)
(* When Run has returned, every line that FFmpeg wrote, up to the last one *)
(* before it ended or was killed, has gone through the parser, and the     *)
(* text of the error is complete.                                          *)
(***************************************************************************)
ReturnedIsComplete ==
  pc = "returned" =>
    /\ copied = Len(written)
    /\ duration > 0 => scanned = Len(written)
    /\ readErr = wroteErr

(***************************************************************************)
(* A command whose process has ended, or whose context is done, comes to   *)
(* its end, whatever FFmpeg does and however full its pipe is, unless the  *)
(* parser gave up on a line that is too long.                              *)
(***************************************************************************)
GaveUp == parser = "gone" /\ copier = "writing"

RunEnds == (Ended \/ ctxDone) ~> (pc \in {"returned", "failed"} \/ GaveUp)

=============================================================================
