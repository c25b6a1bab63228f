------------------------- MODULE FFmpegRunnerProofs --------------------------
(***************************************************************************)
(* What holds of a run of FFmpeg for every duration, pipe and output.      *)
(*                                                                         *)
(* The argument: with a duration the scanner has taken all that the copier *)
(* has read, unless the copier is still writing; a parser that is gone has *)
(* emptied the scanner's buffer; the copier is done only when it has read  *)
(* all that an ended process wrote; and each stage of Run is reached only  *)
(* when what the one before waits for has happened.                        *)
(***************************************************************************)
EXTENDS FFmpegRunner, TLAPS

USE RunnerAssumption DEF RunnerAssumption

\* Nothing runs before the start, and no parser without a duration.
Begun ==
  /\ pc \in {"start", "failed"} <=> child = "none"
  /\ child = "none" => copier = "none" /\ parser = "none" /\ written = <<>>
  /\ duration = 0 => parser = "none" /\ copier # "writing" /\ wroteErr = 0
  /\ parser = "none" => duration = 0 \/ child = "none"

\* How far the copier, the scanner and the parser are.
Progress ==
  /\ copier = "done" => Ended /\ copied = Len(written)
  /\ duration > 0 => (copier = "writing" <=> taken < copied)
  /\ parser = "gone" => scanned = taken

\* What each stage of Run has waited for.
Stages ==
  /\ pc \in {"wait", "closed", "returned"} => readErr = wroteErr /\ (duration > 0 => Ended)
  /\ pc \in {"closed", "returned"} => Ended /\ copier = "done"
  /\ pc = "returned" /\ duration > 0 => parser = "gone"

IInv == TypeOK /\ Begun /\ Progress /\ Stages

(***************************************************************************)
(* Percentages.                                                            *)
(***************************************************************************)
LEMMA Quotient ==
  ASSUME NEW n \in Nat, NEW d \in Nat \ {0}
  PROVE  n \div d \in Nat
BY SMT

LEMMA PositiveTime ==
  ASSUME NEW us \in OutTimes \cup {0}, us > 0
  PROVE  us \in Nat
<1>1. us \in Int
  <2>1. CASE us = 0
    BY <2>1
  <2>2. CASE us \in OutTimes
    BY <2>2
  <2> QED BY <2>1, <2>2
<1> QED BY <1>1

LEMMA PercentType ==
  ASSUME NEW c \in [outTime : OutTimes \cup {0}, percent : 0 .. 100], duration \in Nat \ {0}
  PROVE  Percent(c) \in 0 .. 100
<1>1. CASE c.outTime > 0
  <2>1. c.outTime \div 1000 \in Nat
    <3>1. c.outTime \in OutTimes \cup {0}
      OBVIOUS
    <3>2. c.outTime \in Nat
      BY <1>1, <3>1, PositiveTime
    <3> QED BY <3>2, Quotient
  <2> DEFINE p == ((c.outTime \div 1000) * 100) \div duration
  <2>2. p \in Nat
    <3> DEFINE q == c.outTime \div 1000
    <3>1. q * 100 \in Nat
      <4> HIDE DEF q
      <4>1. q \in Nat
        BY <2>1 DEF q
      <4> QED BY <4>1
    <3> HIDE DEF q
    <3>2. (q * 100) \div duration \in Nat
      BY <3>1, Quotient
    <3> QED BY <3>2 DEF q
  <2>3. Percent(c) = IF p > 100 THEN 100 ELSE p
    BY <1>1 DEF Percent
  <2> HIDE DEF p
  <2> QED BY <2>2, <2>3
<1>2. CASE ~(c.outTime > 0)
  BY <1>2 DEF Percent
<1> QED BY <1>1, <1>2

LEMMA TakeType ==
  ASSUME NEW line \in Lines, duration \in Nat \ {0},
         current \in [outTime : OutTimes \cup {0}, percent : 0 .. 100]
  PROVE  Take(line) \in [outTime : OutTimes \cup {0}, percent : 0 .. 100]
<1>1. CASE line.key = "out_time_us"
  <2>1. line.value \in OutTimes
    BY <1>1 DEF Lines
  <2> QED BY <1>1, <2>1 DEF Take
<1>2. CASE line.key = "progress"
  <2>2. Percent(current) \in 0 .. 100
    BY PercentType
  <2> QED BY <1>2, <2>2 DEF Take
<1>3. CASE line.key \notin {"out_time_us", "progress"}
  BY <1>3 DEF Take
<1> QED BY <1>1, <1>2, <1>3

LEMMA InitIInv == Init => IInv
<1> SUFFICES ASSUME Init PROVE IInv
  OBVIOUS
<1>1. duration \in Nat
  BY DEF Init, InputDuration
<1>2. written \in Seq(Lines) /\ Len(written) = 0
  BY DEF Init
<1>3. current \in [outTime : OutTimes \cup {0}, percent : 0 .. 100]
  BY DEF Init
<1>4. TypeOK
  <2>1. /\ copied \in 0 .. Len(written)
        /\ taken \in 0 .. copied
        /\ scanned \in 0 .. taken
        /\ readErr \in 0 .. wroteErr
        /\ wroteErr \in Nat
    BY <1>2 DEF Init
  <2>2. /\ pc \in {"start", "readAll", "wait", "closed", "returned", "failed"}
        /\ ctxDone \in BOOLEAN
        /\ child \in {"none", "running", "succeeded", "failed", "killed"}
        /\ copier \in {"none", "reading", "writing", "done"}
        /\ parser \in {"none", "scanning", "calling", "gone"}
    BY DEF Init
  <2> QED BY <1>1, <1>2, <1>3, <2>1, <2>2 DEF TypeOK
<1>5. Begun /\ Progress /\ Stages
  BY <1>1 DEF Init, Begun, Progress, Stages
<1> QED BY <1>4, <1>5 DEF IInv

(***************************************************************************)
(* The child process and the context.                                      *)
(***************************************************************************)
LEMMA WriteLineIInv ==
  ASSUME IInv, NEW line \in Lines, WriteLine(line)
  PROVE  IInv'
<1>1. /\ written' \in Seq(Lines)
      /\ Len(written') = Len(written) + 1
  BY DEF IInv, TypeOK, WriteLine
<1>2. TypeOK'
  BY <1>1 DEF IInv, TypeOK, WriteLine, runVars, copyVars, parseVars
<1>3. Begun' /\ Progress' /\ Stages'
  BY DEF IInv, TypeOK, Begun, Progress, Stages, Ended, WriteLine, runVars, copyVars, parseVars
<1> QED BY <1>2, <1>3 DEF IInv

LEMMA ChildIInv ==
  ASSUME IInv,
         WriteError \/ Cancel \/ Kill \/ Exit("succeeded") \/ Exit("failed")
  PROVE  IInv'
<1> USE DEF IInv, TypeOK, Begun, Progress, Stages, Ended, runVars, childVars, copyVars, parseVars
<1>1. CASE WriteError
  BY <1>1 DEF WriteError
<1>2. CASE Cancel
  BY <1>2 DEF Cancel
<1>3. CASE Kill \/ Exit("succeeded") \/ Exit("failed")
  <2>1. /\ child = "running"
        /\ child' \in {"succeeded", "failed", "killed"}
        /\ UNCHANGED <<runVars, written, wroteErr, copyVars, parseVars>>
    BY <1>3 DEF Kill, Exit
  <2> QED BY <2>1
<1> QED BY <1>1, <1>2, <1>3

(***************************************************************************)
(* The copier and the parser.                                              *)
(***************************************************************************)
LEMMA CopierIInv ==
  ASSUME IInv, Copier
  PROVE  IInv'
<1> USE DEF IInv, TypeOK, Begun, Progress, Stages, Ended, runVars, childVars, copyVars, parseVars
<1>1. CASE CopyRead
  BY <1>1 DEF CopyRead
<1>2. CASE CopyEnd
  BY <1>2 DEF CopyEnd
<1> QED BY <1>1, <1>2 DEF Copier

LEMMA ScanReadIInv ==
  ASSUME IInv, ScanRead
  PROVE  IInv'
<1>1. PICK n \in taken + 1 .. copied :
        /\ taken' = n
        /\ copier' = IF n = copied THEN "reading" ELSE "writing"
  BY DEF ScanRead
<1>2. /\ duration > 0
      /\ pc \notin {"closed", "returned"}
  BY DEF IInv, TypeOK, Begun, Stages, ScanRead
<1>3. TypeOK'
  BY <1>1 DEF IInv, TypeOK, ScanRead, runVars, childVars
<1>4. Begun' /\ Progress' /\ Stages'
  BY <1>1, <1>2 DEF IInv, TypeOK, Begun, Progress, Stages, Ended, ScanRead, runVars, childVars
<1> QED BY <1>3, <1>4 DEF IInv

LEMMA ScanLineIInv ==
  ASSUME IInv, ScanLine
  PROVE  IInv'
<1>1. /\ duration \in Nat \ {0}
      /\ scanned + 1 \in 1 .. Len(written)
      /\ scanned + 1 \in 0 .. taken
      /\ pc # "returned"
  BY DEF IInv, TypeOK, Begun, Stages, ScanLine
<1>2. written[scanned + 1] \in Lines
  BY <1>1 DEF IInv, TypeOK
<1>3. current' \in [outTime : OutTimes \cup {0}, percent : 0 .. 100]
  BY <1>1, <1>2, TakeType DEF IInv, TypeOK, ScanLine
<1>4. TypeOK'
  BY <1>1, <1>3 DEF IInv, TypeOK, ScanLine, runVars, childVars, copyVars
<1>5. Begun' /\ Progress' /\ Stages'
  BY <1>1 DEF IInv, TypeOK, Begun, Progress, Stages, Ended, ScanLine,
              runVars, childVars, copyVars
<1> QED BY <1>4, <1>5 DEF IInv

LEMMA ParserIInv ==
  ASSUME IInv, ScanTooLong \/ ScanEnd \/ Callback
  PROVE  IInv'
<1> USE DEF IInv, TypeOK, Begun, Progress, Stages, Ended, runVars, childVars, copyVars, parseVars
<1>1. CASE ScanTooLong
  BY <1>1 DEF ScanTooLong
<1>2. CASE ScanEnd
  BY <1>2 DEF ScanEnd
<1>3. CASE Callback
  BY <1>3 DEF Callback
<1> QED BY <1>1, <1>2, <1>3

(***************************************************************************)
(* Run.                                                                    *)
(***************************************************************************)
LEMMA RunIInv ==
  ASSUME IInv, Run
  PROVE  IInv'
<1> USE DEF IInv, TypeOK, Begun, Progress, Stages, Ended, runVars, childVars, copyVars, parseVars
<1>1. CASE StartFails
  BY <1>1 DEF StartFails
<1>2. CASE Start
  <2>1. copied = 0 /\ taken = 0 /\ scanned = 0
    BY <1>2 DEF Start
  <2> QED BY <1>2, <2>1 DEF Start
<1>3. CASE ReadAll
  BY <1>3 DEF ReadAll
<1>4. CASE ReadAllEnd
  BY <1>4 DEF ReadAllEnd, Step
<1>5. CASE Wait
  BY <1>5 DEF Wait, Step
<1>6. CASE Return
  BY <1>6 DEF Return, Step
<1> QED BY <1>1, <1>2, <1>3, <1>4, <1>5, <1>6 DEF Run

LEMMA NextIInv == IInv /\ [Next]_vars => IInv'
<1> SUFFICES ASSUME IInv, [Next]_vars PROVE IInv'
  OBVIOUS
<1>1. CASE Child \/ Cancel \/ Kill
  BY <1>1, WriteLineIInv, ChildIInv DEF Child
<1>2. CASE Copier
  BY <1>2, CopierIInv
<1>3. CASE Parser
  BY <1>3, ScanReadIInv, ScanLineIInv, ParserIInv DEF Parser
<1>4. CASE Run
  BY <1>4, RunIInv
<1>5. CASE UNCHANGED vars
  BY <1>5 DEF IInv, TypeOK, Begun, Progress, Stages, Ended,
              vars, runVars, childVars, copyVars, parseVars
<1> QED BY <1>1, <1>2, <1>3, <1>4, <1>5 DEF Next

LEMMA Inductive == Spec => []IInv
BY InitIInv, NextIInv, PTL DEF Spec

-----------------------------------------------------------------------------
\* The state is well-formed; a reported percentage is at most 100 whatever
\* FFmpeg writes (progress.go:115-120).
THEOREM RunnerTypeCorrect == Spec => []TypeOK
<1>1. IInv => TypeOK
  BY DEF IInv
<1> QED BY <1>1, Inductive, PTL

\* When the command has returned, no process and no goroutine of it is left
\* (progress.go:68-75).
THEOREM NothingLeftCorrect == Spec => []NothingLeftBehind
<1>1. IInv => NothingLeftBehind
  BY DEF IInv, TypeOK, Begun, Stages, NothingLeftBehind
<1> QED BY <1>1, Inductive, PTL

\* When Run has returned, all of FFmpeg's output has been read and parsed:
\* none is left in the pipes or in the scanner's buffer (progress.go:59-75).
THEOREM CompleteCorrect == Spec => []ReturnedIsComplete
<1>1. IInv => ReturnedIsComplete
  BY DEF IInv, TypeOK, Begun, Progress, Stages, ReturnedIsComplete
<1> QED BY <1>1, Inductive, PTL

=============================================================================
