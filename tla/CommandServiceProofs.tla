------------------------ MODULE CommandServiceProofs ------------------------
(***************************************************************************)
(* What holds of the FFmpeg worker for every number of commands, workers,  *)
(* runs, outputs and slots, and every retry budget, first on its own and   *)
(* at the end with the API in front of it.  A run takes nothing from       *)
(* another one but the job directory they share, notifies no more than its *)
(* own dispatch pays for, and what it reports as SUCCESS is stored.        *)
(***************************************************************************)
EXTENDS CommandService, FiniteSetTheorems, TLAPS

\* The theorems about TaskServer, read for the queue "ffmpeg".
Thm == INSTANCE TaskServerProofs
         WITH Tasks <- Commands, Servers <- Workers, NoTask <- NoCommand,
              NoServer <- NoWorker, HandlerErrors <- JobErrors,
              Uncounted <- MentionsResourceLimit

USE WorkerAssumption

LEMMA ServerAssumptions ==
  /\ Thm!QueueAssumption
  /\ Thm!ServerAssumption
  /\ Thm!NoError \notin JobErrors
BY DEF WorkerAssumption, JobErrors, FileErrors, FFmpegErrors, MentionsResourceLimit,
       Thm!QueueAssumption, Thm!ServerAssumption, Thm!NoError

(***************************************************************************)
(* Srv and Thm are two names for one instance of TaskServer.               *)
(***************************************************************************)
LEMMA SameCardinality == \A S : Srv!Cardinality(S) = Thm!Cardinality(S)
BY DEF Srv!Cardinality, Thm!Cardinality

USE DEF Srv!serverVars, Thm!serverVars, Srv!queueVars, Thm!queueVars, Srv!procVars,
        Thm!procVars, Srv!runVars, Thm!runVars, Srv!NoError, Thm!NoError

LEMMA SameInit == Srv!ServerInit <=> Thm!ServerInit
BY DEF Srv!ServerInit, Thm!ServerInit, Srv!QueueInit, Thm!QueueInit

LEMMA SamePutBack ==
  ASSUME NEW c, NEW e
  PROVE  Srv!PutBack(c, e) <=> Thm!PutBack(c, e)
BY DEF Srv!PutBack, Thm!PutBack, Srv!Spare, Thm!Spare, Srv!Retry, Thm!Retry,
       Srv!Archive, Thm!Archive, Srv!Move, Thm!Move

LEMMA SameUnsupervise ==
  /\ \A gone : Srv!Vanish(gone) <=> Thm!Vanish(gone)
  /\ \A r : Srv!Unsupervise(r) <=> Thm!Unsupervise(r)
BY DEF Srv!Unsupervise, Thm!Unsupervise, Srv!Vanish, Thm!Vanish

LEMMA SameQueueStep ==
  ASSUME NEW c
  PROVE  /\ Srv!Submit(c) <=> Thm!Submit(c)
         /\ Srv!Promote(c) <=> Thm!Promote(c)
         /\ Srv!Forget(c) <=> Thm!Forget(c)
         /\ Srv!RecoverTask(c) <=> Thm!RecoverTask(c)
         /\ Srv!LeaseLapses(c) <=> Thm!LeaseLapses(c)
<1>1. Srv!RecoverTask(c) <=> Thm!RecoverTask(c)
  BY SamePutBack DEF Srv!RecoverTask, Thm!RecoverTask, Srv!Recover, Thm!Recover
<1>2. /\ Srv!Submit(c) <=> Thm!Submit(c)
      /\ Srv!Promote(c) <=> Thm!Promote(c)
      /\ Srv!Forget(c) <=> Thm!Forget(c)
      /\ Srv!LeaseLapses(c) <=> Thm!LeaseLapses(c)
  BY DEF Srv!Submit, Thm!Submit, Srv!Promote, Thm!Promote, Srv!Forget, Thm!Forget,
         Srv!LeaseLapses, Thm!LeaseLapses, Srv!Enqueue, Thm!Enqueue, Srv!Forward,
         Thm!Forward, Srv!Expire, Thm!Expire, Srv!LoseLease, Thm!LoseLease,
         Srv!Move, Thm!Move
<1> QED BY <1>1, <1>2

LEMMA SameRunStep ==
  ASSUME NEW r
  PROVE  /\ \A w, c : Srv!Pick(w, c, r) <=> Thm!Pick(w, c, r)
         /\ \A e : Srv!Return(r, e) <=> Thm!Return(r, e)
         /\ Srv!Deadline(r) <=> Thm!Deadline(r)
         /\ Srv!Settle(r) <=> Thm!Settle(r)
         /\ Srv!Abort(r) <=> Thm!Abort(r)
<1>1. \A w, c : Srv!Pick(w, c, r) <=> Thm!Pick(w, c, r)
  BY SameCardinality
     DEF Srv!Pick, Thm!Pick, Srv!Busy, Thm!Busy, Srv!Dequeue, Thm!Dequeue, Srv!Move, Thm!Move
<1>2. /\ \A e : Srv!Return(r, e) <=> Thm!Return(r, e)
      /\ Srv!Deadline(r) <=> Thm!Deadline(r)
  BY SameUnsupervise DEF Srv!Return, Thm!Return, Srv!Deadline, Thm!Deadline
<1>3. Srv!Settle(r) <=> Thm!Settle(r)
  <2>1. Srv!SettleSuccess(r) <=> Thm!SettleSuccess(r)
    BY SameUnsupervise
       DEF Srv!SettleSuccess, Thm!SettleSuccess, Srv!Complete, Thm!Complete, Srv!Move, Thm!Move
  <2>2. /\ Srv!SettleFailure(r) <=> Thm!SettleFailure(r)
        /\ Srv!SettleDeadline(r) <=> Thm!SettleDeadline(r)
    BY SameUnsupervise, SamePutBack
       DEF Srv!SettleFailure, Thm!SettleFailure, Srv!SettleDeadline, Thm!SettleDeadline,
           Srv!Fail, Thm!Fail
  <2>3. Srv!DropStale(r) <=> Thm!DropStale(r)
    BY SameUnsupervise DEF Srv!DropStale, Thm!DropStale
  <2> QED BY <2>1, <2>2, <2>3 DEF Srv!Settle, Thm!Settle
<1>4. Srv!Abort(r) <=> Thm!Abort(r)
  BY SameUnsupervise
     DEF Srv!Abort, Thm!Abort, Srv!Requeue, Thm!Requeue, Srv!Move, Thm!Move
<1> QED BY <1>1, <1>2, <1>3, <1>4

LEMMA SameNext == Srv!ServerNext <=> Thm!ServerNext
<1>1. \A w : (Srv!Stop(w) <=> Thm!Stop(w)) /\ (Srv!Crash(w) <=> Thm!Crash(w))
  BY SameUnsupervise DEF Srv!Stop, Thm!Stop, Srv!Crash, Thm!Crash
<1> QED
  BY <1>1, SameQueueStep, SameRunStep DEF Srv!ServerNext, Thm!ServerNext

\* A step in the middle of the handler, before it notifies.
Works(r) ==
  \/ BeginJob(r) \/ StartEncoding(r) \/ Encode(r) \/ FinishUpload(r)
  \/ \E i \in Inputs : Download(r, i)
  \/ \E o \in Outputs : Produce(r, o) \/ OpenUpload(r, o)

\* A step at the end of it: an error, or the result.
Ends(r) ==
  \/ DelayJob(r) \/ DownloadFails(r) \/ EncodeFails(r) \/ MissingOutput(r)
  \/ UploadFails(r) \/ FinishJob(r)

LEMMA HandlerCases == \A r : Handler(r) <=> Works(r) \/ Notify(r) \/ Ends(r)
BY DEF Handler, Works, Ends

(***************************************************************************)
(* Seen from the servers, every step of a handler is a stutter or the      *)
(* return of a result TaskServer allows.                                   *)
(***************************************************************************)
LEMMA HandlerStep ==
  ASSUME NEW r \in Runs, Handler(r)
  PROVE  \/ UNCHANGED Srv!serverVars
         \/ \E e \in JobErrors \cup {Srv!NoError} : Srv!Return(r, e)
<1>1. CASE Works(r) \/ Notify(r)
  BY <1>1 DEF Works, BeginJob, Download, StartEncoding, Produce, Encode, FinishUpload, Notify,
              OpenUpload, queueVars, procVars
<1>2. CASE DelayJob(r) \/ DownloadFails(r) \/ EncodeFails(r) \/ MissingOutput(r) \/ UploadFails(r)
  BY <1>2 DEF DelayJob, DownloadFails, EncodeFails, MissingOutput, UploadFails, Abandon, Leave,
              JobErrors
<1>3. CASE FinishJob(r)
  BY <1>3 DEF FinishJob, Leave
<1> QED BY <1>1, <1>2, <1>3, HandlerCases DEF Ends

LEMMA NextImplements == [Next]_vars => [Srv!ServerNext]_(Srv!serverVars)
<1> SUFFICES ASSUME [Next]_vars
             PROVE  [Srv!ServerNext]_(Srv!serverVars)
  OBVIOUS
<1>1. ASSUME NEW c \in Commands, Queue(c)
      PROVE  Srv!ServerNext
  BY <1>1 DEF Queue, Srv!ServerNext
<1>2. ASSUME NEW w \in Workers, NEW c \in Commands, NEW r \in Runs, Start(w, c, r)
      PROVE  Srv!ServerNext
  BY <1>2 DEF Start, Srv!ServerNext
<1>3. ASSUME NEW r \in Runs, Handler(r)
      PROVE  UNCHANGED Srv!serverVars \/ Srv!ServerNext
  BY <1>3, HandlerStep DEF Srv!ServerNext
<1>4. ASSUME NEW r \in Runs, Process(r)
      PROVE  Srv!ServerNext
  BY <1>4 DEF Process, Srv!ServerNext
<1>5. ASSUME NEW w \in Workers, Stop(w) \/ Crash(w)
      PROVE  Srv!ServerNext
  BY <1>5 DEF Stop, Crash, Srv!ServerNext
<1>6. CASE UNCHANGED vars
  BY <1>6 DEF vars, queueVars, procVars
<1> QED BY <1>1, <1>2, <1>3, <1>4, <1>5, <1>6 DEF Next

(***************************************************************************)
(* The worker implements the asynq servers with an arbitrary handler.      *)
(***************************************************************************)
THEOREM WorkerImplementsServer == Spec => ImplementsServer
<1>1. Init => Srv!ServerInit
  BY DEF Init
<1> QED BY <1>1, NextImplements, PTL DEF Spec, ImplementsServer, Srv!ServerSpec

(***************************************************************************)
(* So what is proved of the servers holds of the worker.                   *)
(***************************************************************************)
LEMMA LeaseInvInit == Init => Thm!LeaseInv
BY SameInit, ServerAssumptions, Thm!LeaseInvInit DEF Init

LEMMA LeaseInvStep == Thm!LeaseInv /\ [Next]_vars => Thm!LeaseInv'
BY NextImplements, SameNext, ServerAssumptions, Thm!LeaseInvStep

(***************************************************************************)
(* Where runs are.  A run is in the handler while its goroutine runs, and  *)
(* then it works on a command, on a worker.                                *)
(***************************************************************************)
HandlerTypeOK ==
  /\ step    \in [Runs -> Steps]
  /\ fetched \in [Runs -> SUBSET Inputs]
  /\ saved   \in [Runs -> SUBSET Outputs]
  /\ target  \in [Runs -> Outputs \cup {NoOutput}]
  /\ files   \in [Workers -> [Commands -> SUBSET Files]]
  /\ stored  \in [Commands -> SUBSET Outputs]
  /\ hooks   \in [Commands -> Nat]
  /\ result  \in [Commands -> BOOLEAN]

InHandler ==
  \A r \in Runs :
    /\ step[r] # "off" <=> phase[r] = "running"
    /\ step[r] # "off" => task[r] \in Commands /\ host[r] \in Workers
    /\ step[r] = "copy" => target[r] \in Outputs

RunTypeOK ==
  /\ task    \in [Runs -> Commands \cup {NoCommand}]
  /\ host    \in [Runs -> Workers \cup {NoWorker}]
  /\ phase   \in [Runs -> {"idle", "running", "returned"}]
  /\ outcome \in [Runs -> JobErrors \cup {Srv!NoError}]

WorkerInv == Thm!LeaseInv /\ HandlerTypeOK /\ InHandler

LEMMA TypesOfLeaseInv ==
  ASSUME Thm!LeaseInv
  PROVE  RunTypeOK /\ Srv!ServerTypeOK
BY DEF Thm!LeaseInv, Thm!ServerTypeOK, Srv!ServerTypeOK, Srv!QueueTypeOK, Thm!QueueTypeOK,
       Srv!States, Thm!States, Srv!Errors, Thm!Errors, RunTypeOK

\* No run enters the handler or leaves it, none returns, and the runs that
\* have returned stay as they are or vanish.
NoneReturns ==
  \A q \in Runs :
    /\ phase'[q] = "running" <=> phase[q] = "running"
    /\ phase'[q] # "idle" => /\ phase'[q] = phase[q]
                             /\ task'[q] = task[q]
                             /\ host'[q] = host[q]
                             /\ outcome'[q] = outcome[q]

LEMMA ProcessorRuns ==
  ASSUME RunTypeOK, NEW r \in Runs, Process(r)
  PROVE  NoneReturns /\ UNCHANGED handlerVars
<1>1. UNCHANGED handlerVars
  BY DEF Process
<1>2. CASE Srv!Unsupervise(r)
  BY <1>1, <1>2 DEF RunTypeOK, NoneReturns, Srv!Unsupervise, Srv!Vanish
<1>3. CASE Srv!Deadline(r)
  BY <1>1, <1>3 DEF RunTypeOK, NoneReturns, Srv!Deadline
<1> QED
  BY <1>1, <1>2, <1>3 DEF Process, Srv!Settle, Srv!SettleSuccess, Srv!SettleFailure,
                          Srv!SettleDeadline, Srv!DropStale, Srv!Abort

\* One run returns e, the others go on.
Returns(r, e) ==
  /\ phase[r] = "running" /\ phase'[r] # "running"
  /\ phase'[r] = "returned" => task'[r] = task[r] /\ outcome'[r] = e
  /\ \A q \in Runs \ {r} : /\ phase'[q] = phase[q]
                           /\ task'[q] = task[q]
                           /\ host'[q] = host[q]
                           /\ outcome'[q] = outcome[q]

LEMMA ReturnRuns ==
  ASSUME RunTypeOK, NEW r \in Runs, NEW e, Srv!Return(r, e)
  PROVE  Returns(r, e)
BY DEF RunTypeOK, Returns, Srv!Return, Srv!Vanish

LEMMA CrashRuns ==
  ASSUME RunTypeOK, NEW w \in Workers, Srv!Crash(w)
  PROVE  \A q \in Runs :
           IF host[q] = w THEN phase'[q] = "idle"
           ELSE /\ phase'[q] = phase[q]
                /\ task'[q] = task[q]
                /\ host'[q] = host[q]
                /\ outcome'[q] = outcome[q]
BY DEF RunTypeOK, Srv!Crash, Srv!Vanish

LEMMA LeaveKeeps ==
  ASSUME RunTypeOK, HandlerTypeOK, InHandler,
         NEW r \in Runs, NEW e, Leave(r, e)
  PROVE  /\ InHandler'
         /\ step' \in [Runs -> Steps]
         /\ fetched' \in [Runs -> SUBSET Inputs]
         /\ saved' \in [Runs -> SUBSET Outputs]
         /\ target' \in [Runs -> Outputs \cup {NoOutput}]
<1>1. Returns(r, e)
  BY ReturnRuns DEF Leave
<1>2. /\ step' = [step EXCEPT ![r] = "off"]
      /\ fetched' = [fetched EXCEPT ![r] = {}]
      /\ saved' = [saved EXCEPT ![r] = {}]
      /\ target' = [target EXCEPT ![r] = NoOutput]
  BY DEF Leave, Goto
<1>3. InHandler'
  BY <1>1, <1>2 DEF InHandler, Returns, HandlerTypeOK
<1> QED BY <1>2, <1>3 DEF HandlerTypeOK, Steps

\* A directory of a run in the handler can be set to any set of files.
LEMMA SetDirType ==
  ASSUME HandlerTypeOK, NEW r \in Runs, NEW S \in SUBSET Files, SetDir(r, S)
  PROVE  files' \in [Workers -> [Commands -> SUBSET Files]]
BY DEF HandlerTypeOK, SetDir

\* A run that ends leaves, and without an error only from the end.
LEMMA EndsLeave ==
  ASSUME NEW r \in Runs, Ends(r)
  PROVE  \E e : Leave(r, e) /\ (e = Srv!NoError => step[r] = "finish")
<1>1. {"resource_limit", "cancelled"} \cup FileErrors \cup FFmpegErrors \subseteq JobErrors
  BY DEF JobErrors
<1>2. \A e \in JobErrors : e # Srv!NoError
  BY DEF JobErrors, FileErrors, FFmpegErrors
<1>3. CASE FinishJob(r)
  BY <1>3 DEF FinishJob, At
<1>4. CASE ~ FinishJob(r)
  BY <1>1, <1>2, <1>4 DEF Ends, DelayJob, DownloadFails, EncodeFails, MissingOutput, UploadFails,
                          Abandon
<1> QED BY <1>3, <1>4

LEMMA WorkerInvInit == Init => WorkerInv
<1> SUFFICES ASSUME Init
             PROVE  WorkerInv
  OBVIOUS
<1>1. Thm!LeaseInv
  BY LeaseInvInit
<1>2. HandlerTypeOK
  BY DEF Init, HandlerTypeOK, Steps, Files
<1>3. InHandler
  BY DEF Init, Srv!ServerInit, InHandler
<1> QED BY <1>1, <1>2, <1>3 DEF WorkerInv

\* An action of a handler that does not return.
LEMMA WorkStep ==
  ASSUME WorkerInv, NEW r \in Runs, Works(r) \/ Notify(r)
  PROVE  /\ HandlerTypeOK' /\ InHandler'
         /\ phase' = phase /\ task' = task /\ outcome' = outcome /\ state' = state
<1>h. HandlerTypeOK /\ InHandler
  BY DEF WorkerInv
<1>1. UNCHANGED <<queueVars, procVars>>
  BY DEF Works, BeginJob, Download, StartEncoding, Produce, Encode, FinishUpload, Notify,
         OpenUpload
<1>2. phase' = phase /\ task' = task /\ host' = host /\ outcome' = outcome /\ state' = state
  BY <1>1 DEF queueVars, procVars
<1>3. step[r] # "off"
  BY DEF Works, BeginJob, Download, StartEncoding, Produce, Encode, FinishUpload, Notify,
         OpenUpload, At
<1>4. task[r] \in Commands /\ host[r] \in Workers /\ Dir(r) \in SUBSET Files
  BY <1>h, <1>3 DEF InHandler, HandlerTypeOK, Dir
<1>5. CASE BeginJob(r)
  <2>1. HandlerTypeOK'
    BY <1>h, <1>4, <1>5, SetDirType DEF BeginJob, HandlerTypeOK, Goto, Steps, Files
  <2>2. InHandler'
    BY <1>h, <1>2, <1>3, <1>5 DEF BeginJob, InHandler, HandlerTypeOK, Goto
  <2> QED BY <1>2, <2>1, <2>2
<1>6. ASSUME NEW i \in Inputs, Download(r, i)
      PROVE  HandlerTypeOK' /\ InHandler'
  <2>1. HandlerTypeOK'
    BY <1>h, <1>4, <1>6, SetDirType DEF Download, HandlerTypeOK, Files
  <2>2. InHandler'
    BY <1>h, <1>2, <1>6 DEF Download, InHandler
  <2> QED BY <2>1, <2>2
<1>7. CASE StartEncoding(r) \/ Encode(r)
  <2>1. HandlerTypeOK'
    BY <1>h, <1>7 DEF StartEncoding, Encode, HandlerTypeOK, Goto, Steps
  <2>2. InHandler'
    BY <1>h, <1>2, <1>3, <1>7 DEF StartEncoding, Encode, InHandler, HandlerTypeOK, Goto
  <2> QED BY <1>2, <2>1, <2>2
<1>8. CASE FinishUpload(r)
  <2>1. target[r] \in Outputs
    BY <1>h, <1>8 DEF FinishUpload, InHandler, At
  <2>2. HandlerTypeOK'
    BY <1>h, <1>4, <1>8, <2>1 DEF FinishUpload, HandlerTypeOK, Goto, Steps
  <2>3. InHandler'
    BY <1>h, <1>2, <1>3, <1>8 DEF FinishUpload, InHandler, HandlerTypeOK, Goto
  <2> QED BY <1>2, <2>2, <2>3
<1>9. CASE Notify(r)
  <2>1. HandlerTypeOK'
    BY <1>h, <1>4, <1>9 DEF Notify, HandlerTypeOK, Goto, Steps
  <2>2. InHandler'
    BY <1>h, <1>2, <1>3, <1>9 DEF Notify, InHandler, HandlerTypeOK, Goto
  <2> QED BY <1>2, <2>1, <2>2
<1>10. ASSUME NEW o \in Outputs, OpenUpload(r, o)
       PROVE  HandlerTypeOK' /\ InHandler'
  <2>1. HandlerTypeOK'
    BY <1>h, <1>4, <1>10 DEF OpenUpload, HandlerTypeOK, Goto, Steps
  <2>2. InHandler'
    BY <1>h, <1>2, <1>3, <1>10 DEF OpenUpload, InHandler, HandlerTypeOK, Goto
  <2> QED BY <2>1, <2>2
<1>11. ASSUME NEW o \in Outputs, Produce(r, o)
       PROVE  HandlerTypeOK' /\ InHandler'
  <2>1. HandlerTypeOK'
    BY <1>h, <1>4, <1>11, SetDirType DEF Produce, HandlerTypeOK, Files
  <2>2. InHandler'
    BY <1>h, <1>2, <1>11 DEF Produce, InHandler
  <2> QED BY <2>1, <2>2
<1> QED BY <1>2, <1>5, <1>6, <1>7, <1>8, <1>9, <1>10, <1>11 DEF Works

\* An action of a handler that returns.
LEMMA LeaveStep ==
  ASSUME WorkerInv, NEW r \in Runs, Ends(r)
  PROVE  HandlerTypeOK' /\ InHandler'
<1>h. HandlerTypeOK /\ InHandler /\ RunTypeOK
  BY TypesOfLeaseInv DEF WorkerInv
<1>e. {} \in SUBSET Files
  OBVIOUS
<1>1. ASSUME NEW e, Leave(r, e)
      PROVE  /\ InHandler'
             /\ step' \in [Runs -> Steps]
             /\ fetched' \in [Runs -> SUBSET Inputs]
             /\ saved' \in [Runs -> SUBSET Outputs]
             /\ target' \in [Runs -> Outputs \cup {NoOutput}]
  BY <1>1, <1>h, LeaveKeeps
<1>2. ASSUME NEW e, Abandon(r, e)
      PROVE  HandlerTypeOK' /\ InHandler'
  BY <1>1, <1>2, <1>h, <1>e, SetDirType DEF Abandon, HandlerTypeOK
<1>3. CASE DelayJob(r)
  BY <1>1, <1>3, <1>h DEF DelayJob, HandlerTypeOK
<1>4. CASE DownloadFails(r) \/ EncodeFails(r) \/ MissingOutput(r)
  BY <1>2, <1>4 DEF DownloadFails, EncodeFails, MissingOutput
<1>5. CASE UploadFails(r)
  <2>1. stored' \in [Commands -> SUBSET Outputs]
    BY <1>5, <1>h DEF UploadFails, HandlerTypeOK, InHandler, At
  <2>2. files' \in [Workers -> [Commands -> SUBSET Files]]
    BY <1>5, <1>h, <1>e, SetDirType DEF UploadFails
  <2> QED BY <1>1, <1>5, <1>h, <2>1, <2>2 DEF UploadFails, HandlerTypeOK
<1>6. CASE FinishJob(r)
  <2>1. result' \in [Commands -> BOOLEAN]
    BY <1>6, <1>h DEF FinishJob, HandlerTypeOK
  <2>2. files' \in [Workers -> [Commands -> SUBSET Files]]
    BY <1>6, <1>h, <1>e, SetDirType DEF FinishJob
  <2> QED BY <1>1, <1>6, <1>h, <2>1, <2>2 DEF FinishJob, HandlerTypeOK
<1> QED BY <1>3, <1>4, <1>5, <1>6 DEF Ends

LEMMA WorkerInvStep == WorkerInv /\ [Next]_vars => WorkerInv'
<1> SUFFICES ASSUME WorkerInv, [Next]_vars
             PROVE  WorkerInv'
  OBVIOUS
<1>h. HandlerTypeOK /\ InHandler /\ RunTypeOK
  BY TypesOfLeaseInv DEF WorkerInv
<1>l. Thm!LeaseInv'
  BY LeaseInvStep DEF WorkerInv
<1>s. ASSUME UNCHANGED handlerVars
      PROVE  HandlerTypeOK'
  BY <1>h, <1>s DEF handlerVars, HandlerTypeOK
<1>1. ASSUME NEW c \in Commands, Queue(c)
      PROVE  HandlerTypeOK' /\ InHandler'
  <2>1. UNCHANGED <<handlerVars, procVars>>
    BY <1>1 DEF Queue, procVars, Srv!Submit, Srv!Promote, Srv!Forget, Srv!RecoverTask,
                Srv!LeaseLapses
  <2> QED BY <1>h, <1>s, <2>1 DEF handlerVars, procVars, InHandler
<1>2. ASSUME NEW w \in Workers, NEW c \in Commands, NEW r \in Runs, Start(w, c, r)
      PROVE  HandlerTypeOK' /\ InHandler'
  <2>1. HandlerTypeOK'
    BY <1>2, <1>h DEF Start, Goto, HandlerTypeOK, Steps
  <2>2. InHandler'
    BY <1>2, <1>h DEF Start, Goto, Srv!Pick, HandlerTypeOK, InHandler, RunTypeOK
  <2> QED BY <2>1, <2>2
<1>3. ASSUME NEW r \in Runs, Handler(r)
      PROVE  HandlerTypeOK' /\ InHandler'
  BY <1>3, WorkStep, LeaveStep, HandlerCases
<1>4. ASSUME NEW r \in Runs, Process(r)
      PROVE  HandlerTypeOK' /\ InHandler'
  <2>1. NoneReturns /\ UNCHANGED handlerVars
    BY <1>4, <1>h, ProcessorRuns
  <2> QED BY <1>h, <1>s, <2>1 DEF handlerVars, NoneReturns, InHandler
<1>5. ASSUME NEW w \in Workers, Stop(w)
      PROVE  HandlerTypeOK' /\ InHandler'
  <2>1. UNCHANGED handlerVars
    BY <1>5 DEF Stop
  <2>2. UNCHANGED <<phase, task, host>>
    BY <1>5 DEF Stop, Srv!Stop, Srv!runVars
  <2> QED BY <1>h, <1>s, <2>1, <2>2 DEF handlerVars, InHandler
<1>6. ASSUME NEW w \in Workers, Crash(w)
      PROVE  HandlerTypeOK' /\ InHandler'
  <2>1. HandlerTypeOK'
    BY <1>6, <1>h DEF Crash, HandlerTypeOK, Steps
  <2>2. \A q \in Runs :
          IF host[q] = w THEN phase'[q] = "idle"
          ELSE phase'[q] = phase[q] /\ task'[q] = task[q] /\ host'[q] = host[q]
    BY <1>6, <1>h, CrashRuns DEF Crash
  <2>3. InHandler'
    BY <1>6, <1>h, <2>2 DEF Crash, InHandler, HandlerTypeOK
  <2> QED BY <2>1, <2>3
<1>7. ASSUME UNCHANGED vars
      PROVE  HandlerTypeOK' /\ InHandler'
  <2>1. UNCHANGED handlerVars /\ UNCHANGED <<phase, task, host>>
    BY <1>7 DEF vars, procVars
  <2> QED BY <1>h, <1>s, <2>1 DEF handlerVars, InHandler
<1>8. HandlerTypeOK' /\ InHandler'
  BY <1>1, <1>2, <1>3, <1>4, <1>5, <1>6, <1>7 DEF Next
<1> QED BY <1>l, <1>8 DEF WorkerInv

(***************************************************************************)
(* The type invariant of the worker, for every instance.                   *)
(***************************************************************************)
THEOREM WorkerTypeCorrect == Spec => []TypeOK
<1>1. WorkerInv => TypeOK
  BY TypesOfLeaseInv DEF WorkerInv, HandlerTypeOK, TypeOK
<1> QED BY <1>1, WorkerInvInit, WorkerInvStep, PTL DEF Spec


(***************************************************************************)
(* How success comes about.  A run is done when its handler has returned   *)
(* nil, and only a done run completes a task; a run is done only after it  *)
(* was about to finish, and about to finish only after it has notified.    *)
(***************************************************************************)
Done(r) == phase[r] = "returned" /\ outcome[r] = Srv!NoError

LEMMA ProcessorCompletes ==
  ASSUME WorkerInv, NEW r \in Runs, Process(r), NEW c \in Commands,
         state'[c] = "completed", state[c] # "completed"
  PROVE  Done(r) /\ task[r] = c
<1>1. state \in [Commands -> Srv!States]
  BY TypesOfLeaseInv DEF WorkerInv, Srv!ServerTypeOK, Srv!QueueTypeOK
<1>2. Srv!SettleSuccess(r)
  BY <1>1 DEF Process, Srv!Deadline, Srv!Settle, Srv!SettleFailure, Srv!SettleDeadline,
              Srv!DropStale, Srv!Abort, Srv!Requeue, Srv!Fail, Srv!PutBack, Srv!Spare,
              Srv!Retry, Srv!Archive, Srv!Move
<1> QED BY <1>1, <1>2 DEF Srv!SettleSuccess, Srv!Complete, Srv!Move, Done

LEMMA CompletionStep ==
  ASSUME WorkerInv, [Next]_vars, NEW c \in Commands, state'[c] = "completed"
  PROVE  state[c] = "completed" \/ \E r \in Runs : Done(r) /\ task[r] = c
<1>h. state \in [Commands -> Srv!States]
  BY TypesOfLeaseInv DEF WorkerInv, Srv!ServerTypeOK, Srv!QueueTypeOK
<1>1. ASSUME NEW d \in Commands, Queue(d)
      PROVE  state[c] = "completed"
  BY <1>h, <1>1 DEF Queue, Srv!Submit, Srv!Promote, Srv!Forget, Srv!RecoverTask,
                    Srv!LeaseLapses, Srv!Enqueue, Srv!Forward, Srv!Expire, Srv!Recover,
                    Srv!LoseLease, Srv!PutBack, Srv!Spare, Srv!Retry, Srv!Archive, Srv!Move
<1>2. ASSUME NEW w \in Workers, NEW d \in Commands, NEW r \in Runs, Start(w, d, r)
      PROVE  state[c] = "completed"
  BY <1>h, <1>2 DEF Start, Srv!Pick, Srv!Dequeue, Srv!Move
<1>3. ASSUME NEW r \in Runs, Handler(r)
      PROVE  state[c] = "completed"
  BY <1>3, HandlerStep DEF Srv!Return
<1>4. ASSUME NEW r \in Runs, Process(r)
      PROVE  state[c] = "completed" \/ (Done(r) /\ task[r] = c)
  BY <1>4, ProcessorCompletes
<1>5. ASSUME NEW w \in Workers, Stop(w) \/ Crash(w)
      PROVE  state[c] = "completed"
  BY <1>5 DEF Stop, Crash, Srv!Stop, Srv!Crash
<1>6. ASSUME UNCHANGED vars
      PROVE  state[c] = "completed"
  BY <1>6 DEF vars, queueVars
<1> QED BY <1>1, <1>2, <1>3, <1>4, <1>5, <1>6 DEF Next

(***************************************************************************)
(* With an adapter that does not truncate, what a run has uploaded stays,  *)
(* and a run gets to "finish" only with every output uploaded.             *)
(***************************************************************************)
SavedIsStored ==
  \A r \in Runs :
    /\ step[r] = "off" => saved[r] = {}
    /\ step[r] # "off" => saved[r] \subseteq stored[task[r]]
    /\ step[r] = "finish" => saved[r] = Outputs
    /\ Done(r) => task[r] \in Commands /\ stored[task[r]] = Outputs

StoredInv == WorkerInv /\ SavedIsStored /\ SuccessIsStored

LEMMA StoredGrows ==
  ASSUME AtomicPut, WorkerInv, [Next]_vars, NEW c \in Commands
  PROVE  stored[c] \subseteq stored'[c]
<1>h. stored \in [Commands -> SUBSET Outputs]
  BY DEF WorkerInv, HandlerTypeOK
<1>1. ASSUME NEW r \in Runs, Handler(r)
      PROVE  stored[c] \subseteq stored'[c]
  <2>1. CASE Works(r) \/ Notify(r)
    BY <1>h, <2>1 DEF Works, BeginJob, Download, StartEncoding, Produce, Encode, OpenUpload,
                      FinishUpload, Notify
  <2>2. CASE Ends(r)
    BY <1>h, <2>2 DEF Ends, DelayJob, DownloadFails, EncodeFails, MissingOutput, UploadFails,
                      FinishJob, Abandon
  <2> QED BY <1>1, <2>1, <2>2, HandlerCases
<1>2. (\E r \in Runs : Handler(r)) \/ UNCHANGED stored
  BY DEF Next, Queue, Start, Process, Stop, Crash, vars, handlerVars
<1> QED BY <1>1, <1>2

\* A step after which every run has saved no more than before.
LEMMA SavedKept ==
  ASSUME AtomicPut, StoredInv, [Next]_vars, WorkerInv',
         \A r \in Runs :
           /\ step'[r] = "off" => saved'[r] = {}
           /\ step'[r] # "off" => saved'[r] = {} \/ (task'[r] = task[r] /\ step[r] # "off"
                                                     /\ saved'[r] = saved[r])
           /\ step'[r] = "finish" => saved'[r] = Outputs
           /\ Done(r)' => task'[r] = task[r] /\ (Done(r) \/ step[r] = "finish")
  PROVE  SavedIsStored'
<1>1. /\ \A c \in Commands : stored[c] \subseteq stored'[c] /\ stored'[c] \subseteq Outputs
      /\ \A r \in Runs : step[r] # "off" => task[r] \in Commands
      /\ \A r \in Runs : step'[r] # "off" => task'[r] \in Commands
  BY StoredGrows DEF StoredInv, WorkerInv, HandlerTypeOK, InHandler
<1>2. ASSUME NEW r \in Runs, step'[r] # "off"
      PROVE  saved'[r] \subseteq stored'[task'[r]]
  BY <1>1, <1>2 DEF StoredInv, SavedIsStored
<1>3. ASSUME NEW r \in Runs, Done(r)'
      PROVE  task'[r] \in Commands /\ stored'[task'[r]] = Outputs
  <2>1. task'[r] = task[r] /\ (Done(r) \/ step[r] = "finish")
    BY <1>3
  <2>2. task[r] \in Commands /\ Outputs \subseteq stored[task[r]]
    BY <1>1, <2>1 DEF StoredInv, SavedIsStored
  <2> QED BY <1>1, <2>1, <2>2
<1> QED BY <1>2, <1>3 DEF SavedIsStored

LEMMA SavedStep ==
  ASSUME AtomicPut, StoredInv, [Next]_vars, WorkerInv'
  PROVE  SavedIsStored'
<1>h. HandlerTypeOK /\ InHandler /\ RunTypeOK /\ SavedIsStored /\ WorkerInv
  BY TypesOfLeaseInv DEF StoredInv, WorkerInv
<1>s. ASSUME NoneReturns, UNCHANGED handlerVars
      PROVE  SavedIsStored'
  <2>1. \A r \in Runs : step'[r] # "off" => task'[r] = task[r]
    BY <1>h, <1>s DEF NoneReturns, InHandler, handlerVars
  <2>2. \A r \in Runs : Done(r)' => Done(r) /\ task'[r] = task[r]
    BY <1>h, <1>s DEF NoneReturns, Done, RunTypeOK
  <2> QED BY <1>h, <1>s, <2>1, <2>2, SavedKept DEF SavedIsStored, handlerVars
<1>1. CASE (\E c \in Commands : Queue(c)) \/ (\E w \in Workers : Stop(w)) \/ UNCHANGED vars
  <2>1. UNCHANGED handlerVars /\ UNCHANGED <<task, host, phase, outcome>>
    BY <1>1 DEF Queue, Stop, vars, procVars, Srv!Submit, Srv!Promote, Srv!Forget,
                Srv!RecoverTask, Srv!LeaseLapses, Srv!Stop
  <2> QED BY <1>s, <2>1 DEF NoneReturns
<1>2. ASSUME NEW w \in Workers, NEW c \in Commands, NEW q \in Runs, Start(w, c, q)
      PROVE  SavedIsStored'
  <2>1. /\ step[q] = "off" /\ step' = [step EXCEPT ![q] = "gate"]
        /\ phase' = [phase EXCEPT ![q] = "running"] /\ task' = [task EXCEPT ![q] = c]
        /\ UNCHANGED <<outcome, saved, stored>>
    BY <1>2, <1>h DEF Start, Goto, Srv!Pick, InHandler
  <2>2. \A r \in Runs \ {q} : step'[r] = step[r] /\ phase'[r] = phase[r] /\ task'[r] = task[r]
    BY <2>1, <1>h DEF HandlerTypeOK, RunTypeOK
  <2>3. step'[q] = "gate" /\ phase'[q] = "running"
    BY <2>1, <1>h DEF HandlerTypeOK, RunTypeOK
  <2> QED BY <1>h, <2>1, <2>2, <2>3, SavedKept DEF SavedIsStored, Done
<1>3. ASSUME NEW q \in Runs, Works(q) \/ Notify(q)
      PROVE  SavedIsStored'
  <2>1. phase' = phase /\ task' = task /\ outcome' = outcome
    BY <1>h, <1>3, WorkStep
  <2>2. step[q] # "off"
    BY <1>3 DEF Works, BeginJob, Download, StartEncoding, Produce, Encode, FinishUpload, Notify,
                OpenUpload, At
  <2>3. CASE FinishUpload(q)
    <3>1. /\ step' = [step EXCEPT ![q] = "upload"]
          /\ saved' = [saved EXCEPT ![q] = @ \cup {target[q]}]
          /\ stored' = [stored EXCEPT ![task[q]] = @ \cup {target[q]}]
      BY <2>3 DEF FinishUpload, Goto
    <3>2. task[q] \in Commands
      BY <1>h, <2>2 DEF InHandler
    <3>3. /\ \A r \in Runs \ {q} : step'[r] = step[r] /\ saved'[r] = saved[r]
          /\ step'[q] = "upload" /\ saved'[q] = saved[q] \cup {target[q]}
          /\ stored'[task[q]] = stored[task[q]] \cup {target[q]}
      BY <1>h, <3>1, <3>2 DEF HandlerTypeOK
    <3>4. \A c \in Commands : stored[c] \subseteq stored'[c] /\ stored'[c] \subseteq Outputs
      BY <1>h, StoredGrows DEF WorkerInv, HandlerTypeOK
    <3>5. ASSUME NEW r \in Runs, step'[r] # "off"
          PROVE  saved'[r] \subseteq stored'[task'[r]]
      <4>1. task[r] \in Commands /\ saved[r] \subseteq stored[task[r]]
        BY <1>h, <2>2, <3>3, <3>5 DEF InHandler, SavedIsStored
      <4> QED BY <2>1, <3>3, <3>4, <4>1
    <3>6. ASSUME NEW r \in Runs, Done(r)'
          PROVE  task'[r] \in Commands /\ stored'[task'[r]] = Outputs
      <4>1. Done(r)
        BY <2>1, <3>6 DEF Done
      <4>2. task[r] \in Commands /\ stored[task[r]] = Outputs
        BY <1>h, <4>1 DEF SavedIsStored
      <4> QED BY <2>1, <3>4, <4>2
    <3> QED BY <1>h, <3>3, <3>5, <3>6 DEF SavedIsStored
  <2>4. CASE ~ FinishUpload(q)
    <3>1. /\ UNCHANGED saved
          /\ \A r \in Runs : (step'[r] = "off" <=> step[r] = "off")
          /\ \A r \in Runs : step'[r] = "finish" => step[r] = "finish" \/ saved[r] = Outputs
      BY <1>h, <1>3, <2>4 DEF Works, BeginJob, Download, StartEncoding, Produce, Encode, Notify,
                              OpenUpload, Goto, At, HandlerTypeOK
    <3> QED BY <1>h, <2>1, <3>1, SavedKept DEF SavedIsStored, Done
  <2> QED BY <2>3, <2>4
<1>4. ASSUME NEW q \in Runs, Ends(q)
      PROVE  SavedIsStored'
  <2>1. PICK e : Leave(q, e) /\ (e = Srv!NoError => step[q] = "finish")
    BY <1>4, EndsLeave
  <2>2. Returns(q, e)
    BY <1>h, <2>1, ReturnRuns DEF Leave
  <2>3. /\ step' = [step EXCEPT ![q] = "off"]
        /\ saved' = [saved EXCEPT ![q] = {}]
    BY <2>1 DEF Leave, Goto
  <2>4. \A r \in Runs :
          Done(r)' => task'[r] = task[r] /\ (Done(r) \/ step[r] = "finish")
    BY <2>1, <2>2 DEF Returns, Done
  <2> QED BY <1>h, <2>2, <2>3, <2>4, SavedKept DEF SavedIsStored, HandlerTypeOK, Returns
<1>5. ASSUME NEW q \in Runs, Process(q)
      PROVE  SavedIsStored'
  BY <1>5, <1>h, <1>s, ProcessorRuns
<1>6. ASSUME NEW w \in Workers, Crash(w)
      PROVE  SavedIsStored'
  <2>1. \A r \in Runs :
          IF host[r] = w THEN phase'[r] = "idle" /\ step'[r] = "off" /\ saved'[r] = {}
          ELSE /\ phase'[r] = phase[r] /\ task'[r] = task[r] /\ outcome'[r] = outcome[r]
               /\ step'[r] = step[r] /\ saved'[r] = saved[r]
    BY <1>6, <1>h, CrashRuns DEF Crash
  <2> QED BY <1>h, <2>1, SavedKept DEF SavedIsStored, Done
<1> QED
  BY <1>1, <1>2, <1>3, <1>4, <1>5, <1>6, HandlerCases DEF Next

\* A step of the worker reports success only for a run that has stored all.
LEMMA ReportStep ==
  ASSUME StoredInv, [Next]_vars, NEW c \in Commands, result'[c] \/ hooks'[c] > 0
  PROVE  \/ result[c] \/ hooks[c] > 0
         \/ \E r \in Runs : task[r] = c /\ step[r] # "off" /\ saved[r] = Outputs
<1>h. HandlerTypeOK /\ SavedIsStored
  BY DEF StoredInv, WorkerInv
<1>1. ASSUME NEW r \in Runs, Handler(r)
      PROVE  \/ UNCHANGED <<hooks, result>>
             \/ Notify(r) \/ FinishJob(r)
  <2>1. CASE Works(r)
    BY <2>1 DEF Works, BeginJob, Download, StartEncoding, Produce, Encode, OpenUpload,
                FinishUpload
  <2>2. CASE Ends(r)
    BY <2>2 DEF Ends, DelayJob, DownloadFails, EncodeFails, MissingOutput, UploadFails, Abandon
  <2> QED BY <1>1, <2>1, <2>2, HandlerCases
<1>2. \/ UNCHANGED <<hooks, result>>
      \/ \E r \in Runs : Notify(r) \/ FinishJob(r)
  BY <1>1 DEF Next, Queue, Start, Process, Stop, Crash, vars, handlerVars
<1>3. ASSUME NEW r \in Runs, Notify(r)
      PROVE  \/ result[c] \/ hooks[c] > 0
             \/ task[r] = c /\ step[r] # "off" /\ saved[r] = Outputs
  BY <1>3, <1>h DEF Notify, At, HandlerTypeOK
<1>4. ASSUME NEW r \in Runs, FinishJob(r)
      PROVE  \/ result[c] \/ hooks[c] > 0
             \/ task[r] = c /\ step[r] # "off" /\ saved[r] = Outputs
  BY <1>4, <1>h DEF FinishJob, At, HandlerTypeOK, SavedIsStored
<1> QED BY <1>2, <1>3, <1>4

LEMMA StoredStep ==
  ASSUME AtomicPut, StoredInv, [Next]_vars
  PROVE  StoredInv'
<1>1. WorkerInv'
  BY WorkerInvStep DEF StoredInv
<1>2. SavedIsStored'
  BY <1>1, SavedStep
<1>3. ASSUME NEW c \in Commands, stored[c] = Outputs
      PROVE  stored'[c] = Outputs
  <2>1. stored[c] \subseteq stored'[c]
    BY StoredGrows DEF StoredInv
  <2>2. stored'[c] \subseteq Outputs
    BY <1>1 DEF WorkerInv, HandlerTypeOK
  <2> QED BY <1>3, <2>1, <2>2
<1>4. ASSUME NEW c \in Commands, state'[c] = "completed"
      PROVE  stored[c] = Outputs
  BY <1>4, CompletionStep DEF StoredInv, SavedIsStored, SuccessIsStored
<1>5. ASSUME NEW c \in Commands, result'[c] \/ hooks'[c] > 0
      PROVE  stored[c] = Outputs
  <2>1. CASE result[c] \/ hooks[c] > 0
    BY <2>1 DEF StoredInv, SuccessIsStored
  <2>2. ASSUME NEW r \in Runs, task[r] = c, step[r] # "off", saved[r] = Outputs
        PROVE  stored[c] = Outputs
    <3>1. Outputs \subseteq stored[c]
      BY <2>2 DEF StoredInv, SavedIsStored
    <3>2. stored[c] \subseteq Outputs
      BY DEF StoredInv, WorkerInv, HandlerTypeOK
    <3> QED BY <3>1, <3>2
  <2> QED BY <1>5, <2>1, <2>2, ReportStep
<1>6. SuccessIsStored'
  BY <1>3, <1>4, <1>5 DEF SuccessIsStored
<1> QED BY <1>1, <1>2, <1>6 DEF StoredInv

LEMMA StoredInvInit == Init => StoredInv
<1> SUFFICES ASSUME Init
             PROVE  StoredInv
  OBVIOUS
<1>1. SavedIsStored
  BY DEF Init, Srv!ServerInit, SavedIsStored, Done
<1>2. SuccessIsStored
  BY DEF Init, Srv!ServerInit, Srv!QueueInit, SuccessIsStored
<1> QED BY <1>1, <1>2, WorkerInvInit DEF StoredInv

(***************************************************************************)
(* With every adapter but "file", a reported success is true: whatever     *)
(* crashes, deadlines, retries and leftover runs interleave, a completed,  *)
(* answered or notified command has all its outputs in the storage.        *)
(***************************************************************************)
THEOREM SuccessCorrect == Adapter # "file" => (Spec => []SuccessIsStored)
<1> SUFFICES ASSUME Adapter # "file"
             PROVE  Spec => []SuccessIsStored
  OBVIOUS
<1>2. StoredInv /\ [Next]_vars => StoredInv'
  BY StoredStep DEF AtomicPut
<1>3. StoredInv => SuccessIsStored
  BY DEF StoredInv
<1> QED BY StoredInvInit, <1>2, <1>3, PTL DEF Spec

(***************************************************************************)
(* Without faults of the broker, a run about to finish has notified, and   *)
(* so has a done run, because only a run about to finish becomes done.     *)
(***************************************************************************)
Notified(r) ==
  task[r] \in Hooked /\ (step[r] = "finish" \/ Done(r)) => hooks[task[r]] > 0

NotifiedInv == WorkerInv /\ (\A r \in Runs : Notified(r)) /\ CompletedIsNotified

LEMMA HooksGrow ==
  ASSUME WorkerInv, [Next]_vars, NEW c \in Commands, hooks[c] > 0
  PROVE  hooks'[c] > 0
<1>h. hooks \in [Commands -> Nat]
  BY DEF WorkerInv, HandlerTypeOK
<1>1. ASSUME NEW r \in Runs, Handler(r)
      PROVE  hooks'[c] > 0
  <2>1. CASE Works(r)
    BY <2>1 DEF Works, BeginJob, Download, StartEncoding, Produce, Encode, OpenUpload,
                FinishUpload
  <2>2. CASE Ends(r)
    BY <2>2 DEF Ends, DelayJob, DownloadFails, EncodeFails, MissingOutput, UploadFails, FinishJob,
                Abandon
  <2>3. CASE Notify(r)
    BY <1>h, <2>3 DEF Notify
  <2> QED BY <1>1, <2>1, <2>2, <2>3, HandlerCases
<1>2. (\E r \in Runs : Handler(r)) \/ UNCHANGED hooks
  BY DEF Next, Queue, Start, Process, Stop, Crash, vars, handlerVars
<1> QED BY <1>1, <1>2

LEMMA NotifiedStep ==
  ASSUME ~ BrokerFaults, NotifiedInv, [Next]_vars, NEW r \in Runs
  PROVE  Notified(r)'
<1>h. HandlerTypeOK /\ InHandler /\ RunTypeOK /\ WorkerInv /\ Notified(r)
  BY TypesOfLeaseInv DEF NotifiedInv, WorkerInv
<1>s. ASSUME task'[r] = task[r], step[r] = "finish" \/ Done(r)
      PROVE  Notified(r)'
  BY <1>h, <1>s, HooksGrow DEF Notified, WorkerAssumption
<1>g. ASSUME step'[r] # "finish", ~ Done(r)'
      PROVE  Notified(r)'
  BY <1>g DEF Notified
<1>1. CASE (\E c \in Commands : Queue(c)) \/ (\E w \in Workers : Stop(w)) \/ UNCHANGED vars
  <2>1. UNCHANGED handlerVars /\ UNCHANGED <<task, host, phase, outcome>>
    BY <1>1 DEF Queue, Stop, vars, procVars, Srv!Submit, Srv!Promote, Srv!Forget,
                Srv!RecoverTask, Srv!LeaseLapses, Srv!Stop
  <2> QED BY <1>s, <1>g, <2>1 DEF handlerVars, Done
<1>2. ASSUME NEW w \in Workers, NEW c \in Commands, NEW q \in Runs, Start(w, c, q)
      PROVE  Notified(r)'
  BY <1>h, <1>s, <1>g, <1>2 DEF Start, Goto, Srv!Pick, Done, HandlerTypeOK, RunTypeOK
<1>3. ASSUME NEW q \in Runs, Works(q)
      PROVE  Notified(r)'
  <2>1. phase' = phase /\ task' = task /\ outcome' = outcome
    BY <1>h, <1>3, WorkStep
  <2>2. step'[r] = "finish" => step[r] = "finish"
    BY <1>h, <1>3 DEF Works, BeginJob, Download, StartEncoding, Produce, Encode, FinishUpload,
                      OpenUpload, Goto, HandlerTypeOK
  <2> QED BY <1>s, <1>g, <2>1, <2>2 DEF Done
<1>4. ASSUME NEW q \in Runs, Notify(q)
      PROVE  Notified(r)'
  <2>1. phase' = phase /\ task' = task /\ outcome' = outcome
    BY <1>h, <1>4, WorkStep
  <2>2. CASE r # q
    BY <1>h, <1>s, <1>g, <1>4, <2>1, <2>2 DEF Notify, Goto, HandlerTypeOK, Done
  <2>3. CASE r = q
    <3>1. task[r] \in Hooked => hooks'[task[r]] > 0
      BY <1>h, <1>4, <2>3 DEF Notify, HandlerTypeOK, WorkerAssumption
    <3> QED BY <2>1, <3>1 DEF Notified
  <2> QED BY <2>2, <2>3
<1>5. ASSUME NEW q \in Runs, Ends(q)
      PROVE  Notified(r)'
  <2>1. PICK e : Leave(q, e) /\ (e = Srv!NoError => step[q] = "finish")
    BY <1>5, EndsLeave
  <2>2. Returns(q, e)
    BY <1>h, <2>1, ReturnRuns DEF Leave
  <2>3. step' = [step EXCEPT ![q] = "off"]
    BY <2>1 DEF Leave, Goto
  <2>4. Done(r)' => task'[r] = task[r] /\ (Done(r) \/ step[r] = "finish")
    BY <2>1, <2>2 DEF Returns, Done
  <2>5. step'[r] = "finish" => step[r] = "finish" /\ task'[r] = task[r]
    BY <1>h, <2>2, <2>3 DEF Returns, HandlerTypeOK
  <2> QED BY <1>s, <1>g, <2>4, <2>5
<1>6. ASSUME NEW q \in Runs, Process(q)
      PROVE  Notified(r)'
  <2>1. NoneReturns /\ UNCHANGED handlerVars
    BY <1>h, <1>6, ProcessorRuns
  <2>2. Done(r)' => Done(r) /\ task'[r] = task[r]
    BY <2>1 DEF NoneReturns, Done
  <2>3. step'[r] = "finish" => step[r] = "finish" /\ task'[r] = task[r]
    BY <1>h, <2>1 DEF NoneReturns, InHandler, handlerVars
  <2> QED BY <1>s, <1>g, <2>2, <2>3
<1>7. ASSUME NEW w \in Workers, Crash(w)
      PROVE  Notified(r)'
  <2>1. IF host[r] = w THEN phase'[r] = "idle" /\ step'[r] = "off"
        ELSE /\ phase'[r] = phase[r] /\ task'[r] = task[r] /\ outcome'[r] = outcome[r]
             /\ step'[r] = step[r]
    BY <1>7, <1>h, CrashRuns DEF Crash
  <2> QED BY <1>s, <1>g, <2>1 DEF Done
<1> QED
  BY <1>1, <1>2, <1>3, <1>4, <1>5, <1>6, <1>7, HandlerCases DEF Next

(***************************************************************************)
(* If the broker takes what the worker enqueues, no crash, deadline,       *)
(* lapsed lease or overlapping run makes a command complete without its    *)
(* SUCCESS notification in the queue.                                      *)
(***************************************************************************)
THEOREM NotificationCorrect == ~ BrokerFaults => (Spec => []CompletedIsNotified)
<1> SUFFICES ASSUME ~ BrokerFaults
             PROVE  Spec => []CompletedIsNotified
  OBVIOUS
<1>1. Init => NotifiedInv
  <2> SUFFICES ASSUME Init
               PROVE  NotifiedInv
    OBVIOUS
  <2>1. (\A r \in Runs : Notified(r)) /\ CompletedIsNotified
    BY DEF Init, Srv!ServerInit, Srv!QueueInit, Notified, Done, CompletedIsNotified,
           WorkerAssumption
  <2> QED BY <2>1, WorkerInvInit DEF NotifiedInv
<1>2. NotifiedInv /\ [Next]_vars => NotifiedInv'
  <2> SUFFICES ASSUME NotifiedInv, [Next]_vars
               PROVE  NotifiedInv'
    OBVIOUS
  <2>1. WorkerInv'
    BY WorkerInvStep DEF NotifiedInv
  <2>2. \A r \in Runs : Notified(r)'
    BY NotifiedStep
  <2>3. ASSUME NEW c \in Hooked, state'[c] = "completed"
        PROVE  hooks[c] > 0
    BY <2>3, CompletionStep DEF NotifiedInv, Notified, CompletedIsNotified, WorkerAssumption
  <2>4. CompletedIsNotified'
    BY <2>3, HooksGrow DEF NotifiedInv, CompletedIsNotified, WorkerAssumption
  <2> QED BY <2>1, <2>2, <2>4 DEF NotifiedInv
<1>3. NotifiedInv => CompletedIsNotified
  BY DEF NotifiedInv
<1> QED BY <1>1, <1>2, <1>3, PTL DEF Spec

-----------------------------------------------------------------------------
(***************************************************************************)
(* A run that has not notified yet has one notification reserved: its      *)
(* dispatch was counted, and no other run draws on it.                     *)
(***************************************************************************)
Silent(s)  == s \notin {"off", "finish"}
Pending(c) == {r \in Runs : task[r] = c /\ Silent(step[r])}

Reserved ==
  \A c \in Commands :
    /\ IsFiniteSet(Pending(c))
    /\ hooks[c] + Cardinality(Pending(c)) <= dispatched[c]

ReservedInv == WorkerInv /\ Reserved

LEMMA CountType ==
  ASSUME WorkerInv
  PROVE  dispatched \in [Commands -> Nat] /\ hooks \in [Commands -> Nat]
BY TypesOfLeaseInv DEF WorkerInv, HandlerTypeOK, Srv!ServerTypeOK, Srv!QueueTypeOK

\* It is enough that nobody notifies, none is dispatched and no run begins.
LEMMA NoneAnnounces ==
  ASSUME ReservedInv, UNCHANGED <<hooks, dispatched>>,
         \A r \in Runs : Silent(step'[r]) => Silent(step[r]) /\ task'[r] = task[r]
  PROVE  Reserved'
<1> SUFFICES ASSUME NEW c \in Commands
             PROVE  /\ IsFiniteSet(Pending(c)')
                    /\ hooks'[c] + Cardinality(Pending(c)') <= dispatched'[c]
  BY DEF Reserved
<1>1. Pending(c)' \subseteq Pending(c)
  BY DEF Pending
<1>2. /\ IsFiniteSet(Pending(c))
      /\ hooks[c] + Cardinality(Pending(c)) <= dispatched[c]
      /\ hooks[c] \in Nat /\ dispatched[c] \in Nat
  BY CountType DEF ReservedInv, Reserved
<1>3. /\ IsFiniteSet(Pending(c)') /\ Cardinality(Pending(c)') <= Cardinality(Pending(c))
      /\ Cardinality(Pending(c)') \in Nat /\ Cardinality(Pending(c)) \in Nat
  BY <1>1, <1>2, FS_Subset, FS_CardinalityType
<1> QED BY <1>2, <1>3

LEMMA StartReserved ==
  ASSUME ReservedInv, NEW w \in Workers, NEW d \in Commands, NEW r \in Runs, Start(w, d, r)
  PROVE  Reserved'
<1>h. HandlerTypeOK /\ InHandler /\ RunTypeOK
  BY TypesOfLeaseInv DEF ReservedInv, WorkerInv
<1>1. /\ step[r] = "off"
      /\ step' = [step EXCEPT ![r] = "gate"]
      /\ task' = [task EXCEPT ![r] = d]
      /\ dispatched' = [dispatched EXCEPT ![d] = @ + 1]
      /\ UNCHANGED hooks
  BY <1>h DEF Start, Srv!Pick, Srv!Dequeue, Goto, InHandler
<1>2. /\ step'[r] = "gate" /\ task'[r] = d
      /\ \A q \in Runs \ {r} : step'[q] = step[q] /\ task'[q] = task[q]
  BY <1>1, <1>h DEF HandlerTypeOK, RunTypeOK
<1> SUFFICES ASSUME NEW c \in Commands
             PROVE  /\ IsFiniteSet(Pending(c)')
                    /\ hooks'[c] + Cardinality(Pending(c)') <= dispatched'[c]
  BY DEF Reserved
<1>3. /\ IsFiniteSet(Pending(c)) /\ Cardinality(Pending(c)) \in Nat
      /\ hooks[c] + Cardinality(Pending(c)) <= dispatched[c]
      /\ hooks'[c] = hooks[c] /\ hooks[c] \in Nat /\ dispatched[c] \in Nat
      /\ dispatched'[c] = IF c = d THEN dispatched[c] + 1 ELSE dispatched[c]
  BY <1>1, CountType, FS_CardinalityType DEF ReservedInv, Reserved
<1>4. CASE c = d
  <2>1. Pending(c)' = Pending(c) \cup {r} /\ r \notin Pending(c)
    BY <1>1, <1>2, <1>4 DEF Pending, Silent
  <2>2. IsFiniteSet(Pending(c)') /\ Cardinality(Pending(c)') = Cardinality(Pending(c)) + 1
    BY <1>3, <2>1, FS_AddElement
  <2> QED BY <1>3, <1>4, <2>2
<1>5. CASE c # d
  <2>1. Pending(c)' = Pending(c)
    BY <1>1, <1>2, <1>5 DEF Pending, Silent
  <2> QED BY <1>3, <1>5, <2>1
<1> QED BY <1>4, <1>5

LEMMA NotifyReserved ==
  ASSUME ReservedInv, NEW r \in Runs, Notify(r)
  PROVE  Reserved'
<1>h. HandlerTypeOK /\ InHandler
  BY DEF ReservedInv, WorkerInv
<1>1. /\ step[r] = "upload"
      /\ step' = [step EXCEPT ![r] = "finish"]
      /\ hooks' = [hooks EXCEPT ![task[r]] = @ + 1] \/ hooks' = hooks
      /\ UNCHANGED <<dispatched, task>>
  BY DEF Notify, At, Goto, queueVars, procVars
<1>2. /\ step'[r] = "finish" /\ task[r] \in Commands
      /\ \A q \in Runs \ {r} : step'[q] = step[q]
  BY <1>1, <1>h DEF HandlerTypeOK, InHandler
<1> SUFFICES ASSUME NEW c \in Commands
             PROVE  /\ IsFiniteSet(Pending(c)')
                    /\ hooks'[c] + Cardinality(Pending(c)') <= dispatched'[c]
  BY DEF Reserved
<1>3. /\ IsFiniteSet(Pending(c)) /\ Cardinality(Pending(c)) \in Nat
      /\ hooks[c] + Cardinality(Pending(c)) <= dispatched[c]
      /\ hooks[c] \in Nat /\ dispatched[c] \in Nat /\ dispatched'[c] = dispatched[c]
      /\ hooks'[c] \in {hooks[c], IF c = task[r] THEN hooks[c] + 1 ELSE hooks[c]}
  BY <1>1, CountType, FS_CardinalityType DEF ReservedInv, Reserved
<1>4. CASE c = task[r]
  <2>1. Pending(c)' = Pending(c) \ {r} /\ r \in Pending(c)
    BY <1>1, <1>2, <1>4 DEF Pending, Silent
  <2>2. IsFiniteSet(Pending(c)') /\ Cardinality(Pending(c)') = Cardinality(Pending(c)) - 1
    BY <1>3, <2>1, FS_RemoveElement
  <2> QED BY <1>3, <1>4, <2>2
<1>5. CASE c # task[r]
  <2>1. Pending(c)' = Pending(c)
    BY <1>1, <1>2, <1>5 DEF Pending, Silent
  <2> QED BY <1>3, <1>5, <2>1
<1> QED BY <1>4, <1>5

LEMMA ReservedStep ==
  ASSUME ReservedInv, [Next]_vars
  PROVE  Reserved'
<1>h. HandlerTypeOK /\ InHandler /\ RunTypeOK /\ WorkerInv
  BY TypesOfLeaseInv DEF ReservedInv, WorkerInv
<1>1. ASSUME NEW c \in Commands, Queue(c)
      PROVE  Reserved'
  <2>1. UNCHANGED <<step, task, hooks, dispatched>>
    BY <1>1 DEF Queue, handlerVars, procVars, Srv!Submit, Srv!Promote, Srv!Forget,
                Srv!RecoverTask, Srv!LeaseLapses, Srv!Enqueue, Srv!Forward, Srv!Expire,
                Srv!Recover, Srv!LoseLease, Srv!PutBack
  <2> QED BY <2>1, NoneAnnounces
<1>2. ASSUME NEW w \in Workers, NEW c \in Commands, NEW r \in Runs, Start(w, c, r)
      PROVE  Reserved'
  BY <1>2, StartReserved
<1>3. ASSUME NEW r \in Runs, Works(r)
      PROVE  Reserved'
  <2>1. UNCHANGED <<task, hooks, dispatched>>
    BY <1>3 DEF Works, BeginJob, Download, StartEncoding, Produce, Encode, FinishUpload,
                OpenUpload, queueVars, procVars
  <2>2. Silent(step[r]) /\ \A q \in Runs \ {r} : step'[q] = step[q]
    BY <1>3, <1>h DEF Works, BeginJob, Download, StartEncoding, Produce, Encode, FinishUpload,
                      OpenUpload, At, Goto, HandlerTypeOK, Silent
  <2> QED BY <2>1, <2>2, NoneAnnounces
<1>4. ASSUME NEW r \in Runs, Notify(r)
      PROVE  Reserved'
  BY <1>4, NotifyReserved
<1>5. ASSUME NEW r \in Runs, Ends(r)
      PROVE  Reserved'
  <2>1. PICK e : Leave(r, e)
    BY <1>5, EndsLeave
  <2>2. UNCHANGED <<hooks, dispatched>>
    BY <1>5, <2>1 DEF Ends, DelayJob, DownloadFails, EncodeFails, MissingOutput, UploadFails,
                      FinishJob, Abandon, Leave, Srv!Return
  <2>3. step'[r] = "off" /\ \A q \in Runs \ {r} : step'[q] = step[q] /\ task'[q] = task[q]
    BY <2>1, <1>h, ReturnRuns DEF Leave, Goto, HandlerTypeOK, Returns
  <2> QED BY <2>2, <2>3, NoneAnnounces DEF Silent
<1>6. ASSUME NEW r \in Runs, Process(r)
      PROVE  Reserved'
  <2>1. NoneReturns /\ UNCHANGED handlerVars
    BY <1>h, <1>6, ProcessorRuns
  <2>2. UNCHANGED dispatched
    BY <1>6 DEF Process, Srv!Deadline, Srv!Settle, Srv!SettleSuccess, Srv!SettleFailure,
                Srv!SettleDeadline, Srv!DropStale, Srv!Abort, Srv!Requeue, Srv!Fail,
                Srv!Complete, Srv!PutBack
  <2>3. \A q \in Runs : Silent(step'[q]) => Silent(step[q]) /\ task'[q] = task[q]
    BY <1>h, <2>1 DEF NoneReturns, InHandler, handlerVars, Silent
  <2> QED BY <2>1, <2>2, <2>3, NoneAnnounces DEF handlerVars
<1>7. ASSUME NEW w \in Workers, Crash(w)
      PROVE  Reserved'
  <2>1. UNCHANGED <<hooks, dispatched>>
    BY <1>7 DEF Crash, Srv!Crash
  <2>2. \A q \in Runs : Silent(step'[q]) => step'[q] = step[q] /\ task'[q] = task[q]
    BY <1>7, <1>h, CrashRuns DEF Crash, Silent
  <2> QED BY <2>1, <2>2, NoneAnnounces
<1>8. ASSUME NEW w \in Workers, Stop(w)
      PROVE  Reserved'
  <2>1. UNCHANGED <<step, task, hooks, dispatched>>
    BY <1>8 DEF Stop, Srv!Stop, handlerVars
  <2> QED BY <2>1, NoneAnnounces
<1>9. ASSUME UNCHANGED vars
      PROVE  Reserved'
  <2>1. UNCHANGED <<step, task, hooks, dispatched>>
    BY <1>9 DEF vars, queueVars, procVars, handlerVars
  <2> QED BY <2>1, NoneAnnounces
<1> QED
  BY <1>1, <1>2, <1>3, <1>4, <1>5, <1>6, <1>7, <1>8, <1>9, HandlerCases DEF Next

(***************************************************************************)
(* However many runs of a command overlap, crash or are dispatched again,  *)
(* the broker gets no more SUCCESS notifications of it than there were     *)
(* dispatches.                                                             *)
(***************************************************************************)
THEOREM NotifiedOnceCorrect == Spec => []NotifiedOncePerDispatch
<1>1. Init => ReservedInv
  <2> SUFFICES ASSUME Init
               PROVE  ReservedInv
    OBVIOUS
  <2>1. \A c \in Commands : Pending(c) = {} /\ hooks[c] = 0 /\ dispatched[c] = 0
    BY DEF Init, Srv!ServerInit, Srv!QueueInit, Pending, Silent
  <2> QED BY <2>1, FS_EmptySet, WorkerInvInit DEF ReservedInv, Reserved
<1>2. ReservedInv /\ [Next]_vars => ReservedInv'
  BY ReservedStep, WorkerInvStep DEF ReservedInv
<1>3. ReservedInv => NotifiedOncePerDispatch
  BY DEF ReservedInv, Reserved, Pending, Silent, NotifiedOncePerDispatch
<1> QED BY <1>1, <1>2, <1>3, PTL DEF Spec

(***************************************************************************)
(* The job directory.                                                      *)
(***************************************************************************)
\* Run r has lost a file in this step although it goes on.
Robbed(r) ==
  /\ step[r] \notin {"off", "gate"} /\ step'[r] # "off"
  /\ ~ (Dir(r) \subseteq files'[host[r]][task[r]])

\* Run q has left the directory it shares with r.
LeavesDir(q, r) ==
  /\ task[q] = task[r] /\ host[q] = host[r]
  /\ step[q] \notin {"off", "gate"} /\ step'[q] = "off"

\* A directory that is set, by a run that is not about to leave, only grows.
LEMMA GrowsOrLeaves ==
  ASSUME WorkerInv, NEW q \in Runs, Handler(q)
  PROVE  \/ UNCHANGED files
         \/ \E S : Dir(q) \subseteq S /\ SetDir(q, S)
         \/ SetDir(q, {}) /\ step[q] \notin {"off", "gate"} /\ step'[q] = "off"
<1>1. CASE Works(q)
  BY <1>1 DEF Works, BeginJob, Download, StartEncoding, Produce, Encode, FinishUpload, OpenUpload
<1>2. CASE DelayJob(q) \/ Notify(q)
  BY <1>2 DEF DelayJob, Notify
<1>3. CASE DownloadFails(q) \/ EncodeFails(q) \/ MissingOutput(q) \/ UploadFails(q)
           \/ FinishJob(q)
  <2>1. SetDir(q, {}) /\ Goto(q, "off")
    BY <1>3 DEF DownloadFails, EncodeFails, MissingOutput, UploadFails, FinishJob, Abandon,
                Leave
  <2>2. step[q] \notin {"off", "gate"}
    BY <1>3 DEF DownloadFails, EncodeFails, MissingOutput, UploadFails, FinishJob, At
  <2> QED BY <2>1, <2>2 DEF Goto, WorkerInv, HandlerTypeOK
<1> QED BY <1>1, <1>2, <1>3, HandlerCases DEF Ends

LEMMA RobbedStep ==
  ASSUME WorkerInv, [Next]_vars, NEW r \in Runs, Robbed(r)
  PROVE  \E q \in Runs \ {r} : LeavesDir(q, r)
<1>h. HandlerTypeOK /\ InHandler
  BY DEF WorkerInv
<1>t. task[r] \in Commands /\ host[r] \in Workers
  BY <1>h DEF InHandler, Robbed
<1>1. ~ UNCHANGED files
  BY DEF Robbed, Dir
<1>2. ASSUME NEW w \in Workers, Crash(w)
      PROVE  FALSE
  <2>1. host[r] # w
    BY <1>2 DEF Crash, Robbed
  <2>2. files'[host[r]] = files[host[r]]
    BY <1>h, <1>t, <1>2, <2>1 DEF Crash, HandlerTypeOK
  <2> QED BY <2>2 DEF Robbed, Dir
<1>3. ASSUME NEW q \in Runs, Handler(q)
      PROVE  q # r /\ LeavesDir(q, r)
  <2>1. PICK S : SetDir(q, S) /\ (Dir(q) \subseteq S
                   \/ (step[q] \notin {"off", "gate"} /\ step'[q] = "off"))
    BY <1>1, <1>3, GrowsOrLeaves
  <2>2. host[q] = host[r] /\ task[q] = task[r]
    BY <1>h, <1>t, <2>1 DEF SetDir, Robbed, Dir, HandlerTypeOK
  <2>3. files'[host[r]][task[r]] = S
    BY <1>h, <1>t, <2>1, <2>2 DEF SetDir, HandlerTypeOK
  <2>4. ~ (Dir(q) \subseteq S)
    BY <2>2, <2>3 DEF Robbed, Dir
  <2> QED BY <2>1, <2>2, <2>4 DEF LeavesDir, Robbed
<1>4. (\E q \in Runs : Handler(q)) \/ (\E w \in Workers : Crash(w))
  BY <1>1 DEF Next, Queue, Start, Process, Stop, vars, handlerVars
<1> QED BY <1>2, <1>3, <1>4

(***************************************************************************)
(* No file of a supervised run is taken away by anything but another run   *)
(* of the same command on the same worker that leaves the directory they   *)
(* share: by no other command, no other worker and no restart.             *)
(***************************************************************************)
THEOREM FilesCorrect == Spec => FilesLostOnlyToOverlap
<1>1. WorkerInv /\ [Next]_vars =>
        [\A r \in supervised :
           /\ step[r] \notin {"off", "gate"} /\ step'[r] # "off"
           /\ ~ (Dir(r) \subseteq files'[host[r]][task[r]])
           => \E q \in Runs \ {r} :
                /\ task[q] = task[r] /\ host[q] = host[r]
                /\ step[q] \notin {"off", "gate"} /\ step'[q] = "off"]_vars
  <2>1. ASSUME WorkerInv
        PROVE  supervised \subseteq Runs
    BY <2>1, TypesOfLeaseInv DEF WorkerInv, Srv!ServerTypeOK
  <2> QED BY <2>1, RobbedStep DEF Robbed, LeavesDir
<1> QED BY <1>1, WorkerInvInit, WorkerInvStep, PTL DEF Spec, FilesLostOnlyToOverlap

-----------------------------------------------------------------------------
(***************************************************************************)
(* The worker behind the API.                                              *)
(***************************************************************************)
USE ServiceAssumption
USE DEF Api!queueVars, Api!apiVars, Api!vars, Api!NoError

\* The operations on the queue, as the API and as the servers see them.
LEMMA SameOperations ==
  ASSUME NEW c, NEW r
  PROVE  /\ Api!Enqueue(c) <=> Srv!Enqueue(c)
         /\ Api!Forward(c) <=> Srv!Forward(c)
         /\ Api!Expire(c) <=> Srv!Expire(c)
         /\ Api!Recover(c) <=> Srv!Recover(c)
         /\ Api!Dequeue(c, r) <=> Srv!Dequeue(c, r)
         /\ Api!Complete(c, r) <=> Srv!Complete(c, r)
         /\ Api!Requeue(c, r) <=> Srv!Requeue(c, r)
         /\ \A e : Api!Fail(c, r, e) <=> Srv!Fail(c, r, e)
<1>1. \A e : Api!PutBack(c, e) <=> Srv!PutBack(c, e)
  BY DEF Api!PutBack, Srv!PutBack, Api!Spare, Srv!Spare, Api!Retry, Srv!Retry,
         Api!Archive, Srv!Archive, Api!Move, Srv!Move
<1>2. /\ Api!Recover(c) <=> Srv!Recover(c)
      /\ \A e : Api!Fail(c, r, e) <=> Srv!Fail(c, r, e)
  BY <1>1 DEF Api!Recover, Srv!Recover, Api!Fail, Srv!Fail
<1>3. /\ Api!Enqueue(c) <=> Srv!Enqueue(c)
      /\ Api!Forward(c) <=> Srv!Forward(c)
      /\ Api!Expire(c) <=> Srv!Expire(c)
      /\ Api!Dequeue(c, r) <=> Srv!Dequeue(c, r)
      /\ Api!Complete(c, r) <=> Srv!Complete(c, r)
      /\ Api!Requeue(c, r) <=> Srv!Requeue(c, r)
  BY DEF Api!Enqueue, Srv!Enqueue, Api!Forward, Srv!Forward, Api!Expire, Srv!Expire,
         Api!Dequeue, Srv!Dequeue, Api!Complete, Srv!Complete, Api!Requeue, Srv!Requeue,
         Api!Move, Srv!Move
<1> QED BY <1>2, <1>3

(***************************************************************************)
(* Seen from the worker, the API submits commands, and reads.              *)
(***************************************************************************)
LEMMA ReadsOnly ==
  ASSUME \/ \E c \in Commands : Report(c)
         \/ \E l \in Conns : List(l)
  PROVE  UNCHANGED vars
<1>1. UNCHANGED <<queueVars, procVars, handlerVars>>
  BY DEF Report, List, Api!GetCommand, Api!ListNext, Api!CallEnds, queueVars
<1> QED BY <1>1 DEF vars

LEMMA AcceptSubmits ==
  ASSUME NEW c \in Commands, Accept(c)
  PROVE  Queue(c) \/ UNCHANGED vars
<1>1. PICK q \in Requests : Api!CreateCommand(c, q)
  BY DEF Accept
<1>2. UNCHANGED <<procVars, handlerVars>>
  BY DEF Accept
<1>3. CASE Api!Enqueue(c)
  BY <1>2, <1>3, SameOperations DEF Queue, Srv!Submit, procVars
<1>4. CASE UNCHANGED Api!queueVars
  BY <1>2, <1>4 DEF vars, queueVars
<1> QED BY <1>1, <1>3, <1>4 DEF Api!CreateCommand

LEMMA ServiceStep == [ServiceNext]_serviceVars => [Next]_vars
<1> SUFFICES ASSUME [ServiceNext]_serviceVars
             PROVE  [Next]_vars
  OBVIOUS
<1>1. CASE Work
  <2>1. ASSUME NEW c \in Commands, Consume(c)
        PROVE  Queue(c)
    BY <2>1 DEF Consume, Queue
  <2> QED BY <1>1, <2>1 DEF Work, Next
<1>2. CASE \E c \in Commands : Accept(c)
  BY <1>2, AcceptSubmits DEF Next
<1>3. CASE UNCHANGED serviceVars
  BY <1>3 DEF serviceVars
<1> QED BY <1>1, <1>2, <1>3, ReadsOnly DEF ServiceNext

(***************************************************************************)
(* The worker keeps what is proved of it when its commands come from the   *)
(* API (api/main.go:55-103) instead of from nowhere.                       *)
(***************************************************************************)
THEOREM ServiceImplementsWorker == ServiceSpec => Spec
<1>1. ServiceInit => Init
  BY DEF ServiceInit
<1> QED BY <1>1, ServiceStep, PTL DEF ServiceSpec, Spec

(***************************************************************************)
(* What clients were told, and are about to be told by a list.             *)
(***************************************************************************)
PageIsStored ==
  \A l \in Conns : \A e \in page[l] : e.status = "SUCCESS" => stored[e.id] = Outputs

AnswersTyped ==
  /\ told   \in [Commands -> SUBSET (Api!Statuses \cup {"404"})]
  /\ cursor \in [Conns -> 0 .. 4]
  /\ page   \in [Conns -> SUBSET [id : Commands, list : Api!States, status : Api!Statuses]]
  /\ steady \in [Conns -> SUBSET Commands]

ServiceInv == WorkerInv /\ AnswersTyped

ReportedInv == StoredInv /\ ServiceInv /\ ReportedIsStored /\ PageIsStored

\* taskToStatus says SUCCESS of completed tasks only.
LEMMA SuccessIsCompleted ==
  ASSUME NEW c, NEW s, Api!TaskToStatus(c, Api!StateToStatus(s)) = "SUCCESS"
  PROVE  s = "completed"
BY DEF Api!TaskToStatus, Api!StateToStatus

LEMMA StatusType ==
  ASSUME NEW c, NEW s
  PROVE  Api!TaskToStatus(c, Api!StateToStatus(s)) \in Api!Statuses
BY DEF Api!TaskToStatus, Api!StateToStatus, Api!Statuses

\* Call l gathers the entries of the commands P of a list.
Gathers(l, from, P) ==
  LET new == {[id |-> c, list |-> from,
               status |-> Api!TaskToStatus(c, Api!StateToStatus(from))] : c \in P}
  IN  /\ P \subseteq {c \in Commands : state[c] = from}
      /\ page' = [page EXCEPT ![l] = @ \cup new]
      /\ steady' \in [Conns -> SUBSET Commands]
      /\ cursor' \in [Conns -> 0 .. 4]
      /\ \/ told' = told
         \/ told' = [c \in Commands |->
                      told[c] \cup {e.status : e \in {e \in page'[l] : e.id = c}}]

LEMMA ListReads ==
  ASSUME AnswersTyped, NEW l \in Conns, Api!ListNext(l)
  PROVE  \E from \in {"active", "pending", "completed", "archived"} :
           \E P : Gathers(l, from, P)
<1> DEFINE from    == Api!Lists[cursor[l] + 1]
           members == {c \in Commands : state[c] = from}
<1>1. Api!Done = 4 /\ cursor[l] \in 0 .. 3
  BY DEF AnswersTyped, Api!ListNext, Api!Done, Api!Lists
<1>2. from \in {"active", "pending", "completed", "archived"}
  BY <1>1 DEF Api!Lists
<1>3. PICK P \in SUBSET members :
        /\ page' = [page EXCEPT ![l] = @ \cup
                      {[id |-> c, list |-> from,
                        status |-> Api!TaskToStatus(c, Api!StateToStatus(from))] : c \in P}]
        /\ steady' = [steady EXCEPT ![l] = Api!Began(l) \ (IF P = members THEN {} ELSE members)]
  BY DEF Api!ListNext
<1>4. steady' \in [Conns -> SUBSET Commands]
  BY <1>3 DEF AnswersTyped, Api!Began
<1>5. cursor' \in [Conns -> 0 .. 4]
  BY <1>1 DEF AnswersTyped, Api!ListNext
<1>6. \/ told' = told
      \/ told' = [c \in Commands |-> told[c] \cup {e.status : e \in {e \in page'[l] : e.id = c}}]
  BY DEF Api!ListNext
<1> QED BY <1>2, <1>3, <1>4, <1>5, <1>6 DEF Gathers

\* What the API's actions leave alone, and the workers' actions.
LEMMA WhoTells ==
  ASSUME ServiceInv, [ServiceNext]_serviceVars
  PROVE  AnswersTyped'
<1>h. AnswersTyped
  BY DEF ServiceInv
<1>1. ASSUME NEW c \in Commands, Accept(c)
      PROVE  AnswersTyped'
  BY <1>h, <1>1 DEF AnswersTyped, Accept, Api!CreateCommand, Api!Watch
<1>2. ASSUME NEW c \in Commands, Report(c)
      PROVE  AnswersTyped'
  BY <1>h, <1>2 DEF AnswersTyped, Report, Api!GetCommand
<1>3. ASSUME NEW l \in Conns, Api!ListNext(l)
      PROVE  AnswersTyped'
  <2>0. PICK from \in {"active", "pending", "completed", "archived"} :
          \E P : Gathers(l, from, P)
    BY <1>h, <1>3, ListReads
  <2>1. PICK P : Gathers(l, from, P)
    BY <2>0
  <2> DEFINE Entries == [id : Commands, list : Api!States, status : Api!Statuses]
  <2>2. \A c \in P : [id |-> c, list |-> from,
                     status |-> Api!TaskToStatus(c, Api!StateToStatus(from))] \in Entries
    BY <2>1, StatusType DEF Gathers, Api!States
  <2>3. page' \in [Conns -> SUBSET Entries]
    BY <1>h, <2>1, <2>2 DEF AnswersTyped, Gathers
  <2>4. told' \in [Commands -> SUBSET (Api!Statuses \cup {"404"})]
    BY <1>h, <2>1, <2>3 DEF AnswersTyped, Gathers
  <2> QED BY <2>1, <2>3, <2>4 DEF AnswersTyped, Gathers
<1>4. ASSUME NEW l \in Conns, Api!CallEnds(l)
      PROVE  AnswersTyped'
  BY <1>h, <1>4 DEF AnswersTyped, Api!CallEnds
<1>5. CASE Work
  BY <1>h, <1>5 DEF AnswersTyped, Work, Api!Watch
<1>6. CASE UNCHANGED serviceVars
  BY <1>h, <1>6 DEF AnswersTyped, serviceVars, apiVars
<1> QED BY <1>1, <1>2, <1>3, <1>4, <1>5, <1>6 DEF ServiceNext, List

LEMMA ServiceInvInit == ServiceInit => ServiceInv
<1> SUFFICES ASSUME ServiceInit
             PROVE  ServiceInv
  OBVIOUS
<1>1. AnswersTyped
  BY DEF ServiceInit, Api!ApiInit, AnswersTyped
<1> QED BY <1>1, WorkerInvInit DEF ServiceInit, ServiceInv

LEMMA ServiceInvStep == ServiceInv /\ [ServiceNext]_serviceVars => ServiceInv'
BY WhoTells, ServiceStep, WorkerInvStep DEF ServiceInv

\* A command that is reported now is stored; what is stored stays so.
LEMMA ReportedStep ==
  ASSUME AtomicPut, ReportedInv, [ServiceNext]_serviceVars
  PROVE  ReportedInv'
<1>1. StoredInv' /\ ServiceInv'
  BY ServiceStep, StoredStep, ServiceInvStep DEF ReportedInv
<1>2. ASSUME NEW c \in Commands, stored[c] = Outputs
      PROVE  stored'[c] = Outputs
  <2>1. stored[c] \subseteq stored'[c]
    BY ServiceStep, StoredGrows DEF ReportedInv, ServiceInv
  <2>2. stored'[c] \subseteq Outputs
    BY <1>1 DEF ServiceInv, WorkerInv, HandlerTypeOK
  <2> QED BY <1>2, <2>1, <2>2
<1>h. AnswersTyped /\ PageIsStored /\ \A c \in Commands : "SUCCESS" \in told[c] => stored[c] = Outputs
  BY DEF ReportedInv, ServiceInv, ReportedIsStored
<1>s. \A c \in Commands : state[c] = "completed" => stored[c] = Outputs
  BY DEF ReportedInv, StoredInv, SuccessIsStored
<1> DEFINE ToldIsStored == \A c \in Commands : "SUCCESS" \in told[c] => stored[c] = Outputs
<1>3. CASE UNCHANGED <<told, page>>
  <2>1. ToldIsStored'
    BY <1>h, <1>2, <1>3
  <2>2. PageIsStored'
    BY <1>h, <1>2, <1>3 DEF PageIsStored, AnswersTyped
  <2> QED BY <1>1, <2>1, <2>2 DEF ReportedInv, ReportedIsStored, StoredInv
<1>4. ASSUME NEW c \in Commands, Report(c)
      PROVE  ReportedInv'
  <2>1. PICK answer \in Api!Statuses \cup {"404"} : Api!GetCommand(c, answer)
    BY <1>4 DEF Report
  <2>2. answer = "SUCCESS" => stored[c] = Outputs
    BY <1>s, <2>1, SuccessIsCompleted DEF Api!GetCommand
  <2>3. told' = [told EXCEPT ![c] = @ \cup {answer}] /\ UNCHANGED page
    BY <2>1 DEF Api!GetCommand
  <2>4. ToldIsStored'
    BY <1>h, <1>2, <2>2, <2>3 DEF AnswersTyped
  <2>5. PageIsStored'
    BY <1>h, <1>2, <2>3 DEF PageIsStored, AnswersTyped
  <2> QED BY <1>1, <2>4, <2>5 DEF ReportedInv, ReportedIsStored, StoredInv
<1>5. ASSUME NEW l \in Conns, Api!ListNext(l)
      PROVE  ReportedInv'
  <2>0. PICK from \in {"active", "pending", "completed", "archived"} :
          \E P : Gathers(l, from, P)
    BY <1>h, <1>5, ListReads
  <2>1. PICK P : Gathers(l, from, P)
    BY <2>0
  <2>2. \A c \in P : Api!TaskToStatus(c, Api!StateToStatus(from)) = "SUCCESS"
                     => stored[c] = Outputs
    BY <1>s, <2>1, SuccessIsCompleted DEF Gathers
  <2>3. \A k \in Conns : \A e \in page'[k] :
          e.status = "SUCCESS" => e.id \in Commands /\ stored[e.id] = Outputs
    BY <1>h, <2>1, <2>2 DEF PageIsStored, AnswersTyped, Gathers
  <2>4. PageIsStored'
    BY <1>2, <2>3 DEF PageIsStored
  <2>5. ToldIsStored'
    BY <1>h, <1>2, <2>1, <2>3 DEF AnswersTyped, Gathers
  <2> QED BY <1>1, <2>4, <2>5 DEF ReportedInv, ReportedIsStored, StoredInv
<1>6. ASSUME NEW l \in Conns, Api!CallEnds(l)
      PROVE  ReportedInv'
  <2>1. UNCHANGED told /\ page' = [page EXCEPT ![l] = {}]
    BY <1>6 DEF Api!CallEnds
  <2>2. ToldIsStored'
    BY <1>h, <1>2, <2>1
  <2>3. PageIsStored'
    BY <1>h, <1>2, <2>1 DEF PageIsStored, AnswersTyped
  <2> QED BY <1>1, <2>2, <2>3 DEF ReportedInv, ReportedIsStored, StoredInv
<1>7. \/ UNCHANGED <<told, page>>
      \/ \E c \in Commands : Report(c)
      \/ \E l \in Conns : Api!ListNext(l) \/ Api!CallEnds(l)
  BY DEF ServiceNext, Accept, Api!CreateCommand, List, Work, serviceVars, apiVars
<1> QED BY <1>3, <1>4, <1>5, <1>6, <1>7

(***************************************************************************)
(* With every adapter but "file", SUCCESS in an answer of the API (from    *)
(* taskToStatus, api/main.go:220-228, on its way through a list that is    *)
(* read while commands move), in a notification or in Redis is true, then  *)
(* and ever after.                                                         *)
(***************************************************************************)
THEOREM ReportedCorrect == Adapter # "file" => (ServiceSpec => []ReportedIsStored)
<1> SUFFICES ASSUME Adapter # "file"
             PROVE  ServiceSpec => []ReportedIsStored
  OBVIOUS
<1>1. ServiceInit => ReportedInv
  <2> SUFFICES ASSUME ServiceInit
               PROVE  ReportedInv
    OBVIOUS
  <2>1. StoredInv /\ ServiceInv
    BY StoredInvInit, ServiceInvInit DEF ServiceInit
  <2>2. PageIsStored /\ ReportedIsStored
    BY <2>1 DEF ServiceInit, Api!ApiInit, PageIsStored, ReportedIsStored, StoredInv
  <2> QED BY <2>1, <2>2 DEF ReportedInv
<1>2. ReportedInv /\ [ServiceNext]_serviceVars => ReportedInv'
  BY ReportedStep DEF AtomicPut
<1>3. ReportedInv => ReportedIsStored
  BY DEF ReportedInv
<1> QED BY <1>1, <1>2, <1>3, PTL DEF ServiceSpec

(***************************************************************************)
(* Seen from the API, every step of the workers is one of the queue's      *)
(* operations on one command, the end of some leases, or nothing.          *)
(***************************************************************************)
LEMMA WatchNothing ==
  ASSUME AnswersTyped, Work, UNCHANGED state
  PROVE  UNCHANGED apiVars
<1>1. \A l \in Conns : {c \in steady[l] : state'[c] = state[c]} = steady[l]
  OBVIOUS
<1>2. steady' = steady
  BY <1>1 DEF AnswersTyped, Work, Api!Watch
<1> QED BY <1>2 DEF Work, apiVars

LEMMA LeasesLost ==
  ASSUME ServiceInv, Work, NEW lost \in SUBSET Commands,
         holder' = [c \in Commands |-> IF c \in lost THEN NoRun ELSE holder[c]],
         UNCHANGED <<state, retried, lastErr, dispatched, spared>>
  PROVE  Api!ApiNext
<1>1. UNCHANGED apiVars
  BY WatchNothing DEF ServiceInv
<1>2. Api!LeasesEnd(lost)
  BY <1>1 DEF Api!LeasesEnd, apiVars
<1> QED BY <1>2 DEF Api!ApiNext

LEMMA QueueSteps ==
  ASSUME Work, NEW c \in Commands, NEW r \in Runs,
         \/ Srv!Forward(c) \/ Srv!Expire(c) \/ Srv!Recover(c)
         \/ Srv!Dequeue(c, r) \/ Srv!Complete(c, r) \/ Srv!Requeue(c, r)
         \/ \E e \in JobErrors \cup {"deadline_exceeded"} : Srv!Fail(c, r, e)
  PROVE  Api!ApiNext
<1>1. Api!WorkerStep(c)
  BY SameOperations DEF Work, Api!WorkerStep
<1> QED BY <1>1 DEF Api!ApiNext

LEMMA WorkImplementsApi ==
  ASSUME ServiceInv, Work
  PROVE  [Api!ApiNext]_(Api!vars)
<1>h. /\ Thm!LeaseInv
      /\ holder \in [Commands -> Runs \cup {NoRun}]
      /\ outcome \in [Runs -> JobErrors \cup {Srv!NoError}]
      /\ supervised \subseteq Runs
      /\ \A r \in supervised : task[r] \in Commands
  BY DEF ServiceInv, WorkerInv, Thm!LeaseInv, Thm!ServerTypeOK, Thm!QueueTypeOK,
         Thm!SupervisedWork
<1>1. ASSUME UNCHANGED queueVars
      PROVE  UNCHANGED Api!vars
  <2>1. UNCHANGED apiVars
    BY <1>1, WatchNothing DEF ServiceInv, queueVars
  <2> QED BY <1>1, <2>1 DEF queueVars, apiVars
<1>2. ASSUME NEW c \in Commands, Consume(c)
      PROVE  Api!ApiNext
  <2>1. CASE Srv!LeaseLapses(c)
    <3>1. holder' = [d \in Commands |-> IF d \in {c} THEN NoRun ELSE holder[d]]
      BY <1>h, <2>1 DEF Srv!LeaseLapses, Srv!LoseLease
    <3> QED BY <2>1, <3>1, LeasesLost DEF Srv!LeaseLapses, Srv!LoseLease
  <2>2. CASE Srv!Promote(c) \/ Srv!Forget(c) \/ Srv!RecoverTask(c)
    <3>1. Api!WorkerStep(c)
      BY <2>2, SameOperations
         DEF Srv!Promote, Srv!Forget, Srv!RecoverTask, Work, Api!WorkerStep
    <3> QED BY <3>1 DEF Api!ApiNext
  <2> QED BY <1>2, <2>1, <2>2 DEF Consume
<1>3. ASSUME NEW w \in Workers, NEW c \in Commands, NEW r \in Runs, Start(w, c, r)
      PROVE  Api!ApiNext
  BY <1>3, QueueSteps DEF Start, Srv!Pick
<1>4. ASSUME NEW r \in Runs, Handler(r)
      PROVE  UNCHANGED queueVars
  BY <1>4, HandlerStep DEF Srv!Return, queueVars
<1>5. ASSUME NEW r \in Runs, Process(r)
      PROVE  Api!ApiNext \/ UNCHANGED queueVars
  <2>1. CASE Srv!Deadline(r) \/ Srv!DropStale(r)
    BY <2>1 DEF Srv!Deadline, Srv!DropStale, queueVars
  <2>2. CASE Srv!SettleSuccess(r) \/ Srv!Abort(r)
    BY <1>h, <2>2, QueueSteps DEF Srv!SettleSuccess, Srv!Abort
  <2>3. CASE Srv!SettleFailure(r) \/ Srv!SettleDeadline(r)
    BY <1>h, <2>3, QueueSteps DEF Srv!SettleFailure, Srv!SettleDeadline
  <2> QED BY <1>5, <2>1, <2>2, <2>3 DEF Process, Srv!Settle
<1>6. ASSUME NEW w \in Workers, Stop(w)
      PROVE  UNCHANGED queueVars
  BY <1>6 DEF Stop, Srv!Stop, queueVars
<1>7. ASSUME NEW w \in Workers, Crash(w)
      PROVE  Api!ApiNext
  <2> DEFINE gone == {r \in Runs : host[r] = w}
             lost == {c \in Commands : holder[c] \in gone}
  <2>1. holder' = [c \in Commands |-> IF c \in lost THEN NoRun ELSE holder[c]]
    BY <1>7 DEF Crash, Srv!Crash
  <2> HIDE DEF lost
  <2>2. lost \in SUBSET Commands
    BY DEF lost
  <2> QED BY <1>7, <2>1, <2>2, LeasesLost DEF Crash, Srv!Crash
<1> QED BY <1>1, <1>2, <1>3, <1>4, <1>5, <1>6, <1>7 DEF Work

LEMMA ServiceStepOfApi ==
  ASSUME ServiceInv, [ServiceNext]_serviceVars
  PROVE  [Api!ApiNext]_(Api!vars)
<1>1. ASSUME NEW c \in Commands, Accept(c) \/ Report(c)
      PROVE  Api!ApiNext
  BY <1>1 DEF Accept, Report, Api!ApiNext
<1>2. ASSUME NEW l \in Conns, List(l)
      PROVE  Api!ApiNext
  BY <1>2 DEF List, Api!ApiNext
<1>3. CASE UNCHANGED serviceVars
  BY <1>3 DEF serviceVars, vars, queueVars, apiVars
<1> QED BY <1>1, <1>2, <1>3, WorkImplementsApi DEF ServiceNext

(***************************************************************************)
(* The API in front of these workers is the API in front of arbitrary      *)
(* ones, so what is proved of CommandApi holds of the service: a status    *)
(* SUCCESS is final, an accepted command is found, and lists are right     *)
(* (api/main.go:55-228 with worker/main.go:104-127).                       *)
(***************************************************************************)
THEOREM ServiceImplementsApi == ServiceSpec => ImplementsApi
<1>1. ServiceInit => Api!ApiInit
  BY DEF ServiceInit
<1> QED
  BY <1>1, ServiceInvInit, ServiceInvStep, ServiceStepOfApi, PTL
  DEF ServiceSpec, ImplementsApi, Api!ApiSpec

=============================================================================
