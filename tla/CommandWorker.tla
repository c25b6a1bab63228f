---------------------------- MODULE CommandWorker ----------------------------
(***************************************************************************)
(* The FFmpeg worker (worker/main.go): handleFFmpegCommand run by asynq    *)
(* servers on the queue "ffmpeg", with everything its runs share: one job  *)
(* directory per worker and command, the storage behind the adapter, the   *)
(* notifications put on the queue "webhooks" and the result field of the   *)
(* task.                                                                   *)
(*                                                                         *)
(* FFmpeg may or may not create the declared outputs; the payload is what  *)
(* the API marshalled, so it always unmarshals.  Of a file in a job        *)
(* directory the model knows that it exists, as the code does (line 243):  *)
(* an output may be the work of an earlier run that crashed, or of another *)
(* one that is still at it.                                                *)
(***************************************************************************)
EXTENDS Naturals, FiniteSets

CONSTANTS
  Commands,       \* command ids, which are the task ids
  Workers,        \* worker processes, each with its own WORK_DIR
  Runs,           \* runs of handleFFmpegCommand
  NoCommand, NoWorker, NoRun, NoOutput,
  MaxRetry,       \* TASK_MAX_RETRY, set by the API on every task
  Concurrency,    \* CONCURRENCY
  Inputs,         \* the keys of input_files
  Outputs,        \* the keys of output_files
  Hooked,         \* commands submitted with a webhook
  Adapter,        \* STORAGE_ADAPTER
  ResourceCheck,  \* RESOURCE_CHECK_ENABLED
  BrokerFaults,   \* whether the worker's own writes to Redis may fail
  MaxSpared       \* BOUND: free dispatches per command

ASSUME WorkerAssumption ==
  /\ NoRun \notin Runs /\ NoWorker \notin Workers /\ NoCommand \notin Commands
  /\ MaxRetry \in Nat /\ MaxSpared \in Nat /\ Concurrency \in Nat \ {0}
  /\ Outputs # {}
  /\ NoOutput \notin Outputs
  /\ Inputs \cap Outputs = {}
  /\ "dir" \notin Inputs \cup Outputs
  /\ Hooked \subseteq Commands
  /\ Adapter \in {"file", "bunny_storage", "bunny_stream", "s3"}
  /\ ResourceCheck \in BOOLEAN
  /\ BrokerFaults \in BOOLEAN

VARIABLES
  state, retried, lastErr, holder, dispatched, spared,         \* the queue
  task, host, phase, outcome, supervised, ctxDone, stopping,   \* the servers
  step,    \* where a run is in the handler, "off" if not in it
  fetched, \* inputPaths: the inputs a run has downloaded
  saved,   \* outputFiles: the outputs a run has uploaded
  target,  \* the output a run is uploading
  files,   \* what a command's job directory holds on each worker
  stored,  \* outputs of a command that are intact in the storage
  hooks,   \* SUCCESS notifications enqueued for a command
  result   \* whether the task's result field is written

queueVars   == <<state, retried, lastErr, holder, dispatched, spared>>
procVars    == <<task, host, phase, outcome, supervised, ctxDone, stopping>>
handlerVars == <<step, fetched, saved, target, files, stored, hooks, result>>
vars        == <<queueVars, procVars, handlerVars>>

(***************************************************************************)
(* What the handler returns.  An error is the kind of its text.  The text  *)
(* of a failed FFmpeg run ends with FFmpeg's own output (line 231), which  *)
(* prints file names and metadata; that of a file that was not downloaded, *)
(* created or uploaded names the key the client chose and says what some   *)
(* server answered (lines 162, 245, 254): both may contain any words.      *)
(***************************************************************************)
FileErrors   == {"file", "file_resource_limit"}
FFmpegErrors == {"ffmpeg", "ffmpeg_resource_limit"}
JobErrors    == {"resource_limit", "cancelled"} \cup FileErrors \cup FFmpegErrors

\* IsFailure: strings.Contains(err.Error(), "resource limit")
MentionsResourceLimit ==
  {"resource_limit", "file_resource_limit", "ffmpeg_resource_limit"}

Srv == INSTANCE TaskServer
         WITH Tasks <- Commands, Servers <- Workers, NoTask <- NoCommand,
              NoServer <- NoWorker, HandlerErrors <- JobErrors,
              Uncounted <- MentionsResourceLimit

Steps == {"off", "gate", "download", "encode", "upload", "copy", "finish"}

\* The file adapter copies without looking at the context, and os.Create
\* truncates what an earlier run stored; the others make one HTTP request.
HonoursCtx == Adapter # "file"
AtomicPut  == Adapter # "file"

Dir(r)       == files[host[r]][task[r]]
SetDir(r, S) == files' = [files EXCEPT ![host[r]][task[r]] = S]
At(r, s)     == step[r] = s
Goto(r, s)   == step' = [step EXCEPT ![r] = s]

Init ==
  /\ Srv!ServerInit
  /\ step    = [r \in Runs |-> "off"]
  /\ fetched = [r \in Runs |-> {}]
  /\ saved   = [r \in Runs |-> {}]
  /\ target  = [r \in Runs |-> NoOutput]
  /\ files   = [w \in Workers |-> [c \in Commands |-> {}]]
  /\ stored  = [c \in Commands |-> {}]
  /\ hooks   = [c \in Commands |-> 0]
  /\ result  = [c \in Commands |-> FALSE]

\* The handler's frame is gone; e is on its way to the processor.
Leave(r, e) ==
  /\ Srv!Return(r, e)
  /\ Goto(r, "off")
  /\ fetched' = [fetched EXCEPT ![r] = {}]
  /\ saved'   = [saved EXCEPT ![r] = {}]
  /\ target'  = [target EXCEPT ![r] = NoOutput]

\* return fmt.Errorf(...) below the deferred os.RemoveAll(jobDir)
Abandon(r, e) ==
  /\ Leave(r, e)
  /\ SetDir(r, {})
  /\ UNCHANGED <<stored, hooks, result>>

(***************************************************************************)
(* handleFFmpegCommand.                                                    *)
(***************************************************************************)
\* Mutant: a command that was tried before is passed over.
StartFirstTime(w, c, r) ==
  /\ dispatched[c] = 0
  /\ Srv!Pick(w, c, r)
  /\ Goto(r, "gate")
  /\ UNCHANGED <<fetched, saved, target, files, stored, hooks, result>>

Start(w, c, r) ==
  /\ Srv!Pick(w, c, r)
  /\ Goto(r, "gate")
  /\ UNCHANGED <<fetched, saved, target, files, stored, hooks, result>>

\* Mutant: the handler puts the task back itself.
DelayJobItself(r) ==
  /\ At(r, "gate")
  /\ ResourceCheck
  /\ Srv!Requeue(task[r], r)
  /\ Goto(r, "off")
  /\ UNCHANGED <<procVars, fetched, saved, target, files, stored, hooks, result>>

\* Too little memory: return before anything was created.
DelayJob(r) ==
  /\ At(r, "gate")
  /\ ResourceCheck
  /\ Leave(r, "resource_limit")
  /\ UNCHANGED <<files, stored, hooks, result>>

\* Mutant: every run starts with an empty directory.
BeginJobClean(r) ==
  /\ At(r, "gate")
  /\ SetDir(r, {"dir"})
  /\ Goto(r, "download")
  /\ UNCHANGED <<queueVars, procVars, fetched, saved, target, stored, hooks, result>>

BeginJob(r) ==
  /\ At(r, "gate")
  /\ SetDir(r, Dir(r) \cup {"dir"})
  /\ Goto(r, "download")
  /\ UNCHANGED <<queueVars, procVars, fetched, saved, target, stored, hooks, result>>

\* downloadFile for one input; nothing is created where no directory is.
Download(r, i) ==
  /\ At(r, "download")
  /\ i \in Inputs \ fetched[r]
  /\ r \notin ctxDone
  /\ "dir" \in Dir(r)
  /\ SetDir(r, Dir(r) \cup {i})
  /\ fetched' = [fetched EXCEPT ![r] = @ \cup {i}]
  /\ UNCHANGED <<queueVars, procVars, step, saved, target, stored, hooks, result>>

DownloadFails(r) ==
  /\ At(r, "download")
  /\ \/ fetched[r] # Inputs /\ \E e \in FileErrors : Abandon(r, e)
     \/ fetched[r] = Inputs /\ r \in ctxDone /\ Abandon(r, "cancelled")

StartEncoding(r) ==
  /\ At(r, "download")
  /\ fetched[r] = Inputs
  /\ r \notin ctxDone
  /\ Goto(r, "encode")
  /\ UNCHANGED <<queueVars, procVars, fetched, saved, target, files, stored, hooks, result>>

\* FFmpeg creates an output file, long before it is complete.
Produce(r, o) ==
  /\ At(r, "encode")
  /\ "dir" \in Dir(r)
  /\ SetDir(r, Dir(r) \cup {o})
  /\ UNCHANGED <<queueVars, procVars, step, fetched, saved, target, stored, hooks, result>>

\* The last command has exited 0, whatever it has created.
Encode(r) ==
  /\ At(r, "encode")
  /\ r \notin ctxDone
  /\ Goto(r, "upload")
  /\ UNCHANGED <<queueVars, procVars, fetched, saved, target, files, stored, hooks, result>>

EncodeFails(r) ==
  /\ At(r, "encode")
  /\ IF r \in ctxDone
     THEN Abandon(r, "cancelled")
     ELSE \E e \in FFmpegErrors : Abandon(r, e)

\* Mutant: whatever is in the directory is uploaded.
OpenUploadAny(r, o) ==
  /\ At(r, "upload")
  /\ \E f \in Dir(r) \ saved[r] : target' = [target EXCEPT ![r] = f]
  /\ Goto(r, "copy")
  /\ UNCHANGED <<queueVars, procVars, fetched, saved, files, stored, hooks, result>>

\* os.Stat succeeded and Upload has opened the local file and, with the
\* file adapter, created (truncated) the destination.
OpenUpload(r, o) ==
  /\ At(r, "upload")
  /\ o \in Dir(r) \cap (Outputs \ saved[r])
  /\ target'  = [target EXCEPT ![r] = o]
  /\ stored' = IF AtomicPut THEN stored
               ELSE [stored EXCEPT ![task[r]] = @ \ {o}]
  /\ Goto(r, "copy")
  /\ UNCHANGED <<queueVars, procVars, fetched, saved, files, hooks, result>>

FinishUpload(r) ==
  /\ At(r, "copy")
  /\ HonoursCtx => r \notin ctxDone
  /\ stored'  = [stored EXCEPT ![task[r]] = @ \cup {target[r]}]
  /\ saved'   = [saved EXCEPT ![r] = @ \cup {target[r]}]
  /\ target'  = [target EXCEPT ![r] = NoOutput]
  /\ Goto(r, "upload")
  /\ UNCHANGED <<queueVars, procVars, fetched, files, hooks, result>>

MissingOutput(r) ==
  /\ At(r, "upload")
  /\ ~ (Outputs \ saved[r] \subseteq Dir(r))
  /\ \E e \in FileErrors : Abandon(r, e)

\* The local file cannot be opened or the destination not be created, or the
\* transfer fails; an object the request did put may stay although the
\* answer was lost.
UploadFails(r) ==
  /\ \/ At(r, "upload") /\ saved[r] # Outputs /\ UNCHANGED stored
     \/ /\ At(r, "copy")
        /\ \/ UNCHANGED stored
           \/ AtomicPut /\ stored' = [stored EXCEPT ![task[r]] = @ \cup {target[r]}]
  /\ \E e \in FileErrors : Leave(r, e)
  /\ SetDir(r, {})
  /\ UNCHANGED <<hooks, result>>

\* Mutants: the enqueueing obeys the context; the notification is sent again.
NotifyInContext(r) ==
  /\ At(r, "upload")
  /\ saved[r] = Outputs
  /\ IF r \in ctxDone THEN UNCHANGED hooks
                      ELSE hooks' = [hooks EXCEPT ![task[r]] = @ + 1]
  /\ Goto(r, "finish")
  /\ UNCHANGED <<queueVars, procVars, fetched, saved, target, files, stored, result>>

NotifyAgain(r) ==
  /\ At(r, "upload")
  /\ saved[r] = Outputs
  /\ hooks' = [hooks EXCEPT ![task[r]] = @ + 1]
  /\ step' \in {step, [step EXCEPT ![r] = "finish"]}
  /\ UNCHANGED <<queueVars, procVars, fetched, saved, target, files, stored, result>>

\* enqueueWebhook: an error is logged and dropped.
Notify(r) ==
  /\ At(r, "upload")
  /\ saved[r] = Outputs
  /\ \/ task[r] \in Hooked /\ hooks' = [hooks EXCEPT ![task[r]] = @ + 1]
     \/ (task[r] \in Hooked => BrokerFaults) /\ UNCHANGED hooks
  /\ Goto(r, "finish")
  /\ UNCHANGED <<queueVars, procVars, fetched, saved, target, files, stored, result>>

\* ResultWriter.Write refuses when the context is done; its error is dropped.
FinishJob(r) ==
  /\ At(r, "finish")
  /\ \/ r \notin ctxDone /\ result' = [result EXCEPT ![task[r]] = TRUE]
     \/ (r \in ctxDone \/ BrokerFaults) /\ UNCHANGED result
  /\ Leave(r, Srv!NoError)
  /\ SetDir(r, {})
  /\ UNCHANGED <<stored, hooks>>

Handler(r) ==
  \/ DelayJob(r) \/ BeginJob(r)
  \/ \E i \in Inputs : Download(r, i)
  \/ DownloadFails(r) \/ StartEncoding(r)
  \/ Encode(r) \/ EncodeFails(r)
  \/ \E o \in Outputs : Produce(r, o) \/ OpenUpload(r, o)
  \/ FinishUpload(r) \/ MissingOutput(r) \/ UploadFails(r)
  \/ Notify(r) \/ FinishJob(r)

(***************************************************************************)
(* The library around it.                                                  *)
(***************************************************************************)
Queue(c) ==
  /\ \/ Srv!Submit(c) \/ Srv!Promote(c) \/ Srv!Forget(c)
     \/ Srv!RecoverTask(c) \/ Srv!LeaseLapses(c)
  /\ UNCHANGED handlerVars

Process(r) ==
  /\ Srv!Deadline(r) \/ Srv!Settle(r) \/ Srv!Abort(r)
  /\ UNCHANGED handlerVars

Stop(w) == Srv!Stop(w) /\ UNCHANGED handlerVars

\* The runs are gone without their deferred calls.  A container that is
\* created anew has lost its WORK_DIR, one that is restarted has not.
Crash(w) ==
  /\ Srv!Crash(w)
  /\ step'    = [r \in Runs |-> IF host[r] = w THEN "off" ELSE step[r]]
  /\ fetched' = [r \in Runs |-> IF host[r] = w THEN {} ELSE fetched[r]]
  /\ saved'   = [r \in Runs |-> IF host[r] = w THEN {} ELSE saved[r]]
  /\ target'  = [r \in Runs |-> IF host[r] = w THEN NoOutput ELSE target[r]]
  /\ \/ files' = [files EXCEPT ![w] = [c \in Commands |-> {}]]
     \/ UNCHANGED files
  /\ UNCHANGED <<stored, hooks, result>>

Next ==
  \/ \E c \in Commands : Queue(c)
  \/ \E w \in Workers, c \in Commands, r \in Runs : Start(w, c, r)
  \/ \E r \in Runs : Handler(r) \/ Process(r)
  \/ \E w \in Workers : Stop(w) \/ Crash(w)

Spec == Init /\ [][Next]_vars

\* The fairness of TaskServer: none for the handler.
Fairness ==
  /\ \A c \in Commands :
       /\ WF_vars(Srv!Promote(c) /\ UNCHANGED handlerVars)
       /\ WF_vars(Srv!RecoverTask(c) /\ UNCHANGED handlerVars)
       /\ SF_vars(\E w \in Workers, r \in Runs : Start(w, c, r))
  /\ \A r \in Runs :
       /\ WF_vars(Srv!Deadline(r) /\ UNCHANGED handlerVars)
       /\ WF_vars(Srv!Settle(r) /\ UNCHANGED handlerVars)
  /\ \A w \in Workers : WF_vars(w \in stopping /\ Crash(w))

FairSpec == Spec /\ Fairness

-----------------------------------------------------------------------------
Files == {"dir"} \cup Inputs \cup Outputs

\* The shape of the state.
TypeOK ==
  /\ Srv!ServerTypeOK
  /\ step    \in [Runs -> Steps]
  /\ fetched \in [Runs -> SUBSET Inputs]
  /\ saved   \in [Runs -> SUBSET Outputs]
  /\ target  \in [Runs -> Outputs \cup {NoOutput}]
  /\ files   \in [Workers -> [Commands -> SUBSET Files]]
  /\ stored  \in [Commands -> SUBSET Outputs]
  /\ hooks   \in [Commands -> Nat]
  /\ result  \in [Commands -> BOOLEAN]

(***************************************************************************)
(* Wherever the worker reports success, every declared output is in the    *)
(* storage: in a completed task, in a written result and in a SUCCESS      *)
(* notification, and late, failed and crashed runs of the command do not   *)
(* undo it.  In the storage is what a job directory held under the name of *)
(* the output (main.go:243-252), once a copy of it was complete.           *)
(***************************************************************************)
SuccessIsStored ==
  \A c \in Commands :
    state[c] = "completed" \/ result[c] \/ hooks[c] > 0 => stored[c] = Outputs

(***************************************************************************)
(* README.md:170: a webhook gets the results when the command is complete. *)
(* A completed command with a webhook has its notification in the queue.   *)
(* enqueueWebhook comes before the task is settled, so no crash, deadline  *)
(* or lapsed lease can lose it; a fault of the broker can.                 *)
(***************************************************************************)
CompletedIsNotified ==
  \A c \in Hooked : state[c] = "completed" => hooks[c] > 0

(***************************************************************************)
(* A dispatch notifies at most once, so a receiver sees no more SUCCESS    *)
(* notifications than the command had dispatches; with DispatchesAccounted *)
(* that is TASK_MAX_RETRY + 1 and the free ones.                           *)
(***************************************************************************)
NotifiedOncePerDispatch ==
  \A c \in Commands :
    hooks[c] + Cardinality({r \in Runs : task[r] = c /\ step[r] \notin {"off", "finish"}})
      <= dispatched[c]

(***************************************************************************)
(* The only thing that takes a file of a supervised run away, be it an     *)
(* input, an output or the directory, is another run of the same command   *)
(* on the same worker that is leaving: the job directory is shared by the  *)
(* runs of a command (main.go:145-147), and by nothing else.               *)
(***************************************************************************)
FilesLostOnlyToOverlap ==
  [][\A r \in supervised :
       /\ step[r] \notin {"off", "gate"} /\ step'[r] # "off"
       /\ ~ (Dir(r) \subseteq files'[host[r]][task[r]])
       => \E q \in Runs \ {r} :
            /\ task[q] = task[r] /\ host[q] = host[r]
            /\ step[q] \notin {"off", "gate"} /\ step'[q] = "off"]_vars

\* The worker implements the servers: what holds of every handler holds of it.
ImplementsServer == Srv!ServerSpec

(***************************************************************************)
(* Every submitted command ends in SUCCESS or FAILED, even if FFmpeg, a    *)
(* download or an upload hangs for ever.                                   *)
(***************************************************************************)
EveryCommandFinishes ==
  \A c \in Commands : (state[c] = "pending") ~> (state[c] \in Srv!Terminal)

(***************************************************************************)
(* README.md:242: TASK_MAX_RETRY bounds the retries of FFmpeg tasks that   *)
(* failed, so a failure of FFmpeg is counted whatever FFmpeg printed.      *)
(***************************************************************************)
FFmpegFailureIsCounted ==
  [][\A c \in Commands :
       /\ state[c] = "active" /\ state'[c] = "retry"
       /\ lastErr'[c] \in FFmpegErrors
       => retried'[c] = retried[c] + 1]_vars

=============================================================================
