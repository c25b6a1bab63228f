# Verification of burrowcode

TLA+ models of burrowcode, a service that runs FFmpeg commands from an HTTP API:
what a client is told, what a worker does to the storage, and what is delivered
to a webhook, under crashes, deadlines, lapsed leases, retries and overlapping
runs. TLC checks the models on small instances; TLAPS proves their
safety properties for every instance.

## 1. The system

| Part | Source | State it keeps | Operations |
|---|---|---|---|
| HTTP API | `src/api/main.go` | none of its own; reads and writes the queue `ffmpeg` | `CreateCommand`, `GetCommand`, `ListCommands`, `HealthCheck` |
| Task queue | asynq v0.25.1 on Redis (library) | the tasks, their states, retries, last error, result, leases | enqueue, dequeue, complete, retry, archive, requeue, recover, forward, expire |
| Task server | `asynq.Server`, used in `src/worker/main.go:104-126` and `src/webhooks/main.go:42-56` | slots, running handlers, contexts | pick, settle, abort, stop |
| FFmpeg worker | `src/worker/main.go` | a job directory per command under `WORK_DIR`; output files in the storage; the result field of the task | `handleFFmpegCommand` and its helpers |
| Storage adapters | `src/worker/adapters/` | files, or objects behind HTTP | `NewAdapter`, `Upload` |
| FFmpeg runner | `src/worker/system/progress.go`, `src/worker/main.go:206-225` | a process, two pipes, three goroutines | `Run`, `parseProgress`, `CombinedOutput` |
| Memory gate | `src/worker/system/resources.go` | none; reads the machine's | `GetResourceStatus`, `CheckResourcesAvailable` |
| Hardware detection | `src/worker/system/hardware.go` | one global, written once at start | `DetectHardware` |
| Configuration | `src/worker/config/config.go` | one record, read once at start | `Load` |
| Webhook service | `src/webhooks/main.go` | none of its own | `handleWebhookDeliver` |
| Generated HTTP layer | `src/api/oas/` | none | client, router, decoders, validators, encoders |

How they interact: the API enqueues a command on the queue `ffmpeg` with
`MaxRetry`, `Timeout` and `Retention`. A worker dequeues it, checks memory, downloads
the inputs into `WORK_DIR/<task id>`, runs FFmpeg, uploads each output, enqueues a
notification on the queue `webhooks`, writes the result field and returns. The
processor of asynq then settles the task. A webhook process dequeues the
notification and POSTs it. The API reads the task through the inspector. All
parts share nothing but Redis, the storage and, between runs on one worker, the
file system.

What is hard here:

* **Overlapping runs of one command.** The processor cannot stop a handler. After
  the deadline or the loss of a lease the task goes to a retry while the old
  handler is still copying or waiting for ffprobe. Both runs use the same job
  directory and the same destination.
* **Crashes.** No deferred call runs, the directory stays, and the recoverer puts
  the task back once the lease has lapsed.
* **Order of effects.** Uploads, the notification, the result and the settlement
  are four writes to three systems, and a run can end between any two.
* **Errors told apart by text.** `IsFailure` looks for two words.
* **Non-atomic reads.** `ListCommands` reads four lists that commands move between.
* **Rewriting text before parsing it**, in the random order of Go maps.
* **Pipes between goroutines.** FFmpeg's output passes a kernel pipe, a goroutine of
  `os/exec`, an `io.Pipe` without a buffer and a scanner with a limit; each of
  them may stop the one before it.
* **Checking before allocating.** Jobs pass the memory gate before they use memory.
* **Requests whose answer is lost.** A PUT that was given up may still be carried out.
* **Five encodings of one request**: client, server, payload, worker, echo.

What makes each part correct:

* queue and servers: one valid lease per task; every dispatch is paid for; a
  finished task stays finished; a task is dead-lettered only when its budget is used
  up; at most `CONCURRENCY` runs with a good context; every task is finished;
* worker: no report of success without the outputs in the storage; a completed
  command is notified; no more notifications than dispatches; runs disturb each
  other's files only when they are runs of the same command on the same worker;
* webhooks: at least once, one POST per dispatch, no early dead letter, no
  notification stuck;
* API: SUCCESS is final, one answer does not contradict itself, commands that stay
  where they are are listed once, an accepted command can be found;
* command text: the arguments are those the command was written for;
* runner: when `Run` returns, nothing is left running and nothing FFmpeg said is lost;
  `Run` returns;
* adapters: what a returned address leads to is a complete file, whichever uploads
  overlapped; a complete object stays complete;
* host: the limit on memory is kept but for the race that a check in advance cannot
  prevent and what the check does not see; a delayed job runs; the reported acceleration
  is one that was found, and none that was found beats it;
* HTTP layer: the client gets the answer the handler gave, and its own request back.

## 2. Modules

```
TaskQueue               tasks in Redis, as the code uses them
  ^      ^
  |      TaskServer       servers with an arbitrary handler    <- TaskServerProofs
  |        ^ implemented by
  |        WebhookDelivery      handleWebhookDeliver           <- WebhookDeliveryProofs
  |        CommandWorker        handleFFmpegCommand
  |           ^
  |           CommandService    the worker behind the API      <- CommandServiceProofs
  |           v
  CommandApi              the API's handlers on the queue
     ^
     ApiServer            the whole way of a call              <- ApiServerProofs
       OasTypes           what is written and read per type
         JsonText         documents

parts of the worker, each on its own:
  CommandText             expandPlaceholders and parseCommandArgs  <- CommandTextProofs
  FFmpegRunner            Run and CombinedOutput               <- FFmpegRunnerProofs
  StorageAdapters         Upload of the four adapters          <- StorageAdaptersProofs
  WorkerHost              the worker's start, its memory gate  <- WorkerHostProofs
    HostSetup             settings, constructors of adapters, hardware
```

**TaskQueue** has one action per operation on a task in Redis. It is a library,
so it is modelled from its uses: which options the code passes (`MaxRetry`,
`Timeout`, `Retention`, `IsFailure`) and which results it relies on. `holder[t]`
is the run with a valid lease; a lease that has lapsed, or whose process is dead,
is `NoRun`. `Spare` is the retry that `IsFailure` (`worker/main.go:110-116`) makes
free. `dispatched` and `spared` are history variables.

**TaskServer** adds processes and runs. A run is the handler goroutine (`phase`,
`outcome`) and the processor that supervises it (`supervised`). `Deadline`
cancels the context; `SettleSuccess`, `SettleFailure`, `SettleDeadline` and
`DropStale` are what the processor does with the first event it sees, `Abort` what
it does at shutdown. After each of them a handler that has not returned goes on
unsupervised. The handler is arbitrary: it may return anything, at any time, or
never. This module is the abstract specification of both services.

**CommandWorker** and **WebhookDelivery** put the handlers of the repository in the
place of the arbitrary one. Each obtains the actions of TaskServer with
`INSTANCE TaskServer WITH ...`, adds the handler's control (`step`) and what it touches, and
is checked against `Srv!ServerSpec` as a PROPERTY (`ImplementsServer`), so what is
proved of TaskServer holds of both.

*CommandWorker*, step by step: `gate` is the memory check (`DelayJob`, `BeginJob`),
`download` the loop over `input_files` (`fetched`, in any order, possibly none), `encode` the
FFmpeg commands, which create output files at any time (`Produce`), or not, `upload` and
`copy` the loop over `output_files` (before and inside an `Upload`), `finish` what
follows the notification. `files[w][c]` is the content of the job directory by name, as
the code looks at it with `os.Stat`: an output may be left over from a run that crashed, or
be the work of another run that is still at it. `stored[c]` are the outputs of which a whole copy
of such a file is in the storage, `hooks[c]` the notifications
enqueued, `result[c]` the result field. Every return below the deferred
`os.RemoveAll` empties the directory; a crash empties it only if the container is
created anew. An error is the kind of its text: the text of a failed FFmpeg run and that of a failed
download or upload contain words of FFmpeg or of some server, `resource limit` perhaps among them. The file
adapter truncates the destination when it opens it and
copies without looking at the context; the others make one request that obeys
the context and whose effect may stay although its answer was lost.

*WebhookDelivery*: `send`, `sent`, `accepted`/`refused` are before the request, after it
reached the endpoint, and after the endpoint answered. The handler may see an
error at each of them (`RequestFails`), and at the first one a payload that makes no request (`CreateFails`).

**CommandApi** has `CreateCommand`, `GetCommand` and `ListCommands`, the last one as
four steps, one per list, while the workers do anything the queue allows (`WorkerStep`, `LeasesEnd`); with
`CallEnds` the answer leaves and the connection is free for the next call. `told[t]` is what
clients were told of t.

**CommandService** puts CommandApi in front of CommandWorker. The two modules share the variables of
the queue and no others: the API's steps (`Accept`, `Report`, `List`) leave the worker's alone and the
other way round (`Work`). Each of them is an abstraction of the rest for the other one: commands come
from nowhere in CommandWorker, workers are arbitrary in CommandApi. Here a command is followed from
its request to what its client is told (`ReportedIsStored`), and both abstractions are shown to be right.

**CommandText** runs `expandPlaceholders` (any order within the inputs, then within the
outputs) and `parseCommandArgs` (one action per case of its switch) on texts whose
elements are runes or whole placeholders. Inputs and outputs have their own paths (`inPath`, `outPath`); a
key may be in both, and then the input hides the output. `Intended` says what the arguments should
be without a parser: which elements are inside which quote (`InQuote`), which are marks that open or
close one, which spaces are gaps, and that an argument is what lies between two gaps but for the marks
(`Piece`).

**ApiServer** extends CommandApi to whole calls: the generated client sends (`sendCreateCommand`
and so on, or `SendOther` for what no generated client sends), `Route` stands for the
CORS middleware, main's mux and the generated router, each `handle...Request` decodes,
calls CommandApi's action and encodes, and `Receive` decodes again. `payload` and
`results` hold what API and worker wrote into Redis, `asked` remembers the request the task
was made of. `IsReport` is what the worker's Go types let it write, `getFileType` included. One `ListCommands` call is four actions. A path is cut into the pieces that
are compared, the last of which takes all that is left, slashes included (`PathId`); only paths that
`http.ServeMux` lets pass as they are are sent, since it redirects the others to their cleaned form. A body is a document and whether text follows it.

**OasTypes** has, per type of the schema, what `Encode` writes and the values `Decode`
accepts: a set with one value, or empty for an error. `IsCommandRequest` and the like say what
a value of the Go type is: the maps finite, an optional field there or not. **JsonText** has
documents (ordered fields that may repeat) and the helpers both coders use. Texts are
model values; what matters is which fields are there, empty, repeated, null or of
another type, times with fractions of a second, numbers with a fraction.

**FFmpegRunner** is one command of a job with the five parties that run it: FFmpeg (`Child`), the
killer of `exec.CommandContext` (`Kill`), the copier of stdout (`Copier`), `parseProgress`
(`Parser`) and `Run`. The lines FFmpeg wrote are kept whole; readers are
positions in them. The `io.Pipe` is the rendezvous `ScanRead`: the scanner takes any number of the
lines the copier is writing into its buffer (`taken`), and `ScanLine` parses one from there. With duration 0 the
code uses `CombinedOutput`, with one pipe and no parser.

**StorageAdapters** has `Upload` as steps: open, one action per block, close for the file
adapter; a request, its effect in the storage (`CarryOut`, at any time
later, or never: `Lose`) and its answer for the others. `ReturnError` may come at every
step. CommandWorker has the outcomes these steps lead to; this module has the blocks.

**HostSetup** is what a start makes of environment and machine. A setting is what Go's parsers make
of its text: a whole number, a fraction, an infinity, NaN, a truth value, or none of these. Nodes in
`/dev/dri` have a kind and a number, since one check looks for any `renderD` and another for `renderD128`.
**WorkerHost** is the worker that starts on it and admits jobs (`Admit`, `Delay`). The jobs allocate (`Grow`) after
they were admitted, free memory and allocate again (`Shrink`), and the rest of the machine does the same
(`Others`, between the machine's `base` and `peak`).

MC modules hold the finite sets and the symmetry for TLC.

## 3. Runs

| Run | Question | Bounds |
|---|---|---|
| `server` | Are leases, budget, slots and final states right for every handler, and is every task finished? | 1 task, 2 processes with 1 slot, 3 runs, 1 counted retry, 1 free one |
| `worker` | From the request to the answer: is SUCCESS never said without the outputs, in an answer, a list, a notification or a result? Does the worker implement the server? | CommandService: S3 adapter, 1 command with 1 input and 1 output, 1 worker, 3 runs, 1 connection, calls of the API that fail |
| `worker_liveness` | Is every command finished although any of its parts may hang? | file adapter, 2 inputs, a broker that fails |
| `webhooks` | Delivered means accepted; one POST per dispatch; dead only after all retries; never stuck | 1 notification, 1 process, 3 runs |
| `api` | Is SUCCESS final, whatever fails? Does `ListCommands` report commands that stay, while others move, and never contradict itself? Is an accepted command found? | 2 commands, pages of 1, 1 connection with any number of calls one after the other, 1 counted retry, 1 free one, a broker that fails |
| `http` | Does the client get what the handler answered, and its own request back? | 1 command, 1 connection, 5 requests of a generated client, 15 others |
| `ffmpeg_run` | Does `Run` lose nothing, leave nothing and end? | a pipe of 2 lines, 3 lines, 1 piece of stderr |
| `uploads` | Does a returned address lead to a complete file? | 4 adapters, 3 uploads of one destination, files of 2, 2 and 1 blocks |
| `host` | Does the gate keep the limit and forget nobody? Is the acceleration real? | 246 machines, 3 jobs, 8 units of memory |
| `command_text` | Are the arguments the intended ones? | texts of up to 4 elements, 2 inputs and 2 outputs with one key in common, 3 kinds of paths |
| `worker_uncounted_failure` | *violated*: failures of FFmpeg are counted | as `worker`, without inputs |
| `api_failed_then_retried` | *violated*: FAILED is final | 1 command |

Why the bounds are enough. Tasks do not interact except for slots (`Concurrency`) and
lists, so one task with several runs shows what overlaps do; three runs
are two that outlived their supervision and a third that is live, and with
`MaxRetry = 1` and `MaxSpared = 1` they are all the dispatches a task can have. For the
same reason the bound on runs never blocks a dispatch. `MaxSpared` is the
number of free dispatches; it is the one bound that cuts behaviours of the program
(a free retry is not limited in the code). Its guard stands in `Return` so that no
settlement is ever blocked. Two processes matter to `server`; the worker's runs
share a directory only within a process, so one worker is the harder case there.

In `api`, a page of 1 with 2 commands is a page that is full. Connections
share nothing but the queue, so one is enough there, in `worker` and in `http`. `VIEW Relevant` in `api` and
`worker` leaves out what was told and gathered but for the statuses the properties ask for;
no action reads the rest, so it makes no difference to what can happen. In
`ffmpeg_run`, the three lines can be in the pipe, with the copier, in the scanner's buffer and
parsed in every way in which these can be full or empty, but for three in the pipe. A file of 2 blocks can
be mixed with another one, cut off, and left with a hole, and the shorter file shows
what a truncation leaves. In `host` the three jobs fit in pairs but not all under the
limit of 4, and together with what others use they can exhaust the 8 units; one machine is full
before any job runs, on others the rest comes and goes, up to all there is. Each setting is there with every
kind of text its parser tells apart; the machines for the acceleration have all systems, with every
combination of NVIDIA or not, no node, only `card0`, `renderD128` and another `renderD`, and seven sets of encoders.
The inputs of a job are none, one or two in the three runs with jobs: with two, a run can be between them
when it is cut off.
Four elements are the shortest text with a quoted space between two runes and an
element outside.

Deadlock is not checked where the system really stops: a client may stop asking
(CommandApi, ApiServer), a parsed text stays parsed, a command of FFmpeg ends or hangs
on a line that is too long, all uploads and all jobs are done. Elsewhere it is.

### Fairness

`ServerFairness`: timers fire (`Deadline`), processors settle (`Settle`), forwarder and
recoverer run, a waiting task is not passed over for ever (strong fairness of `Pick`,
since slots come and go), and a process told to stop is stopped. These are
asynq's own goroutines and tickers, and the supervisor of the container. Handlers
get no fairness: FFmpeg, ffprobe (run without a context, `worker/main.go:189`),
downloads and copies may hang. In WebhookDelivery the handler gets the fairness that
`http.Client.Timeout` (`webhooks/main.go:35-37`) gives it, and then the deadline is
not needed. Nothing is assumed about leases, crashes or answers of endpoints.

FFmpegRunner's `Fairness`: goroutines that can go on do, and the kernel kills. FFmpeg itself
gets none; `RunEnds` starts where it has ended or the context is done. WorkerHost's
`Fairness`: the worker starts, asynq hands out queued jobs and takes back delayed ones, and
a running job comes to its end, because of its deadline. Growth of memory, and
death for want of memory, get none.

`EveryTaskFinishes` holds up to `MaxSpared`: a command that the memory gate refuses for
ever is retried for ever. This is how the code works, not an artefact.

### What the violations show

1. *FFmpegFailureIsCounted.* The error of a failed FFmpeg run contains FFmpeg's output
   (`worker/main.go:231`), and `IsFailure` searches all of it. The README counts such
   failures.
2. *FailedIsFinal.* `taskToStatus` (`api/main.go:223`) reports FAILED for every task
   with a last error, also for one that is retried or has completed; RETRYING is
   never shown.

### Observations

Behaviours met while modelling, present in the models. Some contradict a document of the repository; no
run is spent on those, as the contradiction is in one line of the code:

* A command that waits for its retry is in no answer of `ListCommands`, as the retry list is not read
  (`api/main.go:131-160`); openapi.yaml:30 and README.md:42 say "all". `SteadyListedOnce` states it.
* `created_at` is the time of the next dispatch, the zero time for active and completed
  commands (`NextProcessAt`); openapi.yaml:229 says "When the command was created".
* Every error of the inspector is a 404 in `GetCommand`, also that of a broker that is down; openapi.yaml:102
  has "Command not found" for it. `AcceptedIsFound` excepts these answers.
* The webhook service never reads the `MAX_RETRY` of README.md:268, the worker's
  `WEBHOOK_MAX_RETRY` decides; a setting of n gives n retries, n + 1 attempts.
* An error of `Enqueue` for a notification is dropped (`Notify` with `BrokerFaults`), although README.md:170
  promises a POST when the command is complete. `CompletedIsNotified` is for a broker that works.

Of the others no document says the contrary:

* With the file adapter, `os.Create` truncates in place (`adapters/file.go:48`): a run stores
  its output and announces it, its deadline or lease ends it, the next run truncates the
  file, and then fails. `ReportedIsStored` holds of the other adapters only, and
  `IntactIsKept` excepts the copies of this one.
* The notification (`worker/main.go:290`) comes before the settlement; the run may still lose
  its lease or its deadline, and a command announced with SUCCESS may be archived after
  further failures.
* `ListCommands` may show a command that moves in two of its lists.
* The error of writing the result is dropped (`FinishJob`).
* A worker that restarts on its old `WORK_DIR` finds what the crashed run left. A command that does not
  create an output then uploads the old one, whole or not; the same holds of a file
  another run is still writing. The code only checks that the file exists (`worker/main.go:243`).
* A download or an upload whose error contains `resource limit` is retried without being counted, like FFmpeg.
* `Run` never returns after a line of more than 64 KiB (`GaveUp`): the scanner is gone, the copier
  waits for a reader, `cmd.Wait` for the copier. Killing FFmpeg does not help. The
  processor's deadline frees the slot.
* `MAX_MEMORY_PERCENT=NaN` opens the gate for ever (`Exceeds`); without `/proc/meminfo` the gate measures the heap of the
  worker (`Verdicts`); all free slots can pass it at once (`raced`).
* A bunny-stream upload that fails between its two requests leaves an empty video, a retry
  makes another.
* What the generated server refuses itself is answered with `{"error_message": ...}`, which
  is no `ErrorResponse` and which the generated client cannot read.
* A field `output_files` that occurs twice is merged, other repeated fields replace each other.
* An empty `ffmpeg_command` that is set is accepted and fails at the missing output; a path
  with a space becomes several arguments; an output called like a downloaded input is the
  same file.

### What the properties except

A property that holds because it excepts a case does not catch that case. These hazards of the
code are therefore not caught, only described, and PROJECT.json says so where it lists them:

| Hazard | Excepted by |
|---|---|
| truncation by the file adapter (`adapters/file.go:48`) | `ReportedIsStored` and its theorem: every adapter but file; `IntactIsKept`: copies under way; `ReturnedIsIntact`: copies that met or were followed by another |
| a dropped notification (`worker/main.go:330`) | `CompletedIsNotified`: `BrokerFaults` is FALSE |
| a line of more than 64 KiB (`progress.go:80`) | `RunEnds`: `GaveUp` |
| jobs that pass the gate together (`worker/main.go:132`) | `OverLimitOnlyByRace`: `raced` |
| tmpfs taken for available (`resources.go:124`) | `OverLimitOnlyByRace`: `Unseen`, `blind` |
| no `/proc/meminfo` | `OverLimitOnlyByRace`, `DelayedJobRuns`: `Readable` |
| a limit that is NaN or plus infinity (`config.go:119`) | `OverLimitOnlyByRace`: such a limit limits nothing |
| paths that are not plain (`worker/main.go:340`) | the second half of `ArgumentsAsIntended`: `PlainPaths` |
| Redis errors answered as 404 (`api/main.go:292`) | `AcceptedIsFound`: `unread` |
| lists that were not read, or longer than a page | `SteadyListedOnce`: `steady` |
| free retries without end | the three `Every...` properties: `MaxSpared` |

## 4. Proofs

`TaskServerProofs` proves, for any number of tasks, runs, processes and slots, any
retry budget and any handler:

* `ServerTypeCorrect`, `LeaseCorrect`: `ServerSpec => []ServerTypeOK`, `[]LeaseIsExclusive`;
* `DispatchesCorrect`: every dispatch is paid for once;
* `ArchivedCorrect`: the dead-letter set is the last resort;
* `TerminalCorrect`: no step changes a finished task;
* `ConcurrencyCorrect`: at most `Concurrency` runs of a process have a good context.

`CommandServiceProofs` proves, for any number of commands, workers, runs and outputs, of the worker:

* `WorkerImplementsServer`: `Spec => ImplementsServer`, so the theorems above hold of
  the worker;
* `WorkerTypeCorrect`: `Spec => []TypeOK`;
* `SuccessCorrect`: `Adapter # "file" => (Spec => []SuccessIsStored)`. The condition is
  needed: with the file adapter TLC finds a violation;
* `NotificationCorrect`: `~ BrokerFaults => (Spec => []CompletedIsNotified)`. Here, too,
  a broker that refuses the notification breaks it;
* `NotifiedOnceCorrect`: `Spec => []NotifiedOncePerDispatch`, however many runs overlap;
* `FilesCorrect`: `Spec => FilesLostOnlyToOverlap`;

and of the worker behind the API, for any number of connections and any page size:

* `ServiceImplementsWorker`: `ServiceSpec => Spec`, so the above holds of the service;
* `ServiceImplementsApi`: `ServiceSpec => ImplementsApi`: these workers do to the queue only what CommandApi
  expects of arbitrary ones, so the theorems about CommandApi below hold of the service, too;
* `ReportedCorrect`: `Adapter # "file" => (ServiceSpec => []ReportedIsStored)`: what any client is told.

`WebhookDeliveryProofs` proves, for any number of notifications, processes and runs:

* `WebhooksImplementServer`: `Spec => ImplementsServer`;
* `DeliveryTypeCorrect`, `DeliveredCorrect`, `PostsCorrect`, `DeadCorrect`: its four invariants.

`ApiServerProofs` proves first what the texts keep, for every value of the schema's types: decoding what
was encoded gives the value back, message by message, but for what the format changes (`Read`: a URL is
written its own way, a time loses its fraction); `CommandRequestBack` is the request. The
other lemmas of this kind are about answers, the payload and the result.

It then proves, for any number of commands and connections and any page size, of the API
on the queue the five invariants of the run `api`: `ApiTypeCorrect`, `SuccessCorrect`, `ListCorrect`,
`SteadyCorrect`, `FoundCorrect`; and of the whole server, for any finite number of commands, any
request and any report of a worker:

* `AnswersCorrect`, `EchoCorrect`: `ServerSpec => []AnswersDecode`, `[]EchoIsRequest`;
* `ServerImplementsApi`: `ServerSpec => ApiSpec`. Every step of the server is a step of CommandApi
  or changes nothing that it sees, so the five invariants hold of the server too.

`CommandTextProofs` proves, for commands of any length, any keys and any paths:

* `ArgumentsCorrect`: `Spec => []ArgumentsAsIntended`;
* `NothingLostCorrect`: `Spec => []NothingLost`.

`WorkerHostProofs` proves, for every machine, every setting and any jobs, whatever they need:

* `HostTypeCorrect`: `Spec => []TypeOK`; nobody uses memory that is not there;
* `GateHolds`: `Spec => []OverLimitOnlyByRace`;
* `AccelerationVerified`: `Spec => []AccelerationIsVerified`: what is reported was found, nothing that was
  found beats it, and `none` means that nothing was found.

`FFmpegRunnerProofs` proves, for every pipe, duration, output and length of both, `RunnerTypeCorrect`,
`NothingLeftCorrect` and `CompleteCorrect`.

`StorageAdaptersProofs` proves, for any uploads, destinations, sizes and prefixes,
`UploadTypeCorrect`, `ReturnedCorrect` and the action property `IntactCorrect`.

Assumptions. `QueueAssumption`, the servers' `ServerAssumption`, `WorkerAssumption` and `DeliveryAssumption`
say that the null values are not members of the sets, that the numbers are natural, that
there is an output and none is called like an input or the directory itself, and
that a handler does not return the two errors that are the library's own.
`ApiAssumption` gives requests their shape and pages at least one entry. `RunnerAssumption`
gives the pipe room for a line. `TextAssumption` says that letters, keys, quotes and the space are different
runes and that no path is empty; `worker/main.go:159` and `:177` build paths that never are. `UploadAssumption` says that files are not empty (an empty
file cannot be told from a truncated one) and that the names of outputs are not
the two names the model uses for itself. `UrlAssumption` is what `net/url` promises: the text
`URL.String` writes is parsed again, and written the same. ApiServer's `ServerAssumption` says that
requests and reports are values of their Go types, that what is no client's request is a document
or none, that a path has at most four pieces, as the router cuts it, and that commands are finitely many. `HostAssumption` says that jobs are finitely many and sizes natural numbers, that a
machine has a processor, that the rest of a machine uses no more than there is and tmpfs is part of what it always
uses, that every job needs some memory, and that the settings are what a parser may return. TLC evaluates all of them. Runs, tasks, outputs and uploads
need not be finite; where runs are counted (`PostsAreDispatches`), finiteness is part of the invariant.

The argument for the servers. `LeaseIsExclusive` is not inductive: that `DropStale` and
the settlements leave the leases of other tasks alone needs that a supervised run works
on a task. `LeaseInv` is `ServerTypeOK`, `SupervisedWork` and `LeaseIsExclusive`;
`LeaseInvInit` and `LeaseInvStep` show it inductive, the latter with one step per
action, on top of lemmas about the queue's operations (`PutBackType`,
`OtherOperationsType`) and about the end of a run (`VanishRuns`, `UnsuperviseRuns`,
`UnsuperviseKeepsLeases`). The other theorems are steps on top of `LeaseInv`.
`ConcurrencyCorrect` adds `SlotInv`: the code counts supervised runs, the property
counts runs with a good context, and `LeftoversCancelled` (a run without a processor
is cancelled) puts the second set inside the first.

The argument for the worker. `WorkerInv` is `LeaseInv`, the types of the handler's
variables and `InHandler`, which ties the two views of a run: it has a step in the
handler exactly while its goroutine runs, and then it has a command and a worker.
`WorkStep` and `LeaveStep` show it kept by the actions that stay in the handler and by
those that leave it. `SuccessIsStored` is not inductive, as it does not say why a run
that returned nil may complete its task. `StoredInv` adds `SavedIsStored`: what a run
has uploaded is in the storage, a run about to finish has uploaded everything, and a
run that returned nil (`Done`) leaves its command stored. Its steps rest on
`StoredGrows`, which is where an adapter that truncates fails, and on
`CompletionStep`: a task becomes completed only through a done run, and with the lease
held. `NotifiedInv` is the same idea for notifications, which only grow (`HooksGrow`).
`SameInit` and `SameNext` say that `Srv`, the servers as CommandWorker sees them, and
`Thm`, the same instance with the theorems, are one specification.

`NotifiedOncePerDispatch` becomes inductive with the finiteness of the set it counts (`Reserved`):
a run that has yet to notify has one notification reserved, paid for by the dispatch that
started it. `FilesLostOnlyToOverlap` follows from `WorkerInv` by looking at who writes to a
directory (`GrowsOrLeaves`): a run adds to it, or empties it and leaves.

The argument for the service. CommandService's steps are the worker's and the API's, so what has to be said is
what either does to the other's variables. `ReadsOnly` and `AcceptSubmits`: seen from the worker, the API
submits commands and otherwise reads. `WorkImplementsApi`: seen from the API, a worker's step
is an operation of the queue on one command, the end of some leases, or nothing; that the command is one of
`Commands` and the error one a handler returns is `LeaseInv`. Proving it corrected CommandApi: its workers never
failed a command for its deadline, and lost one lease at a time although a process that dies loses all. For
`ReportedIsStored`, `PageIsStored` adds the entries that a list call has gathered and not yet given out; SUCCESS gets into
either only from the state `completed` (`SuccessIsCompleted`), and `StoredGrows` keeps it true.

The argument for the webhook service. `DeadAfterAllRetries` follows from `QueueInv`, the
servers' theorems about leases and budget, seen through the refinement. `DeliveryInv` adds to `LeaseInv`
two facts about the handler. `Answered`: a run that has returned nil, or is about to, has had a 2xx
of the endpoint, and only such a run completes a notification (`CompletionStep`). `Reserved`: POSTs that arrived and runs
that have yet to send are together no more than the dispatches; the runs that
have yet to send are a finite set which only `Start` enlarges, together with the dispatches.

The argument for the API. None of the four safety properties is inductive. `ToldTrue` says that a command
of which SUCCESS was told has succeeded and that one which was accepted is in the queue;
`PageTrue` that the entries a list call has collected are still true: SUCCESS of a command that
has succeeded, FAILED and RETRYING of one with a last error, which a command that succeeded
without one never gets (`DeadHasError` is what this needs of the dead-letter set). `SteadyListed` says that
a command which has not moved since the call began has its one entry once its list has
been read. `Kept` collects what no operation of the queue undoes, and each of them is
shown to obey it.

The argument for the runner. `IInv` adds to `TypeOK` which goroutines exist at which
stage of `Run` (`Begun`, `Stages`) and how far each reader may be behind the one before it
(`Progress`): the scanner has taken all the copier has read, unless the copier is writing, and a parser that is gone
has left nothing in the buffer.

The argument for the adapters. `UploadInv` has, for the adapters that send requests, which
requests there may be and when (`Requests`: an entry is made once and before the PUT that fills it) and
that a key to which a PUT was carried out leads to a whole file ever after (`PutIsStored`). For
the file adapter it has the owner of a file: a copy that met no other and was the last to
open the file wrote all its blocks up to its position, and there are no others (`Files`, `Owner`).

The argument for the texts. An object is the sequence of its fields, and everything a decoder does is
to look a name up in it. `At(fs, k)` is what a text has under a name; `ConcatParts` says that the
parts of a text add up under every name, and the encoders are such sums of parts with one name
each. So each field is found once, with the value it was written with, and the decoder's choice of
the last one does not matter. For a text of unknown origin (`OtherRequests`) there is no encoder to
start from: what a decoder accepts is shown to be a value of the type, with a webhook that is
already as `URL.String` writes it. That there is a last field of a name (the greatest
of a set of positions) needs an induction; it is done over sets, with the
library's `WFMin`, which takes no operator.

The argument for the command text. What the code computes and what the property asks for are both made
with recursive functions over texts of any length. `NatSet` and `SeqSet` say that a set of numbers
with 0 and successors, or of sequences with `<<>>` and all one element longer, is everything; they
follow from `WFMin`, and every induction is one of them, with the set as the claim. `FlattenSeq` and `InQuote`
are shown to be the only solutions of their equations (`FlattenUnique`, `OpensUnique`), so they grow by one
element at a time (`FlattenAppend`, `InQuoteAppend`), and with them the open quote (`Open`), the argument
under construction (`Pending`) and those that are finished (`Closed`): `OpenAppend`, `PendingAppend`,
`ClosedAppend`. That makes the parser inductive (`ReadSoFar`): its three variables are these three functions of
what it has read. `ExpandedSoFar` says that the text is the command with the visited keys replaced and, where
all paths are plain, no matter in which order (`ReplaceMore`); `EachParsed` that replacing plain
paths commutes with parsing, because a letter opens, closes and separates nothing and a path that is not
empty leaves something.

The argument for the server. `ServerInv` is `ApiInv` and, per connection, `CallInv` and
`ListInvariant`. `CallInv`: the request is one its client can have sent, and what the client will make of
the answer is already settled when the answer is written (`Understood`). `ListInvariant`: a
connection is as far in its four lists as its phase says, and every status gathered so far
tells a status of the schema and echoes its request (`Tells`, `Echoes`). `Carried`
connects the two sides: what lies in Redis for a command is the encoding of what was asked and of
a report. Nothing ever changes the request of a command that was answered (`Settled`),
so the steps of others leave all of this alone (`OthersStay`), and each handler has a
lemma of its own for its connection.

The argument for the gate. What a job holds goes up and down, so an invariant about it would say nothing of the
future; what it may come to hold, its claim, does not change. `Borne` says that there is a running job,
the bearer, without which the claims of the others and what the rest of the machine used at the last admission are within the
limit (`Bears`). A job that is admitted while nobody grows finds every claim held (`ClaimsAreHeld`), so what it passes the gate
with is just that, and it is the new bearer. `Grow`, `Shrink` and `Others` leave claims alone
(`ClaimsStay`); when the bearer ends, the claims of the others are still within the limit. `GateConclusion`
turns claims into memory: nobody holds more than its claim (`OthersWithinClaims`), and what the rest has
come to use since is `Arrived`. A job that is admitted when nothing is available passes by the sum that includes
tmpfs (`resources.go:124`) and bears nothing; but it shows that a full machine without its tmpfs is within the limit,
which is `BlindKept` and enough from then on. Memory is counted by units (`Taken`), so that sums over
jobs are cardinalities and no fold is needed.

The argument for the acceleration. `DetectHardwareFinds` says that the first entry of the preferences whose check
succeeds is reported, `CheckedIsPlausible` that an acceleration is in the preferences of the system and passes its check
exactly if the machine has it, and `PreferenceOrdered` that nothing further down the preferences beats what is above it.

Only model-checked: liveness (`EveryTaskFinishes`, `EveryCommandFinishes`, `EveryNotificationEnds`, `RunEnds`,
`DelayedJobRuns`), which is out of the prover's reach, and the two properties that are violated.

## 5. What is left out

* Of the generated layer: `handleGetOpenAPIRequest` (main's mux answers that path itself),
  telemetry, middleware and options (main sets none), `MarshalJSON` and `UnmarshalJSON` and
  `FindRoute` (nothing calls them), getters and setters of the schema types.
* Container files: what a restart keeps is in `Crash`. Settings that are loaded and not used
  (Redis password and database, retry settings, check interval of the worker);
  `GetHardwareAccelArgs` and `ResetHardwareDetection`, which nothing calls.
* How an output's metadata is found (`ffprobe`, MIME types); ApiServer has its encoding. Frame, speed
  and the other fields of progress that are only logged.
* The content of files in a job directory: `files` has names, and whether an output is whole
  before it is uploaded is not told apart. `SuccessIsStored` says that a file of the output's name was
  stored completely, not that FFmpeg had finished it.
* Redirects of `net/http` at the endpoint, and the repetition of a POST on a connection that was
  idle.
* Placeholders that only come into being when paths are put together: `{{key}}` is one element.
* The cleaning of paths by `http.ServeMux`.
* Time. Deadlines and leases may end at any moment, so every order of them is
  covered, including ones that real delays exclude.

## 6. Plan

1. *Done*: the queue, the servers and both services on them; the API on the queue, with the workers behind it, and
   the whole way of a call; the parts of the worker (command text, runner, adapters, host); 40 theorems, among
   them every safety property the passing runs check.
2. The webhook service on the notifications of CommandService: two queues, from the request to the POST.
3. The outcomes of an upload in CommandWorker derived from StorageAdapters by refinement.
