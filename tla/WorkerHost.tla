----------------------------- MODULE WorkerHost ------------------------------
(***************************************************************************)
(* A worker on its machine (worker/main.go:70-138): it starts, or gives up *)
(* on its settings, and then takes jobs that share the machine's memory.   *)
(* Before each job the memory is looked at once (worker/system/            *)
(* resources.go); the job allocates afterwards, while others are admitted, *)
(* frees memory and allocates again, and so does everything else on the    *)
(* machine.  A refused job is put back and retried without being counted.  *)
(***************************************************************************)
EXTENDS HostSetup, FiniteSets

CONSTANTS
  Jobs,     \* jobs in the queue
  Need,     \* the memory each job comes to use
  Total,    \* MemTotal
  Hosts     \* machines: [env, cpus, base, peak, meminfo, shared, os, nvidia, dri, encoders]

ASSUME HostAssumption ==
  /\ IsFiniteSet(Jobs)
  /\ Need \in [Jobs -> Nat \ {0}]
  /\ Total \in Nat \ {0}
  /\ \A h \in Hosts :
       /\ Settings(h.env)
       /\ h.nvidia \in BOOLEAN
       /\ h.cpus \in Nat \ {0}
       /\ h.peak \in 0 .. Total                    \* used by everybody else at most
       /\ h.base \in 0 .. h.peak                   \* and at least
       /\ h.meminfo \in {"available", "old", "none"}
       /\ h.shared \in 0 .. h.base                 \* tmpfs: cached, not reclaimable

VARIABLES
  host,     \* the machine
  up,       \* "down", "up", or "failed": log.Fatalf
  config,   \* cfg
  accel,    \* hwCapabilities.AccelType
  job,      \* where each job is
  held,     \* the memory it uses
  rest,     \* the memory everybody else uses
  restSeen, \* history: what that was when the last job was admitted
  raced,    \* history: a job was admitted while another had yet to grow
  blind     \* history: a job was admitted when nothing was available

history == <<restSeen, raced, blind>>
vars    == <<host, up, config, accel, job, held, rest, history>>

Running == {j \in Jobs : job[j] = "running"}
Growing == {j \in Running : held[j] < Need[j]}

\* The n-th unit of memory of job j; nothing of a job outlives it.
Taken == {p \in Jobs \X (1 .. Total) : p[2] <= held[p[1]]}
Used  == rest + Cardinality(Taken)

(***************************************************************************)
(* GetResourceStatus.                                                      *)
(***************************************************************************)
\* getLinuxMemory: MemAvailable, unless it is missing or zero; then what is
\* free or cached, tmpfs included.
Available ==
  IF host.meminfo = "available" /\ Total - Used > 0
  THEN Total - Used
  ELSE (Total - Used) + host.shared

\* Without /proc/meminfo, the heap of the Go runtime is measured instead.
Readable == host.os = "linux" /\ host.meminfo # "none"

\* A percentage greater than the limit; nothing is greater than NaN.
Exceeds(used, limit) ==
  \/ limit.kind = "float" /\ used * 100000 > limit.value * Total
  \/ limit.kind = "inf" /\ limit.value < 0

\* Mutant: the limit is compared with what is available.
ExceedsLimitSwapped(limit) == Exceeds(Available, limit)

ExceedsLimit(limit) == Exceeds(Total - Available, limit)

\* What CheckResourcesAvailable may answer.
Verdicts ==
  IF Readable THEN {~ExceedsLimit(config.maxPercent)} ELSE BOOLEAN

\* What the handler makes of it.
MayRun   == config.enabled => TRUE \in Verdicts
MayDelay == config.enabled /\ FALSE \in Verdicts

Init ==
  /\ host \in Hosts
  /\ up = "down"
  /\ config = Load(host.env)
  /\ accel = "none"
  /\ job  = [j \in Jobs |-> "queued"]
  /\ held = [j \in Jobs |-> 0]
  /\ rest \in host.base .. host.peak
  /\ restSeen = 0
  /\ raced = FALSE
  /\ blind = FALSE

(***************************************************************************)
(* main.                                                                   *)
(***************************************************************************)
\* The AWS library may refuse its own settings.
Start ==
  /\ up = "down"
  /\ accel' = detectHardware(host)
  /\ \/ up' = "up" /\ ~NewAdapterFails(host.env)
     \/ up' = "failed" /\ (NewAdapterFails(host.env) \/ AdapterOf(host.env) = "s3")
  /\ UNCHANGED <<host, config, job, held, rest, history>>

\* Mutant: one task too many.
FreeOneMore == Cardinality(Running) <= Slots(config, host.cpus)

Free == Cardinality(Running) < Slots(config, host.cpus)

\* The check and the start of the job: it has not allocated anything yet.
Admit(j) ==
  /\ up = "up"
  /\ Free
  /\ job[j] = "queued"
  /\ MayRun
  /\ job'      = [job EXCEPT ![j] = "running"]
  /\ restSeen' = rest
  /\ raced'    = (raced \/ Growing # {})
  /\ blind'    = (blind \/ (host.meminfo = "available" /\ Used = Total))
  /\ UNCHANGED <<host, up, config, accel, held, rest>>

\* "resource limit": IsFailure says it is none, so it is retried for ever.
Delay(j) ==
  /\ up = "up"
  /\ Free
  /\ job[j] = "queued"
  /\ MayDelay
  /\ job' = [job EXCEPT ![j] = "delayed"]
  /\ UNCHANGED <<host, up, config, accel, held, rest, history>>

\* Mutant: the error of a refused job is final.
RequeueNever(j) == FALSE /\ job[j] = "delayed" /\ UNCHANGED vars

\* The delay of the retry is over.
Requeue(j) ==
  /\ up = "up"
  /\ job[j] = "delayed"
  /\ job' = [job EXCEPT ![j] = "queued"]
  /\ UNCHANGED <<host, up, config, accel, held, rest, history>>

(***************************************************************************)
(* The jobs, and the rest of the machine.                                  *)
(***************************************************************************)
Grow(j) ==
  /\ j \in Growing
  /\ Used < Total
  /\ held' = [held EXCEPT ![j] = @ + 1]
  /\ UNCHANGED <<host, up, config, accel, job, rest, history>>

\* FFmpeg frees memory, at the latest between two commands of a chain.
Shrink(j) ==
  /\ j \in Running
  /\ held[j] > 0
  /\ held' = [held EXCEPT ![j] = @ - 1]
  /\ UNCHANGED <<host, up, config, accel, job, rest, history>>

Others(n) ==
  /\ n \in host.base .. host.peak
  /\ n + Cardinality(Taken) <= Total
  /\ rest' = n
  /\ UNCHANGED <<host, up, config, accel, job, held, history>>

\* FFmpeg ends, at the latest with the deadline, or is killed because there
\* is no memory left; its memory is free again.  A retry is another job.
Finish(j, how) ==
  /\ j \in Running
  /\ how = "killed" => Used = Total
  /\ job'  = [job EXCEPT ![j] = how]
  /\ held' = [held EXCEPT ![j] = 0]
  /\ UNCHANGED <<host, up, config, accel, rest, history>>

Process(j) == Admit(j) \/ Delay(j)

Next ==
  \/ Start
  \/ \E j \in Jobs : Process(j) \/ Requeue(j) \/ Grow(j) \/ Shrink(j)
  \/ \E j \in Jobs, how \in {"done", "killed"} : Finish(j, how)
  \/ \E n \in 0 .. Total : Others(n)

Spec == Init /\ [][Next]_vars

(***************************************************************************)
(* The worker starts; asynq hands out what is queued and takes back what   *)
(* was delayed; a job ends with its deadline.                              *)
(***************************************************************************)
Fairness ==
  /\ WF_vars(Start)
  /\ \A j \in Jobs :
       /\ WF_vars(Process(j))
       /\ WF_vars(Requeue(j))
       /\ WF_vars(Finish(j, "done"))

FairSpec == Spec /\ Fairness

-----------------------------------------------------------------------------
(***************************************************************************)
(* The shape of the state: nobody uses memory that is not there, and asynq *)
(* keeps to the number of slots the settings ask for.                      *)
(***************************************************************************)
TypeOK ==
  /\ host \in Hosts
  /\ up \in {"down", "up", "failed"}
  /\ config.concurrency \in Int /\ config.enabled \in BOOLEAN
  /\ accel \in Accelerations \cup {"none"}
  /\ job \in [Jobs -> {"queued", "delayed", "running", "done", "killed"}]
  /\ held \in [Jobs -> Nat] /\ \A j \in Jobs : held[j] <= Need[j]
  /\ rest \in host.base .. host.peak
  /\ restSeen \in 0 .. Total /\ raced \in BOOLEAN /\ blind \in BOOLEAN
  /\ Used <= Total
  /\ Cardinality(Running) <= Slots(config, host.cpus)

(***************************************************************************)
(* The purpose of the gate (README.md:369).  However the jobs and the rest *)
(* of the machine grow and shrink, the machine is within the limit but for *)
(* what one of the running jobs uses and what the rest has come to use     *)
(* since the last job was admitted.  Three things the gate cannot see:     *)
(*  - it looks before a job allocates, so a job admitted beside one that   *)
(*    had yet to grow is excepted (raced);                                 *)
(*  - the fallback counts tmpfs as available: on an old kernel, and once a *)
(*    job was admitted when MemAvailable was zero (blind);                 *)
(*  - without /proc/meminfo it does not see the machine at all.            *)
(* A limit of NaN or plus infinity limits nothing.                         *)
(***************************************************************************)
Unseen  == IF host.meminfo = "old" \/ blind THEN host.shared ELSE 0
Arrived == IF rest > restSeen THEN rest - restSeen ELSE 0

OverLimitOnlyByRace ==
  config.enabled /\ Readable /\ ~raced /\ Running # {} =>
    \E j \in Running : ~Exceeds(Used - held[j] - Unseen - Arrived, config.maxPercent)

(***************************************************************************)
(* A delayed job is not forgotten: it runs in the end, if the rest of the  *)
(* machine always leaves room under the limit and the memory can be read.  *)
(***************************************************************************)
RoomLeft == Readable /\ ~Exceeds(host.peak, config.maxPercent)

DelayedJobRuns ==
  \A j \in Jobs : (job[j] = "delayed" /\ RoomLeft) ~> (job[j] \in {"running", "done", "killed"})

(***************************************************************************)
(* The acceleration that results report (README.md:363) is one this        *)
(* machine's FFmpeg lists an encoder for and whose device was found where  *)
(* there is a check for it, and no such acceleration beats it; software    *)
(* encoding is reported only where there is none.                          *)
(***************************************************************************)
Plausible(a) ==
  /\ a \in host.encoders
  /\ a = "nvenc" => host.nvidia /\ host.os \in {"linux", "windows"}
  /\ a = "qsv" => \/ host.os = "linux" /\ \E node \in host.dri : node.kind = "renderD"
                  \/ host.os = "windows"
  /\ a = "amf" => host.os \in {"linux", "windows"}
  /\ a = "vaapi" => host.os = "linux" /\ renderD128 \in host.dri
  /\ a = "videotoolbox" => host.os = "darwin"

\* NVIDIA first, then Intel, then AMD; the generic interface last
\* (hardware.go:64-98).
Beats(a, b) ==
  \/ a = "nvenc" /\ b \in {"qsv", "amf", "vaapi"}
  \/ a = "qsv" /\ b \in {"amf", "vaapi"}
  \/ a = "amf" /\ b = "vaapi"

AccelerationIsVerified ==
  up # "down" =>
    LET found == {a \in Accelerations : Plausible(a)}
    IN  IF found = {} THEN accel = "none"
                      ELSE accel \in found /\ \A a \in found : ~Beats(a, accel)

=============================================================================
