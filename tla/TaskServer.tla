----------------------------- MODULE TaskServer ------------------------------
(***************************************************************************)
(* The asynq servers that consume one queue (srv.Run in worker/main.go:124 *)
(* and webhooks/main.go:54): a set of processes, each with at most         *)
(* Concurrency supervised runs.                                            *)
(*                                                                         *)
(* A run is two goroutines: the handler, and the processor that supervises *)
(* it.  The processor waits for whichever comes first of the handler's     *)
(* result, the end of the task's deadline, the loss of the lease and the   *)
(* shutdown of the server; it then settles the task and gives its slot     *)
(* back.  It cannot stop the handler: after a deadline the handler's       *)
(* context is cancelled, and the handler goes on until it looks.  Such an  *)
(* unsupervised run shares directories, storage and queues with the runs   *)
(* that come after it.                                                     *)
(*                                                                         *)
(* Here the handler is arbitrary: it may return any result at any time, or *)
(* never.  CommandWorker is an implementation of this module.              *)
(***************************************************************************)
EXTENDS TaskQueue, FiniteSets

CONSTANTS
  Servers,      \* the processes
  NoServer,
  NoTask,
  Concurrency   \* asynq.Config.Concurrency

ASSUME ServerAssumption ==
  /\ NoServer \notin Servers
  /\ NoTask \notin Tasks
  /\ Concurrency \in Nat \ {0}

VARIABLES
  task,        \* the task a run works on
  host,        \* the process a run lives in
  phase,       \* of the handler goroutine
  outcome,     \* what a returned handler returned
  supervised,  \* runs whose processor still waits
  ctxDone,     \* runs whose context is cancelled
  stopping     \* servers that got a signal to shut down

runVars    == <<task, host, phase, outcome, supervised, ctxDone>>
procVars   == <<runVars, stopping>>
serverVars == <<queueVars, procVars>>

ServerInit ==
  /\ QueueInit
  /\ task       = [r \in Runs |-> NoTask]
  /\ host       = [r \in Runs |-> NoServer]
  /\ phase      = [r \in Runs |-> "idle"]
  /\ outcome    = [r \in Runs |-> NoError]
  /\ supervised = {}
  /\ ctxDone    = {}
  /\ stopping   = {}

Busy(w) == {r \in supervised : host[r] = w}

\* The runs in gone leave no goroutine behind.
Vanish(gone) ==
  /\ task'       = [r \in Runs |-> IF r \in gone THEN NoTask ELSE task[r]]
  /\ host'       = [r \in Runs |-> IF r \in gone THEN NoServer ELSE host[r]]
  /\ phase'      = [r \in Runs |-> IF r \in gone THEN "idle" ELSE phase[r]]
  /\ outcome'    = [r \in Runs |-> IF r \in gone THEN NoError ELSE outcome[r]]
  /\ supervised' = supervised \ gone
  /\ ctxDone'    = ctxDone \ gone

\* The processor of r is finished: its slot is free and r's context is
\* cancelled.  A handler that has not returned goes on.
Unsupervise(r) ==
  \/ /\ phase[r] = "returned"
     /\ Vanish({r})
  \/ /\ phase[r] = "running"
     /\ supervised' = supervised \ {r}
     /\ ctxDone'    = ctxDone \cup {r}
     /\ UNCHANGED <<task, host, phase, outcome>>

(***************************************************************************)
(* The queue's own steps.                                                  *)
(***************************************************************************)
Submit(t)       == Enqueue(t) /\ UNCHANGED procVars
Promote(t)      == Forward(t) /\ UNCHANGED procVars
Forget(t)       == Expire(t)  /\ UNCHANGED procVars
RecoverTask(t)  == Recover(t) /\ UNCHANGED procVars
LeaseLapses(t)  == LoseLease(t) /\ UNCHANGED procVars

(***************************************************************************)
(* The life of a run.                                                      *)
(***************************************************************************)
\* Mutant: one run too many.
PickOneMore(w, t, r) ==
  /\ w \notin stopping
  /\ Cardinality(Busy(w)) <= Concurrency
  /\ phase[r] = "idle"
  /\ Dequeue(t, r)
  /\ task'       = [task EXCEPT ![r] = t]
  /\ host'       = [host EXCEPT ![r] = w]
  /\ phase'      = [phase EXCEPT ![r] = "running"]
  /\ supervised' = supervised \cup {r}
  /\ UNCHANGED <<outcome, ctxDone, stopping>>

Pick(w, t, r) ==
  /\ w \notin stopping
  /\ Cardinality(Busy(w)) < Concurrency
  /\ phase[r] = "idle"
  /\ Dequeue(t, r)
  /\ task'       = [task EXCEPT ![r] = t]
  /\ host'       = [host EXCEPT ![r] = w]
  /\ phase'      = [phase EXCEPT ![r] = "running"]
  /\ supervised' = supervised \cup {r}
  /\ UNCHANGED <<outcome, ctxDone, stopping>>

\* The handler returns e.  Nobody reads the result of an unsupervised run.
\* The last guard is a BOUND, placed so that no settlement is ever blocked.
Return(r, e) ==
  /\ phase[r] = "running"
  /\ \/ /\ r \in supervised
        /\ e \in Uncounted => spared[task[r]] < MaxSpared
        /\ phase'   = [phase EXCEPT ![r] = "returned"]
        /\ outcome' = [outcome EXCEPT ![r] = e]
        /\ UNCHANGED <<task, host, supervised, ctxDone>>
     \/ /\ r \notin supervised
        /\ Vanish({r})
  /\ UNCHANGED <<queueVars, stopping>>

Deadline(r) ==
  /\ r \in supervised \ ctxDone
  /\ ctxDone' = ctxDone \cup {r}
  /\ UNCHANGED <<queueVars, task, host, phase, outcome, supervised, stopping>>

SettleSuccess(r) ==
  /\ r \in supervised
  /\ phase[r] = "returned"
  /\ outcome[r] = NoError
  /\ Complete(task[r], r)
  /\ Unsupervise(r)
  /\ UNCHANGED stopping

SettleFailure(r) ==
  /\ r \in supervised
  /\ phase[r] = "returned"
  /\ outcome[r] # NoError
  /\ Fail(task[r], r, outcome[r])
  /\ Unsupervise(r)
  /\ UNCHANGED stopping

\* Mutant: the processor waits for a handler that hangs.
SettleDeadlineAfterReturn(r) ==
  /\ r \in supervised \cap ctxDone
  /\ phase[r] = "returned"
  /\ Fail(task[r], r, "deadline_exceeded")
  /\ Unsupervise(r)
  /\ UNCHANGED stopping

SettleDeadline(r) ==
  /\ r \in supervised \cap ctxDone
  /\ Fail(task[r], r, "deadline_exceeded")
  /\ Unsupervise(r)
  /\ UNCHANGED stopping

\* A processor without a valid lease writes nothing.
DropStale(r) ==
  /\ r \in supervised
  /\ holder[task[r]] # r
  /\ Unsupervise(r)
  /\ UNCHANGED <<queueVars, stopping>>

Settle(r) ==
  SettleSuccess(r) \/ SettleFailure(r) \/ SettleDeadline(r) \/ DropStale(r)

(***************************************************************************)
(* The life of a process.                                                  *)
(***************************************************************************)
Stop(w) ==
  /\ w \notin stopping
  /\ stopping' = stopping \cup {w}
  /\ UNCHANGED <<queueVars, runVars>>

Abort(r) ==
  /\ r \in supervised
  /\ host[r] \in stopping
  /\ Requeue(task[r], r)
  /\ Unsupervise(r)
  /\ UNCHANGED stopping

\* The process ends, with or without a signal, and is started again.
Crash(w) ==
  LET gone == {r \in Runs : host[r] = w} IN
  /\ Vanish(gone)
  /\ holder' = [t \in Tasks |-> IF holder[t] \in gone THEN NoRun ELSE holder[t]]
  /\ stopping' = stopping \ {w}
  /\ UNCHANGED <<state, retried, lastErr, dispatched, spared>>

-----------------------------------------------------------------------------
ServerNext ==
  \/ \E t \in Tasks :
       Submit(t) \/ Promote(t) \/ Forget(t) \/ RecoverTask(t) \/ LeaseLapses(t)
  \/ \E w \in Servers, t \in Tasks, r \in Runs : Pick(w, t, r)
  \/ \E r \in Runs, e \in HandlerErrors \cup {NoError} : Return(r, e)
  \/ \E r \in Runs : Deadline(r) \/ Settle(r) \/ Abort(r)
  \/ \E w \in Servers : Stop(w) \/ Crash(w)

ServerSpec == ServerInit /\ [][ServerNext]_serverVars

(***************************************************************************)
(* Fairness of the library only: timers fire, processors settle, the       *)
(* forwarder and the recoverer run, a waiting task is not passed over for  *)
(* ever, and a process told to stop does stop.  Handlers get none: a run   *)
(* may hang.                                                               *)
(***************************************************************************)
ServerFairness ==
  /\ \A t \in Tasks :
       /\ WF_serverVars(Promote(t))
       /\ WF_serverVars(RecoverTask(t))
       /\ SF_serverVars(\E w \in Servers, r \in Runs : Pick(w, t, r))
  /\ \A r \in Runs :
       /\ WF_serverVars(Deadline(r))
       /\ WF_serverVars(Settle(r))
  /\ \A w \in Servers : WF_serverVars(w \in stopping /\ Crash(w))

FairServerSpec == ServerSpec /\ ServerFairness

-----------------------------------------------------------------------------
\* The shape of the state: which runs, tasks and servers refer to which.
ServerTypeOK ==
  /\ QueueTypeOK
  /\ task       \in [Runs -> Tasks \cup {NoTask}]
  /\ host       \in [Runs -> Servers \cup {NoServer}]
  /\ phase      \in [Runs -> {"idle", "running", "returned"}]
  /\ outcome    \in [Runs -> HandlerErrors \cup {NoError}]
  /\ supervised \subseteq Runs
  /\ ctxDone    \subseteq Runs
  /\ stopping   \subseteq Servers

(***************************************************************************)
(* Every dispatch of a task is paid for once: by the retry budget, by a    *)
(* delay or shutdown that is free, or by the dispatch that is open or has  *)
(* finished the task.  So a task is never tried more than MaxRetry + 1     *)
(* times on counted errors, whatever crashes, deadlines and lapsed leases  *)
(* interleave (TASK_MAX_RETRY and WEBHOOK_MAX_RETRY).                      *)
(***************************************************************************)
DispatchesAccounted ==
  \A t \in Tasks :
    dispatched[t] = retried[t] + spared[t]
                    + (IF state[t] \in {"active"} \cup Terminal THEN 1 ELSE 0)

(***************************************************************************)
(* A lease is held by a live, supervised run of that very task, and only   *)
(* while the task is active: however many unsupervised or stale runs of    *)
(* the task are still going, one processor at most can write it back.      *)
(***************************************************************************)
LeaseIsExclusive ==
  \A t \in Tasks :
    holder[t] # NoRun =>
      /\ state[t] = "active"
      /\ holder[t] \in supervised
      /\ task[holder[t]] = t

(***************************************************************************)
(* CONCURRENCY (README.md:252, 266) bounds the runs of a process whose     *)
(* context is still good, and which may therefore run FFmpeg or send a     *)
(* request.  Runs beyond it exist, but they are cancelled.                 *)
(***************************************************************************)
LiveWithinConcurrency ==
  \A w \in Servers :
    Cardinality({r \in Runs : host[r] = w /\ r \notin ctxDone}) <= Concurrency

(***************************************************************************)
(* A finished task stays as it was finished until it is deleted: a late    *)
(* run, a late recoverer or a late forwarder never revives it or flips     *)
(* SUCCESS and FAILED.                                                     *)
(***************************************************************************)
TerminalIsFinal ==
  [][\A t \in Tasks :
       state[t] \in Terminal =>
         /\ state'[t] \in {state[t], "deleted"}
         /\ lastErr'[t] = lastErr[t]]_serverVars

(***************************************************************************)
(* The dead-letter set is the last resort: a task is only archived when    *)
(* its retry budget is used up, and never for an error that IsFailure      *)
(* excuses (worker/main.go:110-116).                                       *)
(***************************************************************************)
ArchivedOnlyWhenExhausted ==
  \A t \in Tasks :
    state[t] = "archived" => retried[t] = MaxRetry /\ lastErr[t] \notin Uncounted

(***************************************************************************)
(* Every submitted task is finished, although handlers may hang for ever,  *)
(* leases lapse and processes crash and restart without end: the deadline  *)
(* frees the slot, the recoverer takes lost tasks back, and each of them   *)
(* uses up the budget.  MaxSpared is part of the claim: a task that is     *)
(* delayed for ever by the memory gate is never finished.                  *)
(***************************************************************************)
EveryTaskFinishes ==
  \A t \in Tasks : (state[t] = "pending") ~> (state[t] \in Terminal)

=============================================================================
