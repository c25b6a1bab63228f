------------------------------ MODULE TaskQueue ------------------------------
(***************************************************************************)
(* One asynq queue as this repository uses it: the tasks kept in Redis,    *)
(* which outlive every process.  The API enqueues commands on the queue    *)
(* "ffmpeg" (api/main.go:265-270), the worker enqueues notifications on    *)
(* the queue "webhooks" (worker/main.go:325-329), and both are consumed by *)
(* an asynq server (worker/main.go:104-126, webhooks/main.go:42-56).  The  *)
(* library is not part of the repository: it is modelled from these uses.  *)
(*                                                                         *)
(* A task that is being processed is leased to one run of its handler.     *)
(* Only the run that holds the lease may write the task back; a task whose *)
(* lease has lapsed is picked up by the recoverer.                         *)
(***************************************************************************)
EXTENDS Naturals

CONSTANTS
  Tasks,          \* task ids
  Runs,           \* handler runs (goroutines) that may hold a lease
  NoRun,          \* no lease
  MaxRetry,       \* asynq.MaxRetry of the task
  HandlerErrors,  \* what a handler may return
  Uncounted,      \* the errors for which Config.IsFailure answers false
  MaxSpared       \* BOUND: dispatches per task the retry budget does not pay

ASSUME QueueAssumption ==
  /\ NoRun \notin Runs
  /\ MaxRetry \in Nat
  /\ MaxSpared \in Nat
  /\ HandlerErrors \cap {"no_error", "deadline_exceeded", "lease_expired"} = {}
  /\ Uncounted \subseteq HandlerErrors

VARIABLES
  state,       \* where Redis keeps the task
  retried,     \* failures counted against MaxRetry
  lastErr,     \* the last error, NoError if there was none
  holder,      \* the run with a valid lease on an active task
  dispatched,  \* history: how often the task was handed to a run
  spared       \* history: how often it came back without being counted

queueVars == <<state, retried, lastErr, holder, dispatched, spared>>

States   == {"absent", "pending", "active", "retry", "completed", "archived",
             "deleted"}
Terminal == {"completed", "archived", "deleted"}
NoError  == "no_error"
Errors   == HandlerErrors \cup {"deadline_exceeded", "lease_expired"}

QueueInit ==
  /\ state      = [t \in Tasks |-> "absent"]
  /\ retried    = [t \in Tasks |-> 0]
  /\ lastErr    = [t \in Tasks |-> NoError]
  /\ holder     = [t \in Tasks |-> NoRun]
  /\ dispatched = [t \in Tasks |-> 0]
  /\ spared     = [t \in Tasks |-> 0]

Move(t, from, to) ==
  /\ state[t] = from
  /\ state' = [state EXCEPT ![t] = to]

(***************************************************************************)
(* Operations of clients and servers on the queue.                         *)
(***************************************************************************)
Enqueue(t) ==
  /\ Move(t, "absent", "pending")
  /\ UNCHANGED <<retried, lastErr, holder, dispatched, spared>>

Dequeue(t, r) ==
  /\ Move(t, "pending", "active")
  /\ holder'     = [holder EXCEPT ![t] = r]
  /\ dispatched' = [dispatched EXCEPT ![t] = @ + 1]
  /\ UNCHANGED <<retried, lastErr, spared>>

Complete(t, r) ==
  /\ holder[t] = r
  /\ Move(t, "active", "completed")
  /\ holder' = [holder EXCEPT ![t] = NoRun]
  /\ UNCHANGED <<retried, lastErr, dispatched, spared>>

\* An error outside the budget: the task waits for a retry, nothing counted.
Spare(t, e) ==
  /\ e \in Uncounted
  /\ spared[t] < MaxSpared
  /\ Move(t, "active", "retry")
  /\ spared' = [spared EXCEPT ![t] = @ + 1]
  /\ UNCHANGED retried

\* Mutant: the budget is off by one.
RetryOnceMore(t, e) ==
  /\ e \notin Uncounted
  /\ retried[t] <= MaxRetry
  /\ Move(t, "active", "retry")
  /\ retried' = [retried EXCEPT ![t] = @ + 1]
  /\ UNCHANGED spared

\* A counted error with budget left.
Retry(t, e) ==
  /\ e \notin Uncounted
  /\ retried[t] < MaxRetry
  /\ Move(t, "active", "retry")
  /\ retried' = [retried EXCEPT ![t] = @ + 1]
  /\ UNCHANGED spared

\* Mutant: dead-lettered one retry early.
ArchiveEarly(t, e) ==
  /\ e \notin Uncounted
  /\ retried[t] + 1 >= MaxRetry
  /\ Move(t, "active", "archived")
  /\ UNCHANGED <<retried, spared>>

\* A counted error with the budget exhausted: the dead-letter set.
Archive(t, e) ==
  /\ e \notin Uncounted
  /\ retried[t] >= MaxRetry
  /\ Move(t, "active", "archived")
  /\ UNCHANGED <<retried, spared>>

PutBack(t, e) ==
  /\ Spare(t, e) \/ Retry(t, e) \/ Archive(t, e)
  /\ lastErr' = [lastErr EXCEPT ![t] = e]
  /\ holder'  = [holder EXCEPT ![t] = NoRun]
  /\ UNCHANGED dispatched

Fail(t, r, e) ==
  /\ holder[t] = r
  /\ PutBack(t, e)

\* Mutant: the lease outlives the push.
RequeueLeased(t, r) ==
  /\ holder[t] = r
  /\ spared[t] < MaxSpared
  /\ Move(t, "active", "pending")
  /\ spared' = [spared EXCEPT ![t] = @ + 1]
  /\ UNCHANGED <<retried, lastErr, holder, dispatched>>

\* A server that shuts down pushes an unfinished task back, uncounted.
Requeue(t, r) ==
  /\ holder[t] = r
  /\ spared[t] < MaxSpared
  /\ Move(t, "active", "pending")
  /\ holder' = [holder EXCEPT ![t] = NoRun]
  /\ spared' = [spared EXCEPT ![t] = @ + 1]
  /\ UNCHANGED <<retried, lastErr, dispatched>>

\* The heartbeat that renews the lease of t failed for too long.
LoseLease(t) ==
  /\ holder[t] # NoRun
  /\ holder' = [holder EXCEPT ![t] = NoRun]
  /\ UNCHANGED <<state, retried, lastErr, dispatched, spared>>

\* Mutant: a lost run is free.
RecoverUncounted(t) ==
  /\ Move(t, "active", "retry")
  /\ holder[t] = NoRun
  /\ lastErr' = [lastErr EXCEPT ![t] = "lease_expired"]
  /\ UNCHANGED <<retried, holder, dispatched, spared>>

\* The recoverer of any live server takes a task without a lease back.
Recover(t) ==
  /\ state[t] = "active"
  /\ holder[t] = NoRun
  /\ PutBack(t, "lease_expired")

\* Mutant: the dead-letter set is forwarded, too.
ForwardDead(t) ==
  /\ Move(t, "retry", "pending") \/ Move(t, "archived", "pending")
  /\ UNCHANGED <<retried, lastErr, holder, dispatched, spared>>

\* The forwarder moves a task whose retry delay has passed.
Forward(t) ==
  /\ Move(t, "retry", "pending")
  /\ UNCHANGED <<retried, lastErr, holder, dispatched, spared>>

\* The janitor deletes a finished task once its retention is over.
Expire(t) ==
  /\ Move(t, "completed", "deleted") \/ Move(t, "archived", "deleted")
  /\ UNCHANGED <<retried, lastErr, holder, dispatched, spared>>

-----------------------------------------------------------------------------
QueueTypeOK ==
  /\ state      \in [Tasks -> States]
  /\ retried    \in [Tasks -> 0 .. MaxRetry]
  /\ lastErr    \in [Tasks -> Errors \cup {NoError}]
  /\ holder     \in [Tasks -> Runs \cup {NoRun}]
  /\ dispatched \in [Tasks -> Nat]
  /\ spared     \in [Tasks -> 0 .. MaxSpared]

=============================================================================
