-------------------------- MODULE TaskServerProofs ---------------------------
(***************************************************************************)
(* What holds of the asynq servers for every number of tasks, runs and     *)
(* processes, every retry budget and every handler.                        *)
(***************************************************************************)
EXTENDS TaskServer, FiniteSetTheorems, TLAPS

\* A run with a processor works on a task, in a process.
SupervisedWork ==
  \A r \in supervised :
    phase[r] # "idle" /\ task[r] \in Tasks /\ host[r] \in Servers

\* Types, and who may hold a lease: the inductive core of the module.
LeaseInv == ServerTypeOK /\ SupervisedWork /\ LeaseIsExclusive

USE QueueAssumption, ServerAssumption

LEMMA ConstantsApart ==
  /\ NoError \notin HandlerErrors
  /\ {"deadline_exceeded", "lease_expired"} \cap Uncounted = {}
BY DEF QueueAssumption, NoError

(***************************************************************************)
(* Queue operations keep the queue's type.                                 *)
(***************************************************************************)
LEMMA PutBackType ==
  ASSUME QueueTypeOK, NEW t \in Tasks, NEW e \in Errors, PutBack(t, e)
  PROVE  QueueTypeOK'
<1>1. /\ state' \in [Tasks -> States]
      /\ retried' \in [Tasks -> 0 .. MaxRetry]
      /\ spared' \in [Tasks -> 0 .. MaxSpared]
  BY DEF QueueTypeOK, PutBack, Spare, Retry, Archive, Move, States,
         QueueAssumption
<1>2. /\ lastErr' \in [Tasks -> Errors \cup {NoError}]
      /\ holder' \in [Tasks -> Runs \cup {NoRun}]
      /\ dispatched' \in [Tasks -> Nat]
  BY DEF QueueTypeOK, PutBack
<1> QED BY <1>1, <1>2 DEF QueueTypeOK

LEMMA OtherOperationsType ==
  ASSUME QueueTypeOK, NEW t \in Tasks,
         \/ Enqueue(t) \/ LoseLease(t) \/ Forward(t) \/ Expire(t)
         \/ \E r \in Runs : Dequeue(t, r) \/ Complete(t, r) \/ Requeue(t, r)
  PROVE  QueueTypeOK'
BY DEF QueueTypeOK, Enqueue, Dequeue, Complete, Requeue, LoseLease, Forward,
       Expire, Move, States, QueueAssumption

(***************************************************************************)
(* The runs.                                                               *)
(***************************************************************************)
RunTypeOK ==
  /\ task       \in [Runs -> Tasks \cup {NoTask}]
  /\ host       \in [Runs -> Servers \cup {NoServer}]
  /\ phase      \in [Runs -> {"idle", "running", "returned"}]
  /\ outcome    \in [Runs -> HandlerErrors \cup {NoError}]
  /\ supervised \subseteq Runs
  /\ ctxDone    \subseteq Runs

LEMMA VanishRuns ==
  ASSUME RunTypeOK, NEW gone \in SUBSET Runs, Vanish(gone)
  PROVE  /\ RunTypeOK'
         /\ supervised' = supervised \ gone
         /\ \A r \in Runs \ gone : /\ task'[r] = task[r]
                                   /\ host'[r] = host[r]
                                   /\ phase'[r] = phase[r]
BY DEF RunTypeOK, Vanish

\* The settled run loses its processor, and nothing changes for another.
LEMMA UnsuperviseRuns ==
  ASSUME RunTypeOK, NEW r \in Runs, Unsupervise(r)
  PROVE  /\ RunTypeOK'
         /\ supervised' = supervised \ {r}
         /\ \A q \in Runs \ {r} : /\ task'[q] = task[q]
                                  /\ host'[q] = host[q]
                                  /\ phase'[q] = phase[q]
<1>1. CASE Vanish({r})
  BY <1>1, VanishRuns
<1>2. CASE phase[r] = "running" /\ ~Vanish({r})
  BY <1>2 DEF Unsupervise, RunTypeOK
<1> QED BY <1>1, <1>2 DEF Unsupervise

\* A processor gives up its run and its lease, if it has one.
LEMMA UnsuperviseKeepsLeases ==
  ASSUME RunTypeOK, SupervisedWork, LeaseIsExclusive,
         NEW r \in supervised, Unsupervise(r),
         \A t \in Tasks : holder'[t] # NoRun =>
           holder'[t] = holder[t] /\ holder[t] # r /\ state'[t] = state[t]
  PROVE  SupervisedWork' /\ LeaseIsExclusive'
<1>1. r \in Runs
  BY DEF RunTypeOK
<1>2. /\ supervised' = supervised \ {r}
      /\ \A q \in supervised' : /\ task'[q] = task[q]
                                /\ host'[q] = host[q]
                                /\ phase'[q] = phase[q]
  BY <1>1, UnsuperviseRuns DEF RunTypeOK
<1>3. SupervisedWork'
  BY <1>2 DEF SupervisedWork
<1>4. LeaseIsExclusive'
  BY <1>2 DEF LeaseIsExclusive
<1> QED BY <1>3, <1>4

LEMMA LeaseInvInit == ServerInit => LeaseInv
BY DEF ServerInit, QueueInit, LeaseInv, ServerTypeOK, QueueTypeOK, States,
       SupervisedWork, LeaseIsExclusive, QueueAssumption

LEMMA LeaseInvStep == LeaseInv /\ [ServerNext]_serverVars => LeaseInv'
<1> SUFFICES ASSUME LeaseInv, [ServerNext]_serverVars
             PROVE  LeaseInv'
  OBVIOUS
<1>q. QueueTypeOK /\ RunTypeOK /\ stopping \subseteq Servers
  BY DEF LeaseInv, ServerTypeOK, RunTypeOK
<1>i. SupervisedWork /\ LeaseIsExclusive
  BY DEF LeaseInv
<1>split. QueueTypeOK' /\ RunTypeOK' /\ stopping' \subseteq Servers => ServerTypeOK'
  BY DEF ServerTypeOK, RunTypeOK
\* Steps of the queue alone.
<1>1. ASSUME NEW t \in Tasks, Submit(t) \/ Promote(t) \/ Forget(t) \/ LeaseLapses(t)
      PROVE  LeaseInv'
  <2>1. QueueTypeOK'
    BY <1>1, <1>q, OtherOperationsType
       DEF Submit, Promote, Forget, LeaseLapses
  <2>2. RunTypeOK' /\ stopping' \subseteq Servers /\ SupervisedWork'
    BY <1>1, <1>q, <1>i
       DEF Submit, Promote, Forget, LeaseLapses, procVars, runVars, RunTypeOK, SupervisedWork
  <2>3. LeaseIsExclusive'
    BY <1>1, <1>q, <1>i
       DEF Submit, Promote, Forget, LeaseLapses, procVars, runVars, LeaseIsExclusive,
           Enqueue, Forward, Expire, LoseLease, Move, QueueTypeOK
  <2> QED BY <2>1, <2>2, <2>3, <1>split DEF LeaseInv
<1>2. ASSUME NEW t \in Tasks, RecoverTask(t)
      PROVE  LeaseInv'
  <2>1. QueueTypeOK'
    <3>1. "lease_expired" \in Errors
      BY DEF Errors
    <3> QED BY <1>2, <1>q, <3>1, PutBackType DEF RecoverTask, Recover
  <2>2. RunTypeOK' /\ stopping' \subseteq Servers /\ SupervisedWork'
    BY <1>2, <1>q, <1>i DEF RecoverTask, procVars, runVars, RunTypeOK, SupervisedWork
  <2>3. LeaseIsExclusive'
    BY <1>2, <1>q, <1>i
       DEF RecoverTask, Recover, PutBack, Spare, Retry, Archive, Move, procVars,
           runVars, LeaseIsExclusive, QueueTypeOK
  <2> QED BY <2>1, <2>2, <2>3, <1>split DEF LeaseInv
\* Steps of a run.
<1>3. ASSUME NEW w \in Servers, NEW t \in Tasks, NEW r \in Runs, Pick(w, t, r)
      PROVE  LeaseInv'
  <2>1. QueueTypeOK'
    BY <1>3, <1>q, OtherOperationsType DEF Pick
  <2>2. RunTypeOK' /\ stopping' \subseteq Servers
    BY <1>3, <1>q DEF Pick, RunTypeOK
  <2>3. r \notin supervised
    BY <1>3, <1>i DEF Pick, SupervisedWork
  <2>4. SupervisedWork'
    BY <1>3, <1>q, <1>i DEF Pick, SupervisedWork, RunTypeOK
  <2>5. LeaseIsExclusive'
    BY <1>3, <1>q, <1>i, <2>3
       DEF Pick, Dequeue, Move, LeaseIsExclusive, RunTypeOK, QueueTypeOK, QueueAssumption
  <2> QED BY <2>1, <2>2, <2>4, <2>5, <1>split DEF LeaseInv
<1>4. ASSUME NEW r \in Runs, NEW e \in HandlerErrors \cup {NoError}, Return(r, e)
      PROVE  LeaseInv'
  <2>1. QueueTypeOK' /\ stopping' \subseteq Servers
    BY <1>4, <1>q DEF Return, queueVars, QueueTypeOK
  <2>2. CASE r \in supervised
    <3>1. /\ RunTypeOK'
          /\ supervised' = supervised
          /\ \A q \in Runs : task'[q] = task[q] /\ host'[q] = host[q]
          /\ \A q \in Runs : phase[q] # "idle" => phase'[q] # "idle"
      BY <1>4, <1>q, <2>2 DEF Return, RunTypeOK
    <3> QED
      BY <1>4, <1>i, <1>q, <2>1, <3>1, <1>split
         DEF Return, queueVars, LeaseInv, SupervisedWork, LeaseIsExclusive, RunTypeOK
  <2>3. CASE r \notin supervised
    <3>1. Vanish({r})
      BY <1>4, <2>3 DEF Return
    <3>2. /\ RunTypeOK'
          /\ supervised' = supervised
          /\ \A q \in supervised :
               task'[q] = task[q] /\ host'[q] = host[q] /\ phase'[q] = phase[q]
      BY <3>1, <1>q, <2>3, VanishRuns DEF RunTypeOK
    <3> QED
      BY <1>4, <1>i, <2>1, <3>2, <1>split
         DEF Return, queueVars, LeaseInv, SupervisedWork, LeaseIsExclusive
  <2> QED BY <2>2, <2>3
<1>5. ASSUME NEW r \in Runs, Deadline(r)
      PROVE  LeaseInv'
  BY <1>5, <1>q, <1>i, <1>split
     DEF Deadline, LeaseInv, queueVars, QueueTypeOK, RunTypeOK, SupervisedWork,
         LeaseIsExclusive
<1>6. ASSUME NEW r \in Runs, SettleSuccess(r)
      PROVE  LeaseInv'
  <2>1. task[r] \in Tasks /\ r \in supervised
    BY <1>6, <1>i DEF SettleSuccess, SupervisedWork
  <2>2. QueueTypeOK'
    BY <1>6, <1>q, <2>1, OtherOperationsType DEF SettleSuccess
  <2>3. RunTypeOK' /\ stopping' \subseteq Servers
    BY <1>6, <1>q, UnsuperviseRuns DEF SettleSuccess
  <2>4. SupervisedWork' /\ LeaseIsExclusive'
    <3>1. \A t \in Tasks : holder'[t] # NoRun =>
            holder'[t] = holder[t] /\ holder[t] # r /\ state'[t] = state[t]
      BY <1>6, <1>q, <1>i, <2>1
         DEF SettleSuccess, Complete, Move, LeaseIsExclusive, QueueTypeOK
    <3> QED BY <1>6, <1>q, <1>i, <2>1, <3>1, UnsuperviseKeepsLeases DEF SettleSuccess
  <2> QED BY <2>2, <2>3, <2>4, <1>split DEF LeaseInv
<1>7. ASSUME NEW r \in Runs, NEW e \in Errors, r \in supervised,
             Fail(task[r], r, e), Unsupervise(r), UNCHANGED stopping
      PROVE  LeaseInv'
  <2>1. task[r] \in Tasks
    BY <1>7, <1>i DEF SupervisedWork
  <2>2. QueueTypeOK'
    BY <1>7, <1>q, <2>1, PutBackType DEF Fail
  <2>3. RunTypeOK' /\ stopping' \subseteq Servers
    BY <1>7, <1>q, UnsuperviseRuns
  <2>4. SupervisedWork' /\ LeaseIsExclusive'
    <3>1. \A t \in Tasks : holder'[t] # NoRun =>
            holder'[t] = holder[t] /\ holder[t] # r /\ state'[t] = state[t]
      BY <1>7, <1>q, <1>i, <2>1
         DEF Fail, PutBack, Spare, Retry, Archive, Move, LeaseIsExclusive, QueueTypeOK
    <3> QED BY <1>7, <1>q, <1>i, <3>1, UnsuperviseKeepsLeases
  <2> QED BY <2>2, <2>3, <2>4, <1>split DEF LeaseInv
<1>8. ASSUME NEW r \in Runs, SettleFailure(r)
      PROVE  LeaseInv'
  <2>1. outcome[r] \in Errors
    BY <1>8, <1>q DEF SettleFailure, RunTypeOK, Errors
  <2> QED BY <1>8, <1>7, <2>1 DEF SettleFailure
<1>9. ASSUME NEW r \in Runs, SettleDeadline(r)
      PROVE  LeaseInv'
  BY <1>9, <1>7 DEF SettleDeadline, Errors
<1>10. ASSUME NEW r \in Runs, DropStale(r)
       PROVE  LeaseInv'
  <2>1. QueueTypeOK' /\ stopping' \subseteq Servers
    BY <1>10, <1>q DEF DropStale, queueVars, QueueTypeOK
  <2>2. RunTypeOK'
    BY <1>10, <1>q, UnsuperviseRuns DEF DropStale
  <2>3. \A t \in Tasks : holder[t] # r
    BY <1>10, <1>i, <1>q DEF DropStale, LeaseIsExclusive, RunTypeOK, QueueAssumption
  <2>4. SupervisedWork' /\ LeaseIsExclusive'
    BY <1>10, <1>q, <1>i, <2>3, UnsuperviseKeepsLeases DEF DropStale, queueVars
  <2> QED BY <2>1, <2>2, <2>4, <1>split DEF LeaseInv
<1>11. ASSUME NEW r \in Runs, Abort(r)
       PROVE  LeaseInv'
  <2>1. task[r] \in Tasks /\ r \in supervised
    BY <1>11, <1>i DEF Abort, SupervisedWork
  <2>2. QueueTypeOK'
    BY <1>11, <1>q, <2>1, OtherOperationsType DEF Abort
  <2>3. RunTypeOK' /\ stopping' \subseteq Servers
    BY <1>11, <1>q, UnsuperviseRuns DEF Abort
  <2>4. SupervisedWork' /\ LeaseIsExclusive'
    <3>1. \A t \in Tasks : holder'[t] # NoRun =>
            holder'[t] = holder[t] /\ holder[t] # r /\ state'[t] = state[t]
      BY <1>11, <1>q, <1>i, <2>1
         DEF Abort, Requeue, Move, LeaseIsExclusive, QueueTypeOK
    <3> QED BY <1>11, <1>q, <1>i, <2>1, <3>1, UnsuperviseKeepsLeases DEF Abort
  <2> QED BY <2>2, <2>3, <2>4, <1>split DEF LeaseInv
\* Steps of a process.
<1>12. ASSUME NEW w \in Servers, Stop(w)
       PROVE  LeaseInv'
  BY <1>12, <1>q, <1>i, <1>split
     DEF Stop, LeaseInv, queueVars, runVars, QueueTypeOK, RunTypeOK, SupervisedWork,
         LeaseIsExclusive
<1>13. ASSUME NEW w \in Servers, Crash(w)
       PROVE  LeaseInv'
  <2> DEFINE gone == {r \in Runs : host[r] = w}
  <2>1. Vanish(gone)
    BY <1>13 DEF Crash
  <2>2. /\ RunTypeOK'
        /\ supervised' = supervised \ gone
        /\ \A r \in supervised \ gone :
             task'[r] = task[r] /\ host'[r] = host[r] /\ phase'[r] = phase[r]
    BY <2>1, <1>q, VanishRuns DEF RunTypeOK
  <2>3. QueueTypeOK' /\ stopping' \subseteq Servers
    BY <1>13, <1>q DEF Crash, QueueTypeOK
  <2>4. SupervisedWork'
    BY <2>2, <1>i DEF SupervisedWork
  <2>5. LeaseIsExclusive'
    BY <1>13, <2>2, <1>i, <1>q DEF Crash, LeaseIsExclusive, QueueTypeOK
  <2> QED BY <2>2, <2>3, <2>4, <2>5, <1>split DEF LeaseInv
<1>14. CASE UNCHANGED serverVars
  BY <1>14, <1>q, <1>i, <1>split
     DEF serverVars, procVars, queueVars, runVars, LeaseInv, QueueTypeOK, RunTypeOK,
         SupervisedWork, LeaseIsExclusive
<1> QED
  BY <1>1, <1>2, <1>3, <1>4, <1>5, <1>6, <1>8, <1>9, <1>10, <1>11, <1>12, <1>13, <1>14
     DEF ServerNext, Settle

(***************************************************************************)
(* The type invariant, for every instance.                                 *)
(***************************************************************************)
THEOREM ServerTypeCorrect == ServerSpec => []ServerTypeOK
<1>1. LeaseInv => ServerTypeOK
  BY DEF LeaseInv
<1> QED BY <1>1, LeaseInvInit, LeaseInvStep, PTL DEF ServerSpec

(***************************************************************************)
(* At most one processor can ever write a task back: the holder of the     *)
(* lease is a supervised run of that task and the task is active.          *)
(***************************************************************************)
THEOREM LeaseCorrect == ServerSpec => []LeaseIsExclusive
<1>1. LeaseInv => LeaseIsExclusive
  BY DEF LeaseInv
<1> QED BY <1>1, LeaseInvInit, LeaseInvStep, PTL DEF ServerSpec

(***************************************************************************)
(* Seen from Redis, every step of the servers is one operation on one      *)
(* task, or touches leases only.                                           *)
(***************************************************************************)
taskVars == <<state, retried, lastErr, dispatched, spared>>

Operation(t) ==
  \/ Enqueue(t) \/ Forward(t) \/ Expire(t)
  \/ \E r \in Runs : Dequeue(t, r) \/ Complete(t, r) \/ Requeue(t, r)
  \/ \E e \in Errors : PutBack(t, e)

LEMMA StepIsOperation ==
  ASSUME LeaseInv, [ServerNext]_serverVars
  PROVE  UNCHANGED taskVars \/ \E t \in Tasks : Operation(t)
<1>1. CASE UNCHANGED serverVars
  BY <1>1 DEF serverVars, queueVars, taskVars
<1>2. ASSUME NEW t \in Tasks,
             Submit(t) \/ Promote(t) \/ Forget(t) \/ RecoverTask(t) \/ LeaseLapses(t)
      PROVE  UNCHANGED taskVars \/ Operation(t)
  <2>1. "lease_expired" \in Errors
    BY DEF Errors
  <2> QED
    BY <1>2, <2>1 DEF Submit, Promote, Forget, RecoverTask, Recover, LeaseLapses, LoseLease,
                      taskVars, Operation
<1>3. ASSUME NEW w \in Servers, NEW t \in Tasks, NEW r \in Runs, Pick(w, t, r)
      PROVE  Operation(t)
  BY <1>3 DEF Pick, Operation
<1>4. ASSUME NEW r \in Runs,
             \/ \E e \in HandlerErrors \cup {NoError} : Return(r, e)
             \/ Deadline(r) \/ DropStale(r)
      PROVE  UNCHANGED taskVars
  BY <1>4 DEF Return, Deadline, DropStale, queueVars, taskVars
<1>5. ASSUME NEW r \in Runs,
             SettleSuccess(r) \/ SettleFailure(r) \/ SettleDeadline(r) \/ Abort(r)
      PROVE  \E t \in Tasks : Operation(t)
  <2>1. r \in supervised /\ task[r] \in Tasks
    BY <1>5 DEF SettleSuccess, SettleFailure, SettleDeadline, Abort, LeaseInv, SupervisedWork
  <2>2. CASE SettleSuccess(r) \/ Abort(r)
    BY <2>1, <2>2 DEF SettleSuccess, Abort, Operation
  <2>3. CASE SettleFailure(r)
    <3>1. outcome[r] \in Errors
      BY <2>3 DEF SettleFailure, LeaseInv, ServerTypeOK, Errors
    <3> QED BY <2>1, <2>3, <3>1 DEF SettleFailure, Fail, Operation
  <2>4. CASE SettleDeadline(r)
    <3>1. "deadline_exceeded" \in Errors
      BY DEF Errors
    <3> QED BY <2>1, <2>4, <3>1 DEF SettleDeadline, Fail, Operation
  <2> QED BY <1>5, <2>2, <2>3, <2>4
<1>6. ASSUME NEW w \in Servers, Stop(w) \/ Crash(w)
      PROVE  UNCHANGED taskVars
  BY <1>6 DEF Stop, Crash, queueVars, taskVars
<1> QED BY <1>1, <1>2, <1>3, <1>4, <1>5, <1>6 DEF ServerNext, Settle

(***************************************************************************)
(* No interleaving of deadlines, lapsed leases, shutdowns and crashes      *)
(* creates a dispatch that is not accounted for.                           *)
(***************************************************************************)
LEMMA AccountedStep ==
  ASSUME LeaseInv, DispatchesAccounted, [ServerNext]_serverVars
  PROVE  DispatchesAccounted'
<1>q. QueueTypeOK
  BY DEF LeaseInv, ServerTypeOK
<1>1. CASE UNCHANGED taskVars
  BY <1>1 DEF taskVars, DispatchesAccounted
<1>2. ASSUME NEW t \in Tasks, Operation(t)
      PROVE  DispatchesAccounted'
  <2>1. CASE Enqueue(t) \/ Forward(t) \/ Expire(t)
    BY <1>q, <2>1 DEF Enqueue, Forward, Expire, Move, QueueTypeOK, DispatchesAccounted, Terminal
  <2>2. ASSUME NEW r \in Runs, Dequeue(t, r) \/ Complete(t, r) \/ Requeue(t, r)
        PROVE  DispatchesAccounted'
    <3>1. CASE Dequeue(t, r)
      BY <1>q, <3>1 DEF Dequeue, Move, QueueTypeOK, DispatchesAccounted, Terminal
    <3>2. CASE Complete(t, r)
      BY <1>q, <3>2 DEF Complete, Move, QueueTypeOK, DispatchesAccounted, Terminal
    <3>3. CASE Requeue(t, r)
      BY <1>q, <3>3 DEF Requeue, Move, QueueTypeOK, DispatchesAccounted, Terminal
    <3> QED BY <2>2, <3>1, <3>2, <3>3
  <2>3. ASSUME NEW e \in Errors, PutBack(t, e)
        PROVE  DispatchesAccounted'
    <3>1. CASE Spare(t, e)
      BY <1>q, <2>3, <3>1 DEF PutBack, Spare, Move, QueueTypeOK, DispatchesAccounted, Terminal
    <3>2. CASE Retry(t, e)
      BY <1>q, <2>3, <3>2 DEF PutBack, Retry, Move, QueueTypeOK, DispatchesAccounted, Terminal
    <3>3. CASE Archive(t, e)
      BY <1>q, <2>3, <3>3 DEF PutBack, Archive, Move, QueueTypeOK, DispatchesAccounted, Terminal
    <3> QED BY <2>3, <3>1, <3>2, <3>3 DEF PutBack
  <2> QED BY <1>2, <2>1, <2>2, <2>3 DEF Operation
<1> QED BY <1>1, <1>2, StepIsOperation

THEOREM DispatchesCorrect == ServerSpec => []DispatchesAccounted
<1>1. ServerInit => DispatchesAccounted
  <2> SUFFICES ASSUME ServerInit, NEW t \in Tasks
               PROVE  dispatched[t] = retried[t] + spared[t]
                        + (IF state[t] \in {"active"} \cup Terminal THEN 1 ELSE 0)
    BY DEF DispatchesAccounted
  <2>1. dispatched[t] = 0 /\ retried[t] = 0 /\ spared[t] = 0 /\ state[t] = "absent"
    BY DEF ServerInit, QueueInit
  <2> QED BY <2>1 DEF Terminal
<1>2. LeaseInv /\ DispatchesAccounted /\ [ServerNext]_serverVars => DispatchesAccounted'
  BY AccountedStep
<1> QED BY <1>1, <1>2, LeaseInvInit, LeaseInvStep, PTL DEF ServerSpec

(***************************************************************************)
(* A task is dead-lettered only with its retry budget used up, and never   *)
(* on an error that IsFailure excuses.                                     *)
(***************************************************************************)
LEMMA ArchivedStep ==
  ASSUME LeaseInv, ArchivedOnlyWhenExhausted, [ServerNext]_serverVars
  PROVE  ArchivedOnlyWhenExhausted'
<1>q. QueueTypeOK
  BY DEF LeaseInv, ServerTypeOK
<1>1. CASE UNCHANGED taskVars
  BY <1>1 DEF taskVars, ArchivedOnlyWhenExhausted
<1>2. ASSUME NEW t \in Tasks, Operation(t)
      PROVE  ArchivedOnlyWhenExhausted'
  <2>1. CASE Enqueue(t) \/ Forward(t) \/ Expire(t)
    BY <1>q, <2>1
       DEF Enqueue, Forward, Expire, Move, QueueTypeOK, ArchivedOnlyWhenExhausted
  <2>2. ASSUME NEW r \in Runs, Dequeue(t, r) \/ Complete(t, r) \/ Requeue(t, r)
        PROVE  ArchivedOnlyWhenExhausted'
    BY <1>q, <2>2
       DEF Dequeue, Complete, Requeue, Move, QueueTypeOK, ArchivedOnlyWhenExhausted
  <2>3. ASSUME NEW e \in Errors, PutBack(t, e)
        PROVE  ArchivedOnlyWhenExhausted'
    BY <1>q, <2>3 DEF PutBack, Spare, Retry, Archive, Move, QueueTypeOK,
                      ArchivedOnlyWhenExhausted, QueueAssumption
  <2> QED BY <1>2, <2>1, <2>2, <2>3 DEF Operation
<1> QED BY <1>1, <1>2, StepIsOperation

THEOREM ArchivedCorrect == ServerSpec => []ArchivedOnlyWhenExhausted
<1>1. ServerInit => ArchivedOnlyWhenExhausted
  BY DEF ServerInit, QueueInit, ArchivedOnlyWhenExhausted
<1>2. LeaseInv /\ ArchivedOnlyWhenExhausted /\ [ServerNext]_serverVars
        => ArchivedOnlyWhenExhausted'
  BY ArchivedStep
<1> QED BY <1>1, <1>2, LeaseInvInit, LeaseInvStep, PTL DEF ServerSpec

(***************************************************************************)
(* No step of any run, recoverer or forwarder revives a finished task or   *)
(* turns SUCCESS into FAILED or back.                                      *)
(***************************************************************************)
LEMMA TerminalStep ==
  ASSUME LeaseInv, [ServerNext]_serverVars,
         NEW t \in Tasks, state[t] \in Terminal
  PROVE  state'[t] \in {state[t], "deleted"} /\ lastErr'[t] = lastErr[t]
<1>q. QueueTypeOK
  BY DEF LeaseInv, ServerTypeOK
<1>1. CASE UNCHANGED taskVars
  BY <1>1 DEF taskVars
<1>2. ASSUME NEW u \in Tasks, Operation(u)
      PROVE  state'[t] \in {state[t], "deleted"} /\ lastErr'[t] = lastErr[t]
  <2>1. CASE Enqueue(u) \/ Forward(u) \/ Expire(u)
    BY <1>q, <2>1 DEF Enqueue, Forward, Expire, Move, QueueTypeOK, Terminal
  <2>2. ASSUME NEW r \in Runs, Dequeue(u, r) \/ Complete(u, r) \/ Requeue(u, r)
        PROVE  state'[t] \in {state[t], "deleted"} /\ lastErr'[t] = lastErr[t]
    BY <1>q, <2>2 DEF Dequeue, Complete, Requeue, Move, QueueTypeOK, Terminal
  <2>3. ASSUME NEW e \in Errors, PutBack(u, e)
        PROVE  state'[t] \in {state[t], "deleted"} /\ lastErr'[t] = lastErr[t]
    BY <1>q, <2>3 DEF PutBack, Spare, Retry, Archive, Move, QueueTypeOK, Terminal
  <2> QED BY <1>2, <2>1, <2>2, <2>3 DEF Operation
<1> QED BY <1>1, <1>2, StepIsOperation

THEOREM TerminalCorrect == ServerSpec => TerminalIsFinal
<1>1. LeaseInv /\ [ServerNext]_serverVars
        => [\A t \in Tasks :
              state[t] \in Terminal =>
                /\ state'[t] \in {state[t], "deleted"}
                /\ lastErr'[t] = lastErr[t]]_serverVars
  BY TerminalStep
<1> QED BY <1>1, LeaseInvInit, LeaseInvStep, PTL DEF ServerSpec, TerminalIsFinal

(***************************************************************************)
(* Slots.  A run without a processor is cancelled, so the runs with a good *)
(* context are supervised, and those are counted when they are picked.     *)
(***************************************************************************)
LeftoversCancelled ==
  \A r \in Runs : host[r] \in Servers /\ r \notin supervised => r \in ctxDone

SlotsKept ==
  \A w \in Servers :
    IsFiniteSet(Busy(w)) /\ Cardinality(Busy(w)) <= Concurrency

SlotInv == LeftoversCancelled /\ SlotsKept

LEMMA FewerBusy ==
  ASSUME SlotsKept, \A w \in Servers : Busy(w)' \subseteq Busy(w)
  PROVE  SlotsKept'
<1> SUFFICES ASSUME NEW w \in Servers
             PROVE  IsFiniteSet(Busy(w)') /\ Cardinality(Busy(w)') <= Concurrency
  BY DEF SlotsKept
<1>1. IsFiniteSet(Busy(w)) /\ Cardinality(Busy(w)) <= Concurrency
  BY DEF SlotsKept
<1>2. Busy(w)' \in SUBSET Busy(w)
  OBVIOUS
<1>3. IsFiniteSet(Busy(w)') /\ Cardinality(Busy(w)') <= Cardinality(Busy(w))
  BY <1>1, <1>2, FS_Subset
<1>4. Cardinality(Busy(w)) \in Nat /\ Cardinality(Busy(w)') \in Nat /\ Concurrency \in Nat
  BY <1>1, <1>3, FS_CardinalityType DEF ServerAssumption
<1> QED BY <1>1, <1>3, <1>4

LEMMA VanishSlots ==
  ASSUME RunTypeOK, LeftoversCancelled, NEW gone \in SUBSET Runs, Vanish(gone)
  PROVE  LeftoversCancelled' /\ \A w \in Servers : Busy(w)' \subseteq Busy(w)
BY DEF RunTypeOK, LeftoversCancelled, Vanish, Busy, ServerAssumption

LEMMA UnsuperviseSlots ==
  ASSUME RunTypeOK, LeftoversCancelled, NEW r \in Runs, Unsupervise(r)
  PROVE  LeftoversCancelled' /\ \A w \in Servers : Busy(w)' \subseteq Busy(w)
<1>1. CASE Vanish({r})
  BY <1>1, VanishSlots
<1>2. CASE /\ supervised' = supervised \ {r}
           /\ ctxDone' = ctxDone \cup {r}
           /\ host' = host
  BY <1>2 DEF LeftoversCancelled, Busy
<1> QED BY <1>1, <1>2 DEF Unsupervise

LEMMA SlotStep ==
  ASSUME LeaseInv, SlotInv, [ServerNext]_serverVars
  PROVE  SlotInv'
<1>q. RunTypeOK /\ SupervisedWork
  BY DEF LeaseInv, ServerTypeOK, RunTypeOK
<1>i. LeftoversCancelled /\ SlotsKept
  BY DEF SlotInv
\* Steps that touch neither slots nor contexts, or only cancel one.
<1>1. CASE host' = host /\ supervised' = supervised /\ ctxDone \subseteq ctxDone'
  <2>1. LeftoversCancelled' /\ \A w \in Servers : Busy(w)' \subseteq Busy(w)
    BY <1>1, <1>i DEF LeftoversCancelled, Busy
  <2> QED BY <1>i, <2>1, FewerBusy DEF SlotInv
<1>2. ASSUME NEW t \in Tasks,
             Submit(t) \/ Promote(t) \/ Forget(t) \/ RecoverTask(t) \/ LeaseLapses(t)
      PROVE  SlotInv'
  BY <1>1, <1>2
     DEF Submit, Promote, Forget, RecoverTask, LeaseLapses, procVars, runVars
<1>3. ASSUME NEW v \in Servers, NEW t \in Tasks, NEW r \in Runs, Pick(v, t, r)
      PROVE  SlotInv'
  <2>1. LeftoversCancelled'
    BY <1>3, <1>q, <1>i DEF Pick, RunTypeOK, LeftoversCancelled
  <2>2. r \notin supervised
    BY <1>3, <1>q DEF Pick, SupervisedWork
  <2>3. ASSUME NEW w \in Servers
        PROVE  IsFiniteSet(Busy(w)') /\ Cardinality(Busy(w)') <= Concurrency
    <3>1. /\ IsFiniteSet(Busy(w)) /\ Cardinality(Busy(w)) <= Concurrency
          /\ Cardinality(Busy(w)) \in Nat /\ Concurrency \in Nat
      BY <1>i, FS_CardinalityType DEF SlotsKept, ServerAssumption
    <3>2. CASE w # v
      <4>1. Busy(w)' = Busy(w)
        BY <1>3, <1>q, <2>2, <3>2 DEF Pick, Busy, RunTypeOK
      <4> QED BY <3>1, <4>1
    <3>3. CASE w = v
      <4>1. Busy(w)' = Busy(w) \cup {r} /\ r \notin Busy(w)
        BY <1>3, <1>q, <2>2, <3>3 DEF Pick, Busy, RunTypeOK
      <4>2. Cardinality(Busy(w)) < Concurrency
        BY <1>3, <3>3 DEF Pick
      <4>3. /\ IsFiniteSet(Busy(w) \cup {r})
            /\ Cardinality(Busy(w) \cup {r}) = Cardinality(Busy(w)) + 1
        BY <3>1, <4>1, FS_AddElement
      <4> QED BY <3>1, <4>1, <4>2, <4>3
    <3> QED BY <3>2, <3>3
  <2> QED BY <2>1, <2>3 DEF SlotInv, SlotsKept
<1>4. ASSUME NEW r \in Runs, NEW e \in HandlerErrors \cup {NoError}, Return(r, e)
      PROVE  SlotInv'
  <2>1. CASE host' = host /\ supervised' = supervised /\ ctxDone' = ctxDone
    BY <1>1, <2>1
  <2>2. CASE Vanish({r})
    BY <1>q, <1>i, <2>2, VanishSlots, FewerBusy DEF SlotInv
  <2> QED BY <1>4, <2>1, <2>2 DEF Return
<1>5. ASSUME NEW r \in Runs, Deadline(r)
      PROVE  SlotInv'
  BY <1>1, <1>5 DEF Deadline
<1>6. ASSUME NEW r \in Runs, Unsupervise(r)
      PROVE  SlotInv'
  BY <1>q, <1>i, <1>6, UnsuperviseSlots, FewerBusy DEF SlotInv
<1>7. ASSUME NEW w \in Servers, Stop(w)
      PROVE  SlotInv'
  BY <1>1, <1>7 DEF Stop, runVars
<1>8. ASSUME NEW w \in Servers, Crash(w)
      PROVE  SlotInv'
  <2>1. Vanish({r \in Runs : host[r] = w})
    BY <1>8 DEF Crash
  <2> QED BY <1>q, <1>i, <2>1, VanishSlots, FewerBusy DEF SlotInv
<1>9. CASE UNCHANGED serverVars
  BY <1>1, <1>9 DEF serverVars, procVars, runVars
<1> QED
  BY <1>2, <1>3, <1>4, <1>5, <1>6, <1>7, <1>8, <1>9
     DEF ServerNext, Settle, SettleSuccess, SettleFailure, SettleDeadline, DropStale, Abort

(***************************************************************************)
(* CONCURRENCY bounds the runs whose context is good, for every number of  *)
(* slots, and however many handlers outlive their deadline.                *)
(***************************************************************************)
THEOREM ConcurrencyCorrect == ServerSpec => []LiveWithinConcurrency
<1>1. ServerInit => SlotInv
  <2> SUFFICES ASSUME ServerInit
               PROVE  SlotInv
    OBVIOUS
  <2>1. LeftoversCancelled
    BY DEF ServerInit, LeftoversCancelled, ServerAssumption
  <2>2. \A w \in Servers : Busy(w) = {}
    BY DEF ServerInit, Busy
  <2>3. SlotsKept
    BY <2>2, FS_EmptySet DEF SlotsKept, ServerAssumption
  <2> QED BY <2>1, <2>3 DEF SlotInv
<1>2. LeaseInv /\ SlotInv /\ [ServerNext]_serverVars => SlotInv'
  BY SlotStep
<1>3. SlotInv => LiveWithinConcurrency
  <2> SUFFICES ASSUME SlotInv, NEW w \in Servers
               PROVE  Cardinality({r \in Runs : host[r] = w /\ r \notin ctxDone}) <= Concurrency
    BY DEF LiveWithinConcurrency
  <2> DEFINE live == {r \in Runs : host[r] = w /\ r \notin ctxDone}
  <2>1. /\ IsFiniteSet(Busy(w)) /\ Cardinality(Busy(w)) <= Concurrency
        /\ Cardinality(Busy(w)) \in Nat /\ Concurrency \in Nat
    BY FS_CardinalityType DEF SlotInv, SlotsKept, ServerAssumption
  <2>2. live \in SUBSET Busy(w)
    BY DEF SlotInv, LeftoversCancelled, Busy
  <2>3. /\ IsFiniteSet(live) /\ Cardinality(live) <= Cardinality(Busy(w))
        /\ Cardinality(live) \in Nat
    BY <2>1, <2>2, FS_Subset, FS_CardinalityType
  <2> QED BY <2>1, <2>3
<1> QED BY <1>1, <1>2, <1>3, LeaseInvInit, LeaseInvStep, PTL DEF ServerSpec

=============================================================================
