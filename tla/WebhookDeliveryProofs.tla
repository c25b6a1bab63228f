------------------------ MODULE WebhookDeliveryProofs ------------------------
(***************************************************************************)
(* What holds of the webhook service for every number of notifications,    *)
(* processes, runs and slots, and every retry budget.                      *)
(*                                                                         *)
(* The argument: seen from the queue the service is the server with an     *)
(* arbitrary handler, so the leases, the retries and the dead letters are  *)
(* those proved of TaskServer.  What is added is the way of a request: a   *)
(* run returns nil only after a 2xx answer, and each dispatch pays for one *)
(* request, which a run that has yet to send has reserved.                 *)
(***************************************************************************)
EXTENDS WebhookDelivery, FiniteSetTheorems, TLAPS

\* The theorems about TaskServer, read for the queue "webhooks".
Thm == INSTANCE TaskServerProofs
         WITH Tasks <- Notifications, Servers <- Processes,
              NoTask <- NoNotification, NoServer <- NoProcess,
              HandlerErrors <- DeliveryErrors, Uncounted <- {}

USE DeliveryAssumption

LEMMA ServerAssumptions ==
  /\ Thm!QueueAssumption
  /\ Thm!ServerAssumption
  /\ Thm!NoError \notin DeliveryErrors
BY DEF DeliveryAssumption, DeliveryErrors, Thm!QueueAssumption, Thm!ServerAssumption,
       Thm!NoError

(***************************************************************************)
(* Srv and Thm are two names for one instance of TaskServer.               *)
(***************************************************************************)
LEMMA SameCardinality == \A S : Srv!Cardinality(S) = Thm!Cardinality(S)
BY DEF Srv!Cardinality, Thm!Cardinality

USE DEF Srv!serverVars, Thm!serverVars, Srv!queueVars, Thm!queueVars, Srv!procVars,
        Thm!procVars, Srv!runVars, Thm!runVars, Srv!NoError, Thm!NoError

LEMMA SameInit == Srv!ServerInit <=> Thm!ServerInit
BY DEF Srv!ServerInit, Thm!ServerInit, Srv!QueueInit, Thm!QueueInit

LEMMA SamePutBack ==
  ASSUME NEW n, NEW e
  PROVE  Srv!PutBack(n, e) <=> Thm!PutBack(n, e)
BY DEF Srv!PutBack, Thm!PutBack, Srv!Spare, Thm!Spare, Srv!Retry, Thm!Retry,
       Srv!Archive, Thm!Archive, Srv!Move, Thm!Move

LEMMA SameUnsupervise ==
  /\ \A gone : Srv!Vanish(gone) <=> Thm!Vanish(gone)
  /\ \A r : Srv!Unsupervise(r) <=> Thm!Unsupervise(r)
BY DEF Srv!Unsupervise, Thm!Unsupervise, Srv!Vanish, Thm!Vanish

LEMMA SameQueueStep ==
  ASSUME NEW n
  PROVE  /\ Srv!Submit(n) <=> Thm!Submit(n)
         /\ Srv!Promote(n) <=> Thm!Promote(n)
         /\ Srv!Forget(n) <=> Thm!Forget(n)
         /\ Srv!RecoverTask(n) <=> Thm!RecoverTask(n)
         /\ Srv!LeaseLapses(n) <=> Thm!LeaseLapses(n)
<1>1. Srv!RecoverTask(n) <=> Thm!RecoverTask(n)
  BY SamePutBack DEF Srv!RecoverTask, Thm!RecoverTask, Srv!Recover, Thm!Recover
<1>2. /\ Srv!Submit(n) <=> Thm!Submit(n)
      /\ Srv!Promote(n) <=> Thm!Promote(n)
      /\ Srv!Forget(n) <=> Thm!Forget(n)
      /\ Srv!LeaseLapses(n) <=> Thm!LeaseLapses(n)
  BY DEF Srv!Submit, Thm!Submit, Srv!Promote, Thm!Promote, Srv!Forget, Thm!Forget,
         Srv!LeaseLapses, Thm!LeaseLapses, Srv!Enqueue, Thm!Enqueue, Srv!Forward,
         Thm!Forward, Srv!Expire, Thm!Expire, Srv!LoseLease, Thm!LoseLease,
         Srv!Move, Thm!Move
<1> QED BY <1>1, <1>2

LEMMA SameRunStep ==
  ASSUME NEW r
  PROVE  /\ \A w, n : Srv!Pick(w, n, r) <=> Thm!Pick(w, n, r)
         /\ \A e : Srv!Return(r, e) <=> Thm!Return(r, e)
         /\ Srv!Deadline(r) <=> Thm!Deadline(r)
         /\ Srv!Settle(r) <=> Thm!Settle(r)
         /\ Srv!Abort(r) <=> Thm!Abort(r)
<1>1. \A w, n : Srv!Pick(w, n, r) <=> Thm!Pick(w, n, r)
  BY SameCardinality
     DEF Srv!Pick, Thm!Pick, Srv!Busy, Thm!Busy, Srv!Dequeue, Thm!Dequeue, Srv!Move, Thm!Move
<1>2. /\ \A e : Srv!Return(r, e) <=> Thm!Return(r, e)
      /\ Srv!Deadline(r) <=> Thm!Deadline(r)
  BY SameUnsupervise DEF Srv!Return, Thm!Return, Srv!Deadline, Thm!Deadline
<1>3. Srv!Settle(r) <=> Thm!Settle(r)
  <2>1. Srv!SettleSuccess(r) <=> Thm!SettleSuccess(r)
    BY SameUnsupervise
       DEF Srv!SettleSuccess, Thm!SettleSuccess, Srv!Complete, Thm!Complete, Srv!Move, Thm!Move
  <2>2. /\ Srv!SettleFailure(r) <=> Thm!SettleFailure(r)
        /\ Srv!SettleDeadline(r) <=> Thm!SettleDeadline(r)
    BY SameUnsupervise, SamePutBack
       DEF Srv!SettleFailure, Thm!SettleFailure, Srv!SettleDeadline, Thm!SettleDeadline,
           Srv!Fail, Thm!Fail
  <2>3. Srv!DropStale(r) <=> Thm!DropStale(r)
    BY SameUnsupervise DEF Srv!DropStale, Thm!DropStale
  <2> QED BY <2>1, <2>2, <2>3 DEF Srv!Settle, Thm!Settle
<1>4. Srv!Abort(r) <=> Thm!Abort(r)
  BY SameUnsupervise
     DEF Srv!Abort, Thm!Abort, Srv!Requeue, Thm!Requeue, Srv!Move, Thm!Move
<1> QED BY <1>1, <1>2, <1>3, <1>4

LEMMA SameNext == Srv!ServerNext <=> Thm!ServerNext
<1>1. \A w : (Srv!Stop(w) <=> Thm!Stop(w)) /\ (Srv!Crash(w) <=> Thm!Crash(w))
  BY SameUnsupervise DEF Srv!Stop, Thm!Stop, Srv!Crash, Thm!Crash
<1> QED
  BY <1>1, SameQueueStep, SameRunStep DEF Srv!ServerNext, Thm!ServerNext

(***************************************************************************)
(* Seen from the servers, every step of the handler is a stutter or the    *)
(* return of a result TaskServer allows.                                   *)
(***************************************************************************)
LEMMA HandlerStep ==
  ASSUME NEW r \in Runs, Handler(r)
  PROVE  \/ UNCHANGED Srv!serverVars
         \/ \E e \in DeliveryErrors \cup {Srv!NoError} : Srv!Return(r, e)
<1>1. CASE Post(r) \/ Answer(r)
  BY <1>1 DEF Post, Answer, queueVars, procVars
<1>2. CASE CreateFails(r) \/ RequestFails(r) \/ Finish(r)
  BY <1>2 DEF CreateFails, RequestFails, Finish, DeliveryErrors
<1> QED BY <1>1, <1>2 DEF Handler

LEMMA NextImplements == [Next]_vars => [Srv!ServerNext]_(Srv!serverVars)
<1> SUFFICES ASSUME [Next]_vars
             PROVE  [Srv!ServerNext]_(Srv!serverVars)
  OBVIOUS
<1>1. ASSUME NEW n \in Notifications, Queue(n)
      PROVE  Srv!ServerNext
  BY <1>1 DEF Queue, Srv!ServerNext
<1>2. ASSUME NEW w \in Processes, NEW n \in Notifications, NEW r \in Runs, Start(w, n, r)
      PROVE  Srv!ServerNext
  BY <1>2 DEF Start, Srv!ServerNext
<1>3. ASSUME NEW r \in Runs, Handler(r)
      PROVE  UNCHANGED Srv!serverVars \/ Srv!ServerNext
  BY <1>3, HandlerStep DEF Srv!ServerNext
<1>4. ASSUME NEW r \in Runs, Process(r)
      PROVE  Srv!ServerNext
  BY <1>4 DEF Process, Srv!ServerNext
<1>5. ASSUME NEW w \in Processes, Stop(w) \/ Crash(w)
      PROVE  Srv!ServerNext
  BY <1>5 DEF Stop, Crash, Srv!ServerNext
<1>6. CASE UNCHANGED vars
  BY <1>6 DEF vars, queueVars, procVars
<1> QED BY <1>1, <1>2, <1>3, <1>4, <1>5, <1>6 DEF Next

\* The service implements the asynq servers with an arbitrary handler
\* (webhooks/main.go:42-56).
THEOREM WebhooksImplementServer == Spec => ImplementsServer
<1>1. Init => Srv!ServerInit
  BY DEF Init
<1> QED BY <1>1, NextImplements, PTL DEF Spec, ImplementsServer, Srv!ServerSpec

(***************************************************************************)
(* A notification is dead only after all its retries: what is proved of    *)
(* the dispatches and the dead letters of the servers, put together.       *)
(***************************************************************************)
QueueInv == Thm!LeaseInv /\ Thm!DispatchesAccounted /\ Thm!ArchivedOnlyWhenExhausted

LEMMA QueueInvInit == Init => QueueInv
<1> SUFFICES ASSUME Init PROVE QueueInv
  OBVIOUS
<1>1. Thm!ServerInit
  BY SameInit DEF Init
<1>2. Thm!LeaseInv
  BY <1>1, ServerAssumptions, Thm!LeaseInvInit
<1>3. Thm!DispatchesAccounted
  BY <1>1 DEF Thm!ServerInit, Thm!QueueInit, Thm!DispatchesAccounted, Thm!Terminal
<1>4. Thm!ArchivedOnlyWhenExhausted
  BY <1>1 DEF Thm!ServerInit, Thm!QueueInit, Thm!ArchivedOnlyWhenExhausted
<1> QED BY <1>2, <1>3, <1>4 DEF QueueInv

LEMMA QueueInvStep == QueueInv /\ [Next]_vars => QueueInv'
BY NextImplements, SameNext, ServerAssumptions, Thm!LeaseInvStep, Thm!AccountedStep,
   Thm!ArchivedStep DEF QueueInv

\* The dead-letter set gets a notification only after WEBHOOK_MAX_RETRY + 1
\* dispatches (worker/main.go:325-329).
THEOREM DeadCorrect == Spec => []DeadAfterAllRetries
<1>1. ASSUME QueueInv PROVE DeadAfterAllRetries
  <2>1. \A n \in Notifications : spared[n] \in Nat /\ retried[n] \in Nat
    BY <1>1 DEF QueueInv, Thm!LeaseInv, Thm!ServerTypeOK, Thm!QueueTypeOK
  <2> QED BY <1>1, <2>1 DEF QueueInv, Thm!DispatchesAccounted, Thm!Terminal,
             Thm!ArchivedOnlyWhenExhausted, DeadAfterAllRetries
<1>2. QueueInv => DeadAfterAllRetries
  BY <1>1
<1> QED BY <1>2, QueueInvInit, QueueInvStep, PTL DEF Spec

(***************************************************************************)
(* Where runs are.  A run is in the handler while its goroutine runs, and  *)
(* then it works on a notification.                                        *)
(***************************************************************************)
HandlerTypeOK ==
  /\ step     \in [Runs -> Steps]
  /\ received \in [Notifications -> Nat]
  /\ accepted \in [Notifications -> Nat]

RunTypeOK ==
  /\ task    \in [Runs -> Notifications \cup {NoNotification}]
  /\ host    \in [Runs -> Processes \cup {NoProcess}]
  /\ phase   \in [Runs -> {"idle", "running", "returned"}]
  /\ outcome \in [Runs -> DeliveryErrors \cup {Srv!NoError}]
  /\ state \in [Notifications -> Srv!States]
  /\ dispatched \in [Notifications -> Nat]

InHandler ==
  \A r \in Runs :
    /\ step[r] # "off" <=> phase[r] = "running"
    /\ step[r] # "off" => task[r] \in Notifications

\* A run whose handler has returned nil.
Done(r) == phase[r] = "returned" /\ outcome[r] = Srv!NoError

\* What a run knows of its request.
Answered ==
  \A r \in Runs :
    step[r] = "accepted" \/ Done(r) => task[r] \in Notifications /\ accepted[task[r]] > 0

\* The runs that have yet to send their request.
Sending(n) == {r \in Runs : task[r] = n /\ step[r] = "send"}

Reserved ==
  \A n \in Notifications :
    /\ IsFiniteSet(Sending(n))
    /\ received[n] + Cardinality(Sending(n)) <= dispatched[n]

DeliveryInv ==
  /\ Thm!LeaseInv /\ HandlerTypeOK /\ InHandler
  /\ Answered /\ DeliveredWasAccepted /\ Reserved

LEMMA TypesOfLeaseInv ==
  ASSUME Thm!LeaseInv
  PROVE  RunTypeOK /\ Srv!ServerTypeOK
BY DEF Thm!LeaseInv, Thm!ServerTypeOK, Srv!ServerTypeOK, Srv!QueueTypeOK, Thm!QueueTypeOK,
       Srv!States, Thm!States, Srv!Errors, Thm!Errors, RunTypeOK

LEMMA DeliveryInvInit == Init => DeliveryInv
<1> SUFFICES ASSUME Init PROVE DeliveryInv
  OBVIOUS
<1>1. Thm!LeaseInv
  BY QueueInvInit DEF QueueInv
<1>2. HandlerTypeOK /\ InHandler /\ Answered
  BY DEF Init, Srv!ServerInit, HandlerTypeOK, Steps, InHandler, Answered, Done
<1>3. DeliveredWasAccepted
  BY DEF Init, Srv!ServerInit, Srv!QueueInit, DeliveredWasAccepted
<1>4. Reserved
  <2>1. \A n \in Notifications : Sending(n) = {} /\ received[n] = 0 /\ dispatched[n] = 0
    BY DEF Init, Srv!ServerInit, Srv!QueueInit, Sending
  <2> QED BY <2>1, FS_EmptySet DEF Reserved
<1> QED BY <1>1, <1>2, <1>3, <1>4 DEF DeliveryInv

(***************************************************************************)
(* How a step of each kind changes the runs.                               *)
(***************************************************************************)
\* Runs that stay in the handler go on as they were, the others stay out of
\* it, and none is done that was not.
Quiet ==
  \A q \in Runs :
    /\ step'[q] # "off" <=> phase'[q] = "running"
    /\ step'[q] # "off" => step'[q] = step[q] /\ task'[q] = task[q]
    /\ Done(q)' => Done(q) /\ task'[q] = task[q]

LEMMA ProcessorQuiet ==
  ASSUME RunTypeOK, InHandler, NEW r \in Runs, Process(r)
  PROVE  Quiet
<1>1. UNCHANGED step
  BY DEF Process, handlerVars
<1>2. CASE Srv!Unsupervise(r)
  BY <1>1, <1>2 DEF RunTypeOK, InHandler, Quiet, Done, Srv!Unsupervise, Srv!Vanish
<1>3. CASE Srv!Deadline(r)
  BY <1>1, <1>3 DEF RunTypeOK, InHandler, Quiet, Done, Srv!Deadline
<1> QED
  BY <1>1, <1>2, <1>3 DEF Process, Srv!Settle, Srv!SettleSuccess, Srv!SettleFailure,
                          Srv!SettleDeadline, Srv!DropStale, Srv!Abort

LEMMA CrashQuiet ==
  ASSUME RunTypeOK, HandlerTypeOK, InHandler, NEW w \in Processes, Crash(w)
  PROVE  Quiet
BY DEF RunTypeOK, HandlerTypeOK, InHandler, Quiet, Done, Crash, Srv!Crash, Srv!Vanish

LEMMA UnchangedQuiet ==
  ASSUME InHandler, UNCHANGED <<step, task, phase, outcome>>
  PROVE  Quiet
BY DEF InHandler, Quiet, Done

\* One run returns e, the others go on.
LEMMA ReturnRuns ==
  ASSUME RunTypeOK, HandlerTypeOK, InHandler, NEW r \in Runs, NEW e,
         Srv!Return(r, e), Goto(r, "off")
  PROVE  /\ phase'[r] # "running" /\ step'[r] = "off"
         /\ phase'[r] = "returned" => task'[r] = task[r] /\ outcome'[r] = e
         /\ \A q \in Runs \ {r} : /\ phase'[q] = phase[q] /\ step'[q] = step[q]
                                  /\ task'[q] = task[q] /\ outcome'[q] = outcome[q]
BY DEF RunTypeOK, HandlerTypeOK, InHandler, Goto, Srv!Return, Srv!Vanish

\* Only the processor of a done run completes a notification.
LEMMA CompletionStep ==
  ASSUME RunTypeOK, [Next]_vars, NEW n \in Notifications, state'[n] = "completed"
  PROVE  state[n] = "completed" \/ \E r \in Runs : Done(r) /\ task[r] = n
<1>1. ASSUME NEW m \in Notifications, Queue(m)
      PROVE  state[n] = "completed"
  BY <1>1 DEF RunTypeOK, Queue, Srv!Submit, Srv!Promote, Srv!Forget, Srv!RecoverTask,
              Srv!LeaseLapses, Srv!Enqueue, Srv!Forward, Srv!Expire, Srv!Recover,
              Srv!LoseLease, Srv!PutBack, Srv!Spare, Srv!Retry, Srv!Archive, Srv!Move
<1>2. ASSUME NEW w \in Processes, NEW m \in Notifications, NEW r \in Runs, Start(w, m, r)
      PROVE  state[n] = "completed"
  BY <1>2 DEF RunTypeOK, Start, Srv!Pick, Srv!Dequeue, Srv!Move
<1>3. ASSUME NEW r \in Runs, Handler(r)
      PROVE  state[n] = "completed"
  BY <1>3, HandlerStep DEF Srv!Return
<1>4. ASSUME NEW r \in Runs, Process(r), state[n] # "completed"
      PROVE  Done(r) /\ task[r] = n
  <2>1. Srv!SettleSuccess(r)
    BY <1>4 DEF RunTypeOK, Process, Srv!Deadline, Srv!Settle, Srv!SettleFailure,
                Srv!SettleDeadline, Srv!DropStale, Srv!Abort, Srv!Requeue, Srv!Fail,
                Srv!PutBack, Srv!Spare, Srv!Retry, Srv!Archive, Srv!Move
  <2> QED BY <1>4, <2>1 DEF RunTypeOK, Srv!SettleSuccess, Srv!Complete, Srv!Move, Done
<1>5. ASSUME NEW w \in Processes, Stop(w) \/ Crash(w)
      PROVE  state[n] = "completed"
  BY <1>5 DEF Stop, Crash, Srv!Stop, Srv!Crash
<1>6. ASSUME UNCHANGED vars
      PROVE  state[n] = "completed"
  BY <1>6 DEF vars, queueVars
<1> QED BY <1>1, <1>2, <1>3, <1>4, <1>5, <1>6 DEF Next

(***************************************************************************)
(* The invariant is kept.                                                  *)
(***************************************************************************)
HandlerInv == HandlerTypeOK /\ InHandler /\ Answered /\ Reserved

LEMMA FewerSending ==
  ASSUME NEW n \in Notifications, IsFiniteSet(Sending(n)), Sending(n)' \subseteq Sending(n)
  PROVE  IsFiniteSet(Sending(n)') /\ Cardinality(Sending(n)') <= Cardinality(Sending(n))
         /\ Cardinality(Sending(n)') \in Nat /\ Cardinality(Sending(n)) \in Nat
BY FS_Subset, FS_CardinalityType

\* It is enough that no request is sent, none is answered, no dispatch is
\* made and no run begins to be about to send.
LEMMA NoneSent ==
  ASSUME HandlerTypeOK, RunTypeOK, Reserved, UNCHANGED received,
         \A n \in Notifications : dispatched'[n] = dispatched[n],
         \A r \in Runs : step'[r] = "send" => step[r] = "send" /\ task'[r] = task[r]
  PROVE  Reserved'
<1> SUFFICES ASSUME NEW n \in Notifications
             PROVE  /\ IsFiniteSet(Sending(n)')
                    /\ received'[n] + Cardinality(Sending(n)') <= dispatched'[n]
  BY DEF Reserved
<1>1. Sending(n)' \subseteq Sending(n)
  BY DEF Sending
<1>2. IsFiniteSet(Sending(n)) /\ received[n] + Cardinality(Sending(n)) <= dispatched[n]
  BY DEF Reserved
<1>3. received[n] \in Nat /\ dispatched[n] \in Nat /\ received'[n] = received[n]
  BY DEF HandlerTypeOK, RunTypeOK
<1> QED BY <1>1, <1>2, <1>3, FewerSending

LEMMA QuietStep ==
  ASSUME HandlerInv, RunTypeOK, Quiet, step' \in [Runs -> Steps],
         UNCHANGED <<received, accepted, dispatched>>
  PROVE  HandlerInv'
<1>1. HandlerTypeOK' /\ InHandler' /\ Answered'
  BY DEF HandlerInv, HandlerTypeOK, InHandler, Answered, Quiet
<1>2. Reserved'
  BY NoneSent DEF HandlerInv, Quiet
<1> QED BY <1>1, <1>2 DEF HandlerInv

LEMMA StartInv ==
  ASSUME HandlerInv, RunTypeOK,
         NEW w \in Processes, NEW n \in Notifications, NEW r \in Runs, Start(w, n, r)
  PROVE  HandlerInv'
<1>1. /\ step[r] = "off" /\ phase[r] = "idle"
      /\ step' = [step EXCEPT ![r] = "send"]
      /\ task' = [task EXCEPT ![r] = n]
      /\ phase' = [phase EXCEPT ![r] = "running"]
      /\ dispatched' = [dispatched EXCEPT ![n] = @ + 1]
      /\ UNCHANGED <<outcome, received, accepted>>
  BY DEF Start, Srv!Pick, Srv!Dequeue, Goto, HandlerInv, InHandler
<1>2. /\ step'[r] = "send" /\ task'[r] = n /\ phase'[r] = "running"
      /\ \A q \in Runs \ {r} : step'[q] = step[q] /\ task'[q] = task[q] /\ phase'[q] = phase[q]
      /\ \A m \in Notifications : dispatched'[m] = IF m = n THEN dispatched[m] + 1 ELSE dispatched[m]
  BY <1>1 DEF HandlerInv, HandlerTypeOK, RunTypeOK
<1>3. HandlerTypeOK' /\ InHandler' /\ Answered'
  BY <1>1, <1>2 DEF HandlerInv, HandlerTypeOK, Steps, InHandler, Answered, Done
<1>4. ASSUME NEW m \in Notifications
      PROVE  /\ IsFiniteSet(Sending(m)')
             /\ received'[m] + Cardinality(Sending(m)') <= dispatched'[m]
  <2>1. /\ IsFiniteSet(Sending(m)) /\ Cardinality(Sending(m)) \in Nat
        /\ received[m] + Cardinality(Sending(m)) <= dispatched[m]
        /\ received'[m] = received[m] /\ received[m] \in Nat /\ dispatched[m] \in Nat
    BY <1>1, FS_CardinalityType DEF HandlerInv, Reserved, HandlerTypeOK, RunTypeOK
  <2>2. CASE m = n
    <3>1. Sending(m)' = Sending(m) \cup {r} /\ r \notin Sending(m)
      BY <1>1, <1>2, <2>2 DEF Sending
    <3>2. IsFiniteSet(Sending(m)') /\ Cardinality(Sending(m)') = Cardinality(Sending(m)) + 1
      BY <2>1, <3>1, FS_AddElement
    <3> QED BY <1>2, <2>1, <2>2, <3>2
  <2>3. CASE m # n
    <3>1. Sending(m)' = Sending(m)
      BY <1>1, <1>2, <2>3 DEF Sending
    <3> QED BY <1>2, <2>1, <2>3, <3>1
  <2> QED BY <2>2, <2>3
<1>5. Reserved'
  BY <1>4 DEF Reserved
<1> QED BY <1>3, <1>5 DEF HandlerInv

LEMMA PostInv ==
  ASSUME HandlerInv, RunTypeOK, NEW r \in Runs, Post(r)
  PROVE  HandlerInv'
<1>1. /\ step[r] = "send" /\ step' = [step EXCEPT ![r] = "sent"]
      /\ received' = [received EXCEPT ![task[r]] = @ + 1]
      /\ UNCHANGED <<dispatched, task, phase, outcome, accepted>>
  BY DEF Post, At, Goto, queueVars, procVars
<1>2. task[r] \in Notifications
  BY <1>1 DEF HandlerInv, InHandler
<1>3. /\ step'[r] = "sent" /\ \A q \in Runs \ {r} : step'[q] = step[q]
      /\ \A m \in Notifications : received'[m] = IF m = task[r] THEN received[m] + 1 ELSE received[m]
  BY <1>1, <1>2 DEF HandlerInv, HandlerTypeOK
<1>4. HandlerTypeOK' /\ InHandler' /\ Answered'
  BY <1>1, <1>2, <1>3 DEF HandlerInv, HandlerTypeOK, Steps, InHandler, Answered, Done
<1>5. ASSUME NEW m \in Notifications
      PROVE  /\ IsFiniteSet(Sending(m)')
             /\ received'[m] + Cardinality(Sending(m)') <= dispatched'[m]
  <2>1. /\ IsFiniteSet(Sending(m)) /\ Cardinality(Sending(m)) \in Nat
        /\ received[m] + Cardinality(Sending(m)) <= dispatched[m]
        /\ dispatched'[m] = dispatched[m] /\ received[m] \in Nat /\ dispatched[m] \in Nat
    BY <1>1, FS_CardinalityType DEF HandlerInv, Reserved, HandlerTypeOK, RunTypeOK
  <2>2. CASE m = task[r]
    <3>1. Sending(m)' = Sending(m) \ {r} /\ r \in Sending(m)
      BY <1>1, <1>3, <2>2 DEF Sending
    <3>2. IsFiniteSet(Sending(m)') /\ Cardinality(Sending(m)') = Cardinality(Sending(m)) - 1
      BY <2>1, <3>1, FS_RemoveElement
    <3> QED BY <1>3, <2>1, <2>2, <3>2
  <2>3. CASE m # task[r]
    <3>1. Sending(m)' = Sending(m)
      BY <1>1, <1>3, <2>3 DEF Sending
    <3> QED BY <1>3, <2>1, <2>3, <3>1
  <2> QED BY <2>2, <2>3
<1>6. Reserved'
  BY <1>5 DEF Reserved
<1> QED BY <1>4, <1>6 DEF HandlerInv

LEMMA AnswerInv ==
  ASSUME HandlerInv, RunTypeOK, NEW r \in Runs, Answer(r)
  PROVE  HandlerInv'
<1>1. /\ step[r] = "sent"
      /\ UNCHANGED <<dispatched, task, phase, outcome, received>>
      /\ \/ /\ step' = [step EXCEPT ![r] = "accepted"]
            /\ accepted' = [accepted EXCEPT ![task[r]] = @ + 1]
         \/ step' = [step EXCEPT ![r] = "refused"] /\ UNCHANGED accepted
  BY DEF Answer, At, Goto, queueVars, procVars
<1>2. task[r] \in Notifications
  BY <1>1 DEF HandlerInv, InHandler
<1>3. HandlerTypeOK'
  BY <1>1, <1>2 DEF HandlerInv, HandlerTypeOK, Steps
<1>4. InHandler'
  BY <1>1 DEF HandlerInv, HandlerTypeOK, InHandler
<1>5. Answered'
  BY <1>1, <1>2 DEF HandlerInv, HandlerTypeOK, Answered, Done
<1>6. Reserved'
  <2>1. \A q \in Runs : step'[q] = "send" => step[q] = "send"
    BY <1>1 DEF HandlerInv, HandlerTypeOK
  <2> QED BY <1>1, <2>1, NoneSent DEF HandlerInv
<1> QED BY <1>3, <1>4, <1>5, <1>6 DEF HandlerInv

LEMMA ReturnInv ==
  ASSUME HandlerInv, RunTypeOK, NEW r \in Runs, CreateFails(r) \/ RequestFails(r) \/ Finish(r)
  PROVE  HandlerInv'
<1>1. PICK e : /\ Srv!Return(r, e) /\ Goto(r, "off")
               /\ e = Srv!NoError => step[r] = "accepted"
  BY DEF CreateFails, RequestFails, Finish, At, Srv!NoError
<1>2. /\ phase'[r] # "running" /\ step'[r] = "off"
      /\ phase'[r] = "returned" => task'[r] = task[r] /\ outcome'[r] = e
      /\ \A q \in Runs \ {r} : /\ phase'[q] = phase[q] /\ step'[q] = step[q]
                               /\ task'[q] = task[q] /\ outcome'[q] = outcome[q]
  BY <1>1, ReturnRuns DEF HandlerInv
<1>3. UNCHANGED <<received, accepted, dispatched>>
  BY <1>1 DEF CreateFails, RequestFails, Finish, Srv!Return
<1>4. step' \in [Runs -> Steps]
  BY <1>1 DEF Goto, HandlerInv, HandlerTypeOK, Steps
<1>5. HandlerTypeOK' /\ InHandler'
  BY <1>2, <1>3, <1>4 DEF HandlerInv, HandlerTypeOK, InHandler
<1>6. Answered'
  <2>1. \A q \in Runs : Done(q)' => task'[q] = task[q] /\ (Done(q) \/ step[q] = "accepted")
    BY <1>1, <1>2 DEF Done
  <2>2. \A q \in Runs : step'[q] = "accepted" => step[q] = "accepted" /\ task'[q] = task[q]
    BY <1>2
  <2> QED BY <1>3, <2>1, <2>2 DEF HandlerInv, Answered
<1>7. Reserved'
  <2>1. \A q \in Runs : step'[q] = "send" => step[q] = "send" /\ task'[q] = task[q]
    BY <1>2
  <2> QED BY <1>3, <2>1, NoneSent DEF HandlerInv
<1> QED BY <1>5, <1>6, <1>7 DEF HandlerInv

LEMMA DeliveryInvStep == DeliveryInv /\ [Next]_vars => DeliveryInv'
<1> SUFFICES ASSUME DeliveryInv, [Next]_vars PROVE DeliveryInv'
  OBVIOUS
<1>h. HandlerInv /\ RunTypeOK
  BY TypesOfLeaseInv DEF DeliveryInv, HandlerInv
<1>l. Thm!LeaseInv'
  BY NextImplements, SameNext, ServerAssumptions, Thm!LeaseInvStep DEF DeliveryInv
<1>1. ASSUME NEW n \in Notifications, Queue(n)
      PROVE  HandlerInv'
  <2>1. UNCHANGED <<procVars, handlerVars, dispatched>>
    BY <1>1 DEF Queue, procVars, Srv!Submit, Srv!Promote, Srv!Forget, Srv!RecoverTask,
                Srv!LeaseLapses, Srv!Enqueue, Srv!Forward, Srv!Expire, Srv!Recover,
                Srv!LoseLease, Srv!PutBack
  <2> QED BY <1>h, <2>1, UnchangedQuiet, QuietStep
          DEF HandlerInv, HandlerTypeOK, procVars, handlerVars
<1>2. ASSUME NEW w \in Processes, NEW n \in Notifications, NEW r \in Runs, Start(w, n, r)
      PROVE  HandlerInv'
  BY <1>2, <1>h, StartInv
<1>3. ASSUME NEW r \in Runs, Handler(r)
      PROVE  HandlerInv'
  BY <1>3, <1>h, PostInv, AnswerInv, ReturnInv DEF Handler
<1>4. ASSUME NEW r \in Runs, Process(r)
      PROVE  HandlerInv'
  <2>1. UNCHANGED handlerVars
    BY <1>4 DEF Process
  <2>2. UNCHANGED dispatched
    BY <1>4 DEF Process, Srv!Deadline, Srv!Settle, Srv!SettleSuccess, Srv!SettleFailure,
                Srv!SettleDeadline, Srv!DropStale, Srv!Abort, Srv!Requeue, Srv!Fail,
                Srv!Complete, Srv!PutBack
  <2>3. Quiet
    BY <1>4, <1>h, ProcessorQuiet DEF HandlerInv
  <2> QED BY <1>h, <2>1, <2>2, <2>3, QuietStep DEF HandlerInv, HandlerTypeOK, handlerVars
<1>5. ASSUME NEW w \in Processes, Stop(w)
      PROVE  HandlerInv'
  <2>1. UNCHANGED <<handlerVars, dispatched, task, phase, outcome>>
    BY <1>5 DEF Stop, Srv!Stop, Srv!runVars
  <2> QED BY <1>h, <2>1, UnchangedQuiet, QuietStep DEF HandlerInv, HandlerTypeOK, handlerVars
<1>6. ASSUME NEW w \in Processes, Crash(w)
      PROVE  HandlerInv'
  <2>1. /\ UNCHANGED <<received, accepted, dispatched>>
        /\ step' \in [Runs -> Steps]
    BY <1>6, <1>h DEF Crash, Srv!Crash, HandlerInv, HandlerTypeOK, Steps
  <2>2. Quiet
    BY <1>6, <1>h, CrashQuiet DEF HandlerInv
  <2> QED BY <1>h, <2>1, <2>2, QuietStep
<1>7. ASSUME UNCHANGED vars
      PROVE  HandlerInv'
  <2>1. UNCHANGED <<handlerVars, dispatched, task, phase, outcome>>
    BY <1>7 DEF vars, queueVars, procVars
  <2> QED BY <1>h, <2>1, UnchangedQuiet, QuietStep DEF HandlerInv, HandlerTypeOK, handlerVars
<1>8. HandlerInv'
  BY <1>1, <1>2, <1>3, <1>4, <1>5, <1>6, <1>7 DEF Next
<1>9. \A n \in Notifications : accepted[n] > 0 => accepted'[n] > 0
  <2>1. accepted \in [Notifications -> Nat]
    BY <1>h DEF HandlerInv, HandlerTypeOK
  <2>2. UNCHANGED accepted \/ \E r \in Runs : accepted' = [accepted EXCEPT ![task[r]] = @ + 1]
    BY DEF Next, Queue, Start, Handler, Post, Answer, CreateFails, RequestFails, Finish,
           Process, Stop, Crash, vars, handlerVars
  <2> QED BY <2>1, <2>2
<1>10. DeliveredWasAccepted'
  BY <1>h, <1>9, CompletionStep DEF DeliveryInv, HandlerInv, Answered, DeliveredWasAccepted
<1> QED BY <1>l, <1>8, <1>10 DEF DeliveryInv, HandlerInv

LEMMA DeliveryInvariant == Spec => []DeliveryInv
BY DeliveryInvInit, DeliveryInvStep, PTL DEF Spec

\* The shape of the state.
THEOREM DeliveryTypeCorrect == Spec => []TypeOK
<1>1. DeliveryInv => TypeOK
  BY TypesOfLeaseInv DEF DeliveryInv, HandlerTypeOK, TypeOK
<1> QED BY <1>1, DeliveryInvariant, PTL

\* A notification leaves the queue as delivered only after a 2xx answer
\* (webhooks/main.go:108-123).
THEOREM DeliveredCorrect == Spec => []DeliveredWasAccepted
<1>1. DeliveryInv => DeliveredWasAccepted
  BY DEF DeliveryInv
<1> QED BY <1>1, DeliveryInvariant, PTL

\* One POST per dispatch (webhooks/main.go:108).
THEOREM PostsCorrect == Spec => []PostsAreDispatches
<1>1. DeliveryInv => PostsAreDispatches
  BY DEF DeliveryInv, Reserved, Sending, PostsAreDispatches
<1> QED BY <1>1, DeliveryInvariant, PTL

=============================================================================
