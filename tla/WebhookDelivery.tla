--------------------------- MODULE WebhookDelivery ---------------------------
(***************************************************************************)
(* The webhook service (webhooks/main.go): handleWebhookDeliver run by     *)
(* asynq servers on the queue "webhooks", against an endpoint that may     *)
(* accept, refuse, be slow or be gone.  A notification is the POST of one  *)
(* finished command; the worker enqueues it (worker/main.go:324-329) with  *)
(* WEBHOOK_MAX_RETRY, and the service has no IsFailure of its own, so      *)
(* every error counts.                                                     *)
(***************************************************************************)
EXTENDS Naturals, FiniteSets

CONSTANTS
  Notifications,    \* the tasks of the queue "webhooks"
  Processes,        \* processes of the service
  Runs,             \* runs of handleWebhookDeliver
  NoNotification, NoProcess, NoRun,
  MaxRetry,         \* WEBHOOK_MAX_RETRY of the worker
  Concurrency,      \* CONCURRENCY
  MaxSpared         \* BOUND: shutdowns that interrupt a notification

ASSUME DeliveryAssumption ==
  /\ NoRun \notin Runs
  /\ NoProcess \notin Processes
  /\ NoNotification \notin Notifications
  /\ MaxRetry \in Nat
  /\ Concurrency \in Nat \ {0}
  /\ MaxSpared \in Nat

VARIABLES
  state, retried, lastErr, holder, dispatched, spared,         \* the queue
  task, host, phase, outcome, supervised, ctxDone, stopping,   \* the servers
  step,      \* where a run is in the handler, "off" if not in it
  received,  \* POSTs of a notification the endpoint got
  accepted   \* POSTs of a notification the endpoint answered with 2xx

queueVars   == <<state, retried, lastErr, holder, dispatched, spared>>
procVars    == <<task, host, phase, outcome, supervised, ctxDone, stopping>>
handlerVars == <<step, received, accepted>>
vars        == <<queueVars, procVars, handlerVars>>

\* "create request" (and "unmarshal payload", "marshal body"), "http request
\* failed", "webhook returned non-2xx status"
DeliveryErrors == {"create", "request", "status"}

Srv == INSTANCE TaskServer
         WITH Tasks <- Notifications, Servers <- Processes,
              NoTask <- NoNotification, NoServer <- NoProcess,
              HandlerErrors <- DeliveryErrors, Uncounted <- {}

Steps == {"off", "send", "sent", "refused", "accepted"}

At(r, s)   == step[r] = s
Goto(r, s) == step' = [step EXCEPT ![r] = s]

Init ==
  /\ Srv!ServerInit
  /\ step     = [r \in Runs |-> "off"]
  /\ received = [n \in Notifications |-> 0]
  /\ accepted = [n \in Notifications |-> 0]

(***************************************************************************)
(* handleWebhookDeliver.                                                   *)
(***************************************************************************)
\* Mutant: a notification that was tried before is passed over.
StartFirstTime(w, n, r) ==
  /\ dispatched[n] = 0
  /\ Srv!Pick(w, n, r)
  /\ Goto(r, "send")
  /\ UNCHANGED <<received, accepted>>

Start(w, n, r) ==
  /\ Srv!Pick(w, n, r)
  /\ Goto(r, "send")
  /\ UNCHANGED <<received, accepted>>

\* Mutant: the handler may send the request again.
PostAgain(r) ==
  /\ At(r, "send")
  /\ r \notin ctxDone
  /\ received' = [received EXCEPT ![task[r]] = @ + 1]
  /\ step' \in {step, [step EXCEPT ![r] = "sent"]}
  /\ UNCHANGED <<queueVars, procVars, accepted>>

\* The request reaches the endpoint, while the context is still good.
Post(r) ==
  /\ At(r, "send")
  /\ r \notin ctxDone
  /\ received' = [received EXCEPT ![task[r]] = @ + 1]
  /\ Goto(r, "sent")
  /\ UNCHANGED <<queueVars, procVars, accepted>>

\* The endpoint answers; the handler may or may not see the answer.
Answer(r) ==
  /\ At(r, "sent")
  /\ \/ /\ accepted' = [accepted EXCEPT ![task[r]] = @ + 1]
        /\ Goto(r, "accepted")
     \/ /\ UNCHANGED accepted
        /\ Goto(r, "refused")
  /\ UNCHANGED <<queueVars, procVars, received>>

\* The payload is no notification, or its URL makes no request: nothing is
\* sent, and it counts as a failed attempt like any other.
CreateFails(r) ==
  /\ At(r, "send")
  /\ Srv!Return(r, "create")
  /\ Goto(r, "off")
  /\ UNCHANGED <<received, accepted>>

\* Mutants: an error of another kind; the handler fails the task itself.
RequestFailsOddly(r) ==
  /\ step[r] \in {"send", "sent", "refused", "accepted"}
  /\ Srv!Return(r, "timeout")
  /\ Goto(r, "off")
  /\ UNCHANGED <<received, accepted>>

RequestFailsItself(r) ==
  /\ step[r] \in {"send", "sent", "refused", "accepted"}
  /\ Srv!Fail(task[r], r, "request")
  /\ Goto(r, "off")
  /\ UNCHANGED <<procVars, received, accepted>>

\* httpClient.Do returns an error: no connection, HTTP_TIMEOUT, a cancelled
\* context, or an answer that was lost.
RequestFails(r) ==
  /\ step[r] \in {"send", "sent", "refused", "accepted"}
  /\ Srv!Return(r, "request")
  /\ Goto(r, "off")
  /\ UNCHANGED <<received, accepted>>

\* Mutant: the status of the answer is not looked at.
FinishAnyStatus(r) ==
  /\ step[r] \in {"accepted", "refused"}
  /\ Srv!Return(r, Srv!NoError)
  /\ Goto(r, "off")
  /\ UNCHANGED <<received, accepted>>

Finish(r) ==
  /\ \/ At(r, "accepted") /\ Srv!Return(r, Srv!NoError)
     \/ At(r, "refused") /\ Srv!Return(r, "status")
  /\ Goto(r, "off")
  /\ UNCHANGED <<received, accepted>>

Handler(r) ==
  Post(r) \/ Answer(r) \/ CreateFails(r) \/ RequestFails(r) \/ Finish(r)

(***************************************************************************)
(* The library around it.                                                  *)
(***************************************************************************)
Queue(n) ==
  /\ \/ Srv!Submit(n) \/ Srv!Promote(n) \/ Srv!Forget(n)
     \/ Srv!RecoverTask(n) \/ Srv!LeaseLapses(n)
  /\ UNCHANGED handlerVars

Process(r) ==
  /\ Srv!Deadline(r) \/ Srv!Settle(r) \/ Srv!Abort(r)
  /\ UNCHANGED handlerVars

Stop(w) == Srv!Stop(w) /\ UNCHANGED handlerVars

Crash(w) ==
  /\ Srv!Crash(w)
  /\ step' = [r \in Runs |-> IF host[r] = w THEN "off" ELSE step[r]]
  /\ UNCHANGED <<received, accepted>>

Next ==
  \/ \E n \in Notifications : Queue(n)
  \/ \E w \in Processes, n \in Notifications, r \in Runs : Start(w, n, r)
  \/ \E r \in Runs : Handler(r) \/ Process(r)
  \/ \E w \in Processes : Stop(w) \/ Crash(w)

Spec == Init /\ [][Next]_vars

(***************************************************************************)
(* The fairness of TaskServer, and of the handler: every request ends,     *)
(* because the client has a timeout (webhooks/main.go:35-37).              *)
(***************************************************************************)
Fairness ==
  /\ \A n \in Notifications :
       /\ WF_vars(Srv!Promote(n) /\ UNCHANGED handlerVars)
       /\ WF_vars(Srv!RecoverTask(n) /\ UNCHANGED handlerVars)
       /\ SF_vars(\E w \in Processes, r \in Runs : Start(w, n, r))
  /\ \A r \in Runs :
       /\ WF_vars(RequestFails(r) \/ Finish(r))
       /\ WF_vars((Srv!SettleSuccess(r) \/ Srv!SettleFailure(r) \/ Srv!DropStale(r))
                  /\ UNCHANGED handlerVars)
  /\ \A w \in Processes : WF_vars(w \in stopping /\ Crash(w))

FairSpec == Spec /\ Fairness

-----------------------------------------------------------------------------
\* The shape of the state.
TypeOK ==
  /\ Srv!ServerTypeOK
  /\ step     \in [Runs -> Steps]
  /\ received \in [Notifications -> Nat]
  /\ accepted \in [Notifications -> Nat]

(***************************************************************************)
(* At least once: a notification leaves the queue as delivered only if the *)
(* endpoint accepted it, whatever run, crash or lapsed lease settled it.   *)
(***************************************************************************)
DeliveredWasAccepted ==
  \A n \in Notifications : state[n] = "completed" => accepted[n] > 0

(***************************************************************************)
(* The endpoint gets no more POSTs than there were dispatches; with        *)
(* DispatchesAccounted these are WEBHOOK_MAX_RETRY + 1 and one for each    *)
(* interrupting shutdown.  A run that has yet to send has its dispatch     *)
(* reserved.                                                               *)
(***************************************************************************)
PostsAreDispatches ==
  \A n \in Notifications :
    received[n] + Cardinality({r \in Runs : task[r] = n /\ step[r] = "send"})
      <= dispatched[n]

(***************************************************************************)
(* A notification is dead-lettered only after WEBHOOK_MAX_RETRY + 1        *)
(* dispatches, so an endpoint that is down for a while gets all its        *)
(* retries (README.md:388-389).                                            *)
(***************************************************************************)
DeadAfterAllRetries ==
  \A n \in Notifications :
    state[n] = "archived" => dispatched[n] >= MaxRetry + 1

\* The service implements the servers.
ImplementsServer == Srv!ServerSpec

(***************************************************************************)
(* Every notification is delivered or ends in the dead-letter set, with no *)
(* deadline needed: the HTTP timeout ends every run.                       *)
(***************************************************************************)
EveryNotificationEnds ==
  \A n \in Notifications : (state[n] = "pending") ~> (state[n] \in Srv!Terminal)

=============================================================================
