----------------------------- MODULE CommandApi ------------------------------
(***************************************************************************)
(* The HTTP API (api/main.go) as a client and inspector of the queue       *)
(* "ffmpeg": CreateCommand puts commands on it, GetCommand and             *)
(* ListCommands report what they find there.  The workers are any sequence *)
(* of queue operations.                                                    *)
(*                                                                         *)
(* GetCommand reads one task in one step.  ListCommands makes four calls,  *)
(* one per list of the queue, and commands move between the lists while it *)
(* works.                                                                  *)
(***************************************************************************)
EXTENDS TaskQueue, FiniteSets, Sequences

CONSTANTS
  Requests,      \* the requests clients send, by the fields that are there
  PageSize,      \* asynq.PageSize(100)
  BrokerFaults,  \* whether calls to Redis may fail
  Conns          \* BOUND: connections; each serves one call at a time

ASSUME ApiAssumption ==
  /\ Requests \subseteq [single : BOOLEAN, chain : BOOLEAN, outputs : BOOLEAN]
  /\ PageSize \in Nat \ {0}
  /\ BrokerFaults \in BOOLEAN

VARIABLES
  reply,    \* what the client that made command t was answered
  told,     \* history: the statuses reported for t so far
  unread,   \* history: commands that could not be read once when asked for
  cursor,   \* how many of the four lists a ListCommands call has read
  page,     \* the entries the call has gathered
  steady    \* history: commands that existed when the call began, have not
            \* moved since and were in no list longer than a page or that
            \* could not be read

apiVars == <<reply, told, unread, cursor, page, steady>>
vars    == <<queueVars, apiVars>>

Statuses == {"PENDING", "PROCESSING", "SUCCESS", "FAILED", "RETRYING"}
\* Mutant: one list is forgotten.
ListsWithoutArchived == <<"active", "pending", "completed">>
Lists    == <<"active", "pending", "completed", "archived">>
Done     == Len(Lists)

ApiInit ==
  /\ QueueInit
  /\ reply   = [t \in Tasks |-> "none"]
  /\ told    = [t \in Tasks |-> {}]
  /\ unread  = {}
  /\ cursor  = [l \in Conns |-> 0]
  /\ page    = [l \in Conns |-> {}]
  /\ steady  = [l \in Conns |-> {}]

(***************************************************************************)
(* Status as the API derives it.                                           *)
(***************************************************************************)
\* Mutants: two cases swapped; the state's own name passed through.
StateToStatusSwapped(s) ==
  CASE s = "active"    -> "SUCCESS"
    [] s = "completed" -> "PROCESSING"
    [] s = "archived"  -> "FAILED"
    [] s = "retry"     -> "RETRYING"
    [] OTHER           -> "PENDING"

StateToStatusRaw(s) == IF s = "archived" THEN "FAILED" ELSE s

StateToStatus(s) ==
  CASE s = "active"    -> "PROCESSING"
    [] s = "pending"   -> "PENDING"
    [] s = "completed" -> "SUCCESS"
    [] s = "archived"  -> "FAILED"
    [] s = "retry"     -> "RETRYING"
    [] OTHER           -> "PENDING"

\* Mutant: an old error does not hide a success.
TaskToStatusNow(t, status) ==
  IF lastErr[t] # NoError /\ status # "SUCCESS" THEN "FAILED" ELSE status

\* taskToStatus: a task that ever failed is FAILED, whatever its state.
TaskToStatus(t, status) ==
  IF lastErr[t] # NoError THEN "FAILED" ELSE status

\* Nothing to run, or nothing to produce.
Invalid(q) == (~q.single /\ ~q.chain) \/ ~q.outputs

\* Every list call forgets the commands that move while it runs.
Watch == steady' = [l \in Conns |-> {t \in steady[l] : state'[t] = state[t]}]

(***************************************************************************)
(* The handlers.                                                           *)
(***************************************************************************)
\* Mutant: the answer does not wait for the queue.
CreateCommandUnchecked(t, q) ==
  /\ reply[t] = "none"
  /\ ~Invalid(q)
  /\ reply' = [reply EXCEPT ![t] = "202"]
  /\ Enqueue(t) \/ UNCHANGED queueVars
  /\ Watch
  /\ UNCHANGED <<told, unread, cursor, page>>

CreateCommand(t, q) ==
  /\ reply[t] = "none"
  /\ \/ /\ Invalid(q)
        /\ reply' = [reply EXCEPT ![t] = "400"]
        /\ UNCHANGED queueVars
     \/ /\ ~Invalid(q)
        /\ Enqueue(t)
        /\ \/ reply' = [reply EXCEPT ![t] = "202"]
           \/ BrokerFaults /\ reply' = [reply EXCEPT ![t] = "500"]
     \/ /\ ~Invalid(q)
        /\ BrokerFaults
        /\ reply' = [reply EXCEPT ![t] = "500"]
        /\ UNCHANGED queueVars
  /\ Watch
  /\ UNCHANGED <<told, unread, cursor, page>>

\* Only a command whose id was given out can be asked for.
GetCommand(t, answer) ==
  /\ reply[t] = "202"
  /\ \/ /\ state[t] \notin {"absent", "deleted"}
        /\ answer = TaskToStatus(t, StateToStatus(state[t]))
        /\ UNCHANGED unread
     \/ /\ state[t] \in {"absent", "deleted"}
        /\ answer = "404"
        /\ UNCHANGED unread
     \/ /\ BrokerFaults
        /\ answer = "404"
        /\ unread' = unread \cup {t}
  /\ told' = [told EXCEPT ![t] = @ \cup {answer}]
  /\ UNCHANGED <<queueVars, reply, cursor, page, steady>>

\* The first of the four calls fixes when ListCommands began.
Began(l) ==
  IF cursor[l] = 0 THEN {t \in Tasks : state[t] \notin {"absent", "deleted"}}
                   ELSE steady[l]

\* One call of the inspector: a page of one list, or nothing if it failed.
ListNext(l) ==
  LET from    == Lists[cursor[l] + 1]
      members == {t \in Tasks : state[t] = from}
      full    == {P \in SUBSET members :
                    \/ P = members /\ Cardinality(P) <= PageSize
                    \/ Cardinality(members) > PageSize /\ Cardinality(P) = PageSize}
  IN
  /\ cursor[l] < Done
  /\ cursor' = [cursor EXCEPT ![l] = @ + 1]
  /\ \E P \in full \cup (IF BrokerFaults THEN {{}} ELSE {}) :
       /\ page' = [page EXCEPT ![l] = @ \cup
                     {[id |-> t, list |-> from, status |-> TaskToStatus(t, StateToStatus(from))]
                        : t \in P}]
       /\ steady' = [steady EXCEPT ![l] =
                       Began(l) \ (IF P = members THEN {} ELSE members)]
  /\ told' = IF cursor'[l] = Done
             THEN [t \in Tasks |-> told[t] \cup {e.status : e \in {e \in page'[l] : e.id = t}}]
             ELSE told
  /\ UNCHANGED <<queueVars, reply, unread>>

\* The answer has left; the connection serves its next call.
CallEnds(l) ==
  /\ cursor[l] = Done
  /\ cursor' = [cursor EXCEPT ![l] = 0]
  /\ page'   = [page EXCEPT ![l] = {}]
  /\ steady' = [steady EXCEPT ![l] = {}]
  /\ UNCHANGED <<queueVars, reply, told, unread>>

(***************************************************************************)
(* Everything the workers and the library do to the queue meanwhile.       *)
(***************************************************************************)
WorkerStep(t) ==
  /\ \/ \E r \in Runs : Dequeue(t, r) \/ Complete(t, r) \/ Requeue(t, r)
     \/ \E r \in Runs, e \in HandlerErrors \cup {"deadline_exceeded"} : Fail(t, r, e)
     \/ Recover(t) \/ Forward(t) \/ Expire(t)
  /\ Watch
  /\ UNCHANGED <<reply, told, unread, cursor, page>>

\* The lease of a task whose heartbeat fails ends, and those of all the tasks
\* of a process that ends.
LeasesEnd(lost) ==
  /\ holder' = [t \in Tasks |-> IF t \in lost THEN NoRun ELSE holder[t]]
  /\ UNCHANGED <<state, retried, lastErr, dispatched, spared, apiVars>>

ApiNext ==
  \/ \E t \in Tasks, q \in Requests : CreateCommand(t, q)
  \/ \E t \in Tasks, answer \in Statuses \cup {"404"} : GetCommand(t, answer)
  \/ \E t \in Tasks : WorkerStep(t)
  \/ \E lost \in SUBSET Tasks : LeasesEnd(lost)
  \/ \E l \in Conns : ListNext(l) \/ CallEnds(l)

ApiSpec == ApiInit /\ [][ApiNext]_vars

-----------------------------------------------------------------------------
ListEntry == [id : Tasks, list : {Lists[i] : i \in 1 .. Done}, status : Statuses]

\* The shape of the state.
ApiTypeOK ==
  /\ QueueTypeOK
  /\ reply   \in [Tasks -> {"none", "202", "400", "500"}]
  /\ told    \in [Tasks -> SUBSET (Statuses \cup {"404"})]
  /\ unread  \subseteq Tasks
  /\ cursor  \in [Conns -> 0 .. Done]
  /\ page    \in [Conns -> SUBSET ListEntry]
  /\ steady  \in [Conns -> SUBSET Tasks]

(***************************************************************************)
(* SUCCESS is a promise: once any answer, of GetCommand or of a            *)
(* ListCommands that read its lists while commands moved, said SUCCESS,    *)
(* the command is completed and stays completed until its retention ends.  *)
(***************************************************************************)
SuccessIsFinal ==
  \A t \in Tasks :
    "SUCCESS" \in told[t] => state[t] \in {"completed", "deleted"}

(***************************************************************************)
(* A command that does not move while ListCommands works is reported once  *)
(* and with the status GetCommand gives it, unless its list could not be   *)
(* read or has more entries than one page: the four calls do not need to   *)
(* be one transaction for that.  A command that waits for its retry is not *)
(* reported at all, for none of the four lists is the retry list           *)
(* (api/main.go:131-160), although openapi.yaml:30 promises "all FFmpeg    *)
(* commands with their current status".                                    *)
(***************************************************************************)
SteadyListedOnce ==
  \A l \in Conns, t \in Tasks :
    cursor[l] = Done /\ t \in steady[l] =>
      LET entries == {e \in page[l] : e.id = t}
      IN  IF state[t] = "retry" THEN entries = {}
          ELSE /\ Cardinality(entries) = 1
               /\ \A e \in entries : e.status = TaskToStatus(t, StateToStatus(state[t]))

(***************************************************************************)
(* Although ListCommands may meet a command twice on its way through the   *)
(* queue, one answer never says both SUCCESS and FAILED of a command.      *)
(***************************************************************************)
ListDoesNotContradict ==
  \A l \in Conns :
    \A e, f \in page[l] :
      e.id = f.id /\ e.status = "SUCCESS" => f.status # "FAILED"

(***************************************************************************)
(* An accepted command is found again, by the id that was given out, until *)
(* its retention has passed (openapi.yaml:102 "Command not found"), unless *)
(* Redis failed: GetCommand answers that with 404, too.                    *)
(***************************************************************************)
AcceptedIsFound ==
  \A t \in Tasks :
    reply[t] = "202" /\ "404" \in told[t] => state[t] = "deleted" \/ t \in unread

(***************************************************************************)
(* README.md:157-158: FAILED is a command that failed, one that will be    *)
(* retried is RETRYING.  So a command reported FAILED must not be retried  *)
(* and succeed.                                                            *)
(***************************************************************************)
FailedIsFinal ==
  \A t \in Tasks :
    "FAILED" \in told[t] => state[t] \in {"archived", "deleted"}

=============================================================================
