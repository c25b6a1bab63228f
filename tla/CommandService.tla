---------------------------- MODULE CommandService ----------------------------
(***************************************************************************)
(* The whole way of a command (README.md:3-9): the API of api/main.go and  *)
(* the workers of worker/main.go on the one queue that connects them.      *)
(* CommandApi lets arbitrary workers work on its queue, CommandWorker has  *)
(* commands come from nowhere; here each of them has the other one.  They  *)
(* share the variables of the queue, and nothing else.                     *)
(***************************************************************************)
EXTENDS CommandWorker, Sequences

CONSTANTS
  Requests,  \* the requests clients send, by the fields that are there
  PageSize,  \* asynq.PageSize(100)
  Conns      \* BOUND: connections; each serves one call at a time

ASSUME ServiceAssumption ==
  /\ Requests \subseteq [single : BOOLEAN, chain : BOOLEAN, outputs : BOOLEAN]
  /\ PageSize \in Nat \ {0}

VARIABLES reply, told, unread, cursor, page, steady  \* of CommandApi

\* The API's calls to Redis may fail whether the worker's do or not.
Api == INSTANCE CommandApi
         WITH Tasks <- Commands, HandlerErrors <- JobErrors,
              Uncounted <- MentionsResourceLimit, BrokerFaults <- TRUE

apiVars     == <<reply, told, unread, cursor, page, steady>>
serviceVars == <<vars, apiVars>>

ServiceInit == Init /\ Api!ApiInit

Accept(c) ==
  /\ \E q \in Requests : Api!CreateCommand(c, q)
  /\ UNCHANGED <<procVars, handlerVars>>

Report(c) ==
  /\ \E answer \in Api!Statuses \cup {"404"} : Api!GetCommand(c, answer)
  /\ UNCHANGED <<procVars, handlerVars>>

List(l) ==
  /\ Api!ListNext(l) \/ Api!CallEnds(l)
  /\ UNCHANGED <<procVars, handlerVars>>

\* What CommandWorker's Queue(c) does but for its submission of a command.
Consume(c) ==
  /\ Srv!Promote(c) \/ Srv!Forget(c) \/ Srv!RecoverTask(c) \/ Srv!LeaseLapses(c)
  /\ UNCHANGED handlerVars

Work ==
  /\ \/ \E c \in Commands : Consume(c)
     \/ \E w \in Workers, c \in Commands, r \in Runs : Start(w, c, r)
     \/ \E r \in Runs : Handler(r) \/ Process(r)
     \/ \E w \in Workers : Stop(w) \/ Crash(w)
  /\ Api!Watch
  /\ UNCHANGED <<reply, told, unread, cursor, page>>

ServiceNext ==
  \/ \E c \in Commands : Accept(c) \/ Report(c)
  \/ \E l \in Conns : List(l)
  \/ Work

ServiceSpec == ServiceInit /\ [][ServiceNext]_serviceVars

-----------------------------------------------------------------------------
(***************************************************************************)
(* SUCCESS is true wherever it is seen: whether a client reads it in an    *)
(* answer of the API, in however old a page of a list, gets it as a        *)
(* notification, or finds it in Redis, every declared output is in the     *)
(* storage, and late, failed and crashed runs of the command do not undo   *)
(* it.                                                                     *)
(***************************************************************************)
ReportedIsStored ==
  /\ SuccessIsStored
  /\ \A c \in Commands : "SUCCESS" \in told[c] => stored[c] = Outputs

\* The API with these workers is the API with arbitrary ones: what holds of
\* CommandApi holds of the service.
ImplementsApi == Api!ApiSpec

=============================================================================
