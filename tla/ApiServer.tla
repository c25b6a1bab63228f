----------------------------- MODULE ApiServer -------------------------------
(***************************************************************************)
(* A request on its way: the generated client (api/oas/oas_client_gen.go), *)
(* the middleware and the generated router and handlers, the API's own     *)
(* handlers (CommandApi), the payload and the result that API and worker   *)
(* exchange through Redis, and the answer on its way back through encoder  *)
(* and decoder.  CommandApi says which commands are found and with which   *)
(* status; this module adds what is written down and read back.            *)
(*                                                                         *)
(* A request is [method, path, ctype, body].  Its path is one that         *)
(* http.ServeMux lets pass (it redirects a client from a path that is not  *)
(* clean), cut into the pieces the router compares, the last of which is   *)
(* all the rest, slashes included.  Its body, if any, is a document and    *)
(* whether more text follows.  An answer of a handler is <<type, value>>.  *)
(***************************************************************************)
EXTENDS CommandApi, OasTypes

CONSTANTS
  Asked,          \* the CommandRequests a user of the generated client has
  OtherRequests,  \* requests sent by other clients
  Ids,            \* ids no command has; "" among them
  Results,        \* what workers report of a command (worker/main.go:281-287)
  Faulty          \* whether openapi.yaml cannot be read or converted

\* What worker.FileInfo and worker.CommandResult hold; getFileType knows five types.
IsFileReport(f) == IsFloat(f.size_mbytes) /\ f.file_type \in FileTypes

IsReport(r) ==
  /\ IsMap(r.output_files) /\ \A k \in DOMAIN r.output_files : IsFileReport(r.output_files[k])
  /\ IsFloat(r.ffmpeg_command_run_seconds) /\ IsFloat(r.total_processing_seconds)

ASSUME ServerAssumption ==
  /\ Requests = [single : BOOLEAN, chain : BOOLEAN, outputs : BOOLEAN]
  /\ IsFiniteSet(Tasks)
  /\ \A s \in Asked : IsCommandRequest(s)
  /\ \A r \in OtherRequests : /\ Len(r.path) <= 4
                             /\ IsOpt(r.body) /\ \A b \in r.body : IsDocument(b.doc)
  /\ \A r \in Results : IsReport(r)

VARIABLES
  payload,   \* the task's payload, if it was enqueued
  results,   \* the task's result, if one was written
  asked,     \* history: the CommandRequest the task was made of
  phase,     \* where the call of a connection is
  call,      \* the operation the generated client was called with
  req,       \* the request on the wire
  answer,    \* what the handler answered
  wire,      \* the response on the wire: code, content type, body
  got,       \* what the generated client returned, nothing for an error
  gathered   \* the commands variable of a ListCommands call

httpVars == <<phase, call, req, answer, wire, got>>
taskVars == <<payload, results, asked>>
allVars  == <<vars, taskVars, httpVars, gathered>>

None  == <<"none">>
Blank == [code |-> 0, ctype |-> "", body |-> {}]

ServerInit ==
  /\ ApiInit
  /\ payload  = [t \in Tasks |-> {}]
  /\ results  = [t \in Tasks |-> {}]
  /\ asked    = [t \in Tasks |-> {}]
  /\ phase    = [c \in Conns |-> "idle"]
  /\ call     = [c \in Conns |-> None]
  /\ req      = [c \in Conns |-> {}]
  /\ answer   = [c \in Conns |-> None]
  /\ wire     = [c \in Conns |-> Blank]
  /\ got      = [c \in Conns |-> {}]
  /\ gathered = [c \in Conns |-> <<>>]

(***************************************************************************)
(* The payload: the API writes it, worker and API read it.                 *)
(***************************************************************************)
WorkerCommandRequest(s) ==
  [input_files     |-> s.input_files,                \* a nil map is no map
   output_files    |-> s.output_files,
   ffmpeg_command  |-> IF s.ffmpeg_command = {} THEN "" ELSE The(s.ffmpeg_command),
   ffmpeg_commands |-> IF s.ffmpeg_commands = {} THEN <<>> ELSE The(s.ffmpeg_commands),
   webhook         |-> IF s.webhook = {} THEN "" ELSE The(s.webhook),
   reference_id    |-> IF s.reference_id = {} THEN "" ELSE The(s.reference_id)]

\* Mutant: a field of the payload is lost.
MarshalRequestNoReference(w) ==
  JObj(Field("input_files", IF w.input_files = {} THEN JNull ELSE MapText(The(w.input_files), JStr))
       \o Field("output_files", MapText(w.output_files, JStr))
       \o OmitEmpty("ffmpeg_command", w.ffmpeg_command, "", JStr(w.ffmpeg_command))
       \o OmitEmpty("ffmpeg_commands", w.ffmpeg_commands, <<>>, ListText(w.ffmpeg_commands, JStr))
       \o OmitEmpty("webhook", w.webhook, "", JStr(w.webhook)))

MarshalRequest(w) ==
  JObj(Field("input_files", IF w.input_files = {} THEN JNull ELSE MapText(The(w.input_files), JStr))
       \o Field("output_files", MapText(w.output_files, JStr))
       \o OmitEmpty("ffmpeg_command", w.ffmpeg_command, "", JStr(w.ffmpeg_command))
       \o OmitEmpty("ffmpeg_commands", w.ffmpeg_commands, <<>>, ListText(w.ffmpeg_commands, JStr))
       \o OmitEmpty("webhook", w.webhook, "", JStr(w.webhook))
       \o OmitEmpty("reference_id", w.reference_id, "", JStr(w.reference_id)))

StringMap(j) == MapOf(j, AsStr)
Present(j)   == {StringMap(j)}

UnmarshalRequest(j) ==
  [input_files     |-> OrZero(j, "input_files", Present, {}),
   output_files    |-> OrZero(j, "output_files", StringMap, <<>>),
   ffmpeg_command  |-> OrZero(j, "ffmpeg_command", AsStr, ""),
   ffmpeg_commands |-> OrZero(j, "ffmpeg_commands", AsStringList, <<>>),
   webhook         |-> OrZero(j, "webhook", AsStr, ""),
   reference_id    |-> OrZero(j, "reference_id", AsStr, "")]

(***************************************************************************)
(* The result: the worker writes it, the API reads it and leaves out the   *)
(* hardware acceleration.                                                  *)
(***************************************************************************)
MarshalFile(f) ==
  JObj(Field("file_id", JStr(f.file_id))
       \o Field("size_mbytes", FloatText(f.size_mbytes))
       \o Field("file_type", JStr(f.file_type))
       \o Field("file_format", JStr(f.file_format))
       \o Field("storage_url", JStr(f.storage_url))
       \o OmitEmpty("width", f.width, 0, JInt(f.width))
       \o OmitEmpty("height", f.height, 0, JInt(f.height)))

MarshalResult(r) ==
  JObj(Field("output_files", MapText(r.output_files, MarshalFile))
       \o Field("ffmpeg_command_run_seconds", FloatText(r.ffmpeg_command_run_seconds))
       \o Field("total_processing_seconds", FloatText(r.total_processing_seconds))
       \o Field("completed_at", JTime(r.completed_at))
       \o OmitEmpty("hardware_acceleration", r.hardware_acceleration, "",
                    JStr(r.hardware_acceleration)))

\* A width or height of zero, or none, is not set.
OptInt(j)      == {AsInt(j)}
Positive(j, k) == {n \in OrZero(j, k, OptInt, {}) : n > 0}

FileInfo(j) ==
  {[file_id     |-> OrZero(j, "file_id", AsStr, ""),
    size_mbytes |-> OrZero(j, "size_mbytes", AsFloat, JInt(0)),
    file_type   |-> OrZero(j, "file_type", AsStr, ""),
    file_format |-> OrZero(j, "file_format", AsStr, ""),
    storage_url |-> OrZero(j, "storage_url", AsStr, ""),
    width       |-> Positive(j, "width"),
    height      |-> Positive(j, "height")]}

FileInfos(j) == MapOf(j, FileInfo)

ZeroTime == <<0, 0>>

\* When asynq says the task runs next; the zero time unless it waits.
NextProcessAt(list) ==
  CASE list = "pending" -> <<2, 5>>
    [] list = "retry"   -> <<3, 0>>
    [] OTHER            -> ZeroTime

OriginalRequest(w) ==
  [input_files     |-> w.input_files,
   output_files    |-> w.output_files,
   ffmpeg_command  |-> {w.ffmpeg_command} \ {""},
   ffmpeg_commands |-> {w.ffmpeg_commands} \ {<<>>},
   webhook         |-> IF w.webhook = "" THEN {} ELSE AsURI(JStr(w.webhook)),
   reference_id    |-> {w.reference_id} \ {""}]

\* taskToStatus; status is CommandApi's part of it.
FullStatus(t, list, status) ==
  [command_id       |-> t,
   status           |-> status,
   output_files     |-> {OrZero(r, "output_files", FileInfos, <<>>) : r \in results[t]},
   original_request |-> {OriginalRequest(UnmarshalRequest(j)) : j \in payload[t]},
   ffmpeg_command_run_seconds |->
     {OrZero(r, "ffmpeg_command_run_seconds", AsFloat, JInt(0)) : r \in results[t]},
   total_processing_seconds   |->
     {OrZero(r, "total_processing_seconds", AsFloat, JInt(0)) : r \in results[t]},
   error            |-> {lastErr[t]} \ {NoError},
   created_at       |-> NextProcessAt(list),
   completed_at     |-> {OrZero(r, "completed_at", AsTime, ZeroTime) : r \in results[t]}
                          \ {ZeroTime}]

(***************************************************************************)
(* Content types, and a message in a request or response.                  *)
(***************************************************************************)
OurType == "application/json; charset=utf-8"

\* mime.ParseMediaType; nothing if it fails.
MediaType(ctype) ==
  CASE ctype = ""      -> {}
    [] ctype = OurType -> {"application/json"}
    [] OTHER           -> {ctype}

Request(method, path, body) ==
  [method |-> method, path |-> path,
   ctype |-> IF body = {} THEN "" ELSE "application/json", body |-> body]

encodeCreateCommandRequest(s) == {[doc |-> EncodeCommandRequest(s), trailing |-> FALSE]}

\* decodeCreateCommandRequest: the status the request is refused with, or 0.
Refused(r) ==
  IF MediaType(r.ctype) = {} THEN 400
  ELSE IF MediaType(r.ctype) # {"application/json"} THEN 415
  ELSE IF \E b \in r.body : DecodeCommandRequest(b.doc) # {} /\ ~b.trailing THEN 0
  ELSE 400

Decoded(r) == DecodeCommandRequest(The(r.body).doc)

(***************************************************************************)
(* Where a request goes: the middleware, the mux of main, then ServeHTTP.  *)
(***************************************************************************)
CommandsPath == <<"/", "v1/commands">>
CommandPath  == <<"/", "v1/commands", "/">>

ByMethod(r, handlers) ==
  IF r.method \in DOMAIN handlers THEN handlers[r.method] ELSE "notAllowed"

\* Mutant: a command's path is found for any method.
RouteAnyMethod(r) ==
  IF r.method = "OPTIONS" THEN "cors" ELSE
  CASE r.path = <<"/", "openapi.json">>     -> "serveOpenAPISpec"
    [] r.path = <<"/", "health">>           -> "healthCheck"
    [] r.path = CommandsPath                -> "listCommands"
    [] Len(r.path) \in {3, 4} /\ SubSeq(r.path, 1, 3) = CommandPath -> "getCommand"
    [] OTHER                                -> "notFound"

Route(r) ==
  IF r.method = "OPTIONS" THEN "cors" ELSE
  CASE r.path = <<"/", "openapi.json">>     -> "serveOpenAPISpec"
    [] r.path = <<"/", "health">>           -> ByMethod(r, [GET |-> "healthCheck"])
    [] r.path = CommandsPath                -> ByMethod(r, [GET |-> "listCommands",
                                                            POST |-> "createCommand"])
    [] Len(r.path) \in {3, 4} /\ SubSeq(r.path, 1, 3) = CommandPath ->
                                               ByMethod(r, [GET |-> "getCommand"])
    [] OTHER                                -> "notFound"

\* The rest of the path is the id (oas_router_gen.go:135-138), slashes included;
\* decodeGetCommandParams refuses an empty one.
PathId(r) == IF Len(r.path) = 4 THEN {r.path[4]} \ {""} ELSE {}

(***************************************************************************)
(* Encoders of responses.                                                  *)
(***************************************************************************)
Json(code, j)  == [code |-> code, ctype |-> OurType, body |-> {j}]
Plain(code)    == [code |-> code, ctype |-> "text/plain; charset=utf-8", body |-> {}]
NoBody(code)   == [code |-> code, ctype |-> "", body |-> {}]

encodeCreateCommandResponse(a) ==
  CASE a[1] = "CommandResponse"         -> Json(202, EncodeCommandResponse(a[2]))
    [] a[1] = "CreateCommandBadRequest" -> Json(400, EncodeCreateCommandBadRequest(a[2]))
    [] a[1] = "CreateCommandInternalServerError" ->
                                 Json(500, EncodeCreateCommandInternalServerError(a[2]))

encodeGetCommandResponse(a) ==
  CASE a[1] = "CommandStatus"        -> Json(200, EncodeCommandStatus(a[2]))
    [] a[1] = "GetCommandBadRequest" -> Json(400, EncodeGetCommandBadRequest(a[2]))
    [] a[1] = "GetCommandNotFound"   -> Json(404, EncodeGetCommandNotFound(a[2]))

encodeHealthCheckResponse(a)  == Json(200, EncodeHealthResponse(a[2]))
encodeListCommandsResponse(a) == Json(200, EncodeCommandListResponse(a[2]))

\* The library's error handler does not write an ErrorResponse.
DefaultErrorHandler(code) ==
  Json(code, JObj(Field("error_message", JStr("operation: decode: ..."))))

(***************************************************************************)
(* Decoders of responses: what the generated client returns.               *)
(***************************************************************************)
ReadBody(w, D(_), Valid(_)) ==
  IF MediaType(w.ctype) = {"application/json"}
  THEN UNION {{s \in D(j) : Valid(s)} : j \in w.body}
  ELSE {}

Unchecked(s) == TRUE
As(type, ss) == {<<type, s>> : s \in ss}

decodeCreateCommandResponse(w) ==
  CASE w.code = 202 -> As("CommandResponse",
                          ReadBody(w, DecodeCommandResponse, ValidCommandResponse))
    [] w.code = 400 -> As("CreateCommandBadRequest",
                          ReadBody(w, DecodeCreateCommandBadRequest, Unchecked))
    [] w.code = 500 -> As("CreateCommandInternalServerError",
                          ReadBody(w, DecodeCreateCommandInternalServerError, Unchecked))
    [] OTHER        -> {}

decodeGetCommandResponse(w) ==
  CASE w.code = 200 -> As("CommandStatus",
                          ReadBody(w, DecodeCommandStatus, ValidCommandStatus))
    [] w.code = 400 -> As("GetCommandBadRequest",
                          ReadBody(w, DecodeGetCommandBadRequest, Unchecked))
    [] w.code = 404 -> As("GetCommandNotFound",
                          ReadBody(w, DecodeGetCommandNotFound, Unchecked))
    [] OTHER        -> {}

decodeGetOpenAPIResponse(w) ==
  IF w.code = 200 THEN As("GetOpenAPIOK", ReadBody(w, DecodeGetOpenAPIOK, Unchecked)) ELSE {}

decodeHealthCheckResponse(w) ==
  IF w.code = 200 THEN As("HealthResponse", ReadBody(w, DecodeHealthResponse, Unchecked)) ELSE {}

decodeListCommandsResponse(w) ==
  IF w.code = 200
  THEN As("CommandListResponse",
          ReadBody(w, DecodeCommandListResponse, ValidCommandListResponse))
  ELSE {}

decodeResponse(op, w) ==
  CASE op = "CreateCommand" -> decodeCreateCommandResponse(w)
    [] op = "GetCommand"    -> decodeGetCommandResponse(w)
    [] op = "GetOpenAPI"    -> decodeGetOpenAPIResponse(w)
    [] op = "HealthCheck"   -> decodeHealthCheckResponse(w)
    [] op = "ListCommands"  -> decodeListCommandsResponse(w)
    [] OTHER                -> {}

(***************************************************************************)
(* The generated client sends a request.                                   *)
(***************************************************************************)
Send(c, op, r) ==
  /\ phase[c] = "idle"
  /\ phase' = [phase EXCEPT ![c] = "sent"]
  /\ call'  = [call EXCEPT ![c] = op]
  /\ req'   = [req EXCEPT ![c] = {r}]
  /\ UNCHANGED <<vars, taskVars, answer, wire, got, gathered>>

sendCreateCommand(c, s) ==
  Send(c, <<"CreateCommand", s>>, Request("POST", CommandsPath, encodeCreateCommandRequest(s)))

\* An id that was given out, or one that no command has.
sendGetCommand(c, id) ==
  /\ id \in Tasks => reply[id] = "202"
  /\ Send(c, <<"GetCommand", id>>, Request("GET", CommandPath \o <<id>>, {}))

sendGetOpenAPI(c)   == Send(c, <<"GetOpenAPI">>, Request("GET", <<"/", "openapi.json">>, {}))
sendHealthCheck(c)  == Send(c, <<"HealthCheck">>, Request("GET", <<"/", "health">>, {}))
sendListCommands(c) == Send(c, <<"ListCommands">>, Request("GET", CommandsPath, {}))
SendOther(c, r)     == Send(c, <<"other">>, r)

(***************************************************************************)
(* The server handles it.                                                  *)
(***************************************************************************)
Sent(c)         == The(req[c])
Serving(c, op)  == phase[c] = "sent" /\ Route(Sent(c)) = op

Respond(c, a, w) ==
  /\ phase'  = [phase EXCEPT ![c] = "answered"]
  /\ answer' = [answer EXCEPT ![c] = a]
  /\ wire'   = [wire EXCEPT ![c] = w]
  /\ UNCHANGED <<call, req, got>>

Reject(c, code) == Respond(c, <<"Error", code>>, DefaultErrorHandler(code))

\* The two error texts of CreateCommand are not told apart.
Fields(s) ==
  [single  |-> s.ffmpeg_command # {},
   chain   |-> \E list \in s.ffmpeg_commands : Len(list) > 0,
   outputs |-> DOMAIN s.output_files # {}]

Created(c, t, s) ==
  LET a == IF reply'[t] = "202"
           THEN <<"CommandResponse", [command_id |-> t, status |-> "PENDING",
                                      reference_id |-> s.reference_id]>>
           ELSE <<"CreateCommandInternalServerError", [error |-> "enqueue failed"]>>
  IN  Respond(c, a, encodeCreateCommandResponse(a))

Put(t, s, s0) ==
  IF state'[t] = state[t] THEN UNCHANGED taskVars
  ELSE /\ payload' = [payload EXCEPT ![t] = {MarshalRequest(WorkerCommandRequest(s))}]
       /\ asked'   = [asked EXCEPT ![t] = {s0}]
       /\ UNCHANGED results

BadRequest == <<"CreateCommandBadRequest", [error |-> "required"]>>

handleCreateCommandRequest(c) ==
  /\ Serving(c, "createCommand")
  /\ \/ /\ Refused(Sent(c)) # 0
        /\ Reject(c, Refused(Sent(c)))
        /\ UNCHANGED <<vars, taskVars>>
     \/ /\ Refused(Sent(c)) = 0
        /\ \E s \in Decoded(Sent(c)) :
             \/ /\ Invalid(Fields(s))
                /\ Respond(c, BadRequest, encodeCreateCommandResponse(BadRequest))
                /\ UNCHANGED <<vars, taskVars>>
             \/ /\ ~Invalid(Fields(s))
                /\ \E t \in Tasks :
                     /\ CreateCommand(t, Fields(s))
                     /\ Put(t, s, IF call[c][1] = "other" THEN s ELSE call[c][2])
                     /\ Created(c, t, s)
  /\ UNCHANGED gathered

handleGetCommandRequest(c) ==
  /\ Serving(c, "getCommand")
  /\ LET id       == PathId(Sent(c))
         notFound == <<"GetCommandNotFound", [error |-> "command not found"]>>
         Found(t, s) == <<"CommandStatus", FullStatus(t, state[t], s)>>
     IN  \/ /\ id = {}
            /\ Reject(c, 400)
            /\ UNCHANGED vars
         \/ /\ id # {}
            /\ id \cap Tasks = {}
            /\ Respond(c, notFound, encodeGetCommandResponse(notFound))
            /\ UNCHANGED vars
         \/ \E t \in id \cap Tasks, s \in Statuses \cup {"404"} :
              /\ GetCommand(t, s)
              /\ LET a == IF s = "404" THEN notFound ELSE Found(t, s)
                 IN  Respond(c, a, encodeGetCommandResponse(a))
  /\ UNCHANGED <<taskVars, gathered>>

handleHealthCheckRequest(c) ==
  /\ Serving(c, "healthCheck")
  /\ LET ok == <<"HealthResponse", [status |-> "ok"]>>
     IN  Respond(c, ok, encodeHealthCheckResponse(ok))
  /\ UNCHANGED <<vars, taskVars, gathered>>

\* One of the four reads of ListCommands; the last one gives the answer.
handleListCommandsRequest(c) ==
  LET list  == Lists[cursor[c] + 1]
      found == SetToSeq({FullStatus(e.id, e.list, e.status) :
                           e \in {e \in page'[c] : e.list = list}})
      a     == <<"CommandListResponse", [commands |-> gathered'[c], total |-> Len(gathered'[c])]>>
  IN
  /\ phase[c] = "listing" \/ Serving(c, "listCommands")
  /\ ListNext(c)
  /\ gathered' = [gathered EXCEPT ![c] = @ \o found]
  /\ IF cursor'[c] = Done
     THEN Respond(c, a, encodeListCommandsResponse(a))
     ELSE /\ phase' = [phase EXCEPT ![c] = "listing"]
          /\ UNCHANGED <<call, req, answer, wire, got>>
  /\ UNCHANGED taskVars

serveOpenAPISpec(c) ==
  /\ Serving(c, "serveOpenAPISpec")
  /\ \/ Respond(c, <<"GetOpenAPIOK", "document">>,
                [code |-> 200, ctype |-> "application/json", body |-> {JObj(<<>>)}])
     \/ Faulty /\ Respond(c, <<"Error", 500>>, Plain(500))
  /\ UNCHANGED <<vars, taskVars, gathered>>

\* corsMiddleware, http.NotFound and MethodNotAllowed.
Turn(c) ==
  /\ \/ Serving(c, "cors")       /\ Respond(c, <<"Error", 200>>, NoBody(200))
     \/ Serving(c, "notFound")   /\ Respond(c, <<"Error", 404>>, Plain(404))
     \/ Serving(c, "notAllowed") /\ Respond(c, <<"Error", 405>>, NoBody(405))
  /\ UNCHANGED <<vars, taskVars, gathered>>

(***************************************************************************)
(* The answer reaches the client, or is lost on the way; the connection is *)
(* free again.                                                             *)
(***************************************************************************)
Receive(c) ==
  /\ phase[c] = "answered"
  /\ phase' = [phase EXCEPT ![c] = "received"]
  /\ got'   = [got EXCEPT ![c] = decodeResponse(call[c][1], wire[c])]
  /\ UNCHANGED <<vars, taskVars, call, req, answer, wire, gathered>>

Finish(c) ==
  /\ phase[c] \in {"answered", "received"}
  /\ phase'    = [phase EXCEPT ![c] = "idle"]
  /\ call'     = [call EXCEPT ![c] = None]
  /\ req'      = [req EXCEPT ![c] = {}]
  /\ answer'   = [answer EXCEPT ![c] = None]
  /\ wire'     = [wire EXCEPT ![c] = Blank]
  /\ got'      = [got EXCEPT ![c] = {}]
  /\ gathered' = [gathered EXCEPT ![c] = <<>>]
  /\ cursor'   = [cursor EXCEPT ![c] = 0]
  /\ page'     = [page EXCEPT ![c] = {}]
  /\ steady'   = [steady EXCEPT ![c] = {}]
  /\ UNCHANGED <<queueVars, reply, told, unread, taskVars>>

(***************************************************************************)
(* The workers.  A run writes its result before it returns.                *)
(***************************************************************************)
WriteResult(t, r) ==
  /\ state[t] = "active"
  /\ holder[t] # NoRun
  /\ results' = [results EXCEPT ![t] = {MarshalResult(r)}]
  /\ UNCHANGED <<vars, payload, asked, httpVars, gathered>>

Work ==
  /\ \/ \E t \in Tasks : WorkerStep(t)
     \/ \E lost \in SUBSET Tasks : LeasesEnd(lost)
  /\ UNCHANGED <<taskVars, httpVars, gathered>>

Handle(c) ==
  \/ handleCreateCommandRequest(c) \/ handleGetCommandRequest(c)
  \/ handleHealthCheckRequest(c) \/ handleListCommandsRequest(c)
  \/ serveOpenAPISpec(c) \/ Turn(c)

ServerNext ==
  \/ \E c \in Conns, s \in Asked : sendCreateCommand(c, s)
  \/ \E c \in Conns, id \in Tasks \cup Ids : sendGetCommand(c, id)
  \/ \E c \in Conns, r \in OtherRequests : SendOther(c, r)
  \/ \E c \in Conns : sendGetOpenAPI(c) \/ sendHealthCheck(c) \/ sendListCommands(c)
  \/ \E c \in Conns : Handle(c) \/ Receive(c) \/ Finish(c)
  \/ Work
  \/ \E t \in Tasks, r \in Results : WriteResult(t, r)

ServerSpec == ServerInit /\ [][ServerNext]_allVars

-----------------------------------------------------------------------------
\* A request's answer keeps only the text the client can still see: whole seconds.
Rounded(s) ==
  [s EXCEPT !.created_at = WholeSecond(@), !.completed_at = {WholeSecond(t) : t \in @}]

Read(a) ==
  CASE a[1] = "CommandStatus" -> <<a[1], Rounded(a[2])>>
    [] a[1] = "CommandListResponse" ->
         <<a[1], [a[2] EXCEPT !.commands = [i \in DOMAIN @ |-> Rounded(@[i])]]>>
    [] OTHER -> a

(***************************************************************************)
(* Every answer of the API's handlers, whatever the request, the result    *)
(* and the state of the command, passes the encoder and the generated      *)
(* decoder and its validation: the client returns what the handler         *)
(* returned, times rounded to seconds.  Only answers of the library's      *)
(* error handler are errors there.                                         *)
(***************************************************************************)
AnswersDecode ==
  \A c \in Conns :
    /\ phase[c] = "received"
    /\ call[c] # <<"other">>
    /\ answer[c][1] # "Error"
    => got[c] = {Read(answer[c])}

(***************************************************************************)
(* What the client asked for comes back as original_request, through       *)
(* request, payload and answer, whenever and however the status is asked   *)
(* for, up to the spelling of the webhook's URL; a text or list that is    *)
(* set but empty comes back as not set.                                    *)
(***************************************************************************)
Canonical(s) ==
  [s EXCEPT !.ffmpeg_command  = @ \ {""},
            !.ffmpeg_commands = @ \ {<<>>},
            !.webhook         = {UrlForm[u] : u \in @} \ {""},
            !.reference_id    = @ \ {""}]

StatusesIn(g) ==
  CASE g[1] = "CommandStatus"       -> {g[2]}
    [] g[1] = "CommandListResponse" -> {g[2].commands[i] : i \in DOMAIN g[2].commands}
    [] OTHER                        -> {}

EchoIsRequest ==
  \A c \in Conns :
    \A s \in UNION {StatusesIn(g) : g \in got[c]} :
      s.original_request = {Canonical(s0) : s0 \in asked[s.command_id]}

=============================================================================
