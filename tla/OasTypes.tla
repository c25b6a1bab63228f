------------------------------ MODULE OasTypes -------------------------------
(***************************************************************************)
(* The messages of the API as the generated code writes, reads and checks  *)
(* them (api/oas/oas_json_gen.go, oas_validators_gen.go): one pair of      *)
(* operators per type.  A message is a record with the names of the JSON   *)
(* fields; an optional field, and a list that may be nil, is a set with at *)
(* most one element.  A decoder returns the messages a text stands for:    *)
(* one, or none if the text is refused; a required field that is missing   *)
(* leaves no record to choose.                                             *)
(***************************************************************************)
EXTENDS JsonText

CONSTANT
  UrlForm   \* the texts url.Parse accepts, and what URL.String makes of them

ASSUME UrlAssumption ==
  \A u \in DOMAIN UrlForm : UrlForm[u] \in DOMAIN UrlForm /\ UrlForm[UrlForm[u]] = UrlForm[u]

StatusEnum == {"PENDING", "PROCESSING", "SUCCESS", "FAILED", "RETRYING"}
FileTypes  == {"image", "video", "audio", "subtitle", "file"}

(***************************************************************************)
(* The types (oas_schemas_gen.go), without the numbers' ranges.            *)
(***************************************************************************)
IsOpt(o)   == o = {} \/ \E v \in o : o = {v}
IsList(l)  == l \in Seq(Range(l))
IsMap(m)   == m = [k \in DOMAIN m |-> m[k]] /\ IsFiniteSet(DOMAIN m)
IsFloat(f) == f[1] \in {"int", "real"}

IsCommandRequest(s) ==
  /\ s = [input_files |-> s.input_files, output_files |-> s.output_files,
          ffmpeg_command |-> s.ffmpeg_command, ffmpeg_commands |-> s.ffmpeg_commands,
          webhook |-> s.webhook, reference_id |-> s.reference_id]
  /\ IsMap(s.output_files)
  /\ IsOpt(s.input_files) /\ \A m \in s.input_files : IsMap(m)
  /\ IsOpt(s.ffmpeg_commands) /\ \A l \in s.ffmpeg_commands : IsList(l)
  /\ IsOpt(s.ffmpeg_command) /\ IsOpt(s.webhook) /\ IsOpt(s.reference_id)

IsCommandResponse(s) ==
  /\ s = [command_id |-> s.command_id, status |-> s.status, reference_id |-> s.reference_id]
  /\ IsOpt(s.reference_id)

IsOutputFileInfo(s) ==
  /\ s = [file_id |-> s.file_id, size_mbytes |-> s.size_mbytes, file_type |-> s.file_type,
          file_format |-> s.file_format, storage_url |-> s.storage_url,
          width |-> s.width, height |-> s.height]
  /\ IsFloat(s.size_mbytes) /\ IsOpt(s.width) /\ IsOpt(s.height)

IsStatusOutputFiles(m) == IsMap(m) /\ \A k \in DOMAIN m : IsOutputFileInfo(m[k])

IsCommandStatus(s) ==
  /\ s = [command_id |-> s.command_id, status |-> s.status,
          output_files |-> s.output_files, original_request |-> s.original_request,
          ffmpeg_command_run_seconds |-> s.ffmpeg_command_run_seconds,
          total_processing_seconds |-> s.total_processing_seconds, error |-> s.error,
          created_at |-> s.created_at, completed_at |-> s.completed_at]
  /\ IsOpt(s.output_files) /\ \A m \in s.output_files : IsStatusOutputFiles(m)
  /\ IsOpt(s.original_request) /\ \A r \in s.original_request : IsCommandRequest(r)
  /\ IsOpt(s.ffmpeg_command_run_seconds) /\ \A f \in s.ffmpeg_command_run_seconds : IsFloat(f)
  /\ IsOpt(s.total_processing_seconds) /\ \A f \in s.total_processing_seconds : IsFloat(f)
  /\ IsOpt(s.error) /\ IsOpt(s.completed_at)

(***************************************************************************)
(* Optional values: what is not set is not written, what is there is read. *)
(***************************************************************************)
EncodeOptString(k, o)   == WhenSet(k, o, JStr)
DecodeOptString(j, k)   == Optional(j, k, AsStr)
EncodeOptInt(k, o)      == WhenSet(k, o, JInt)
DecodeOptInt(j, k)      == Optional(j, k, AsInt)
EncodeOptFloat64(k, o)  == WhenSet(k, o, FloatText)
DecodeOptFloat64(j, k)  == Optional(j, k, AsFloat)

\* ogen writes times with RFC 3339, which has no fraction of a second.
WholeSecond(t)          == <<t[1], 0>>
EncodeDateTime(t)       == JTime(WholeSecond(t))
EncodeOptDateTime(k, o) == WhenSet(k, o, EncodeDateTime)
DecodeOptDateTime(j, k) == Optional(j, k, AsTime)

\* A url.URL is kept as the text its String method gives.
AsURI(j)          == {UrlForm[u] : u \in AsStr(j) \cap DOMAIN UrlForm}
EncodeOptURI(k, o) == WhenSet(k, o, JStr)
DecodeOptURI(j, k) == Optional(j, k, AsURI)

(***************************************************************************)
(* CommandRequest.                                                         *)
(***************************************************************************)
EncodeInputFiles(m)     == MapText(m, JStr)
DecodeInputFiles(j)     == MapOf(j, AsStr)
EncodeOptInputFiles(k, o) == WhenSet(k, o, EncodeInputFiles)
DecodeOptInputFiles(j, k) == Optional(j, k, DecodeInputFiles)

EncodeOutputFiles(m)    == MapText(m, JStr)

\* init keeps the map it finds: a second output_files is added to the first.
DecodeOutputFiles(j, k) == Merged(j, k, AsStr)

StringList(s)   == ListText(s, JStr)
AsStringList(j) == ListOf(j, AsStr)
DecodeOptStringList(j, k) == Optional(j, k, AsStringList)

EncodeCommandRequest(s) ==
  JObj(EncodeOptInputFiles("input_files", s.input_files)
       \o Field("output_files", EncodeOutputFiles(s.output_files))
       \o EncodeOptString("ffmpeg_command", s.ffmpeg_command)
       \o WhenSet("ffmpeg_commands", s.ffmpeg_commands, StringList)
       \o EncodeOptURI("webhook", s.webhook)
       \o EncodeOptString("reference_id", s.reference_id))

DecodeCommandRequest(j) ==
  [input_files     : DecodeOptInputFiles(j, "input_files"),
   output_files    : DecodeOutputFiles(j, "output_files"),
   ffmpeg_command  : DecodeOptString(j, "ffmpeg_command"),
   ffmpeg_commands : DecodeOptStringList(j, "ffmpeg_commands"),
   webhook         : DecodeOptURI(j, "webhook"),
   reference_id    : DecodeOptString(j, "reference_id")]

EncodeOptCommandRequest(k, o) == WhenSet(k, o, EncodeCommandRequest)
DecodeOptCommandRequest(j, k) == Optional(j, k, DecodeCommandRequest)

(***************************************************************************)
(* CommandResponse, ErrorResponse, HealthResponse and the API document.    *)
(* A status that is not in the enumeration is read; Validate refuses it.   *)
(***************************************************************************)
EncodeResponseStatus(s) == JStr(s)
DecodeResponseStatus(j) == AsStr(j)
ValidResponseStatus(s)  == s \in StatusEnum

EncodeCommandResponse(s) ==
  JObj(Field("command_id", JStr(s.command_id))
       \o Field("status", EncodeResponseStatus(s.status))
       \o EncodeOptString("reference_id", s.reference_id))

DecodeCommandResponse(j) ==
  [command_id   : Required(j, "command_id", AsStr),
   status       : Required(j, "status", DecodeResponseStatus),
   reference_id : DecodeOptString(j, "reference_id")]

ValidCommandResponse(s) == ValidResponseStatus(s.status)

EncodeErrorResponse(s) == JObj(Field("error", JStr(s.error)))
DecodeErrorResponse(j) == [error : Required(j, "error", AsStr)]

\* The five error answers are this type under other names.
EncodeCreateCommandBadRequest(s)          == EncodeErrorResponse(s)
DecodeCreateCommandBadRequest(j)          == DecodeErrorResponse(j)
EncodeCreateCommandInternalServerError(s) == EncodeErrorResponse(s)
DecodeCreateCommandInternalServerError(j) == DecodeErrorResponse(j)
EncodeGetCommandBadRequest(s)             == EncodeErrorResponse(s)
DecodeGetCommandBadRequest(j)             == DecodeErrorResponse(j)
EncodeGetCommandNotFound(s)               == EncodeErrorResponse(s)
DecodeGetCommandNotFound(j)               == DecodeErrorResponse(j)

EncodeHealthResponse(s) == JObj(Field("status", JStr(s.status)))
DecodeHealthResponse(j) == [status : Required(j, "status", AsStr)]

\* Every field of the document is skipped.
DecodeGetOpenAPIOK(j)   == IF j[1] = "obj" THEN {"document"} ELSE {}

(***************************************************************************)
(* CommandStatus and the list of them.                                     *)
(***************************************************************************)
EncodeFileType(s) == JStr(s)
DecodeFileType(j) == AsStr(j)
ValidFileType(s)  == s \in FileTypes

EncodeOutputFileInfo(s) ==
  JObj(Field("file_id", JStr(s.file_id))
       \o Field("size_mbytes", FloatText(s.size_mbytes))
       \o Field("file_type", EncodeFileType(s.file_type))
       \o Field("file_format", JStr(s.file_format))
       \o Field("storage_url", JStr(s.storage_url))
       \o EncodeOptInt("width", s.width)
       \o EncodeOptInt("height", s.height))

DecodeOutputFileInfo(j) ==
  [file_id     : Required(j, "file_id", AsStr),
   size_mbytes : Required(j, "size_mbytes", AsFloat),
   file_type   : Required(j, "file_type", DecodeFileType),
   file_format : Required(j, "file_format", AsStr),
   storage_url : Required(j, "storage_url", AsStr),
   width       : DecodeOptInt(j, "width"),
   height      : DecodeOptInt(j, "height")]

\* A size is a number of the text, so it is never NaN or infinite.
ValidOutputFileInfo(s) == ValidFileType(s.file_type)

EncodeStatusOutputFiles(m) == MapText(m, EncodeOutputFileInfo)
DecodeStatusOutputFiles(j) == MapOf(j, DecodeOutputFileInfo)
ValidStatusOutputFiles(m)  == \A k \in DOMAIN m : ValidOutputFileInfo(m[k])
EncodeOptStatusOutputFiles(k, o) == WhenSet(k, o, EncodeStatusOutputFiles)
DecodeOptStatusOutputFiles(j, k) == Optional(j, k, DecodeStatusOutputFiles)

EncodeStatus(s) == JStr(s)
DecodeStatus(j) == AsStr(j)
ValidStatus(s)  == s \in StatusEnum

EncodeCommandStatus(s) ==
  JObj(Field("command_id", JStr(s.command_id))
       \o Field("status", EncodeStatus(s.status))
       \o EncodeOptStatusOutputFiles("output_files", s.output_files)
       \o EncodeOptCommandRequest("original_request", s.original_request)
       \o EncodeOptFloat64("ffmpeg_command_run_seconds", s.ffmpeg_command_run_seconds)
       \o EncodeOptFloat64("total_processing_seconds", s.total_processing_seconds)
       \o EncodeOptString("error", s.error)
       \o Field("created_at", EncodeDateTime(s.created_at))
       \o EncodeOptDateTime("completed_at", s.completed_at))

DecodeCommandStatus(j) ==
  [command_id       : Required(j, "command_id", AsStr),
   status           : Required(j, "status", DecodeStatus),
   output_files     : DecodeOptStatusOutputFiles(j, "output_files"),
   original_request : DecodeOptCommandRequest(j, "original_request"),
   ffmpeg_command_run_seconds : DecodeOptFloat64(j, "ffmpeg_command_run_seconds"),
   total_processing_seconds   : DecodeOptFloat64(j, "total_processing_seconds"),
   error            : DecodeOptString(j, "error"),
   created_at       : Required(j, "created_at", AsTime),
   completed_at     : DecodeOptDateTime(j, "completed_at")]

ValidCommandStatus(s) ==
  /\ ValidStatus(s.status)
  /\ \A m \in s.output_files : ValidStatusOutputFiles(m)

StatusList(s)   == ListText(s, EncodeCommandStatus)
AsStatusList(j) == ListOf(j, DecodeCommandStatus)

\* A nil list is written as an empty one.
EncodeCommandListResponse(s) ==
  JObj(Field("commands", StatusList(s.commands))
       \o Field("total", JInt(s.total)))

DecodeCommandListResponse(j) ==
  [commands : Required(j, "commands", AsStatusList),
   total    : Required(j, "total", AsInt)]

ValidCommandListResponse(s) ==
  \A i \in DOMAIN s.commands : ValidCommandStatus(s.commands[i])

=============================================================================
