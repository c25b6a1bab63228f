----------------------------- MODULE MCApiServer -----------------------------
(***************************************************************************)
(* ApiServer for TLC: requests a generated client sends, requests it would *)
(* not send, and results with and without dimensions.                      *)
(***************************************************************************)
EXTENDS ApiServer, TLC

MCHandlerErrors == {"resource_limit"}
MCUncounted     == MCHandlerErrors
MCRequests      == [single : BOOLEAN, chain : BOOLEAN, outputs : BOOLEAN]

MCUrlForm == [u \in {"", "HTTP://h", "http://h"} |-> IF u = "" THEN "" ELSE "http://h"]

Outputs == "out_1" :> "a.jpg"
Least == [input_files |-> {}, output_files |-> Outputs, ffmpeg_command |-> {"cmd"},
          ffmpeg_commands |-> {}, webhook |-> {}, reference_id |-> {}]
Full  == [input_files |-> {"in_1" :> "http://h/v"}, output_files |-> Outputs @@ ("out_2" :> "b"),
          ffmpeg_command |-> {}, ffmpeg_commands |-> {<<"cmd", "cmd2">>},
          webhook |-> {"http://h"}, reference_id |-> {"ref"}]

\* Set but empty; nothing to run; nothing to make.
MCAsked ==
  {Least, Full,
   [Full EXCEPT !.input_files = {<<>>}, !.ffmpeg_command = {""}, !.ffmpeg_commands = {<<>>},
                !.webhook = {""}, !.reference_id = {""}],
   [Least EXCEPT !.ffmpeg_command = {}],
   [Least EXCEPT !.output_files = <<>>]}

Doc(fields) == [doc |-> JObj(fields), trailing |-> FALSE]
Out(k)      == Field("output_files", JObj(Field(k, JStr("a.jpg"))))
Command     == Field("ffmpeg_command", JStr("cmd"))

MCDocs ==
  {Doc(Out("out_1") \o Command \o Out("out_2")),               \* merged
   Doc(Field("input_files", JNull) \o Out("out_1") \o Command),
   Doc(Command),                                               \* nothing to make
   Doc(Out("out_1") \o Field("webhook", JStr("%")) \o Command \o Field("webhook", JStr(""))),
   Doc(Out("out_1") \o Field("other", JNull) \o Command \o Field("webhook", JStr("HTTP://h"))),
   [doc |-> JBad, trailing |-> FALSE],
   [doc |-> JObj(Out("out_1") \o Command), trailing |-> TRUE]}

MCOtherRequests ==
  {Request("POST", CommandsPath, {d}) : d \in MCDocs}
  \cup {[Request("POST", CommandsPath, {Doc(Out("out_1") \o Command)}) EXCEPT !.ctype = ct] :
          ct \in {"", "text/plain"}}
  \cup {Request("POST", CommandsPath, {}), Request("OPTIONS", CommandsPath, {}),
        Request("DELETE", CommandPath \o <<"x/y">>, {}), Request("GET", CommandPath, {}),
        Request("GET", <<"/", "health", "z">>, {}), Request("PUT", <<"/", "health">>, {})}

Output(type, w) ==
  [file_id |-> "f", size_mbytes |-> JReal("0.085"), file_type |-> type, file_format |-> "jpg",
   storage_url |-> "http://h/f", width |-> w, height |-> w]

MCResults ==
  {[output_files |-> ("out_1" :> Output("image", 640)) @@ ("out_2" :> Output("file", 0)),
    ffmpeg_command_run_seconds |-> JReal("0.82"), total_processing_seconds |-> JInt(5),
    completed_at |-> <<4, 7>>, hardware_acceleration |-> "none"]}

=============================================================================
