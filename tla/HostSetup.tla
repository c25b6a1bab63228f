------------------------------ MODULE HostSetup ------------------------------
(***************************************************************************)
(* What a worker makes of its machine before it takes jobs: the settings   *)
(* in its environment (worker/config/config.go), the storage adapter       *)
(* (worker/adapters) and the hardware encoder (worker/system/hardware.go). *)
(*                                                                         *)
(* The text of a setting is abstracted to what the Go parsers make of it:  *)
(* [kind, value] with kind "int", "float" (in thousandths), "inf" (1 or    *)
(* -1), "nan", "bool" or "text".  An environment is a function on the      *)
(* variables that are set and not empty.                                   *)
(***************************************************************************)
EXTENDS Integers, Sequences

Settings(env) ==
  \A key \in DOMAIN env :
    /\ env[key].kind \in {"int", "float", "inf"} => env[key].value \in Int
    /\ env[key].kind = "bool" => env[key].value \in BOOLEAN

getEnv(env, key, default) ==
  IF key \in DOMAIN env THEN env[key].value ELSE default

\* A text the parser refuses counts as if it were not there.
Parsed(env, key, kinds, default) ==
  IF key \in DOMAIN env /\ env[key].kind \in kinds THEN env[key] ELSE default

\* strconv.ParseBool knows 0 and 1 as well.
getEnvBool(env, key, default) ==
  IF key \notin DOMAIN env THEN default
  ELSE CASE env[key].kind = "bool" -> env[key].value
         [] env[key].kind = "int" /\ env[key].value \in {0, 1} -> env[key].value = 1
         [] OTHER -> default

Whole(n) == [kind |-> "int", value |-> n]

\* strconv.ParseFloat knows integers, infinities and NaN as well.
getEnvFloat(env, key, default) ==
  LET number == Parsed(env, key, {"int", "float", "inf", "nan"}, Whole(default))
  IN  IF number.kind = "int" THEN [kind |-> "float", value |-> 1000 * number.value] ELSE number

Load(env) ==
  [concurrency |-> Parsed(env, "CONCURRENCY", {"int"}, Whole(2)).value,
   enabled     |-> getEnvBool(env, "RESOURCE_CHECK_ENABLED", TRUE),
   maxPercent  |-> getEnvFloat(env, "MAX_MEMORY_PERCENT", 85)]

\* asynq runs one task per CPU if the configured number is none.
Slots(config, cpus) == IF config.concurrency < 1 THEN cpus ELSE config.concurrency

(***************************************************************************)
(* NewAdapter: an unknown name, or a setting that is required and missing, *)
(* is an error.                                                            *)
(***************************************************************************)
AdapterNames == {"file", "bunny-storage", "bunny-stream", "s3"}

Required(name) ==
  CASE name = "bunny-storage" -> {"BUNNY_STORAGE_ZONE", "BUNNY_STORAGE_KEY"}
    [] name = "bunny-stream"  -> {"BUNNY_STREAM_LIBRARY_ID", "BUNNY_STREAM_API_KEY"}
    [] name = "s3"            -> {"S3_BUCKET", "S3_ACCESS_KEY", "S3_SECRET_KEY"}
    [] OTHER                  -> {}

AdapterOf(env) == getEnv(env, "STORAGE_ADAPTER", "file")

NewAdapterFails(env) ==
  AdapterOf(env) \notin AdapterNames \/ ~(Required(AdapterOf(env)) \subseteq DOMAIN env)

(***************************************************************************)
(* detectHardware.  A machine has an operating system, perhaps an NVIDIA   *)
(* GPU, the nodes in /dev/dri, [kind, number] for a name like renderD128   *)
(* or card0, and the encoders its FFmpeg lists (none if there is no        *)
(* FFmpeg).                                                                *)
(***************************************************************************)
Accelerations == {"nvenc", "qsv", "amf", "vaapi", "videotoolbox"}

Preference(os) ==
  CASE os = "darwin"  -> <<"videotoolbox">>
    [] os = "linux"   -> <<"nvenc", "qsv", "amf", "vaapi">>
    [] os = "windows" -> <<"nvenc", "qsv", "amf">>
    [] OTHER          -> <<>>

renderD128 == [kind |-> "renderD", number |-> 128]

\* Mutant: any node in /dev/dri will do.
DeviceFoundOfAnyKind(m, accel) ==
  CASE accel = "nvenc" -> m.nvidia
    [] accel = "qsv"   -> m.os = "linux" => m.dri # {}
    [] accel = "vaapi" -> renderD128 \in m.dri
    [] OTHER           -> TRUE

DeviceFound(m, accel) ==
  CASE accel = "nvenc" -> m.nvidia
    [] accel = "qsv"   -> m.os = "linux" => \E node \in m.dri : node.kind = "renderD"
    [] accel = "vaapi" -> renderD128 \in m.dri
    [] OTHER           -> TRUE

Check(m, accel) == DeviceFound(m, accel) /\ accel \in m.encoders

detectHardware(m) ==
  LET order == Preference(m.os)
      found == {i \in DOMAIN order : Check(m, order[i])}
  IN  IF found = {} THEN "none" ELSE order[CHOOSE i \in found : \A n \in found : i <= n]

=============================================================================
