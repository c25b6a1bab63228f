---------------------------- MODULE MCWorkerHost -----------------------------
(***************************************************************************)
(* WorkerHost for TLC.  Two families of machines: one with every operating *)
(* system and set of devices and encoders, with the default settings; and  *)
(* one Linux server with the settings and memory that matter.              *)
(***************************************************************************)
EXTENDS WorkerHost, TLC

CONSTANTS j1, j2, j3

MCNeed == (j1 :> 4) @@ (j2 :> 2) @@ (j3 :> 1)

Num(n)  == [kind |-> "int", value |-> n]
Text(s) == [kind |-> "text", value |-> s]
Limit   == "MAX_MEMORY_PERCENT" :> Num(50)

\* Used by others: always base, or between base and peak.
Busy(env, base, peak, meminfo, shared) ==
  [env |-> env, cpus |-> 3, base |-> base, peak |-> peak, meminfo |-> meminfo, shared |-> shared,
   os |-> "linux", nvidia |-> FALSE, dri |-> {}, encoders |-> {}]

Machine(env, base, meminfo, shared) == Busy(env, base, base, meminfo, shared)

Servers ==
  {Machine(Limit, 2, "available", 1), Machine(Limit, 2, "old", 1),
   Machine(Limit, 4, "available", 4), Machine(Limit, 8, "available", 5), Machine(Limit, 2, "none", 0), Machine(Limit, 5, "available", 0),
   Machine("CONCURRENCY" :> Num(0) @@ Limit, 2, "available", 0),
   Machine("CONCURRENCY" :> Num(3) @@ Limit, 3, "old", 1),
   Machine("CONCURRENCY" :> Text("two") @@ "MAX_MEMORY_PERCENT" :> Text("85%"), 3, "available", 1),
   Machine("MAX_MEMORY_PERCENT" :> [kind |-> "nan", value |-> 0], 2, "available", 0),
   Machine("MAX_MEMORY_PERCENT" :> [kind |-> "inf", value |-> -1], 2, "available", 0),
   Machine("MAX_MEMORY_PERCENT" :> [kind |-> "float", value |-> 37500], 2, "available", 0),
   Machine("RESOURCE_CHECK_ENABLED" :> Num(0) @@ Limit, 2, "available", 0),
   Machine("RESOURCE_CHECK_ENABLED" :> [kind |-> "bool", value |-> FALSE], 2, "old", 0),
   Machine("RESOURCE_CHECK_ENABLED" :> Text("no") @@ Limit, 2, "available", 0),
   Busy("CONCURRENCY" :> Num(3) @@ Limit, 2, 4, "available", 2), Busy(Limit, 3, 5, "old", 1),
   Busy("CONCURRENCY" :> Num(3) @@ Limit, 4, 8, "available", 4)}

Full(env) == Machine(env, 8, "available", 0)

Adapted ==
  {Full("STORAGE_ADAPTER" :> Text("ftp")),
   Full("STORAGE_ADAPTER" :> Text("s3") @@ "S3_BUCKET" :> Text("b")),
   Full("STORAGE_ADAPTER" :> Text("s3") @@ "S3_BUCKET" :> Text("b")
        @@ "S3_ACCESS_KEY" :> Text("k") @@ "S3_SECRET_KEY" :> Text("s")),
   Full("STORAGE_ADAPTER" :> Text("bunny-storage") @@ "BUNNY_STORAGE_ZONE" :> Text("z")
        @@ "BUNNY_STORAGE_KEY" :> Text("k"))}

card0      == [kind |-> "card", number |-> 0]
renderD129 == [kind |-> "renderD", number |-> 129]

Equipped ==
  {[Full(<<>>) EXCEPT !.os = os, !.nvidia = nvidia, !.dri = dri, !.encoders = encoders] :
     os \in {"linux", "darwin", "windows", "freebsd"}, nvidia \in BOOLEAN,
     dri \in {{}, {card0}, {card0, renderD128}, {card0, renderD129}},
     encoders \in {{}, {"qsv"}, {"amf", "vaapi"}, {"vaapi"}, {"videotoolbox"}, {"nvenc", "qsv"}, Accelerations}}

MCHosts == Servers \cup Adapted \cup Equipped

=============================================================================
