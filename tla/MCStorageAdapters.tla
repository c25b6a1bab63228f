-------------------------- MODULE MCStorageAdapters --------------------------
(***************************************************************************)
(* StorageAdapters for TLC: three uploads of one destination, the last one *)
(* of a shorter file.                                                      *)
(***************************************************************************)
EXTENDS StorageAdapters, TLC

CONSTANTS u1, u2, u3

MCNames    == {"out.mp4", "videos"}
MCDest     == [u \in {u1, u2, u3} |-> "out.mp4"]
MCSize     == (u1 :> 2) @@ (u2 :> 2) @@ (u3 :> 1)
MCAdapters == {"file", "bunny-storage", "bunny-stream", "s3"}
MCPrefixes == {<<>>, <<"videos">>}

=============================================================================
