---------------------------- MODULE MCTaskServer -----------------------------
(***************************************************************************)
(* TaskServer for TLC: one error that counts against the retry budget and  *)
(* one that IsFailure (worker/main.go:110-116) excuses.                    *)
(***************************************************************************)
EXTENDS TaskServer, TLC

MCHandlerErrors == {"failed", "resource_limit"}
MCUncounted     == {"resource_limit"}

Symmetry == Permutations(Runs) \cup Permutations(Servers)

=============================================================================
