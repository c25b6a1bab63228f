---------------------------- MODULE MCCommandApi -----------------------------
(***************************************************************************)
(* CommandApi for TLC: every combination of the fields CreateCommand looks *)
(* at, or one request that is valid.                                       *)
(***************************************************************************)
EXTENDS CommandApi, TLC

AllRequests ==
  [single : BOOLEAN, chain : BOOLEAN, outputs : BOOLEAN]
OneRequest == {[single |-> TRUE, chain |-> FALSE, outputs |-> TRUE]}

MCHandlerErrors == {"resource_limit"}
MCUncounted     == MCHandlerErrors

\* No invariant of the run asks for the four other statuses once they were
\* told, and no step does.
Relevant ==
  <<queueVars, reply,
    [t \in Tasks |-> told[t] \ {"PENDING", "PROCESSING", "FAILED", "RETRYING"}],
    unread, cursor, page, steady>>

Symmetry == Permutations(Tasks)

=============================================================================
