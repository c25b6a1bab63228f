--------------------------- MODULE MCCommandService ---------------------------
(***************************************************************************)
(* CommandService for TLC: one command, which may be refused.              *)
(***************************************************************************)
EXTENDS CommandService, TLC

MCRequests == {[single |-> TRUE, chain |-> FALSE, outputs |-> o] : o \in BOOLEAN}

Symmetry == Permutations(Runs) \cup Permutations(Workers) \cup Permutations(Outputs)

\* Of what was told and listed, the properties ask for SUCCESS alone, and no
\* step for more than that.
Relevant ==
  <<vars, reply, cursor,
    {c \in Commands : "SUCCESS" \in told[c]},
    [l \in Conns |-> {e \in page[l] : e.status = "SUCCESS"}]>>

=============================================================================
