---------------------------- MODULE MCCommandText ----------------------------
(***************************************************************************)
(* CommandText for TLC: two inputs and two outputs, of which one of each   *)
(* has the same key, and three kinds of paths: plain, with a quote that is *)
(* never closed and a space, and one that is itself a placeholder.         *)
(***************************************************************************)
EXTENDS CommandText

MCPaths == {<<"p">>, <<"p", "dq", "sp">>, <<"out">>}

=============================================================================
