------------------------------ MODULE JsonText -------------------------------
(***************************************************************************)
(* JSON documents as this system reads and writes them: with jx, the       *)
(* reader and writer of the generated API code, and with encoding/json,    *)
(* which carries requests and results between API and worker.  Both are    *)
(* libraries, modelled from their uses.                                    *)
(*                                                                         *)
(* A document is a tagged tuple; an object is the sequence of its fields,  *)
(* because a field may come twice and the order then matters.  A string    *)
(* that is an RFC 3339 time has a tag of its own.  What may be absent, an  *)
(* optional field or the result of a decoder that fails, is a set with at  *)
(* most one element.                                                       *)
(***************************************************************************)
EXTENDS Naturals, Sequences, SequencesExt

JStr(s)  == <<"str", s>>
JInt(n)  == <<"int", n>>
JReal(x) == <<"real", x>>        \* a number that is not integral
JTime(t) == <<"time", t>>        \* t = <<seconds, fraction>>
JNull    == <<"null">>
JBad     == <<"bad">>            \* text that is not JSON
JArr(s)  == <<"arr", s>>
JObj(fs) == <<"obj", fs>>

The(o) == CHOOSE v \in o : TRUE

\* A parsed text: its arrays and objects are finite (here, to the depth of
\* the values of an object).
IsNode(j)     == j[1] \in {"arr", "obj"} => j[2] \in Seq(Range(j[2]))
IsDocument(j) ==
  /\ IsNode(j)
  /\ j[1] = "obj" => \A i \in DOMAIN j[2] : IsNode(j[2][i][2])

(***************************************************************************)
(* Writing.                                                                *)
(***************************************************************************)
Field(k, j)         == <<<<k, j>>>>
WhenSet(k, o, E(_)) == IF o = {} THEN <<>> ELSE Field(k, E(The(o)))
ListText(s, E(_))   == JArr([i \in DOMAIN s |-> E(s[i])])

\* Go walks a map in any order; no reader of these objects depends on it.
MapText(m, E(_)) ==
  LET ks == SetToSeq(DOMAIN m)
  IN  JObj([i \in DOMAIN ks |-> <<ks[i], E(m[ks[i]])>>])

FloatText(f) == f                \* a float64 is kept as its shortest text

\* encoding/json: omitempty leaves out a field that has its zero value.
OmitEmpty(k, v, zero, j) == IF v = zero THEN <<>> ELSE Field(k, j)

(***************************************************************************)
(* Reading with jx: no null, no text of another kind, and an object is     *)
(* refused if any occurrence of a known field is.  The last one counts.    *)
(***************************************************************************)
AsStr(j)   == IF j[1] = "str" THEN {j[2]} ELSE {}
AsInt(j)   == IF j[1] = "int" THEN {j[2]} ELSE {}
AsFloat(j) == IF j[1] \in {"int", "real"} THEN {j} ELSE {}
AsTime(j)  == IF j[1] = "time" THEN {j[2]} ELSE {}

ListOf(j, D(_)) ==
  IF j[1] = "arr" /\ \A i \in DOMAIN j[2] : D(j[2][i]) # {}
  THEN {[i \in DOMAIN j[2] |-> The(D(j[2][i]))]}
  ELSE {}

\* Where an object has the field k, its names, and the value at i.
Held(j, k)  == {i \in DOMAIN j[2] : j[2][i][1] = k}
Names(j)    == {j[2][i][1] : i \in DOMAIN j[2]}
Value(j, i) == j[2][i][2]
Latest(is)  == CHOOSE i \in is : \A n \in is : n <= i

Clean(j, k, D(_)) == j[1] = "obj" /\ \A i \in Held(j, k) : D(Value(j, i)) # {}

LastHeld(j, k, D(_)) == IF Held(j, k) = {} THEN {} ELSE D(Value(j, Latest(Held(j, k))))

Required(j, k, D(_)) == IF Clean(j, k, D) THEN LastHeld(j, k, D) ELSE {}
Optional(j, k, D(_)) == IF Clean(j, k, D) THEN {LastHeld(j, k, D)} ELSE {}

MapOf(j, D(_)) ==
  IF j[1] = "obj" /\ \A i \in DOMAIN j[2] : D(Value(j, i)) # {}
  THEN {[k \in Names(j) |-> The(LastHeld(j, k, D))]}
  ELSE {}

\* A map decoded into the map that an earlier occurrence left there.
Merged(j, k, D(_)) ==
  LET With(name) == Latest({i \in Held(j, k) : name \in Names(Value(j, i))})
  IN  IF /\ j[1] = "obj" /\ Held(j, k) # {}
         /\ \A i \in Held(j, k) : MapOf(Value(j, i), D) # {}
      THEN {[name \in UNION {Names(Value(j, i)) : i \in Held(j, k)} |->
               The(LastHeld(Value(j, With(name)), name, D))]}
      ELSE {}

(***************************************************************************)
(* Reading with encoding/json: null and absent fields keep the zero value. *)
(***************************************************************************)
OrZero(j, k, D(_), zero) ==
  LET last == Value(j, Latest(Held(j, k)))
  IN  IF Held(j, k) = {} \/ last = JNull THEN zero ELSE The(D(last))

=============================================================================
