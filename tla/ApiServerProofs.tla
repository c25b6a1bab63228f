-------------------------- MODULE ApiServerProofs ----------------------------
(***************************************************************************)
(* What holds of the API for every number of commands and connections,     *)
(* every size of a page, all requests and results, and every sequence of   *)
(* what the workers and Redis do meanwhile.                                *)
(*                                                                         *)
(* First the texts: for every message of the right shape, whatever its     *)
(* texts, keys and numbers, decoding what was encoded gives the message    *)
(* back; the payload and the result that API and worker exchange are read  *)
(* as they were written.  An encoder writes each field at most once, so    *)
(* what a decoder finds under a name (At) is what was written there, and   *)
(* no name is looked up among the fields of another.                       *)
(*                                                                         *)
(* Then what is answered: each step of the queue keeps what an answer may  *)
(* have relied on (Kept).  A command succeeds only without an error, no    *)
(* step takes an error back, and a finished command does not come back.    *)
(* What ListCommands has gathered of a command that has not moved is its   *)
(* state.                                                                  *)
(*                                                                         *)
(* Last the two together: a request of the generated client finds its      *)
(* handler, the payload is written when the command gets its answer and    *)
(* never again, so what a status says of it stays true on its way to the   *)
(* client, and every answer is read there as the handler meant it.         *)
(***************************************************************************)
EXTENDS ApiServer, FiniteSetTheorems, TLAPS

(***************************************************************************)
(* Objects.                                                                *)
(***************************************************************************)
IsSeq(a) == \E S : a \in Seq(S)

\* What the fields have under the name k.
At(fs, k) == {fs[i][2] : i \in {n \in DOMAIN fs : fs[n][1] = k}}

LEMMA ListIsSeq == ASSUME NEW l PROVE IsList(l) <=> IsSeq(l)
<1>1. ASSUME NEW S, l \in Seq(S) PROVE l \in Seq(Range(l))
  BY <1>1 DEF Range
<1> QED BY <1>1 DEF IsList, IsSeq

LEMMA ConcatParts ==
  ASSUME NEW a, NEW b, IsSeq(a), IsSeq(b)
  PROVE  IsSeq(a \o b) /\ \A k : At(a \o b, k) = At(a, k) \cup At(b, k)
<1>1. PICK S : a \in Seq(S)
  BY DEF IsSeq
<1>2. PICK T : b \in Seq(T)
  BY DEF IsSeq
<1>3. a \in Seq(S \cup T) /\ b \in Seq(S \cup T)
  BY <1>1, <1>2
<1>4. a \o b \in Seq(S \cup T)
  BY <1>3
<1>5. /\ DOMAIN (a \o b) = 1 .. (Len(a) + Len(b))
      /\ \A i \in 1 .. Len(a) : (a \o b)[i] = a[i]
      /\ \A i \in 1 .. Len(b) : (a \o b)[Len(a) + i] = b[i]
      /\ DOMAIN a = 1 .. Len(a) /\ DOMAIN b = 1 .. Len(b)
      /\ Len(a) \in Nat /\ Len(b) \in Nat
  BY <1>3
<1>6. ASSUME NEW k PROVE At(a \o b, k) = At(a, k) \cup At(b, k)
  <2>1. ASSUME NEW v \in At(a \o b, k) PROVE v \in At(a, k) \cup At(b, k)
    <3>1. PICK i \in 1 .. (Len(a) + Len(b)) : (a \o b)[i][1] = k /\ v = (a \o b)[i][2]
      BY <1>5, <2>1 DEF At
    <3>2. CASE i <= Len(a)
      <4>1. i \in DOMAIN a /\ a[i][1] = k /\ v = a[i][2]
        BY <1>5, <3>1, <3>2
      <4> QED BY <4>1 DEF At
    <3>3. CASE i > Len(a)
      <4> DEFINE n == i - Len(a)
      <4>1. n \in DOMAIN b /\ Len(a) + n = i
        BY <1>5, <3>3
      <4>2. (a \o b)[i] = b[n]
        BY <1>5, <4>1
      <4>3. b[n][1] = k /\ v = b[n][2]
        BY <3>1, <4>2
      <4> HIDE DEF n
      <4> QED BY <4>1, <4>3 DEF At
    <3> QED BY <1>5, <3>2, <3>3
  <2>2. ASSUME NEW v \in At(a, k) PROVE v \in At(a \o b, k)
    <3>1. PICK i \in DOMAIN a : a[i][1] = k /\ v = a[i][2]
      BY <2>2 DEF At
    <3>2. i \in DOMAIN (a \o b) /\ (a \o b)[i] = a[i]
      BY <1>5
    <3> QED BY <3>1, <3>2 DEF At
  <2>3. ASSUME NEW v \in At(b, k) PROVE v \in At(a \o b, k)
    <3>1. PICK i \in DOMAIN b : b[i][1] = k /\ v = b[i][2]
      BY <2>3 DEF At
    <3> DEFINE n == Len(a) + i
    <3>2. n \in DOMAIN (a \o b) /\ (a \o b)[n] = b[i]
      BY <1>5
    <3> HIDE DEF n
    <3> QED BY <3>1, <3>2 DEF At
  <2> QED BY <2>1, <2>2, <2>3
<1> QED BY <1>4, <1>6 DEF IsSeq

LEMMA FourMore ==
  ASSUME NEW a, NEW p, NEW q, NEW r, NEW s,
         IsSeq(a), IsSeq(p), IsSeq(q), IsSeq(r), IsSeq(s)
  PROVE  /\ IsSeq(a \o p \o q \o r \o s)
         /\ \A k : At(a \o p \o q \o r \o s, k)
                  = At(a, k) \cup At(p, k) \cup At(q, k) \cup At(r, k) \cup At(s, k)
<1> DEFINE b == a \o p
           c == b \o q
           d == c \o r
           e == d \o s
<1>1. IsSeq(b) /\ \A k : At(b, k) = At(a, k) \cup At(p, k)
  BY ConcatParts
<1> HIDE DEF b
<1>2. IsSeq(c) /\ \A k : At(c, k) = At(b, k) \cup At(q, k)
  BY <1>1, ConcatParts
<1> HIDE DEF c
<1>3. IsSeq(d) /\ \A k : At(d, k) = At(c, k) \cup At(r, k)
  BY <1>2, ConcatParts
<1> HIDE DEF d
<1>4. IsSeq(e) /\ \A k : At(e, k) = At(d, k) \cup At(s, k)
  BY <1>3, ConcatParts
<1> HIDE DEF e
<1>5. e = a \o p \o q \o r \o s
  BY DEF b, c, d, e
<1>6. \A k : At(e, k) = At(a, k) \cup At(p, k) \cup At(q, k) \cup At(r, k) \cup At(s, k)
  BY <1>1, <1>2, <1>3, <1>4
<1> QED BY <1>4, <1>5, <1>6

LEMMA SevenParts ==
  ASSUME NEW p1, NEW p2, NEW p3, NEW p4, NEW p5, NEW p6, NEW p7,
         IsSeq(p1), IsSeq(p2), IsSeq(p3), IsSeq(p4), IsSeq(p5), IsSeq(p6), IsSeq(p7)
  PROVE  LET fs == p1 \o p2 \o p3 \o p4 \o p5 \o p6 \o p7 IN
         /\ IsSeq(fs)
         /\ \A q : At(fs, q) = At(p1, q) \cup At(p2, q) \cup At(p3, q) \cup At(p4, q)
                              \cup At(p5, q) \cup At(p6, q) \cup At(p7, q)
<1> DEFINE a == p1 \o p2 \o p3 \o p4 \o p5
           b == a \o p6
           c == b \o p7
<1>1. IsSeq(a) /\ \A q : At(a, q) = At(p1, q) \cup At(p2, q) \cup At(p3, q)
                                    \cup At(p4, q) \cup At(p5, q)
  BY FourMore
<1> HIDE DEF a
<1>2. IsSeq(b) /\ \A q : At(b, q) = At(a, q) \cup At(p6, q)
  BY <1>1, ConcatParts
<1> HIDE DEF b
<1>3. IsSeq(c) /\ \A q : At(c, q) = At(b, q) \cup At(p7, q)
  BY <1>2, ConcatParts
<1> HIDE DEF c
<1>4. c = p1 \o p2 \o p3 \o p4 \o p5 \o p6 \o p7
  BY DEF a, b, c
<1>5. \A q : At(c, q) = At(p1, q) \cup At(p2, q) \cup At(p3, q) \cup At(p4, q)
                       \cup At(p5, q) \cup At(p6, q) \cup At(p7, q)
  BY <1>1, <1>2, <1>3
<1> QED BY <1>3, <1>4, <1>5

\* A field that is always written, and one that may be left out.
LEMMA FieldPart ==
  ASSUME NEW k, NEW v
  PROVE  /\ IsSeq(Field(k, v)) /\ IsSeq(<<>>)
         /\ \A q : At(Field(k, v), q) = IF q = k THEN {v} ELSE {}
         /\ \A q : At(<<>>, q) = {}
<1>1. Field(k, v) \in Seq({<<k, v>>}) /\ <<>> \in Seq({})
  BY DEF Field
<1>2. DOMAIN Field(k, v) = {1} /\ Field(k, v)[1] = <<k, v>>
  BY DEF Field
<1>3. \A q : At(Field(k, v), q) = IF q = k THEN {v} ELSE {}
  BY <1>2 DEF At
<1>4. \A q : At(<<>>, q) = {}
  BY DEF At
<1> QED BY <1>1, <1>3, <1>4 DEF IsSeq

LEMMA LatestFound ==
  ASSUME NEW n \in Nat, NEW S \in SUBSET (1 .. n), S # {}
  PROVE  Latest(S) \in S /\ \A i \in S : i <= Latest(S)
<1> DEFINE R == {p \in Nat \X Nat : p[1] < p[2]}
           D == {n - i : i \in S}
<1>1. IsWellFoundedOn(R, Nat)
  BY NatLessThanWellFounded DEF OpToRel
<1>2. D \subseteq Nat /\ D # {}
  <2>1. \A i \in S : i \in 1 .. n /\ n - i \in Nat
    OBVIOUS
  <2> QED BY <2>1
<1>3. PICK d \in D : \A e \in D : ~(<<e, d>> \in R)
  BY <1>1, <1>2, WFMin
<1>4. PICK i \in S : d = n - i
  OBVIOUS
<1>5. ASSUME NEW m \in S PROVE m <= i
  <2>1. n - m \in D /\ n - m \in Nat /\ d \in Nat
    BY <1>2
  <2>2. ~(n - m < d)
    BY <1>3, <2>1
  <2> QED BY <1>4, <2>2
<1> QED BY <1>4, <1>5 DEF Latest

\* What a decoder finds under a name that was written once, or not at all.
LEMMA Found ==
  ASSUME NEW fs, IsSeq(fs), NEW k, NEW v, At(fs, k) = {v}
  PROVE  /\ Held(JObj(fs), k) # {}
         /\ Latest(Held(JObj(fs), k)) \in Held(JObj(fs), k)
         /\ \A i \in Held(JObj(fs), k) : Value(JObj(fs), i) = v
<1>1. JObj(fs)[2] = fs
  BY DEF JObj
<1>2. Held(JObj(fs), k) = {i \in DOMAIN fs : fs[i][1] = k}
  BY <1>1 DEF Held
<1>3. Len(fs) \in Nat /\ DOMAIN fs = 1 .. Len(fs)
  BY DEF IsSeq
<1>4. Held(JObj(fs), k) # {}
  BY <1>2 DEF At
<1>5. Latest(Held(JObj(fs), k)) \in Held(JObj(fs), k)
  BY <1>2, <1>3, <1>4, LatestFound
<1>6. \A i \in Held(JObj(fs), k) : Value(JObj(fs), i) = v
  BY <1>1, <1>2 DEF At, Value
<1> QED BY <1>4, <1>5, <1>6

LEMMA NotFound ==
  ASSUME NEW fs, NEW k, At(fs, k) = {}
  PROVE  Held(JObj(fs), k) = {}
BY DEF At, Held, JObj

(***************************************************************************)
(* Required and Optional, for each reader they are used with, of a field   *)
(* that was written once.                                                  *)
(***************************************************************************)
Once(D) == IF D = {} THEN {} ELSE {D}

\* Names for the readers of required fields.
RequiredStr(j, k)     == Required(j, k, AsStr)
RequiredInt(j, k)     == Required(j, k, AsInt)
RequiredFloat(j, k)   == Required(j, k, AsFloat)
RequiredTime(j, k)    == Required(j, k, AsTime)
RequiredStatuses(j, k) == Required(j, k, AsStatusList)

LEMMA ReadRequired ==
  ASSUME NEW fs, IsSeq(fs), NEW k, NEW v, At(fs, k) = {v}
  PROVE  LET j == JObj(fs) IN
         /\ RequiredStr(j, k) = AsStr(v)
         /\ RequiredInt(j, k) = AsInt(v)
         /\ RequiredFloat(j, k) = AsFloat(v)
         /\ RequiredTime(j, k) = AsTime(v)
         /\ RequiredStatuses(j, k) = AsStatusList(v)
<1> DEFINE j == JObj(fs)
<1>1. /\ j[1] = "obj" /\ Held(j, k) # {} /\ Latest(Held(j, k)) \in Held(j, k)
      /\ \A i \in Held(j, k) : Value(j, i) = v
  <2> HIDE DEF At
  <2> QED BY Found DEF JObj
<1> HIDE DEF j
<1>2. RequiredStr(j, k) = AsStr(v)
  BY <1>1 DEF RequiredStr, Required, Clean, LastHeld
<1>3. RequiredInt(j, k) = AsInt(v)
  BY <1>1 DEF RequiredInt, Required, Clean, LastHeld
<1>4. RequiredFloat(j, k) = AsFloat(v)
  BY <1>1 DEF RequiredFloat, Required, Clean, LastHeld
<1>5. RequiredTime(j, k) = AsTime(v)
  BY <1>1 DEF RequiredTime, Required, Clean, LastHeld
<1>6. RequiredStatuses(j, k) = AsStatusList(v)
  BY <1>1 DEF RequiredStatuses, Required, Clean, LastHeld
<1> QED BY <1>2, <1>3, <1>4, <1>5, <1>6 DEF j

LEMMA ReadOptional ==
  ASSUME NEW fs, IsSeq(fs), NEW k, NEW v, At(fs, k) = {v}
  PROVE  LET j == JObj(fs) IN
         /\ DecodeOptString(j, k) = Once(AsStr(v))
         /\ DecodeOptInt(j, k) = Once(AsInt(v))
         /\ DecodeOptFloat64(j, k) = Once(AsFloat(v))
         /\ DecodeOptDateTime(j, k) = Once(AsTime(v))
         /\ DecodeOptURI(j, k) = Once(AsURI(v))
         /\ DecodeOptStringList(j, k) = Once(AsStringList(v))
         /\ DecodeOptInputFiles(j, k) = Once(DecodeInputFiles(v))
         /\ DecodeOptStatusOutputFiles(j, k) = Once(DecodeStatusOutputFiles(v))
         /\ DecodeOptCommandRequest(j, k) = Once(DecodeCommandRequest(v))
<1> DEFINE j == JObj(fs)
<1>1. /\ j[1] = "obj" /\ Held(j, k) # {} /\ Latest(Held(j, k)) \in Held(j, k)
      /\ \A i \in Held(j, k) : Value(j, i) = v
  <2> HIDE DEF At
  <2> QED BY Found DEF JObj
<1> HIDE DEF j
<1>2. DecodeOptString(j, k) = Once(AsStr(v))
  BY <1>1 DEF DecodeOptString, Optional, Clean, LastHeld, Once
<1>3. DecodeOptInt(j, k) = Once(AsInt(v))
  BY <1>1 DEF DecodeOptInt, Optional, Clean, LastHeld, Once
<1>4. DecodeOptFloat64(j, k) = Once(AsFloat(v))
  BY <1>1 DEF DecodeOptFloat64, Optional, Clean, LastHeld, Once
<1>5. DecodeOptDateTime(j, k) = Once(AsTime(v))
  BY <1>1 DEF DecodeOptDateTime, Optional, Clean, LastHeld, Once
<1>6. DecodeOptURI(j, k) = Once(AsURI(v))
  BY <1>1 DEF DecodeOptURI, Optional, Clean, LastHeld, Once
<1>7. DecodeOptStringList(j, k) = Once(AsStringList(v))
  BY <1>1 DEF DecodeOptStringList, Optional, Clean, LastHeld, Once
<1>8. DecodeOptInputFiles(j, k) = Once(DecodeInputFiles(v))
  BY <1>1 DEF DecodeOptInputFiles, Optional, Clean, LastHeld, Once
<1>9. DecodeOptStatusOutputFiles(j, k) = Once(DecodeStatusOutputFiles(v))
  BY <1>1 DEF DecodeOptStatusOutputFiles, Optional, Clean, LastHeld, Once
<1>10. DecodeOptCommandRequest(j, k) = Once(DecodeCommandRequest(v))
  BY <1>1 DEF DecodeOptCommandRequest, Optional, Clean, LastHeld, Once
<1> QED BY <1>2, <1>3, <1>4, <1>5, <1>6, <1>7, <1>8, <1>9, <1>10 DEF j

LEMMA ReadMissing ==
  ASSUME NEW fs, NEW k, At(fs, k) = {}
  PROVE  LET j == JObj(fs) IN
         /\ DecodeOptString(j, k) = {{}}
         /\ DecodeOptInt(j, k) = {{}}
         /\ DecodeOptFloat64(j, k) = {{}}
         /\ DecodeOptDateTime(j, k) = {{}}
         /\ DecodeOptURI(j, k) = {{}}
         /\ DecodeOptStringList(j, k) = {{}}
         /\ DecodeOptInputFiles(j, k) = {{}}
         /\ DecodeOptStatusOutputFiles(j, k) = {{}}
         /\ DecodeOptCommandRequest(j, k) = {{}}
<1>1. JObj(fs)[1] = "obj" /\ Held(JObj(fs), k) = {}
  BY NotFound DEF JObj
<1> QED BY <1>1 DEF Optional, Clean, LastHeld, DecodeOptString, DecodeOptInt, DecodeOptFloat64, DecodeOptDateTime,
                DecodeOptURI, DecodeOptStringList, DecodeOptInputFiles,
                DecodeOptStatusOutputFiles, DecodeOptCommandRequest

(***************************************************************************)
(* Maps, lists and optional values.                                        *)
(***************************************************************************)

LEMMA TheOnly == \A v : The({v}) = v
BY DEF The

LEMMA Enumerated ==
  ASSUME NEW S, IsFiniteSet(S)
  PROVE  /\ SetToSeq(S) \in Seq(S)
         /\ \A x \in S : \E i \in DOMAIN SetToSeq(S) : SetToSeq(S)[i] = x
         /\ IsInjective(SetToSeq(S))
         /\ Len(SetToSeq(S)) = Cardinality(S)
<1> DEFINE n == Cardinality(S)
<1>1. n \in Nat /\ ExistsBijection(1 .. n, S)
  BY FS_CardinalityType
<1>2. PICK g \in [1 .. n -> S] : IsInjective(g)
  BY <1>1 DEF ExistsBijection, Bijection, Injection
<1>3. SetToSeq(S) \in [1 .. n -> S] /\ IsInjective(SetToSeq(S))
  BY <1>2 DEF SetToSeq
<1>4. SetToSeq(S) \in Injection(1 .. n, S)
  BY <1>3 DEF Injection
<1>5. IsFiniteSet(1 .. n) /\ Cardinality(1 .. n) = n
  BY <1>1, FS_Interval
<1>6. SetToSeq(S) \in Surjection(1 .. n, S)
  BY <1>1, <1>4, <1>5, FS_Injection
<1>7. \A x \in S : \E i \in DOMAIN SetToSeq(S) : SetToSeq(S)[i] = x
  BY <1>3, <1>6 DEF Surjection
<1> QED BY <1>1, <1>3, <1>7

\* The fields a map is written as; v has the text of each value.
Entries(v) ==
  LET ks == SetToSeq(DOMAIN v) IN [i \in DOMAIN ks |-> <<ks[i], v[ks[i]]>>]

LEMMA EntriesFacts ==
  ASSUME NEW v, IsFiniteSet(DOMAIN v)
  PROVE  /\ IsSeq(Entries(v))
         /\ \A i \in DOMAIN Entries(v) :
              Entries(v)[i][1] \in DOMAIN v /\ Entries(v)[i][2] = v[Entries(v)[i][1]]
         /\ \A k \in DOMAIN v : At(Entries(v), k) = {v[k]}
         /\ Names(JObj(Entries(v))) = DOMAIN v
<1> DEFINE ks == SetToSeq(DOMAIN v)
           es == Entries(v)
<1>1. /\ ks \in Seq(DOMAIN v)
      /\ \A x \in DOMAIN v : \E i \in DOMAIN ks : ks[i] = x
  BY Enumerated
<1> HIDE DEF ks
<1>2. es = [i \in DOMAIN ks |-> <<ks[i], v[ks[i]]>>]
  BY DEF Entries, ks
<1>3. DOMAIN ks = 1 .. Len(ks) /\ Len(ks) \in Nat /\ \A i \in DOMAIN ks : ks[i] \in DOMAIN v
  BY <1>1
<1> HIDE DEF es
<1>4. es \in Seq({<<k, v[k]>> : k \in DOMAIN v})
  <2>1. \A i \in 1 .. Len(ks) : es[i] \in {<<k, v[k]>> : k \in DOMAIN v}
    BY <1>2, <1>3
  <2> QED BY <1>2, <1>3, <2>1
<1>5. \A i \in DOMAIN es : es[i][1] \in DOMAIN v /\ es[i][2] = v[es[i][1]]
  BY <1>2, <1>3
<1>6. ASSUME NEW k \in DOMAIN v PROVE At(es, k) = {v[k]}
  <2>1. PICK i \in DOMAIN ks : ks[i] = k
    BY <1>1
  <2>2. i \in DOMAIN es /\ es[i][1] = k /\ es[i][2] = v[k]
    BY <1>2, <2>1
  <2>3. v[k] \in At(es, k)
    BY <2>2 DEF At
  <2>4. At(es, k) \subseteq {v[k]}
    BY <1>5 DEF At
  <2> QED BY <2>3, <2>4
<1>7. Names(JObj(es)) = DOMAIN v
  <2>1. Names(JObj(es)) = {es[i][1] : i \in DOMAIN es}
    BY DEF Names, JObj
  <2>2. \A k \in DOMAIN v : \E i \in DOMAIN es : es[i][1] = k
    BY <1>1, <1>2
  <2> QED BY <1>5, <2>1, <2>2
<1> QED BY <1>4, <1>5, <1>6, <1>7 DEF IsSeq, es

LEMMA ReadStr == \A v : AsStr(JStr(v)) = {v}
BY DEF AsStr, JStr

\* A map of texts comes back as it was, whatever the order it was written in.
LEMMA StringMapBack ==
  ASSUME NEW m, IsMap(m)
  PROVE  MapOf(MapText(m, JStr), AsStr) = {m}
<1> DEFINE v == [k \in DOMAIN m |-> JStr(m[k])]
           es == Entries(v)
<1>1. DOMAIN v = DOMAIN m /\ IsFiniteSet(DOMAIN v)
  BY DEF IsMap
<1>2. MapText(m, JStr) = JObj(es)
  <2>1. SetToSeq(DOMAIN m) \in Seq(DOMAIN m)
    BY <1>1, Enumerated
  <2>2. \A i \in DOMAIN SetToSeq(DOMAIN m) : SetToSeq(DOMAIN m)[i] \in DOMAIN m
    BY <2>1
  <2> QED BY <1>1, <2>2 DEF MapText, Entries
<1>3. /\ IsSeq(es) /\ Names(JObj(es)) = DOMAIN m
      /\ \A i \in DOMAIN es : es[i][1] \in DOMAIN m /\ es[i][2] = v[es[i][1]]
      /\ \A k \in DOMAIN m : At(es, k) = {JStr(m[k])}
  BY <1>1, EntriesFacts
<1> HIDE DEF es
<1>4. JObj(es)[1] = "obj" /\ JObj(es)[2] = es
  BY DEF JObj
<1>5. ASSUME NEW i \in DOMAIN es PROVE AsStr(Value(JObj(es), i)) # {}
  <2>1. Value(JObj(es), i) = JStr(m[es[i][1]])
    BY <1>3, <1>4 DEF Value
  <2> QED BY <2>1, ReadStr
<1>6. ASSUME NEW k \in DOMAIN m PROVE LastHeld(JObj(es), k, AsStr) = {m[k]}
  BY <1>3, Found, ReadStr DEF LastHeld
<1>7. MapOf(JObj(es), AsStr) = {[k \in DOMAIN m |-> The(LastHeld(JObj(es), k, AsStr))]}
  BY <1>3, <1>4, <1>5 DEF MapOf
<1>8. [k \in DOMAIN m |-> The(LastHeld(JObj(es), k, AsStr))] = m
  BY <1>6, TheOnly DEF IsMap
<1> QED BY <1>2, <1>7, <1>8

LEMMA MergedBack ==
  ASSUME NEW fs, IsSeq(fs), NEW k, NEW m, IsMap(m), At(fs, k) = {MapText(m, JStr)}
  PROVE  Merged(JObj(fs), k, AsStr) = {m}
<1> DEFINE j == JObj(fs)
           d == MapText(m, JStr)
<1>1. /\ j[1] = "obj" /\ Held(j, k) # {} /\ Latest(Held(j, k)) \in Held(j, k)
      /\ \A i \in Held(j, k) : Value(j, i) = d
  <2> HIDE DEF At
  <2> QED BY Found DEF JObj
<1>2. MapOf(d, AsStr) = {m}
  BY StringMapBack
<1> HIDE DEF j, d
<1>3. {[q \in Names(d) |-> The(LastHeld(d, q, AsStr))]} = {m}
  BY <1>2 DEF MapOf
<1>4. UNION {Names(Value(j, i)) : i \in Held(j, k)} = Names(d)
  BY <1>1
<1>5. ASSUME NEW name \in Names(d)
      PROVE  Value(j, Latest({i \in Held(j, k) : name \in Names(Value(j, i))})) = d
  <2>1. {i \in Held(j, k) : name \in Names(Value(j, i))} = Held(j, k)
    BY <1>1
  <2> QED BY <1>1, <2>1
<1>6. Merged(j, k, AsStr) = {[q \in Names(d) |-> The(LastHeld(d, q, AsStr))]}
  BY <1>1, <1>2, <1>4, <1>5 DEF Merged
<1> QED BY <1>3, <1>6 DEF j

LEMMA StringListBack ==
  ASSUME NEW s, IsSeq(s)
  PROVE  AsStringList(StringList(s)) = {s}
<1>1. StringList(s)[1] = "arr" /\ StringList(s)[2] = [i \in DOMAIN s |-> JStr(s[i])]
  BY DEF StringList, ListText, JArr
<1>2. AsStringList(StringList(s)) = {[i \in DOMAIN s |-> The(AsStr(JStr(s[i])))]}
  BY <1>1, ReadStr DEF AsStringList, ListOf
<1>3. s = [i \in DOMAIN s |-> s[i]]
  BY DEF IsSeq
<1>4. \A i \in DOMAIN s : The(AsStr(JStr(s[i]))) = s[i]
  BY ReadStr, TheOnly
<1> QED BY <1>2, <1>3, <1>4

\* The part of a field that is written when it is set.
LEMMA OptionPart ==
  ASSUME NEW k, NEW o, NEW v
  PROVE  LET f == IF o = {} THEN <<>> ELSE Field(k, v) IN
         /\ IsSeq(f)
         /\ \A q : At(f, q) = IF q = k /\ o # {} THEN {v} ELSE {}
BY FieldPart

-----------------------------------------------------------------------------
(***************************************************************************)
(* CommandRequest.  A webhook that is no URL is refused; one that is comes *)
(* back as its URL is written.                                             *)
(***************************************************************************)
UrlWritten(s) == [s EXCEPT !.webhook = {UrlForm[u] : u \in @}]

CommandRequestFields(s) ==
  EncodeOptInputFiles("input_files", s.input_files)
    \o Field("output_files", EncodeOutputFiles(s.output_files))
    \o EncodeOptString("ffmpeg_command", s.ffmpeg_command)
    \o WhenSet("ffmpeg_commands", s.ffmpeg_commands, StringList)
    \o EncodeOptURI("webhook", s.webhook)
    \o EncodeOptString("reference_id", s.reference_id)

LEMMA CommandRequestAt ==
  ASSUME NEW s
  PROVE  LET fs == CommandRequestFields(s) IN
         /\ IsSeq(fs)
         /\ At(fs, "input_files")
              = IF s.input_files = {} THEN {} ELSE {EncodeInputFiles(The(s.input_files))}
         /\ At(fs, "output_files") = {MapText(s.output_files, JStr)}
         /\ At(fs, "ffmpeg_command")
              = IF s.ffmpeg_command = {} THEN {} ELSE {JStr(The(s.ffmpeg_command))}
         /\ At(fs, "ffmpeg_commands")
              = IF s.ffmpeg_commands = {} THEN {} ELSE {StringList(The(s.ffmpeg_commands))}
         /\ At(fs, "webhook") = IF s.webhook = {} THEN {} ELSE {JStr(The(s.webhook))}
         /\ At(fs, "reference_id")
              = IF s.reference_id = {} THEN {} ELSE {JStr(The(s.reference_id))}
<1> DEFINE p1 == EncodeOptInputFiles("input_files", s.input_files)
           p2 == Field("output_files", EncodeOutputFiles(s.output_files))
           p3 == EncodeOptString("ffmpeg_command", s.ffmpeg_command)
           p4 == WhenSet("ffmpeg_commands", s.ffmpeg_commands, StringList)
           p5 == EncodeOptURI("webhook", s.webhook)
           p6 == EncodeOptString("reference_id", s.reference_id)
<1>1. IsSeq(p1) /\ \A q : At(p1, q) = IF q = "input_files" /\ s.input_files # {}
                                    THEN {EncodeInputFiles(The(s.input_files))} ELSE {}
  BY OptionPart DEF EncodeOptInputFiles, WhenSet
<1>2. IsSeq(p2) /\ \A q : At(p2, q) = IF q = "output_files"
                                    THEN {MapText(s.output_files, JStr)} ELSE {}
  BY FieldPart DEF EncodeOutputFiles
<1>3. IsSeq(p3) /\ \A q : At(p3, q) = IF q = "ffmpeg_command" /\ s.ffmpeg_command # {}
                                    THEN {JStr(The(s.ffmpeg_command))} ELSE {}
  BY OptionPart DEF EncodeOptString, WhenSet
<1>4. IsSeq(p4) /\ \A q : At(p4, q) = IF q = "ffmpeg_commands" /\ s.ffmpeg_commands # {}
                                    THEN {StringList(The(s.ffmpeg_commands))} ELSE {}
  BY OptionPart DEF WhenSet
<1>5. IsSeq(p5) /\ \A q : At(p5, q) = IF q = "webhook" /\ s.webhook # {}
                                    THEN {JStr(The(s.webhook))} ELSE {}
  BY OptionPart DEF EncodeOptURI, WhenSet
<1>6. IsSeq(p6) /\ \A q : At(p6, q) = IF q = "reference_id" /\ s.reference_id # {}
                                    THEN {JStr(The(s.reference_id))} ELSE {}
  BY OptionPart DEF EncodeOptString, WhenSet
<1> HIDE DEF p1, p2, p3, p4, p5, p6
<1>7. LET fs == p1 \o p2 \o p3 \o p4 \o p5 \o p6
      IN  IsSeq(fs) /\ \A q : At(fs, q) = At(p1, q) \cup At(p2, q) \cup At(p3, q)
                                          \cup At(p4, q) \cup At(p5, q) \cup At(p6, q)
  <2> DEFINE a == p1 \o p2 \o p3 \o p4 \o p5
  <2>1. IsSeq(a) /\ \A q : At(a, q) = At(p1, q) \cup At(p2, q) \cup At(p3, q)
                                      \cup At(p4, q) \cup At(p5, q)
    BY <1>1, <1>2, <1>3, <1>4, <1>5, FourMore
  <2> HIDE DEF a
  <2>2. IsSeq(a \o p6) /\ \A q : At(a \o p6, q) = At(a, q) \cup At(p6, q)
    BY <1>6, <2>1, ConcatParts
  <2> QED BY <2>1, <2>2 DEF a
<1> DEFINE fs == p1 \o p2 \o p3 \o p4 \o p5 \o p6
<1>8. fs = CommandRequestFields(s)
  BY DEF CommandRequestFields, p1, p2, p3, p4, p5, p6
<1> HIDE DEF fs
<1> QED BY <1>1, <1>2, <1>3, <1>4, <1>5, <1>6, <1>7, <1>8 DEF fs

\* What the reader makes of an optional field that was written when set.
LEMMA OptionBack ==
  ASSUME NEW o, IsOpt(o)
  PROVE  o = {} \/ o = {The(o)}
BY TheOnly DEF IsOpt

LEMMA OptStringBack ==
  ASSUME NEW fs, IsSeq(fs), NEW k, NEW o, IsOpt(o),
         At(fs, k) = IF o = {} THEN {} ELSE {JStr(The(o))}
  PROVE  DecodeOptString(JObj(fs), k) = {o}
<1>1. CASE o = {}
  BY <1>1, ReadMissing
<1>2. CASE o # {}
  <2>1. At(fs, k) = {JStr(The(o))} /\ o = {The(o)}
    BY <1>2, OptionBack
  <2>2. DecodeOptString(JObj(fs), k) = Once(AsStr(JStr(The(o))))
    BY <2>1, ReadOptional
  <2> QED BY <2>1, <2>2, ReadStr DEF Once
<1> QED BY <1>1, <1>2

THEOREM CommandRequestBack ==
  ASSUME NEW s, IsCommandRequest(s)
  PROVE  DecodeCommandRequest(EncodeCommandRequest(s))
           = IF s.webhook \subseteq DOMAIN UrlForm THEN {UrlWritten(s)} ELSE {}
<1> DEFINE fs == CommandRequestFields(s)
           j  == JObj(fs)
<1>1. EncodeCommandRequest(s) = j
  BY DEF EncodeCommandRequest, CommandRequestFields
<1>2. /\ IsSeq(fs)
      /\ At(fs, "input_files")
           = IF s.input_files = {} THEN {} ELSE {EncodeInputFiles(The(s.input_files))}
      /\ At(fs, "output_files") = {MapText(s.output_files, JStr)}
      /\ At(fs, "ffmpeg_command")
           = IF s.ffmpeg_command = {} THEN {} ELSE {JStr(The(s.ffmpeg_command))}
      /\ At(fs, "ffmpeg_commands")
           = IF s.ffmpeg_commands = {} THEN {} ELSE {StringList(The(s.ffmpeg_commands))}
      /\ At(fs, "webhook") = IF s.webhook = {} THEN {} ELSE {JStr(The(s.webhook))}
      /\ At(fs, "reference_id")
           = IF s.reference_id = {} THEN {} ELSE {JStr(The(s.reference_id))}
  BY CommandRequestAt
<1> HIDE DEF fs
<1>3. DecodeOptInputFiles(j, "input_files") = {s.input_files}
  <2>1. CASE s.input_files = {}
    BY <1>2, <2>1, ReadMissing
  <2>2. CASE s.input_files # {}
    <3> DEFINE m == The(s.input_files)
    <3>1. s.input_files = {m} /\ IsMap(m)
      BY <2>2, OptionBack DEF IsCommandRequest
    <3>2. DecodeInputFiles(EncodeInputFiles(m)) = {m}
      BY <3>1, StringMapBack DEF DecodeInputFiles, EncodeInputFiles
    <3>3. DecodeOptInputFiles(j, "input_files") = Once(DecodeInputFiles(EncodeInputFiles(m)))
      BY <1>2, <2>2, ReadOptional
    <3> QED BY <3>1, <3>2, <3>3 DEF Once
  <2> QED BY <2>1, <2>2
<1>4. DecodeOutputFiles(j, "output_files") = {s.output_files}
  BY <1>2, MergedBack DEF DecodeOutputFiles, IsCommandRequest
<1>5. DecodeOptString(j, "ffmpeg_command") = {s.ffmpeg_command}
  <2>1. IsOpt(s.ffmpeg_command)
    BY DEF IsCommandRequest
  <2> QED BY <1>2, <2>1, OptStringBack
<1>6. DecodeOptStringList(j, "ffmpeg_commands") = {s.ffmpeg_commands}
  <2>1. CASE s.ffmpeg_commands = {}
    BY <1>2, <2>1, ReadMissing
  <2>2. CASE s.ffmpeg_commands # {}
    <3> DEFINE l == The(s.ffmpeg_commands)
    <3>1. s.ffmpeg_commands = {l} /\ IsSeq(l)
      BY <2>2, OptionBack, ListIsSeq DEF IsCommandRequest
    <3>2. AsStringList(StringList(l)) = {l}
      BY <3>1, StringListBack
    <3>3. DecodeOptStringList(j, "ffmpeg_commands") = Once(AsStringList(StringList(l)))
      BY <1>2, <2>2, ReadOptional
    <3> QED BY <3>1, <3>2, <3>3 DEF Once
  <2> QED BY <2>1, <2>2
<1>7. DecodeOptURI(j, "webhook")
        = IF s.webhook \subseteq DOMAIN UrlForm THEN {{UrlForm[u] : u \in s.webhook}} ELSE {}
  <2>1. s.webhook = {} \/ s.webhook = {The(s.webhook)}
    BY OptionBack DEF IsCommandRequest
  <2>2. CASE s.webhook = {}
    BY <1>2, <2>2, ReadMissing
  <2>3. CASE s.webhook # {}
    <3> DEFINE u == The(s.webhook)
    <3>1. AsURI(JStr(u)) = IF u \in DOMAIN UrlForm THEN {UrlForm[u]} ELSE {}
      BY ReadStr DEF AsURI
    <3>2. DecodeOptURI(j, "webhook") = Once(AsURI(JStr(u)))
      BY <1>2, <2>3, ReadOptional
    <3> HIDE DEF u
    <3> QED BY <2>1, <2>3, <3>1, <3>2 DEF Once, u
  <2> QED BY <2>2, <2>3
<1>8. DecodeOptString(j, "reference_id") = {s.reference_id}
  <2>1. IsOpt(s.reference_id)
    BY DEF IsCommandRequest
  <2> QED BY <1>2, <2>1, OptStringBack
<1> HIDE DEF j
<1>9. CASE s.webhook \subseteq DOMAIN UrlForm
  <2>1. DecodeCommandRequest(j)
          = {[input_files |-> s.input_files, output_files |-> s.output_files,
              ffmpeg_command |-> s.ffmpeg_command, ffmpeg_commands |-> s.ffmpeg_commands,
              webhook |-> {UrlForm[u] : u \in s.webhook}, reference_id |-> s.reference_id]}
    <3> DEFINE w == {UrlForm[u] : u \in s.webhook}
               t == [input_files |-> s.input_files, output_files |-> s.output_files,
                     ffmpeg_command |-> s.ffmpeg_command,
                     ffmpeg_commands |-> s.ffmpeg_commands,
                     webhook |-> w, reference_id |-> s.reference_id]
               R == DecodeCommandRequest(j)
    <3>1. DecodeOptURI(j, "webhook") = {w}
      BY <1>7, <1>9
    <3> HIDE DEF w
    <3>2. t \in R
      BY <1>3, <1>4, <1>5, <1>6, <1>8, <3>1 DEF DecodeCommandRequest
    <3>3. ASSUME NEW r \in R PROVE r = t
      <4>1. /\ r = [input_files |-> r.input_files, output_files |-> r.output_files,
                    ffmpeg_command |-> r.ffmpeg_command,
                    ffmpeg_commands |-> r.ffmpeg_commands,
                    webhook |-> r.webhook, reference_id |-> r.reference_id]
            /\ r.input_files = s.input_files /\ r.output_files = s.output_files
            /\ r.ffmpeg_command = s.ffmpeg_command /\ r.webhook = w
            /\ r.ffmpeg_commands = s.ffmpeg_commands /\ r.reference_id = s.reference_id
        BY <1>3, <1>4, <1>5, <1>6, <1>8, <3>1 DEF DecodeCommandRequest
      <4> QED BY <4>1
    <3> HIDE DEF t, R
    <3>4. R = {t}
      BY <3>2, <3>3
    <3> QED BY <3>4 DEF R, t, w
  <2>2. UrlWritten(s)
          = [input_files |-> s.input_files, output_files |-> s.output_files,
             ffmpeg_command |-> s.ffmpeg_command, ffmpeg_commands |-> s.ffmpeg_commands,
             webhook |-> {UrlForm[u] : u \in s.webhook}, reference_id |-> s.reference_id]
    BY DEF UrlWritten, IsCommandRequest
  <2> QED BY <1>1, <1>9, <2>1, <2>2
<1>10. CASE ~(s.webhook \subseteq DOMAIN UrlForm)
  BY <1>1, <1>7, <1>10 DEF DecodeCommandRequest
<1> QED BY <1>9, <1>10

-----------------------------------------------------------------------------
(***************************************************************************)
(* CommandResponse, ErrorResponse and HealthResponse.                      *)
(***************************************************************************)
LEMMA ReadNamed ==
  ASSUME NEW j, NEW k
  PROVE  /\ Required(j, k, DecodeResponseStatus) = RequiredStr(j, k)
         /\ Required(j, k, DecodeStatus) = RequiredStr(j, k)
         /\ Required(j, k, DecodeFileType) = RequiredStr(j, k)
         /\ Required(j, k, AsStr) = RequiredStr(j, k)
         /\ Required(j, k, AsInt) = RequiredInt(j, k)
         /\ Required(j, k, AsFloat) = RequiredFloat(j, k)
         /\ Required(j, k, AsTime) = RequiredTime(j, k)
         /\ Required(j, k, AsStatusList) = RequiredStatuses(j, k)
BY DEF RequiredStr, RequiredInt, RequiredFloat, RequiredTime, RequiredStatuses, Required,
       Clean, LastHeld, DecodeResponseStatus, DecodeStatus, DecodeFileType

LEMMA StrBack ==
  ASSUME NEW fs, IsSeq(fs), NEW k, NEW v, At(fs, k) = {JStr(v)}
  PROVE  RequiredStr(JObj(fs), k) = {v}
<1>1. RequiredStr(JObj(fs), k) = AsStr(JStr(v))
  BY ReadRequired
<1> QED BY <1>1, ReadStr

LEMMA CommandResponseBack ==
  ASSUME NEW s, IsCommandResponse(s)
  PROVE  DecodeCommandResponse(EncodeCommandResponse(s)) = {s}
<1> DEFINE p1 == Field("command_id", JStr(s.command_id))
           p2 == Field("status", EncodeResponseStatus(s.status))
           p3 == EncodeOptString("reference_id", s.reference_id)
           fs == p1 \o p2 \o p3
           j  == JObj(fs)
           R  == DecodeCommandResponse(j)
<1>1. EncodeCommandResponse(s) = j
  BY DEF EncodeCommandResponse
<1>2. IsSeq(p1) /\ \A q : At(p1, q) = IF q = "command_id" THEN {JStr(s.command_id)} ELSE {}
  BY FieldPart
<1>3. IsSeq(p2) /\ \A q : At(p2, q) = IF q = "status" THEN {JStr(s.status)} ELSE {}
  BY FieldPart DEF EncodeResponseStatus
<1>4. IsSeq(p3) /\ \A q : At(p3, q) = IF q = "reference_id" /\ s.reference_id # {}
                                    THEN {JStr(The(s.reference_id))} ELSE {}
  BY OptionPart DEF EncodeOptString, WhenSet
<1> HIDE DEF p1, p2, p3
<1>5. IsSeq(fs) /\ \A q : At(fs, q) = At(p1, q) \cup At(p2, q) \cup At(p3, q)
  <2> DEFINE a == p1 \o p2
  <2>1. IsSeq(a) /\ \A q : At(a, q) = At(p1, q) \cup At(p2, q)
    BY <1>2, <1>3, ConcatParts
  <2> HIDE DEF a
  <2>2. IsSeq(a \o p3) /\ \A q : At(a \o p3, q) = At(a, q) \cup At(p3, q)
    BY <1>4, <2>1, ConcatParts
  <2> QED BY <2>1, <2>2 DEF a
<1> HIDE DEF fs
<1>6. /\ At(fs, "command_id") = {JStr(s.command_id)}
      /\ At(fs, "status") = {JStr(s.status)}
      /\ At(fs, "reference_id")
           = IF s.reference_id = {} THEN {} ELSE {JStr(The(s.reference_id))}
  BY <1>2, <1>3, <1>4, <1>5
<1>7. RequiredStr(j, "command_id") = {s.command_id} /\ RequiredStr(j, "status") = {s.status}
  BY <1>5, <1>6, StrBack
<1>8. DecodeOptString(j, "reference_id") = {s.reference_id}
  BY <1>5, <1>6, OptStringBack DEF IsCommandResponse
<1> HIDE DEF j
<1>9. R = [command_id : RequiredStr(j, "command_id"), status : RequiredStr(j, "status"),
           reference_id : DecodeOptString(j, "reference_id")]
  BY ReadNamed DEF DecodeCommandResponse
<1>10. s \in R
  BY <1>7, <1>8, <1>9 DEF IsCommandResponse
<1>11. ASSUME NEW r \in R PROVE r = s
  BY <1>7, <1>8, <1>9, <1>11 DEF IsCommandResponse
<1> HIDE DEF R
<1> QED BY <1>1, <1>10, <1>11 DEF R

LEMMA ErrorResponseBack ==
  ASSUME NEW e
  PROVE  DecodeErrorResponse(EncodeErrorResponse([error |-> e])) = {[error |-> e]}
<1> DEFINE fs == Field("error", JStr(e))
           R  == DecodeErrorResponse(JObj(fs))
<1>1. IsSeq(fs) /\ At(fs, "error") = {JStr(e)}
  BY FieldPart
<1> HIDE DEF fs
<1>2. R = [error : {e}]
  <2>1. RequiredStr(JObj(fs), "error") = {e}
    BY <1>1, StrBack
  <2> QED BY <2>1, ReadNamed DEF DecodeErrorResponse
<1>3. EncodeErrorResponse([error |-> e]) = JObj(fs)
  BY DEF EncodeErrorResponse, fs
<1> HIDE DEF R
<1>4. R = {[error |-> e]}
  <2>1. [error |-> e] \in R
    BY <1>2
  <2>2. ASSUME NEW r \in R PROVE r = [error |-> e]
    BY <1>2, <2>2
  <2> QED BY <2>1, <2>2
<1> QED BY <1>3, <1>4 DEF R

LEMMA HealthResponseBack ==
  ASSUME NEW e
  PROVE  DecodeHealthResponse(EncodeHealthResponse([status |-> e])) = {[status |-> e]}
<1> DEFINE fs == Field("status", JStr(e))
           R  == DecodeHealthResponse(JObj(fs))
<1>1. IsSeq(fs) /\ At(fs, "status") = {JStr(e)}
  BY FieldPart
<1> HIDE DEF fs
<1>2. R = [status : {e}]
  <2>1. RequiredStr(JObj(fs), "status") = {e}
    BY <1>1, StrBack
  <2> QED BY <2>1, ReadNamed DEF DecodeHealthResponse
<1>3. EncodeHealthResponse([status |-> e]) = JObj(fs)
  BY DEF EncodeHealthResponse, fs
<1> HIDE DEF R
<1>4. R = {[status |-> e]}
  <2>1. [status |-> e] \in R
    BY <1>2
  <2>2. ASSUME NEW r \in R PROVE r = [status |-> e]
    BY <1>2, <2>2
  <2> QED BY <2>1, <2>2
<1> QED BY <1>3, <1>4 DEF R

-----------------------------------------------------------------------------
(***************************************************************************)
(* OutputFileInfo, and the map of them.                                    *)
(***************************************************************************)
LEMMA FloatBack ==
  ASSUME NEW fs, IsSeq(fs), NEW k, NEW v, IsFloat(v), At(fs, k) = {v}
  PROVE  RequiredFloat(JObj(fs), k) = {v}
<1>1. RequiredFloat(JObj(fs), k) = AsFloat(v)
  BY ReadRequired
<1> QED BY <1>1 DEF AsFloat, IsFloat

LEMMA OptIntBack ==
  ASSUME NEW fs, IsSeq(fs), NEW k, NEW o, IsOpt(o),
         At(fs, k) = IF o = {} THEN {} ELSE {JInt(The(o))}
  PROVE  DecodeOptInt(JObj(fs), k) = {o}
<1>1. CASE o = {}
  BY <1>1, ReadMissing
<1>2. CASE o # {}
  <2>1. At(fs, k) = {JInt(The(o))} /\ o = {The(o)}
    BY <1>2, OptionBack
  <2>2. DecodeOptInt(JObj(fs), k) = Once(AsInt(JInt(The(o))))
    BY <2>1, ReadOptional
  <2>3. AsInt(JInt(The(o))) = {The(o)}
    BY DEF AsInt, JInt
  <2> QED BY <2>1, <2>2, <2>3 DEF Once
<1> QED BY <1>1, <1>2

LEMMA OutputFileInfoBack ==
  ASSUME NEW s, IsOutputFileInfo(s)
  PROVE  DecodeOutputFileInfo(EncodeOutputFileInfo(s)) = {s}
<1> DEFINE p1 == Field("file_id", JStr(s.file_id))
           p2 == Field("size_mbytes", FloatText(s.size_mbytes))
           p3 == Field("file_type", EncodeFileType(s.file_type))
           p4 == Field("file_format", JStr(s.file_format))
           p5 == Field("storage_url", JStr(s.storage_url))
           p6 == EncodeOptInt("width", s.width)
           p7 == EncodeOptInt("height", s.height)
           fs == p1 \o p2 \o p3 \o p4 \o p5 \o p6 \o p7
           j  == JObj(fs)
           R  == DecodeOutputFileInfo(j)
<1>1. EncodeOutputFileInfo(s) = j
  BY DEF EncodeOutputFileInfo
<1>2. /\ IsSeq(p1) /\ IsSeq(p2) /\ IsSeq(p3) /\ IsSeq(p4) /\ IsSeq(p5)
      /\ \A q : At(p1, q) = IF q = "file_id" THEN {JStr(s.file_id)} ELSE {}
      /\ \A q : At(p2, q) = IF q = "size_mbytes" THEN {s.size_mbytes} ELSE {}
      /\ \A q : At(p3, q) = IF q = "file_type" THEN {JStr(s.file_type)} ELSE {}
      /\ \A q : At(p4, q) = IF q = "file_format" THEN {JStr(s.file_format)} ELSE {}
      /\ \A q : At(p5, q) = IF q = "storage_url" THEN {JStr(s.storage_url)} ELSE {}
  BY FieldPart DEF FloatText, EncodeFileType
<1>3. /\ IsSeq(p6) /\ IsSeq(p7)
      /\ \A q : At(p6, q) = IF q = "width" /\ s.width # {}
                            THEN {JInt(The(s.width))} ELSE {}
      /\ \A q : At(p7, q) = IF q = "height" /\ s.height # {}
                            THEN {JInt(The(s.height))} ELSE {}
  BY OptionPart DEF EncodeOptInt, WhenSet
<1> HIDE DEF p1, p2, p3, p4, p5, p6, p7
<1>4. IsSeq(fs) /\ \A q : At(fs, q) = At(p1, q) \cup At(p2, q) \cup At(p3, q) \cup At(p4, q)
                                     \cup At(p5, q) \cup At(p6, q) \cup At(p7, q)
  BY <1>2, <1>3, SevenParts
<1> HIDE DEF fs
<1>5. /\ At(fs, "file_id") = {JStr(s.file_id)}
      /\ At(fs, "size_mbytes") = {s.size_mbytes}
      /\ At(fs, "file_type") = {JStr(s.file_type)}
      /\ At(fs, "file_format") = {JStr(s.file_format)}
      /\ At(fs, "storage_url") = {JStr(s.storage_url)}
      /\ At(fs, "width") = IF s.width = {} THEN {} ELSE {JInt(The(s.width))}
      /\ At(fs, "height") = IF s.height = {} THEN {} ELSE {JInt(The(s.height))}
  BY <1>2, <1>3, <1>4
<1>6. /\ RequiredStr(j, "file_id") = {s.file_id}
      /\ RequiredStr(j, "file_type") = {s.file_type}
      /\ RequiredStr(j, "file_format") = {s.file_format}
      /\ RequiredStr(j, "storage_url") = {s.storage_url}
  BY <1>4, <1>5, StrBack
<1>7. RequiredFloat(j, "size_mbytes") = {s.size_mbytes}
  BY <1>4, <1>5, FloatBack DEF IsOutputFileInfo
<1>8. DecodeOptInt(j, "width") = {s.width} /\ DecodeOptInt(j, "height") = {s.height}
  BY <1>4, <1>5, OptIntBack DEF IsOutputFileInfo
<1> HIDE DEF j
<1>9. R = [file_id : {s.file_id}, size_mbytes : {s.size_mbytes}, file_type : {s.file_type},
           file_format : {s.file_format}, storage_url : {s.storage_url},
           width : {s.width}, height : {s.height}]
  BY <1>6, <1>7, <1>8, ReadNamed DEF DecodeOutputFileInfo
<1> HIDE DEF R
<1>10. s \in R
  BY <1>9 DEF IsOutputFileInfo
<1>11. ASSUME NEW r \in R PROVE r = s
  <2>1. /\ r = [file_id |-> r.file_id, size_mbytes |-> r.size_mbytes,
                file_type |-> r.file_type, file_format |-> r.file_format,
                storage_url |-> r.storage_url, width |-> r.width, height |-> r.height]
        /\ r.file_id = s.file_id /\ r.size_mbytes = s.size_mbytes
        /\ r.file_type = s.file_type /\ r.file_format = s.file_format
        /\ r.storage_url = s.storage_url /\ r.width = s.width /\ r.height = s.height
    BY <1>9
  <2> QED BY <2>1 DEF IsOutputFileInfo
<1> QED BY <1>1, <1>10, <1>11 DEF R

LEMMA StatusOutputFilesBack ==
  ASSUME NEW m, IsStatusOutputFiles(m)
  PROVE  DecodeStatusOutputFiles(EncodeStatusOutputFiles(m)) = {m}
<1> DEFINE v == [k \in DOMAIN m |-> EncodeOutputFileInfo(m[k])]
           es == Entries(v)
<1>1. DOMAIN v = DOMAIN m /\ IsFiniteSet(DOMAIN v)
  BY DEF IsMap, IsStatusOutputFiles
<1>2. MapText(m, EncodeOutputFileInfo) = JObj(es)
  <2>1. SetToSeq(DOMAIN m) \in Seq(DOMAIN m)
    BY <1>1, Enumerated
  <2>2. \A i \in DOMAIN SetToSeq(DOMAIN m) : SetToSeq(DOMAIN m)[i] \in DOMAIN m
    BY <2>1
  <2> QED BY <1>1, <2>2 DEF MapText, Entries
<1>3. /\ IsSeq(es) /\ Names(JObj(es)) = DOMAIN m
      /\ \A i \in DOMAIN es : es[i][1] \in DOMAIN m /\ es[i][2] = v[es[i][1]]
      /\ \A k \in DOMAIN m : At(es, k) = {EncodeOutputFileInfo(m[k])}
  BY <1>1, EntriesFacts
<1>4. \A k \in DOMAIN m : DecodeOutputFileInfo(EncodeOutputFileInfo(m[k])) = {m[k]}
  BY OutputFileInfoBack DEF IsStatusOutputFiles
<1> HIDE DEF es
<1>5. JObj(es)[1] = "obj" /\ JObj(es)[2] = es
  BY DEF JObj
<1>6. ASSUME NEW i \in DOMAIN es PROVE DecodeOutputFileInfo(Value(JObj(es), i)) # {}
  <2>1. Value(JObj(es), i) = EncodeOutputFileInfo(m[es[i][1]])
    BY <1>3, <1>5 DEF Value
  <2> QED BY <1>3, <1>4, <2>1
<1>7. ASSUME NEW k \in DOMAIN m PROVE LastHeld(JObj(es), k, DecodeOutputFileInfo) = {m[k]}
  <2>1. At(es, k) = {EncodeOutputFileInfo(m[k])}
    BY <1>3
  <2>2. /\ Held(JObj(es), k) # {}
        /\ Value(JObj(es), Latest(Held(JObj(es), k))) = EncodeOutputFileInfo(m[k])
    <3> DEFINE u == EncodeOutputFileInfo(m[k])
    <3>1. IsSeq(es) /\ At(es, k) = {u}
      BY <1>3, <2>1
    <3> HIDE DEF u
    <3>2. /\ Held(JObj(es), k) # {}
          /\ Value(JObj(es), Latest(Held(JObj(es), k))) = u
      BY <3>1, Found
    <3> QED BY <3>2 DEF u
  <2> QED BY <1>4, <2>2 DEF LastHeld
<1>8. MapOf(JObj(es), DecodeOutputFileInfo)
        = {[k \in DOMAIN m |-> The(LastHeld(JObj(es), k, DecodeOutputFileInfo))]}
  BY <1>3, <1>5, <1>6 DEF MapOf
<1>9. [k \in DOMAIN m |-> The(LastHeld(JObj(es), k, DecodeOutputFileInfo))] = m
  BY <1>7, TheOnly DEF IsMap, IsStatusOutputFiles
<1> QED BY <1>2, <1>8, <1>9 DEF EncodeStatusOutputFiles, DecodeStatusOutputFiles

-----------------------------------------------------------------------------
(***************************************************************************)
(* CommandStatus and the list of them.  Times come back without their      *)
(* fraction of a second.                                                   *)
(***************************************************************************)
\* A request whose webhook is a URL, written as one.
WrittenAsUrl(s) == s.webhook \subseteq DOMAIN UrlForm /\ UrlWritten(s) = s

InSeconds(s) ==
  [s EXCEPT !.created_at = WholeSecond(@), !.completed_at = {WholeSecond(t) : t \in @}]

LEMMA OptFloatBack ==
  ASSUME NEW fs, IsSeq(fs), NEW k, NEW o, IsOpt(o), \A f \in o : IsFloat(f),
         At(fs, k) = IF o = {} THEN {} ELSE {FloatText(The(o))}
  PROVE  DecodeOptFloat64(JObj(fs), k) = {o}
<1>1. CASE o = {}
  BY <1>1, ReadMissing
<1>2. CASE o # {}
  <2>1. At(fs, k) = {The(o)} /\ o = {The(o)}
    BY <1>2, OptionBack DEF FloatText
  <2>2. DecodeOptFloat64(JObj(fs), k) = Once(AsFloat(The(o)))
    BY <2>1, ReadOptional
  <2>3. AsFloat(The(o)) = {The(o)}
    BY <2>1 DEF AsFloat, IsFloat
  <2> QED BY <2>1, <2>2, <2>3 DEF Once
<1> QED BY <1>1, <1>2

LEMMA ReadTime == \A t : AsTime(EncodeDateTime(t)) = {WholeSecond(t)}
BY DEF AsTime, EncodeDateTime, JTime

LEMMA OptTimeBack ==
  ASSUME NEW fs, IsSeq(fs), NEW k, NEW o, IsOpt(o),
         At(fs, k) = IF o = {} THEN {} ELSE {EncodeDateTime(The(o))}
  PROVE  DecodeOptDateTime(JObj(fs), k) = {{WholeSecond(t) : t \in o}}
<1>1. CASE o = {}
  BY <1>1, ReadMissing
<1>2. CASE o # {}
  <2>1. At(fs, k) = {EncodeDateTime(The(o))} /\ o = {The(o)}
    BY <1>2, OptionBack
  <2>2. DecodeOptDateTime(JObj(fs), k) = Once(AsTime(EncodeDateTime(The(o))))
    BY <2>1, ReadOptional
  <2>3. DecodeOptDateTime(JObj(fs), k) = {{WholeSecond(The(o))}}
    BY <2>2, ReadTime DEF Once
  <2>4. {WholeSecond(t) : t \in o} = {WholeSecond(The(o))}
    BY <2>1
  <2> QED BY <2>3, <2>4
<1> QED BY <1>1, <1>2

LEMMA OptFilesBack ==
  ASSUME NEW fs, IsSeq(fs), NEW k, NEW o, IsOpt(o), \A m \in o : IsStatusOutputFiles(m),
         At(fs, k) = IF o = {} THEN {} ELSE {EncodeStatusOutputFiles(The(o))}
  PROVE  DecodeOptStatusOutputFiles(JObj(fs), k) = {o}
<1>1. CASE o = {}
  BY <1>1, ReadMissing
<1>2. CASE o # {}
  <2>1. At(fs, k) = {EncodeStatusOutputFiles(The(o))} /\ o = {The(o)}
    BY <1>2, OptionBack
  <2>2. DecodeOptStatusOutputFiles(JObj(fs), k)
          = Once(DecodeStatusOutputFiles(EncodeStatusOutputFiles(The(o))))
    BY <2>1, ReadOptional
  <2>3. DecodeStatusOutputFiles(EncodeStatusOutputFiles(The(o))) = {The(o)}
    BY <2>1, StatusOutputFilesBack
  <2> QED BY <2>1, <2>2, <2>3 DEF Once
<1> QED BY <1>1, <1>2

LEMMA OptRequestBack ==
  ASSUME NEW fs, IsSeq(fs), NEW k, NEW o, IsOpt(o),
         \A r \in o : IsCommandRequest(r) /\ WrittenAsUrl(r),
         At(fs, k) = IF o = {} THEN {} ELSE {EncodeCommandRequest(The(o))}
  PROVE  DecodeOptCommandRequest(JObj(fs), k) = {o}
<1>1. CASE o = {}
  BY <1>1, ReadMissing
<1>2. CASE o # {}
  <2>1. At(fs, k) = {EncodeCommandRequest(The(o))} /\ o = {The(o)}
    BY <1>2, OptionBack
  <2>2. DecodeOptCommandRequest(JObj(fs), k)
          = Once(DecodeCommandRequest(EncodeCommandRequest(The(o))))
    BY <2>1, ReadOptional
  <2>3. DecodeCommandRequest(EncodeCommandRequest(The(o))) = {The(o)}
    <3>1. The(o) \in o
      BY <2>1
    <3> QED BY <3>1, CommandRequestBack DEF WrittenAsUrl
  <2> QED BY <2>1, <2>2, <2>3 DEF Once
<1> QED BY <1>1, <1>2

LEMMA CommandStatusBack ==
  ASSUME NEW s, IsCommandStatus(s), \A r \in s.original_request : WrittenAsUrl(r)
  PROVE  DecodeCommandStatus(EncodeCommandStatus(s)) = {InSeconds(s)}
<1> DEFINE p1 == Field("command_id", JStr(s.command_id))
           p2 == Field("status", EncodeStatus(s.status))
           p3 == EncodeOptStatusOutputFiles("output_files", s.output_files)
           p4 == EncodeOptCommandRequest("original_request", s.original_request)
           p5 == EncodeOptFloat64("ffmpeg_command_run_seconds", s.ffmpeg_command_run_seconds)
           p6 == EncodeOptFloat64("total_processing_seconds", s.total_processing_seconds)
           p7 == EncodeOptString("error", s.error)
           p8 == Field("created_at", EncodeDateTime(s.created_at))
           p9 == EncodeOptDateTime("completed_at", s.completed_at)
           fs == p1 \o p2 \o p3 \o p4 \o p5 \o p6 \o p7 \o p8 \o p9
           j  == JObj(fs)
           R  == DecodeCommandStatus(j)
           z  == InSeconds(s)
<1>1. EncodeCommandStatus(s) = j
  BY DEF EncodeCommandStatus
<1>2. /\ IsSeq(p1) /\ IsSeq(p2) /\ IsSeq(p8)
      /\ \A q : At(p1, q) = IF q = "command_id" THEN {JStr(s.command_id)} ELSE {}
      /\ \A q : At(p2, q) = IF q = "status" THEN {JStr(s.status)} ELSE {}
      /\ \A q : At(p8, q) = IF q = "created_at" THEN {EncodeDateTime(s.created_at)} ELSE {}
  BY FieldPart DEF EncodeStatus
<1>3. /\ IsSeq(p3) /\ IsSeq(p4)
      /\ \A q : At(p3, q) = IF q = "output_files" /\ s.output_files # {}
                            THEN {EncodeStatusOutputFiles(The(s.output_files))} ELSE {}
      /\ \A q : At(p4, q) = IF q = "original_request" /\ s.original_request # {}
                            THEN {EncodeCommandRequest(The(s.original_request))} ELSE {}
  BY OptionPart DEF EncodeOptStatusOutputFiles, EncodeOptCommandRequest, WhenSet
<1>4. /\ IsSeq(p5) /\ IsSeq(p6)
      /\ \A q : At(p5, q)
           = IF q = "ffmpeg_command_run_seconds" /\ s.ffmpeg_command_run_seconds # {}
             THEN {FloatText(The(s.ffmpeg_command_run_seconds))} ELSE {}
      /\ \A q : At(p6, q)
           = IF q = "total_processing_seconds" /\ s.total_processing_seconds # {}
             THEN {FloatText(The(s.total_processing_seconds))} ELSE {}
  BY OptionPart DEF EncodeOptFloat64, WhenSet
<1>5. /\ IsSeq(p7) /\ IsSeq(p9)
      /\ \A q : At(p7, q) = IF q = "error" /\ s.error # {}
                            THEN {JStr(The(s.error))} ELSE {}
      /\ \A q : At(p9, q) = IF q = "completed_at" /\ s.completed_at # {}
                            THEN {EncodeDateTime(The(s.completed_at))} ELSE {}
  BY OptionPart DEF EncodeOptString, EncodeOptDateTime, WhenSet
<1> HIDE DEF p1, p2, p3, p4, p5, p6, p7, p8, p9
<1>6. IsSeq(fs) /\ \A q : At(fs, q) = At(p1, q) \cup At(p2, q) \cup At(p3, q) \cup At(p4, q)
                                     \cup At(p5, q) \cup At(p6, q) \cup At(p7, q)
                                     \cup At(p8, q) \cup At(p9, q)
  <2> DEFINE a == p1 \o p2 \o p3 \o p4 \o p5
             b == a \o p6 \o p7 \o p8 \o p9
  <2>1. IsSeq(a) /\ \A q : At(a, q) = At(p1, q) \cup At(p2, q) \cup At(p3, q)
                                      \cup At(p4, q) \cup At(p5, q)
    BY <1>2, <1>3, <1>4, FourMore
  <2> HIDE DEF a
  <2>2. IsSeq(b) /\ \A q : At(b, q) = At(a, q) \cup At(p6, q) \cup At(p7, q)
                                      \cup At(p8, q) \cup At(p9, q)
    BY <1>2, <1>4, <1>5, <2>1, FourMore
  <2>3. fs = b
    BY DEF a, b
  <2> HIDE DEF fs, b
  <2>4. \A q : At(b, q) = At(p1, q) \cup At(p2, q) \cup At(p3, q) \cup At(p4, q)
                         \cup At(p5, q) \cup At(p6, q) \cup At(p7, q)
                         \cup At(p8, q) \cup At(p9, q)
    BY <2>1, <2>2
  <2> QED BY <2>2, <2>3, <2>4
<1> HIDE DEF fs
<1>7. /\ At(fs, "command_id") = {JStr(s.command_id)}
      /\ At(fs, "status") = {JStr(s.status)}
      /\ At(fs, "created_at") = {EncodeDateTime(s.created_at)}
  BY <1>2, <1>3, <1>4, <1>5, <1>6
<1>8. At(fs, "output_files")
        = IF s.output_files = {} THEN {} ELSE {EncodeStatusOutputFiles(The(s.output_files))}
  BY <1>2, <1>3, <1>4, <1>5, <1>6
<1>9. At(fs, "original_request")
        = IF s.original_request = {} THEN {}
          ELSE {EncodeCommandRequest(The(s.original_request))}
  BY <1>2, <1>3, <1>4, <1>5, <1>6
<1>10. At(fs, "ffmpeg_command_run_seconds")
         = IF s.ffmpeg_command_run_seconds = {} THEN {}
           ELSE {FloatText(The(s.ffmpeg_command_run_seconds))}
  BY <1>2, <1>3, <1>4, <1>5, <1>6
<1>11. At(fs, "total_processing_seconds")
         = IF s.total_processing_seconds = {} THEN {}
           ELSE {FloatText(The(s.total_processing_seconds))}
  BY <1>2, <1>3, <1>4, <1>5, <1>6
<1>12. At(fs, "error") = IF s.error = {} THEN {} ELSE {JStr(The(s.error))}
  BY <1>2, <1>3, <1>4, <1>5, <1>6
<1>13. At(fs, "completed_at")
         = IF s.completed_at = {} THEN {} ELSE {EncodeDateTime(The(s.completed_at))}
  BY <1>2, <1>3, <1>4, <1>5, <1>6
<1>14. RequiredStr(j, "command_id") = {s.command_id} /\ RequiredStr(j, "status") = {s.status}
  BY <1>6, <1>7, StrBack
<1>15. RequiredTime(j, "created_at") = {WholeSecond(s.created_at)}
  <2>1. RequiredTime(j, "created_at") = AsTime(EncodeDateTime(s.created_at))
    BY <1>6, <1>7, ReadRequired
  <2> QED BY <2>1, ReadTime
<1>16. DecodeOptStatusOutputFiles(j, "output_files") = {s.output_files}
  BY <1>6, <1>8, OptFilesBack DEF IsCommandStatus
<1>17. DecodeOptCommandRequest(j, "original_request") = {s.original_request}
  BY <1>6, <1>9, OptRequestBack DEF IsCommandStatus
<1>18. DecodeOptFloat64(j, "ffmpeg_command_run_seconds") = {s.ffmpeg_command_run_seconds}
  BY <1>6, <1>10, OptFloatBack DEF IsCommandStatus
<1>19. DecodeOptFloat64(j, "total_processing_seconds") = {s.total_processing_seconds}
  BY <1>6, <1>11, OptFloatBack DEF IsCommandStatus
<1>20. DecodeOptString(j, "error") = {s.error}
  BY <1>6, <1>12, OptStringBack DEF IsCommandStatus
<1>21. DecodeOptDateTime(j, "completed_at") = {{WholeSecond(t) : t \in s.completed_at}}
  BY <1>6, <1>13, OptTimeBack DEF IsCommandStatus
<1> HIDE DEF j
<1> DEFINE w == {WholeSecond(t) : t \in s.completed_at}
           c == WholeSecond(s.created_at)
<1>22. z = [command_id |-> s.command_id, status |-> s.status,
            output_files |-> s.output_files, original_request |-> s.original_request,
            ffmpeg_command_run_seconds |-> s.ffmpeg_command_run_seconds,
            total_processing_seconds |-> s.total_processing_seconds, error |-> s.error,
            created_at |-> c, completed_at |-> w]
  <2> DEFINE a1 == s.command_id
             a2 == s.status
             a3 == s.output_files
             a4 == s.original_request
             a5 == s.ffmpeg_command_run_seconds
             a6 == s.total_processing_seconds
             a7 == s.error
             a8 == s.created_at
             a9 == s.completed_at
             t == [command_id |-> a1, status |-> a2, output_files |-> a3,
                   original_request |-> a4, ffmpeg_command_run_seconds |-> a5,
                   total_processing_seconds |-> a6, error |-> a7, created_at |-> a8,
                   completed_at |-> a9]
  <2>1. s = t
    BY DEF IsCommandStatus
  <2> HIDE DEF a1, a2, a3, a4, a5, a6, a7, a8, a9
  <2>2. t.created_at = a8 /\ t.completed_at = a9
    OBVIOUS
  <2>3. [t EXCEPT !.created_at = c]
          = [command_id |-> a1, status |-> a2, output_files |-> a3,
             original_request |-> a4, ffmpeg_command_run_seconds |-> a5,
             total_processing_seconds |-> a6, error |-> a7, created_at |-> c,
             completed_at |-> a9]
    <3> HIDE DEF c
    <3> QED OBVIOUS
  <2> DEFINE u == [command_id |-> a1, status |-> a2, output_files |-> a3,
                   original_request |-> a4, ffmpeg_command_run_seconds |-> a5,
                   total_processing_seconds |-> a6, error |-> a7, created_at |-> c,
                   completed_at |-> a9]
  <2>4. [u EXCEPT !.completed_at = w]
          = [command_id |-> a1, status |-> a2, output_files |-> a3,
             original_request |-> a4, ffmpeg_command_run_seconds |-> a5,
             total_processing_seconds |-> a6, error |-> a7, created_at |-> c,
             completed_at |-> w]
    <3> HIDE DEF c, w
    <3> QED OBVIOUS
  <2>5. z = [u EXCEPT !.completed_at = w]
    <3> HIDE DEF t, u, c, w
    <3>1. z = [[t EXCEPT !.created_at = c] EXCEPT !.completed_at = w]
      BY <2>1 DEF InSeconds, c, w
    <3>2. [t EXCEPT !.created_at = c] = u
      BY <2>3 DEF t, u
    <3> QED BY <3>1, <3>2
  <2> QED BY <2>4, <2>5 DEF a1, a2, a3, a4, a5, a6, a7
<1> HIDE DEF w, c, z
<1>23. R = [command_id : {s.command_id}, status : {s.status},
            output_files : {s.output_files}, original_request : {s.original_request},
            ffmpeg_command_run_seconds : {s.ffmpeg_command_run_seconds},
            total_processing_seconds : {s.total_processing_seconds}, error : {s.error},
            created_at : {c}, completed_at : {w}]
  <2>1. RequiredTime(j, "created_at") = {c} /\ DecodeOptDateTime(j, "completed_at") = {w}
    BY <1>15, <1>21 DEF c, w
  <2> QED BY <1>14, <1>16, <1>17, <1>18, <1>19, <1>20, <2>1, ReadNamed DEF DecodeCommandStatus
<1> HIDE DEF R
<1>24. z \in R
  BY <1>22, <1>23
<1>25. ASSUME NEW r \in R PROVE r = z
  <2>1. /\ r = [command_id |-> r.command_id, status |-> r.status,
                output_files |-> r.output_files, original_request |-> r.original_request,
                ffmpeg_command_run_seconds |-> r.ffmpeg_command_run_seconds,
                total_processing_seconds |-> r.total_processing_seconds, error |-> r.error,
                created_at |-> r.created_at, completed_at |-> r.completed_at]
        /\ r.command_id = s.command_id /\ r.status = s.status
        /\ r.output_files = s.output_files /\ r.original_request = s.original_request
        /\ r.ffmpeg_command_run_seconds = s.ffmpeg_command_run_seconds
        /\ r.total_processing_seconds = s.total_processing_seconds
        /\ r.error = s.error /\ r.created_at = c /\ r.completed_at = w
    BY <1>23
  <2> QED BY <1>22, <2>1
<1> QED BY <1>1, <1>24, <1>25 DEF R, z

IsStatus(s) == IsCommandStatus(s) /\ \A r \in s.original_request : WrittenAsUrl(r)

LEMMA StatusListBack ==
  ASSUME NEW l, IsSeq(l), \A i \in DOMAIN l : IsStatus(l[i])
  PROVE  AsStatusList(StatusList(l)) = {[i \in DOMAIN l |-> InSeconds(l[i])]}
<1>1. StatusList(l)[1] = "arr" /\ StatusList(l)[2] = [i \in DOMAIN l |-> EncodeCommandStatus(l[i])]
  BY DEF StatusList, ListText, JArr
<1>2. \A i \in DOMAIN l : DecodeCommandStatus(EncodeCommandStatus(l[i])) = {InSeconds(l[i])}
  BY CommandStatusBack DEF IsStatus
<1>3. AsStatusList(StatusList(l))
        = {[i \in DOMAIN l |-> The(DecodeCommandStatus(EncodeCommandStatus(l[i])))]}
  BY <1>1, <1>2 DEF AsStatusList, ListOf
<1>4. \A i \in DOMAIN l : The(DecodeCommandStatus(EncodeCommandStatus(l[i]))) = InSeconds(l[i])
  BY <1>2, TheOnly
<1> QED BY <1>3, <1>4

LEMMA CommandListResponseBack ==
  ASSUME NEW l, IsSeq(l), \A i \in DOMAIN l : IsStatus(l[i]), NEW n
  PROVE  DecodeCommandListResponse(EncodeCommandListResponse([commands |-> l, total |-> n]))
           = {[commands |-> [i \in DOMAIN l |-> InSeconds(l[i])], total |-> n]}
<1> DEFINE p1 == Field("commands", StatusList(l))
           p2 == Field("total", JInt(n))
           fs == p1 \o p2
           j  == JObj(fs)
           R  == DecodeCommandListResponse(j)
           x  == [i \in DOMAIN l |-> InSeconds(l[i])]
           z  == [commands |-> x, total |-> n]
<1>1. EncodeCommandListResponse([commands |-> l, total |-> n]) = j
  BY DEF EncodeCommandListResponse
<1>2. /\ IsSeq(p1) /\ IsSeq(p2)
      /\ \A q : At(p1, q) = IF q = "commands" THEN {StatusList(l)} ELSE {}
      /\ \A q : At(p2, q) = IF q = "total" THEN {JInt(n)} ELSE {}
  BY FieldPart
<1> HIDE DEF p1, p2
<1>3. IsSeq(fs) /\ \A q : At(fs, q) = At(p1, q) \cup At(p2, q)
  BY <1>2, ConcatParts
<1> HIDE DEF fs
<1>4. At(fs, "commands") = {StatusList(l)} /\ At(fs, "total") = {JInt(n)}
  BY <1>2, <1>3
<1>5. RequiredStatuses(j, "commands") = {x}
  <2>1. RequiredStatuses(j, "commands") = AsStatusList(StatusList(l))
    BY <1>3, <1>4, ReadRequired
  <2> QED BY <2>1, StatusListBack
<1>6. RequiredInt(j, "total") = {n}
  <2>1. RequiredInt(j, "total") = AsInt(JInt(n))
    BY <1>3, <1>4, ReadRequired
  <2> QED BY <2>1 DEF AsInt, JInt
<1> HIDE DEF j, x
<1>7. R = [commands : {x}, total : {n}]
  BY <1>5, <1>6, ReadNamed DEF DecodeCommandListResponse
<1> HIDE DEF R
<1>8. z \in R
  BY <1>7
<1>9. ASSUME NEW r \in R PROVE r = z
  BY <1>7, <1>9
<1> HIDE DEF z
<1>10. R = {z}
  BY <1>8, <1>9
<1> QED BY <1>1, <1>10 DEF R, z, x

-----------------------------------------------------------------------------
(***************************************************************************)
(* Reading with encoding/json.                                             *)
(***************************************************************************)
ZeroStr(j, k)     == OrZero(j, k, AsStr, "")
ZeroList(j, k)    == OrZero(j, k, AsStringList, <<>>)
ZeroInputs(j, k)  == OrZero(j, k, Present, {})
ZeroOutputs(j, k) == OrZero(j, k, StringMap, <<>>)
ZeroFloat(j, k)   == OrZero(j, k, AsFloat, JInt(0))
ZeroTimes(j, k)   == OrZero(j, k, AsTime, ZeroTime)
ZeroFiles(j, k)   == OrZero(j, k, FileInfos, <<>>)
ZeroInts(j, k)    == OrZero(j, k, OptInt, {})

LEMMA ReadOrZero ==
  ASSUME NEW fs, IsSeq(fs), NEW k, NEW v, At(fs, k) = {v}, v # JNull
  PROVE  LET j == JObj(fs) IN
         /\ ZeroStr(j, k) = The(AsStr(v))
         /\ ZeroList(j, k) = The(AsStringList(v))
         /\ ZeroInputs(j, k) = StringMap(v)
         /\ ZeroOutputs(j, k) = The(StringMap(v))
         /\ ZeroFloat(j, k) = The(AsFloat(v))
         /\ ZeroTimes(j, k) = The(AsTime(v))
         /\ ZeroFiles(j, k) = The(FileInfos(v))
         /\ ZeroInts(j, k) = AsInt(v)
<1> DEFINE j == JObj(fs)
<1>1. Held(j, k) # {} /\ Value(j, Latest(Held(j, k))) = v
  <2> HIDE DEF At
  <2> QED BY Found
<1> HIDE DEF j
<1>2. ZeroStr(j, k) = The(AsStr(v))
  BY <1>1 DEF ZeroStr, OrZero
<1>3. ZeroList(j, k) = The(AsStringList(v))
  BY <1>1 DEF ZeroList, OrZero
<1>4. ZeroInputs(j, k) = StringMap(v)
  <2>1. ZeroInputs(j, k) = The(Present(v))
    BY <1>1 DEF ZeroInputs, OrZero
  <2> QED BY <2>1, TheOnly DEF Present
<1>5. ZeroOutputs(j, k) = The(StringMap(v))
  BY <1>1 DEF ZeroOutputs, OrZero
<1>6. ZeroFloat(j, k) = The(AsFloat(v))
  BY <1>1 DEF ZeroFloat, OrZero
<1>7. ZeroTimes(j, k) = The(AsTime(v))
  BY <1>1 DEF ZeroTimes, OrZero
<1>8. ZeroFiles(j, k) = The(FileInfos(v))
  BY <1>1 DEF ZeroFiles, OrZero
<1>9. ZeroInts(j, k) = AsInt(v)
  <2>1. ZeroInts(j, k) = The(OptInt(v))
    BY <1>1 DEF ZeroInts, OrZero
  <2> QED BY <2>1, TheOnly DEF OptInt
<1> QED BY <1>2, <1>3, <1>4, <1>5, <1>6, <1>7, <1>8, <1>9 DEF j

LEMMA ZeroMissing ==
  ASSUME NEW fs, NEW k, At(fs, k) = {}
  PROVE  LET j == JObj(fs) IN
         /\ ZeroStr(j, k) = "" /\ ZeroList(j, k) = <<>> /\ ZeroInts(j, k) = {}
<1>1. Held(JObj(fs), k) = {}
  BY NotFound
<1> QED BY <1>1 DEF ZeroStr, ZeroList, ZeroInts, OrZero

LEMMA ZeroNull ==
  ASSUME NEW fs, IsSeq(fs), NEW k, At(fs, k) = {JNull}
  PROVE  ZeroInputs(JObj(fs), k) = {}
<1>1. Held(JObj(fs), k) # {} /\ Value(JObj(fs), Latest(Held(JObj(fs), k))) = JNull
  <2> HIDE DEF At
  <2> QED BY Found
<1> QED BY <1>1 DEF ZeroInputs, OrZero

LEMMA NotNull ==
  /\ \A v : JStr(v) # JNull /\ JInt(v) # JNull /\ JTime(v) # JNull
  /\ \A v : JObj(v) # JNull /\ JArr(v) # JNull
  /\ \A f : IsFloat(f) => f # JNull
<1>1. JNull[1] = "null"
  BY DEF JNull
<1>2. \A v : /\ JStr(v)[1] = "str" /\ JInt(v)[1] = "int" /\ JTime(v)[1] = "time"
             /\ JObj(v)[1] = "obj" /\ JArr(v)[1] = "arr"
  BY DEF JStr, JInt, JTime, JObj, JArr
<1>3. \A v : JStr(v) # JNull /\ JInt(v) # JNull /\ JTime(v) # JNull
  BY <1>1, <1>2
<1>4. \A v : JObj(v) # JNull /\ JArr(v) # JNull
  BY <1>1, <1>2
<1>5. \A f : IsFloat(f) => f # JNull
  BY <1>1 DEF IsFloat
<1> QED BY <1>3, <1>4, <1>5

\* A field that is left out when it is empty.
LEMMA OmitPart ==
  ASSUME NEW k, NEW v, NEW zero, NEW j
  PROVE  LET f == OmitEmpty(k, v, zero, j) IN
         /\ IsSeq(f)
         /\ \A q : At(f, q) = IF q = k /\ v # zero THEN {j} ELSE {}
BY FieldPart DEF OmitEmpty

LEMMA ZeroStrBack ==
  ASSUME NEW fs, IsSeq(fs), NEW k, NEW x,
         At(fs, k) = IF x = "" THEN {} ELSE {JStr(x)}
  PROVE  ZeroStr(JObj(fs), k) = x
<1>1. CASE x = ""
  BY <1>1, ZeroMissing
<1>2. CASE x # ""
  <2>1. ZeroStr(JObj(fs), k) = The(AsStr(JStr(x)))
    <3> DEFINE v == JStr(x)
    <3>1. At(fs, k) = {v} /\ v # JNull /\ IsSeq(fs)
      BY <1>2, NotNull
    <3> HIDE DEF v
    <3>2. Held(JObj(fs), k) # {} /\ Value(JObj(fs), Latest(Held(JObj(fs), k))) = v
      BY <3>1, Found
    <3>3. ZeroStr(JObj(fs), k) = The(AsStr(v))
      BY <3>1, <3>2 DEF ZeroStr, OrZero
    <3> QED BY <3>3 DEF v
  <2> QED BY <2>1, ReadStr, TheOnly
<1> QED BY <1>1, <1>2

-----------------------------------------------------------------------------
(***************************************************************************)
(* The payload.                                                            *)
(***************************************************************************)
IsWorkerRequest(w) ==
  /\ w = [input_files |-> w.input_files, output_files |-> w.output_files,
          ffmpeg_command |-> w.ffmpeg_command, ffmpeg_commands |-> w.ffmpeg_commands,
          webhook |-> w.webhook, reference_id |-> w.reference_id]
  /\ IsOpt(w.input_files) /\ \A m \in w.input_files : IsMap(m)
  /\ IsMap(w.output_files) /\ IsSeq(w.ffmpeg_commands)

LEMMA PayloadBack ==
  ASSUME NEW w, IsWorkerRequest(w)
  PROVE  UnmarshalRequest(MarshalRequest(w)) = w
<1> DEFINE inputs == IF w.input_files = {} THEN JNull ELSE MapText(The(w.input_files), JStr)
           outputs == MapText(w.output_files, JStr)
           list == ListText(w.ffmpeg_commands, JStr)
           p1 == Field("input_files", inputs)
           p2 == Field("output_files", outputs)
           p3 == OmitEmpty("ffmpeg_command", w.ffmpeg_command, "", JStr(w.ffmpeg_command))
           p4 == OmitEmpty("ffmpeg_commands", w.ffmpeg_commands, <<>>, list)
           p5 == OmitEmpty("webhook", w.webhook, "", JStr(w.webhook))
           p6 == OmitEmpty("reference_id", w.reference_id, "", JStr(w.reference_id))
           fs == p1 \o p2 \o p3 \o p4 \o p5 \o p6
           j  == JObj(fs)
<1>1. MarshalRequest(w) = j
  BY DEF MarshalRequest
<1>2. /\ IsSeq(p1) /\ IsSeq(p2) /\ IsSeq(p3) /\ IsSeq(p4) /\ IsSeq(p5) /\ IsSeq(p6)
      /\ \A q : At(p1, q) = IF q = "input_files" THEN {inputs} ELSE {}
      /\ \A q : At(p2, q) = IF q = "output_files" THEN {outputs} ELSE {}
      /\ \A q : At(p3, q) = IF q = "ffmpeg_command" /\ w.ffmpeg_command # ""
                            THEN {JStr(w.ffmpeg_command)} ELSE {}
      /\ \A q : At(p4, q) = IF q = "ffmpeg_commands" /\ w.ffmpeg_commands # <<>>
                            THEN {list} ELSE {}
      /\ \A q : At(p5, q) = IF q = "webhook" /\ w.webhook # ""
                            THEN {JStr(w.webhook)} ELSE {}
      /\ \A q : At(p6, q) = IF q = "reference_id" /\ w.reference_id # ""
                            THEN {JStr(w.reference_id)} ELSE {}
  <2> HIDE DEF inputs, outputs, list
  <2> QED BY FieldPart, OmitPart
<1> HIDE DEF p1, p2, p3, p4, p5, p6
<1>3. IsSeq(fs) /\ \A q : At(fs, q) = At(p1, q) \cup At(p2, q) \cup At(p3, q)
                                     \cup At(p4, q) \cup At(p5, q) \cup At(p6, q)
  <2> DEFINE a == p1 \o p2 \o p3 \o p4 \o p5
  <2>0. IsSeq(p1) /\ IsSeq(p2) /\ IsSeq(p3) /\ IsSeq(p4) /\ IsSeq(p5) /\ IsSeq(p6)
    BY <1>2
  <2>1. IsSeq(a) /\ \A q : At(a, q) = At(p1, q) \cup At(p2, q) \cup At(p3, q)
                                      \cup At(p4, q) \cup At(p5, q)
    BY <2>0, FourMore
  <2> HIDE DEF a
  <2>2. IsSeq(a \o p6) /\ \A q : At(a \o p6, q) = At(a, q) \cup At(p6, q)
    BY <2>0, <2>1, ConcatParts
  <2> QED BY <2>1, <2>2 DEF a
<1> HIDE DEF fs
<1>4. /\ At(fs, "input_files") = {inputs}
      /\ At(fs, "output_files") = {outputs}
      /\ At(fs, "ffmpeg_commands") = IF w.ffmpeg_commands = <<>> THEN {} ELSE {list}
  <2> HIDE DEF inputs, outputs, list
  <2> QED BY <1>2, <1>3
<1>5. /\ At(fs, "ffmpeg_command")
           = IF w.ffmpeg_command = "" THEN {} ELSE {JStr(w.ffmpeg_command)}
      /\ At(fs, "webhook") = IF w.webhook = "" THEN {} ELSE {JStr(w.webhook)}
      /\ At(fs, "reference_id") = IF w.reference_id = "" THEN {} ELSE {JStr(w.reference_id)}
  <2> HIDE DEF inputs, outputs, list
  <2> QED BY <1>2, <1>3
<1>6. \A m : MapText(m, JStr) # JNull
  BY NotNull DEF MapText
<1>7. ZeroInputs(j, "input_files") = w.input_files
  <2>1. CASE w.input_files = {}
    BY <1>3, <1>4, <2>1, ZeroNull
  <2>2. CASE w.input_files # {}
    <3> DEFINE m == The(w.input_files)
    <3>1. w.input_files = {m} /\ IsMap(m)
      BY <2>2, OptionBack DEF IsWorkerRequest
    <3>2. At(fs, "input_files") = {MapText(m, JStr)}
      BY <1>4, <2>2
    <3>3. ZeroInputs(j, "input_files") = StringMap(MapText(m, JStr))
      <4> DEFINE x == MapText(m, JStr)
      <4>1. At(fs, "input_files") = {x} /\ x # JNull
        BY <1>6, <3>2
      <4> HIDE DEF x
      <4>2. ZeroInputs(j, "input_files") = StringMap(x)
        BY <1>3, <4>1, ReadOrZero
      <4> QED BY <4>2 DEF x
    <3>4. StringMap(MapText(m, JStr)) = {m}
      BY <3>1, StringMapBack DEF StringMap
    <3> QED BY <3>1, <3>3, <3>4
  <2> QED BY <2>1, <2>2
<1>8. ZeroOutputs(j, "output_files") = w.output_files
  <2>1. ZeroOutputs(j, "output_files") = The(StringMap(outputs))
    <3>1. outputs # JNull
      BY <1>6
    <3> HIDE DEF outputs
    <3>2. At(fs, "output_files") = {outputs} /\ IsSeq(fs)
      BY <1>3, <1>4
    <3> QED BY <3>1, <3>2, ReadOrZero
  <2>2. StringMap(outputs) = {w.output_files}
    BY StringMapBack DEF StringMap, IsWorkerRequest
  <2> QED BY <2>1, <2>2, TheOnly
<1>9. ZeroList(j, "ffmpeg_commands") = w.ffmpeg_commands
  <2>1. CASE w.ffmpeg_commands = <<>>
    BY <1>4, <2>1, ZeroMissing
  <2>2. CASE w.ffmpeg_commands # <<>>
    <3>1. list # JNull /\ list = StringList(w.ffmpeg_commands)
      BY NotNull DEF ListText, StringList
    <3>2. ZeroList(j, "ffmpeg_commands") = The(AsStringList(list))
      <4> HIDE DEF list
      <4>1. At(fs, "ffmpeg_commands") = {list} /\ IsSeq(fs) /\ list # JNull
        BY <1>3, <1>4, <2>2, <3>1
      <4> QED BY <4>1, ReadOrZero
    <3>3. AsStringList(list) = {w.ffmpeg_commands}
      BY <3>1, StringListBack DEF IsWorkerRequest
    <3> QED BY <3>2, <3>3, TheOnly
  <2> QED BY <2>1, <2>2
<1>10. /\ ZeroStr(j, "ffmpeg_command") = w.ffmpeg_command
       /\ ZeroStr(j, "webhook") = w.webhook
       /\ ZeroStr(j, "reference_id") = w.reference_id
  <2>1. IsSeq(fs)
    BY <1>3
  <2>2. ZeroStr(JObj(fs), "ffmpeg_command") = w.ffmpeg_command
    BY <1>5, <2>1, ZeroStrBack
  <2>3. ZeroStr(JObj(fs), "webhook") = w.webhook
    BY <1>5, <2>1, ZeroStrBack
  <2>4. ZeroStr(JObj(fs), "reference_id") = w.reference_id
    BY <1>5, <2>1, ZeroStrBack
  <2> QED BY <2>2, <2>3, <2>4
<1> HIDE DEF j
<1>11. UnmarshalRequest(j)
         = [input_files |-> ZeroInputs(j, "input_files"),
            output_files |-> ZeroOutputs(j, "output_files"),
            ffmpeg_command |-> ZeroStr(j, "ffmpeg_command"),
            ffmpeg_commands |-> ZeroList(j, "ffmpeg_commands"),
            webhook |-> ZeroStr(j, "webhook"), reference_id |-> ZeroStr(j, "reference_id")]
  BY DEF UnmarshalRequest, ZeroInputs, ZeroOutputs, ZeroStr, ZeroList
<1> QED BY <1>1, <1>7, <1>8, <1>9, <1>10, <1>11 DEF IsWorkerRequest

(***************************************************************************)
(* A request becomes a payload and is read from it again.                  *)
(***************************************************************************)
LEMMA CanonicalForm ==
  ASSUME NEW s, IsCommandRequest(s)
  PROVE  Canonical(s)
           = [input_files |-> s.input_files, output_files |-> s.output_files,
              ffmpeg_command |-> s.ffmpeg_command \ {""},
              ffmpeg_commands |-> s.ffmpeg_commands \ {<<>>},
              webhook |-> {UrlForm[u] : u \in s.webhook} \ {""},
              reference_id |-> s.reference_id \ {""}]
<1> DEFINE a1 == s.input_files
           a2 == s.output_files
           a3 == s.ffmpeg_command
           a4 == s.ffmpeg_commands
           a5 == s.webhook
           a6 == s.reference_id
           b3 == a3 \ {""}
           b4 == a4 \ {<<>>}
           b5 == {UrlForm[u] : u \in a5} \ {""}
           b6 == a6 \ {""}
           t0 == [input_files |-> a1, output_files |-> a2, ffmpeg_command |-> a3,
                  ffmpeg_commands |-> a4, webhook |-> a5, reference_id |-> a6]
           t1 == [input_files |-> a1, output_files |-> a2, ffmpeg_command |-> b3,
                  ffmpeg_commands |-> a4, webhook |-> a5, reference_id |-> a6]
           t2 == [input_files |-> a1, output_files |-> a2, ffmpeg_command |-> b3,
                  ffmpeg_commands |-> b4, webhook |-> a5, reference_id |-> a6]
           t3 == [input_files |-> a1, output_files |-> a2, ffmpeg_command |-> b3,
                  ffmpeg_commands |-> b4, webhook |-> b5, reference_id |-> a6]
           t4 == [input_files |-> a1, output_files |-> a2, ffmpeg_command |-> b3,
                  ffmpeg_commands |-> b4, webhook |-> b5, reference_id |-> b6]
<1>1. s = t0
  BY DEF IsCommandRequest
<1> HIDE DEF a1, a2, a3, a4, a5, a6
<1>2. [t0 EXCEPT !.ffmpeg_command = b3] = t1
  <2> HIDE DEF b3
  <2> QED OBVIOUS
<1>3. [t1 EXCEPT !.ffmpeg_commands = b4] = t2
  <2> HIDE DEF b3, b4
  <2> QED OBVIOUS
<1>4. [t2 EXCEPT !.webhook = b5] = t3
  <2> HIDE DEF b3, b4, b5
  <2> QED OBVIOUS
<1>5. [t3 EXCEPT !.reference_id = b6] = t4
  <2> HIDE DEF b3, b4, b5, b6
  <2> QED OBVIOUS
<1>6. /\ t0.ffmpeg_command = a3 /\ t1.ffmpeg_commands = a4 /\ t2.webhook = a5
      /\ t3.reference_id = a6
  <2> HIDE DEF b3, b4, b5, b6
  <2> QED OBVIOUS
<1> DEFINE u1 == [s EXCEPT !.ffmpeg_command = @ \ {""}]
           u2 == [u1 EXCEPT !.ffmpeg_commands = @ \ {<<>>}]
           u3 == [u2 EXCEPT !.webhook = {UrlForm[u] : u \in @} \ {""}]
           u4 == [u3 EXCEPT !.reference_id = @ \ {""}]
<1> HIDE DEF t0, t1, t2, t3, t4
<1>7. Canonical(s) = u4
  BY DEF Canonical
<1>8. u1 = t1
  BY <1>1, <1>2, <1>6
<1> HIDE DEF u1
<1>9. u2 = t2
  BY <1>3, <1>6, <1>8
<1> HIDE DEF u2
<1>10. u3 = t3
  BY <1>4, <1>6, <1>9
<1> HIDE DEF u3
<1>11. u4 = t4
  BY <1>5, <1>6, <1>10
<1> HIDE DEF u4
<1> QED BY <1>7, <1>11 DEF t4, a1, a2, a3, a4, a5, a6

LEMMA OptMinus ==
  ASSUME NEW o, IsOpt(o), NEW x, NEW p, p = o \ {x}
  PROVE  IsOpt(p)
BY DEF IsOpt

LEMMA OptElse ==
  ASSUME NEW o, IsOpt(o), NEW x, NEW v, v = IF o = {} THEN x ELSE The(o)
  PROVE  (o = {} /\ v = x) \/ o = {v}
BY OptionBack

LEMMA OptElseMinus ==
  ASSUME NEW o, IsOpt(o), NEW x
  PROVE  {IF o = {} THEN x ELSE The(o)} \ {x} = o \ {x}
<1> DEFINE v == IF o = {} THEN x ELSE The(o)
<1>1. (o = {} /\ v = x) \/ o = {v}
  BY OptElse
<1> QED BY <1>1

LEMMA EchoBack ==
  ASSUME UrlAssumption, NEW s, IsCommandRequest(s), WrittenAsUrl(s)
  PROVE  LET o == OriginalRequest(UnmarshalRequest(MarshalRequest(WorkerCommandRequest(s)))) IN
         o = Canonical(s) /\ IsCommandRequest(o) /\ WrittenAsUrl(o)
<1> DEFINE w == WorkerCommandRequest(s)
           o == OriginalRequest(w)
<1>1. /\ w.input_files = s.input_files
      /\ w.output_files = s.output_files
      /\ w.ffmpeg_command = IF s.ffmpeg_command = {} THEN "" ELSE The(s.ffmpeg_command)
      /\ w.ffmpeg_commands = IF s.ffmpeg_commands = {} THEN <<>> ELSE The(s.ffmpeg_commands)
      /\ w.webhook = IF s.webhook = {} THEN "" ELSE The(s.webhook)
      /\ w.reference_id = IF s.reference_id = {} THEN "" ELSE The(s.reference_id)
      /\ w = [input_files |-> w.input_files, output_files |-> w.output_files,
              ffmpeg_command |-> w.ffmpeg_command, ffmpeg_commands |-> w.ffmpeg_commands,
              webhook |-> w.webhook, reference_id |-> w.reference_id]
  BY DEF WorkerCommandRequest
<1> HIDE DEF w
<1>2. IsSeq(w.ffmpeg_commands)
  <2>1. CASE s.ffmpeg_commands = {}
    BY <1>1, <2>1, FieldPart
  <2>2. CASE s.ffmpeg_commands # {}
    <3>1. The(s.ffmpeg_commands) \in s.ffmpeg_commands
      BY <2>2, OptionBack DEF IsCommandRequest
    <3> QED BY <1>1, <2>2, <3>1, ListIsSeq DEF IsCommandRequest
  <2> QED BY <2>1, <2>2
<1>3. IsWorkerRequest(w)
  BY <1>1, <1>2 DEF IsWorkerRequest, IsCommandRequest
<1>4. UnmarshalRequest(MarshalRequest(w)) = w
  BY <1>3, PayloadBack
<1>5. /\ {w.ffmpeg_command} \ {""} = s.ffmpeg_command \ {""}
      /\ {w.ffmpeg_commands} \ {<<>>} = s.ffmpeg_commands \ {<<>>}
      /\ {w.reference_id} \ {""} = s.reference_id \ {""}
  <2>1. /\ IsOpt(s.ffmpeg_command) /\ IsOpt(s.ffmpeg_commands) /\ IsOpt(s.reference_id)
    BY DEF IsCommandRequest
  <2>2. {w.ffmpeg_command} \ {""} = s.ffmpeg_command \ {""}
    <3>1. {IF s.ffmpeg_command = {} THEN "" ELSE The(s.ffmpeg_command)} \ {""} = s.ffmpeg_command \ {""}
      BY <2>1, OptElseMinus
    <3> QED BY <1>1, <3>1
  <2>3. {w.ffmpeg_commands} \ {<<>>} = s.ffmpeg_commands \ {<<>>}
    <3>1. {IF s.ffmpeg_commands = {} THEN <<>> ELSE The(s.ffmpeg_commands)} \ {<<>>} = s.ffmpeg_commands \ {<<>>}
      BY <2>1, OptElseMinus
    <3> QED BY <1>1, <3>1
  <2>4. {w.reference_id} \ {""} = s.reference_id \ {""}
    <3>1. {IF s.reference_id = {} THEN "" ELSE The(s.reference_id)} \ {""} = s.reference_id \ {""}
      BY <2>1, OptElseMinus
    <3> QED BY <1>1, <3>1
  <2> QED BY <2>2, <2>3, <2>4
<1>6. \A u \in s.webhook : u \in DOMAIN UrlForm /\ UrlForm[u] = u
  <2>1. s.webhook \subseteq DOMAIN UrlForm /\ UrlWritten(s).webhook = s.webhook
    BY DEF WrittenAsUrl
  <2>2. UrlWritten(s).webhook = {UrlForm[u] : u \in s.webhook}
    BY DEF UrlWritten, IsCommandRequest
  <2>3. s.webhook = {} \/ s.webhook = {The(s.webhook)}
    BY OptionBack DEF IsCommandRequest
  <2> QED BY <2>1, <2>2, <2>3
<1>7. (IF w.webhook = "" THEN {} ELSE AsURI(JStr(w.webhook))) = s.webhook \ {""}
  <2>1. CASE s.webhook = {}
    BY <1>1, <2>1
  <2>2. CASE s.webhook # {}
    <3>1. s.webhook = {w.webhook}
      BY <1>1, <2>2, OptionBack DEF IsCommandRequest
    <3>2. AsURI(JStr(w.webhook)) = {w.webhook}
      BY <1>6, <3>1, ReadStr DEF AsURI
    <3> QED BY <3>1, <3>2
  <2> QED BY <2>1, <2>2
<1>8. {UrlForm[u] : u \in s.webhook} = s.webhook
  BY <1>6
<1>9. o = [input_files |-> s.input_files, output_files |-> s.output_files,
           ffmpeg_command |-> s.ffmpeg_command \ {""},
           ffmpeg_commands |-> s.ffmpeg_commands \ {<<>>},
           webhook |-> s.webhook \ {""}, reference_id |-> s.reference_id \ {""}]
  BY <1>1, <1>5, <1>7 DEF OriginalRequest
<1>10. o = Canonical(s)
  BY <1>8, <1>9, CanonicalForm
<1> HIDE DEF o
<1>11. /\ o.input_files = s.input_files /\ o.output_files = s.output_files
       /\ o.ffmpeg_command = s.ffmpeg_command \ {""}
       /\ o.ffmpeg_commands = s.ffmpeg_commands \ {<<>>}
       /\ o.webhook = s.webhook \ {""} /\ o.reference_id = s.reference_id \ {""}
       /\ o = [input_files |-> o.input_files, output_files |-> o.output_files,
               ffmpeg_command |-> o.ffmpeg_command, ffmpeg_commands |-> o.ffmpeg_commands,
               webhook |-> o.webhook, reference_id |-> o.reference_id]
  BY <1>9
<1>12. IsCommandRequest(o)
  <2>1. /\ IsOpt(o.ffmpeg_command) /\ IsOpt(o.ffmpeg_commands)
        /\ IsOpt(o.webhook) /\ IsOpt(o.reference_id)
    BY <1>11, OptMinus DEF IsCommandRequest
  <2>2. /\ IsMap(o.output_files)
        /\ IsOpt(o.input_files) /\ \A m \in o.input_files : IsMap(m)
    BY <1>11 DEF IsCommandRequest
  <2>3. \A l \in o.ffmpeg_commands : IsList(l)
    BY <1>11 DEF IsCommandRequest
  <2> QED BY <1>11, <2>1, <2>2, <2>3 DEF IsCommandRequest
<1>13. WrittenAsUrl(o)
  <2>1. o.webhook \subseteq DOMAIN UrlForm /\ {UrlForm[u] : u \in o.webhook} = o.webhook
    <3>1. \A u \in o.webhook : u \in DOMAIN UrlForm /\ UrlForm[u] = u
      BY <1>6, <1>11
    <3> QED BY <3>1
  <2>2. UrlWritten(o) = [o EXCEPT !.webhook = o.webhook]
    BY <2>1 DEF UrlWritten
  <2>3. [o EXCEPT !.webhook = o.webhook] = o
    BY <1>11
  <2> QED BY <2>1, <2>2, <2>3 DEF WrittenAsUrl
<1> QED BY <1>4, <1>10, <1>12, <1>13 DEF o, w

\* Writing the URL of the webhook twice changes nothing.
LEMMA CanonicalOfWritten ==
  ASSUME UrlAssumption, NEW s, IsCommandRequest(s), s.webhook \subseteq DOMAIN UrlForm
  PROVE  /\ IsCommandRequest(UrlWritten(s)) /\ WrittenAsUrl(UrlWritten(s))
         /\ Canonical(UrlWritten(s)) = Canonical(s)
<1> DEFINE z == UrlWritten(s)
           h == {UrlForm[u] : u \in s.webhook}
<1>1. /\ z = [input_files |-> z.input_files, output_files |-> z.output_files,
              ffmpeg_command |-> z.ffmpeg_command, ffmpeg_commands |-> z.ffmpeg_commands,
              webhook |-> z.webhook, reference_id |-> z.reference_id]
      /\ z.input_files = s.input_files /\ z.output_files = s.output_files
      /\ z.ffmpeg_command = s.ffmpeg_command /\ z.ffmpeg_commands = s.ffmpeg_commands
      /\ z.webhook = h /\ z.reference_id = s.reference_id
  <2> HIDE DEF h
  <2> QED BY DEF UrlWritten, IsCommandRequest, h
<1> HIDE DEF z
<1>2. IsOpt(h)
  <2>1. s.webhook = {} \/ s.webhook = {The(s.webhook)}
    BY OptionBack DEF IsCommandRequest
  <2>2. h = {} \/ h = {UrlForm[The(s.webhook)]}
    BY <2>1
  <2> QED BY <2>2 DEF IsOpt
<1>3. h \subseteq DOMAIN UrlForm /\ {UrlForm[u] : u \in h} = h
  BY DEF UrlAssumption
<1> HIDE DEF h
<1>4. IsCommandRequest(z)
  BY <1>1, <1>2 DEF IsCommandRequest
<1>5. WrittenAsUrl(z)
  <2>1. UrlWritten(z) = [z EXCEPT !.webhook = z.webhook]
    BY <1>1, <1>3 DEF UrlWritten
  <2>2. [z EXCEPT !.webhook = z.webhook] = z
    BY <1>1
  <2> QED BY <1>1, <1>3, <2>1, <2>2 DEF WrittenAsUrl
<1>6. Canonical(z) = Canonical(s)
  BY <1>1, <1>3, <1>4, CanonicalForm DEF h
<1> QED BY <1>4, <1>5, <1>6 DEF z

-----------------------------------------------------------------------------
(***************************************************************************)
(* The result.                                                             *)
(***************************************************************************)
LEMMA ZeroStrThere ==
  ASSUME NEW fs, IsSeq(fs), NEW k, NEW x, At(fs, k) = {JStr(x)}
  PROVE  ZeroStr(JObj(fs), k) = x
<1> DEFINE v == JStr(x)
<1>1. At(fs, k) = {v} /\ v # JNull
  BY NotNull
<1> HIDE DEF v
<1>2. Held(JObj(fs), k) # {} /\ Value(JObj(fs), Latest(Held(JObj(fs), k))) = v
  BY <1>1, Found
<1>3. ZeroStr(JObj(fs), k) = The(AsStr(v))
  BY <1>1, <1>2 DEF ZeroStr, OrZero
<1> QED BY <1>3, ReadStr, TheOnly DEF v

LEMMA ZeroFloatThere ==
  ASSUME NEW fs, IsSeq(fs), NEW k, NEW x, IsFloat(x), At(fs, k) = {x}
  PROVE  ZeroFloat(JObj(fs), k) = x
<1>1. x # JNull
  BY NotNull
<1>2. Held(JObj(fs), k) # {} /\ Value(JObj(fs), Latest(Held(JObj(fs), k))) = x
  BY Found
<1>3. ZeroFloat(JObj(fs), k) = The(AsFloat(x))
  BY <1>1, <1>2 DEF ZeroFloat, OrZero
<1> QED BY <1>3, TheOnly DEF AsFloat, IsFloat

LEMMA ZeroIntsOpt ==
  ASSUME NEW fs, IsSeq(fs), NEW k, NEW n,
         At(fs, k) = IF n = 0 THEN {} ELSE {JInt(n)}
  PROVE  IsOpt({i \in ZeroInts(JObj(fs), k) : i > 0})
<1>1. CASE n = 0
  BY <1>1, ZeroMissing DEF IsOpt
<1>2. CASE n # 0
  <2> DEFINE v == JInt(n)
  <2>1. At(fs, k) = {v} /\ v # JNull
    BY <1>2, NotNull
  <2> HIDE DEF v
  <2>2. Held(JObj(fs), k) # {} /\ Value(JObj(fs), Latest(Held(JObj(fs), k))) = v
    BY <2>1, Found
  <2>3. ZeroInts(JObj(fs), k) = AsInt(v)
    BY <2>1, <2>2, TheOnly DEF ZeroInts, OrZero, OptInt
  <2>4. ZeroInts(JObj(fs), k) = {n}
    BY <2>3 DEF v, AsInt, JInt
  <2> QED BY <2>4 DEF IsOpt
<1> QED BY <1>1, <1>2

LEMMA FileInfoRead ==
  ASSUME NEW f, IsFileReport(f)
  PROVE  \E x : /\ FileInfo(MarshalFile(f)) = {x}
               /\ IsOutputFileInfo(x) /\ ValidOutputFileInfo(x)
<1> DEFINE p1 == Field("file_id", JStr(f.file_id))
           p2 == Field("size_mbytes", FloatText(f.size_mbytes))
           p3 == Field("file_type", JStr(f.file_type))
           p4 == Field("file_format", JStr(f.file_format))
           p5 == Field("storage_url", JStr(f.storage_url))
           p6 == OmitEmpty("width", f.width, 0, JInt(f.width))
           p7 == OmitEmpty("height", f.height, 0, JInt(f.height))
           fs == p1 \o p2 \o p3 \o p4 \o p5 \o p6 \o p7
           j  == JObj(fs)
<1>1. MarshalFile(f) = j
  BY DEF MarshalFile
<1>2. /\ IsSeq(p1) /\ IsSeq(p2) /\ IsSeq(p3) /\ IsSeq(p4) /\ IsSeq(p5)
      /\ \A q : At(p1, q) = IF q = "file_id" THEN {JStr(f.file_id)} ELSE {}
      /\ \A q : At(p2, q) = IF q = "size_mbytes" THEN {f.size_mbytes} ELSE {}
      /\ \A q : At(p3, q) = IF q = "file_type" THEN {JStr(f.file_type)} ELSE {}
      /\ \A q : At(p4, q) = IF q = "file_format" THEN {JStr(f.file_format)} ELSE {}
      /\ \A q : At(p5, q) = IF q = "storage_url" THEN {JStr(f.storage_url)} ELSE {}
  BY FieldPart DEF FloatText
<1>3. /\ IsSeq(p6) /\ IsSeq(p7)
      /\ \A q : At(p6, q) = IF q = "width" /\ f.width # 0 THEN {JInt(f.width)} ELSE {}
      /\ \A q : At(p7, q) = IF q = "height" /\ f.height # 0 THEN {JInt(f.height)} ELSE {}
  BY OmitPart
<1> HIDE DEF p1, p2, p3, p4, p5, p6, p7
<1>4. IsSeq(fs) /\ \A q : At(fs, q) = At(p1, q) \cup At(p2, q) \cup At(p3, q) \cup At(p4, q)
                                     \cup At(p5, q) \cup At(p6, q) \cup At(p7, q)
  BY <1>2, <1>3, SevenParts
<1> HIDE DEF fs
<1>5. /\ At(fs, "file_id") = {JStr(f.file_id)}
      /\ At(fs, "size_mbytes") = {f.size_mbytes}
      /\ At(fs, "file_type") = {JStr(f.file_type)}
      /\ At(fs, "file_format") = {JStr(f.file_format)}
      /\ At(fs, "storage_url") = {JStr(f.storage_url)}
      /\ At(fs, "width") = IF f.width = 0 THEN {} ELSE {JInt(f.width)}
      /\ At(fs, "height") = IF f.height = 0 THEN {} ELSE {JInt(f.height)}
  BY <1>2, <1>3, <1>4
<1>6. ZeroStr(j, "file_type") = f.file_type
  BY <1>4, <1>5, ZeroStrThere
<1>7. ZeroFloat(j, "size_mbytes") = f.size_mbytes
  BY <1>4, <1>5, ZeroFloatThere DEF IsFileReport
<1>8. IsOpt({i \in ZeroInts(j, "width") : i > 0}) /\ IsOpt({i \in ZeroInts(j, "height") : i > 0})
  BY <1>4, <1>5, ZeroIntsOpt
<1> HIDE DEF j
<1>9. Positive(j, "width") = {i \in ZeroInts(j, "width") : i > 0}
  BY DEF Positive, ZeroInts
<1>10. Positive(j, "height") = {i \in ZeroInts(j, "height") : i > 0}
  BY DEF Positive, ZeroInts
<1> DEFINE x == [file_id     |-> ZeroStr(j, "file_id"),
                 size_mbytes |-> ZeroFloat(j, "size_mbytes"),
                 file_type   |-> ZeroStr(j, "file_type"),
                 file_format |-> ZeroStr(j, "file_format"),
                 storage_url |-> ZeroStr(j, "storage_url"),
                 width       |-> Positive(j, "width"),
                 height      |-> Positive(j, "height")]
<1>11. FileInfo(j) = {x}
  BY DEF FileInfo, ZeroStr, ZeroFloat
<1>12. IsOutputFileInfo(x)
  BY <1>7, <1>8, <1>9, <1>10 DEF IsOutputFileInfo, IsFileReport
<1>13. ValidOutputFileInfo(x)
  BY <1>6 DEF ValidOutputFileInfo, ValidFileType, IsFileReport
<1> HIDE DEF x
<1> QED BY <1>1, <1>11, <1>12, <1>13

LEMMA FileInfosRead ==
  ASSUME NEW m, IsMap(m), \A k \in DOMAIN m : IsFileReport(m[k])
  PROVE  \E x : /\ FileInfos(MapText(m, MarshalFile)) = {x}
               /\ IsStatusOutputFiles(x) /\ ValidStatusOutputFiles(x)
<1> DEFINE v == [k \in DOMAIN m |-> MarshalFile(m[k])]
           es == Entries(v)
           x == [k \in DOMAIN m |-> The(FileInfo(MarshalFile(m[k])))]
<1>1. DOMAIN v = DOMAIN m /\ IsFiniteSet(DOMAIN v)
  BY DEF IsMap
<1>2. MapText(m, MarshalFile) = JObj(es)
  <2>1. SetToSeq(DOMAIN m) \in Seq(DOMAIN m)
    BY <1>1, Enumerated
  <2>2. \A i \in DOMAIN SetToSeq(DOMAIN m) : SetToSeq(DOMAIN m)[i] \in DOMAIN m
    BY <2>1
  <2> QED BY <1>1, <2>2 DEF MapText, Entries
<1>3. /\ IsSeq(es) /\ Names(JObj(es)) = DOMAIN m
      /\ \A i \in DOMAIN es : es[i][1] \in DOMAIN m /\ es[i][2] = v[es[i][1]]
      /\ \A k \in DOMAIN m : At(es, k) = {MarshalFile(m[k])}
  BY <1>1, EntriesFacts
<1>4. \A k \in DOMAIN m :
        /\ FileInfo(MarshalFile(m[k])) = {x[k]}
        /\ IsOutputFileInfo(x[k]) /\ ValidOutputFileInfo(x[k])
  <2> SUFFICES ASSUME NEW k \in DOMAIN m
               PROVE  /\ FileInfo(MarshalFile(m[k])) = {x[k]}
                      /\ IsOutputFileInfo(x[k]) /\ ValidOutputFileInfo(x[k])
    OBVIOUS
  <2>1. PICK y : /\ FileInfo(MarshalFile(m[k])) = {y}
                 /\ IsOutputFileInfo(y) /\ ValidOutputFileInfo(y)
    BY FileInfoRead
  <2>2. x[k] = y
    BY <2>1, TheOnly
  <2> QED BY <2>1, <2>2
<1> HIDE DEF es
<1>5. JObj(es)[1] = "obj" /\ JObj(es)[2] = es
  BY DEF JObj
<1>6. ASSUME NEW i \in DOMAIN es PROVE FileInfo(Value(JObj(es), i)) # {}
  <2>1. Value(JObj(es), i) = MarshalFile(m[es[i][1]])
    BY <1>3, <1>5 DEF Value
  <2> HIDE DEF x
  <2> QED BY <1>3, <1>4, <2>1
<1>7. ASSUME NEW k \in DOMAIN m PROVE LastHeld(JObj(es), k, FileInfo) = FileInfo(MarshalFile(m[k]))
  <2> DEFINE u == MarshalFile(m[k])
  <2>1. IsSeq(es) /\ At(es, k) = {u}
    BY <1>3
  <2> HIDE DEF u
  <2>2. /\ Held(JObj(es), k) # {}
        /\ Value(JObj(es), Latest(Held(JObj(es), k))) = u
    BY <2>1, Found
  <2>3. LastHeld(JObj(es), k, FileInfo) = FileInfo(u)
    BY <2>2 DEF LastHeld
  <2> QED BY <2>3 DEF u
<1>8. FileInfos(JObj(es)) = {[k \in DOMAIN m |-> The(LastHeld(JObj(es), k, FileInfo))]}
  BY <1>3, <1>5, <1>6 DEF FileInfos, MapOf
<1>9. [k \in DOMAIN m |-> The(LastHeld(JObj(es), k, FileInfo))] = x
  BY <1>7
<1>10. x = [k \in DOMAIN x |-> x[k]] /\ DOMAIN x = DOMAIN m
  OBVIOUS
<1> HIDE DEF x
<1>11. IsStatusOutputFiles(x) /\ ValidStatusOutputFiles(x)
  BY <1>1, <1>4, <1>10 DEF IsStatusOutputFiles, ValidStatusOutputFiles, IsMap
<1> QED BY <1>2, <1>8, <1>9, <1>11

LEMMA ReportRead ==
  ASSUME NEW r, IsReport(r)
  PROVE  LET j == MarshalResult(r) IN
         /\ IsStatusOutputFiles(ZeroFiles(j, "output_files"))
         /\ ValidStatusOutputFiles(ZeroFiles(j, "output_files"))
         /\ IsFloat(ZeroFloat(j, "ffmpeg_command_run_seconds"))
         /\ IsFloat(ZeroFloat(j, "total_processing_seconds"))
<1> DEFINE files == MapText(r.output_files, MarshalFile)
           p1 == Field("output_files", files)
           p2 == Field("ffmpeg_command_run_seconds", FloatText(r.ffmpeg_command_run_seconds))
           p3 == Field("total_processing_seconds", FloatText(r.total_processing_seconds))
           p4 == Field("completed_at", JTime(r.completed_at))
           p5 == OmitEmpty("hardware_acceleration", r.hardware_acceleration, "",
                           JStr(r.hardware_acceleration))
           fs == p1 \o p2 \o p3 \o p4 \o p5
           j  == JObj(fs)
<1>1. MarshalResult(r) = j
  BY DEF MarshalResult
<1>2. files # JNull
  BY NotNull DEF MapText
<1>3. PICK x : FileInfos(files) = {x} /\ IsStatusOutputFiles(x) /\ ValidStatusOutputFiles(x)
  BY FileInfosRead DEF IsReport
<1> HIDE DEF files
<1>4. /\ IsSeq(p1) /\ IsSeq(p2) /\ IsSeq(p3) /\ IsSeq(p4) /\ IsSeq(p5)
      /\ \A q : At(p1, q) = IF q = "output_files" THEN {files} ELSE {}
      /\ \A q : At(p2, q) = IF q = "ffmpeg_command_run_seconds"
                            THEN {r.ffmpeg_command_run_seconds} ELSE {}
      /\ \A q : At(p3, q) = IF q = "total_processing_seconds"
                            THEN {r.total_processing_seconds} ELSE {}
      /\ \A q : At(p4, q) = IF q = "completed_at" THEN {JTime(r.completed_at)} ELSE {}
      /\ \A q : At(p5, q) = IF q = "hardware_acceleration" /\ r.hardware_acceleration # ""
                            THEN {JStr(r.hardware_acceleration)} ELSE {}
  BY FieldPart, OmitPart DEF FloatText
<1> HIDE DEF p1, p2, p3, p4, p5
<1>5. IsSeq(fs) /\ \A q : At(fs, q) = At(p1, q) \cup At(p2, q) \cup At(p3, q)
                                     \cup At(p4, q) \cup At(p5, q)
  <2>1. IsSeq(p1) /\ IsSeq(p2) /\ IsSeq(p3) /\ IsSeq(p4) /\ IsSeq(p5)
    BY <1>4
  <2> QED BY <2>1, FourMore
<1> HIDE DEF fs
<1>6. /\ At(fs, "output_files") = {files}
      /\ At(fs, "ffmpeg_command_run_seconds") = {r.ffmpeg_command_run_seconds}
      /\ At(fs, "total_processing_seconds") = {r.total_processing_seconds}
  BY <1>4, <1>5
<1>7. ZeroFiles(j, "output_files") = x
  <2>1. /\ Held(j, "output_files") # {}
        /\ Value(j, Latest(Held(j, "output_files"))) = files
    <3>1. IsSeq(fs) /\ At(fs, "output_files") = {files}
      BY <1>5, <1>6
    <3> QED BY <3>1, Found
  <2> HIDE DEF j
  <2>2. ZeroFiles(j, "output_files") = The(FileInfos(files))
    BY <1>2, <2>1 DEF ZeroFiles, OrZero
  <2> QED BY <1>3, <2>2, TheOnly
<1>8. ZeroFloat(j, "ffmpeg_command_run_seconds") = r.ffmpeg_command_run_seconds
  BY <1>5, <1>6, ZeroFloatThere DEF IsReport
<1>9. ZeroFloat(j, "total_processing_seconds") = r.total_processing_seconds
  BY <1>5, <1>6, ZeroFloatThere DEF IsReport
<1> HIDE DEF j
<1> QED BY <1>1, <1>3, <1>7, <1>8, <1>9 DEF IsReport

-----------------------------------------------------------------------------
(***************************************************************************)
(* A request that other clients wrote is decoded to one, too.              *)
(***************************************************************************)
LEMMA FiniteNames ==
  ASSUME NEW v, v[2] \in Seq(Range(v[2]))
  PROVE  IsFiniteSet(Names(v))
<1> DEFINE n == Len(v[2])
           f == [i \in 1 .. n |-> v[2][i][1]]
<1>1. n \in Nat /\ DOMAIN v[2] = 1 .. n
  OBVIOUS
<1>2. IsFiniteSet(1 .. n)
  BY <1>1, FS_Interval
<1>3. f \in Surjection(1 .. n, Names(v))
  <2>1. Names(v) = {f[i] : i \in 1 .. n}
    BY <1>1 DEF Names
  <2> HIDE DEF n
  <2> QED BY <2>1 DEF Surjection
<1> QED BY <1>2, <1>3, FS_Surjection

LEMMA MapOfIsMap ==
  ASSUME NEW v, IsNode(v), NEW m \in MapOf(v, AsStr)
  PROVE  IsMap(m)
<1>1. v[1] = "obj" /\ m = [k \in Names(v) |-> The(LastHeld(v, k, AsStr))]
  BY DEF MapOf
<1>2. IsFiniteSet(Names(v))
  BY <1>1, FiniteNames DEF IsNode
<1>3. DOMAIN m = Names(v) /\ m = [k \in DOMAIN m |-> m[k]]
  BY <1>1
<1> QED BY <1>2, <1>3 DEF IsMap

LEMMA HeldLatest ==
  ASSUME NEW j, IsDocument(j), j[1] = "obj", NEW k, Held(j, k) # {}
  PROVE  IsNode(Value(j, Latest(Held(j, k))))
<1>1. j[2] \in Seq(Range(j[2]))
  BY DEF IsDocument, IsNode
<1>2. Len(j[2]) \in Nat /\ Held(j, k) \subseteq 1 .. Len(j[2]) /\ DOMAIN j[2] = 1 .. Len(j[2])
  BY <1>1 DEF Held
<1>3. Latest(Held(j, k)) \in Held(j, k)
  BY <1>2, LatestFound
<1> QED BY <1>2, <1>3 DEF IsDocument, Value

LEMMA MergedIsMap ==
  ASSUME NEW j, IsDocument(j), NEW k, NEW m \in Merged(j, k, AsStr)
  PROVE  IsMap(m)
<1> DEFINE N == {Names(Value(j, i)) : i \in Held(j, k)}
<1>1. /\ j[1] = "obj" /\ \A i \in Held(j, k) : MapOf(Value(j, i), AsStr) # {}
      /\ DOMAIN m = UNION N /\ m = [q \in DOMAIN m |-> m[q]]
  BY DEF Merged
<1>2. /\ Len(j[2]) \in Nat /\ Held(j, k) \subseteq 1 .. Len(j[2])
      /\ DOMAIN j[2] = 1 .. Len(j[2])
  BY <1>1 DEF IsDocument, IsNode, Held
<1>3. \A i \in Held(j, k) : IsFiniteSet(Names(Value(j, i)))
  <2> SUFFICES ASSUME NEW i \in Held(j, k) PROVE IsFiniteSet(Names(Value(j, i)))
    OBVIOUS
  <2>1. IsNode(Value(j, i))
    BY <1>1, <1>2 DEF IsDocument, Value
  <2>2. Value(j, i)[1] = "obj"
    BY <1>1 DEF MapOf
  <2> QED BY <2>1, <2>2, FiniteNames DEF IsNode
<1>4. IsFiniteSet(Held(j, k))
  <2>1. IsFiniteSet(1 .. Len(j[2]))
    BY <1>2, FS_Interval
  <2>2. Held(j, k) \in SUBSET (1 .. Len(j[2]))
    BY <1>2
  <2> QED BY <2>1, <2>2, FS_Subset
<1>5. IsFiniteSet(N)
  <2> DEFINE f == [i \in Held(j, k) |-> Names(Value(j, i))]
  <2>1. f \in Surjection(Held(j, k), N)
    BY DEF Surjection
  <2> HIDE DEF f, N
  <2> QED BY <1>4, <2>1, FS_Surjection
<1>6. IsFiniteSet(UNION N)
  <2>1. \A T \in N : IsFiniteSet(T)
    BY <1>3
  <2> HIDE DEF N
  <2> QED BY <1>5, <2>1, FS_UNION
<1> QED BY <1>1, <1>6 DEF IsMap

LEMMA ReadUri ==
  ASSUME UrlAssumption, NEW v
  PROVE  /\ IsOpt(AsURI(v)) /\ AsURI(v) \subseteq DOMAIN UrlForm
         /\ \A u \in AsURI(v) : UrlForm[u] = u
<1>1. AsStr(v) = {} \/ AsStr(v) = {v[2]}
  BY DEF AsStr
<1>2. AsURI(v) = {} \/ AsURI(v) = {UrlForm[v[2]]}
  BY <1>1 DEF AsURI
<1>3. IsOpt(AsURI(v))
  BY <1>2 DEF IsOpt
<1>4. \A u \in AsURI(v) : \E x \in DOMAIN UrlForm : u = UrlForm[x]
  BY DEF AsURI
<1>5. AsURI(v) \subseteq DOMAIN UrlForm /\ \A u \in AsURI(v) : UrlForm[u] = u
  BY <1>4 DEF UrlAssumption
<1> QED BY <1>3, <1>5

LEMMA DecodedIsRequest ==
  ASSUME UrlAssumption, NEW j, IsDocument(j), NEW s \in DecodeCommandRequest(j)
  PROVE  IsCommandRequest(s) /\ WrittenAsUrl(s)
<1>1. /\ s = [input_files |-> s.input_files, output_files |-> s.output_files,
              ffmpeg_command |-> s.ffmpeg_command, ffmpeg_commands |-> s.ffmpeg_commands,
              webhook |-> s.webhook, reference_id |-> s.reference_id]
      /\ s.input_files \in DecodeOptInputFiles(j, "input_files")
      /\ s.output_files \in DecodeOutputFiles(j, "output_files")
      /\ s.ffmpeg_command \in DecodeOptString(j, "ffmpeg_command")
      /\ s.ffmpeg_commands \in DecodeOptStringList(j, "ffmpeg_commands")
      /\ s.webhook \in DecodeOptURI(j, "webhook")
      /\ s.reference_id \in DecodeOptString(j, "reference_id")
  BY DEF DecodeCommandRequest
<1> DEFINE Newest(k) == Value(j, Latest(Held(j, k)))
<1>2. IsOpt(s.input_files) /\ \A m \in s.input_files : IsMap(m)
  <2>1. /\ j[1] = "obj"
        /\ s.input_files = IF Held(j, "input_files") = {} THEN {}
                           ELSE MapOf(Newest("input_files"), AsStr)
    BY <1>1 DEF DecodeOptInputFiles, Optional, Clean, LastHeld, DecodeInputFiles
  <2>2. CASE Held(j, "input_files") = {}
    BY <2>1, <2>2 DEF IsOpt
  <2>3. CASE Held(j, "input_files") # {}
    <3>1. IsNode(Newest("input_files"))
      BY <2>1, <2>3, HeldLatest
    <3> HIDE DEF Newest
    <3>2. IsOpt(MapOf(Newest("input_files"), AsStr))
      BY DEF MapOf, IsOpt
    <3> QED BY <2>1, <2>3, <3>1, <3>2, MapOfIsMap
  <2> QED BY <2>2, <2>3
<1>3. IsMap(s.output_files)
  BY <1>1, MergedIsMap DEF DecodeOutputFiles
<1>4. IsOpt(s.ffmpeg_command) /\ IsOpt(s.reference_id)
  <2>1. \A v : IsOpt(AsStr(v)) /\ IsOpt({})
    BY DEF IsOpt, AsStr
  <2>2. \A k, o : o \in DecodeOptString(j, k) => IsOpt(o)
    BY <2>1 DEF DecodeOptString, Optional, LastHeld
  <2> QED BY <1>1, <2>2
<1>5. IsOpt(s.ffmpeg_commands) /\ \A l \in s.ffmpeg_commands : IsList(l)
  <2>1. /\ j[1] = "obj"
        /\ s.ffmpeg_commands = IF Held(j, "ffmpeg_commands") = {} THEN {}
                               ELSE AsStringList(Newest("ffmpeg_commands"))
    BY <1>1 DEF DecodeOptStringList, Optional, Clean, LastHeld
  <2>2. CASE Held(j, "ffmpeg_commands") = {}
    BY <2>1, <2>2 DEF IsOpt
  <2>3. CASE Held(j, "ffmpeg_commands") # {}
    <3> DEFINE v == Newest("ffmpeg_commands")
    <3>1. IsNode(v)
      BY <2>1, <2>3, HeldLatest
    <3> HIDE DEF v
    <3>2. IsOpt(AsStringList(v))
      BY DEF AsStringList, ListOf, IsOpt
    <3>3. ASSUME NEW l \in AsStringList(v) PROVE IsSeq(l)
      <4>1. v[1] = "arr" /\ l = [i \in DOMAIN v[2] |-> The(AsStr(v[2][i]))]
        BY DEF AsStringList, ListOf
      <4>2. v[2] \in Seq(Range(v[2]))
        BY <3>1, <4>1 DEF IsNode
      <4>3. Len(v[2]) \in Nat /\ DOMAIN v[2] = 1 .. Len(v[2])
        BY <4>2
      <4>4. l \in Seq({The(AsStr(v[2][i])) : i \in DOMAIN v[2]})
        BY <4>1, <4>3
      <4> QED BY <4>4 DEF IsSeq
    <3> QED BY <2>1, <2>3, <3>2, <3>3, ListIsSeq DEF v
  <2> QED BY <2>2, <2>3
<1>6. /\ IsOpt(s.webhook) /\ s.webhook \subseteq DOMAIN UrlForm
      /\ \A u \in s.webhook : UrlForm[u] = u
  <2>1. s.webhook = IF Held(j, "webhook") = {} THEN {} ELSE AsURI(Newest("webhook"))
    BY <1>1 DEF DecodeOptURI, Optional, LastHeld
  <2>2. CASE Held(j, "webhook") = {}
    BY <2>1, <2>2 DEF IsOpt
  <2>3. CASE Held(j, "webhook") # {}
    <3> HIDE DEF Newest
    <3> QED BY <2>1, <2>3, ReadUri
  <2> QED BY <2>2, <2>3
<1>7. IsCommandRequest(s)
  BY <1>1, <1>2, <1>3, <1>4, <1>5, <1>6 DEF IsCommandRequest
<1>8. WrittenAsUrl(s)
  <2>1. {UrlForm[u] : u \in s.webhook} = s.webhook
    BY <1>6
  <2>2. UrlWritten(s) = [s EXCEPT !.webhook = s.webhook]
    BY <2>1 DEF UrlWritten
  <2>3. [s EXCEPT !.webhook = s.webhook] = s
    BY <1>1
  <2> QED BY <1>6, <2>2, <2>3 DEF WrittenAsUrl
<1> QED BY <1>7, <1>8

-----------------------------------------------------------------------------
(***************************************************************************)
(* What a status says of a command.                                        *)
(***************************************************************************)
\* What payload and result hold.
Carried ==
  \A t \in Tasks :
    /\ results[t] = {} \/ \E r \in Results : results[t] = {MarshalResult(r)}
    /\ \/ payload[t] = {} /\ asked[t] = {}
       \/ \E s, s0 :
            /\ IsCommandRequest(s) /\ WrittenAsUrl(s)
            /\ Canonical(s) = Canonical(s0)
            /\ payload[t] = {MarshalRequest(WorkerCommandRequest(s))}
            /\ asked[t] = {s0}

\* A status of the right shape that says of its command what was asked for.
Tells(s) ==
  /\ IsStatus(s) /\ ValidCommandStatus(s)
  /\ s.command_id \in Tasks
  /\ s.original_request = {Canonical(s0) : s0 \in asked[s.command_id]}

LEMMA FullStatusTells ==
  ASSUME UrlAssumption, ServerAssumption, Carried,
         NEW t \in Tasks, NEW list, NEW status \in Statuses
  PROVE  Tells(FullStatus(t, list, status)) /\ FullStatus(t, list, status).command_id = t
<1> DEFINE s == FullStatus(t, list, status)
           original == {OriginalRequest(UnmarshalRequest(j)) : j \in payload[t]}
           files == {ZeroFiles(r, "output_files") : r \in results[t]}
           run == {ZeroFloat(r, "ffmpeg_command_run_seconds") : r \in results[t]}
           total == {ZeroFloat(r, "total_processing_seconds") : r \in results[t]}
           completed == {ZeroTimes(r, "completed_at") : r \in results[t]} \ {ZeroTime}
           error == {lastErr[t]} \ {NoError}
<1>1. s = [command_id |-> t, status |-> status, output_files |-> files,
           original_request |-> original, ffmpeg_command_run_seconds |-> run,
           total_processing_seconds |-> total, error |-> error,
           created_at |-> NextProcessAt(list), completed_at |-> completed]
  BY DEF FullStatus, ZeroFiles, ZeroFloat, ZeroTimes
<1>2. /\ IsOpt(original) /\ \A r \in original : IsCommandRequest(r) /\ WrittenAsUrl(r)
      /\ original = {Canonical(s0) : s0 \in asked[t]}
  <2>1. CASE payload[t] = {} /\ asked[t] = {}
    BY <2>1 DEF IsOpt
  <2>2. CASE ~(payload[t] = {} /\ asked[t] = {})
    <3>1. PICK q, q0 : /\ IsCommandRequest(q) /\ WrittenAsUrl(q)
                       /\ Canonical(q) = Canonical(q0)
                       /\ payload[t] = {MarshalRequest(WorkerCommandRequest(q))}
                       /\ asked[t] = {q0}
      BY <2>2 DEF Carried
    <3> DEFINE o == OriginalRequest(UnmarshalRequest(MarshalRequest(WorkerCommandRequest(q))))
    <3>2. o = Canonical(q0) /\ IsCommandRequest(o) /\ WrittenAsUrl(o)
      BY <3>1, EchoBack
    <3>3. original = {o}
      BY <3>1
    <3> HIDE DEF o, original
    <3>4. {Canonical(s0) : s0 \in asked[t]} = {Canonical(q0)}
      BY <3>1
    <3> QED BY <3>2, <3>3, <3>4 DEF IsOpt
  <2> QED BY <2>1, <2>2
<1>3. /\ IsOpt(files) /\ \A m \in files : IsStatusOutputFiles(m) /\ ValidStatusOutputFiles(m)
      /\ IsOpt(run) /\ \A f \in run : IsFloat(f)
      /\ IsOpt(total) /\ \A f \in total : IsFloat(f)
      /\ IsOpt(completed)
  <2>1. CASE results[t] = {}
    BY <2>1 DEF IsOpt
  <2>2. CASE results[t] # {}
    <3>1. PICK r \in Results : results[t] = {MarshalResult(r)}
      BY <2>2 DEF Carried
    <3>2. IsReport(r)
      BY DEF ServerAssumption
    <3> DEFINE j == MarshalResult(r)
    <3>3. /\ IsStatusOutputFiles(ZeroFiles(j, "output_files"))
          /\ ValidStatusOutputFiles(ZeroFiles(j, "output_files"))
          /\ IsFloat(ZeroFloat(j, "ffmpeg_command_run_seconds"))
          /\ IsFloat(ZeroFloat(j, "total_processing_seconds"))
      BY <3>2, ReportRead
    <3> HIDE DEF j
    <3>4. results[t] = {j}
      BY <3>1 DEF j
    <3>5. files = {ZeroFiles(j, "output_files")}
      BY <3>4
    <3>6. run = {ZeroFloat(j, "ffmpeg_command_run_seconds")}
      BY <3>4
    <3>7. total = {ZeroFloat(j, "total_processing_seconds")}
      BY <3>4
    <3>8. completed = {ZeroTimes(j, "completed_at")} \ {ZeroTime}
      BY <3>4
    <3> HIDE DEF files, run, total, completed
    <3> QED BY <3>3, <3>5, <3>6, <3>7, <3>8 DEF IsOpt
  <2> QED BY <2>1, <2>2
<1>4. IsOpt(error)
  BY DEF IsOpt
<1> HIDE DEF s, original, files, run, total, completed, error
<1>5. /\ s.output_files = files /\ s.original_request = original
      /\ s.ffmpeg_command_run_seconds = run /\ s.total_processing_seconds = total
      /\ s.error = error /\ s.completed_at = completed
      /\ s.command_id = t /\ s.status = status
      /\ s = [command_id |-> s.command_id, status |-> s.status,
              output_files |-> s.output_files, original_request |-> s.original_request,
              ffmpeg_command_run_seconds |-> s.ffmpeg_command_run_seconds,
              total_processing_seconds |-> s.total_processing_seconds, error |-> s.error,
              created_at |-> s.created_at, completed_at |-> s.completed_at]
  BY <1>1
<1>6. IsCommandStatus(s)
  BY <1>2, <1>3, <1>4, <1>5 DEF IsCommandStatus
<1>7. IsStatus(s)
  BY <1>2, <1>5, <1>6 DEF IsStatus
<1>8. ValidCommandStatus(s)
  BY <1>3, <1>5 DEF ValidCommandStatus, ValidStatus, Statuses, StatusEnum
<1> QED BY <1>2, <1>5, <1>7, <1>8 DEF Tells, s

-----------------------------------------------------------------------------
(***************************************************************************)
(* Answers: what the client reads is what the handler answered.            *)
(***************************************************************************)
LEMMA OurMedia == MediaType(OurType) = {"application/json"}
BY DEF MediaType, OurType

LEMMA CreateAnswer ==
  /\ \A x : IsCommandResponse(x) /\ x.status \in StatusEnum =>
       decodeResponse("CreateCommand", encodeCreateCommandResponse(<<"CommandResponse", x>>))
         = {<<"CommandResponse", x>>}
  /\ \A e : LET a == <<"CreateCommandBadRequest", [error |-> e]>> IN
       decodeResponse("CreateCommand", encodeCreateCommandResponse(a)) = {a}
  /\ \A e : LET a == <<"CreateCommandInternalServerError", [error |-> e]>> IN
       decodeResponse("CreateCommand", encodeCreateCommandResponse(a)) = {a}
<1>1. ASSUME NEW x, IsCommandResponse(x), x.status \in StatusEnum
      PROVE  decodeResponse("CreateCommand",
                            encodeCreateCommandResponse(<<"CommandResponse", x>>))
               = {<<"CommandResponse", x>>}
  <2> DEFINE j == EncodeCommandResponse(x)
             w == [code |-> 202, ctype |-> OurType, body |-> {j}]
  <2>1. encodeCreateCommandResponse(<<"CommandResponse", x>>) = w
    BY DEF encodeCreateCommandResponse, Json
  <2>2. DecodeCommandResponse(j) = {x}
    BY <1>1, CommandResponseBack
  <2> HIDE DEF j
  <2>3. ReadBody(w, DecodeCommandResponse, ValidCommandResponse) = {x}
    BY <1>1, <2>2, OurMedia DEF ReadBody, ValidCommandResponse, ValidResponseStatus
  <2>4. decodeResponse("CreateCommand", w) = decodeCreateCommandResponse(w)
    BY DEF decodeResponse
  <2>5. decodeCreateCommandResponse(w)
          = As("CommandResponse", ReadBody(w, DecodeCommandResponse, ValidCommandResponse))
    BY DEF decodeCreateCommandResponse
  <2>6. As("CommandResponse", {x}) = {<<"CommandResponse", x>>}
    BY DEF As
  <2> HIDE DEF w
  <2> QED BY <2>1, <2>3, <2>4, <2>5, <2>6
<1>2. ASSUME NEW e
      PROVE  LET a == <<"CreateCommandBadRequest", [error |-> e]>> IN
             decodeResponse("CreateCommand", encodeCreateCommandResponse(a)) = {a}
  <2> DEFINE x == [error |-> e]
             j == EncodeErrorResponse(x)
             w == [code |-> 400, ctype |-> OurType, body |-> {j}]
  <2>1. encodeCreateCommandResponse(<<"CreateCommandBadRequest", x>>) = w
    BY DEF encodeCreateCommandResponse, Json, EncodeCreateCommandBadRequest
  <2>2. DecodeCreateCommandBadRequest(j) = {x}
    BY ErrorResponseBack DEF DecodeCreateCommandBadRequest
  <2> HIDE DEF j, x
  <2>3. ReadBody(w, DecodeCreateCommandBadRequest, Unchecked) = {x}
    BY <2>2, OurMedia DEF ReadBody, Unchecked
  <2>4. decodeResponse("CreateCommand", w) = decodeCreateCommandResponse(w)
    BY DEF decodeResponse
  <2>5. decodeCreateCommandResponse(w)
          = As("CreateCommandBadRequest", ReadBody(w, DecodeCreateCommandBadRequest, Unchecked))
    BY DEF decodeCreateCommandResponse
  <2>6. As("CreateCommandBadRequest", {x}) = {<<"CreateCommandBadRequest", x>>}
    BY DEF As
  <2> HIDE DEF w
  <2>7. decodeResponse("CreateCommand",
                       encodeCreateCommandResponse(<<"CreateCommandBadRequest", x>>))
          = {<<"CreateCommandBadRequest", x>>}
    BY <2>1, <2>3, <2>4, <2>5, <2>6
  <2> QED BY <2>7 DEF x
<1>3. ASSUME NEW e
      PROVE  LET a == <<"CreateCommandInternalServerError", [error |-> e]>> IN
             decodeResponse("CreateCommand", encodeCreateCommandResponse(a)) = {a}
  <2> DEFINE x == [error |-> e]
             j == EncodeErrorResponse(x)
             w == [code |-> 500, ctype |-> OurType, body |-> {j}]
  <2>1. encodeCreateCommandResponse(<<"CreateCommandInternalServerError", x>>) = w
    BY DEF encodeCreateCommandResponse, Json, EncodeCreateCommandInternalServerError
  <2>2. DecodeCreateCommandInternalServerError(j) = {x}
    BY ErrorResponseBack DEF DecodeCreateCommandInternalServerError
  <2> HIDE DEF j, x
  <2>3. ReadBody(w, DecodeCreateCommandInternalServerError, Unchecked) = {x}
    BY <2>2, OurMedia DEF ReadBody, Unchecked
  <2>4. decodeResponse("CreateCommand", w) = decodeCreateCommandResponse(w)
    BY DEF decodeResponse
  <2>5. decodeCreateCommandResponse(w)
          = As("CreateCommandInternalServerError",
               ReadBody(w, DecodeCreateCommandInternalServerError, Unchecked))
    BY DEF decodeCreateCommandResponse
  <2>6. As("CreateCommandInternalServerError", {x})
          = {<<"CreateCommandInternalServerError", x>>}
    BY DEF As
  <2> HIDE DEF w
  <2>7. decodeResponse("CreateCommand",
                       encodeCreateCommandResponse(<<"CreateCommandInternalServerError", x>>))
          = {<<"CreateCommandInternalServerError", x>>}
    BY <2>1, <2>3, <2>4, <2>5, <2>6
  <2> QED BY <2>7 DEF x
<1> QED BY <1>1, <1>2, <1>3

LEMMA RoundedIs == ASSUME NEW s PROVE Rounded(s) = InSeconds(s)
BY DEF Rounded, InSeconds

\* Rounding the times changes nothing else.
LEMMA RoundedKeeps ==
  ASSUME NEW s, IsCommandStatus(s)
  PROVE  /\ Rounded(s).command_id = s.command_id
         /\ Rounded(s).status = s.status
         /\ Rounded(s).output_files = s.output_files
         /\ Rounded(s).original_request = s.original_request
BY DEF Rounded, IsCommandStatus

LEMMA GetAnswer ==
  /\ \A x : IsStatus(x) /\ ValidCommandStatus(x) =>
       decodeResponse("GetCommand", encodeGetCommandResponse(<<"CommandStatus", x>>))
         = {<<"CommandStatus", Rounded(x)>>}
  /\ \A e : LET a == <<"GetCommandNotFound", [error |-> e]>> IN
       decodeResponse("GetCommand", encodeGetCommandResponse(a)) = {a}
<1>1. ASSUME NEW x, IsStatus(x), ValidCommandStatus(x)
      PROVE  decodeResponse("GetCommand", encodeGetCommandResponse(<<"CommandStatus", x>>))
               = {<<"CommandStatus", Rounded(x)>>}
  <2> DEFINE j == EncodeCommandStatus(x)
             w == [code |-> 200, ctype |-> OurType, body |-> {j}]
             y == Rounded(x)
  <2>1. encodeGetCommandResponse(<<"CommandStatus", x>>) = w
    BY DEF encodeGetCommandResponse, Json
  <2>2. DecodeCommandStatus(j) = {y}
    BY <1>1, CommandStatusBack, RoundedIs DEF IsStatus
  <2>3. ValidCommandStatus(y)
    BY <1>1, RoundedKeeps DEF ValidCommandStatus, IsStatus
  <2> HIDE DEF j, y
  <2>4. ReadBody(w, DecodeCommandStatus, ValidCommandStatus) = {y}
    BY <2>2, <2>3, OurMedia DEF ReadBody
  <2>5. decodeResponse("GetCommand", w) = decodeGetCommandResponse(w)
    BY DEF decodeResponse
  <2>6. decodeGetCommandResponse(w)
          = As("CommandStatus", ReadBody(w, DecodeCommandStatus, ValidCommandStatus))
    BY DEF decodeGetCommandResponse
  <2>7. As("CommandStatus", {y}) = {<<"CommandStatus", y>>}
    BY DEF As
  <2> HIDE DEF w
  <2>8. decodeResponse("GetCommand", encodeGetCommandResponse(<<"CommandStatus", x>>))
          = {<<"CommandStatus", y>>}
    BY <2>1, <2>4, <2>5, <2>6, <2>7
  <2> QED BY <2>8 DEF y
<1>2. ASSUME NEW e
      PROVE  LET a == <<"GetCommandNotFound", [error |-> e]>> IN
             decodeResponse("GetCommand", encodeGetCommandResponse(a)) = {a}
  <2> DEFINE x == [error |-> e]
             j == EncodeErrorResponse(x)
             w == [code |-> 404, ctype |-> OurType, body |-> {j}]
  <2>1. encodeGetCommandResponse(<<"GetCommandNotFound", x>>) = w
    BY DEF encodeGetCommandResponse, Json, EncodeGetCommandNotFound
  <2>2. DecodeGetCommandNotFound(j) = {x}
    BY ErrorResponseBack DEF DecodeGetCommandNotFound
  <2> HIDE DEF j, x
  <2>3. ReadBody(w, DecodeGetCommandNotFound, Unchecked) = {x}
    BY <2>2, OurMedia DEF ReadBody, Unchecked
  <2>4. decodeResponse("GetCommand", w) = decodeGetCommandResponse(w)
    BY DEF decodeResponse
  <2>5. decodeGetCommandResponse(w)
          = As("GetCommandNotFound", ReadBody(w, DecodeGetCommandNotFound, Unchecked))
    BY DEF decodeGetCommandResponse
  <2>6. As("GetCommandNotFound", {x}) = {<<"GetCommandNotFound", x>>}
    BY DEF As
  <2> HIDE DEF w
  <2>7. decodeResponse("GetCommand", encodeGetCommandResponse(<<"GetCommandNotFound", x>>))
          = {<<"GetCommandNotFound", x>>}
    BY <2>1, <2>3, <2>4, <2>5, <2>6
  <2> QED BY <2>7 DEF x
<1> QED BY <1>1, <1>2

LEMMA HealthAnswer ==
  LET a == <<"HealthResponse", [status |-> "ok"]>> IN
  decodeResponse("HealthCheck", encodeHealthCheckResponse(a)) = {a}
<1> DEFINE x == [status |-> "ok"]
           j == EncodeHealthResponse(x)
           w == [code |-> 200, ctype |-> OurType, body |-> {j}]
<1>1. encodeHealthCheckResponse(<<"HealthResponse", x>>) = w
  BY DEF encodeHealthCheckResponse, Json
<1>2. DecodeHealthResponse(j) = {x}
  BY HealthResponseBack
<1> HIDE DEF j, x
<1>3. ReadBody(w, DecodeHealthResponse, Unchecked) = {x}
  BY <1>2, OurMedia DEF ReadBody, Unchecked
<1>4. decodeResponse("HealthCheck", w)
        = As("HealthResponse", ReadBody(w, DecodeHealthResponse, Unchecked))
  BY DEF decodeResponse, decodeHealthCheckResponse
<1>5. As("HealthResponse", {x}) = {<<"HealthResponse", x>>}
  BY DEF As
<1> HIDE DEF w
<1>6. decodeResponse("HealthCheck", encodeHealthCheckResponse(<<"HealthResponse", x>>))
        = {<<"HealthResponse", x>>}
  BY <1>1, <1>3, <1>4, <1>5
<1> QED BY <1>6 DEF x

LEMMA OpenAPIAnswer ==
  decodeResponse("GetOpenAPI",
                 [code |-> 200, ctype |-> "application/json", body |-> {JObj(<<>>)}])
    = {<<"GetOpenAPIOK", "document">>}
<1> DEFINE w == [code |-> 200, ctype |-> "application/json", body |-> {JObj(<<>>)}]
<1>1. MediaType("application/json") = {"application/json"}
  BY DEF MediaType, OurType
<1>2. DecodeGetOpenAPIOK(JObj(<<>>)) = {"document"}
  BY DEF DecodeGetOpenAPIOK, JObj
<1>3. ReadBody(w, DecodeGetOpenAPIOK, Unchecked) = {"document"}
  BY <1>1, <1>2 DEF ReadBody, Unchecked
<1>4. decodeResponse("GetOpenAPI", w)
        = As("GetOpenAPIOK", ReadBody(w, DecodeGetOpenAPIOK, Unchecked))
  BY DEF decodeResponse, decodeGetOpenAPIResponse
<1>5. As("GetOpenAPIOK", {"document"}) = {<<"GetOpenAPIOK", "document">>}
  BY DEF As
<1> HIDE DEF w
<1> QED BY <1>3, <1>4, <1>5 DEF w

LEMMA ListAnswer ==
  ASSUME NEW l, IsSeq(l), \A i \in DOMAIN l : IsStatus(l[i]) /\ ValidCommandStatus(l[i]), NEW n
  PROVE  LET a == <<"CommandListResponse", [commands |-> l, total |-> n]>>
             z == <<"CommandListResponse",
                    [commands |-> [i \in DOMAIN l |-> Rounded(l[i])], total |-> n]>>
         IN  decodeResponse("ListCommands", encodeListCommandsResponse(a)) = {z} /\ Read(a) = z
<1> DEFINE x == [commands |-> l, total |-> n]
           k == [i \in DOMAIN l |-> Rounded(l[i])]
           y == [commands |-> k, total |-> n]
           j == EncodeCommandListResponse(x)
           w == [code |-> 200, ctype |-> OurType, body |-> {j}]
           a == <<"CommandListResponse", x>>
           z == <<"CommandListResponse", y>>
<1>1. encodeListCommandsResponse(a) = w
  BY DEF encodeListCommandsResponse, Json
<1>2. DecodeCommandListResponse(j) = {y}
  <2>1. k = [i \in DOMAIN l |-> InSeconds(l[i])]
    BY RoundedIs
  <2> HIDE DEF k
  <2> QED BY <2>1, CommandListResponseBack
<1>3. \A i \in DOMAIN l : ValidCommandStatus(k[i])
  BY RoundedKeeps DEF ValidCommandStatus, IsStatus
<1>4. DOMAIN k = DOMAIN l
  OBVIOUS
<1>5. Read(a) = z
  <2>1. Read(a) = <<"CommandListResponse", [x EXCEPT !.commands = k]>>
    <3>1. a[1] = "CommandListResponse" /\ a[2] = x /\ x.commands = l
      OBVIOUS
    <3> HIDE DEF a, x
    <3> QED BY <3>1 DEF Read
  <2>2. [x EXCEPT !.commands = k] = y
    <3> HIDE DEF k
    <3> QED OBVIOUS
  <2> QED BY <2>1, <2>2
<1> HIDE DEF j, k
<1>6. ValidCommandListResponse(y)
  BY <1>3, <1>4 DEF ValidCommandListResponse
<1> HIDE DEF y
<1>7. ReadBody(w, DecodeCommandListResponse, ValidCommandListResponse) = {y}
  BY <1>2, <1>6, OurMedia DEF ReadBody
<1>8. decodeResponse("ListCommands", w)
        = As("CommandListResponse",
             ReadBody(w, DecodeCommandListResponse, ValidCommandListResponse))
  BY DEF decodeResponse, decodeListCommandsResponse
<1>9. As("CommandListResponse", {y}) = {z}
  BY DEF As
<1> HIDE DEF w, a, z
<1>10. decodeResponse("ListCommands", encodeListCommandsResponse(a)) = {z}
  BY <1>1, <1>7, <1>8, <1>9
<1> QED BY <1>5, <1>10 DEF a, z, x, y, k

\* No other answer has a status.
LEMMA OtherAnswers ==
  ASSUME NEW op, NEW w, w.code # 200
  PROVE  \A g \in decodeResponse(op, w) : StatusesIn(g) = {}
<1> SUFFICES ASSUME NEW g \in decodeResponse(op, w) PROVE StatusesIn(g) = {}
  OBVIOUS
<1>1. g[1] \in {"CommandResponse", "CreateCommandBadRequest",
                "CreateCommandInternalServerError", "GetCommandBadRequest",
                "GetCommandNotFound"}
  BY DEF decodeResponse, decodeCreateCommandResponse, decodeGetCommandResponse,
         decodeGetOpenAPIResponse, decodeHealthCheckResponse, decodeListCommandsResponse, As
<1> QED BY <1>1 DEF StatusesIn

-----------------------------------------------------------------------------
(***************************************************************************)
(* What is answered.                                                       *)
(***************************************************************************)
USE QueueAssumption, ApiAssumption

Succeeded(t) == state[t] \in {"completed", "deleted"} /\ lastErr[t] = NoError

\* What GetCommand would answer now, and ListCommands if it read t now.
Status(t) == TaskToStatus(t, StateToStatus(state[t]))
Entry(t)  == [id |-> t, list |-> state[t], status |-> Status(t)]

\* An archived command has an error.
DeadHasError == \A t \in Tasks : state[t] = "archived" => lastErr[t] # NoError

\* The entries gathered are still true where the answer relies on them.
PageTrue ==
  \A l \in Conns : \A e \in page[l] :
    /\ e.status = "SUCCESS" => Succeeded(e.id)
    /\ e.status \in {"FAILED", "RETRYING"} => lastErr[e.id] # NoError

ToldTrue ==
  \A t \in Tasks :
    /\ "SUCCESS" \in told[t] => Succeeded(t)
    /\ reply[t] = "202" => state[t] # "absent"
    /\ "404" \in told[t] => state[t] = "deleted" \/ t \in unread

\* Of a command that has not moved, a call has one entry once it has read
\* the list it is in.
SteadyListed ==
  \A l \in Conns :
    /\ cursor[l] = 0 => page[l] = {}
    /\ \A t \in steady[l] :
         /\ cursor[l] > 0 => state[t] \notin {"absent", "deleted"}
         /\ \A e \in page[l] : e.id = t => e = Entry(t)
         /\ (\E i \in 1 .. cursor[l] : Lists[i] = state[t]) => Entry(t) \in page[l]

ApiInv == ApiTypeOK /\ DeadHasError /\ PageTrue /\ ToldTrue /\ SteadyListed

LEMMA ApiInvInit == ApiInit => ApiInv
<1> SUFFICES ASSUME ApiInit PROVE ApiInv
  OBVIOUS
<1>1. QueueTypeOK
  BY DEF ApiInit, QueueInit, QueueTypeOK, States
<1>2. ApiTypeOK
  BY <1>1 DEF ApiInit, ApiTypeOK, Statuses, Done, Lists
<1>3. DeadHasError /\ PageTrue /\ ToldTrue /\ SteadyListed
  BY DEF ApiInit, QueueInit, DeadHasError, PageTrue, ToldTrue, SteadyListed
<1> QED BY <1>2, <1>3 DEF ApiInv

(***************************************************************************)
(* The queue.                                                              *)
(***************************************************************************)
\* What every step of the queue keeps of every command.
Kept ==
  \A t \in Tasks :
    /\ Succeeded(t) => Succeeded(t)'
    /\ lastErr[t] # NoError => lastErr'[t] # NoError
    /\ state[t] # "absent" => state'[t] # "absent"
    /\ state[t] = "deleted" => state'[t] = "deleted"
    /\ state'[t] = state[t] => lastErr'[t] = lastErr[t]

\* What the invariant says of the queue alone.
QueueInv == QueueTypeOK /\ DeadHasError

LEMMA PutBackKeeps ==
  ASSUME QueueInv, NEW t \in Tasks,
         NEW e \in HandlerErrors \cup {"deadline_exceeded", "lease_expired"},
         PutBack(t, e)
  PROVE  QueueInv' /\ Kept
<1>1. e # NoError /\ e \in Errors
  BY DEF QueueAssumption, NoError, Errors
<1>2. /\ state' \in [Tasks -> States]
      /\ retried' \in [Tasks -> 0 .. MaxRetry]
      /\ spared' \in [Tasks -> 0 .. MaxSpared]
  BY DEF QueueInv, QueueTypeOK, PutBack, Spare, Retry, Archive, Move, States, QueueAssumption
<1>3. /\ lastErr' \in [Tasks -> Errors \cup {NoError}]
      /\ holder' \in [Tasks -> Runs \cup {NoRun}]
      /\ dispatched' \in [Tasks -> Nat]
  BY <1>1 DEF QueueInv, QueueTypeOK, PutBack
<1>4. /\ state[t] = "active"
      /\ state' = [state EXCEPT ![t] = "retry"] \/ state' = [state EXCEPT ![t] = "archived"]
      /\ lastErr' = [lastErr EXCEPT ![t] = e]
  BY DEF PutBack, Spare, Retry, Archive, Move
<1>5. DeadHasError' /\ Kept
  BY <1>1, <1>4 DEF QueueInv, QueueTypeOK, DeadHasError, Kept, Succeeded
<1> QED BY <1>2, <1>3, <1>5 DEF QueueInv, QueueTypeOK

LEMMA MoveKeeps ==
  ASSUME QueueInv, NEW t \in Tasks,
         \/ Enqueue(t) \/ Forward(t) \/ Expire(t)
         \/ \E r \in Runs : Dequeue(t, r) \/ Complete(t, r) \/ Requeue(t, r)
  PROVE  QueueInv' /\ Kept
<1>1. QueueTypeOK'
  BY DEF QueueInv, QueueTypeOK, Enqueue, Dequeue, Complete, Requeue, Forward,
         Expire, Move, States, QueueAssumption
<1>2. DeadHasError' /\ Kept
  BY DEF QueueInv, QueueTypeOK, DeadHasError, Kept, Succeeded, Enqueue, Dequeue, Complete, Requeue,
         Forward, Expire, Move
<1> QED BY <1>1, <1>2 DEF QueueInv

LEMMA StutterKeeps ==
  ASSUME QueueInv, UNCHANGED queueVars
  PROVE  QueueInv' /\ Kept
BY DEF QueueInv, QueueTypeOK, DeadHasError, Kept, Succeeded, queueVars

LEMMA EnqueueKeeps ==
  ASSUME QueueInv, NEW t \in Tasks, Enqueue(t)
  PROVE  QueueInv' /\ Kept
BY MoveKeeps

LEMMA WorkerKeeps ==
  ASSUME QueueInv, NEW t \in Tasks, WorkerStep(t)
  PROVE  QueueInv' /\ Kept
<1>1. CASE \E r \in Runs, e \in HandlerErrors \cup {"deadline_exceeded"} : Fail(t, r, e)
  BY <1>1, PutBackKeeps DEF Fail
<1>2. CASE Recover(t)
  BY <1>2, PutBackKeeps DEF Recover
<1>3. CASE \/ Forward(t) \/ Expire(t)
           \/ \E r \in Runs : Dequeue(t, r) \/ Complete(t, r) \/ Requeue(t, r)
  BY <1>3, MoveKeeps
<1> QED BY <1>1, <1>2, <1>3 DEF WorkerStep

LEMMA LeasesKeep ==
  ASSUME QueueInv, NEW lost \in SUBSET Tasks, LeasesEnd(lost)
  PROVE  QueueInv' /\ Kept
BY DEF QueueInv, QueueTypeOK, DeadHasError, Kept, Succeeded, LeasesEnd

(***************************************************************************)
(* The answers that are there.                                             *)
(***************************************************************************)
LEMMA PageKept ==
  ASSUME ApiTypeOK, PageTrue, Kept, UNCHANGED page
  PROVE  PageTrue'
BY DEF ListEntry, ApiTypeOK, PageTrue, Kept

LEMMA SteadyKept ==
  ASSUME ApiTypeOK, SteadyListed, Kept, Watch, UNCHANGED <<page, cursor>>
  PROVE  SteadyListed'
<1>1. /\ \A l \in Conns : steady'[l] = {t \in steady[l] : state'[t] = state[t]}
      /\ \A l \in Conns : steady[l] \subseteq Tasks
  BY DEF Watch, ApiTypeOK
<1>2. \A t \in Tasks : state'[t] = state[t] => Entry(t)' = Entry(t)
  BY DEF Kept, Entry, Status, TaskToStatus, StateToStatus
<1> QED BY <1>1, <1>2 DEF SteadyListed

(***************************************************************************)
(* The steps.                                                              *)
(***************************************************************************)
LEMMA CreateInv ==
  ASSUME ApiInv, NEW t \in Tasks, NEW q \in Requests, CreateCommand(t, q)
  PROVE  ApiInv'
<1>1. QueueInv' /\ Kept
  BY EnqueueKeeps, StutterKeeps DEF ApiInv, ApiTypeOK, QueueInv, CreateCommand
<1>2. /\ reply' \in [Tasks -> {"none", "202", "400", "500"}]
      /\ steady' \in [Conns -> SUBSET Tasks]
  BY DEF ApiInv, ApiTypeOK, CreateCommand, Watch
<1>3. ApiTypeOK'
  BY <1>1, <1>2 DEF ApiInv, ApiTypeOK, QueueInv, CreateCommand
<1>4. PageTrue' /\ SteadyListed'
  BY <1>1, PageKept, SteadyKept DEF ApiInv, CreateCommand
<1>5. ToldTrue'
  <2>1. reply'[t] = "202" => state'[t] # "absent"
    BY DEF ApiInv, ApiTypeOK, QueueTypeOK, CreateCommand, Enqueue, Move
  <2>2. \A u \in Tasks \ {t} : reply'[u] = reply[u]
    BY DEF ApiInv, ApiTypeOK, CreateCommand
  <2> QED BY <1>1, <2>1, <2>2 DEF ApiInv, ToldTrue, Kept, CreateCommand
<1> QED BY <1>1, <1>3, <1>4, <1>5 DEF ApiInv, QueueInv

LEMMA WorkerInv ==
  ASSUME ApiInv, NEW t \in Tasks, WorkerStep(t)
  PROVE  ApiInv'
<1>1. QueueInv' /\ Kept
  BY WorkerKeeps DEF ApiInv, ApiTypeOK, QueueInv
<1>2. ApiTypeOK'
  BY <1>1 DEF ApiInv, ApiTypeOK, QueueInv, WorkerStep, Watch
<1>3. PageTrue' /\ SteadyListed'
  BY <1>1, PageKept, SteadyKept DEF ApiInv, WorkerStep
<1>4. ToldTrue'
  BY <1>1 DEF ApiInv, ToldTrue, Kept, WorkerStep
<1> QED BY <1>1, <1>2, <1>3, <1>4 DEF ApiInv, QueueInv

LEMMA LeasesInv ==
  ASSUME ApiInv, NEW lost \in SUBSET Tasks, LeasesEnd(lost)
  PROVE  ApiInv'
<1>1. QueueInv' /\ Kept
  BY LeasesKeep DEF ApiInv, ApiTypeOK, QueueInv
<1>2. UNCHANGED <<state, lastErr, reply, told, unread, cursor, page, steady>>
  BY DEF LeasesEnd, apiVars
<1>3. ApiTypeOK'
  BY <1>1, <1>2 DEF ApiInv, ApiTypeOK, QueueInv
<1>4. PageTrue' /\ ToldTrue'
  BY <1>1, <1>2, PageKept DEF ApiInv, ToldTrue, Kept
<1>5. SteadyListed'
  BY <1>2 DEF ApiInv, SteadyListed, Entry, Status, TaskToStatus, StateToStatus
<1> QED BY <1>1, <1>3, <1>4, <1>5 DEF ApiInv, QueueInv

LEMMA StatusFacts ==
  ASSUME QueueInv, NEW t \in Tasks
  PROVE  /\ Status(t) \in Statuses
         /\ Status(t) = "SUCCESS" => state[t] = "completed" /\ lastErr[t] = NoError
         /\ state[t] # "retry" /\ Status(t) \in {"FAILED", "RETRYING"} => lastErr[t] # NoError
BY DEF QueueInv, DeadHasError, Status, Statuses, TaskToStatus, StateToStatus

LEMMA GetInv ==
  ASSUME ApiInv, NEW t \in Tasks, NEW shown \in Statuses \cup {"404"}, GetCommand(t, shown)
  PROVE  ApiInv'
<1>1. QueueInv' /\ Kept
  BY StutterKeeps DEF ApiInv, ApiTypeOK, QueueInv, GetCommand
<1>2. ApiTypeOK'
  BY <1>1 DEF ApiInv, ApiTypeOK, QueueInv, GetCommand
<1>3. PageTrue' /\ SteadyListed'
  <2>1. PageTrue'
    BY <1>1, PageKept DEF ApiInv, GetCommand
  <2>2. \A u \in Tasks : Entry(u)' = Entry(u)
    BY DEF GetCommand, queueVars, Entry, Status, TaskToStatus, StateToStatus
  <2> QED BY <2>1, <2>2 DEF ApiInv, ApiTypeOK, SteadyListed, GetCommand, queueVars
<1>4. ToldTrue'
  <2>1. shown = "SUCCESS" => Succeeded(t)
    BY StatusFacts DEF ApiInv, ApiTypeOK, QueueInv, GetCommand, Succeeded, Status
  <2>2. shown = "404" => state[t] = "deleted" \/ t \in unread'
    <3>1. state[t] \notin {"absent", "deleted"} => TaskToStatus(t, StateToStatus(state[t])) # "404"
      BY StatusFacts DEF ApiInv, ApiTypeOK, QueueInv, Status, Statuses
    <3> QED BY <3>1 DEF ApiInv, ToldTrue, GetCommand
  <2>3. unread \subseteq unread' /\ \A u \in Tasks : told'[u] = IF u = t THEN told[u] \cup {shown} ELSE told[u]
    BY DEF ApiInv, ApiTypeOK, GetCommand
  <2> QED BY <1>1, <2>1, <2>2, <2>3 DEF ApiInv, ToldTrue, Kept, GetCommand
<1> QED BY <1>1, <1>2, <1>3, <1>4 DEF ApiInv, QueueInv

\* One call of the inspector, seen by what it gathers.
LEMMA ListGathers ==
  ASSUME ApiTypeOK, NEW l \in Conns, ListNext(l)
  PROVE  LET from    == Lists[cursor[l] + 1]
             members == {t \in Tasks : state[t] = from}
         IN  /\ UNCHANGED <<queueVars, reply, unread>>
             /\ from \in {"active", "pending", "completed", "archived"}
             /\ cursor' = [cursor EXCEPT ![l] = @ + 1]
             /\ cursor'[l] \in 1 .. Done
             /\ \E P \in SUBSET members :
                  /\ page' = [page EXCEPT ![l] = @ \cup {Entry(t) : t \in P}]
                  /\ steady' = [steady EXCEPT ![l] =
                                  Began(l) \ (IF P = members THEN {} ELSE members)]
<1> DEFINE from    == Lists[cursor[l] + 1]
           members == {t \in Tasks : state[t] = from}
           full    == {P \in SUBSET members :
                         \/ P = members /\ Cardinality(P) <= PageSize
                         \/ Cardinality(members) > PageSize /\ Cardinality(P) = PageSize}
<1>1. /\ UNCHANGED <<queueVars, reply, unread>>
      /\ cursor' = [cursor EXCEPT ![l] = @ + 1]
      /\ cursor[l] \in 0 .. 3
  BY DEF ApiTypeOK, ListNext, Done, Lists
<1>2. from \in {"active", "pending", "completed", "archived"}
  BY <1>1 DEF Lists
<1>3. cursor'[l] \in 1 .. Done
  BY <1>1 DEF ApiTypeOK, Done, Lists
<1>4. PICK P \in full \cup (IF BrokerFaults THEN {{}} ELSE {}) :
        /\ page' = [page EXCEPT ![l] = @ \cup
                      {[id |-> t, list |-> from, status |-> TaskToStatus(t, StateToStatus(from))]
                         : t \in P}]
        /\ steady' = [steady EXCEPT ![l] = Began(l) \ (IF P = members THEN {} ELSE members)]
  BY DEF ListNext
<1>5. P \in SUBSET members
  OBVIOUS
<1>6. {[id |-> t, list |-> from, status |-> TaskToStatus(t, StateToStatus(from))] : t \in P}
        = {Entry(t) : t \in P}
  BY <1>5 DEF Entry, Status
<1> QED BY <1>1, <1>2, <1>3, <1>4, <1>5, <1>6

LEMMA ListInv ==
  ASSUME ApiInv, NEW l \in Conns, ListNext(l)
  PROVE  ApiInv'
<1> DEFINE from    == Lists[cursor[l] + 1]
           members == {t \in Tasks : state[t] = from}
<1>1. /\ UNCHANGED <<queueVars, reply, unread>>
      /\ from \in {"active", "pending", "completed", "archived"}
      /\ cursor' = [cursor EXCEPT ![l] = @ + 1]
      /\ cursor'[l] \in 1 .. Done
  BY ListGathers DEF ApiInv
<1>2. PICK P \in SUBSET members :
        /\ page' = [page EXCEPT ![l] = @ \cup {Entry(t) : t \in P}]
        /\ steady' = [steady EXCEPT ![l] = Began(l) \ (IF P = members THEN {} ELSE members)]
  BY ListGathers DEF ApiInv
<1>3. QueueInv /\ QueueInv' /\ Kept
  BY <1>1, StutterKeeps DEF ApiInv, ApiTypeOK, QueueInv
<1>4. \A t \in P : t \in Tasks /\ state[t] = from
  OBVIOUS
<1>5. \A t \in P : Entry(t) \in ListEntry
  <2>1. from \in {Lists[i] : i \in 1 .. Done}
    BY <1>1 DEF ApiInv, ApiTypeOK, Done, Lists
  <2> QED BY <1>3, <1>4, <2>1, StatusFacts DEF Entry, ListEntry
<1>6. /\ page' \in [Conns -> SUBSET ListEntry]
      /\ page'[l] = page[l] \cup {Entry(t) : t \in P}
      /\ \A k \in Conns \ {l} : page'[k] = page[k]
  BY <1>2, <1>5 DEF ApiInv, ApiTypeOK
<1>7. /\ steady' \in [Conns -> SUBSET Tasks]
      /\ steady'[l] = Began(l) \ (IF P = members THEN {} ELSE members)
      /\ \A k \in Conns \ {l} : steady'[k] = steady[k]
  <2>1. Began(l) \subseteq Tasks
    BY DEF Began, ApiInv, ApiTypeOK
  <2> QED BY <1>2, <2>1 DEF ApiInv, ApiTypeOK
<1>8. /\ cursor' \in [Conns -> 0 .. Done]
      /\ cursor'[l] = cursor[l] + 1
      /\ \A k \in Conns \ {l} : cursor'[k] = cursor[k]
  BY <1>1 DEF ApiInv, ApiTypeOK
<1>9. \A t \in Tasks : Entry(t)' = Entry(t) /\ (Succeeded(t)' <=> Succeeded(t))
  BY <1>1 DEF queueVars, Entry, Status, TaskToStatus, StateToStatus, Succeeded
<1> HIDE DEF from, members
<1>10. PageTrue'
  <2>1. ASSUME NEW e \in page'[l]
        PROVE  /\ e.status = "SUCCESS" => Succeeded(e.id)
               /\ e.status \in {"FAILED", "RETRYING"} => lastErr[e.id] # NoError
    <3>1. CASE e \in page[l]
      BY <3>1 DEF ApiInv, PageTrue
    <3>2. CASE \E t \in P : e = Entry(t)
      <4>1. PICK t \in P : e = Entry(t)
        BY <3>2
      <4>2. e.id = t /\ e.status = Status(t) /\ state[t] = from /\ t \in Tasks
        BY <1>4, <4>1 DEF Entry
      <4> QED BY <1>1, <1>3, <4>2, StatusFacts DEF Succeeded
    <3> QED BY <1>6, <3>1, <3>2
  <2>2. ASSUME NEW k \in Conns, NEW e \in page'[k]
        PROVE  /\ e.id \in Tasks
               /\ e.status = "SUCCESS" => Succeeded(e.id)
               /\ e.status \in {"FAILED", "RETRYING"} => lastErr[e.id] # NoError
    <3>1. e.id \in Tasks
      BY <1>6 DEF ListEntry
    <3> QED BY <1>6, <2>1, <3>1 DEF ApiInv, PageTrue
  <2> QED BY <1>3, <2>2 DEF PageTrue, Kept
<1>11. /\ told' \in [Tasks -> SUBSET (Statuses \cup {"404"})]
       /\ ToldTrue'
  <2>1. CASE cursor'[l] = Done
    <3>1. told' = [t \in Tasks |-> told[t] \cup {e.status : e \in {e \in page'[l] : e.id = t}}]
      BY <2>1 DEF ListNext
    <3>2. \A e \in page'[l] : e.status \in Statuses
      BY <1>6 DEF ListEntry
    <3>3. "404" \notin Statuses
      BY DEF Statuses
    <3>4. \A t \in Tasks : "404" \in told'[t] => "404" \in told[t]
      BY <3>1, <3>2, <3>3
    <3>5. \A t \in Tasks : "SUCCESS" \in told'[t] => Succeeded(t)
      <4>1. \A e \in page'[l] : e.status = "SUCCESS" => Succeeded(e.id)'
        BY <1>10 DEF PageTrue
      <4>2. \A e \in page'[l] : e.id \in Tasks
        BY <1>6 DEF ListEntry
      <4>3. \A e \in page'[l] : e.status = "SUCCESS" => Succeeded(e.id)
        BY <1>1, <4>1 DEF queueVars, Succeeded
      <4> QED BY <3>1, <4>3 DEF ApiInv, ToldTrue
    <3>6. told' \in [Tasks -> SUBSET (Statuses \cup {"404"})]
      BY <3>1, <3>2 DEF ApiInv, ApiTypeOK
    <3> QED BY <1>1, <1>9, <3>4, <3>5, <3>6 DEF ApiInv, ToldTrue, queueVars
  <2>2. CASE cursor'[l] # Done
    <3>1. told' = told
      BY <2>2 DEF ListNext
    <3> QED BY <1>1, <1>9, <3>1 DEF ApiInv, ApiTypeOK, ToldTrue, queueVars
  <2> QED BY <2>1, <2>2
<1>12. SteadyListed'
  <2>1. ASSUME NEW t \in steady'[l]
        PROVE  /\ t \in Tasks
               /\ state[t] \notin {"absent", "deleted"}
               /\ \A e \in page'[l] : e.id = t => e = Entry(t)
               /\ (\E i \in 1 .. cursor'[l] : Lists[i] = state[t]) => Entry(t) \in page'[l]
    <3>1. t \in Began(l) /\ (P = members \/ t \notin members) /\ t \in Tasks
      BY <1>7
    <3>2. /\ state[t] \notin {"absent", "deleted"}
          /\ \A e \in page[l] : e.id = t => e = Entry(t)
          /\ (\E i \in 1 .. cursor[l] : Lists[i] = state[t]) => Entry(t) \in page[l]
      <4>1. CASE cursor[l] = 0
        BY <3>1, <4>1 DEF Began, ApiInv, SteadyListed
      <4>2. CASE cursor[l] # 0
        <5>1. cursor[l] > 0 /\ t \in steady[l]
          BY <3>1, <4>2 DEF Began, ApiInv, ApiTypeOK
        <5> QED BY <5>1 DEF ApiInv, SteadyListed
      <4> QED BY <4>1, <4>2
    <3>3. \A e \in page'[l] : e.id = t => e = Entry(t)
      <4>1. \A u \in P : Entry(u).id = u
        BY DEF Entry
      <4> QED BY <1>6, <3>2, <4>1
    <3>4. ASSUME NEW i \in 1 .. cursor'[l], Lists[i] = state[t]
          PROVE  Entry(t) \in page'[l]
      <4>1. CASE i = cursor'[l]
        <5>1. t \in members
          BY <1>8, <3>1, <3>4, <4>1 DEF from, members
        <5> QED BY <1>6, <3>1, <5>1
      <4>2. CASE i # cursor'[l]
        <5>1. cursor[l] \in 0 .. Done
          BY DEF ApiInv, ApiTypeOK
        <5>2. i \in 1 .. cursor[l]
          BY <1>8, <4>2, <5>1 DEF Done, Lists
        <5> QED BY <1>6, <3>2, <3>4, <5>2
      <4> QED BY <4>1, <4>2
    <3> QED BY <3>1, <3>2, <3>3, <3>4
  <2>2. cursor'[l] # 0
    BY <1>1
  <2>3. \A t \in Tasks : Entry(t)' = Entry(t) /\ state'[t] = state[t]
    BY <1>1, <1>9 DEF queueVars
  <2>4. \A k \in Conns : steady'[k] \subseteq Tasks
    BY <1>7
  <2> QED BY <1>6, <1>7, <1>8, <2>1, <2>2, <2>3, <2>4 DEF ApiInv, SteadyListed
<1>13. ApiTypeOK'
  BY <1>1, <1>3, <1>6, <1>7, <1>8, <1>11 DEF ApiInv, ApiTypeOK, QueueInv
<1> QED BY <1>3, <1>10, <1>11, <1>12, <1>13 DEF ApiInv, QueueInv

LEMMA EndInv == ASSUME ApiInv, NEW l \in Conns, CallEnds(l) PROVE ApiInv'
<1>1. QueueInv' /\ Kept
  BY StutterKeeps DEF ApiInv, ApiTypeOK, QueueInv, CallEnds
<1>2. \A t \in Tasks : Entry(t)' = Entry(t)
  BY DEF CallEnds, queueVars, Entry, Status, TaskToStatus, StateToStatus
<1>3. \A k \in Conns : IF k = l THEN cursor'[k] = 0 /\ page'[k] = {} /\ steady'[k] = {}
                       ELSE cursor'[k] = cursor[k] /\ page'[k] = page[k] /\ steady'[k] = steady[k]
  BY DEF ApiInv, ApiTypeOK, CallEnds
<1>4. PageTrue'
  BY <1>3 DEF ApiInv, CallEnds, queueVars, PageTrue, Succeeded
<1>5. SteadyListed'
  <2>1. \A t \in Tasks : state'[t] = state[t]
    BY DEF CallEnds, queueVars
  <2> SUFFICES ASSUME NEW k \in Conns
               PROVE  /\ cursor'[k] = 0 => page'[k] = {}
                      /\ \A t \in steady'[k] :
                           /\ cursor'[k] > 0 => state'[t] \notin {"absent", "deleted"}
                           /\ \A e \in page'[k] : e.id = t => e = Entry(t)'
                           /\ (\E i \in 1 .. cursor'[k] : Lists[i] = state'[t])
                                => Entry(t)' \in page'[k]
    BY DEF SteadyListed
  <2>2. CASE k = l
    BY <1>3, <2>2
  <2>3. CASE k # l
    <3>1. steady[k] \subseteq Tasks
      BY DEF ApiInv, ApiTypeOK
    <3> QED BY <1>2, <1>3, <2>1, <2>3, <3>1 DEF ApiInv, SteadyListed
  <2> QED BY <2>2, <2>3
<1>6. ToldTrue'
  BY DEF ApiInv, ToldTrue, Succeeded, CallEnds, queueVars
<1>7. ApiTypeOK'
  BY <1>1 DEF ApiInv, ApiTypeOK, QueueInv, CallEnds, Done, Lists
<1> QED BY <1>1, <1>4, <1>5, <1>6, <1>7 DEF ApiInv, QueueInv

LEMMA ApiInvStep == ApiInv /\ [ApiNext]_vars => ApiInv'
<1> SUFFICES ASSUME ApiInv, [ApiNext]_vars PROVE ApiInv'
  OBVIOUS
<1>1. CASE UNCHANGED vars
  <2>1. QueueInv' /\ Kept
    BY <1>1, StutterKeeps DEF ApiInv, ApiTypeOK, QueueInv, vars
  <2>2. \A t \in Tasks : Entry(t)' = Entry(t)
    BY <1>1 DEF vars, queueVars, Entry, Status, TaskToStatus, StateToStatus
  <2>3. PageTrue' /\ SteadyListed'
    BY <1>1, <2>1, <2>2, PageKept DEF ApiInv, ApiTypeOK, SteadyListed, vars, apiVars, queueVars
  <2>4. ToldTrue'
    BY <1>1 DEF ApiInv, ToldTrue, Succeeded, vars, apiVars, queueVars
  <2>5. ApiTypeOK'
    BY <1>1, <2>1 DEF ApiInv, ApiTypeOK, QueueInv, vars, apiVars
  <2> QED BY <2>1, <2>3, <2>4, <2>5 DEF ApiInv, QueueInv
<1>2. CASE ApiNext
  BY <1>2, CreateInv, GetInv, WorkerInv, LeasesInv, ListInv, EndInv DEF ApiNext
<1> QED BY <1>1, <1>2

LEMMA ApiInvariant == ApiSpec => []ApiInv
BY ApiInvInit, ApiInvStep, PTL DEF ApiSpec

-----------------------------------------------------------------------------
\* The shape of the state; every status that is reported is one of the five
\* (stateToStatus, api/main.go:303-320).
THEOREM ApiTypeCorrect == ApiSpec => []ApiTypeOK
<1>1. ApiInv => ApiTypeOK
  BY DEF ApiInv
<1> QED BY <1>1, ApiInvariant, PTL

\* A command that was ever reported SUCCESS is completed until it expires
\* (taskToStatus, api/main.go:225-228).
THEOREM SuccessCorrect == ApiSpec => []SuccessIsFinal
<1>1. ApiInv => SuccessIsFinal
  BY DEF ApiInv, ToldTrue, Succeeded, SuccessIsFinal
<1> QED BY <1>1, ApiInvariant, PTL

\* One answer of ListCommands does not say two final things of a command
\* (api/main.go:132-158).
THEOREM ListCorrect == ApiSpec => []ListDoesNotContradict
<1>1. ApiInv => ListDoesNotContradict
  BY DEF ApiInv, PageTrue, Succeeded, ListDoesNotContradict
<1> QED BY <1>1, ApiInvariant, PTL

\* A command that stays where it is is listed once and truly, whatever moves
\* around it between the four calls (api/main.go:132-158), and not at all if
\* it waits for its retry.
THEOREM SteadyCorrect == ApiSpec => []SteadyListedOnce
<1>1. ASSUME ApiInv PROVE SteadyListedOnce
  <2> SUFFICES ASSUME NEW l \in Conns, NEW t \in Tasks, cursor[l] = Done, t \in steady[l]
               PROVE  IF state[t] = "retry" THEN {e \in page[l] : e.id = t} = {}
                      ELSE /\ Cardinality({e \in page[l] : e.id = t}) = 1
                           /\ \A e \in {e \in page[l] : e.id = t} : e.status = Status(t)
    BY DEF SteadyListedOnce, Status
  <2>1. Entry(t).id = t /\ Entry(t).list = state[t] /\ Entry(t).status = Status(t)
    BY DEF Entry
  <2>2. \A e \in page[l] : e.id = t => e = Entry(t)
    BY <1>1 DEF ApiInv, SteadyListed
  <2>3. CASE state[t] = "retry"
    <3>1. ASSUME NEW e \in page[l] PROVE e.list # "retry"
      <4>1. e.list \in {Lists[i] : i \in 1 .. Done}
        BY <1>1 DEF ListEntry, ApiInv, ApiTypeOK
      <4> QED BY <4>1 DEF Lists, Done
    <3> QED BY <2>1, <2>2, <2>3, <3>1
  <2>4. CASE state[t] # "retry"
    <3>1. state[t] \in {"active", "pending", "completed", "archived"}
      BY <1>1, <2>4 DEF ApiInv, ApiTypeOK, QueueTypeOK, States, SteadyListed, Done, Lists
    <3>2. \E i \in 1 .. 4 : Lists[i] = state[t]
      BY <3>1 DEF Lists
    <3>3. Entry(t) \in page[l]
      BY <1>1, <3>2 DEF ApiInv, SteadyListed, Done, Lists
    <3>4. {e \in page[l] : e.id = t} = {Entry(t)}
      BY <2>1, <2>2, <3>3
    <3> QED BY <2>1, <2>4, <3>4, FS_Singleton
  <2> QED BY <2>3, <2>4
<1>2. ApiInv => SteadyListedOnce
  BY <1>1
<1> QED BY <1>2, ApiInvariant, PTL

\* An accepted command can be found until it has expired
\* (api/main.go:287-301).
THEOREM FoundCorrect == ApiSpec => []AcceptedIsFound
<1>1. ApiInv => AcceptedIsFound
  BY DEF ApiInv, ToldTrue, AcceptedIsFound
<1> QED BY <1>1, ApiInvariant, PTL

-----------------------------------------------------------------------------
(***************************************************************************)
(* Requests: what the generated client sends goes where it should.         *)
(***************************************************************************)
Sends(op, r) ==
  \/ \E s \in Asked : /\ op = <<"CreateCommand", s>>
                      /\ r = Request("POST", CommandsPath, encodeCreateCommandRequest(s))
  \/ \E id : /\ op = <<"GetCommand", id>>
             /\ r = Request("GET", CommandPath \o <<id>>, {})
  \/ op = <<"GetOpenAPI">>   /\ r = Request("GET", <<"/", "openapi.json">>, {})
  \/ op = <<"HealthCheck">>  /\ r = Request("GET", <<"/", "health">>, {})
  \/ op = <<"ListCommands">> /\ r = Request("GET", CommandsPath, {})
  \/ op = <<"other">>        /\ r \in OtherRequests

LEMMA CommandsRoute ==
  ASSUME NEW b
  PROVE  /\ Route(Request("POST", CommandsPath, b)) = "createCommand"
         /\ Route(Request("GET", CommandsPath, b)) = "listCommands"
<1> DEFINE p == Request("POST", CommandsPath, b)
           g == Request("GET", CommandsPath, b)
           handlers == [GET |-> "listCommands", POST |-> "createCommand"]
<1>1. /\ p.method = "POST" /\ g.method = "GET" /\ p.path = CommandsPath /\ g.path = CommandsPath
  BY DEF Request
<1>2. /\ CommandsPath # <<"/", "openapi.json">> /\ CommandsPath # <<"/", "health">>
      /\ Len(CommandsPath) = 2
  BY DEF CommandsPath
<1>3. DOMAIN handlers = {"GET", "POST"} /\ handlers["GET"] = "listCommands"
      /\ handlers["POST"] = "createCommand"
  OBVIOUS
<1> HIDE DEF p, g, handlers
<1>4. ByMethod(p, handlers) = "createCommand" /\ ByMethod(g, handlers) = "listCommands"
  BY <1>1, <1>3 DEF ByMethod
<1>5. Route(p) = ByMethod(p, handlers)
  BY <1>1, <1>2 DEF Route, handlers
<1>6. Route(g) = ByMethod(g, handlers)
  BY <1>1, <1>2 DEF Route, handlers
<1> QED BY <1>4, <1>5, <1>6 DEF p, g

LEMMA CommandRoute ==
  ASSUME NEW id
  PROVE  LET r == Request("GET", CommandPath \o <<id>>, {})
         IN  Route(r) = "getCommand" /\ PathId(r) = {id} \ {""}
<1> DEFINE r == Request("GET", CommandPath \o <<id>>, {})
           q == CommandPath \o <<id>>
           handlers == [GET |-> "getCommand"]
<1>1. r.method = "GET" /\ r.path = q
  BY DEF Request
<1>2. /\ CommandPath \in Seq({"/", "v1/commands"} \cup {id}) /\ Len(CommandPath) = 3
      /\ <<id>> \in Seq({"/", "v1/commands"} \cup {id}) /\ Len(<<id>>) = 1 /\ <<id>>[1] = id
  BY DEF CommandPath
<1>3. Len(q) = 4 /\ q[4] = id /\ SubSeq(q, 1, 3) = CommandPath
  <2> DEFINE T == {"/", "v1/commands"} \cup {id}
  <2> HIDE DEF T
  <2>1. ASSUME NEW a \in Seq(T), NEW b \in Seq(T), Len(a) = 3, Len(b) = 1
        PROVE  Len(a \o b) = 4 /\ (a \o b)[4] = b[1] /\ SubSeq(a \o b, 1, 3) = a
    <3>1. /\ a \o b \in Seq(T) /\ Len(a \o b) = 4 /\ (a \o b)[4] = b[1]
          /\ \A i \in 1 .. 3 : (a \o b)[i] = a[i]
      <4>1. a \o b \in Seq(T) /\ Len(a \o b) = Len(a) + Len(b)
        OBVIOUS
      <4>2. \A i \in 1 .. Len(a) : (a \o b)[i] = a[i]
        OBVIOUS
      <4>3. \A i \in Len(a) + 1 .. Len(a) + Len(b) : (a \o b)[i] = b[i - Len(a)]
        OBVIOUS
      <4>4. 4 \in Len(a) + 1 .. Len(a) + Len(b) /\ 4 - Len(a) = 1
        BY <2>1
      <4> QED BY <2>1, <4>1, <4>2, <4>3, <4>4
    <3> DEFINE z == a \o b
               y == SubSeq(z, 1, 3)
    <3>2. z \in Seq(T) /\ Len(z) = 4 /\ \A i \in 1 .. 3 : z[i] = a[i]
      BY <3>1
    <3> HIDE DEF z
    <3>3. y \in Seq(T) /\ Len(y) = 3 /\ \A i \in 1 .. 3 : y[i] = z[i]
      BY <3>2
    <3> HIDE DEF y
    <3>4. y = a
      BY <2>1, <3>2, <3>3
    <3> QED BY <3>1, <3>4 DEF y, z
  <2> QED BY <1>2, <2>1 DEF T
<1>4. q # <<"/", "openapi.json">> /\ q # <<"/", "health">> /\ q # CommandsPath
  <2>1. Len(<<"/", "openapi.json">>) = 2 /\ Len(<<"/", "health">>) = 2 /\ Len(CommandsPath) = 2
    BY DEF CommandsPath
  <2> HIDE DEF q
  <2> QED BY <1>3, <2>1
<1>5. DOMAIN handlers = {"GET"} /\ handlers["GET"] = "getCommand"
  OBVIOUS
<1> HIDE DEF r, q, handlers
<1>6. ByMethod(r, handlers) = "getCommand"
  BY <1>1, <1>5 DEF ByMethod
<1>7. Route(r) = ByMethod(r, handlers)
  BY <1>1, <1>3, <1>4 DEF Route, handlers
<1>8. PathId(r) = {id} \ {""}
  BY <1>1, <1>3 DEF PathId
<1> QED BY <1>6, <1>7, <1>8 DEF r

LEMMA FixedRoute ==
  /\ Route(Request("GET", <<"/", "openapi.json">>, {})) = "serveOpenAPISpec"
  /\ Route(Request("GET", <<"/", "health">>, {})) = "healthCheck"
<1> DEFINE o == Request("GET", <<"/", "openapi.json">>, {})
           h == Request("GET", <<"/", "health">>, {})
           handlers == [GET |-> "healthCheck"]
<1>1. /\ o.method = "GET" /\ o.path = <<"/", "openapi.json">>
      /\ h.method = "GET" /\ h.path = <<"/", "health">>
  BY DEF Request
<1>2. /\ <<"/", "health">> # <<"/", "openapi.json">>
      /\ <<"/", "health">> # CommandsPath /\ <<"/", "openapi.json">> # CommandsPath
      /\ Len(<<"/", "health">>) = 2 /\ Len(<<"/", "openapi.json">>) = 2
  BY DEF CommandsPath
<1>3. DOMAIN handlers = {"GET"} /\ handlers["GET"] = "healthCheck"
  OBVIOUS
<1> HIDE DEF o, h, handlers
<1>4. ByMethod(h, handlers) = "healthCheck"
  BY <1>1, <1>3 DEF ByMethod
<1>5. Route(h) = ByMethod(h, handlers)
  BY <1>1, <1>2 DEF Route, handlers
<1>6. Route(o) = "serveOpenAPISpec"
  BY <1>1, <1>2 DEF Route
<1> QED BY <1>4, <1>5, <1>6 DEF o, h

\* A request that the generated client does not send, or one that finds its handler.
LEMMA Routes ==
  ASSUME NEW op, NEW r, Sends(op, r)
  PROVE  \/ op = <<"other">> /\ r \in OtherRequests
         \/ /\ Route(r) = "createCommand"
            /\ \E s \in Asked : /\ op = <<"CreateCommand", s>>
                                /\ r = Request("POST", CommandsPath, encodeCreateCommandRequest(s))
         \/ /\ Route(r) = "getCommand"
            /\ \E id : op = <<"GetCommand", id>> /\ PathId(r) = {id} \ {""}
         \/ Route(r) = "serveOpenAPISpec" /\ op = <<"GetOpenAPI">>
         \/ Route(r) = "healthCheck"      /\ op = <<"HealthCheck">>
         \/ Route(r) = "listCommands"     /\ op = <<"ListCommands">>
<1>1. CASE \E s \in Asked : /\ op = <<"CreateCommand", s>>
                            /\ r = Request("POST", CommandsPath, encodeCreateCommandRequest(s))
  BY <1>1, CommandsRoute
<1>2. CASE \E id : op = <<"GetCommand", id>> /\ r = Request("GET", CommandPath \o <<id>>, {})
  BY <1>2, CommandRoute
<1>3. CASE op = <<"GetOpenAPI">>   /\ r = Request("GET", <<"/", "openapi.json">>, {})
  BY <1>3, FixedRoute
<1>4. CASE op = <<"HealthCheck">>  /\ r = Request("GET", <<"/", "health">>, {})
  BY <1>4, FixedRoute
<1>5. CASE op = <<"ListCommands">> /\ r = Request("GET", CommandsPath, {})
  BY <1>5, CommandsRoute
<1> QED BY <1>1, <1>2, <1>3, <1>4, <1>5 DEF Sends

-----------------------------------------------------------------------------
(***************************************************************************)
(* The invariant.                                                          *)
(***************************************************************************)
Phases == {"idle", "sent", "listing", "answered", "received"}

Domains ==
  /\ phase \in [Conns -> Phases]
  /\ DOMAIN call = Conns /\ DOMAIN req = Conns /\ DOMAIN answer = Conns
  /\ DOMAIN wire = Conns /\ DOMAIN got = Conns /\ DOMAIN gathered = Conns
  /\ DOMAIN payload = Tasks /\ DOMAIN results = Tasks /\ DOMAIN asked = Tasks

\* A status that tells of an accepted or refused command, which will not change.
Echoes(s) ==
  /\ s.command_id \in Tasks
  /\ reply[s.command_id] # "none"
  /\ s.original_request = {Canonical(s0) : s0 \in asked[s.command_id]}

\* What the client makes of an answer.
Understood(op, a, w) ==
  /\ op # <<"other">> /\ a[1] # "Error" => decodeResponse(op[1], w) = {Read(a)}
  /\ \A g \in decodeResponse(op[1], w) : \A s \in StatusesIn(g) : Echoes(s)

CallInv(c) ==
  /\ phase[c] # "idle" => \E r : req[c] = {r} /\ Sends(call[c], r)
  /\ phase[c] = "listing" => Route(Sent(c)) = "listCommands"
  /\ phase[c] \in {"answered", "received"} => Understood(call[c], answer[c], wire[c])
  /\ got[c] = IF phase[c] = "received" THEN decodeResponse(call[c][1], wire[c]) ELSE {}

\* The four reads of a ListCommands call, and what they have brought.
ListInvariant(c) ==
  /\ phase[c] \in {"idle", "sent"} => cursor[c] = 0
  /\ phase[c] = "listing" => cursor[c] \in 1 .. 3
  /\ phase[c] \in {"answered", "received"} => cursor[c] \in {0, Done}
  /\ cursor[c] = 0 => steady[c] = {}
  /\ IsFiniteSet(page[c])
  /\ \A e \in page[c] : reply[e.id] # "none"
  /\ IsSeq(gathered[c])
  /\ \A i \in DOMAIN gathered[c] : Tells(gathered[c][i]) /\ Echoes(gathered[c][i])

\* A command that is there was asked for.
Replied == \A t \in Tasks : reply[t] = "none" => state[t] = "absent"

ServerInv ==
  /\ ApiInv /\ Domains /\ Replied /\ Carried
  /\ \A c \in Conns : CallInv(c) /\ ListInvariant(c)

LEMMA ServerInvInit == ServerInit => ServerInv
<1> SUFFICES ASSUME ServerInit PROVE ServerInv
  OBVIOUS
<1>1. ApiInv
  BY ApiInvInit DEF ServerInit
<1>2. Domains /\ Replied /\ Carried
  BY DEF ServerInit, ApiInit, QueueInit, Domains, Phases, Replied, Carried
<1>3. ASSUME NEW c \in Conns PROVE CallInv(c) /\ ListInvariant(c)
  <2>1. <<>> \in Seq({}) /\ DOMAIN <<>> = {}
    OBVIOUS
  <2>2. IsFiniteSet({})
    BY FS_EmptySet
  <2>3. /\ phase[c] = "idle" /\ got[c] = {} /\ gathered[c] = <<>>
        /\ cursor[c] = 0 /\ page[c] = {} /\ steady[c] = {}
    BY DEF ServerInit, ApiInit
  <2>4. IsSeq(gathered[c]) /\ DOMAIN gathered[c] = {}
    BY <2>1, <2>3 DEF IsSeq
  <2> QED BY <2>2, <2>3, <2>4 DEF CallInv, ListInvariant
<1> QED BY <1>1, <1>2, <1>3 DEF ServerInv

(***************************************************************************)
(* What a step leaves as it is.                                            *)
(***************************************************************************)
\* The word of a command that has an answer.
Settled ==
  \A t \in Tasks : reply[t] # "none" => reply'[t] # "none" /\ asked'[t] = asked[t]

LEMMA EchoesStay == ASSUME Settled, NEW s, Echoes(s) PROVE Echoes(s)'
BY DEF Settled, Echoes

LEMMA TellsStay == ASSUME Settled, NEW s, Tells(s), Echoes(s) PROVE Tells(s)'
BY DEF Settled, Echoes, Tells

LEMMA UnderstoodStays ==
  ASSUME Settled, NEW op, NEW a, NEW w, Understood(op, a, w)
  PROVE  Understood(op, a, w)'
BY EchoesStay DEF Understood

LEMMA CallStays ==
  ASSUME NEW c \in Conns, CallInv(c), Settled,
         phase'[c] = phase[c], call'[c] = call[c], req'[c] = req[c],
         answer'[c] = answer[c], wire'[c] = wire[c], got'[c] = got[c]
  PROVE  CallInv(c)'
<1>1. Sent(c)' = Sent(c)
  BY DEF Sent
<1>2. ASSUME Understood(call[c], answer[c], wire[c])
      PROVE  Understood(call[c], answer[c], wire[c])'
  <2> DEFINE op == call[c]
             a == answer[c]
             w == wire[c]
  <2>1. /\ op # <<"other">> /\ a[1] # "Error" => decodeResponse(op[1], w) = {Read(a)}
        /\ \A g \in decodeResponse(op[1], w) : \A s \in StatusesIn(g) : Echoes(s)'
    BY <1>2, EchoesStay DEF Understood
  <2> QED BY <2>1 DEF Understood
<1> QED BY <1>1, <1>2 DEF CallInv

LEMMA ListStays ==
  ASSUME NEW c \in Conns, ListInvariant(c), Settled, ApiInv,
         phase'[c] = phase[c], cursor'[c] = cursor[c], page'[c] = page[c],
         steady'[c] \subseteq steady[c], gathered'[c] = gathered[c]
  PROVE  ListInvariant(c)'
<1>1. \A e \in page[c] : e.id \in Tasks
  BY DEF ListEntry, ApiInv, ApiTypeOK
<1>2. \A i \in DOMAIN gathered[c] : Tells(gathered[c][i])' /\ Echoes(gathered[c][i])'
  <2> SUFFICES ASSUME NEW i \in DOMAIN gathered[c]
               PROVE  Tells(gathered[c][i])' /\ Echoes(gathered[c][i])'
    OBVIOUS
  <2> DEFINE s == gathered[c][i]
  <2>1. Tells(s) /\ Echoes(s)
    BY DEF ListInvariant
  <2>2. gathered'[c][i] = s
    OBVIOUS
  <2> QED BY <2>1, <2>2 DEF Settled, Tells, Echoes
<1> QED BY <1>1, <1>2 DEF ListInvariant, Settled

\* A connection that a step does not touch.
SameAt(d) ==
  /\ phase'[d] = phase[d] /\ call'[d] = call[d] /\ req'[d] = req[d]
  /\ answer'[d] = answer[d] /\ wire'[d] = wire[d] /\ got'[d] = got[d]
  /\ gathered'[d] = gathered[d] /\ cursor'[d] = cursor[d] /\ page'[d] = page[d]
  /\ steady'[d] \subseteq steady[d]

LEMMA OthersStay ==
  ASSUME ServerInv, Settled, NEW d \in Conns, SameAt(d)
  PROVE  CallInv(d)' /\ ListInvariant(d)'
<1>1. CallInv(d)'
  BY CallStays DEF ServerInv, SameAt
<1>2. ListInvariant(d)'
  BY ListStays DEF ServerInv, SameAt
<1> QED BY <1>1, <1>2

\* An answer that is understood leaves the call as it should be.
LEMMA RespondKeeps ==
  ASSUME Domains, Settled, NEW c \in Conns, CallInv(c), phase[c] \in {"sent", "listing"},
         NEW a, NEW w, Respond(c, a, w), Understood(call[c], a, w)
  PROVE  /\ CallInv(c)' /\ phase'[c] = "answered"
         /\ phase' \in [Conns -> Phases] /\ DOMAIN answer' = Conns /\ DOMAIN wire' = Conns
         /\ UNCHANGED <<call, req, got>>
         /\ \A d \in Conns \ {c} :
              phase'[d] = phase[d] /\ answer'[d] = answer[d] /\ wire'[d] = wire[d]
<1>1. /\ phase'[c] = "answered" /\ answer'[c] = a /\ wire'[c] = w
      /\ UNCHANGED <<call, req, got>>
      /\ \A d \in Conns \ {c} :
           phase'[d] = phase[d] /\ answer'[d] = answer[d] /\ wire'[d] = wire[d]
      /\ phase' \in [Conns -> Phases] /\ DOMAIN answer' = Conns /\ DOMAIN wire' = Conns
  BY DEF Domains, Respond, Phases
<1>2. got[c] = {} /\ \E r : req[c] = {r} /\ Sends(call[c], r)
  BY DEF CallInv
<1>3. Understood(call[c], answer[c], wire[c])'
  <2>1. /\ call[c] # <<"other">> /\ a[1] # "Error" => decodeResponse(call[c][1], w) = {Read(a)}
        /\ \A g \in decodeResponse(call[c][1], w) : \A s \in StatusesIn(g) : Echoes(s)'
    BY EchoesStay DEF Understood
  <2> QED BY <1>1, <2>1 DEF Understood
<1> QED BY <1>1, <1>2, <1>3 DEF CallInv

LEMMA RequestThere ==
  ASSUME NEW c \in Conns, CallInv(c), phase[c] # "idle"
  PROVE  req[c] = {Sent(c)} /\ Sends(call[c], Sent(c))
<1>1. PICK r : req[c] = {r} /\ Sends(call[c], r)
  BY DEF CallInv
<1>2. Sent(c) = r
  BY <1>1, TheOnly DEF Sent
<1> QED BY <1>1, <1>2

(***************************************************************************)
(* Sending, and what needs no command.                                     *)
(***************************************************************************)
LEMMA SendKeeps ==
  ASSUME ServerInv, NEW c \in Conns, NEW op, NEW r, Send(c, op, r), Sends(op, r)
  PROVE  ServerInv'
<1>1. UNCHANGED <<vars, taskVars, answer, wire, got, gathered>> /\ phase[c] = "idle"
  BY DEF Send
<1>2. ApiInv' /\ Replied' /\ Carried' /\ Settled
  <2>1. ApiInv'
    BY <1>1, ApiInvStep DEF ServerInv
  <2>2. Replied' /\ Carried' /\ Settled
    BY <1>1 DEF ServerInv, vars, queueVars, apiVars, taskVars, Replied, Carried, Settled
  <2> QED BY <2>1, <2>2
<1>3. /\ phase'[c] = "sent" /\ call'[c] = op /\ req'[c] = {r}
      /\ \A d \in Conns \ {c} : phase'[d] = phase[d] /\ call'[d] = call[d] /\ req'[d] = req[d]
      /\ phase' \in [Conns -> Phases] /\ DOMAIN call' = Conns /\ DOMAIN req' = Conns
  BY DEF Send, ServerInv, Domains, Phases
<1>4. Domains'
  BY <1>1, <1>3 DEF ServerInv, Domains, taskVars
<1>5. \A d \in Conns \ {c} : SameAt(d)
  BY <1>1, <1>3 DEF SameAt, vars, apiVars
<1>6. CallInv(c)'
  BY <1>1, <1>3 DEF ServerInv, CallInv
<1>7. ListInvariant(c)'
  <2>1. /\ cursor'[c] = cursor[c] /\ page'[c] = page[c] /\ steady'[c] = steady[c]
        /\ gathered'[c] = gathered[c] /\ reply' = reply /\ asked' = asked
    BY <1>1 DEF vars, apiVars, taskVars
  <2>2. ListInvariant(c)
    BY DEF ServerInv
  <2> QED BY <1>1, <1>3, <2>1, <2>2 DEF ListInvariant, Tells, Echoes
<1>8. \A d \in Conns : CallInv(d)' /\ ListInvariant(d)'
  BY <1>2, <1>5, <1>6, <1>7, OthersStay
<1> QED BY <1>2, <1>4, <1>8 DEF ServerInv

LEMMA SendStep ==
  ASSUME ServerInv, NEW c \in Conns,
         \/ \E s \in Asked : sendCreateCommand(c, s)
         \/ \E id : sendGetCommand(c, id)
         \/ \E r \in OtherRequests : SendOther(c, r)
         \/ sendGetOpenAPI(c) \/ sendHealthCheck(c) \/ sendListCommands(c)
  PROVE  ServerInv'
<1>1. ASSUME NEW s \in Asked, sendCreateCommand(c, s) PROVE ServerInv'
  BY <1>1, SendKeeps DEF sendCreateCommand, Sends
<1>2. ASSUME NEW id, sendGetCommand(c, id) PROVE ServerInv'
  BY <1>2, SendKeeps DEF sendGetCommand, Sends
<1>3. ASSUME NEW r \in OtherRequests, SendOther(c, r) PROVE ServerInv'
  BY <1>3, SendKeeps DEF SendOther, Sends
<1>4. ASSUME sendGetOpenAPI(c) PROVE ServerInv'
  BY <1>4, SendKeeps DEF sendGetOpenAPI, Sends
<1>5. ASSUME sendHealthCheck(c) PROVE ServerInv'
  BY <1>5, SendKeeps DEF sendHealthCheck, Sends
<1>6. ASSUME sendListCommands(c) PROVE ServerInv'
  BY <1>6, SendKeeps DEF sendListCommands, Sends
<1> QED BY <1>1, <1>2, <1>3, <1>4, <1>5, <1>6

(***************************************************************************)
(* Answers that leave the commands alone.                                  *)
(***************************************************************************)
LEMMA AnswerKeeps ==
  ASSUME ServerInv, NEW c \in Conns, phase[c] = "sent",
         NEW a, NEW w, Respond(c, a, w), Understood(call[c], a, w),
         [ApiNext]_vars, UNCHANGED <<queueVars, reply, cursor, page, steady, taskVars, gathered>>
  PROVE  ServerInv'
<1>1. ApiInv' /\ Replied' /\ Carried' /\ Settled
  <2>1. ApiInv'
    BY ApiInvStep DEF ServerInv
  <2>2. Replied' /\ Carried' /\ Settled
    BY DEF ServerInv, queueVars, taskVars, Replied, Carried, Settled
  <2> QED BY <2>1, <2>2
<1>2. /\ CallInv(c)' /\ phase'[c] = "answered"
      /\ phase' \in [Conns -> Phases] /\ DOMAIN answer' = Conns /\ DOMAIN wire' = Conns
      /\ UNCHANGED <<call, req, got>>
      /\ \A d \in Conns \ {c} :
           phase'[d] = phase[d] /\ answer'[d] = answer[d] /\ wire'[d] = wire[d]
  BY <1>1, RespondKeeps DEF ServerInv
<1>3. Domains'
  BY <1>2 DEF ServerInv, Domains, taskVars
<1>4. \A d \in Conns \ {c} : SameAt(d)
  BY <1>2 DEF SameAt
<1>5. ListInvariant(c)'
  <2>1. /\ cursor'[c] = cursor[c] /\ page'[c] = page[c] /\ steady'[c] = steady[c]
        /\ gathered'[c] = gathered[c] /\ reply' = reply /\ asked' = asked
    BY DEF taskVars
  <2>2. ListInvariant(c)
    BY DEF ServerInv
  <2> QED BY <1>2, <2>1, <2>2 DEF ListInvariant, Tells, Echoes
<1>6. \A d \in Conns : CallInv(d)' /\ ListInvariant(d)'
  BY <1>1, <1>2, <1>4, <1>5, OthersStay
<1> QED BY <1>1, <1>3, <1>6 DEF ServerInv

\* The library's refusals are errors to the client, and say nothing of a command.
LEMMA ErrorUnderstood ==
  ASSUME NEW op, NEW code, NEW w, w.code # 200
  PROVE  Understood(op, <<"Error", code>>, w)
<1>1. \A g \in decodeResponse(op[1], w) : StatusesIn(g) = {}
  BY OtherAnswers
<1> QED BY <1>1 DEF Understood

LEMMA OtherUnderstood == ASSUME NEW a, NEW w PROVE Understood(<<"other">>, a, w)
<1> DEFINE op == <<"other">>
<1>1. op[1] = "other"
  OBVIOUS
<1>2. decodeResponse(op[1], w) = {}
  BY <1>1 DEF decodeResponse
<1> QED BY <1>2 DEF Understood

\* An answer without a status that is decoded to itself.
LEMMA PlainUnderstood ==
  ASSUME NEW op, NEW a, NEW w, decodeResponse(op[1], w) = {a},
         a[1] \notin {"CommandStatus", "CommandListResponse"}
  PROVE  Understood(op, a, w)
BY DEF Understood, Read, StatusesIn

LEMMA HealthStep ==
  ASSUME ServerInv, NEW c \in Conns, handleHealthCheckRequest(c)
  PROVE  ServerInv'
<1> DEFINE a == <<"HealthResponse", [status |-> "ok"]>>
           w == encodeHealthCheckResponse(a)
<1>1. /\ Serving(c, "healthCheck") /\ Respond(c, a, w)
      /\ UNCHANGED <<vars, taskVars, gathered>>
  BY DEF handleHealthCheckRequest
<1>2. Sends(call[c], Sent(c)) /\ phase[c] = "sent" /\ Route(Sent(c)) = "healthCheck"
  BY <1>1, RequestThere DEF Serving, ServerInv
<1>3. call[c] = <<"other">> \/ call[c] = <<"HealthCheck">>
  BY <1>2, Routes
<1>4. Understood(call[c], a, w)
  <2>1. decodeResponse("HealthCheck", w) = {a}
    BY HealthAnswer
  <2>2. a[1] = "HealthResponse"
    OBVIOUS
  <2> HIDE DEF a, w
  <2>3. CASE call[c] = <<"HealthCheck">>
    <3>1. call[c][1] = "HealthCheck"
      BY <2>3
    <3> QED BY <2>1, <2>2, <3>1, PlainUnderstood
  <2> QED BY <1>3, <2>3, OtherUnderstood
<1> HIDE DEF a, w
<1> QED BY <1>1, <1>2, <1>4, AnswerKeeps DEF vars, apiVars

LEMMA SpecStep ==
  ASSUME ServerInv, NEW c \in Conns, serveOpenAPISpec(c)
  PROVE  ServerInv'
<1> DEFINE a == <<"GetOpenAPIOK", "document">>
           w == [code |-> 200, ctype |-> "application/json", body |-> {JObj(<<>>)}]
           e == <<"Error", 500>>
           p == Plain(500)
<1>1. /\ Serving(c, "serveOpenAPISpec")
      /\ Respond(c, a, w) \/ Respond(c, e, p)
      /\ UNCHANGED <<vars, taskVars, gathered>>
  BY DEF serveOpenAPISpec
<1>2. Sends(call[c], Sent(c)) /\ phase[c] = "sent" /\ Route(Sent(c)) = "serveOpenAPISpec"
  BY <1>1, RequestThere DEF Serving, ServerInv
<1>3. call[c] = <<"other">> \/ call[c] = <<"GetOpenAPI">>
  BY <1>2, Routes
<1>4. Understood(call[c], a, w)
  <2>1. decodeResponse("GetOpenAPI", w) = {a}
    BY OpenAPIAnswer
  <2>2. a[1] = "GetOpenAPIOK"
    OBVIOUS
  <2> HIDE DEF a, w
  <2>3. CASE call[c] = <<"GetOpenAPI">>
    <3>1. call[c][1] = "GetOpenAPI"
      BY <2>3
    <3> QED BY <2>1, <2>2, <3>1, PlainUnderstood
  <2> QED BY <1>3, <2>3, OtherUnderstood
<1>5. Understood(call[c], e, p)
  <2>1. p.code = 500
    BY DEF Plain
  <2> HIDE DEF p
  <2> QED BY <2>1, ErrorUnderstood
<1> HIDE DEF a, w, e, p
<1> QED BY <1>1, <1>2, <1>4, <1>5, AnswerKeeps DEF vars, apiVars

LEMMA TurnStep ==
  ASSUME ServerInv, NEW c \in Conns, Turn(c)
  PROVE  ServerInv'
<1>1. /\ UNCHANGED <<vars, taskVars, gathered>>
      /\ \/ Serving(c, "cors")       /\ Respond(c, <<"Error", 200>>, NoBody(200))
         \/ Serving(c, "notFound")   /\ Respond(c, <<"Error", 404>>, Plain(404))
         \/ Serving(c, "notAllowed") /\ Respond(c, <<"Error", 405>>, NoBody(405))
  BY DEF Turn
<1>2. /\ Sends(call[c], Sent(c)) /\ phase[c] = "sent"
      /\ Route(Sent(c)) \in {"cors", "notFound", "notAllowed"}
  BY <1>1, RequestThere DEF Serving, ServerInv
<1>3. call[c] = <<"other">>
  BY <1>2, Routes
<1>4. PICK a, w : Respond(c, a, w)
  BY <1>1
<1>5. Understood(call[c], a, w)
  BY <1>3, OtherUnderstood
<1> QED BY <1>1, <1>2, <1>4, <1>5, AnswerKeeps DEF vars, apiVars

LEMMA GetStep ==
  ASSUME UrlAssumption, ServerAssumption,
         ServerInv, NEW c \in Conns, handleGetCommandRequest(c)
  PROVE  ServerInv'
<1> DEFINE id == PathId(Sent(c))
           notFound == <<"GetCommandNotFound", [error |-> "command not found"]>>
           Shown(t, s) == <<"CommandStatus", FullStatus(t, state[t], s)>>
<1>1. Serving(c, "getCommand") /\ UNCHANGED <<taskVars, gathered>>
  BY DEF handleGetCommandRequest
<1>2. Sends(call[c], Sent(c)) /\ phase[c] = "sent" /\ Route(Sent(c)) = "getCommand"
  BY <1>1, RequestThere DEF Serving, ServerInv
<1>3. call[c] = <<"other">> \/ \E i : call[c] = <<"GetCommand", i>>
  BY <1>2, Routes
<1>4. Understood(call[c], notFound, encodeGetCommandResponse(notFound))
  <2> DEFINE w == encodeGetCommandResponse(notFound)
  <2>1. decodeResponse("GetCommand", w) = {notFound}
    BY GetAnswer
  <2>2. notFound[1] = "GetCommandNotFound"
    OBVIOUS
  <2> HIDE DEF notFound, w
  <2>3. ASSUME NEW i, call[c] = <<"GetCommand", i>> PROVE Understood(call[c], notFound, w)
    <3>1. call[c][1] = "GetCommand"
      BY <2>3
    <3> QED BY <2>1, <2>2, <3>1, PlainUnderstood
  <2>4. Understood(call[c], notFound, w)
    BY <1>3, <2>3, OtherUnderstood
  <2> QED BY <2>4 DEF w
<1>5. ASSUME NEW t \in Tasks, NEW s \in Statuses, reply[t] = "202"
      PROVE  Understood(call[c], Shown(t, s), encodeGetCommandResponse(Shown(t, s)))
  <2> DEFINE x == FullStatus(t, state[t], s)
             a == <<"CommandStatus", x>>
             w == encodeGetCommandResponse(a)
  <2>1. Tells(x) /\ x.command_id = t
    BY FullStatusTells DEF ServerInv
  <2> HIDE DEF x
  <2>2. decodeResponse("GetCommand", w) = {<<"CommandStatus", Rounded(x)>>}
    BY <2>1, GetAnswer DEF Tells
  <2>3. Read(a) = <<"CommandStatus", Rounded(x)>>
    BY DEF Read
  <2>4. StatusesIn(<<"CommandStatus", Rounded(x)>>) = {Rounded(x)}
    BY DEF StatusesIn
  <2>5. Echoes(Rounded(x))
    BY <1>5, <2>1, RoundedKeeps DEF Tells, Echoes, IsStatus
  <2> HIDE DEF a, w
  <2>6. ASSUME NEW i, call[c] = <<"GetCommand", i>> PROVE Understood(call[c], a, w)
    <3>1. call[c][1] = "GetCommand"
      BY <2>6
    <3> QED BY <2>2, <2>3, <2>4, <2>5, <3>1 DEF Understood
  <2>7. Understood(call[c], a, w)
    BY <1>3, <2>6, OtherUnderstood
  <2> QED BY <2>7 DEF a, w, x
<1>6. CASE id = {} /\ Reject(c, 400) /\ UNCHANGED vars
  <2> DEFINE e == <<"Error", 400>>
             w == DefaultErrorHandler(400)
  <2>1. w.code = 400
    BY DEF DefaultErrorHandler, Json
  <2>2. Respond(c, e, w)
    BY <1>6 DEF Reject
  <2> HIDE DEF w
  <2>3. Understood(call[c], e, w)
    BY <2>1, ErrorUnderstood
  <2> HIDE DEF e
  <2> QED BY <1>1, <1>2, <1>6, <2>2, <2>3, AnswerKeeps DEF vars, apiVars
<1>7. CASE Respond(c, notFound, encodeGetCommandResponse(notFound)) /\ UNCHANGED vars
  BY <1>1, <1>2, <1>4, <1>7, AnswerKeeps DEF vars, apiVars
<1>8. ASSUME NEW t \in Tasks, NEW s \in Statuses \cup {"404"}, GetCommand(t, s),
             LET a == IF s = "404" THEN notFound ELSE Shown(t, s)
             IN  Respond(c, a, encodeGetCommandResponse(a))
      PROVE  ServerInv'
  <2>1. reply[t] = "202" /\ UNCHANGED <<queueVars, reply, cursor, page, steady>>
    BY <1>8 DEF GetCommand
  <2>2. ApiNext
    BY <1>8 DEF ApiNext
  <2> DEFINE a == IF s = "404" THEN notFound ELSE Shown(t, s)
             w == encodeGetCommandResponse(a)
  <2>3. Understood(call[c], a, w)
    <3>1. CASE s = "404"
      BY <1>4, <3>1
    <3>2. CASE s # "404"
      BY <1>5, <2>1, <3>2
    <3> QED BY <3>1, <3>2
  <2>4. Respond(c, a, w)
    BY <1>8
  <2> HIDE DEF a, w
  <2> QED BY <1>1, <1>2, <2>1, <2>2, <2>3, <2>4, AnswerKeeps
<1> QED BY <1>6, <1>7, <1>8 DEF handleGetCommandRequest

(***************************************************************************)
(* CreateCommand.                                                          *)
(***************************************************************************)
\* What the handler is given is what was asked for.
LEMMA DecodedAsAsked ==
  ASSUME UrlAssumption, ServerAssumption, NEW op, NEW r, Sends(op, r),
         Route(r) = "createCommand", Refused(r) = 0, NEW s \in Decoded(r)
  PROVE  /\ op = <<"other">> \/ \E x : op = <<"CreateCommand", x>>
         /\ IsCommandRequest(s) /\ WrittenAsUrl(s)
         /\ Canonical(s) = Canonical(IF op[1] = "other" THEN s ELSE op[2])
<1>1. CASE op = <<"other">> /\ r \in OtherRequests
  <2>1. PICK b \in r.body : DecodeCommandRequest(b.doc) # {}
    BY DEF Refused
  <2>2. r.body = {b} /\ IsDocument(b.doc)
    <3>1. IsOpt(r.body) /\ IsDocument(b.doc)
      BY <1>1, <2>1, Zenon DEF ServerAssumption
    <3> QED BY <3>1 DEF IsOpt
  <2>3. s \in DecodeCommandRequest(b.doc)
    BY <2>2, TheOnly DEF Decoded
  <2>4. IsCommandRequest(s) /\ WrittenAsUrl(s)
    BY <2>2, <2>3, DecodedIsRequest
  <2>5. op[1] = "other"
    BY <1>1
  <2> QED BY <1>1, <2>4, <2>5
<1>2. ASSUME NEW x \in Asked, op = <<"CreateCommand", x>>,
             r = Request("POST", CommandsPath, encodeCreateCommandRequest(x))
      PROVE  /\ IsCommandRequest(s) /\ WrittenAsUrl(s)
             /\ Canonical(s) = Canonical(IF op[1] = "other" THEN s ELSE op[2])
  <2> DEFINE b == [doc |-> EncodeCommandRequest(x), trailing |-> FALSE]
  <2>1. r.body = {b} /\ b.doc = EncodeCommandRequest(x)
    BY <1>2 DEF Request, encodeCreateCommandRequest
  <2> HIDE DEF b
  <2>2. s \in DecodeCommandRequest(EncodeCommandRequest(x))
    BY <2>1, TheOnly DEF Decoded
  <2>3. IsCommandRequest(x)
    BY DEF ServerAssumption
  <2>4. DecodeCommandRequest(EncodeCommandRequest(x))
          = IF x.webhook \subseteq DOMAIN UrlForm THEN {UrlWritten(x)} ELSE {}
    BY <2>3, CommandRequestBack
  <2>5. x.webhook \subseteq DOMAIN UrlForm /\ s = UrlWritten(x)
    BY <2>2, <2>4
  <2>6. IsCommandRequest(s) /\ WrittenAsUrl(s) /\ Canonical(s) = Canonical(x)
    BY <2>3, <2>5, CanonicalOfWritten
  <2>7. op[1] = "CreateCommand" /\ op[2] = x
    BY <1>2
  <2> QED BY <2>6, <2>7
<1>3. \/ op = <<"other">> /\ r \in OtherRequests
      \/ \E x \in Asked : /\ op = <<"CreateCommand", x>>
                           /\ r = Request("POST", CommandsPath, encodeCreateCommandRequest(x))
  BY Routes
<1> QED BY <1>1, <1>2, <1>3

\* What CreateCommand does to its command, and leaves of the others.
LEMMA CreateFrom ==
  ASSUME ApiInv, Replied, NEW t \in Tasks, NEW q, CreateCommand(t, q)
  PROVE  /\ reply[t] = "none" /\ reply'[t] \in {"202", "400", "500"}
         /\ \A u \in Tasks \ {t} : reply'[u] = reply[u] /\ state'[u] = state[u]
         /\ UNCHANGED <<cursor, page>>
         /\ \A d \in Conns : steady'[d] \subseteq steady[d]
<1>1. /\ reply[t] = "none" /\ reply'[t] \in {"202", "400", "500"}
      /\ \A u \in Tasks \ {t} : reply'[u] = reply[u]
  BY DEF ApiInv, ApiTypeOK, CreateCommand
<1>2. \A u \in Tasks \ {t} : state'[u] = state[u]
  BY DEF ApiInv, ApiTypeOK, QueueTypeOK, CreateCommand, Enqueue, Move, queueVars
<1>3. UNCHANGED <<cursor, page>> /\ \A d \in Conns : steady'[d] \subseteq steady[d]
  BY DEF CreateCommand, Watch
<1> QED BY <1>1, <1>2, <1>3

LEMMA FieldsIsRequest ==
  ASSUME ServerAssumption, NEW s
  PROVE  Fields(s) \in Requests
BY DEF ServerAssumption, Fields

LEMMA CreateStep ==
  ASSUME UrlAssumption, ServerAssumption,
         ServerInv, NEW c \in Conns, handleCreateCommandRequest(c)
  PROVE  ServerInv'
<1> DEFINE r == Sent(c)
<1>1. Serving(c, "createCommand") /\ UNCHANGED gathered
  BY DEF handleCreateCommandRequest
<1>2. Sends(call[c], r) /\ phase[c] = "sent" /\ Route(r) = "createCommand"
  BY <1>1, RequestThere DEF Serving, ServerInv
<1>3. CASE Refused(r) # 0 /\ Reject(c, Refused(r)) /\ UNCHANGED <<vars, taskVars>>
  <2> DEFINE code == Refused(r)
             e == <<"Error", code>>
             w == DefaultErrorHandler(code)
  <2>1. code \in {0, 400, 415}
    BY DEF Refused
  <2>2. w.code = code
    BY DEF DefaultErrorHandler, Json
  <2>3. Respond(c, e, w)
    BY <1>3 DEF Reject
  <2> HIDE DEF w, code, r
  <2>4. Understood(call[c], e, w)
    BY <2>1, <2>2, ErrorUnderstood
  <2> HIDE DEF e
  <2> QED BY <1>1, <1>2, <1>3, <2>3, <2>4, AnswerKeeps DEF vars, apiVars
<1>4. ASSUME Refused(r) = 0, NEW s \in Decoded(r), Invalid(Fields(s)),
             Respond(c, BadRequest, encodeCreateCommandResponse(BadRequest)),
             UNCHANGED <<vars, taskVars>>
      PROVE  ServerInv'
  <2> DEFINE w == encodeCreateCommandResponse(BadRequest)
  <2>1. call[c] = <<"other">> \/ \E x : call[c] = <<"CreateCommand", x>>
    BY <1>2, <1>4, DecodedAsAsked
  <2>2. decodeResponse("CreateCommand", w) = {BadRequest}
    BY CreateAnswer DEF BadRequest
  <2>3. BadRequest[1] = "CreateCommandBadRequest"
    BY DEF BadRequest
  <2> HIDE DEF w
  <2>4. ASSUME NEW x, call[c] = <<"CreateCommand", x>> PROVE Understood(call[c], BadRequest, w)
    <3>1. call[c][1] = "CreateCommand"
      BY <2>4
    <3> QED BY <2>2, <2>3, <3>1, PlainUnderstood
  <2>5. Understood(call[c], BadRequest, w)
    BY <2>1, <2>4, OtherUnderstood
  <2> QED BY <1>1, <1>2, <1>4, <2>5, AnswerKeeps DEF vars, apiVars, w
<1>5. ASSUME Refused(r) = 0, NEW s \in Decoded(r), NEW t \in Tasks,
             ~Invalid(Fields(s)), CreateCommand(t, Fields(s)),
             Put(t, s, IF call[c][1] = "other" THEN s ELSE call[c][2]), Created(c, t, s)
      PROVE  ServerInv'
  <2> DEFINE s0 == IF call[c][1] = "other" THEN s ELSE call[c][2]
  <2>1. /\ call[c] = <<"other">> \/ \E x : call[c] = <<"CreateCommand", x>>
        /\ IsCommandRequest(s) /\ WrittenAsUrl(s) /\ Canonical(s) = Canonical(s0)
    BY <1>2, <1>5, DecodedAsAsked
  <2>2. /\ reply[t] = "none" /\ reply'[t] \in {"202", "400", "500"}
        /\ \A u \in Tasks \ {t} : reply'[u] = reply[u] /\ state'[u] = state[u]
        /\ UNCHANGED <<cursor, page>>
        /\ \A d \in Conns : steady'[d] \subseteq steady[d]
    BY <1>5, CreateFrom DEF ServerInv
  <2>3. ApiInv'
    <3>1. ApiNext
      BY <1>5, FieldsIsRequest DEF ApiNext
    <3> QED BY <3>1, ApiInvStep DEF ServerInv
  <2> HIDE DEF s0
  <2>4. /\ UNCHANGED results
        /\ \A u \in Tasks \ {t} : payload'[u] = payload[u] /\ asked'[u] = asked[u]
        /\ \/ UNCHANGED <<payload, asked>>
           \/ /\ payload'[t] = {MarshalRequest(WorkerCommandRequest(s))}
              /\ asked'[t] = {s0}
        /\ DOMAIN payload' = Tasks /\ DOMAIN asked' = Tasks
    BY <1>5 DEF Put, s0, taskVars, ServerInv, Domains
  <2>5. Settled
    BY <2>2, <2>4 DEF Settled
  <2>6. Replied'
    BY <2>2 DEF Replied, ServerInv
  <2>7. Carried'
    <3> SUFFICES ASSUME NEW u \in Tasks
                 PROVE  /\ results'[u] = {} \/ \E x \in Results : results'[u] = {MarshalResult(x)}
                        /\ \/ payload'[u] = {} /\ asked'[u] = {}
                           \/ \E y, y0 :
                                /\ IsCommandRequest(y) /\ WrittenAsUrl(y)
                                /\ Canonical(y) = Canonical(y0)
                                /\ payload'[u] = {MarshalRequest(WorkerCommandRequest(y))}
                                /\ asked'[u] = {y0}
      BY DEF Carried
    <3>1. CASE payload'[u] = payload[u] /\ asked'[u] = asked[u]
      BY <2>4, <3>1 DEF ServerInv, Carried
    <3>2. CASE u = t /\ payload'[t] = {MarshalRequest(WorkerCommandRequest(s))} /\ asked'[t] = {s0}
      BY <2>1, <2>4, <3>2 DEF ServerInv, Carried
    <3> QED BY <2>4, <3>1, <3>2
  <2>8. PICK a : /\ Respond(c, a, encodeCreateCommandResponse(a))
                 /\ decodeResponse("CreateCommand", encodeCreateCommandResponse(a)) = {a}
                 /\ a[1] \notin {"CommandStatus", "CommandListResponse"}
    <3> DEFINE x == [command_id |-> t, status |-> "PENDING", reference_id |-> s.reference_id]
               yes == <<"CommandResponse", x>>
               no == <<"CreateCommandInternalServerError", [error |-> "enqueue failed"]>>
    <3>1. \/ Respond(c, yes, encodeCreateCommandResponse(yes))
          \/ Respond(c, no, encodeCreateCommandResponse(no))
      BY <1>5 DEF Created
    <3>2. IsCommandResponse(x) /\ x.status \in StatusEnum
      <4>1. /\ x = [command_id |-> x.command_id, status |-> x.status, reference_id |-> x.reference_id]
            /\ x.reference_id = s.reference_id /\ x.status = "PENDING"
        OBVIOUS
      <4> QED BY <2>1, <4>1 DEF IsCommandResponse, IsCommandRequest, StatusEnum
    <3> HIDE DEF x
    <3>3. decodeResponse("CreateCommand", encodeCreateCommandResponse(yes)) = {yes}
      BY <3>2, CreateAnswer
    <3>4. decodeResponse("CreateCommand", encodeCreateCommandResponse(no)) = {no}
      BY CreateAnswer
    <3>5. yes[1] = "CommandResponse" /\ no[1] = "CreateCommandInternalServerError"
      OBVIOUS
    <3> HIDE DEF yes, no
    <3> QED BY <3>1, <3>3, <3>4, <3>5
  <2> DEFINE w == encodeCreateCommandResponse(a)
  <2>9. Understood(call[c], a, w)
    <3> HIDE DEF w
    <3>1. ASSUME NEW x, call[c] = <<"CreateCommand", x>> PROVE Understood(call[c], a, w)
      <4>1. call[c][1] = "CreateCommand"
        BY <3>1
      <4> QED BY <2>8, <4>1, PlainUnderstood DEF w
    <3> QED BY <2>1, <3>1, OtherUnderstood
  <2> HIDE DEF w
  <2>10. /\ CallInv(c)' /\ phase'[c] = "answered"
         /\ phase' \in [Conns -> Phases] /\ DOMAIN answer' = Conns /\ DOMAIN wire' = Conns
         /\ UNCHANGED <<call, req, got>>
         /\ \A d \in Conns \ {c} :
              phase'[d] = phase[d] /\ answer'[d] = answer[d] /\ wire'[d] = wire[d]
    <3>1. Respond(c, a, w)
      BY <2>8 DEF w
    <3> QED BY <1>2, <2>5, <2>9, <3>1, RespondKeeps DEF ServerInv
  <2>11. Domains'
    BY <1>1, <2>4, <2>10 DEF ServerInv, Domains
  <2>12. \A d \in Conns \ {c} : SameAt(d)
    BY <1>1, <2>2, <2>10 DEF SameAt
  <2>13. ListInvariant(c)'
    <3>1. cursor[c] = 0 /\ ListInvariant(c)
      BY <1>2 DEF ServerInv, ListInvariant
    <3>2. \A e \in page[c] : e.id \in Tasks
      BY DEF ListEntry, ServerInv, ApiInv, ApiTypeOK
    <3>3. \A i \in DOMAIN gathered[c] : Tells(gathered[c][i])' /\ Echoes(gathered[c][i])'
      <4> SUFFICES ASSUME NEW i \in DOMAIN gathered[c]
                   PROVE  Tells(gathered[c][i])' /\ Echoes(gathered[c][i])'
        OBVIOUS
      <4>1. Tells(gathered[c][i]) /\ Echoes(gathered[c][i])
        BY <3>1 DEF ListInvariant
      <4>2. gathered'[c][i] = gathered[c][i]
        BY <1>1
      <4> QED BY <2>5, <4>1, <4>2 DEF Settled, Tells, Echoes
    <3>4. /\ phase'[c] = "answered" /\ cursor'[c] = cursor[c] /\ page'[c] = page[c]
          /\ gathered' = gathered /\ steady'[c] \subseteq steady[c]
      BY <1>1, <2>2, <2>10
    <3> QED BY <2>5, <3>1, <3>2, <3>3, <3>4 DEF ListInvariant, Settled
  <2>14. \A d \in Conns : CallInv(d)' /\ ListInvariant(d)'
    BY <2>5, <2>10, <2>12, <2>13, OthersStay
  <2> QED BY <2>3, <2>6, <2>7, <2>11, <2>14 DEF ServerInv
<1> QED BY <1>3, <1>4, <1>5 DEF handleCreateCommandRequest

(***************************************************************************)
(* ListCommands.                                                           *)
(***************************************************************************)
LEMMA FiniteEntries ==
  ASSUME NEW P, P \subseteq Tasks, IsFiniteSet(Tasks)
  PROVE  IsFiniteSet({Entry(t) : t \in P})
<1> DEFINE f == [t \in P |-> Entry(t)]
           F == {Entry(t) : t \in P}
<1>1. IsFiniteSet(P)
  BY FS_Subset
<1>2. f \in Surjection(P, F)
  BY DEF Surjection
<1> HIDE DEF f, F
<1> QED BY <1>1, <1>2, FS_Surjection DEF F

LEMMA FiniteStatuses ==
  ASSUME NEW S, IsFiniteSet(S)
  PROVE  IsFiniteSet({FullStatus(e.id, e.list, e.status) : e \in S})
<1> DEFINE f == [e \in S |-> FullStatus(e.id, e.list, e.status)]
           F == {FullStatus(e.id, e.list, e.status) : e \in S}
<1>1. f \in Surjection(S, F)
  BY DEF Surjection
<1> HIDE DEF f, F
<1> QED BY <1>1, FS_Surjection DEF F

\* Every status found tells of its command.
LEMMA FoundTells ==
  ASSUME UrlAssumption, ServerAssumption, Carried, NEW S, IsFiniteSet(S),
         \A e \in S : e.id \in Tasks /\ e.status \in Statuses /\ reply[e.id] # "none"
  PROVE  LET found == SetToSeq({FullStatus(e.id, e.list, e.status) : e \in S})
         IN  /\ IsSeq(found)
             /\ \A i \in DOMAIN found : Tells(found[i]) /\ Echoes(found[i])
<1> DEFINE F == {FullStatus(e.id, e.list, e.status) : e \in S}
           found == SetToSeq(F)
<1>1. \A x \in F : Tells(x) /\ Echoes(x)
  <2> SUFFICES ASSUME NEW e \in S
               PROVE  LET x == FullStatus(e.id, e.list, e.status) IN Tells(x) /\ Echoes(x)
    OBVIOUS
  <2> DEFINE x == FullStatus(e.id, e.list, e.status)
  <2>1. Tells(x) /\ x.command_id = e.id
    BY FullStatusTells
  <2> HIDE DEF x
  <2>2. Echoes(x)
    BY <2>1 DEF Tells, Echoes
  <2> QED BY <2>1, <2>2 DEF x
<1>2. IsFiniteSet(F)
  BY FiniteStatuses
<1> HIDE DEF F
<1>3. found \in Seq(F)
  BY <1>2, Enumerated
<1> HIDE DEF found
<1>4. \A i \in DOMAIN found : found[i] \in F
  BY <1>3
<1>5. IsSeq(found)
  BY <1>3 DEF IsSeq
<1>6. \A i \in DOMAIN found : Tells(found[i]) /\ Echoes(found[i])
  BY <1>1, <1>4
<1> QED BY <1>5, <1>6 DEF found, F

LEMMA ListUnderstood ==
  ASSUME NEW op, op = <<"other">> \/ op = <<"ListCommands">>, NEW l, IsSeq(l),
         \A i \in DOMAIN l : Tells(l[i]) /\ Echoes(l[i])
  PROVE  LET a == <<"CommandListResponse", [commands |-> l, total |-> Len(l)]>>
         IN  Understood(op, a, encodeListCommandsResponse(a))
<1> DEFINE k == [i \in DOMAIN l |-> Rounded(l[i])]
           a == <<"CommandListResponse", [commands |-> l, total |-> Len(l)]>>
           y == [commands |-> k, total |-> Len(l)]
           z == <<"CommandListResponse", y>>
           w == encodeListCommandsResponse(a)
<1>1. decodeResponse("ListCommands", w) = {z} /\ Read(a) = z
  BY ListAnswer DEF Tells
<1>2. DOMAIN k = DOMAIN l /\ \A i \in DOMAIN l : k[i] = Rounded(l[i])
  OBVIOUS
<1>3. \A i \in DOMAIN l : Echoes(Rounded(l[i]))
  <2> SUFFICES ASSUME NEW i \in DOMAIN l PROVE Echoes(Rounded(l[i]))
    OBVIOUS
  <2>1. Tells(l[i]) /\ Echoes(l[i])
    OBVIOUS
  <2>2. /\ Rounded(l[i]).command_id = l[i].command_id
        /\ Rounded(l[i]).original_request = l[i].original_request
    BY <2>1, RoundedKeeps DEF Tells, IsStatus
  <2> QED BY <2>1, <2>2 DEF Echoes
<1> HIDE DEF k
<1>4. StatusesIn(z) = {k[i] : i \in DOMAIN k}
  BY DEF StatusesIn
<1> HIDE DEF a, y, z, w
<1>5. \A s \in StatusesIn(z) : Echoes(s)
  BY <1>2, <1>3, <1>4
<1>6. CASE op = <<"ListCommands">>
  <2>1. op[1] = "ListCommands"
    BY <1>6
  <2> QED BY <1>1, <1>5, <2>1 DEF Understood, a, w
<1>7. Understood(op, a, w)
  BY <1>6, OtherUnderstood DEF a, w
<1> QED BY <1>7 DEF a, w

LEMMA ListStep ==
  ASSUME UrlAssumption, ServerAssumption,
         ServerInv, NEW c \in Conns, handleListCommandsRequest(c)
  PROVE  ServerInv'
<1> DEFINE list  == Lists[cursor[c] + 1]
           S == {e \in page'[c] : e.list = list}
           found == SetToSeq({FullStatus(e.id, e.list, e.status) : e \in S})
           l == gathered'[c]
           a == <<"CommandListResponse", [commands |-> l, total |-> Len(l)]>>
<1>1. /\ phase[c] = "listing" \/ Serving(c, "listCommands")
      /\ ListNext(c)
      /\ gathered' = [gathered EXCEPT ![c] = @ \o found]
      /\ IF cursor'[c] = Done
         THEN Respond(c, a, encodeListCommandsResponse(a))
         ELSE /\ phase' = [phase EXCEPT ![c] = "listing"]
              /\ UNCHANGED <<call, req, answer, wire, got>>
      /\ UNCHANGED taskVars
  BY DEF handleListCommandsRequest
<1>2. /\ Sends(call[c], Sent(c)) /\ phase[c] \in {"sent", "listing"}
      /\ Route(Sent(c)) = "listCommands"
  BY <1>1, RequestThere DEF Serving, ServerInv, CallInv
<1>3. call[c] = <<"other">> \/ call[c] = <<"ListCommands">>
  BY <1>2, Routes
<1>4. ApiInv' /\ UNCHANGED <<queueVars, reply>>
  <2>1. ApiNext
    BY <1>1 DEF ApiNext
  <2> QED BY <1>1, <2>1, ApiInvStep DEF ServerInv, ListNext
<1>5. Settled /\ Replied' /\ Carried'
  BY <1>1, <1>4 DEF ServerInv, Settled, Replied, Carried, queueVars, taskVars
<1>6. /\ list \in {"active", "pending", "completed", "archived"}
      /\ cursor' = [cursor EXCEPT ![c] = @ + 1]
      /\ cursor'[c] \in 1 .. Done
  BY <1>1, ListGathers DEF ServerInv, ApiInv
<1>7. PICK P \in SUBSET {t \in Tasks : state[t] = list} :
        /\ page' = [page EXCEPT ![c] = @ \cup {Entry(t) : t \in P}]
        /\ steady' = [steady EXCEPT ![c] =
                        Began(c) \ (IF P = {t \in Tasks : state[t] = list} THEN {}
                                    ELSE {t \in Tasks : state[t] = list})]
  BY <1>1, ListGathers DEF ServerInv, ApiInv
<1> HIDE DEF list
<1>8. /\ page'[c] = page[c] \cup {Entry(t) : t \in P}
      /\ \A d \in Conns \ {c} : /\ page'[d] = page[d] /\ cursor'[d] = cursor[d]
                                /\ steady'[d] = steady[d] /\ gathered'[d] = gathered[d]
      /\ gathered'[c] = gathered[c] \o found /\ DOMAIN gathered' = Conns
  <2> HIDE DEF found
  <2>1. DOMAIN gathered = Conns
    BY DEF ServerInv, Domains
  <2>2. gathered' = [gathered EXCEPT ![c] = @ \o found]
    BY <1>1
  <2>3. page \in [Conns -> SUBSET ListEntry]
        /\ cursor \in [Conns -> 0 .. Done] /\ steady \in [Conns -> SUBSET Tasks]
    BY DEF ServerInv, ApiInv, ApiTypeOK
  <2> QED BY <1>6, <1>7, <2>1, <2>2, <2>3
<1>9. /\ IsFiniteSet(page'[c])
      /\ \A e \in page'[c] : e.id \in Tasks /\ e.status \in Statuses /\ reply[e.id] # "none"
  <2>1. ListInvariant(c)
    BY DEF ServerInv
  <2>2. IsFiniteSet({Entry(t) : t \in P})
    BY FiniteEntries DEF ServerAssumption
  <2>3. \A e \in page'[c] : e.id \in Tasks /\ e.status \in Statuses
    BY <1>4 DEF ListEntry, ApiInv, ApiTypeOK
  <2>4. \A t \in P : reply[Entry(t).id] # "none"
    <3> SUFFICES ASSUME NEW t \in P PROVE reply[Entry(t).id] # "none"
      OBVIOUS
    <3>1. t \in Tasks /\ state[t] # "absent"
      BY <1>6
    <3>2. Entry(t).id = t
      BY DEF Entry
    <3> QED BY <3>1, <3>2 DEF ServerInv, Replied
  <2>5. IsFiniteSet(page'[c])
    <3> DEFINE A == page[c]
               B == {Entry(t) : t \in P}
    <3>1. IsFiniteSet(A) /\ IsFiniteSet(B) /\ page'[c] = A \cup B
      BY <1>8, <2>1, <2>2 DEF ListInvariant
    <3> HIDE DEF A, B
    <3>2. IsFiniteSet(A \cup B)
      BY <3>1, FS_Union
    <3> QED BY <3>1, <3>2
  <2>6. \A e \in page'[c] : reply[e.id] # "none"
    BY <1>8, <2>1, <2>4 DEF ListInvariant
  <2> QED BY <2>3, <2>5, <2>6
<1>10. IsSeq(found) /\ \A i \in DOMAIN found : Tells(found[i]) /\ Echoes(found[i])
  <2>1. IsFiniteSet(S)
    BY <1>9, FS_Subset
  <2>2. \A e \in S : e.id \in Tasks /\ e.status \in Statuses /\ reply[e.id] # "none"
    BY <1>9
  <2> HIDE DEF S
  <2> QED BY <2>1, <2>2, FoundTells DEF ServerInv
<1> HIDE DEF found
<1>11. IsSeq(l) /\ \A i \in DOMAIN l : Tells(l[i]) /\ Echoes(l[i])
  <2> DEFINE g == gathered[c]
  <2>1. IsSeq(g) /\ \A i \in DOMAIN g : Tells(g[i]) /\ Echoes(g[i])
    BY DEF ServerInv, ListInvariant
  <2> HIDE DEF g
  <2>2. l = g \o found
    BY <1>8 DEF g
  <2> HIDE DEF l
  <2>3. IsSeq(g \o found)
    BY <1>10, <2>1, ConcatParts
  <2>4. ASSUME NEW i \in DOMAIN (g \o found)
        PROVE  \/ i \in DOMAIN g /\ (g \o found)[i] = g[i]
               \/ \E n \in DOMAIN found : (g \o found)[i] = found[n]
    <3>1. PICK A : g \in Seq(A)
      BY <2>1 DEF IsSeq
    <3>2. PICK B : found \in Seq(B)
      BY <1>10 DEF IsSeq
    <3>3. g \in Seq(A \cup B) /\ found \in Seq(A \cup B)
      BY <3>1, <3>2
    <3>4. CASE i \in 1 .. Len(g)
      BY <3>3, <3>4
    <3>5. CASE i \in Len(g) + 1 .. Len(g) + Len(found)
      <4>1. (g \o found)[i] = found[i - Len(g)] /\ i - Len(g) \in 1 .. Len(found)
        BY <3>3, <3>5
      <4> QED BY <3>3, <4>1
    <3>6. i \in 1 .. Len(g) + Len(found)
      BY <3>3
    <3> QED BY <3>3, <3>4, <3>5, <3>6
  <2> QED BY <1>10, <2>1, <2>2, <2>3, <2>4
<1> HIDE DEF l
<1>12. \A i \in DOMAIN gathered'[c] : Tells(gathered[c][i])' /\ Echoes(gathered[c][i])'
  <2> SUFFICES ASSUME NEW i \in DOMAIN gathered'[c]
               PROVE  Tells(gathered[c][i])' /\ Echoes(gathered[c][i])'
    OBVIOUS
  <2>1. Tells(l[i]) /\ Echoes(l[i])
    BY <1>11 DEF l
  <2> QED BY <1>5, <2>1 DEF l, Settled, Tells, Echoes
<1>13. CASE cursor'[c] = Done
  <2> DEFINE w == encodeListCommandsResponse(a)
  <2>1. Understood(call[c], a, w)
    BY <1>3, <1>11, ListUnderstood
  <2>2. Respond(c, a, w)
    BY <1>1, <1>13 DEF l
  <2> HIDE DEF a, w
  <2>3. /\ CallInv(c)' /\ phase'[c] = "answered"
        /\ phase' \in [Conns -> Phases] /\ DOMAIN answer' = Conns /\ DOMAIN wire' = Conns
        /\ UNCHANGED <<call, req, got>>
        /\ \A d \in Conns \ {c} :
             phase'[d] = phase[d] /\ answer'[d] = answer[d] /\ wire'[d] = wire[d]
    BY <1>2, <1>5, <2>1, <2>2, RespondKeeps DEF ServerInv
  <2>4. Domains'
    BY <1>1, <1>8, <2>3 DEF ServerInv, Domains, taskVars
  <2>5. \A d \in Conns \ {c} : SameAt(d)
    BY <1>8, <2>3 DEF SameAt
  <2>6. ListInvariant(c)'
    BY <1>4, <1>9, <1>11, <1>12, <1>13, <2>3 DEF ListInvariant, l, Done, Lists
  <2>7. \A d \in Conns : CallInv(d)' /\ ListInvariant(d)'
    BY <1>5, <2>3, <2>5, <2>6, OthersStay
  <2> QED BY <1>4, <1>5, <2>4, <2>7 DEF ServerInv
<1>14. CASE cursor'[c] # Done
  <2>1. /\ phase' = [phase EXCEPT ![c] = "listing"]
        /\ UNCHANGED <<call, req, answer, wire, got>>
    BY <1>1, <1>14
  <2>2. /\ phase'[c] = "listing" /\ \A d \in Conns \ {c} : phase'[d] = phase[d]
        /\ phase' \in [Conns -> Phases]
    BY <2>1 DEF ServerInv, Domains, Phases
  <2>3. Domains'
    BY <1>1, <1>8, <2>1, <2>2 DEF ServerInv, Domains, taskVars
  <2>4. \A d \in Conns \ {c} : SameAt(d)
    BY <1>8, <2>1, <2>2 DEF SameAt
  <2>5. CallInv(c)'
    BY <1>2, <2>1, <2>2 DEF ServerInv, CallInv, Sent
  <2>6. ListInvariant(c)'
    <3>1. cursor'[c] \in 1 .. 3
      BY <1>6, <1>14 DEF Done, Lists
    <3> QED BY <1>4, <1>9, <1>11, <1>12, <2>2, <3>1 DEF ListInvariant, l
  <2>7. \A d \in Conns : CallInv(d)' /\ ListInvariant(d)'
    BY <1>5, <2>4, <2>5, <2>6, OthersStay
  <2> QED BY <1>4, <1>5, <2>3, <2>7 DEF ServerInv
<1> QED BY <1>13, <1>14

(***************************************************************************)
(* The answer arrives, the connection is freed, the workers work.          *)
(***************************************************************************)
LEMMA ReceiveStep ==
  ASSUME ServerInv, NEW c \in Conns, Receive(c)
  PROVE  ServerInv'
<1>1. /\ UNCHANGED <<vars, taskVars, call, req, answer, wire, gathered>>
      /\ phase[c] = "answered"
  BY DEF Receive
<1>2. ApiInv' /\ Replied' /\ Carried' /\ Settled
  <2>1. ApiInv'
    BY <1>1, ApiInvStep DEF ServerInv
  <2>2. Replied' /\ Carried' /\ Settled
    BY <1>1 DEF ServerInv, vars, queueVars, apiVars, taskVars, Replied, Carried, Settled
  <2> QED BY <2>1, <2>2
<1>3. /\ phase'[c] = "received" /\ got'[c] = decodeResponse(call[c][1], wire[c])
      /\ \A d \in Conns \ {c} : phase'[d] = phase[d] /\ got'[d] = got[d]
      /\ phase' \in [Conns -> Phases] /\ DOMAIN got' = Conns
  BY DEF Receive, ServerInv, Domains, Phases
<1>4. Domains'
  BY <1>1, <1>3 DEF ServerInv, Domains, taskVars
<1>5. \A d \in Conns \ {c} : SameAt(d)
  BY <1>1, <1>3 DEF SameAt, vars, apiVars
<1>6. CallInv(c)'
  <2>1. CallInv(c) /\ call' = call /\ req' = req /\ answer' = answer /\ wire' = wire
    BY <1>1 DEF ServerInv
  <2>2. Understood(call[c], answer[c], wire[c])
    BY <1>1, <2>1 DEF CallInv
  <2>3. Understood(call[c], answer[c], wire[c])'
    <3>1. UNCHANGED <<reply, asked>>
      BY <1>1 DEF vars, apiVars, taskVars
    <3> QED BY <2>1, <2>2, <3>1 DEF Understood, Echoes
  <2> QED BY <1>1, <1>3, <2>1, <2>3 DEF CallInv
<1>7. ListInvariant(c)'
  <2>1. /\ cursor'[c] = cursor[c] /\ page'[c] = page[c] /\ steady'[c] = steady[c]
        /\ gathered'[c] = gathered[c] /\ reply' = reply /\ asked' = asked
    BY <1>1 DEF vars, apiVars, taskVars
  <2>2. ListInvariant(c)
    BY DEF ServerInv
  <2> QED BY <1>1, <1>3, <2>1, <2>2 DEF ListInvariant, Tells, Echoes
<1>8. \A d \in Conns : CallInv(d)' /\ ListInvariant(d)'
  BY <1>2, <1>5, <1>6, <1>7, OthersStay
<1> QED BY <1>2, <1>4, <1>8 DEF ServerInv

\* Freeing a connection ends its ListCommands call, if it served one.
LEMMA FinishEnds ==
  ASSUME ServerInv, NEW c \in Conns, Finish(c)
  PROVE  CallEnds(c) \/ UNCHANGED vars
<1>1. cursor[c] \in {0, Done}
  BY DEF Finish, ServerInv, ListInvariant
<1>2. CASE cursor[c] = Done
  BY <1>2 DEF Finish, CallEnds
<1>3. CASE cursor[c] = 0
  <2>1. page[c] = {} /\ steady[c] = {}
    BY <1>3 DEF ServerInv, ApiInv, SteadyListed, ListInvariant
  <2>2. cursor' = cursor /\ page' = page /\ steady' = steady
    BY <1>3, <2>1 DEF Finish, ServerInv, ApiInv, ApiTypeOK
  <2> QED BY <2>2 DEF Finish, vars, apiVars
<1> QED BY <1>1, <1>2, <1>3

LEMMA FinishStep ==
  ASSUME ServerInv, NEW c \in Conns, Finish(c)
  PROVE  ServerInv'
<1>1. UNCHANGED <<queueVars, reply, told, unread, taskVars>>
  BY DEF Finish
<1>2. ApiInv' /\ Replied' /\ Carried' /\ Settled
  <2>1. ApiInv'
    BY FinishEnds, ApiInvStep DEF ServerInv, ApiNext
  <2>2. Replied' /\ Carried' /\ Settled
    BY <1>1 DEF ServerInv, queueVars, taskVars, Replied, Carried, Settled
  <2> QED BY <2>1, <2>2
<1>3. /\ phase'[c] = "idle" /\ got'[c] = {} /\ gathered'[c] = <<>>
      /\ \A d \in Conns \ {c} :
           /\ phase'[d] = phase[d] /\ call'[d] = call[d] /\ req'[d] = req[d]
           /\ answer'[d] = answer[d] /\ wire'[d] = wire[d] /\ got'[d] = got[d]
           /\ gathered'[d] = gathered[d]
      /\ phase' \in [Conns -> Phases]
      /\ DOMAIN call' = Conns /\ DOMAIN req' = Conns /\ DOMAIN answer' = Conns
      /\ DOMAIN wire' = Conns /\ DOMAIN got' = Conns /\ DOMAIN gathered' = Conns
  BY DEF Finish, ServerInv, Domains, Phases
<1>4. /\ cursor'[c] = 0 /\ page'[c] = {} /\ steady'[c] = {}
      /\ \A d \in Conns \ {c} :
           cursor'[d] = cursor[d] /\ page'[d] = page[d] /\ steady'[d] = steady[d]
  BY DEF Finish, ServerInv, ApiInv, ApiTypeOK
<1>5. Domains'
  BY <1>1, <1>3 DEF ServerInv, Domains, taskVars
<1>6. \A d \in Conns \ {c} : SameAt(d)
  BY <1>3, <1>4 DEF SameAt
<1>7. CallInv(c)'
  BY <1>3 DEF CallInv
<1>8. ListInvariant(c)'
  <2>1. <<>> \in Seq({}) /\ DOMAIN <<>> = {}
    OBVIOUS
  <2>2. IsSeq(gathered'[c]) /\ DOMAIN gathered'[c] = {}
    BY <1>3, <2>1 DEF IsSeq
  <2> QED BY <1>3, <1>4, <2>2, FS_EmptySet DEF ListInvariant
<1>9. \A d \in Conns : CallInv(d)' /\ ListInvariant(d)'
  BY <1>2, <1>6, <1>7, <1>8, OthersStay
<1> QED BY <1>2, <1>5, <1>9 DEF ServerInv

LEMMA ResultStep ==
  ASSUME ServerInv, NEW t \in Tasks, NEW r \in Results, WriteResult(t, r)
  PROVE  ServerInv'
<1>1. UNCHANGED <<vars, payload, asked, httpVars, gathered>>
  BY DEF WriteResult
<1>2. /\ DOMAIN results' = Tasks /\ results'[t] = {MarshalResult(r)}
      /\ \A u \in Tasks \ {t} : results'[u] = results[u]
  BY DEF WriteResult, ServerInv, Domains
<1>3. ApiInv' /\ Replied' /\ Settled
  <2>1. ApiInv'
    BY <1>1, ApiInvStep DEF ServerInv
  <2>2. Replied' /\ Settled
    BY <1>1 DEF ServerInv, vars, queueVars, apiVars, Replied, Settled
  <2> QED BY <2>1, <2>2
<1>4. Carried'
  <2>1. \A u \in Tasks : results'[u] = {} \/ \E x \in Results : results'[u] = {MarshalResult(x)}
    BY <1>2 DEF ServerInv, Carried
  <2> QED BY <1>1, <2>1 DEF ServerInv, Carried
<1>5. Domains'
  BY <1>1, <1>2 DEF ServerInv, Domains, httpVars
<1>6. \A d \in Conns : SameAt(d)
  BY <1>1 DEF SameAt, vars, apiVars, httpVars
<1>7. \A d \in Conns : CallInv(d)' /\ ListInvariant(d)'
  BY <1>3, <1>6, OthersStay
<1> QED BY <1>3, <1>4, <1>5, <1>7 DEF ServerInv

LEMMA WorkStep ==
  ASSUME ServerInv, Work
  PROVE  ServerInv'
<1>1. /\ \/ \E t \in Tasks : WorkerStep(t)
         \/ \E lost \in SUBSET Tasks : LeasesEnd(lost)
      /\ UNCHANGED <<taskVars, httpVars, gathered>>
  BY DEF Work
<1>2. UNCHANGED <<reply, told, unread, cursor, page>> /\ \A d \in Conns : steady'[d] \subseteq steady[d]
  BY <1>1 DEF WorkerStep, Watch, LeasesEnd, apiVars
<1>3. ApiInv'
  BY <1>1, ApiInvStep DEF ServerInv, ApiNext
<1>4. Replied'
  <2>1. \A u \in Tasks : state[u] = "absent" => state'[u] = "absent"
    <3> SUFFICES ASSUME NEW u \in Tasks, state[u] = "absent" PROVE state'[u] = "absent"
      OBVIOUS
    <3>1. state \in [Tasks -> States]
      BY DEF ServerInv, ApiInv, ApiTypeOK, QueueTypeOK
    <3>2. CASE \E lost \in SUBSET Tasks : LeasesEnd(lost)
      BY <3>2 DEF LeasesEnd
    <3>3. ASSUME NEW t \in Tasks, WorkerStep(t)
          PROVE  state[t] # "absent" /\ \A w \in Tasks \ {t} : state'[w] = state[w]
      BY <3>1, <3>3 DEF WorkerStep, Dequeue, Complete, Requeue, Fail, Recover, Forward,
                  Expire, PutBack, Spare, Retry, Archive, Move
    <3> QED BY <1>1, <3>2, <3>3
  <2> QED BY <1>2, <2>1 DEF ServerInv, Replied
<1>5. Carried' /\ Settled
  BY <1>1, <1>2 DEF ServerInv, taskVars, Carried, Settled
<1>6. Domains'
  BY <1>1 DEF ServerInv, Domains, httpVars, taskVars
<1>7. \A d \in Conns : SameAt(d)
  BY <1>1, <1>2 DEF SameAt, httpVars
<1>8. \A d \in Conns : CallInv(d)' /\ ListInvariant(d)'
  BY <1>5, <1>7, OthersStay
<1> QED BY <1>3, <1>4, <1>5, <1>6, <1>8 DEF ServerInv

LEMMA ServerInvStep ==
  ASSUME UrlAssumption, ServerAssumption, ServerInv, [ServerNext]_allVars
  PROVE  ServerInv'
<1>1. CASE UNCHANGED allVars
  <2>1. UNCHANGED <<vars, taskVars, httpVars, gathered>>
    BY <1>1 DEF allVars
  <2>2. ApiInv' /\ Replied' /\ Carried' /\ Settled
    <3>1. ApiInv'
      BY <2>1, ApiInvStep DEF ServerInv
    <3>2. Replied' /\ Carried' /\ Settled
      BY <2>1 DEF ServerInv, vars, queueVars, apiVars, taskVars, Replied, Carried, Settled
    <3> QED BY <3>1, <3>2
  <2>3. Domains'
    BY <2>1 DEF ServerInv, Domains, httpVars, taskVars
  <2>4. \A d \in Conns : SameAt(d)
    BY <2>1 DEF SameAt, vars, apiVars, httpVars
  <2>5. \A d \in Conns : CallInv(d)' /\ ListInvariant(d)'
    BY <2>2, <2>4, OthersStay
  <2> QED BY <2>2, <2>3, <2>5 DEF ServerInv
<1>2. ASSUME NEW c \in Conns, Handle(c) PROVE ServerInv'
  BY <1>2, CreateStep, GetStep, HealthStep, ListStep, SpecStep, TurnStep DEF Handle
<1>3. ASSUME NEW c \in Conns, Receive(c) \/ Finish(c) PROVE ServerInv'
  BY <1>3, ReceiveStep, FinishStep
<1>4. ASSUME \/ \E c \in Conns, s \in Asked : sendCreateCommand(c, s)
             \/ \E c \in Conns, id \in Tasks \cup Ids : sendGetCommand(c, id)
             \/ \E c \in Conns, r \in OtherRequests : SendOther(c, r)
             \/ \E c \in Conns : sendGetOpenAPI(c) \/ sendHealthCheck(c) \/ sendListCommands(c)
      PROVE  ServerInv'
  BY <1>4, SendStep
<1>5. ASSUME \/ Work
             \/ \E t \in Tasks, r \in Results : WriteResult(t, r)
      PROVE  ServerInv'
  BY <1>5, WorkStep, ResultStep
<1> QED BY <1>1, <1>2, <1>3, <1>4, <1>5 DEF ServerNext

LEMMA ServerInvariant == ServerSpec => []ServerInv
BY UrlAssumption, ServerAssumption, ServerInvInit, ServerInvStep, PTL DEF ServerSpec

-----------------------------------------------------------------------------
\* Every answer of the handlers is read by the generated client as the handler
\* meant it (oas_response_encoders_gen.go, oas_response_decoders_gen.go).
THEOREM AnswersCorrect == ServerSpec => []AnswersDecode
<1>1. ASSUME ServerInv PROVE AnswersDecode
  <2> SUFFICES ASSUME NEW c \in Conns, phase[c] = "received", call[c] # <<"other">>,
                      answer[c][1] # "Error"
               PROVE  got[c] = {Read(answer[c])}
    BY DEF AnswersDecode
  <2>1. CallInv(c)
    BY <1>1 DEF ServerInv
  <2> QED BY <2>1 DEF CallInv, Understood
<1>2. ServerInv => AnswersDecode
  BY <1>1
<1> QED BY <1>2, ServerInvariant, PTL

\* The original_request of a status is the request the command was made of
\* (api/main.go:238-278 makes the payload, 168-224 the status).
THEOREM EchoCorrect == ServerSpec => []EchoIsRequest
<1>1. ASSUME ServerInv PROVE EchoIsRequest
  <2> SUFFICES ASSUME NEW c \in Conns, NEW g \in got[c], NEW s \in StatusesIn(g)
               PROVE  s.original_request = {Canonical(s0) : s0 \in asked[s.command_id]}
    BY DEF EchoIsRequest
  <2>1. CallInv(c)
    BY <1>1 DEF ServerInv
  <2>2. Echoes(s)
    BY <2>1 DEF CallInv, Understood
  <2> QED BY <2>2 DEF Echoes
<1>2. ServerInv => EchoIsRequest
  BY <1>1
<1> QED BY <1>2, ServerInvariant, PTL

\* With its texts, the API is the one of CommandApi: every step of a request is
\* a step of that specification or none, so what holds there holds here.
THEOREM ServerImplementsApi == ServerSpec => ApiSpec
<1>1. ServerInit => ApiInit
  BY DEF ServerInit
<1>2. ASSUME ServerInv, [ServerNext]_allVars PROVE [ApiNext]_vars
  <2>1. ASSUME \/ UNCHANGED allVars
               \/ \E c \in Conns : handleHealthCheckRequest(c) \/ serveOpenAPISpec(c) \/ Turn(c)
               \/ \E c \in Conns : Receive(c)
               \/ \E t \in Tasks, r \in Results : WriteResult(t, r)
        PROVE  UNCHANGED vars
    BY <2>1 DEF allVars, handleHealthCheckRequest, serveOpenAPISpec, Turn, Receive, WriteResult
  <2>2. ASSUME \/ \E c \in Conns, s \in Asked : sendCreateCommand(c, s)
               \/ \E c \in Conns, id \in Tasks \cup Ids : sendGetCommand(c, id)
               \/ \E c \in Conns, r \in OtherRequests : SendOther(c, r)
               \/ \E c \in Conns : sendGetOpenAPI(c) \/ sendHealthCheck(c) \/ sendListCommands(c)
        PROVE  UNCHANGED vars
    BY <2>2 DEF sendCreateCommand, sendGetCommand, SendOther, sendGetOpenAPI, sendHealthCheck,
                sendListCommands, Send
  <2>3. ASSUME NEW c \in Conns, handleCreateCommandRequest(c) PROVE [ApiNext]_vars
    <3>1. ASSUME NEW s, NEW t \in Tasks, CreateCommand(t, Fields(s)) PROVE ApiNext
      BY <3>1, ServerAssumption, FieldsIsRequest DEF ApiNext
    <3> QED BY <2>3, <3>1 DEF handleCreateCommandRequest
  <2>4. ASSUME NEW c \in Conns, handleGetCommandRequest(c) PROVE [ApiNext]_vars
    <3>1. UNCHANGED vars \/ \E t \in Tasks, s \in Statuses \cup {"404"} : GetCommand(t, s)
      BY <2>4 DEF handleGetCommandRequest
    <3> QED BY <3>1 DEF ApiNext
  <2>5. ASSUME NEW c \in Conns, handleListCommandsRequest(c) PROVE ApiNext
    BY <2>5 DEF handleListCommandsRequest, ApiNext
  <2>6. ASSUME NEW c \in Conns, Finish(c) PROVE [ApiNext]_vars
    BY <1>2, <2>6, FinishEnds DEF ApiNext
  <2>7. ASSUME Work PROVE ApiNext
    BY <2>7 DEF Work, ApiNext
  <2> QED BY <1>2, <2>1, <2>2, <2>3, <2>4, <2>5, <2>6, <2>7 DEF ServerNext, Handle
<1>3. ServerInv /\ [ServerNext]_allVars => [ApiNext]_vars
  BY <1>2
<1> QED BY <1>1, <1>3, ServerInvariant, PTL DEF ServerSpec, ApiSpec

=============================================================================
