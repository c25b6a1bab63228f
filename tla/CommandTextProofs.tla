-------------------------- MODULE CommandTextProofs --------------------------
(***************************************************************************)
(* What holds of every command and all paths, of any length.               *)
(***************************************************************************)
EXTENDS CommandText, SequenceTheorems, WellFoundedInduction, TLAPS


-----------------------------------------------------------------------------
(***************************************************************************)
(* Induction over numbers and over sequences, for sets instead of          *)
(* operators.                                                              *)
(***************************************************************************)
LEMMA NatSet ==
  ASSUME NEW G, 0 \in G, \A n \in Nat : n \in G => n + 1 \in G
  PROVE  \A n \in Nat : n \in G
<1> DEFINE R == {p \in Nat \X Nat : p[1] < p[2]}
           D == Nat \ G
<1>1. IsWellFoundedOn(R, Nat)
  BY NatLessThanWellFounded DEF OpToRel
<1>2. SUFFICES ASSUME D # {} PROVE FALSE
  OBVIOUS
<1>3. PICK d \in D : \A e \in D : ~(<<e, d>> \in R)
  <2>1. D \subseteq Nat
    OBVIOUS
  <2> HIDE DEF D, R
  <2> QED BY <1>1, <1>2, <2>1, WFMin
<1>4. d \in Nat /\ d # 0 /\ d - 1 \in Nat /\ d - 1 < d /\ (d - 1) + 1 = d
  OBVIOUS
<1>5. d - 1 \in G
  <2>1. <<d - 1, d>> \in R
    BY <1>4
  <2>2. d - 1 \notin D
    BY <1>3, <2>1
  <2> QED BY <1>4, <2>2
<1> QED BY <1>4, <1>5

LEMMA SeqSet ==
  ASSUME NEW S, NEW G, <<>> \in G,
         \A s \in Seq(S), x \in S : s \in G => Append(s, x) \in G
  PROVE  \A s \in Seq(S) : s \in G
<1> DEFINE N == {n \in Nat : \A s \in Seq(S) : Len(s) = n => s \in G}
<1>1. 0 \in N
  OBVIOUS
<1>2. ASSUME NEW n \in Nat, n \in N PROVE n + 1 \in N
  <2> SUFFICES ASSUME NEW s \in Seq(S), Len(s) = n + 1 PROVE s \in G
    OBVIOUS
  <2>1. PICK t \in Seq(S), x \in S : s = Append(t, x)
    BY SequenceEmptyOrAppend
  <2>2. Len(t) = n
    BY <2>1
  <2> QED BY <1>2, <2>1, <2>2
<1>3. \A n \in Nat : n \in N
  <2> HIDE DEF N
  <2> QED BY <1>1, <1>2, NatSet
<1> QED BY <1>3

-----------------------------------------------------------------------------
(***************************************************************************)
(* FlattenSeq, seen as an operation that appends to the last result.       *)
(***************************************************************************)
Flattens(ss, f) ==
  f = [i \in 1 .. Len(ss) |-> IF i = 1 THEN ss[i] ELSE f[i - 1] \o ss[i]]

LEMMA FlattensAt ==
  ASSUME NEW ss, NEW f, Flattens(ss, f)
  PROVE  /\ f = [i \in 1 .. Len(ss) |-> f[i]]
         /\ \A i \in 1 .. Len(ss) : f[i] = IF i = 1 THEN ss[i] ELSE f[i - 1] \o ss[i]
<1> DEFINE e(i) == IF i = 1 THEN ss[i] ELSE f[i - 1] \o ss[i]
<1>1. f = [i \in 1 .. Len(ss) |-> e(i)]
  BY DEF Flattens
<1> HIDE DEF e
<1>2. DOMAIN f = 1 .. Len(ss) /\ \A i \in 1 .. Len(ss) : f[i] = e(i)
  BY <1>1
<1>3. f = [i \in 1 .. Len(ss) |-> f[i]]
  BY <1>1
<1> QED BY <1>2, <1>3 DEF e

LEMMA FlattenIs ==
  ASSUME NEW ss, Len(ss) # 0
  PROVE  FlattenSeq(ss) = (CHOOSE f : Flattens(ss, f))[Len(ss)]
BY DEF FlattenSeq, Flattens

LEMMA FlattenUnique ==
  ASSUME NEW ss, Len(ss) \in Nat, NEW f, NEW g, Flattens(ss, f), Flattens(ss, g)
  PROVE  f = g
<1> DEFINE G == {n \in Nat : n \in 1 .. Len(ss) => f[n] = g[n]}
<1>1. 0 \in G
  OBVIOUS
<1>2. ASSUME NEW n \in Nat, n \in G PROVE n + 1 \in G
  <2> SUFFICES ASSUME n + 1 \in 1 .. Len(ss) PROVE f[n + 1] = g[n + 1]
    OBVIOUS
  <2>1. n # 0 => f[n] = g[n] /\ n \in 1 .. Len(ss)
    BY <1>2
  <2>2. /\ f[n + 1] = IF n + 1 = 1 THEN ss[n + 1] ELSE f[(n + 1) - 1] \o ss[n + 1]
        /\ g[n + 1] = IF n + 1 = 1 THEN ss[n + 1] ELSE g[(n + 1) - 1] \o ss[n + 1]
    BY FlattensAt
  <2>3. (n + 1) - 1 = n /\ (n + 1 = 1 <=> n = 0)
    OBVIOUS
  <2> QED BY <2>1, <2>2, <2>3
<1>3. \A n \in Nat : n \in G
  <2> HIDE DEF G
  <2> QED BY <1>1, <1>2, NatSet
<1>4. \A n \in 1 .. Len(ss) : f[n] = g[n]
  BY <1>3
<1> QED BY <1>4, FlattensAt

\* The solution for one more text.
Extended(ss, f, x) ==
  [i \in 1 .. Len(ss) + 1 |->
     IF i <= Len(ss) THEN f[i] ELSE IF i = 1 THEN x ELSE f[i - 1] \o x]

LEMMA FlattensExtended ==
  ASSUME NEW S, NEW ss \in Seq(Seq(S)), NEW x \in Seq(S), NEW f, Flattens(ss, f)
  PROVE  Flattens(Append(ss, x), Extended(ss, f, x))
<1> DEFINE g == Extended(ss, f, x)
           t == Append(ss, x)
<1>1. /\ Len(t) = Len(ss) + 1 /\ Len(ss) \in Nat
      /\ t[Len(ss) + 1] = x /\ \A i \in 1 .. Len(ss) : t[i] = ss[i]
  OBVIOUS
<1>2. g = [i \in 1 .. Len(ss) + 1 |-> g[i]]
  BY DEF Extended
<1>3. ASSUME NEW i \in 1 .. Len(ss) + 1
      PROVE  g[i] = IF i = 1 THEN t[i] ELSE g[i - 1] \o t[i]
  <2>1. CASE i = Len(ss) + 1
    BY <1>1, <2>1 DEF Extended
  <2>2. CASE i <= Len(ss)
    <3>1. f[i] = IF i = 1 THEN ss[i] ELSE f[i - 1] \o ss[i]
      BY <1>1, <2>2, FlattensAt
    <3> QED BY <1>1, <2>2, <3>1 DEF Extended
  <2> QED BY <1>1, <2>1, <2>2
<1> HIDE DEF g, t
<1> QED BY <1>1, <1>2, <1>3 DEF Flattens, g, t

LEMMA FlattenExists ==
  ASSUME NEW S
  PROVE  \A ss \in Seq(Seq(S)) : \E f : Flattens(ss, f)
<1> DEFINE G == {ss \in Seq(Seq(S)) : \E f : Flattens(ss, f)}
<1>1. <<>> \in G
  <2>1. Flattens(<<>>, [i \in 1 .. 0 |-> <<>>])
    BY DEF Flattens
  <2> QED BY <2>1
<1>2. ASSUME NEW ss \in Seq(Seq(S)), NEW x \in Seq(S), ss \in G
      PROVE  Append(ss, x) \in G
  BY <1>2, FlattensExtended
<1>3. \A ss \in Seq(Seq(S)) : ss \in G
  <2> HIDE DEF G
  <2> QED BY <1>1, <1>2, SeqSet
<1> QED BY <1>3

LEMMA FlattenSolved ==
  ASSUME NEW ss, Len(ss) \in Nat \ {0}, NEW f, Flattens(ss, f)
  PROVE  FlattenSeq(ss) = f[Len(ss)]
<1>1. Flattens(ss, CHOOSE g : Flattens(ss, g))
  OBVIOUS
<1>2. (CHOOSE g : Flattens(ss, g)) = f
  BY <1>1, FlattenUnique
<1> QED BY <1>2, FlattenIs

LEMMA FlattenOne ==
  ASSUME NEW S, NEW x \in Seq(S)
  PROVE  FlattenSeq(<<x>>) = x /\ FlattenSeq(<<>>) = <<>>
<1>0. <<x>> \in Seq(Seq(S)) /\ Len(<<x>>) = 1 /\ <<x>>[1] = x
  OBVIOUS
<1>1. PICK f : Flattens(<<x>>, f)
  BY <1>0, FlattenExists
<1>2. FlattenSeq(<<x>>) = f[1]
  <2>1. Len(<<x>>) \in Nat \ {0}
    BY <1>0
  <2>2. FlattenSeq(<<x>>) = f[Len(<<x>>)]
    BY <1>1, <2>1, FlattenSolved
  <2> QED BY <1>0, <2>2
<1>3. f[1] = x
  BY <1>0, <1>1, FlattensAt
<1>4. FlattenSeq(<<>>) = <<>>
  BY DEF FlattenSeq
<1> QED BY <1>2, <1>3, <1>4

LEMMA FlattenAppend ==
  ASSUME NEW S, NEW ss \in Seq(Seq(S)), NEW x \in Seq(S)
  PROVE  FlattenSeq(Append(ss, x)) = FlattenSeq(ss) \o x
<1>1. CASE ss = <<>>
  <2>1. Append(ss, x) = <<x>>
    BY <1>1
  <2> QED BY <1>1, <2>1, FlattenOne
<1>2. CASE ss # <<>>
  <2>1. Len(ss) \in Nat \ {0} /\ Len(Append(ss, x)) = Len(ss) + 1
    BY <1>2
  <2>2. PICK f : Flattens(ss, f)
    BY FlattenExists
  <2>3. FlattenSeq(ss) = f[Len(ss)]
    BY <2>1, <2>2, FlattenSolved
  <2>4. Flattens(Append(ss, x), Extended(ss, f, x))
    BY <2>2, FlattensExtended
  <2>5. FlattenSeq(Append(ss, x)) = Extended(ss, f, x)[Len(ss) + 1]
    <3> DEFINE t == Append(ss, x)
               g == Extended(ss, f, x)
    <3>1. Len(t) \in Nat \ {0} /\ Flattens(t, g)
      BY <2>1, <2>4
    <3> HIDE DEF t, g
    <3>2. FlattenSeq(t) = g[Len(t)]
      BY <3>1, FlattenSolved
    <3> QED BY <2>1, <3>2 DEF t, g
  <2> QED BY <2>1, <2>3, <2>5 DEF Extended
<1> QED BY <1>1, <1>2

LEMMA FlattenType ==
  ASSUME NEW S
  PROVE  \A ss \in Seq(Seq(S)) : FlattenSeq(ss) \in Seq(S)
<1> DEFINE G == {ss \in Seq(Seq(S)) : FlattenSeq(ss) \in Seq(S)}
<1>1. <<>> \in G
  <2>1. FlattenSeq(<<>>) = <<>>
    BY DEF FlattenSeq
  <2>2. <<>> \in Seq(S) /\ <<>> \in Seq(Seq(S))
    OBVIOUS
  <2> QED BY <2>1, <2>2
<1>2. ASSUME NEW ss \in Seq(Seq(S)), NEW x \in Seq(S), ss \in G
      PROVE  Append(ss, x) \in G
  <2>1. FlattenSeq(Append(ss, x)) = FlattenSeq(ss) \o x
    BY FlattenAppend
  <2>2. FlattenSeq(ss) \in Seq(S) /\ Append(ss, x) \in Seq(Seq(S))
    BY <1>2
  <2>3. FlattenSeq(ss) \o x \in Seq(S)
    BY <2>2
  <2> QED BY <2>1, <2>2, <2>3
<1>3. \A ss \in Seq(Seq(S)) : ss \in G
  <2> HIDE DEF G
  <2> QED BY <1>1, <1>2, SeqSet
<1> QED BY <1>3

-----------------------------------------------------------------------------
(***************************************************************************)
(* Each: what becomes of a text is put together from what becomes of its   *)
(* elements.                                                               *)
(***************************************************************************)
Maps == [Runes -> Seq(Runes)]

LEMMA MapAt == ASSUME NEW h \in Maps, NEW x \in Runes PROVE h[x] \in Seq(Runes)
BY DEF Maps

LEMMA Empty == <<>> \in Seq(Runes) /\ FlattenSeq(<<>>) = <<>> /\ \A h : Each(<<>>, h) = <<>>
BY DEF Each, FlattenSeq

LEMMA Appended ==
  ASSUME NEW S, NEW s \in Seq(S), NEW x \in S
  PROVE  /\ Append(s, x) \in Seq(S) /\ Len(s) \in Nat /\ DOMAIN s = 1 .. Len(s)
         /\ Len(Append(s, x)) = Len(s) + 1
         /\ DOMAIN Append(s, x) = 1 .. Len(s) + 1
         /\ Append(s, x)[Len(s) + 1] = x
         /\ \A i \in 1 .. Len(s) : Append(s, x)[i] = s[i] /\ s[i] \in S
OBVIOUS

LEMMA MapIn ==
  ASSUME NEW h \in Maps, NEW s \in Seq(Runes)
  PROVE  /\ [i \in DOMAIN s |-> h[s[i]]] \in Seq(Seq(Runes))
         /\ Len([i \in DOMAIN s |-> h[s[i]]]) = Len(s)
<1> DEFINE ss == [i \in DOMAIN s |-> h[s[i]]]
<1>1. Len(s) \in Nat /\ DOMAIN s = 1 .. Len(s) /\ \A i \in 1 .. Len(s) : s[i] \in Runes
  OBVIOUS
<1>2. ss \in [1 .. Len(s) -> Seq(Runes)]
  BY <1>1, MapAt
<1>3. ss \in Seq(Seq(Runes))
  BY <1>1, <1>2, SeqDef
<1> QED BY <1>1, <1>2, <1>3

LEMMA EachAppend ==
  ASSUME NEW h \in Maps, NEW s \in Seq(Runes), NEW x \in Runes
  PROVE  Each(Append(s, x), h) = Each(s, h) \o h[x]
<1> DEFINE ss == [i \in DOMAIN s |-> h[s[i]]]
           t  == Append(s, x)
           tt == [i \in DOMAIN t |-> h[t[i]]]
<1>1. ss \in Seq(Seq(Runes)) /\ Len(ss) = Len(s) /\ Len(s) \in Nat /\ h[x] \in Seq(Runes)
  BY MapIn, MapAt
<1>2. tt = Append(ss, h[x])
  <2>0. t \in Seq(Runes) /\ Len(t) = Len(s) + 1
    OBVIOUS
  <2>1. tt \in Seq(Seq(Runes)) /\ Len(tt) = Len(s) + 1
    <3> HIDE DEF t
    <3> QED BY <2>0, MapIn
  <2>2. Append(ss, h[x]) \in Seq(Seq(Runes)) /\ Len(Append(ss, h[x])) = Len(s) + 1
    BY <1>1
  <2>3. ASSUME NEW i \in 1 .. Len(s) + 1 PROVE tt[i] = Append(ss, h[x])[i]
    <3>1. CASE i = Len(s) + 1
      BY <1>1, <3>1
    <3>2. CASE i \in 1 .. Len(s)
      BY <1>1, <3>2
    <3> QED BY <1>1, <3>1, <3>2
  <2> HIDE DEF tt, ss
  <2> QED BY <2>1, <2>2, <2>3, SeqEqual
<1>3. FlattenSeq(Append(ss, h[x])) = FlattenSeq(ss) \o h[x]
  <2> HIDE DEF ss
  <2> QED BY <1>1, FlattenAppend
<1> QED BY <1>2, <1>3 DEF Each

LEMMA EachType ==
  ASSUME NEW h \in Maps, NEW s \in Seq(Runes)
  PROVE  Each(s, h) \in Seq(Runes)
<1> DEFINE ss == [i \in DOMAIN s |-> h[s[i]]]
<1>1. ss \in Seq(Seq(Runes))
  BY MapIn
<1> HIDE DEF ss
<1>2. FlattenSeq(ss) \in Seq(Runes)
  BY <1>1, FlattenType
<1> QED BY <1>2 DEF Each, ss

LEMMA EachConcat ==
  ASSUME NEW h \in Maps, NEW s \in Seq(Runes)
  PROVE  \A t \in Seq(Runes) : Each(s \o t, h) = Each(s, h) \o Each(t, h)
<1> DEFINE G == {t \in Seq(Runes) : Each(s \o t, h) = Each(s, h) \o Each(t, h)}
<1>1. <<>> \in G
  <2>1. Each(s, h) \in Seq(Runes) /\ Each(<<>>, h) = <<>> /\ <<>> \in Seq(Runes)
    BY EachType, Empty
  <2> QED BY <2>1
<1>2. ASSUME NEW t \in Seq(Runes), NEW x \in Runes, t \in G PROVE Append(t, x) \in G
  <2>1. s \o Append(t, x) = Append(s \o t, x) /\ s \o t \in Seq(Runes)
        /\ Append(t, x) \in Seq(Runes)
    OBVIOUS
  <2>2. Each(s \o Append(t, x), h) = (Each(s, h) \o Each(t, h)) \o h[x]
    BY <1>2, <2>1, EachAppend
  <2>3. Each(s, h) \in Seq(Runes) /\ Each(t, h) \in Seq(Runes) /\ h[x] \in Seq(Runes)
    BY EachType, MapAt
  <2>4. Each(Append(t, x), h) = Each(t, h) \o h[x]
    BY EachAppend
  <2>5. (Each(s, h) \o Each(t, h)) \o h[x] = Each(s, h) \o (Each(t, h) \o h[x])
    <3> DEFINE a == Each(s, h)
               b == Each(t, h)
               c == h[x]
    <3>1. a \in Seq(Runes) /\ b \in Seq(Runes) /\ c \in Seq(Runes)
      BY <2>3
    <3> HIDE DEF a, b, c
    <3>2. (a \o b) \o c = a \o (b \o c)
      BY <3>1
    <3> QED BY <3>2 DEF a, b, c
  <2> QED BY <2>1, <2>2, <2>4, <2>5
<1>3. \A t \in Seq(Runes) : t \in G
  <2> HIDE DEF G
  <2> QED BY <1>1, <1>2, SeqSet
<1> QED BY <1>3

LEMMA EachOne ==
  ASSUME NEW h \in Maps, NEW x \in Runes
  PROVE  Each(<<x>>, h) = h[x]
<1>1. <<x>> = Append(<<>>, x) /\ <<>> \in Seq(Runes)
  OBVIOUS
<1>2. Each(<<x>>, h) = Each(<<>>, h) \o h[x]
  BY <1>1, EachAppend
<1>3. Each(<<>>, h) = <<>> /\ h[x] \in Seq(Runes)
  BY Empty, MapAt
<1> QED BY <1>2, <1>3

\* A text of which nothing changes.
LEMMA EachSame ==
  ASSUME NEW h \in Maps
  PROVE  \A s \in Seq(Runes) : (\A i \in DOMAIN s : h[s[i]] = <<s[i]>>) => Each(s, h) = s
<1> DEFINE Kept(s) == \A i \in DOMAIN s : h[s[i]] = <<s[i]>>
           G == {s \in Seq(Runes) : Kept(s) => Each(s, h) = s}
<1>1. <<>> \in G
  BY Empty
<1>2. ASSUME NEW s \in Seq(Runes), NEW x \in Runes, s \in G, Kept(Append(s, x))
      PROVE  Each(Append(s, x), h) = Append(s, x)
  <2> DEFINE t == Append(s, x)
  <2>1. /\ Len(s) \in Nat /\ DOMAIN s = 1 .. Len(s)
        /\ DOMAIN t = 1 .. Len(s) + 1
        /\ t[Len(s) + 1] = x
        /\ \A i \in 1 .. Len(s) : t[i] = s[i]
    BY Appended
  <2> HIDE DEF t
  <2>2. Kept(t)
    BY <1>2 DEF t
  <2>3. Kept(s)
    <3> SUFFICES ASSUME NEW i \in 1 .. Len(s) PROVE h[s[i]] = <<s[i]>>
      BY <2>1
    <3>1. i \in DOMAIN t /\ t[i] = s[i]
      BY <2>1
    <3>2. h[t[i]] = <<t[i]>>
      BY <2>2, <3>1
    <3> QED BY <3>1, <3>2
  <2>4. h[x] = <<x>>
    <3>1. Len(s) + 1 \in DOMAIN t
      BY <2>1
    <3> QED BY <2>1, <2>2, <3>1
  <2>5. Each(s, h) = s
    BY <1>2, <2>3
  <2>6. Each(t, h) = Each(s, h) \o h[x]
    BY EachAppend DEF t
  <2>7. Append(s, x) = s \o <<x>>
    OBVIOUS
  <2> QED BY <2>4, <2>5, <2>6, <2>7 DEF t
<1>3. \A s \in Seq(Runes) : s \in G
  <2>1. \A s \in Seq(Runes), x \in Runes : s \in G => Append(s, x) \in G
    <3> SUFFICES ASSUME NEW s \in Seq(Runes), NEW x \in Runes, s \in G
                 PROVE  Append(s, x) \in G
      OBVIOUS
    <3>1. Append(s, x) \in Seq(Runes)
      OBVIOUS
    <3>2. Kept(Append(s, x)) => Each(Append(s, x), h) = Append(s, x)
      BY <1>2
    <3> QED BY <3>1, <3>2
  <2> HIDE DEF G
  <2> QED BY <1>1, <2>1, SeqSet
<1> QED BY <1>3

\* Two replacements, one after the other, are one.
LEMMA EachEach ==
  ASSUME NEW g \in Maps, NEW h \in Maps, NEW both \in Maps,
         \A x \in Runes : both[x] = Each(g[x], h)
  PROVE  \A s \in Seq(Runes) : Each(Each(s, g), h) = Each(s, both)
<1> DEFINE G == {s \in Seq(Runes) : Each(Each(s, g), h) = Each(s, both)}
<1>1. <<>> \in G
  BY Empty
<1>2. ASSUME NEW s \in Seq(Runes), NEW x \in Runes, s \in G PROVE Append(s, x) \in G
  <2>1. Each(Append(s, x), g) = Each(s, g) \o g[x]
    BY EachAppend
  <2>2. Each(s, g) \in Seq(Runes) /\ g[x] \in Seq(Runes) /\ Append(s, x) \in Seq(Runes)
    BY EachType, MapAt
  <2>3. Each(Each(s, g) \o g[x], h) = Each(Each(s, g), h) \o Each(g[x], h)
    BY <2>2, EachConcat
  <2>4. Each(Append(s, x), both) = Each(s, both) \o both[x]
    BY EachAppend
  <2> QED BY <1>2, <2>1, <2>2, <2>3, <2>4
<1>3. \A s \in Seq(Runes) : s \in G
  <2> HIDE DEF G
  <2> QED BY <1>1, <1>2, SeqSet
<1> QED BY <1>3

\* Nothing vanishes if no element does.
LEMMA EachNotEmpty ==
  ASSUME NEW h \in Maps, \A x \in Runes : h[x] # <<>>,
         NEW s \in Seq(Runes)
  PROVE  Each(s, h) = <<>> <=> s = <<>>
<1>1. CASE s = <<>>
  BY <1>1, Empty
<1>2. CASE s # <<>>
  <2>1. PICK t \in Seq(Runes), x \in Runes : s = Append(t, x)
    BY <1>2, SequenceEmptyOrAppend
  <2>2. Each(s, h) = Each(t, h) \o h[x]
    BY <2>1, EachAppend
  <2>3. Each(t, h) \in Seq(Runes) /\ h[x] \in Seq(Runes) /\ h[x] # <<>>
    BY <2>1, EachType, MapAt
  <2>4. Each(t, h) \o h[x] # <<>>
    BY <2>3
  <2> QED BY <1>2, <2>2, <2>4
<1> QED BY <1>1, <1>2

-----------------------------------------------------------------------------
(***************************************************************************)
(* InQuote, seen as an operation that goes on from the last result.        *)
(***************************************************************************)
Opens(s, f) ==
  f = [i \in 0 .. Len(s) |-> IF i = 0 THEN "none" ELSE After(f[i - 1], s[i])]

LEMMA OpensAt ==
  ASSUME NEW s, Len(s) \in Nat, NEW f, Opens(s, f)
  PROVE  /\ f = [i \in 0 .. Len(s) |-> f[i]]
         /\ f[0] = "none"
         /\ \A i \in 1 .. Len(s) : f[i] = After(f[i - 1], s[i])
<1> DEFINE e(i) == IF i = 0 THEN "none" ELSE After(f[i - 1], s[i])
<1>1. f = [i \in 0 .. Len(s) |-> e(i)]
  BY DEF Opens
<1> HIDE DEF e
<1>2. DOMAIN f = 0 .. Len(s) /\ \A i \in 0 .. Len(s) : f[i] = e(i)
  BY <1>1
<1>3. f = [i \in 0 .. Len(s) |-> f[i]]
  BY <1>1
<1>4. \A i \in 1 .. Len(s) : i \in 0 .. Len(s) /\ i # 0
  OBVIOUS
<1> QED BY <1>2, <1>3, <1>4 DEF e

LEMMA OpensUnique ==
  ASSUME NEW s, Len(s) \in Nat, NEW f, NEW g, Opens(s, f), Opens(s, g)
  PROVE  f = g
<1> DEFINE G == {n \in Nat : n \in 0 .. Len(s) => f[n] = g[n]}
<1>1. 0 \in G
  BY OpensAt
<1>2. ASSUME NEW n \in Nat, n \in G PROVE n + 1 \in G
  <2> SUFFICES ASSUME n + 1 \in 0 .. Len(s) PROVE f[n + 1] = g[n + 1]
    OBVIOUS
  <2>1. f[n] = g[n] /\ n + 1 \in 1 .. Len(s) /\ (n + 1) - 1 = n
    BY <1>2
  <2>2. f[n + 1] = After(f[(n + 1) - 1], s[n + 1]) /\ g[n + 1] = After(g[(n + 1) - 1], s[n + 1])
    BY <2>1, OpensAt
  <2> QED BY <2>1, <2>2
<1>3. \A n \in Nat : n \in G
  <2> HIDE DEF G
  <2> QED BY <1>1, <1>2, NatSet
<1>4. \A n \in 0 .. Len(s) : f[n] = g[n]
  BY <1>3
<1> QED BY <1>4, OpensAt

\* The solution for one more element.
Longer(s, f, x) ==
  [i \in 0 .. Len(s) + 1 |-> IF i <= Len(s) THEN f[i] ELSE After(f[i - 1], x)]

LEMMA OpensLonger ==
  ASSUME NEW s \in Seq(Runes), NEW x \in Runes, NEW f, Opens(s, f)
  PROVE  Opens(Append(s, x), Longer(s, f, x))
<1> DEFINE g == Longer(s, f, x)
           t == Append(s, x)
<1>1. /\ Len(t) = Len(s) + 1 /\ Len(s) \in Nat
      /\ t[Len(s) + 1] = x /\ \A i \in 1 .. Len(s) : t[i] = s[i]
  BY Appended
<1>2. /\ g = [i \in 0 .. Len(s) + 1 |-> g[i]]
      /\ \A i \in 0 .. Len(s) : g[i] = f[i]
      /\ g[Len(s) + 1] = After(f[Len(s)], x)
  BY <1>1 DEF Longer
<1> HIDE DEF g, t
<1>3. ASSUME NEW i \in 0 .. Len(s) + 1
      PROVE  g[i] = IF i = 0 THEN "none" ELSE After(g[i - 1], t[i])
  <2>1. CASE i = Len(s) + 1
    <3>1. Len(s) \in 0 .. Len(s) /\ i - 1 = Len(s) /\ i # 0
      BY <1>1, <2>1
    <3>2. g[i] = After(f[Len(s)], x) /\ g[i - 1] = f[Len(s)] /\ t[i] = x
      BY <1>1, <1>2, <2>1, <3>1
    <3> QED BY <3>1, <3>2
  <2>2. CASE i <= Len(s) /\ i # 0
    <3>1. i \in 1 .. Len(s) /\ i \in 0 .. Len(s) /\ i - 1 \in 0 .. Len(s)
      BY <1>1, <2>2
    <3>2. f[i] = After(f[i - 1], s[i])
      BY <1>1, <3>1, OpensAt
    <3> QED BY <1>1, <1>2, <2>2, <3>1, <3>2
  <2>3. CASE i = 0
    BY <1>1, <1>2, <2>3, OpensAt
  <2>4. i = Len(s) + 1 \/ (i <= Len(s) /\ i # 0) \/ i = 0
    OBVIOUS
  <2> QED BY <2>1, <2>2, <2>3, <2>4
<1> QED BY <1>1, <1>2, <1>3 DEF Opens, g, t

LEMMA OpensExists == \A s \in Seq(Runes) : \E f : Opens(s, f)
<1> DEFINE G == {s \in Seq(Runes) : \E f : Opens(s, f)}
<1>1. <<>> \in G
  <2>1. Opens(<<>>, [i \in 0 .. 0 |-> "none"])
    BY DEF Opens
  <2> QED BY <2>1
<1>2. ASSUME NEW s \in Seq(Runes), NEW x \in Runes, s \in G
      PROVE  Append(s, x) \in G
  <2>1. PICK f : Opens(s, f)
    BY <1>2
  <2>2. Append(s, x) \in Seq(Runes)
    OBVIOUS
  <2> QED BY <2>1, <2>2, OpensLonger
<1>3. \A s \in Seq(Runes) : s \in G
  <2> HIDE DEF G
  <2> QED BY <1>1, <1>2, SeqSet
<1> QED BY <1>3

LEMMA InQuoteOpens ==
  ASSUME NEW s \in Seq(Runes)
  PROVE  Opens(s, InQuote(s))
<1>1. InQuote(s) = CHOOSE f : Opens(s, f)
  BY DEF InQuote, Opens
<1>2. \E f : Opens(s, f)
  BY OpensExists
<1> QED BY <1>1, <1>2

Open(s) == InQuote(s)[Len(s)]

LEMMA InQuoteAppend ==
  ASSUME NEW s \in Seq(Runes), NEW x \in Runes
  PROVE  /\ \A i \in 0 .. Len(s) : InQuote(Append(s, x))[i] = InQuote(s)[i]
         /\ InQuote(Append(s, x))[Len(s) + 1] = After(Open(s), x)
<1> DEFINE t == Append(s, x)
           f == InQuote(s)
<1>1. t \in Seq(Runes) /\ Len(t) = Len(s) + 1 /\ Len(s) \in Nat
  BY Appended
<1>2. Opens(t, Longer(s, f, x))
  BY InQuoteOpens, OpensLonger
<1>3. Opens(t, InQuote(t))
  <2> HIDE DEF t
  <2> QED BY <1>1, InQuoteOpens
<1>4. InQuote(t) = Longer(s, f, x)
  <2> HIDE DEF t, f
  <2> QED BY <1>1, <1>2, <1>3, OpensUnique
<1>5. Longer(s, f, x)[Len(s) + 1] = After(f[Len(s)], x)
  BY <1>1 DEF Longer
<1>6. \A i \in 0 .. Len(s) : Longer(s, f, x)[i] = f[i]
  BY <1>1 DEF Longer
<1> QED BY <1>4, <1>5, <1>6 DEF Open

LEMMA OpenFirst == Open(<<>>) = "none" /\ \A s \in Seq(Runes) : InQuote(s)[0] = "none"
<1>1. \A s \in Seq(Runes) : InQuote(s)[0] = "none"
  <2> SUFFICES ASSUME NEW s \in Seq(Runes) PROVE InQuote(s)[0] = "none"
    OBVIOUS
  <2>1. Opens(s, InQuote(s)) /\ Len(s) \in Nat
    BY InQuoteOpens
  <2> QED BY <2>1, OpensAt
<1>2. <<>> \in Seq(Runes) /\ Len(<<>>) = 0
  OBVIOUS
<1> QED BY <1>1, <1>2 DEF Open

LEMMA OpenType == \A s \in Seq(Runes) : Open(s) \in Quotes \cup {"none"}
<1> DEFINE G == {s \in Seq(Runes) : Open(s) \in Quotes \cup {"none"}}
<1>1. <<>> \in G
  BY OpenFirst
<1>2. ASSUME NEW s \in Seq(Runes), NEW x \in Runes, s \in G PROVE Append(s, x) \in G
  <2>1. Open(Append(s, x)) = After(Open(s), x)
    BY InQuoteAppend, Appended DEF Open
  <2>2. Append(s, x) \in Seq(Runes)
    OBVIOUS
  <2> QED BY <1>2, <2>1, <2>2 DEF After
<1>3. \A s \in Seq(Runes) : s \in G
  <2> HIDE DEF G
  <2> QED BY <1>1, <1>2, SeqSet
<1> QED BY <1>3

-----------------------------------------------------------------------------
(***************************************************************************)
(* What one more element does to the arguments that are told without a     *)
(* parser.                                                                 *)
(***************************************************************************)
LEMMA FlattenMore ==
  ASSUME NEW S, NEW n \in Nat, NEW f \in [1 .. n -> Seq(S)],
         NEW g \in [1 .. n + 1 -> Seq(S)], \A i \in 1 .. n : g[i] = f[i]
  PROVE  FlattenSeq(g) = FlattenSeq(f) \o g[n + 1]
<1>1. f \in Seq(Seq(S)) /\ Len(f) = n
  BY SeqDef
<1>2. g[n + 1] \in Seq(S)
  OBVIOUS
<1>3. g = Append(f, g[n + 1])
  <2> DEFINE a == Append(f, g[n + 1])
  <2>1. a \in Seq(Seq(S)) /\ Len(a) = n + 1
    BY <1>1, <1>2
  <2>2. g \in Seq(Seq(S)) /\ Len(g) = n + 1
    BY SeqDef
  <2>3. \A i \in 1 .. n + 1 : g[i] = a[i]
    BY <1>1, <1>2
  <2> HIDE DEF a
  <2> QED BY <2>1, <2>2, <2>3, SeqEqual DEF a
<1> QED BY <1>1, <1>2, <1>3, FlattenAppend

LEMMA FlattenNothing ==
  \A n \in Nat : FlattenSeq([i \in 1 .. n |-> <<>>]) = <<>>
<1> DEFINE none(n) == [i \in 1 .. n |-> <<>>]
           G == {n \in Nat : FlattenSeq(none(n)) = <<>>}
<1>1. 0 \in G
  <2>1. none(0) = <<>>
    OBVIOUS
  <2> HIDE DEF none
  <2> QED BY <2>1, Empty
<1>2. ASSUME NEW n \in Nat, n \in G PROVE n + 1 \in G
  <2>1. /\ none(n) \in [1 .. n -> Seq(Runes)]
        /\ none(n + 1) \in [1 .. n + 1 -> Seq(Runes)]
        /\ \A i \in 1 .. n : none(n + 1)[i] = none(n)[i]
        /\ none(n + 1)[n + 1] = <<>>
    BY Empty
  <2>2. FlattenSeq(none(n)) = <<>>
    BY <1>2
  <2> DEFINE f == none(n)
             g == none(n + 1)
  <2>3. f \in [1 .. n -> Seq(Runes)] /\ g \in [1 .. n + 1 -> Seq(Runes)]
    BY <2>1
  <2>4. \A i \in 1 .. n : g[i] = f[i]
    BY <2>1
  <2> HIDE DEF f, g
  <2>5. FlattenSeq(g) = FlattenSeq(f) \o g[n + 1]
    BY <2>3, <2>4, FlattenMore
  <2>6. FlattenSeq(f) = <<>> /\ g[n + 1] = <<>>
    BY <2>1, <2>2 DEF f, g
  <2>7. FlattenSeq(g) = <<>>
    BY <2>5, <2>6
  <2> QED BY <2>7 DEF g
<1>3. \A n \in Nat : n \in G
  <2> HIDE DEF G
  <2> QED BY <1>1, <1>2, NatSet
<1> QED BY <1>3

\* The element that n puts into Piece(s, i), and the argument that ends at i.
Part(s, i, n) == IF Mark(s, n) \/ \E g \in n .. i : Gap(s, g) THEN <<>> ELSE <<s[n]>>
Ended(s, i) == IF Gap(s, i) /\ Piece(s, i - 1) # <<>> THEN <<Piece(s, i - 1)>> ELSE <<>>

Pending(s) == Piece(s, Len(s))
Closed(s)  == FlattenSeq([i \in 1 .. Len(s) |-> Ended(s, i)])

LEMMA PieceParts == \A s, i : Piece(s, i) = FlattenSeq([n \in 1 .. i |-> Part(s, i, n)])
BY DEF Piece, Part

LEMMA PartType ==
  ASSUME NEW s \in Seq(Runes), NEW i \in 0 .. Len(s)
  PROVE  [n \in 1 .. i |-> Part(s, i, n)] \in [1 .. i -> Seq(Runes)]
<1> SUFFICES ASSUME NEW n \in 1 .. i PROVE Part(s, i, n) \in Seq(Runes)
  OBVIOUS
<1>1. s[n] \in Runes
  OBVIOUS
<1> QED BY <1>1 DEF Part

LEMMA PieceType ==
  ASSUME NEW s \in Seq(Runes), NEW i \in 0 .. Len(s)
  PROVE  Piece(s, i) \in Seq(Runes)
<1> DEFINE p == [n \in 1 .. i |-> Part(s, i, n)]
<1>1. p \in Seq(Seq(Runes))
  <2>1. p \in [1 .. i -> Seq(Runes)] /\ i \in Nat
    BY PartType
  <2> HIDE DEF p
  <2> QED BY <2>1, SeqDef
<1> HIDE DEF p
<1>2. FlattenSeq(p) \in Seq(Runes)
  BY <1>1, FlattenType
<1> QED BY <1>2, PieceParts DEF p

LEMMA EndedType ==
  ASSUME NEW s \in Seq(Runes)
  PROVE  [i \in 1 .. Len(s) |-> Ended(s, i)] \in [1 .. Len(s) -> Seq(Seq(Runes))]
<1> SUFFICES ASSUME NEW i \in 1 .. Len(s) PROVE Ended(s, i) \in Seq(Seq(Runes))
  OBVIOUS
<1>1. i - 1 \in 0 .. Len(s)
  OBVIOUS
<1>2. Piece(s, i - 1) \in Seq(Runes)
  BY <1>1, PieceType
<1> QED BY <1>2 DEF Ended

LEMMA ClosedType ==
  ASSUME NEW s \in Seq(Runes)
  PROVE  Closed(s) \in Seq(Seq(Runes)) /\ Pending(s) \in Seq(Runes)
<1> DEFINE e == [i \in 1 .. Len(s) |-> Ended(s, i)]
<1>1. e \in Seq(Seq(Seq(Runes)))
  <2>1. e \in [1 .. Len(s) -> Seq(Seq(Runes))] /\ Len(s) \in Nat
    BY EndedType
  <2> HIDE DEF e
  <2> QED BY <2>1, SeqDef
<1> HIDE DEF e
<1>2. FlattenSeq(e) \in Seq(Seq(Runes))
  BY <1>1, FlattenType
<1>3. Len(s) \in 0 .. Len(s)
  OBVIOUS
<1> QED BY <1>2, <1>3, PieceType DEF Closed, Pending, e

\* The first elements of a text do not depend on the next one.
LEMMA Prefix ==
  ASSUME NEW s \in Seq(Runes), NEW x \in Runes
  PROVE  /\ \A i \in 1 .. Len(s) : /\ Mark(Append(s, x), i) = Mark(s, i)
                                   /\ Gap(Append(s, x), i) = Gap(s, i)
                                   /\ Ended(Append(s, x), i) = Ended(s, i)
         /\ \A i \in 0 .. Len(s) : Piece(Append(s, x), i) = Piece(s, i)
         /\ Mark(Append(s, x), Len(s) + 1) <=> After(Open(s), x) # Open(s)
         /\ Gap(Append(s, x), Len(s) + 1) <=> x = "sp" /\ Open(s) = "none"
<1> DEFINE t == Append(s, x)
<1>0. /\ Len(s) \in Nat /\ t[Len(s) + 1] = x
      /\ \A i \in 1 .. Len(s) : t[i] = s[i]
  BY Appended
<1>1. /\ \A i \in 0 .. Len(s) : InQuote(t)[i] = InQuote(s)[i]
      /\ InQuote(t)[Len(s) + 1] = After(Open(s), x)
      /\ InQuote(t)[Len(s)] = Open(s)
  BY <1>0, InQuoteAppend DEF Open
<1> HIDE DEF t
<1>2. \A i \in 1 .. Len(s) : i \in 0 .. Len(s) /\ i - 1 \in 0 .. Len(s)
  BY <1>0
<1>3. \A i \in 1 .. Len(s) : Mark(t, i) = Mark(s, i) /\ Gap(t, i) = Gap(s, i)
  BY <1>0, <1>1, <1>2 DEF Mark, Gap
<1>4. (Len(s) + 1) - 1 = Len(s)
  BY <1>0
<1>5. /\ Mark(t, Len(s) + 1) <=> After(Open(s), x) # Open(s)
      /\ Gap(t, Len(s) + 1) <=> x = "sp" /\ Open(s) = "none"
  BY <1>0, <1>1, <1>4 DEF Mark, Gap
<1>6. ASSUME NEW i \in 0 .. Len(s) PROVE Piece(t, i) = Piece(s, i)
  <2>1. ASSUME NEW n \in 1 .. i PROVE Part(t, i, n) = Part(s, i, n)
    <3>1. n \in 1 .. Len(s) /\ \A g \in n .. i : g \in 1 .. Len(s)
      BY <1>0
    <3> QED BY <1>0, <1>3, <3>1 DEF Part
  <2>2. [n \in 1 .. i |-> Part(t, i, n)] = [n \in 1 .. i |-> Part(s, i, n)]
    BY <2>1
  <2> QED BY <2>2, PieceParts
<1>7. \A i \in 1 .. Len(s) : Ended(t, i) = Ended(s, i)
  BY <1>2, <1>3, <1>6 DEF Ended
<1> QED BY <1>3, <1>5, <1>6, <1>7 DEF t

LEMMA OpenAppend ==
  ASSUME NEW s \in Seq(Runes), NEW x \in Runes
  PROVE  Open(Append(s, x)) = After(Open(s), x)
BY InQuoteAppend, Appended DEF Open

LEMMA PendingAppend ==
  ASSUME NEW s \in Seq(Runes), NEW x \in Runes
  PROVE  Pending(Append(s, x)) =
           IF x = "sp" /\ Open(s) = "none" THEN <<>>
           ELSE IF After(Open(s), x) # Open(s) THEN Pending(s)
           ELSE Append(Pending(s), x)
<1> DEFINE t == Append(s, x)
           n == Len(s)
           f == [i \in 1 .. n |-> Part(s, n, i)]
           g == [i \in 1 .. n + 1 |-> Part(t, n + 1, i)]
<1>1. t \in Seq(Runes) /\ Len(t) = n + 1 /\ n \in Nat /\ t[n + 1] = x
  BY Appended
<1>2. Pending(t) = FlattenSeq(g) /\ Pending(s) = FlattenSeq(f) /\ Pending(s) \in Seq(Runes)
  <2> HIDE DEF t
  <2> QED BY <1>1, PieceParts, ClosedType DEF Pending
<1>3. CASE x = "sp" /\ Open(s) = "none"
  <2>1. Gap(t, n + 1)
    BY <1>3, Prefix
  <2>2. ASSUME NEW i \in 1 .. n + 1 PROVE Part(t, n + 1, i) = <<>>
    <3>1. n + 1 \in i .. n + 1
      BY <1>1
    <3> QED BY <2>1, <3>1 DEF Part
  <2>3. g = [i \in 1 .. n + 1 |-> <<>>]
    BY <2>2
  <2> HIDE DEF g, t
  <2>4. FlattenSeq(g) = <<>>
    BY <1>1, <2>3, FlattenNothing
  <2> QED BY <1>2, <1>3, <2>4 DEF t
<1>4. CASE ~(x = "sp" /\ Open(s) = "none")
  <2>1. ~Gap(t, n + 1)
    BY <1>4, Prefix
  <2>2. ASSUME NEW i \in 1 .. n PROVE Part(t, n + 1, i) = Part(s, n, i)
    <3>1. /\ Mark(t, i) = Mark(s, i) /\ t[i] = s[i]
          /\ \A k \in i .. n : Gap(t, k) = Gap(s, k)
      BY <1>1, Prefix, Appended
    <3>2. \A k \in i .. n + 1 : k \in i .. n \/ k = n + 1
      BY <1>1
    <3>3. \A k \in i .. n : k \in i .. n + 1
      BY <1>1
    <3>4. (\E k \in i .. n + 1 : Gap(t, k)) <=> (\E k \in i .. n : Gap(s, k))
      BY <2>1, <3>1, <3>2, <3>3
    <3> QED BY <3>1, <3>4 DEF Part
  <2>3. f \in [1 .. n -> Seq(Runes)] /\ g \in [1 .. n + 1 -> Seq(Runes)]
    <3>1. n \in 0 .. Len(s) /\ n + 1 \in 0 .. Len(t)
      BY <1>1
    <3> HIDE DEF t
    <3> QED BY <1>1, <3>1, PartType
  <2>4. \A i \in 1 .. n : g[i] = f[i]
    BY <1>1, <2>2
  <2>5. g[n + 1] = IF After(Open(s), x) # Open(s) THEN <<>> ELSE <<x>>
    <3>1. \A k \in n + 1 .. n + 1 : k = n + 1
      BY <1>1
    <3>2. Mark(t, n + 1) <=> After(Open(s), x) # Open(s)
      BY Prefix
    <3> QED BY <1>1, <2>1, <3>1, <3>2 DEF Part
  <2> HIDE DEF f, g, t, n
  <2>6. FlattenSeq(g) = FlattenSeq(f) \o g[n + 1]
    BY <1>1, <2>3, <2>4, FlattenMore
  <2> QED BY <1>2, <1>4, <2>5, <2>6 DEF t
<1> QED BY <1>3, <1>4

LEMMA ClosedAppend ==
  ASSUME NEW s \in Seq(Runes), NEW x \in Runes
  PROVE  Closed(Append(s, x)) =
           IF x = "sp" /\ Open(s) = "none" /\ Pending(s) # <<>>
           THEN Append(Closed(s), Pending(s)) ELSE Closed(s)
<1> DEFINE t == Append(s, x)
           n == Len(s)
           f == [i \in 1 .. n |-> Ended(s, i)]
           g == [i \in 1 .. n + 1 |-> Ended(t, i)]
<1>1. t \in Seq(Runes) /\ Len(t) = n + 1 /\ n \in Nat /\ (n + 1) - 1 = n
  BY Appended
<1>2. Closed(t) = FlattenSeq(g) /\ Closed(s) = FlattenSeq(f)
      /\ Closed(s) \in Seq(Seq(Runes)) /\ Pending(s) \in Seq(Runes)
  <2> HIDE DEF t
  <2> QED BY <1>1, ClosedType DEF Closed
<1>3. f \in [1 .. n -> Seq(Seq(Runes))] /\ g \in [1 .. n + 1 -> Seq(Seq(Runes))]
  <2> HIDE DEF t
  <2> QED BY <1>1, EndedType
<1>4. \A i \in 1 .. n : g[i] = f[i]
  BY <1>1, Prefix
<1>5. g[n + 1] = IF x = "sp" /\ Open(s) = "none" /\ Pending(s) # <<>>
                 THEN <<Pending(s)>> ELSE <<>>
  <2>1. Piece(t, n) = Pending(s)
    BY <1>1, Prefix DEF Pending
  <2>2. Gap(t, n + 1) <=> x = "sp" /\ Open(s) = "none"
    BY Prefix
  <2>3. g[n + 1] = Ended(t, n + 1)
    BY <1>1
  <2> QED BY <1>1, <2>1, <2>2, <2>3 DEF Ended
<1> HIDE DEF f, g, t, n
<1>6. FlattenSeq(g) = FlattenSeq(f) \o g[n + 1]
  <2>1. n \in Nat
    BY <1>1
  <2> QED BY <2>1, <1>3, <1>4, FlattenMore
<1> QED BY <1>2, <1>5, <1>6 DEF t

LEMMA NothingYet == Pending(<<>>) = <<>> /\ Closed(<<>>) = <<>>
<1>1. Len(<<>>) = 0
  OBVIOUS
<1>2. [n \in 1 .. 0 |-> Part(<<>>, 0, n)] = <<>> /\ [n \in 1 .. 0 |-> Ended(<<>>, n)] = <<>>
  OBVIOUS
<1> QED BY <1>1, <1>2, PieceParts, Empty DEF Pending, Closed

LEMMA IntendedClosed ==
  ASSUME NEW s \in Seq(Runes)
  PROVE  Intended(s) = IF Pending(s) = <<>> THEN Closed(s) ELSE Append(Closed(s), Pending(s))
<1> DEFINE n == Len(s)
           f == [i \in 1 .. n |-> Ended(s, i)]
           g == [i \in 1 .. n + 1 |->
                   IF (i = n + 1 \/ Gap(s, i)) /\ Piece(s, i - 1) # <<>>
                   THEN <<Piece(s, i - 1)>> ELSE <<>>]
<1>1. n \in Nat /\ (n + 1) - 1 = n
  OBVIOUS
<1>2. /\ Intended(s) = FlattenSeq(g) /\ Closed(s) = FlattenSeq(f)
      /\ Closed(s) \in Seq(Seq(Runes)) /\ Pending(s) \in Seq(Runes)
  BY ClosedType DEF Intended, Closed
<1>3. f \in [1 .. n -> Seq(Seq(Runes))]
  BY EndedType
<1>4. \A i \in 1 .. n : g[i] = f[i]
  BY <1>1 DEF Ended
<1>5. g[n + 1] = IF Pending(s) = <<>> THEN <<>> ELSE <<Pending(s)>>
  BY <1>1 DEF Pending
<1>6. g \in [1 .. n + 1 -> Seq(Seq(Runes))]
  <2>1. \A i \in 1 .. n + 1 : g[i] \in Seq(Seq(Runes))
    <3>1. ASSUME NEW i \in 1 .. n + 1 PROVE Piece(s, i - 1) \in Seq(Runes)
      <4>1. i - 1 \in 0 .. Len(s)
        BY <1>1
      <4> QED BY <4>1, PieceType
    <3> QED BY <3>1
  <2> QED BY <2>1
<1> HIDE DEF f, g, n
<1>7. FlattenSeq(g) = FlattenSeq(f) \o g[n + 1]
  BY <1>1, <1>3, <1>4, <1>6, FlattenMore
<1> QED BY <1>2, <1>5, <1>7

-----------------------------------------------------------------------------
(***************************************************************************)
(* A text whose placeholders stand for letters: resolving them and then    *)
(* telling the arguments is telling the arguments and then resolving them. *)
(***************************************************************************)
\* h leaves everything but placeholders alone and puts letters for those.
Simple(h) ==
  /\ h \in Maps
  /\ \A x \in Runes : h[x] # <<>>
  /\ \A x \in Runes \ Keys : h[x] = <<x>>
  /\ \A k \in Keys : \A i \in DOMAIN h[k] : h[k][i] \in Letters

Ordinary == Letters \cup Keys

LEMMA OrdinaryAppend ==
  ASSUME NEW s \in Seq(Runes), NEW x \in Ordinary
  PROVE  /\ Open(Append(s, x)) = Open(s)
         /\ Pending(Append(s, x)) = Append(Pending(s), x)
         /\ Closed(Append(s, x)) = Closed(s)
<1>1. x \in Runes /\ x # "sp" /\ x \notin Quotes
  BY TextAssumption DEF Ordinary, Runes
<1>2. x # Open(s)
  BY <1>1, OpenType, TextAssumption DEF Runes
<1>3. After(Open(s), x) = Open(s)
  BY <1>1, <1>2 DEF After
<1> QED BY <1>1, <1>3, OpenAppend, PendingAppend, ClosedAppend

LEMMA LettersConcat ==
  ASSUME NEW s \in Seq(Runes)
  PROVE  \A p \in Seq(Letters) :
           /\ Open(s \o p) = Open(s)
           /\ Pending(s \o p) = Pending(s) \o p
           /\ Closed(s \o p) = Closed(s)
<1> DEFINE Good(p) == /\ Open(s \o p) = Open(s)
                      /\ Pending(s \o p) = Pending(s) \o p
                      /\ Closed(s \o p) = Closed(s)
           G == {p \in Seq(Letters) : Good(p)}
<1>0. Pending(s) \in Seq(Runes)
  BY ClosedType
<1>1. <<>> \in G
  <2>1. s \o <<>> = s /\ Pending(s) \o <<>> = Pending(s) /\ <<>> \in Seq(Letters)
    BY <1>0
  <2> QED BY <2>1
<1>2. ASSUME NEW p \in Seq(Letters), NEW x \in Letters, p \in G PROVE Append(p, x) \in G
  <2> DEFINE t == s \o p
  <2>1. p \in Seq(Runes) /\ x \in Ordinary /\ x \in Runes /\ Append(p, x) \in Seq(Letters)
    <3>1. Letters \subseteq Runes
      BY DEF Runes
    <3> QED BY <3>1 DEF Ordinary
  <2>2. t \in Seq(Runes) /\ s \o Append(p, x) = Append(t, x)
    BY <2>1
  <2>3. Open(t) = Open(s) /\ Pending(t) = Pending(s) \o p /\ Closed(t) = Closed(s)
    BY <1>2
  <2>4. Append(Pending(s) \o p, x) = Pending(s) \o Append(p, x)
    BY <1>0, <2>1
  <2> HIDE DEF t
  <2>5. /\ Open(Append(t, x)) = Open(t)
        /\ Pending(Append(t, x)) = Append(Pending(t), x)
        /\ Closed(Append(t, x)) = Closed(t)
    BY <2>1, <2>2, OrdinaryAppend
  <2>6. Good(Append(p, x))
    BY <2>2, <2>3, <2>4, <2>5
  <2> QED BY <2>1, <2>6
<1>3. \A p \in Seq(Letters) : p \in G
  <2> HIDE DEF G
  <2> QED BY <1>1, <1>2, SeqSet
<1> QED BY <1>3

\* Each of the arguments, resolved.
All(ps, h) == [j \in DOMAIN ps |-> Each(ps[j], h)]

LEMMA AllType ==
  ASSUME NEW ps \in Seq(Seq(Runes)), NEW h \in Maps
  PROVE  /\ All(ps, h) \in Seq(Seq(Runes)) /\ Len(All(ps, h)) = Len(ps)
         /\ \A j \in 1 .. Len(ps) : All(ps, h)[j] = Each(ps[j], h)
<1> DEFINE l == [j \in DOMAIN ps |-> Each(ps[j], h)]
<1>1. Len(ps) \in Nat /\ DOMAIN ps = 1 .. Len(ps) /\ \A j \in 1 .. Len(ps) : ps[j] \in Seq(Runes)
  OBVIOUS
<1>2. \A j \in 1 .. Len(ps) : Each(ps[j], h) \in Seq(Runes)
  BY <1>1, EachType
<1>3. l \in [1 .. Len(ps) -> Seq(Runes)]
  BY <1>1, <1>2
<1>4. l \in Seq(Seq(Runes))
  BY <1>1, <1>3, SeqDef
<1>5. Len(l) = Len(ps)
  BY <1>1, <1>3, <1>4
<1>6. \A j \in 1 .. Len(ps) : l[j] = Each(ps[j], h)
  BY <1>1
<1> QED BY <1>4, <1>5, <1>6 DEF All

LEMMA AllAppend ==
  ASSUME NEW ps \in Seq(Seq(Runes)), NEW a \in Seq(Runes), NEW h \in Maps
  PROVE  All(Append(ps, a), h) = Append(All(ps, h), Each(a, h))
<1> DEFINE u == Append(ps, a)
           l == All(u, h)
           m == All(ps, h)
           e == Each(a, h)
           r == Append(m, e)
<1>1. /\ u \in Seq(Seq(Runes)) /\ Len(u) = Len(ps) + 1 /\ Len(ps) \in Nat
      /\ u[Len(ps) + 1] = a /\ \A i \in 1 .. Len(ps) : u[i] = ps[i]
  <2> DEFINE S == Seq(Runes)
  <2>1. ps \in Seq(S) /\ a \in S
    OBVIOUS
  <2> HIDE DEF S
  <2>2. /\ u \in Seq(S) /\ Len(u) = Len(ps) + 1 /\ Len(ps) \in Nat
        /\ u[Len(ps) + 1] = a /\ \A i \in 1 .. Len(ps) : u[i] = ps[i]
    BY <2>1, Appended
  <2> QED BY <2>2 DEF S
<1> HIDE DEF u
<1>2. /\ l \in Seq(Seq(Runes)) /\ Len(l) = Len(ps) + 1
      /\ \A j \in 1 .. Len(ps) + 1 : l[j] = Each(u[j], h)
  BY <1>1, AllType
<1>3. /\ m \in Seq(Seq(Runes)) /\ Len(m) = Len(ps) /\ e \in Seq(Runes)
      /\ \A j \in 1 .. Len(ps) : m[j] = Each(ps[j], h)
  BY AllType, EachType
<1> HIDE DEF l, m, e
<1>4. /\ r \in Seq(Seq(Runes)) /\ Len(r) = Len(ps) + 1
      /\ r[Len(ps) + 1] = e /\ \A i \in 1 .. Len(ps) : r[i] = m[i]
  BY <1>1, <1>3
<1>5. ASSUME NEW i \in 1 .. Len(ps) + 1 PROVE l[i] = r[i]
  <2>1. CASE i = Len(ps) + 1
    BY <1>1, <1>2, <1>4, <2>1 DEF e
  <2>2. CASE i \in 1 .. Len(ps)
    BY <1>1, <1>2, <1>3, <1>4, <2>2
  <2>3. i = Len(ps) + 1 \/ i \in 1 .. Len(ps)
    OBVIOUS
  <2> QED BY <2>1, <2>2, <2>3
<1> HIDE DEF r
<1>6. l = r
  BY <1>2, <1>4, <1>5, SeqEqual
<1> QED BY <1>6 DEF l, m, e, r, u

LEMMA EachParsed ==
  ASSUME NEW h, Simple(h)
  PROVE  \A s \in Seq(Runes) : /\ Open(Each(s, h)) = Open(s)
                               /\ Pending(Each(s, h)) = Each(Pending(s), h)
                               /\ Closed(Each(s, h)) = All(Closed(s), h)
<1> DEFINE Good(s) == /\ Open(Each(s, h)) = Open(s)
                      /\ Pending(Each(s, h)) = Each(Pending(s), h)
                      /\ Closed(Each(s, h)) = All(Closed(s), h)
           G == {s \in Seq(Runes) : Good(s)}
<1>0. h \in Maps
  BY DEF Simple
<1>1. <<>> \in G
  <2>1. Pending(<<>>) = <<>> /\ Closed(<<>>) = <<>>
    BY NothingYet
  <2>2. All(<<>>, h) = <<>>
    BY DEF All
  <2> QED BY <2>1, <2>2, Empty
<1>2. ASSUME NEW s \in Seq(Runes), NEW x \in Runes, s \in G PROVE Append(s, x) \in G
  <2> DEFINE e == Each(s, h)
             t == Append(s, x)
  <2>1. /\ e \in Seq(Runes) /\ t \in Seq(Runes)
        /\ Each(t, h) = e \o h[x]
        /\ Pending(s) \in Seq(Runes) /\ Closed(s) \in Seq(Seq(Runes))
    BY <1>0, EachType, EachAppend, ClosedType
  <2>2. Open(e) = Open(s) /\ Pending(e) = Each(Pending(s), h) /\ Closed(e) = All(Closed(s), h)
    BY <1>2
  <2>3. Pending(e) = <<>> <=> Pending(s) = <<>>
    BY <2>1, <2>2, <1>0, EachNotEmpty DEF Simple
  <2> HIDE DEF e, t
  <2>4. CASE x \in Keys
    <3>1. h[x] \in Seq(Letters) /\ h[x] \in Seq(Runes)
      <4>1. h[x] \in Seq(Runes)
        BY <1>0, MapAt
      <4>2. \A i \in 1 .. Len(h[x]) : h[x][i] \in Letters
        BY <2>4, <4>1 DEF Simple
      <4> QED BY <4>1, <4>2
    <3>2. /\ Open(e \o h[x]) = Open(e)
          /\ Pending(e \o h[x]) = Pending(e) \o h[x]
          /\ Closed(e \o h[x]) = Closed(e)
      BY <2>1, <3>1, LettersConcat
    <3>3. /\ Open(t) = Open(s)
          /\ Pending(t) = Append(Pending(s), x)
          /\ Closed(t) = Closed(s)
      BY <2>4, OrdinaryAppend DEF t, Ordinary
    <3>4. Each(Append(Pending(s), x), h) = Each(Pending(s), h) \o h[x]
      BY <1>0, <2>1, EachAppend
    <3>5. Good(t)
      BY <2>1, <2>2, <3>2, <3>3, <3>4
    <3> QED BY <2>1, <3>5 DEF t
  <2>5. CASE x \notin Keys
    <3>1. h[x] = <<x>>
      BY <2>5 DEF Simple
    <3>2. e \o h[x] = Append(e, x)
      BY <2>1, <3>1
    <3>3. Open(Append(e, x)) = Open(t)
      BY <2>1, <2>2, OpenAppend DEF t
    <3>4. Pending(Append(e, x)) = Each(Pending(t), h)
      <4>1. Each(Append(Pending(s), x), h) = Append(Each(Pending(s), h), x)
        <5>1. Each(Append(Pending(s), x), h) = Each(Pending(s), h) \o h[x]
          BY <1>0, <2>1, EachAppend
        <5>2. Each(Pending(s), h) \in Seq(Runes)
          BY <1>0, <2>1, EachType
        <5> QED BY <3>1, <5>1, <5>2
      <4>2. Pending(t) = IF x = "sp" /\ Open(s) = "none" THEN <<>>
                         ELSE IF After(Open(s), x) # Open(s) THEN Pending(s)
                         ELSE Append(Pending(s), x)
        BY PendingAppend DEF t
      <4>3. Pending(Append(e, x)) = IF x = "sp" /\ Open(e) = "none" THEN <<>>
                                    ELSE IF After(Open(e), x) # Open(e) THEN Pending(e)
                                    ELSE Append(Pending(e), x)
        BY <2>1, PendingAppend
      <4> QED BY <2>2, <4>1, <4>2, <4>3, Empty
    <3>5. Closed(Append(e, x)) = All(Closed(t), h)
      <4>1. Closed(t) = IF x = "sp" /\ Open(s) = "none" /\ Pending(s) # <<>>
                        THEN Append(Closed(s), Pending(s)) ELSE Closed(s)
        BY ClosedAppend DEF t
      <4>2. Closed(Append(e, x)) = IF x = "sp" /\ Open(e) = "none" /\ Pending(e) # <<>>
                                   THEN Append(Closed(e), Pending(e)) ELSE Closed(e)
        BY <2>1, ClosedAppend
      <4>3. All(Append(Closed(s), Pending(s)), h) = Append(All(Closed(s), h), Each(Pending(s), h))
        BY <1>0, <2>1, AllAppend
      <4> QED BY <2>2, <2>3, <4>1, <4>2, <4>3
    <3>6. Good(t)
      BY <2>1, <3>2, <3>3, <3>4, <3>5
    <3> QED BY <2>1, <3>6 DEF t
  <2> QED BY <2>4, <2>5
<1>3. \A s \in Seq(Runes) : s \in G
  <2> HIDE DEF G
  <2> QED BY <1>1, <1>2, SeqSet
<1> QED BY <1>3

LEMMA IntendedEach ==
  ASSUME NEW h, Simple(h), NEW s \in Seq(Runes)
  PROVE  Intended(Each(s, h)) = All(Intended(s), h)
<1>1. h \in Maps
  BY DEF Simple
<1>2. Pending(s) \in Seq(Runes) /\ Closed(s) \in Seq(Seq(Runes)) /\ Each(s, h) \in Seq(Runes)
  BY <1>1, ClosedType, EachType
<1>3. Pending(Each(s, h)) = Each(Pending(s), h) /\ Closed(Each(s, h)) = All(Closed(s), h)
  BY EachParsed
<1>4. Each(Pending(s), h) = <<>> <=> Pending(s) = <<>>
  BY <1>1, <1>2, EachNotEmpty DEF Simple
<1>5. All(Append(Closed(s), Pending(s)), h) = Append(All(Closed(s), h), Each(Pending(s), h))
  BY <1>1, <1>2, AllAppend
<1>6. Intended(s) = IF Pending(s) = <<>> THEN Closed(s) ELSE Append(Closed(s), Pending(s))
  BY IntendedClosed
<1>7. Intended(Each(s, h)) = IF Pending(Each(s, h)) = <<>> THEN Closed(Each(s, h))
                             ELSE Append(Closed(Each(s, h)), Pending(Each(s, h)))
  BY <1>2, IntendedClosed
<1> QED BY <1>3, <1>4, <1>5, <1>6, <1>7

-----------------------------------------------------------------------------
(***************************************************************************)
(* The states of expandPlaceholders and of parseCommandArgs.               *)
(***************************************************************************)
Shape ==
  /\ cmd \in Seq(Runes) /\ text \in Seq(Runes)
  /\ inPath \in [Inputs -> Paths] /\ outPath \in [Outputs -> Paths]
  /\ inputs \subseteq Inputs /\ outputs \subseteq Outputs
  /\ rest \in Seq(Runes) /\ current \in Seq(Runes)
  /\ args \in Seq(Seq(Runes))
  /\ pc \in {"expand", "parse", "done"}
  /\ pc = "expand" => current = <<>> /\ quote = "none" /\ args = <<>>
  /\ pc # "expand" => inputs = {} /\ outputs = {}

\* What the loops of expandPlaceholders have put for each rune so far.
SoFar == [x \in Runes |->
            IF x \in (Inputs \ inputs) \cup (Outputs \ outputs) THEN PathOf(x) ELSE <<x>>]

ExpandedSoFar == PlainPaths => text = Each(cmd, SoFar)

\* What the parser has read decides quoteChar, current and args.
ReadSoFar ==
  pc = "parse" => \E read \in Seq(Runes) : /\ text = read \o rest
                                           /\ quote = Open(read)
                                           /\ current = Pending(read)
                                           /\ args = Closed(read)

ReadAll == pc = "done" => args = Intended(text)

IInv == Shape /\ ExpandedSoFar /\ ReadSoFar /\ ReadAll /\ NothingLost

\* The functions that replace: one placeholder, all of them.
One(k, p) == [x \in Runes |-> IF x = k THEN p ELSE <<x>>]

LEMMA PathType ==
  ASSUME Shape, NEW k \in Keys
  PROVE  PathOf(k) \in Seq(Runes) /\ PathOf(k) # <<>>
BY TextAssumption DEF Shape, PathOf, Keys

LEMMA PlainPath ==
  ASSUME PlainPaths, NEW k \in Keys
  PROVE  Plain(PathOf(k))
BY DEF PlainPaths, PathOf, Keys

LEMMA MapsIn ==
  ASSUME Shape
  PROVE  /\ SoFar \in Maps
         /\ \A k \in Inputs : One(k, inPath[k]) \in Maps
         /\ \A k \in Outputs : One(k, outPath[k]) \in Maps
<1>1. \A x \in Runes : <<x>> \in Seq(Runes)
  OBVIOUS
<1>2. (Inputs \ inputs) \cup (Outputs \ outputs) \subseteq Keys
  BY DEF Keys
<1>3. SoFar \in Maps
  BY <1>1, <1>2, PathType DEF SoFar, Maps
<1>4. \A k \in Inputs : inPath[k] \in Seq(Runes)
  BY TextAssumption DEF Shape
<1>5. \A k \in Outputs : outPath[k] \in Seq(Runes)
  BY TextAssumption DEF Shape
<1>6. \A k \in Keys : \A p \in Seq(Runes) : One(k, p) \in Maps
  BY <1>1 DEF One, Maps
<1> QED BY <1>3, <1>4, <1>5, <1>6 DEF Keys

LEMMA ShapeInit == Init => Shape
<1> SUFFICES ASSUME Init PROVE Shape
  OBVIOUS
<1>1. cmd \in Seq(Runes)
  <2>1. PICK m \in 0 .. MaxLength : cmd \in [1 .. m -> Runes]
    BY DEF Init, BoundedSeq, SeqOf
  <2>2. m \in Nat
    BY TextAssumption
  <2> QED BY <2>1, <2>2, SeqDef
<1>2. <<>> \in Seq(Runes) /\ <<>> \in Seq(Seq(Runes))
  OBVIOUS
<1> QED BY <1>1, <1>2 DEF Init, Shape

\* Replacing the placeholder k by p in what is replaced so far: an input's
\* placeholder is no longer there for an output of the same key.
LEMMA ReplaceMore ==
  ASSUME Shape, PlainPaths, NEW k \in Keys, NEW p \in Seq(Runes), One(k, p) \in Maps,
         text = Each(cmd, SoFar),
         NEW later \in Maps,
         \A x \in Runes : later[x] = IF x = k /\ SoFar[k] = <<k>> THEN p ELSE SoFar[x]
  PROVE  ReplacePlaceholder(text, k, p) = Each(cmd, later)
<1> DEFINE h == One(k, p)
<1>1. h \in Maps /\ SoFar \in Maps /\ cmd \in Seq(Runes)
  BY MapsIn DEF Shape
<1>2. ASSUME NEW x \in Runes PROVE later[x] = Each(SoFar[x], h)
  <2>1. CASE SoFar[x] = <<x>>
    <3>1. Each(<<x>>, h) = h[x]
      BY <1>1, EachOne
    <3> QED BY <2>1, <3>1 DEF One
  <2>2. CASE SoFar[x] # <<x>>
    <3>1. x \in Keys /\ SoFar[x] = PathOf(x)
      BY <2>2 DEF SoFar, Shape, Keys
    <3>2. PathOf(x) \in Seq(Runes) /\ \A i \in DOMAIN PathOf(x) : PathOf(x)[i] \in Letters
      BY <3>1, PathType, PlainPath DEF Plain
    <3>3. \A i \in DOMAIN PathOf(x) : h[PathOf(x)[i]] = <<PathOf(x)[i]>>
      <4> SUFFICES ASSUME NEW i \in DOMAIN PathOf(x) PROVE h[PathOf(x)[i]] = <<PathOf(x)[i]>>
        OBVIOUS
      <4>1. PathOf(x)[i] \in Runes /\ PathOf(x)[i] # k
        BY <3>2, TextAssumption DEF Runes
      <4> QED BY <4>1 DEF One
    <3>4. Each(PathOf(x), h) = PathOf(x)
      BY <1>1, <3>2, <3>3, EachSame
    <3>5. later[x] = SoFar[x]
      BY <2>2
    <3> QED BY <3>1, <3>4, <3>5
  <2> QED BY <2>1, <2>2
<1>3. Each(Each(cmd, SoFar), h) = Each(cmd, later)
  <2> HIDE DEF h
  <2> QED BY <1>1, <1>2, EachEach
<1> QED BY <1>3 DEF ReplacePlaceholder, One

\* What a rune that ends up in no argument changes.
LEMMA ContentSkip ==
  ASSUME NEW a \in Seq(Runes), NEW r \in Seq(Runes), NEW x \in Quotes \cup {"sp"}
  PROVE  Content(a \o (<<x>> \o r)) = Content(a \o r)
<1> DEFINE h == [y \in Runes |-> IF y \in Quotes \cup {"sp"} THEN <<>> ELSE <<y>>]
<1>1. x \in Runes
  BY DEF Runes
<1>2. h \in Maps /\ h[x] = <<>>
  <2>1. \A y \in Runes : <<y>> \in Seq(Runes) /\ <<>> \in Seq(Runes)
    OBVIOUS
  <2> QED BY <1>1, <2>1 DEF Maps
<1>3. \A s : Content(s) = Each(s, h)
  BY DEF Content
<1> HIDE DEF h
<1>4. <<x>> \in Seq(Runes) /\ <<x>> \o r \in Seq(Runes) /\ Each(r, h) \in Seq(Runes)
  BY <1>1, <1>2, EachType
<1>5. Each(<<x>> \o r, h) = Each(<<x>>, h) \o Each(r, h)
  BY <1>2, <1>4, EachConcat
<1>6. Each(<<x>>, h) = <<>>
  BY <1>1, <1>2, EachOne
<1>7. Each(<<x>> \o r, h) = Each(r, h)
  <2> DEFINE q == Each(r, h)
  <2>1. q \in Seq(Runes)
    BY <1>4
  <2> HIDE DEF q
  <2>2. <<>> \o q = q
    BY <2>1
  <2> QED BY <1>5, <1>6, <2>2 DEF q
<1>8. /\ Each(a \o (<<x>> \o r), h) = Each(a, h) \o Each(<<x>> \o r, h)
      /\ Each(a \o r, h) = Each(a, h) \o Each(r, h)
  BY <1>2, <1>4, EachConcat
<1> QED BY <1>3, <1>7, <1>8

-----------------------------------------------------------------------------
(***************************************************************************)
(* The steps.                                                              *)
(***************************************************************************)
LEMMA ExpandInputStep ==
  ASSUME IInv, NEW k \in Inputs, ExpandInput(k)
  PROVE  IInv'
<1>1. k \in Keys /\ Shape /\ ExpandedSoFar /\ pc = "expand" /\ pc' = "expand"
  BY DEF Keys, IInv, ExpandInput, Shape
<1>2. ReplacePlaceholder(text, k, inPath[k]) \in Seq(Runes)
  BY <1>1, MapsIn, EachType DEF ReplacePlaceholder, One, Shape
<1>3. Shape'
  BY <1>1, <1>2 DEF Shape, ExpandInput
<1>4. ExpandedSoFar'
  <2> SUFFICES ASSUME PlainPaths' PROVE text' = Each(cmd', SoFar')
    BY DEF ExpandedSoFar
  <2>1. PlainPaths /\ text = Each(cmd, SoFar)
    BY <1>1 DEF PlainPaths, ExpandInput, ExpandedSoFar, Plain
  <2> DEFINE later == SoFar'
  <2>2. ASSUME NEW x \in Runes
        PROVE  later[x] = IF x = k /\ SoFar[k] = <<k>> THEN inPath[k] ELSE SoFar[x]
    <3>1. later[x] = IF x = k THEN inPath[k] ELSE SoFar[x]
      BY <1>1 DEF SoFar, PathOf, ExpandInput
    <3>2. SoFar[k] \in {<<k>>, inPath[k]}
      BY <1>1 DEF SoFar, PathOf, Keys, Runes
    <3> QED BY <3>1, <3>2
  <2>3. later \in Maps
    <3>1. later = [x \in Runes |-> later[x]]
      BY DEF SoFar
    <3>2. SoFar \in Maps /\ inPath[k] \in Seq(Runes)
      BY <1>1, MapsIn, TextAssumption DEF Shape
    <3> HIDE DEF later
    <3> QED BY <2>2, <3>1, <3>2 DEF Maps
  <2> HIDE DEF later
  <2>4. ReplacePlaceholder(text, k, inPath[k]) = Each(cmd, later)
    BY <1>1, <1>2, <2>1, <2>2, <2>3, MapsIn, TextAssumption, ReplaceMore DEF Shape
  <2> QED BY <2>4 DEF ExpandInput, later
<1>5. NothingLost'
  BY <1>1 DEF IInv, NothingLost, ExpandInput
<1> QED BY <1>1, <1>3, <1>4, <1>5 DEF IInv, ReadSoFar, ReadAll

LEMMA ExpandOutputStep ==
  ASSUME IInv, NEW k \in Outputs, ExpandOutput(k)
  PROVE  IInv'
<1>1. k \in Keys /\ Shape /\ ExpandedSoFar /\ pc = "expand" /\ pc' = "expand"
  BY DEF Keys, IInv, ExpandOutput, Shape
<1>2. ReplacePlaceholder(text, k, outPath[k]) \in Seq(Runes)
  BY <1>1, MapsIn, EachType DEF ReplacePlaceholder, One, Shape
<1>3. Shape'
  BY <1>1, <1>2 DEF Shape, ExpandOutput
<1>4. ExpandedSoFar'
  <2> SUFFICES ASSUME PlainPaths' PROVE text' = Each(cmd', SoFar')
    BY DEF ExpandedSoFar
  <2>1. PlainPaths /\ text = Each(cmd, SoFar)
    BY <1>1 DEF PlainPaths, ExpandOutput, ExpandedSoFar, Plain
  <2> DEFINE later == SoFar'
  <2>2. ASSUME NEW x \in Runes
        PROVE  later[x] = IF x = k /\ SoFar[k] = <<k>> THEN outPath[k] ELSE SoFar[x]
    <3>1. CASE k \in Inputs
      <4>1. later[x] = SoFar[x]
        BY <1>1, <3>1 DEF SoFar, PathOf, ExpandOutput
      <4>2. SoFar[k] = PathOf(k)
        BY <1>1, <3>1 DEF SoFar, ExpandOutput, Keys, Runes
      <4>3. PathOf(k) # <<k>>
        <5>1. Plain(PathOf(k)) /\ k \notin Letters
          BY <1>1, <2>1, PlainPath, TextAssumption
        <5> QED BY <5>1 DEF Plain
      <4> QED BY <4>1, <4>2, <4>3
    <3>2. CASE k \notin Inputs
      <4>1. later[x] = IF x = k THEN outPath[k] ELSE SoFar[x]
        BY <1>1, <3>2 DEF SoFar, PathOf, ExpandOutput
      <4>2. SoFar[k] \in {<<k>>, outPath[k]}
        BY <1>1, <3>2 DEF SoFar, PathOf, Keys, Runes
      <4> QED BY <4>1, <4>2
    <3> QED BY <3>1, <3>2
  <2>3. later \in Maps
    <3>1. later = [x \in Runes |-> later[x]]
      BY DEF SoFar
    <3>2. SoFar \in Maps /\ outPath[k] \in Seq(Runes)
      BY <1>1, MapsIn, TextAssumption DEF Shape
    <3> HIDE DEF later
    <3> QED BY <2>2, <3>1, <3>2 DEF Maps
  <2> HIDE DEF later
  <2>4. ReplacePlaceholder(text, k, outPath[k]) = Each(cmd, later)
    BY <1>1, <1>2, <2>1, <2>2, <2>3, MapsIn, TextAssumption, ReplaceMore DEF Shape
  <2> QED BY <2>4 DEF ExpandOutput, later
<1>5. NothingLost'
  BY <1>1 DEF IInv, NothingLost, ExpandOutput
<1> QED BY <1>1, <1>3, <1>4, <1>5 DEF IInv, ReadSoFar, ReadAll

LEMMA ExpandedStep ==
  ASSUME IInv, Expanded
  PROVE  IInv'
<1>1. /\ Shape /\ ExpandedSoFar /\ rest' = text
      /\ pc' = "parse" /\ current = <<>> /\ quote = "none" /\ args = <<>>
      /\ UNCHANGED <<cmd, inPath, outPath, text, inputs, outputs, current, quote, args>>
      /\ text \in Seq(Runes)
  BY DEF IInv, Shape, Expanded
<1>2. Shape'
  BY <1>1 DEF Shape, Expanded
<1>3. ExpandedSoFar'
  BY <1>1 DEF ExpandedSoFar, PlainPaths, Plain, SoFar, PathOf
<1>4. ReadSoFar'
  <2>1. Pending(<<>>) = <<>> /\ Closed(<<>>) = <<>>
    BY NothingYet
  <2>2. <<>> \in Seq(Runes) /\ <<>> \o text = text
    BY <1>1
  <2> QED BY <1>1, <2>1, <2>2, OpenFirst DEF ReadSoFar
<1>5. NothingLost'
  <2>1. FlattenSeq(<<>>) = <<>> /\ <<>> \o <<>> \o text = text
    BY <1>1, Empty
  <2>2. FlattenSeq(args') \o current' \o rest' = text
    BY <1>1, <2>1
  <2>3. \A j \in DOMAIN args' : args'[j] # <<>>
    BY <1>1
  <2>4. Content(FlattenSeq(args') \o current' \o rest') = Content(text')
    BY <1>1, <2>2
  <2> QED BY <2>3, <2>4 DEF NothingLost, Content
<1>6. ReadAll'
  BY <1>1 DEF ReadAll
<1> QED BY <1>2, <1>3, <1>4, <1>5, <1>6 DEF IInv

\* What reading a rune leaves alone.
LEMMA ReadingStep ==
  ASSUME IInv, NEW x \in Runes, Reading(x)
  PROVE  /\ rest = <<x>> \o rest' /\ rest' \in Seq(Runes)
         /\ current \in Seq(Runes) /\ args \in Seq(Seq(Runes))
         /\ pc = "parse" /\ pc' = "parse"
         /\ UNCHANGED <<cmd, inPath, outPath, text, inputs, outputs>>
         /\ ExpandedSoFar' /\ ReadAll'
         /\ current' \in Seq(Runes) /\ args' \in Seq(Seq(Runes)) => Shape'
         /\ Content(FlattenSeq(args) \o current \o rest) = Content(text)
         /\ FlattenSeq(args) \in Seq(Runes)
         /\ \A j \in DOMAIN args : args[j] # <<>>
<1>1. /\ Shape /\ rest \in Seq(Runes) /\ rest # <<>> /\ x = Head(rest) /\ rest' = Tail(rest)
      /\ pc = "parse" /\ pc' = "parse" /\ ExpandedSoFar /\ NothingLost
      /\ UNCHANGED <<cmd, inPath, outPath, text, inputs, outputs>>
  BY DEF IInv, Shape, Reading
<1>2. rest = <<x>> \o rest' /\ rest' \in Seq(Runes)
  BY <1>1
<1>3. ExpandedSoFar'
  BY <1>1 DEF ExpandedSoFar, PlainPaths, Plain, SoFar, PathOf
<1>4. current' \in Seq(Runes) /\ args' \in Seq(Seq(Runes)) => Shape'
  BY <1>1, <1>2 DEF Shape
<1>5. ReadAll'
  BY <1>1 DEF ReadAll
<1>6. current \in Seq(Runes) /\ args \in Seq(Seq(Runes)) /\ FlattenSeq(args) \in Seq(Runes)
  BY <1>1, FlattenType DEF Shape
<1>7. Content(FlattenSeq(args) \o current \o rest) = Content(text)
      /\ \A j \in DOMAIN args : args[j] # <<>>
  BY <1>1 DEF NothingLost
<1> QED BY <1>1, <1>2, <1>3, <1>4, <1>5, <1>6, <1>7

\* One more rune of what is read.
LEMMA ReadOneMore ==
  ASSUME NEW read \in Seq(Runes), NEW x \in Runes, NEW r \in Seq(Runes)
  PROVE  Append(read, x) \in Seq(Runes) /\ read \o (<<x>> \o r) = Append(read, x) \o r
OBVIOUS

LEMMA TakeKeeps ==
  ASSUME NEW a \in Seq(Runes), NEW c \in Seq(Runes), NEW x \in Runes, NEW r \in Seq(Runes)
  PROVE  a \o Append(c, x) \o r = a \o c \o (<<x>> \o r)
<1> DEFINE xr == <<x>> \o r
<1>1. xr \in Seq(Runes) /\ Append(c, x) \o r = c \o xr
  OBVIOUS
<1>2. a \o Append(c, x) \o r = a \o (Append(c, x) \o r)
  OBVIOUS
<1> HIDE DEF xr
<1>3. a \o c \o xr = a \o (c \o xr)
  BY <1>1
<1> QED BY <1>1, <1>2, <1>3 DEF xr

\* What Flush does to the arguments.
LEMMA FlushKeeps ==
  ASSUME NEW ps \in Seq(Seq(Runes)), NEW c \in Seq(Runes), NEW bs,
         bs = IF c = <<>> THEN ps ELSE Append(ps, c)
  PROVE  FlattenSeq(bs) \o <<>> = FlattenSeq(ps) \o c
<1>1. FlattenSeq(ps) \in Seq(Runes)
  BY FlattenType
<1>2. CASE c = <<>>
  BY <1>2
<1>3. CASE c # <<>>
  <2>1. FlattenSeq(bs) = FlattenSeq(ps) \o c
    BY <1>3, FlattenAppend
  <2>2. FlattenSeq(ps) \o c \in Seq(Runes)
    BY <1>1
  <2> QED BY <2>1, <2>2
<1> QED BY <1>2, <1>3

LEMMA FlushNotEmpty ==
  ASSUME NEW ps \in Seq(Seq(Runes)), NEW c \in Seq(Runes), NEW bs,
         bs = IF c = <<>> THEN ps ELSE Append(ps, c),
         \A j \in DOMAIN ps : ps[j] # <<>>
  PROVE  \A j \in DOMAIN bs : bs[j] # <<>>
OBVIOUS

\* A rune that only moves the parser into or out of a quote.
LEMMA QuoteStep ==
  ASSUME IInv, NEW x \in Quotes, Reading(x), UNCHANGED <<current, args>>,
         quote' = After(quote, x), quote' # quote
  PROVE  IInv'
<1>0. x \in Runes /\ x # "sp"
  BY DEF Quotes, Runes
<1>1. /\ rest = <<x>> \o rest' /\ rest' \in Seq(Runes)
      /\ current \in Seq(Runes) /\ args \in Seq(Seq(Runes)) /\ FlattenSeq(args) \in Seq(Runes)
      /\ pc = "parse" /\ pc' = "parse" /\ text' = text /\ current' = current /\ args' = args
      /\ ExpandedSoFar' /\ ReadAll' /\ Shape'
      /\ Content(FlattenSeq(args) \o current \o rest) = Content(text)
      /\ \A j \in DOMAIN args : args[j] # <<>>
  BY <1>0, ReadingStep
<1>2. ReadSoFar'
  <2>1. PICK read \in Seq(Runes) : /\ text = read \o rest
                                   /\ quote = Open(read)
                                   /\ current = Pending(read)
                                   /\ args = Closed(read)
    BY <1>1 DEF IInv, ReadSoFar
  <2> DEFINE more == Append(read, x)
  <2>2. more \in Seq(Runes) /\ text = more \o rest'
    BY <1>0, <1>1, <2>1, ReadOneMore
  <2>3. Open(more) = quote'
    BY <1>0, <2>1, OpenAppend
  <2>4. Pending(more) = current'
    BY <1>0, <1>1, <2>1, PendingAppend
  <2>5. Closed(more) = args'
    BY <1>0, <1>1, <2>1, ClosedAppend
  <2> HIDE DEF more
  <2> QED BY <1>1, <2>2, <2>3, <2>4, <2>5 DEF ReadSoFar
<1>3. NothingLost'
  <2> DEFINE a == FlattenSeq(args) \o current
  <2>1. a \in Seq(Runes)
    BY <1>1
  <2>2. Content(a \o rest) = Content(text)
    BY <1>1
  <2> HIDE DEF a
  <2>3. Content(a \o (<<x>> \o rest')) = Content(a \o rest')
    BY <1>1, <2>1, ContentSkip
  <2>4. Content(a \o rest') = Content(text)
    BY <1>1, <2>2, <2>3
  <2>5. Content(FlattenSeq(args') \o current' \o rest') = Content(text')
    BY <1>1, <2>4 DEF a
  <2>6. \A j \in DOMAIN args' : args'[j] # <<>>
    BY <1>1
  <2> QED BY <2>5, <2>6 DEF NothingLost, Content
<1> QED BY <1>1, <1>2, <1>3 DEF IInv

LEMMA QuoteActions ==
  ASSUME IInv, NEW x \in Runes, OpenQuote(x) \/ CloseQuote(x)
  PROVE  IInv'
<1>1. PICK read \in Seq(Runes) : quote = Open(read)
  BY DEF IInv, ReadSoFar, OpenQuote, CloseQuote, Reading
<1>2. quote \in Quotes \cup {"none"} /\ x # "none"
  BY <1>1, OpenType, TextAssumption
<1>3. x \in Quotes
  BY <1>2 DEF OpenQuote, CloseQuote
<1>4. quote' = After(quote, x) /\ quote' # quote
  BY <1>2, <1>3 DEF OpenQuote, CloseQuote, After
<1>5. Reading(x) /\ UNCHANGED <<current, args>>
  BY DEF OpenQuote, CloseQuote
<1> QED BY <1>3, <1>4, <1>5, QuoteStep

LEMMA SeparateStep ==
  ASSUME IInv, NEW x \in Runes, Separate(x)
  PROVE  IInv'
<1>0. /\ Reading(x) /\ x = "sp" /\ quote = "none" /\ quote' = quote /\ current' = <<>>
      /\ args' = IF current = <<>> THEN args ELSE Append(args, current)
  BY DEF Separate, Flush
<1>1. /\ rest = <<x>> \o rest' /\ rest' \in Seq(Runes)
      /\ current \in Seq(Runes) /\ args \in Seq(Seq(Runes)) /\ FlattenSeq(args) \in Seq(Runes)
      /\ pc = "parse" /\ pc' = "parse" /\ text' = text
      /\ ExpandedSoFar' /\ ReadAll'
      /\ Content(FlattenSeq(args) \o current \o rest) = Content(text)
      /\ \A j \in DOMAIN args : args[j] # <<>>
  BY <1>0, ReadingStep
<1>2. Shape'
  <2>1. current' \in Seq(Runes) /\ args' \in Seq(Seq(Runes))
    BY <1>0, <1>1
  <2> QED BY <1>0, <2>1, ReadingStep
<1>3. ReadSoFar'
  <2>1. PICK read \in Seq(Runes) : /\ text = read \o rest
                                   /\ quote = Open(read)
                                   /\ current = Pending(read)
                                   /\ args = Closed(read)
    BY <1>1 DEF IInv, ReadSoFar
  <2> DEFINE more == Append(read, x)
  <2>2. more \in Seq(Runes) /\ text = more \o rest'
    BY <1>1, <2>1, ReadOneMore
  <2>3. Open(more) = quote'
    <3>1. Open(more) = After(quote, x)
      BY <2>1, OpenAppend
    <3> QED BY <1>0, <3>1 DEF After, Quotes
  <2>4. Pending(more) = current'
    BY <1>0, <2>1, PendingAppend
  <2>5. Closed(more) = args'
    BY <1>0, <2>1, ClosedAppend
  <2> HIDE DEF more
  <2> QED BY <1>1, <2>2, <2>3, <2>4, <2>5 DEF ReadSoFar
<1>4. NothingLost'
  <2> DEFINE a == FlattenSeq(args) \o current
  <2>1. a \in Seq(Runes)
    BY <1>1
  <2>2. FlattenSeq(args') \o current' = a
    BY <1>0, <1>1, FlushKeeps
  <2>3. Content(a \o rest) = Content(text)
    BY <1>1
  <2> HIDE DEF a
  <2>4. Content(a \o (<<x>> \o rest')) = Content(a \o rest')
    BY <1>0, <1>1, <2>1, ContentSkip
  <2>5. Content(a \o rest') = Content(text)
    BY <1>1, <2>3, <2>4
  <2>6. Content(FlattenSeq(args') \o current' \o rest') = Content(text')
    BY <1>1, <2>2, <2>5
  <2>7. \A j \in DOMAIN args' : args'[j] # <<>>
    BY <1>0, <1>1, FlushNotEmpty
  <2> QED BY <2>6, <2>7 DEF NothingLost, Content
<1> QED BY <1>1, <1>2, <1>3, <1>4 DEF IInv

LEMMA TakeStep ==
  ASSUME IInv, NEW x \in Runes, Take(x)
  PROVE  IInv'
<1>0. /\ Reading(x) /\ x # quote
      /\ quote = "none" => x \notin Quotes \cup {"sp"}
      /\ current' = Append(current, x) /\ quote' = quote /\ args' = args
  BY DEF Take
<1>1. /\ rest = <<x>> \o rest' /\ rest' \in Seq(Runes)
      /\ current \in Seq(Runes) /\ args \in Seq(Seq(Runes)) /\ FlattenSeq(args) \in Seq(Runes)
      /\ pc = "parse" /\ pc' = "parse" /\ text' = text
      /\ ExpandedSoFar' /\ ReadAll'
      /\ Content(FlattenSeq(args) \o current \o rest) = Content(text)
      /\ \A j \in DOMAIN args : args[j] # <<>>
  BY <1>0, ReadingStep
<1>2. Shape'
  <2>1. current' \in Seq(Runes) /\ args' \in Seq(Seq(Runes))
    BY <1>0, <1>1
  <2> QED BY <1>0, <2>1, ReadingStep
<1>3. ReadSoFar'
  <2>1. PICK read \in Seq(Runes) : /\ text = read \o rest
                                   /\ quote = Open(read)
                                   /\ current = Pending(read)
                                   /\ args = Closed(read)
    BY <1>1 DEF IInv, ReadSoFar
  <2> DEFINE more == Append(read, x)
  <2>2. more \in Seq(Runes) /\ text = more \o rest'
    BY <1>1, <2>1, ReadOneMore
  <2>3. After(quote, x) = quote /\ ~(x = "sp" /\ quote = "none")
    BY <1>0 DEF After
  <2>4. Open(more) = quote'
    BY <1>0, <2>1, <2>3, OpenAppend
  <2>5. Pending(more) = current'
    BY <1>0, <2>1, <2>3, PendingAppend
  <2>6. Closed(more) = args'
    BY <1>0, <2>1, <2>3, ClosedAppend
  <2> HIDE DEF more
  <2> QED BY <1>1, <2>2, <2>4, <2>5, <2>6 DEF ReadSoFar
<1>4. NothingLost'
  <2> DEFINE a == FlattenSeq(args)
  <2>1. a \in Seq(Runes)
    BY <1>1
  <2> HIDE DEF a
  <2>2. a \o Append(current, x) \o rest' = a \o current \o (<<x>> \o rest')
    BY <1>1, <2>1, TakeKeeps
  <2>3. Content(FlattenSeq(args') \o current' \o rest') = Content(text')
    BY <1>0, <1>1, <2>2 DEF a
  <2>4. \A j \in DOMAIN args' : args'[j] # <<>>
    BY <1>0, <1>1
  <2> QED BY <2>3, <2>4 DEF NothingLost, Content
<1> QED BY <1>1, <1>2, <1>3, <1>4 DEF IInv

LEMMA FinishStep ==
  ASSUME IInv, Finish
  PROVE  IInv'
<1>0. /\ pc = "parse" /\ pc' = "done" /\ rest = <<>> /\ rest' = rest /\ current' = <<>>
      /\ args' = IF current = <<>> THEN args ELSE Append(args, current)
      /\ UNCHANGED <<cmd, inPath, outPath, text, inputs, outputs, rest, quote>>
  BY DEF Finish, Flush
<1>1. /\ Shape /\ ExpandedSoFar /\ NothingLost /\ text \in Seq(Runes)
      /\ current \in Seq(Runes) /\ args \in Seq(Seq(Runes)) /\ FlattenSeq(args) \in Seq(Runes)
  BY FlattenType DEF IInv, Shape
<1>2. Shape'
  <2>1. current' \in Seq(Runes) /\ args' \in Seq(Seq(Runes))
    BY <1>0, <1>1
  <2> QED BY <1>0, <1>1, <2>1 DEF Shape
<1>3. ExpandedSoFar'
  BY <1>0, <1>1 DEF ExpandedSoFar, PlainPaths, Plain, SoFar, PathOf
<1>4. ReadAll'
  <2>1. PICK read \in Seq(Runes) : /\ text = read \o rest
                                   /\ current = Pending(read)
                                   /\ args = Closed(read)
    BY <1>0 DEF IInv, ReadSoFar
  <2>2. text = read
    BY <1>0, <2>1
  <2>3. Intended(text) = args'
    BY <1>0, <2>1, <2>2, IntendedClosed
  <2> QED BY <1>0, <2>3 DEF ReadAll, Intended, Piece, Mark, Gap, InQuote
<1>5. NothingLost'
  <2>1. FlattenSeq(args') \o current' = FlattenSeq(args) \o current
    BY <1>0, <1>1, FlushKeeps
  <2>2. \A j \in DOMAIN args' : args'[j] # <<>>
    BY <1>0, <1>1, FlushNotEmpty DEF NothingLost
  <2>3. Content(FlattenSeq(args') \o current' \o rest') = Content(text')
    BY <1>0, <1>1, <2>1 DEF NothingLost
  <2> QED BY <2>2, <2>3 DEF NothingLost, Content
<1> QED BY <1>0, <1>2, <1>3, <1>4, <1>5 DEF IInv, ReadSoFar

LEMMA IInvInductive ==
  /\ Init => IInv
  /\ IInv /\ [Next]_vars => IInv'
<1>1. ASSUME Init PROVE IInv
  <2>1. Shape
    BY <1>1, ShapeInit
  <2>2. ExpandedSoFar
    <3>1. SoFar = [x \in Runes |-> <<x>>]
      BY <1>1 DEF Init, SoFar
    <3>2. \A j \in DOMAIN cmd : SoFar[cmd[j]] = <<cmd[j]>>
      <4> SUFFICES ASSUME NEW j \in DOMAIN cmd PROVE SoFar[cmd[j]] = <<cmd[j]>>
        OBVIOUS
      <4>1. cmd[j] \in Runes
        BY <2>1 DEF Shape
      <4> QED BY <3>1, <4>1
    <3>3. SoFar \in Maps /\ cmd \in Seq(Runes)
      BY <2>1, MapsIn DEF Shape
    <3>4. Each(cmd, SoFar) = cmd
      BY <3>2, <3>3, EachSame
    <3> QED BY <1>1, <3>4 DEF ExpandedSoFar, Init
  <2>3. ReadSoFar /\ ReadAll /\ NothingLost
    BY <1>1 DEF Init, ReadSoFar, ReadAll, NothingLost
  <2> QED BY <2>1, <2>2, <2>3 DEF IInv
<1>2. ASSUME IInv, Next PROVE IInv'
  <2>1. ASSUME NEW k \in Inputs, ExpandInput(k) PROVE IInv'
    BY <1>2, <2>1, ExpandInputStep
  <2>2. ASSUME NEW k \in Outputs, ExpandOutput(k) PROVE IInv'
    BY <1>2, <2>2, ExpandOutputStep
  <2>3. CASE Expanded
    BY <1>2, <2>3, ExpandedStep
  <2>4. ASSUME NEW x \in Runes, OpenQuote(x) \/ CloseQuote(x) PROVE IInv'
    BY <1>2, <2>4, QuoteActions
  <2>5. ASSUME NEW x \in Runes, Separate(x) PROVE IInv'
    BY <1>2, <2>5, SeparateStep
  <2>6. ASSUME NEW x \in Runes, Take(x) PROVE IInv'
    BY <1>2, <2>6, TakeStep
  <2>7. CASE Finish
    BY <1>2, <2>7, FinishStep
  <2> QED BY <1>2, <2>1, <2>2, <2>3, <2>4, <2>5, <2>6, <2>7 DEF Next
<1>3. ASSUME IInv, UNCHANGED vars PROVE IInv'
  BY <1>3 DEF vars, IInv, Shape, ExpandedSoFar, PlainPaths, Plain, SoFar, PathOf,
              ReadSoFar, ReadAll, NothingLost, Content, Intended
<1> QED BY <1>1, <1>2, <1>3

LEMMA IInvAlways == Spec => []IInv
BY IInvInductive, PTL DEF Spec

\* The paths of all placeholders at once.
Resolution == [x \in Runes |-> IF x \in Keys THEN PathOf(x) ELSE <<x>>]

LEMMA IInvArguments == IInv => ArgumentsAsIntended
<1> SUFFICES ASSUME IInv, pc = "done" PROVE ArgumentsAsIntended
  BY DEF ArgumentsAsIntended
<1>1. args = Intended(text) /\ Shape /\ ExpandedSoFar /\ cmd \in Seq(Runes)
  BY DEF IInv, ReadAll, Shape
<1>2. ASSUME PlainPaths
      PROVE  args = [j \in DOMAIN Intended(cmd) |-> Resolve(Intended(cmd)[j])]
  <2>1. SoFar = Resolution
    BY <1>1 DEF SoFar, Resolution, Shape, Keys
  <2>2. text = Each(cmd, Resolution)
    BY <1>1, <1>2, <2>1 DEF ExpandedSoFar
  <2>3. Simple(Resolution)
    <3>1. Resolution \in Maps
      BY <1>1, <2>1, MapsIn
    <3>2. \A x \in Runes : Resolution[x] # <<>>
      BY <1>1, PathType DEF Resolution
    <3>3. \A x \in Runes \ Keys : Resolution[x] = <<x>>
      BY DEF Resolution
    <3>4. \A k \in Keys : \A i \in DOMAIN Resolution[k] : Resolution[k][i] \in Letters
      BY <1>2, PlainPath DEF Resolution, Plain, Runes
    <3> QED BY <3>1, <3>2, <3>3, <3>4 DEF Simple
  <2>4. args = All(Intended(cmd), Resolution)
    BY <1>1, <2>2, <2>3, IntendedEach
  <2> QED BY <2>4 DEF All, Resolve, Resolution
<1> QED BY <1>1, <1>2 DEF ArgumentsAsIntended

(***************************************************************************)
(* worker/main.go:199-205 gives FFmpeg the arguments that the text with    *)
(* the placeholders resolved stands for, whatever the command and the      *)
(* paths; and when no path has a space, a quote or a placeholder in it,    *)
(* they are the arguments of the command as it was written, each resolved. *)
(***************************************************************************)
THEOREM ArgumentsCorrect == Spec => []ArgumentsAsIntended
BY IInvAlways, IInvArguments, PTL

(***************************************************************************)
(* parseCommandArgs never makes an empty argument and loses no rune of the *)
(* command but separating spaces and the quotes, at any point of its loop. *)
(***************************************************************************)
THEOREM NothingLostCorrect == Spec => []NothingLost
<1>1. IInv => NothingLost
  BY DEF IInv
<1> QED BY <1>1, IInvAlways, PTL

==============================================================================
