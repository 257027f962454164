---------------------------- MODULE ConfigProofs ----------------------------
(***************************************************************************)
(* Lemmas about the operators of Config, for configurations of any length. *)
(*                                                                         *)
(* What a fold over a sequence gives is found by induction.  The theorem   *)
(* of the library that is used for it speaks of sets only: a set of        *)
(* numbers has a least one, from which SetInduction follows.  FlattenSeq,  *)
(* which lays out the entries and the devices, is the last of its prefix   *)
(* sums, and so puts each position of each part in exactly one place       *)
(* (LayoutUnique).  The rest is what validateConfig's conditions make of   *)
(* the entries: their number, their models, their names and their sockets. *)
(***************************************************************************)
EXTENDS Config, WellFoundedInduction, SequenceTheorems, FiniteSetTheorems, TLAPS

\* The order of the numbers, as a set of pairs: what the library's theorem speaks of.
LEMMA LessIsWellFounded ==
  \E R : IsWellFoundedOn(R, Nat) /\ \A x, y \in Nat : <<x, y>> \in R <=> x < y
<1>1. \A x, y \in Nat : <<x, y>> \in OpToRel(<, Nat) <=> x < y
  BY DEF OpToRel
<1> QED BY <1>1, NatLessThanWellFounded

\* A non-empty set of numbers has a least one.
LEMMA LeastNumber ==
  ASSUME NEW T, T \subseteq Nat, T # {} PROVE \E x \in T : \A y \in T : x <= y
<1>1. PICK R : IsWellFoundedOn(R, Nat) /\ \A x, y \in Nat : <<x, y>> \in R <=> x < y
  BY LessIsWellFounded
<1>2. IsWellFoundedOn(R, Nat)
  BY <1>1
<1>3. \E x \in T : \A y \in T : ~ (<<y, x>> \in R)
  BY <1>2, WFMin
<1>4. PICK x \in T : \A y \in T : ~ (<<y, x>> \in R)
  BY <1>3
<1>5. \A y \in T : ~ (y < x)
  BY <1>1, <1>4
<1>6. \A y \in T : y \in Nat /\ x \in Nat
  OBVIOUS
<1>7. \A y \in T : x <= y
  BY <1>5, <1>6
<1> QED BY <1>7

\* Induction, for a set in the place of a predicate.
LEMMA SetInduction ==
  ASSUME NEW T, T \subseteq Nat, 0 \in T, \A n \in T : n + 1 \in T
  PROVE  T = Nat
<1> SUFFICES ASSUME Nat \ T # {} PROVE FALSE
  OBVIOUS
<1>1. PICK x \in Nat \ T : \A y \in Nat \ T : x <= y
  BY LeastNumber
<1> QED BY <1>1

-----------------------------------------------------------------------------
(* FlattenSeq *)

IsPrefixes(f, ss, n) ==
  f = [i \in 1..n |-> IF i = 1 THEN ss[i] ELSE f[i - 1] \o ss[i]]

\* The recursive function inside FlattenSeq exists, for every number of parts.
LEMMA PrefixesExist ==
  ASSUME NEW ss PROVE \A n \in Nat : \E f : IsPrefixes(f, ss, n)
<1> DEFINE T == {n \in Nat : \E f : IsPrefixes(f, ss, n)}
<1>1. 0 \in T
  <2>1. [i \in 1..0 |-> ss[i]] =
          [i \in 1..0 |-> IF i = 1 THEN ss[i] ELSE [j \in 1..0 |-> ss[j]][i - 1] \o ss[i]]
    OBVIOUS
  <2>2. IsPrefixes([i \in 1..0 |-> ss[i]], ss, 0)
    BY <2>1 DEF IsPrefixes
  <2> QED BY <2>2
<1>2. ASSUME NEW n \in T PROVE n + 1 \in T
  <2>1. PICK f : IsPrefixes(f, ss, n)
    OBVIOUS
  <2> DEFINE x == IF n = 0 THEN ss[n + 1] ELSE f[n] \o ss[n + 1]
             g == [i \in 1..(n + 1) |-> IF i = n + 1 THEN x ELSE f[i]]
  <2>2. \A i \in 1..(n + 1) : g[i] = IF i = 1 THEN ss[i] ELSE g[i - 1] \o ss[i]
    <3> SUFFICES ASSUME NEW i \in 1..(n + 1) PROVE g[i] = IF i = 1 THEN ss[i] ELSE g[i - 1] \o ss[i]
      OBVIOUS
    <3>1. CASE i = n + 1
      <4>1. n # 0 => i - 1 \in 1..(n + 1) /\ i - 1 # n + 1 /\ i - 1 = n
        BY <3>1
      <4> QED BY <3>1, <4>1
    <3>2. CASE i # n + 1
      <4>1. i \in 1..n /\ (i # 1 => i - 1 \in 1..n)
        BY <3>2
      <4>2. f[i] = IF i = 1 THEN ss[i] ELSE f[i - 1] \o ss[i]
        BY <2>1, <4>1 DEF IsPrefixes
      <4> QED BY <3>2, <4>1, <4>2
    <3> QED BY <3>1, <3>2
  <2>3. IsPrefixes(g, ss, n + 1)
    BY <2>2 DEF IsPrefixes
  <2> QED BY <2>3
<1>3. T = Nat
  <2> HIDE DEF T
  <2>1. T \subseteq Nat
    BY DEF T
  <2> QED BY <1>1, <1>2, <2>1, SetInduction
<1> QED BY <1>3

\* FlattenSeq is its last value.
LEMMA FlattenIsLastPrefix ==
  ASSUME NEW ss, Len(ss) \in Nat \ {0}
  PROVE  \E f : IsPrefixes(f, ss, Len(ss)) /\ FlattenSeq(ss) = f[Len(ss)]
<1> DEFINE g == CHOOSE f : IsPrefixes(f, ss, Len(ss))
<1>1. IsPrefixes(g, ss, Len(ss))
  BY PrefixesExist
<1>2. FlattenSeq(ss) = g[Len(ss)]
  BY DEF FlattenSeq, IsPrefixes
<1> QED BY <1>1, <1>2

\* Where the n-th part of F = ss[1] \o ... \o ss[n] begins.
Layout(ss, n, F, off) ==
  /\ off \in [1..n -> Nat]
  /\ \A i \in 1..n : /\ off[i] + Len(ss[i]) <= Len(F)
                      /\ \A j \in 1..Len(ss[i]) : F[off[i] + j] = ss[i][j]
  /\ \A p \in 1..Len(F) : \E i \in 1..n : \E j \in 1..Len(ss[i]) : p = off[i] + j
  /\ \A i, k \in 1..n : i < k => off[i] + Len(ss[i]) <= off[k]

\* The first prefix is laid out in order.
LEMMA FirstLayout ==
  ASSUME NEW S, NEW ss \in Seq(Seq(S)), Len(ss) # 0
  PROVE  Layout(ss, 1, ss[1], [i \in 1..1 |-> 0])
<1>1. ss[1] \in Seq(S) /\ Len(ss[1]) \in Nat
  OBVIOUS
<1> QED BY <1>1 DEF Layout

\* So is a prefix with one more part.
LEMMA NextLayout ==
  ASSUME NEW S, NEW ss \in Seq(Seq(S)), NEW n \in Nat \ {0}, n < Len(ss),
         NEW F \in Seq(S), NEW off, Layout(ss, n, F, off)
  PROVE  /\ F \o ss[n + 1] \in Seq(S)
         /\ Layout(ss, n + 1, F \o ss[n + 1],
                   [i \in 1..(n + 1) |-> IF i = n + 1 THEN Len(F) ELSE off[i]])
<1> DEFINE s == ss[n + 1]
           G == F \o s
           o == [i \in 1..(n + 1) |-> IF i = n + 1 THEN Len(F) ELSE off[i]]
<1>1. \A i \in 1..(n + 1) : ss[i] \in Seq(S) /\ Len(ss[i]) \in Nat
  OBVIOUS
<1>2. s \in Seq(S) /\ Len(F) \in Nat /\ Len(s) \in Nat
  BY <1>1
<1>3. G \in Seq(S) /\ Len(G) = Len(F) + Len(s)
  BY <1>2, ConcatProperties
<1>4. \A p \in 1..Len(G) : G[p] = IF p <= Len(F) THEN F[p] ELSE s[p - Len(F)]
  BY <1>2, ConcatProperties
<1>5. \A i \in 1..(n + 1) : (i \in 1..n /\ i # n + 1 /\ o[i] = off[i]) \/ (i = n + 1 /\ o[i] = Len(F))
  OBVIOUS
<1>6. o \in [1..(n + 1) -> Nat]
  BY <1>2 DEF Layout
<1> HIDE DEF o, G, s
<1>7. ASSUME NEW i \in 1..(n + 1)
      PROVE  /\ o[i] + Len(ss[i]) <= Len(G)
             /\ \A j \in 1..Len(ss[i]) : G[o[i] + j] = ss[i][j]
  <2>1. CASE i \in 1..n /\ o[i] = off[i]
    <3>1. off[i] \in Nat /\ off[i] + Len(ss[i]) <= Len(F)
      BY <2>1 DEF Layout
    <3>2. o[i] + Len(ss[i]) <= Len(G)
      BY <1>1, <1>2, <1>3, <2>1, <3>1
    <3>3. ASSUME NEW j \in 1..Len(ss[i]) PROVE G[o[i] + j] = ss[i][j]
      <4>1. F[off[i] + j] = ss[i][j]
        BY <2>1 DEF Layout
      <4>2. off[i] + j \in 1..Len(G) /\ off[i] + j <= Len(F)
        BY <1>1, <1>2, <1>3, <3>1
      <4> QED BY <1>4, <2>1, <4>1, <4>2
    <3> QED BY <3>2, <3>3
  <2>2. CASE i = n + 1 /\ o[i] = Len(F)
    <3>1. ss[i] = s
      BY <2>2 DEF s
    <3>2. o[i] + Len(ss[i]) <= Len(G)
      BY <1>2, <1>3, <2>2, <3>1
    <3>3. ASSUME NEW j \in 1..Len(ss[i]) PROVE G[o[i] + j] = ss[i][j]
      <4>1. Len(F) + j \in 1..Len(G) /\ ~ (Len(F) + j <= Len(F)) /\ Len(F) + j - Len(F) = j
        BY <1>2, <1>3, <3>1
      <4> QED BY <1>4, <2>2, <3>1, <4>1
    <3> QED BY <3>2, <3>3
  <2> QED BY <1>5, <2>1, <2>2
<1>8. ASSUME NEW p \in 1..Len(G)
      PROVE  \E i \in 1..(n + 1) : \E j \in 1..Len(ss[i]) : p = o[i] + j
  <2>1. CASE p <= Len(F)
    <3>1. p \in 1..Len(F)
      BY <1>2, <1>3, <2>1
    <3>2. PICK i \in 1..n : \E j \in 1..Len(ss[i]) : p = off[i] + j
      BY <3>1 DEF Layout
    <3>3. i \in 1..(n + 1) /\ o[i] = off[i]
      BY <1>5
    <3> QED BY <3>2, <3>3
  <2>2. CASE ~ (p <= Len(F))
    <3>1. n + 1 \in 1..(n + 1) /\ o[n + 1] = Len(F)
      BY <1>5
    <3>2. p - Len(F) \in 1..Len(ss[n + 1]) /\ p = o[n + 1] + (p - Len(F))
      BY <1>2, <1>3, <2>2, <3>1 DEF s
    <3> QED BY <3>1, <3>2
  <2> QED BY <2>1, <2>2
<1>9. ASSUME NEW i \in 1..(n + 1), NEW k \in 1..(n + 1), i < k
      PROVE  o[i] + Len(ss[i]) <= o[k]
  <2>1. i \in 1..n /\ o[i] = off[i] /\ off[i] + Len(ss[i]) <= Len(F)
    <3>1. i \in 1..n /\ o[i] = off[i]
      BY <1>5, <1>9
    <3> QED BY <3>1 DEF Layout
  <2>2. CASE k \in 1..n /\ o[k] = off[k]
    BY <1>9, <2>1, <2>2 DEF Layout
  <2>3. CASE k = n + 1 /\ o[k] = Len(F)
    BY <2>1, <2>3
  <2> QED BY <1>5, <2>2, <2>3
<1>10. Layout(ss, n + 1, G, o)
  BY <1>6, <1>7, <1>8, <1>9 DEF Layout
<1> QED BY <1>3, <1>10 DEF G, o, s

\* The flattened sequence consists of the parts, one after the other.
LEMMA FlattenLayout ==
  ASSUME NEW S, NEW ss \in Seq(Seq(S)), Len(ss) # 0
  PROVE  /\ FlattenSeq(ss) \in Seq(S)
         /\ \E off : Layout(ss, Len(ss), FlattenSeq(ss), off)
<1>1. Len(ss) \in Nat \ {0}
  OBVIOUS
<1>2. PICK f : IsPrefixes(f, ss, Len(ss)) /\ FlattenSeq(ss) = f[Len(ss)]
  BY <1>1, FlattenIsLastPrefix
<1> DEFINE P(k) == f[k] \in Seq(S) /\ \E off : Layout(ss, k, f[k], off)
           T == {k \in Nat : k \in 1..Len(ss) => P(k)}
<1>3. \A i \in 1..Len(ss) : f[i] = IF i = 1 THEN ss[i] ELSE f[i - 1] \o ss[i]
  BY <1>1, <1>2 DEF IsPrefixes
<1>4. 0 \in T
  OBVIOUS
<1>5. ASSUME NEW k \in T PROVE k + 1 \in T
  <2> SUFFICES ASSUME k + 1 \in 1..Len(ss) PROVE P(k + 1)
    OBVIOUS
  <2>1. CASE k = 0
    <3>1. f[1] = ss[1] /\ ss[1] \in Seq(S)
      BY <1>1, <1>3
    <3>2. Layout(ss, 1, f[1], [i \in 1..1 |-> 0])
      BY <1>1, <3>1, FirstLayout
    <3> QED BY <2>1, <3>1, <3>2
  <2>2. CASE k # 0
    <3>1. k \in Nat \ {0} /\ k \in 1..Len(ss) /\ k < Len(ss) /\ k + 1 # 1 /\ (k + 1) - 1 = k
      BY <1>1, <2>2
    <3>2. f[k + 1] = f[k] \o ss[k + 1]
      BY <1>3, <3>1
    <3>3. P(k)
      BY <3>1
    <3>4. PICK off : Layout(ss, k, f[k], off)
      BY <3>3
    <3>5. /\ f[k] \o ss[k + 1] \in Seq(S)
          /\ Layout(ss, k + 1, f[k] \o ss[k + 1],
                    [i \in 1..(k + 1) |-> IF i = k + 1 THEN Len(f[k]) ELSE off[i]])
      BY <3>1, <3>3, <3>4, NextLayout
    <3> QED BY <3>2, <3>5
  <2> QED BY <2>1, <2>2
<1>6. T = Nat
  <2> HIDE DEF T
  <2>1. T \subseteq Nat
    BY DEF T
  <2> QED BY <1>4, <1>5, <2>1, SetInduction
<1>7. P(Len(ss))
  BY <1>1, <1>6
<1> QED BY <1>2, <1>7

\* A function on 1..n is a sequence of n elements.
LEMMA SequenceOf ==
  ASSUME NEW n \in Nat, NEW T, NEW s \in [1..n -> T]
  PROVE  s \in Seq(T) /\ Len(s) = n
OBVIOUS

\* A position of the flattened sequence belongs to one place of one part.
LEMMA LayoutUnique ==
  ASSUME NEW S, NEW ss \in Seq(Seq(S)), NEW F, NEW off, Layout(ss, Len(ss), F, off),
         NEW i \in 1..Len(ss), NEW k \in 1..Len(ss),
         NEW j \in 1..Len(ss[i]), NEW l \in 1..Len(ss[k]), off[i] + j = off[k] + l
  PROVE  i = k /\ j = l
<1>1. Len(ss[i]) \in Nat /\ Len(ss[k]) \in Nat
  OBVIOUS
<1>2. off[i] \in Nat /\ off[k] \in Nat
  BY DEF Layout
<1>3. i < k => off[i] + Len(ss[i]) <= off[k]
  BY DEF Layout
<1>4. k < i => off[k] + Len(ss[k]) <= off[i]
  BY DEF Layout
<1>5. i \in Nat /\ k \in Nat /\ j \in Nat \ {0} /\ l \in Nat \ {0}
  BY <1>1
<1>6. j <= Len(ss[i]) /\ l <= Len(ss[k])
  BY <1>1
<1>7. \A a, b, x, y, m \in Nat : y # 0 /\ x <= m /\ a + m <= b => a + x # b + y
  OBVIOUS
<1>8. i = k
  <2>1. ~ (i < k)
    BY <1>1, <1>2, <1>3, <1>5, <1>6, <1>7
  <2>2. ~ (k < i)
    BY <1>1, <1>2, <1>4, <1>5, <1>6, <1>7
  <2> QED BY <1>5, <2>1, <2>2
<1> QED BY <1>2, <1>5, <1>8

\* If the flattened sequence has no duplicates, its parts share nothing.
LEMMA FlattenInjective ==
  ASSUME NEW S, NEW ss \in Seq(Seq(S)), Len(ss) # 0, IsInjective(FlattenSeq(ss)),
         NEW i \in 1..Len(ss), NEW k \in 1..Len(ss),
         NEW j \in 1..Len(ss[i]), NEW l \in 1..Len(ss[k]), ss[i][j] = ss[k][l]
  PROVE  i = k /\ j = l
<1> DEFINE F == FlattenSeq(ss)
<1>1. F \in Seq(S) /\ \E off : Layout(ss, Len(ss), F, off)
  BY FlattenLayout
<1>2. PICK off : Layout(ss, Len(ss), F, off)
  BY <1>1
<1>3. Len(F) \in Nat /\ DOMAIN F = 1..Len(F)
  BY <1>1
<1>4. \A x, y \in 1..Len(F) : F[x] = F[y] => x = y
  BY <1>3 DEF IsInjective
<1> HIDE DEF F
<1>5. Len(ss[i]) \in Nat /\ Len(ss[k]) \in Nat
  OBVIOUS
<1>6. /\ off[i] \in Nat /\ off[i] + Len(ss[i]) <= Len(F) /\ F[off[i] + j] = ss[i][j]
      /\ off[k] \in Nat /\ off[k] + Len(ss[k]) <= Len(F) /\ F[off[k] + l] = ss[k][l]
  BY <1>2 DEF Layout
<1>7. off[i] + j \in 1..Len(F) /\ off[k] + l \in 1..Len(F)
  <2>1. j \in Nat \ {0} /\ l \in Nat \ {0} /\ j <= Len(ss[i]) /\ l <= Len(ss[k])
    BY <1>5
  <2>2. \A a, x, m, n \in Nat : x # 0 /\ x <= m /\ a + m <= n => a + x \in 1..n
    OBVIOUS
  <2> QED BY <1>3, <1>5, <1>6, <2>1, <2>2
<1>8. off[i] + j = off[k] + l
  BY <1>4, <1>6, <1>7
<1> QED BY <1>2, <1>8, LayoutUnique

\* A non-empty set of positions has a last one.
LEMMA LastPosition ==
  ASSUME NEW n \in Nat, NEW T, T \subseteq 1..n, T # {}
  PROVE  \E i \in T : \A j \in T : j <= i
<1> DEFINE U == {n - i : i \in T}
<1>1. U \subseteq Nat /\ U # {}
  <2>1. \A i \in T : n - i \in Nat
    OBVIOUS
  <2> QED BY <2>1
<1>2. PICK x \in U : \A y \in U : x <= y
  BY <1>1, LeastNumber
<1>3. PICK i \in T : x = n - i
  OBVIOUS
<1>4. ASSUME NEW j \in T PROVE j <= i
  <2>1. n - j \in U
    OBVIOUS
  <2>2. n - i <= n - j
    BY <1>2, <1>3, <2>1
  <2> QED BY <2>2
<1> QED BY <1>4

-----------------------------------------------------------------------------
(* What a valid configuration guarantees *)

\* What the parts of a configuration are.
LEMMA ConfigTypes ==
  ASSUME NEW c \in ConfigFile
  PROVE  /\ Len(c.groups) \in Nat /\ DOMAIN c.groups = 1..Len(c.groups)
         /\ Len(c.models) \in Nat /\ DOMAIN c.models = 1..Len(c.models)
         /\ \A i \in DOMAIN c.groups : c.groups[i] \in GPUGroup
         /\ \A k \in DOMAIN c.models : c.models[k] \in ModelConfig
BY DEF ConfigFile

\* Two groups share no device.
LEMMA GroupsDisjoint ==
  ASSUME NEW c \in ConfigFile, GroupsValid(c),
         NEW i \in DOMAIN c.groups, NEW j \in DOMAIN c.groups, i # j
  PROVE  Range(c.groups[i].gpus) \intersect Range(c.groups[j].gpus) = {}
<1> DEFINE ss == [x \in DOMAIN c.groups |-> c.groups[x].gpus]
<1>1. \A x \in DOMAIN c.groups : c.groups[x].gpus \in Seq(Int)
  BY ConfigTypes DEF GPUGroup
<1>2. ss \in Seq(Seq(Int)) /\ Len(ss) = Len(c.groups)
  BY <1>1, ConfigTypes
<1>3. Len(ss) # 0
  BY <1>2, ConfigTypes
<1>4. IsInjective(FlattenSeq(ss))
  BY DEF GroupsValid, Devices
<1>5. \A x \in DOMAIN c.groups : ss[x] = c.groups[x].gpus /\ x \in 1..Len(ss)
  BY <1>2, ConfigTypes
<1> HIDE DEF ss
<1>6. ASSUME NEW x \in DOMAIN ss[i], NEW y \in DOMAIN ss[j], ss[i][x] = ss[j][y] PROVE FALSE
  <2>1. x \in 1..Len(ss[i]) /\ y \in 1..Len(ss[j])
    BY <1>1, <1>5, <1>6
  <2> QED BY <1>2, <1>3, <1>4, <1>5, <1>6, <2>1, FlattenInjective
<1> QED BY <1>5, <1>6 DEF Range

\* The name, and the aliases after it.
LEMMA DeclaredType ==
  ASSUME NEW m \in ModelConfig
  PROVE  /\ Declared(m) \in Seq(Seq(STRING)) /\ Len(Declared(m)) \in Nat \ {0}
         /\ DOMAIN Declared(m) = 1..Len(Declared(m))
         /\ Declared(m)[1] = m.name
<1>1. m.name \in Seq(STRING) /\ m.aliases \in Seq(Seq(STRING))
  BY DEF ModelConfig
<1>2. <<m.name>> \in Seq(Seq(STRING)) /\ Len(<<m.name>>) = 1 /\ <<m.name>>[1] = m.name
  BY <1>1
<1>3. Len(m.aliases) \in Nat
  BY <1>1
<1> HIDE DEF ModelConfig
<1>4. /\ Declared(m) \in Seq(Seq(STRING))
      /\ Len(Declared(m)) = 1 + Len(m.aliases)
      /\ \A i \in 1..(1 + Len(m.aliases)) :
           Declared(m)[i] = IF i <= 1 THEN <<m.name>>[i] ELSE m.aliases[i - 1]
  BY <1>1, <1>2, ConcatProperties DEF Declared
<1> QED BY <1>2, <1>3, <1>4

\* No name or alias is declared twice.
LEMMA NamesApart ==
  ASSUME NEW c \in ConfigFile, NamesValid(c),
         NEW k \in DOMAIN c.models, NEW l \in DOMAIN c.models,
         NEW name \in Range(Declared(c.models[k])), name \in Range(Declared(c.models[l]))
  PROVE  k = l
<1> DEFINE ss == [x \in DOMAIN c.models |-> Declared(c.models[x])]
<1>1. \A x \in DOMAIN c.models : /\ Declared(c.models[x]) \in Seq(Seq(STRING))
                                /\ DOMAIN Declared(c.models[x]) = 1..Len(Declared(c.models[x]))
  BY ConfigTypes, DeclaredType
<1>2. ss \in Seq(Seq(Seq(STRING))) /\ Len(ss) = Len(c.models)
  <2>1. Len(c.models) \in Nat /\ DOMAIN c.models = 1..Len(c.models)
    BY ConfigTypes
  <2>2. ss \in [1..Len(c.models) -> Seq(Seq(STRING))]
    BY <1>1, <2>1
  <2> QED BY <2>1, <2>2, SequenceOf
<1>3. \A x \in DOMAIN c.models : ss[x] = Declared(c.models[x]) /\ x \in 1..Len(ss)
  BY <1>2, ConfigTypes
<1>4. Len(ss) # 0
  BY <1>2, <1>3, ConfigTypes
<1>5. IsInjective(FlattenSeq(ss))
  BY DEF NamesValid
<1> HIDE DEF ss
<1>6. PICK i \in DOMAIN ss[k], j \in DOMAIN ss[l] : ss[k][i] = ss[l][j]
  BY <1>3 DEF Range
<1>7. i \in 1..Len(ss[k]) /\ j \in 1..Len(ss[l])
  BY <1>1, <1>3, <1>6
<1> QED BY <1>2, <1>3, <1>4, <1>5, <1>6, <1>7, FlattenInjective

\* groupGpuCount finds a group of that id.
LEMMA GpuCountOfGroup ==
  ASSUME NEW c \in ConfigFile, NEW id \in GroupIds(c)
  PROVE  \E g \in Range(c.groups) : g.id = id /\ GpuCount(c, id) = Len(g.gpus)
<1> DEFINE T == {i \in DOMAIN c.groups : c.groups[i].id = id}
           IsLast(i) == /\ c.groups[i].id = id
                        /\ \A j \in DOMAIN c.groups : c.groups[j].id = id => j <= i
           last == CHOOSE i \in DOMAIN c.groups : IsLast(i)
<1>1. T # {}
  BY DEF GroupIds, Range
<1>2. T \subseteq 1..Len(c.groups) /\ Len(c.groups) \in Nat
  BY ConfigTypes
<1>3. \E i \in T : \A j \in T : j <= i
  BY <1>1, <1>2, LastPosition
<1>4. \E i \in DOMAIN c.groups : IsLast(i)
  BY <1>3
<1>5. last \in DOMAIN c.groups /\ c.groups[last].id = id
  BY <1>4
<1>6. GpuCount(c, id) = Len(c.groups[last].gpus)
  BY DEF GpuCount
<1> QED BY <1>5, <1>6 DEF Range

-----------------------------------------------------------------------------
(* The entries of o.models *)

Entry(c) == [model : DOMAIN c.models, replica : Nat]
Parts(c) == [k \in DOMAIN c.models |->
              [i \in 1..ReplicasOf(c.models[k]) |-> [model |-> k, replica |-> i - 1]]]

\* replicas of 0 means one instance.
LEMMA ReplicasPositive == \A m \in ModelConfig : ReplicasOf(m) \in Nat \ {0}
BY DEF ModelConfig, ReplicasOf

\* The entries of one model are a sequence.
LEMMA PartsType ==
  ASSUME NEW c \in ConfigFile
  PROVE  /\ Parts(c) \in Seq(Seq(Entry(c))) /\ Len(Parts(c)) = Len(c.models)
         /\ \A k \in DOMAIN c.models :
              /\ k \in 1..Len(Parts(c))
              /\ Len(Parts(c)[k]) = ReplicasOf(c.models[k])
              /\ \A i \in 1..ReplicasOf(c.models[k]) :
                   Parts(c)[k][i] = [model |-> k, replica |-> i - 1]
<1> DEFINE part(k) == [i \in 1..ReplicasOf(c.models[k]) |-> [model |-> k, replica |-> i - 1]]
<1>1. Len(c.models) \in Nat /\ DOMAIN c.models = 1..Len(c.models)
  BY ConfigTypes
<1>2. ASSUME NEW k \in DOMAIN c.models
      PROVE  part(k) \in Seq(Entry(c)) /\ Len(part(k)) = ReplicasOf(c.models[k])
  <2>1. ReplicasOf(c.models[k]) \in Nat \ {0}
    BY ConfigTypes, ReplicasPositive
  <2>2. \A i \in 1..ReplicasOf(c.models[k]) : i - 1 \in Nat
    BY <2>1
  <2>3. part(k) \in [1..ReplicasOf(c.models[k]) -> Entry(c)]
    BY <2>1, <2>2 DEF Entry
  <2> QED BY <2>1, <2>3, SequenceOf
<1>3. \A k \in DOMAIN c.models : Parts(c)[k] = part(k)
  BY DEF Parts
<1>4. Parts(c) \in [1..Len(c.models) -> Seq(Entry(c))]
  BY <1>1, <1>2 DEF Parts
<1>5. Parts(c) \in Seq(Seq(Entry(c))) /\ Len(Parts(c)) = Len(c.models)
  BY <1>1, <1>4, SequenceOf
<1> QED BY <1>1, <1>2, <1>3, <1>5

\* Whatever the configuration, o.models is a sequence.
LEMMA EntriesNumbered ==
  ASSUME NEW c \in ConfigFile
  PROVE  EntriesOf(c) \in Seq(Entry(c)) /\ DOMAIN EntriesOf(c) \subseteq Nat \ {0}
<1>1. EntriesOf(c) = FlattenSeq(Parts(c))
  BY DEF EntriesOf, Parts
<1>2. CASE Len(Parts(c)) = 0
  <2>1. FlattenSeq(Parts(c)) = Parts(c)
    BY <1>2 DEF FlattenSeq
  <2>2. Parts(c) = << >>
    BY <1>2, PartsType
  <2> QED BY <1>1, <2>1, <2>2
<1>3. CASE Len(Parts(c)) # 0
  BY <1>1, <1>3, PartsType, FlattenLayout
<1> QED BY <1>2, <1>3

\* It has one entry for each replica of each model.
LEMMA EntriesExact ==
  ASSUME NEW c \in ConfigFile, c.models # << >>
  PROVE  LET E == EntriesOf(c) IN
         /\ \A e \in DOMAIN E : /\ E[e].model \in DOMAIN c.models
                                /\ E[e].replica \in 0..(ReplicasOf(c.models[E[e].model]) - 1)
         /\ \A k \in DOMAIN c.models : \A r \in 0..(ReplicasOf(c.models[k]) - 1) :
              \E e \in DOMAIN E : E[e].model = k /\ E[e].replica = r
         /\ \A e, f \in DOMAIN E :
              E[e].model = E[f].model /\ E[e].replica = E[f].replica => e = f
<1> DEFINE ss == Parts(c)
           E == EntriesOf(c)
           R(k) == ReplicasOf(c.models[k])
<1>1. E = FlattenSeq(ss)
  BY DEF EntriesOf, Parts
<1>2. Len(ss) # 0
  BY PartsType, ConfigTypes
<1>3. E \in Seq(Entry(c)) /\ \E off : Layout(ss, Len(ss), E, off)
  BY <1>1, <1>2, PartsType, FlattenLayout
<1>4. PICK off : Layout(ss, Len(ss), E, off)
  BY <1>3
<1>5. DOMAIN E = 1..Len(E) /\ Len(E) \in Nat
  BY <1>3
<1>6. DOMAIN c.models = 1..Len(ss) /\ Len(ss) \in Nat
  BY PartsType, ConfigTypes
<1>7. \A k \in DOMAIN c.models : R(k) \in Nat \ {0}
  BY ConfigTypes, ReplicasPositive
<1>8. \A k \in DOMAIN c.models :
        /\ Len(ss[k]) = R(k)
        /\ \A i \in 1..R(k) : ss[k][i].model = k /\ ss[k][i].replica = i - 1
  <2> SUFFICES ASSUME NEW k \in DOMAIN c.models
               PROVE  /\ Len(ss[k]) = R(k)
                      /\ \A i \in 1..R(k) : ss[k][i].model = k /\ ss[k][i].replica = i - 1
    OBVIOUS
  <2>1. Len(ss[k]) = R(k) /\ \A i \in 1..R(k) : ss[k][i] = [model |-> k, replica |-> i - 1]
    BY PartsType
  <2> HIDE DEF ss, R
  <2>2. ASSUME NEW i \in 1..R(k) PROVE ss[k][i].model = k /\ ss[k][i].replica = i - 1
    <3>1. ss[k][i] = [model |-> k, replica |-> i - 1]
      BY <2>1
    <3>2. \A x, y, z : x = [model |-> y, replica |-> z] => x.model = y /\ x.replica = z
      OBVIOUS
    <3> QED BY ONLY <3>1, <3>2, Zenon
  <2> QED BY <2>1, <2>2
<1>9. ss \in Seq(Seq(Entry(c)))
  BY PartsType
<1> HIDE DEF ss, E, R
<1>10. ASSUME NEW e \in DOMAIN E
       PROVE  \E k \in DOMAIN c.models, i \in Nat \ {0} :
                i <= R(k) /\ e = off[k] + i /\ E[e].model = k /\ E[e].replica = i - 1
  <2>1. PICK k \in 1..Len(ss) : \E i \in 1..Len(ss[k]) : e = off[k] + i
    BY <1>4, <1>5 DEF Layout
  <2>2. PICK i \in 1..Len(ss[k]) : e = off[k] + i
    BY <2>1
  <2>3. E[e] = ss[k][i]
    BY <1>4, <2>2 DEF Layout
  <2>4. i \in Nat \ {0} /\ i <= R(k) /\ i \in 1..R(k)
    BY <1>6, <1>7, <1>8
  <2> QED BY <1>6, <1>8, <2>2, <2>3, <2>4
<1>11. ASSUME NEW e \in DOMAIN E
       PROVE  E[e].model \in DOMAIN c.models /\ E[e].replica \in 0..(R(E[e].model) - 1)
  <2>1. PICK k \in DOMAIN c.models, i \in Nat \ {0} : i <= R(k) /\ E[e].model = k /\ E[e].replica = i - 1
    BY <1>10
  <2> QED BY <1>7, <2>1
<1>12. ASSUME NEW k \in DOMAIN c.models, NEW r \in 0..(R(k) - 1)
       PROVE  \E e \in DOMAIN E : E[e].model = k /\ E[e].replica = r
  <2>1. r + 1 \in 1..Len(ss[k]) /\ (r + 1) - 1 = r /\ Len(ss[k]) \in Nat
    BY <1>7, <1>8
  <2>2. /\ off[k] \in Nat /\ off[k] + Len(ss[k]) <= Len(E)
        /\ E[off[k] + (r + 1)] = ss[k][r + 1]
    BY <1>4, <1>6, <2>1 DEF Layout
  <2>3. off[k] + (r + 1) \in DOMAIN E
    BY <1>5, <2>1, <2>2
  <2>4. ss[k][r + 1].model = k /\ ss[k][r + 1].replica = r
    BY <1>8, <2>1
  <2> QED BY <2>2, <2>3, <2>4
<1>13. ASSUME NEW e \in DOMAIN E, NEW f \in DOMAIN E,
              E[e].model = E[f].model, E[e].replica = E[f].replica
       PROVE  e = f
  <2>1. PICK k \in DOMAIN c.models, i \in Nat \ {0} :
          e = off[k] + i /\ E[e].model = k /\ E[e].replica = i - 1
    BY <1>10
  <2>2. PICK l \in DOMAIN c.models, j \in Nat \ {0} :
          f = off[l] + j /\ E[f].model = l /\ E[f].replica = j - 1
    BY <1>10
  <2>3. k = l /\ i = j
    BY <1>7, <1>13, <2>1, <2>2
  <2> QED BY <2>1, <2>2, <2>3
<1> QED BY <1>11, <1>12, <1>13 DEF E, R

-----------------------------------------------------------------------------
(* What a valid configuration guarantees of names, pins and socket paths *)

\* A declared name leads to the entries of its model, whoever else declares names.
LEMMA NameResolves ==
  ASSUME NEW c \in ConfigFile, NamesValid(c), NEW k \in DOMAIN c.models,
         NEW name \in Range(Declared(c.models[k]))
  PROVE  ByName(c, name) = k
<1> DEFINE IsLast(x) == /\ name \in Range(Declared(c.models[x]))
                        /\ \A j \in DOMAIN c.models :
                             name \in Range(Declared(c.models[j])) => j <= x
<1>1. \A j \in DOMAIN c.models : name \in Range(Declared(c.models[j])) => j = k
  BY NamesApart
<1>2. k \in Nat
  BY ConfigTypes
<1>3. \A x \in DOMAIN c.models : IsLast(x) <=> x = k
  BY <1>1, <1>2
<1>4. (CHOOSE x \in DOMAIN c.models : IsLast(x)) = k
  BY <1>3
<1> QED BY <1>4 DEF ByName

\* What the fields of a model are.
LEMMA FieldTypes ==
  ASSUME NEW m \in ModelConfig
  PROVE  /\ m.name \in Seq(STRING) /\ m.tp \in Int /\ m.replicas \in Int
         /\ m.replicas <= 1 => ReplicasOf(m) = 1
BY DEF ModelConfig, ReplicasOf

\* What the checks of one model say of its pin.
LEMMA PinChecked ==
  ASSUME NEW c, NEW m, m.pin # "", PlacementValid(c, m), EngineValid(c, m)
  PROVE  /\ m.pin \in GroupIds(c) /\ m.tp >= 0 /\ ~ (m.replicas > 1)
         /\ m.tp = 0 \/ (m.tp > 0 => m.tp <= GpuCount(c, m.pin))
<1>1. m.pin \in GroupIds(c) /\ m.tp >= 0 /\ ~ (m.replicas > 1)
  BY Zenon DEF PlacementValid
<1>2. CASE m.engine = LlamaCppEngine
  <2>1. m.tp = 0
    BY <1>2, Zenon DEF EngineValid, LlamaCppEngine, VLLM
  <2> QED BY <1>1, <2>1, Zenon
<1>3. CASE m.engine # LlamaCppEngine
  <2>1. m.tp > 0 => m.tp <= GpuCount(c, m.pin)
    BY <1>3, Zenon DEF EngineValid
  <2> QED BY <1>1, <2>1, Zenon
<1> QED BY <1>2, <1>3, Zenon

\* assignGroup finds a group of a declared id.
LEMMA FirstGroupFound ==
  ASSUME NEW c \in ConfigFile, NEW id \in GroupIds(c)
  PROVE  FirstGroup(c, id) \in DOMAIN c.groups /\ c.groups[FirstGroup(c, id)].id = id
<1> DEFINE T == {i \in DOMAIN c.groups : c.groups[i].id = id}
<1>1. DOMAIN c.groups = 1..Len(c.groups) /\ Len(c.groups) \in Nat
  BY ConfigTypes
<1>2. T \subseteq Nat /\ T # {}
  BY <1>1 DEF GroupIds, Range
<1>3. \E i \in T : \A j \in T : i <= j
  BY <1>2, LeastNumber
<1>4. \E i \in DOMAIN c.groups :
        /\ c.groups[i].id = id
        /\ \A j \in DOMAIN c.groups : c.groups[j].id = id => i <= j
  BY <1>3
<1> QED BY <1>4 DEF FirstGroup

\* The group whose devices validateConfig counts is the one that assignGroup takes, if
\* no other has its id.
LEMMA PinHasDevices ==
  ASSUME NEW c \in ConfigFile, NEW m \in ModelConfig,
         m.pin \in GroupIds(c), m.tp >= 0,
         m.tp = 0 \/ (m.tp > 0 => m.tp <= GpuCount(c, m.pin)),
         \A i, j \in DOMAIN c.groups : c.groups[i].id = c.groups[j].id => i = j
  PROVE  m.tp <= Len(c.groups[FirstGroup(c, m.pin)].gpus)
<1>1. PICK g \in Range(c.groups) : g.id = m.pin /\ GpuCount(c, m.pin) = Len(g.gpus)
  BY GpuCountOfGroup
<1>2. PICK i \in DOMAIN c.groups : g = c.groups[i]
  BY DEF Range
<1>3. i = FirstGroup(c, m.pin)
  BY <1>1, <1>2, FirstGroupFound
<1>4. g.gpus \in Seq(Int)
  BY ConfigTypes DEF Range, GPUGroup
<1>5. Len(g.gpus) \in Nat
  BY <1>4
<1> QED BY <1>1, <1>2, <1>3, <1>5, FieldTypes

\* A pinned model has no replicas: its one entry is in the map of entries by itself.
LEMMA PinnedModelHasOneEntry ==
  ASSUME NEW c \in ConfigFile, c.models # << >>,
         NEW e \in DOMAIN EntriesOf(c), NEW f \in DOMAIN EntriesOf(c),
         EntriesOf(c)[e].model = EntriesOf(c)[f].model,
         c.models[EntriesOf(c)[e].model].replicas <= 1
  PROVE  e = f
<1> DEFINE E == EntriesOf(c)
           m == c.models[E[e].model]
<1>1. E[e].model \in DOMAIN c.models /\ m \in ModelConfig
  BY EntriesExact, ConfigTypes
<1>2. ReplicasOf(m) = 1
  BY <1>1, FieldTypes
<1>3. E[e].replica \in 0..(ReplicasOf(m) - 1) /\ E[f].replica \in 0..(ReplicasOf(m) - 1)
  BY EntriesExact
<1> HIDE DEF m, E
<1>4. E[e].replica = E[f].replica
  BY <1>2, <1>3
<1> QED BY <1>4, EntriesExact DEF E

\* Two characters, by names that every backend can read.
Underscore == "_"
Dash == "-"

\* Characters are members of some set S.
LEMMA SanitizeType ==
  ASSUME NEW S, Underscore \in S, NEW n \in Seq(S)
  PROVE  /\ Sanitize(n) \in Seq(S) /\ Len(Sanitize(n)) = Len(n)
         /\ \A i \in 1..Len(n) : IF n[i] \in Kept THEN Sanitize(n)[i] = n[i]
                                ELSE Sanitize(n)[i] = Underscore
<1>1. Len(n) \in Nat /\ DOMAIN n = 1..Len(n) /\ \A i \in 1..Len(n) : n[i] \in S
  OBVIOUS
<1>2. \A i \in 1..Len(n) : IF n[i] \in Kept THEN Sanitize(n)[i] = n[i]
                         ELSE Sanitize(n)[i] = Underscore
  BY <1>1, Zenon DEF Sanitize, Underscore
<1>3. Sanitize(n) = [i \in 1..Len(n) |-> Sanitize(n)[i]]
  BY <1>1, Zenon DEF Sanitize
<1>4. Sanitize(n) \in [1..Len(n) -> S]
  BY <1>1, <1>2, <1>3
<1> QED BY <1>1, <1>2, <1>4, SequenceOf

\* Different names become one only where a character is replaced.
LEMMA SanitizedAlike ==
  ASSUME NEW S, Underscore \in S, NEW n \in Seq(S), NEW k \in Seq(S),
         n # k, Sanitize(n) = Sanitize(k)
  PROVE  ~(Range(n) \union Range(k) \subseteq Kept)
<1> SUFFICES ASSUME Range(n) \union Range(k) \subseteq Kept PROVE FALSE
  OBVIOUS
<1>1. Len(n) = Len(k)
  BY SanitizeType
<1>2. ASSUME NEW i \in 1..Len(n) PROVE n[i] = k[i]
  <2>1. n[i] \in Range(n) /\ k[i] \in Range(k)
    BY <1>1 DEF Range
  <2>2. n[i] \in Kept /\ k[i] \in Kept
    BY <2>1
  <2>3. Sanitize(n)[i] = n[i]
    BY <2>2, SanitizeType
  <2>4. Sanitize(k)[i] = k[i]
    BY <1>1, <2>2, SanitizeType
  <2> QED BY <2>3, <2>4
<1> QED BY <1>1, <1>2, SeqEqual

\* A name with a replica's suffix ends in the two characters of the suffix.
LEMMA SuffixType ==
  ASSUME NEW S, NEW d \in S, NEW r \in S, NEW p \in Seq(S)
  PROVE  LET s == p \o <<d, r>> IN
         /\ Len(s) = Len(p) + 2 /\ s[Len(p) + 1] = d /\ s[Len(p) + 2] = r
         /\ \A i \in 1..Len(p) : s[i] = p[i]
<1> DEFINE t == <<d, r>>
           s == p \o t
<1>1. Len(p) \in Nat
  OBVIOUS
<1>2. t \in Seq(S) /\ Len(t) = 2 /\ t[1] = d /\ t[2] = r
  OBVIOUS
<1> HIDE DEF t
<1>3. /\ Len(s) = Len(p) + 2
      /\ \A i \in 1..(Len(p) + 2) : s[i] = IF i <= Len(p) THEN p[i] ELSE t[i - Len(p)]
  <2>1. /\ Len(s) = Len(p) + Len(t)
        /\ \A i \in 1..(Len(p) + Len(t)) : s[i] = IF i <= Len(p) THEN p[i] ELSE t[i - Len(p)]
    BY <1>2, ConcatProperties
  <2> HIDE DEF s
  <2> QED BY <1>2, <2>1
<1> HIDE DEF s
<1>4. /\ Len(p) + 1 \in 1..(Len(p) + 2) /\ ~ (Len(p) + 1 <= Len(p)) /\ (Len(p) + 1) - Len(p) = 1
      /\ Len(p) + 2 \in 1..(Len(p) + 2) /\ ~ (Len(p) + 2 <= Len(p)) /\ (Len(p) + 2) - Len(p) = 2
      /\ \A i \in 1..Len(p) : i \in 1..(Len(p) + 2) /\ i <= Len(p)
  BY <1>1
<1>5. s[Len(p) + 1] = d /\ s[Len(p) + 2] = r
  BY <1>2, <1>3, <1>4
<1>6. \A i \in 1..Len(p) : s[i] = p[i]
  BY <1>3, <1>4
<1> QED BY <1>3, <1>5, <1>6 DEF s, t

\* Two sequences with suffixes are one only if what they are made of is.
LEMMA SuffixesAlike ==
  ASSUME NEW S, NEW d \in S, NEW r \in S, NEW x \in S, NEW p \in Seq(S), NEW q \in Seq(S),
         p \o <<d, r>> = q \o <<d, x>>
  PROVE  p = q /\ r = x
<1> DEFINE s == p \o <<d, r>>
           t == q \o <<d, x>>
<1>1. Len(s) = Len(p) + 2 /\ s[Len(p) + 2] = r /\ \A i \in 1..Len(p) : s[i] = p[i]
  BY SuffixType
<1>2. Len(t) = Len(q) + 2 /\ t[Len(q) + 2] = x /\ \A i \in 1..Len(q) : t[i] = q[i]
  BY SuffixType
<1>3. s = t /\ Len(p) \in Nat /\ Len(q) \in Nat
  OBVIOUS
<1> HIDE DEF s, t
<1>4. Len(p) = Len(q)
  BY <1>1, <1>2, <1>3
<1>5. \A i \in 1..Len(p) : p[i] = q[i]
  BY <1>1, <1>2, <1>3, <1>4
<1>6. p = q
  BY <1>4, <1>5, SeqEqual
<1> QED BY <1>1, <1>2, <1>3, <1>6

\* A path without a replica's number looks like one with it only if its name has
\* that dash.
LEMMA SuffixInName ==
  ASSUME NEW S, Underscore \in S, Dash \in S, NEW r \in S, NEW n \in Seq(S), NEW p \in Seq(S),
         Sanitize(n) = p \o <<Dash, r>>
  PROVE  Dash \in Range(n)
<1>1. Len(Sanitize(n)) = Len(p) + 2 /\ Sanitize(n)[Len(p) + 1] = Dash /\ Len(p) \in Nat
  BY SuffixType
<1>2. Len(n) = Len(p) + 2
  BY <1>1, SanitizeType
<1>3. Len(p) + 1 \in 1..Len(n) /\ Len(p) + 1 \in DOMAIN n
  BY <1>1, <1>2
<1>4. Dash # Underscore
  BY Zenon DEF Dash, Underscore
<1>5. n[Len(p) + 1] = Dash
  BY <1>1, <1>3, <1>4, SanitizeType
<1> QED BY <1>3, <1>5 DEF Range

\* The file name of an entry's socket.
FileName(c, e) ==
  LET m == c.models[e.model] IN
  Sanitize(m.name) \o (IF ReplicasOf(m) > 1 THEN <<Dash, ToString(e.replica)>> ELSE << >>)

\* The path: directory, sanitized name, and the replica's suffix.
LEMMA SocketPathIs ==
  \A c, e : SocketPath(c, e) = << c.dirs[EngineOf(c.models[e.model])], FileName(c, e) >>
BY Zenon DEF SocketPath, FileName, Dash

\* A model's name is one of those it declares.
LEMMA NameDeclared ==
  ASSUME NEW m \in ModelConfig PROVE m.name \in Range(Declared(m))
BY DeclaredType DEF Range

\* What an entry is built of.
LEMMA EntryRecords ==
  ASSUME NEW c \in ConfigFile, c.models # << >>, NEW e \in Range(EntriesOf(c))
  PROVE  /\ e \in Entry(c) /\ e.model \in DOMAIN c.models
         /\ e.replica \in 0..(ReplicasOf(c.models[e.model]) - 1)
<1>1. PICK x \in DOMAIN EntriesOf(c) : e = EntriesOf(c)[x]
  BY DEF Range
<1>2. e \in Entry(c)
  BY <1>1, EntriesNumbered
<1> QED BY <1>1, <1>2, EntriesExact

\* File names that sanitizeModelName and the replicas' suffixes can make the same: two
\* names become one, or a name ends like another one's replica.
Confusable(c, e, f) ==
  LET m == Sanitize(c.models[e.model].name)
      n == Sanitize(c.models[f.model].name)
  IN  m = n \/ n = m \o <<Dash, ToString(e.replica)>> \/ m = n \o <<Dash, ToString(f.replica)>>

\* Entries that share a path are of different models, whose names can be confused.
LEMMA PathsConfused ==
  ASSUME NEW c \in ConfigFile, c.models # << >>,
         NEW e \in Range(EntriesOf(c)), NEW f \in Range(EntriesOf(c)), e # f,
         SocketPath(c, e) = SocketPath(c, f),
         e.model = f.model /\ ToString(e.replica) = ToString(f.replica) => e.replica = f.replica
  PROVE  e.model # f.model /\ Confusable(c, e, f)
<1> DEFINE m == c.models[e.model]
           n == c.models[f.model]
           r == ToString(e.replica)
           s == ToString(f.replica)
           S == STRING \union {Underscore, Dash, r, s}
<1>1. m \in ModelConfig /\ n \in ModelConfig
  BY EntryRecords, ConfigTypes
<1>2. m.name \in Seq(S) /\ n.name \in Seq(S)
  BY <1>1, FieldTypes, SeqMonotonic
<1>3. Underscore \in S /\ Dash \in S /\ r \in S /\ s \in S
  OBVIOUS
<1> HIDE DEF S
<1>4. Sanitize(m.name) \in Seq(S) /\ Sanitize(n.name) \in Seq(S)
  BY <1>2, <1>3, SanitizeType
<1>5. FileName(c, e) = FileName(c, f)
  BY SocketPathIs
<1>6. ReplicasOf(m) > 1 => FileName(c, e) = Sanitize(m.name) \o <<Dash, r>>
  BY DEF FileName
<1>7. ReplicasOf(n) > 1 => FileName(c, f) = Sanitize(n.name) \o <<Dash, s>>
  BY DEF FileName
<1>8. ~ (ReplicasOf(m) > 1) => FileName(c, e) = Sanitize(m.name)
  BY <1>4, ConcatEmptySeq DEF FileName
<1>9. ~ (ReplicasOf(n) > 1) => FileName(c, f) = Sanitize(n.name)
  BY <1>4, ConcatEmptySeq DEF FileName
<1>10. /\ e.model \in DOMAIN c.models /\ f.model \in DOMAIN c.models
       /\ e.replica \in 0..(ReplicasOf(m) - 1) /\ f.replica \in 0..(ReplicasOf(n) - 1)
       /\ ReplicasOf(m) \in Nat \ {0} /\ ReplicasOf(n) \in Nat \ {0}
  BY <1>1, EntryRecords, ReplicasPositive
<1>11. e.model # f.model \/ e.replica # f.replica
  BY EntryRecords DEF Entry
<1> HIDE DEF m, n, r, s
<1>12. e.model # f.model
  <2> SUFFICES ASSUME e.model = f.model PROVE FALSE
    OBVIOUS
  <2>1. m = n /\ e.replica # f.replica
    BY <1>11 DEF m, n
  <2>2. ReplicasOf(m) > 1
    BY <1>10, <2>1
  <2>3. Sanitize(m.name) \o <<Dash, r>> = Sanitize(m.name) \o <<Dash, s>>
    BY <1>5, <1>6, <1>7, <2>1, <2>2
  <2>4. r = s
    BY <1>3, <1>4, <2>3, SuffixesAlike
  <2> QED BY <2>1, <2>4 DEF r, s
<1>13. \/ Sanitize(m.name) = Sanitize(n.name)
       \/ Sanitize(n.name) = Sanitize(m.name) \o <<Dash, r>>
       \/ Sanitize(m.name) = Sanitize(n.name) \o <<Dash, s>>
  <2>1. CASE ReplicasOf(m) > 1 /\ ReplicasOf(n) > 1
    <3>1. Sanitize(m.name) \o <<Dash, r>> = Sanitize(n.name) \o <<Dash, s>>
      BY <1>5, <1>6, <1>7, <2>1
    <3>2. Sanitize(m.name) = Sanitize(n.name)
      BY <1>3, <1>4, <3>1, SuffixesAlike
    <3> QED BY <3>2
  <2>2. CASE ReplicasOf(m) > 1 /\ ~ (ReplicasOf(n) > 1)
    BY <1>5, <1>6, <1>9, <2>2
  <2>3. CASE ~ (ReplicasOf(m) > 1) /\ ReplicasOf(n) > 1
    BY <1>5, <1>7, <1>8, <2>3
  <2>4. CASE ~ (ReplicasOf(m) > 1) /\ ~ (ReplicasOf(n) > 1)
    BY <1>5, <1>8, <1>9, <2>4
  <2> QED BY <2>1, <2>2, <2>3, <2>4
<1> QED BY <1>12, <1>13, Zenon DEF Confusable, m, n, r, s

\* So a character of one of their names is replaced, or is a dash.
LEMMA PathsCollide ==
  ASSUME NEW c \in ConfigFile, c.models # << >>, NamesValid(c),
         NEW e \in Range(EntriesOf(c)), NEW f \in Range(EntriesOf(c)),
         e.model # f.model, Confusable(c, e, f)
  PROVE  \E x \in {e, f} :
           ~(Range(c.models[x.model].name) \subseteq Kept \ {Dash})
<1> DEFINE m == c.models[e.model]
           n == c.models[f.model]
           r == ToString(e.replica)
           s == ToString(f.replica)
           S == STRING \union {Underscore, Dash, r, s}
<1>1. /\ m \in ModelConfig /\ n \in ModelConfig
      /\ e.model \in DOMAIN c.models /\ f.model \in DOMAIN c.models
  BY EntryRecords, ConfigTypes
<1>2. m.name \in Seq(S) /\ n.name \in Seq(S)
  BY <1>1, FieldTypes, SeqMonotonic
<1>3. Underscore \in S /\ Dash \in S /\ r \in S /\ s \in S
  OBVIOUS
<1> HIDE DEF S
<1>4. Sanitize(m.name) \in Seq(S) /\ Sanitize(n.name) \in Seq(S)
  BY <1>2, <1>3, SanitizeType
<1>5. \/ Sanitize(m.name) = Sanitize(n.name)
      \/ Sanitize(n.name) = Sanitize(m.name) \o <<Dash, r>>
      \/ Sanitize(m.name) = Sanitize(n.name) \o <<Dash, s>>
  BY Zenon DEF Confusable
<1>6. m.name # n.name
  <2> SUFFICES ASSUME m.name = n.name PROVE FALSE
    OBVIOUS
  <2>1. m.name \in Range(Declared(m)) /\ m.name \in Range(Declared(n))
    BY <1>1, NameDeclared
  <2> QED BY <1>1, <2>1, NamesApart
<1> HIDE DEF m, n, r, s
<1>7. ~(Range(m.name) \union Range(n.name) \subseteq Kept \ {Dash})
  <2>1. CASE Sanitize(m.name) = Sanitize(n.name)
    BY <1>2, <1>3, <1>6, <2>1, SanitizedAlike
  <2>2. CASE Sanitize(n.name) = Sanitize(m.name) \o <<Dash, r>>
    BY <1>2, <1>3, <1>4, <2>2, SuffixInName
  <2>3. CASE Sanitize(m.name) = Sanitize(n.name) \o <<Dash, s>>
    BY <1>2, <1>3, <1>4, <2>3, SuffixInName
  <2> QED BY <1>5, <2>1, <2>2, <2>3
<1> QED BY <1>7 DEF m, n

\* A model has as many entries as it has replicas.
LEMMA ReplicaCount ==
  ASSUME NEW c \in ConfigFile, c.models # << >>, NEW k \in DOMAIN c.models
  PROVE  LET R == {e \in DOMAIN EntriesOf(c) : EntriesOf(c)[e].model = k} IN
         Cardinality(R) = ReplicasOf(c.models[k])
<1> DEFINE E == EntriesOf(c)
           R == {e \in DOMAIN E : E[e].model = k}
           n == ReplicasOf(c.models[k])
           f == [e \in R |-> E[e].replica]
<1>1. n \in Nat \ {0}
  BY ConfigTypes, ReplicasPositive
<1>2. \A e \in R : e \in DOMAIN E /\ E[e].model = k /\ E[e].replica \in 0..(n - 1)
  BY EntriesExact
<1>3. \A r \in 0..(n - 1) : \E e \in R : E[e].replica = r
  BY EntriesExact
<1>4. \A d, e \in R : E[d].replica = E[e].replica => d = e
  BY EntriesExact
<1> HIDE DEF E, R, n
<1>5. f \in Injection(R, 0..(n - 1))
  BY <1>2, <1>4 DEF Injection, IsInjective
<1>6. f \in Surjection(R, 0..(n - 1))
  BY <1>2, <1>3 DEF Surjection
<1>7. IsFiniteSet(0..(n - 1)) /\ Cardinality(0..(n - 1)) = n
  BY <1>1, FS_Interval
<1> HIDE DEF f
<1>8. Cardinality(R) = Cardinality(0..(n - 1))
  BY <1>5, <1>6, <1>7, FS_Injection
<1> QED BY <1>7, <1>8 DEF E, R, n
=============================================================================
