---------------------------- MODULE NestingProofs ----------------------------
(***************************************************************************)
(* What a well-nested file is accepted as: the flags of the parser stand   *)
(* for the nesting, and the blocks under construction for what the lines   *)
(* up to the current one say.                                              *)
(***************************************************************************)
EXTENDS ConfigurationProofs, FiniteSetTheorems, WellFoundedInduction

-----------------------------------------------------------------------------
(***************************************************************************)
(* Sequences that are joined                                               *)
(***************************************************************************)
\* A set of numbers that has elements has a least one.
LEMMA LeastNumber ==
    ASSUME NEW T \in SUBSET Nat, T # {}
    PROVE  \E n \in T : \A m \in T : n <= m
<1> DEFINE R == OpToRel(<, Nat)
<1>1. IsWellFoundedOn(R, Nat)
  BY NatLessThanWellFounded, Zenon
<1>2. \A m, n \in Nat : m < n => <<m, n>> \in R
  BY DEF OpToRel
<1> HIDE DEF R
<1>3. PICK n \in T : \A m \in T : ~(<<m, n>> \in R)
  BY <1>1, WFMin
<1>4. \A m \in T : ~(m < n)
  BY <1>2, <1>3
<1>5. QED
  BY <1>4

\* Induction over the numbers from a to b, for a set.
LEMMA NumbersUpTo ==
    ASSUME NEW a \in Nat, NEW b \in Nat, NEW G, a \in G,
           \A n \in a + 1 .. b : n - 1 \in G => n \in G
    PROVE  \A n \in a .. b : n \in G
<1> DEFINE T == {n \in a .. b : n \notin G}
<1>1. SUFFICES ASSUME T # {} PROVE FALSE
  OBVIOUS
<1>2. T \in SUBSET Nat
  OBVIOUS
<1>3. PICK n \in T : \A m \in T : n <= m
  <2> HIDE DEF T
  <2>1. QED
    BY <1>1, <1>2, LeastNumber
<1>4. n \in a .. b /\ n \notin G /\ n # a
  BY <1>3
<1>5. n \in a + 1 .. b /\ n - 1 \in a .. b /\ ~(n <= n - 1)
  BY <1>4
<1>6. n - 1 \in G
  BY <1>3, <1>5
<1>7. QED
  BY <1>4, <1>5, <1>6

\* The function FlattenSeq defines by recursion.
JoinedBy(g, p, N, S) ==
    /\ g \in [1 .. N -> Seq(S)] /\ FlattenSeq(p) = g[N] /\ g[1] = p[1]
    /\ \A i \in 2 .. N : g[i] = g[i - 1] \o p[i]

\* It exists, and gives a sequence of elements of the parts.
LEMMA FlattenExists ==
    ASSUME NEW S, NEW N \in Nat \ {0}, NEW p \in [1 .. N -> Seq(S)]
    PROVE  \E g : JoinedBy(g, p, N, S)
<1> DEFINE Rec(g, i) == IF i = 1 THEN p[i] ELSE g[i - 1] \o p[i]
           Good == {n \in 1 .. N : \E g \in [1 .. n -> Seq(S)] : \A i \in 1 .. n : g[i] = Rec(g, i)}
           v == CHOOSE g : g = [i \in 1 .. N |-> Rec(g, i)]
<1>1. Len(p) = N
  <2>1. p \in Seq(Seq(S))
    OBVIOUS
  <2>2. QED
    BY <2>1
<1>2. FlattenSeq(p) = v[N]
  BY <1>1 DEF FlattenSeq
<1>3. 1 \in Good
  <2> DEFINE g == [i \in 1 .. 1 |-> p[1]]
  <2>1. g \in [1 .. 1 -> Seq(S)]
    OBVIOUS
  <2>2. \A i \in 1 .. 1 : g[i] = Rec(g, i)
    OBVIOUS
  <2>3. 1 \in 1 .. N
    OBVIOUS
  <2>4. QED
    BY <2>1, <2>2, <2>3
<1>4. ASSUME NEW n \in 2 .. N, n - 1 \in Good
      PROVE  n \in Good
  <2>1. PICK g \in [1 .. n - 1 -> Seq(S)] : \A i \in 1 .. n - 1 : g[i] = Rec(g, i)
    BY <1>4
  <2> DEFINE x == g[n - 1] \o p[n]
             h == [i \in 1 .. n |-> IF i = n THEN x ELSE g[i]]
  <2>2. g[n - 1] \in Seq(S) /\ p[n] \in Seq(S) /\ n \in 1 .. N
    BY <1>4
  <2>3. x \in Seq(S)
    BY <2>2, ConcatProperties
  <2> HIDE DEF x
  <2>4. h \in [1 .. n -> Seq(S)]
    BY <1>4, <2>1, <2>3
  <2>a. \A i \in 1 .. n : h[i] = IF i = n THEN x ELSE g[i]
    OBVIOUS
  <2> HIDE DEF h
  <2>5. ASSUME NEW i \in 1 .. n PROVE h[i] = Rec(h, i)
    <3>1. CASE i = n
      <4>1. h[n - 1] = g[n - 1] /\ h[n] = x /\ n # 1
        BY <1>4, <2>a
      <4>2. QED
        BY <3>1, <4>1 DEF x
    <3>2. CASE i = 1
      <4>1. 1 # n /\ 1 \in 1 .. n /\ 1 \in 1 .. n - 1
        BY <1>4
      <4>2. h[1] = g[1] /\ g[1] = p[1]
        BY <2>1, <2>a, <4>1
      <4>3. QED
        BY <3>2, <4>2
    <3>3. CASE i # 1 /\ i # n
      <4>1. i \in 1 .. n - 1 /\ i - 1 \in 1 .. n /\ i - 1 # n
        BY <1>4, <3>3
      <4>2. h[i] = g[i] /\ h[i - 1] = g[i - 1]
        BY <2>a, <3>3, <4>1
      <4>3. g[i] = g[i - 1] \o p[i]
        BY <2>1, <3>3, <4>1
      <4>4. QED
        BY <3>3, <4>2, <4>3
    <3>4. QED
      BY <3>1, <3>2, <3>3
  <2> HIDE DEF Rec
  <2>6. QED
    BY <2>2, <2>4, <2>5
<1>5. N \in Good
  <2> HIDE DEF Good
  <2>1. N \in 1 .. N
    OBVIOUS
  <2>2. \A n \in 1 + 1 .. N : n - 1 \in Good => n \in Good
    BY <1>4
  <2>3. \A n \in 1 .. N : n \in Good
    BY <1>3, <2>2, NumbersUpTo
  <2>4. QED
    BY <2>1, <2>3
<1>6. v = [i \in 1 .. N |-> Rec(v, i)]
  <2>1. PICK g \in [1 .. N -> Seq(S)] : \A i \in 1 .. N : g[i] = Rec(g, i)
    BY <1>5
  <2> HIDE DEF Rec
  <2>2. g = [i \in 1 .. N |-> Rec(g, i)]
    BY <2>1
  <2>3. QED
    BY <2>2
<1> HIDE DEF v
<1>7. \A i \in 1 .. N : v[i] = Rec(v, i)
  <2> HIDE DEF Rec
  <2>1. QED
    BY <1>6
<1>8. v[1] = p[1] /\ \A i \in 2 .. N : v[i] = v[i - 1] \o p[i]
  <2>1. 1 \in 1 .. N /\ \A i \in 2 .. N : i \in 1 .. N /\ i # 1
    OBVIOUS
  <2>2. QED
    BY <1>7, <2>1
<1>9. \A i \in 1 .. N : v[i] \in Seq(S)
  <2> DEFINE G == {i \in 1 .. N : v[i] \in Seq(S)}
  <2>1. 1 \in G
    BY <1>8
  <2>2. ASSUME NEW i \in 1 + 1 .. N, i - 1 \in G PROVE i \in G
    <3>1. i \in 2 .. N /\ i \in 1 .. N /\ v[i - 1] \in Seq(S) /\ p[i] \in Seq(S)
      BY <2>2
    <3>2. v[i] = v[i - 1] \o p[i]
      BY <1>8, <3>1
    <3>3. v[i] \in Seq(S)
      BY <3>1, <3>2, ConcatProperties
    <3>4. QED
      BY <3>1, <3>3
  <2>3. \A i \in 1 .. N : i \in G
    <3> HIDE DEF G
    <3>1. QED
      BY <2>1, <2>2, NumbersUpTo
  <2>4. QED
    BY <2>3
<1>10. v \in [1 .. N -> Seq(S)]
  <2>1. v = [i \in 1 .. N |-> v[i]]
    <3> HIDE DEF Rec
    <3>1. DOMAIN v = 1 .. N
      BY <1>6
    <3>2. QED
      BY <1>6, <3>1
  <2>2. QED
    BY <1>9, <2>1
<1>11. QED
  BY <1>2, <1>8, <1>10 DEF JoinedBy

\* Nothing joined is nothing.
LEMMA JoinNothing ==
    ASSUME NEW N \in Nat, NEW p \in [1 .. N -> {<<>>}]
    PROVE  FlattenSeq(p) = <<>>
<1>1. CASE N = 0
  <2>1. p = <<>>
    BY <1>1
  <2>2. QED
    BY <2>1 DEF FlattenSeq
<1>2. CASE N # 0
  <2> DEFINE S == {}
  <2>1. <<>> \in Seq(S)
    BY EmptySeq
  <2>2. \A s \in Seq(S) : s = <<>>
    <3> SUFFICES ASSUME NEW s \in Seq(S) PROVE s = <<>>
      OBVIOUS
    <3>1. Len(s) \in Nat
      BY LenProperties
    <3>2. ~(1 \in 1 .. Len(s))
      BY ElementOfSeq
    <3>3. QED
      BY <3>1, <3>2, EmptySeq
  <2> HIDE DEF S
  <2>3. N \in Nat \ {0} /\ N \in 1 .. N
    BY <1>2
  <2>a. \A k \in 1 .. N : p[k] \in Seq(S)
    BY <2>1
  <2>b. p \in [1 .. N -> Seq(S)]
    BY <2>a
  <2>4. PICK g : JoinedBy(g, p, N, S)
    BY <2>3, <2>b, FlattenExists
  <2>5. QED
    BY <2>2, <2>3, <2>4 DEF JoinedBy
<1>3. QED
  BY <1>1, <1>2

\* A part that comes behind all others is joined to their end.
OneMore(p, q, m, N, S) ==
    /\ N \in Nat /\ m \in 1 .. N
    /\ p \in [1 .. N -> Seq(S)] /\ q \in [1 .. N -> Seq(S)]
    /\ \A k \in m .. N : p[k] = <<>>
    /\ \A k \in 1 .. N : k # m => q[k] = p[k]

\* It is so because the parts in front of m are the same ones.
LEMMA JoinOneMore ==
    ASSUME NEW p, NEW q, NEW m, NEW N, NEW S, OneMore(p, q, m, N, S)
    PROVE  FlattenSeq(q) = FlattenSeq(p) \o q[m] /\ FlattenSeq(p) \in Seq(S)
<1> USE DEF OneMore
<1>0. N \in Nat \ {0} /\ 1 \in 1 .. N /\ N \in 1 .. N
  OBVIOUS
<1>a. PICK g : JoinedBy(g, p, N, S)
  BY <1>0, FlattenExists
<1>1. /\ g \in [1 .. N -> Seq(S)] /\ FlattenSeq(p) = g[N] /\ g[1] = p[1]
      /\ \A i \in 2 .. N : g[i] = g[i - 1] \o p[i]
  BY <1>a DEF JoinedBy
<1>b. PICK h : JoinedBy(h, q, N, S)
  BY <1>0, FlattenExists
<1>2. /\ h \in [1 .. N -> Seq(S)] /\ FlattenSeq(q) = h[N] /\ h[1] = q[1]
      /\ \A i \in 2 .. N : h[i] = h[i - 1] \o q[i]
  BY <1>b DEF JoinedBy
<1> DEFINE x == q[m]
           G == {i \in 1 .. N : h[i] = IF i < m THEN g[i] ELSE g[i] \o x}
<1>3. x \in Seq(S)
  OBVIOUS
<1> HIDE DEF x
<1>4. 1 \in G
  <2>1. CASE m = 1
    <3>1. g[1] = <<>> /\ h[1] = x
      BY <1>0, <1>1, <1>2, <2>1 DEF x
    <3>2. <<>> \o x = x
      BY <1>3, ConcatEmptySeq
    <3>3. h[1] = g[1] \o x /\ ~(1 < m)
      BY <2>1, <3>1, <3>2
    <3>4. QED
      BY <1>0, <3>3
  <2>2. CASE m # 1
    BY <1>0, <1>1, <1>2, <2>2
  <2>3. QED
    BY <2>1, <2>2
<1>5. ASSUME NEW i \in 1 + 1 .. N, i - 1 \in G PROVE i \in G
  <2>1. /\ i \in 2 .. N /\ i \in 1 .. N /\ i - 1 \in 1 .. N
        /\ h[i - 1] = IF i - 1 < m THEN g[i - 1] ELSE g[i - 1] \o x
    BY <1>5
  <2>2. g[i] = g[i - 1] \o p[i] /\ h[i] = h[i - 1] \o q[i]
    BY <1>1, <1>2, <2>1
  <2>3. g[i - 1] \in Seq(S) /\ h[i - 1] \in Seq(S)
    BY <1>1, <1>2, <2>1
  <2>4. g[i - 1] \o <<>> = g[i - 1] /\ h[i - 1] \o <<>> = h[i - 1]
    BY <2>3, ConcatEmptySeq
  <2>5. CASE i < m
    <3>1. q[i] = p[i] /\ i - 1 < m
      BY <2>1, <2>5
    <3>2. QED
      BY <2>1, <2>2, <2>5, <3>1
  <2>6. CASE i = m
    <3>1. p[i] = <<>> /\ q[i] = x /\ i - 1 < m /\ ~(i < m)
      BY <2>1, <2>6 DEF x
    <3>2. g[i] = g[i - 1] /\ h[i] = g[i - 1] \o x
      BY <2>1, <2>2, <2>4, <3>1
    <3>3. QED
      BY <2>1, <3>1, <3>2
  <2>7. CASE i > m
    <3>1. ~(i - 1 < m) /\ ~(i < m) /\ i \in m .. N /\ i # m
      BY <2>1, <2>7
    <3>a. p[i] = <<>> /\ q[i] = <<>>
      BY <2>1, <3>1
    <3>2. g[i] = g[i - 1] /\ h[i] = g[i - 1] \o x
      BY <2>1, <2>2, <2>4, <3>1, <3>a
    <3>3. QED
      BY <2>1, <3>1, <3>2
  <2>8. i < m \/ i = m \/ i > m
    BY <2>1
  <2>9. QED
    BY <2>5, <2>6, <2>7, <2>8
<1> HIDE DEF G
<1>6. \A i \in 1 .. N : i \in G
  BY <1>4, <1>5, NumbersUpTo
<1>7. h[N] = g[N] \o x
  <2>1. ~(N < m)
    OBVIOUS
  <2>2. QED
    BY <1>0, <1>6, <2>1 DEF G
<1>8. QED
  BY <1>0, <1>1, <1>2, <1>7 DEF x

-----------------------------------------------------------------------------
(***************************************************************************)
(* The lines of a set, and what they give to a directive, when the set has *)
(* one more line behind all others                                         *)
(***************************************************************************)
\* What the lines K contribute, each its part.
Parts(f, K, part) == [k \in DOMAIN f |-> IF k \in K THEN part[k] ELSE <<>>]

\* One part more, behind those of K, is joined to their end.
MoreParts(f, K, m, part, N, S) ==
    /\ N \in Nat /\ DOMAIN f = 1 .. N /\ part \in [1 .. N -> Seq(S)]
    /\ m \in 1 .. N /\ K \in SUBSET (1 .. m - 1)

\* A sequence that goes on where s ends.
Extends(longer, s, end, S) == s \in Seq(S) /\ longer = s \o end

\* What line m contributes comes behind what the lines in front of it do.
LEMMA PartsMore ==
    ASSUME NEW f, NEW K, NEW m, NEW part, NEW N, NEW S, MoreParts(f, K, m, part, N, S)
    PROVE  Extends(FlattenSeq(Parts(f, K \union {m}, part)), FlattenSeq(Parts(f, K, part)),
                   part[m], S)
<1> USE DEF Extends
<1> USE DEF MoreParts
<1> DEFINE p == Parts(f, K, part)
           q == Parts(f, K \union {m}, part)
<1>1. <<>> \in Seq(S)
  BY EmptySeq
<1>2. /\ DOMAIN p = 1 .. N /\ \A k \in 1 .. N : p[k] = IF k \in K THEN part[k] ELSE <<>>
      /\ p = [k \in 1 .. N |-> p[k]]
  BY DEF Parts
<1>3. /\ DOMAIN q = 1 .. N /\ \A k \in 1 .. N : q[k] = IF k \in K \union {m} THEN part[k] ELSE <<>>
      /\ q = [k \in 1 .. N |-> q[k]]
  BY DEF Parts
<1> HIDE DEF p, q
<1>4. \A k \in 1 .. N : p[k] \in Seq(S) /\ q[k] \in Seq(S)
  BY <1>1, <1>2, <1>3
<1>5. p \in [1 .. N -> Seq(S)] /\ q \in [1 .. N -> Seq(S)]
  BY <1>2, <1>3, <1>4
<1>6. \A k \in m .. N : p[k] = <<>>
  <2>1. \A k \in m .. N : k \in 1 .. N /\ k \notin K
    OBVIOUS
  <2>2. QED
    BY <1>2, <2>1
<1>7. \A k \in 1 .. N : k # m => q[k] = p[k]
  BY <1>2, <1>3
<1>8. q[m] = part[m]
  BY <1>3
<1>9. FlattenSeq(q) = FlattenSeq(p) \o q[m] /\ FlattenSeq(p) \in Seq(S)
  <2>1. OneMore(p, q, m, N, S)
    BY <1>5, <1>6, <1>7 DEF OneMore
  <2>2. QED
    BY <2>1, JoinOneMore
<1>10. QED
  BY <1>8, <1>9 DEF p, q

\* No lines contribute nothing.
LEMMA PartsNone ==
    ASSUME NEW N \in Nat, NEW f, DOMAIN f = 1 .. N, NEW part
    PROVE  FlattenSeq(Parts(f, {}, part)) = <<>>
<1>1. Parts(f, {}, part) \in [1 .. N -> {<<>>}]
  BY DEF Parts
<1>2. QED
  BY <1>1, JoinNothing

\* The domain of a file.
LEMMA FileLines ==
    ASSUME NEW f \in Files
    PROVE  /\ f \in Seq(LineType) /\ Len(f) \in Nat /\ DOMAIN f = 1 .. Len(f)
           /\ \A k \in 1 .. Len(f) : f[k].values \in Seq(Values) /\ f[k].kind \in Kinds
<1>1. f \in Seq(LineType)
  BY FilesAssumption
<1>2. Len(f) \in Nat /\ DOMAIN f = 1 .. Len(f)
  BY <1>1, LenProperties
<1>3. QED
  BY <1>1, <1>2, LineTypeCorrect

\* The part of each line in InOrder.
Numbered(f) == [k \in DOMAIN f |-> <<k>>]

LEMMA InOrderParts ==
    ASSUME NEW f, NEW K
    PROVE  InOrder(f, K) = FlattenSeq(Parts(f, K, Numbered(f)))
<1>1. [k \in DOMAIN f |-> IF k \in K THEN <<k>> ELSE <<>>] = Parts(f, K, Numbered(f))
  BY DEF Parts, Numbered
<1>2. QED
  BY <1>1 DEF InOrder

LEMMA InOrderNone ==
    ASSUME NEW f \in Files
    PROVE  InOrder(f, {}) = <<>>
  BY FileLines, PartsNone, InOrderParts

\* InOrder of one more line has it at its end.
LEMMA InOrderMore ==
    ASSUME NEW f \in Files, NEW m \in 1 .. Len(f), NEW K \in SUBSET (1 .. m - 1)
    PROVE  /\ InOrder(f, K) \in Seq(Nat)
           /\ InOrder(f, K \union {m}) = Append(InOrder(f, K), m)
<1> DEFINE N == Len(f)
           part == Numbered(f)
<1>1. N \in Nat /\ DOMAIN f = 1 .. N
  BY FileLines
<1>2. \A k \in 1 .. N : k \in Nat /\ <<k>> \in Seq(Nat) /\ part[k] = <<k>>
  BY <1>1 DEF Numbered
<1>3. part \in [1 .. N -> Seq(Nat)]
  BY <1>1, <1>2 DEF Numbered
<1>4. part[m] = <<m>>
  BY <1>2
<1> HIDE DEF part, N
<1>5. m \in 1 .. N
  BY DEF N
<1>6. Extends(FlattenSeq(Parts(f, K \union {m}, part)), FlattenSeq(Parts(f, K, part)),
              part[m], Nat)
  <2>1. MoreParts(f, K, m, part, N, Nat)
    BY <1>1, <1>3, <1>5 DEF MoreParts
  <2>2. QED
    BY <2>1, PartsMore
<1>7. InOrder(f, K) \in Seq(Nat) /\ InOrder(f, K \union {m}) = InOrder(f, K) \o <<m>>
  BY <1>4, <1>6, InOrderParts DEF part, Extends
<1>8. m \in Nat /\ \A s \in Seq(Nat) : s \o <<m>> = Append(s, m)
  OBVIOUS
<1>9. QED
  BY <1>7, <1>8

-----------------------------------------------------------------------------
(***************************************************************************)
(* What one more line gives to a directive                                 *)
(***************************************************************************)
\* The part of each line in Given.
Valued(f) == [k \in DOMAIN f |-> f[k].values]

\* Given, of the lines of its directive.
GivenBy(f, lines, d) ==
    IF d \in ListKinds THEN FlattenSeq(Parts(f, lines, Valued(f)))
    ELSE IF lines = {} THEN <<>> ELSE f[Max(lines)].values

LEMMA GivenLines ==
    ASSUME NEW f, NEW K, NEW d
    PROVE  Given(f, K, d) = GivenBy(f, K \intersect LinesOf(f, {d}), d)
<1> DEFINE lines == K \intersect LinesOf(f, {d})
<1>1. [k \in DOMAIN f |-> IF k \in lines THEN f[k].values ELSE <<>>] = Parts(f, lines, Valued(f))
  <2> HIDE DEF lines
  <2>1. QED
    BY DEF Parts, Valued
<1>2. QED
  BY <1>1 DEF Given, GivenBy

\* Only the lines of a directive count for it.
LEMMA GivenSame ==
    ASSUME NEW f, NEW K, NEW L, NEW d, K \intersect LinesOf(f, {d}) = L \intersect LinesOf(f, {d})
    PROVE  Given(f, K, d) = Given(f, L, d)
<1>1. Given(f, K, d) = GivenBy(f, K \intersect LinesOf(f, {d}), d)
  BY GivenLines
<1>2. Given(f, L, d) = GivenBy(f, L \intersect LinesOf(f, {d}), d)
  BY GivenLines
<1>3. QED
  BY <1>1, <1>2

\* No lines give nothing.
LEMMA GivenNone ==
    ASSUME NEW f \in Files, NEW d
    PROVE  Given(f, {}, d) = <<>>
<1>1. {} \intersect LinesOf(f, {d}) = {}
  OBVIOUS
<1>2. Given(f, {}, d) = GivenBy(f, {}, d)
  BY <1>1, GivenLines
<1>3. FlattenSeq(Parts(f, {}, Valued(f))) = <<>>
  BY FileLines, PartsNone
<1>4. QED
  BY <1>2, <1>3 DEF GivenBy

\* A line of another kind gives nothing.
LEMMA GivenOther ==
    ASSUME NEW f, NEW K, NEW m, NEW d, f[m].kind # d
    PROVE  Given(f, K \union {m}, d) = Given(f, K, d)
<1>1. (K \union {m}) \intersect LinesOf(f, {d}) = K \intersect LinesOf(f, {d})
  BY DEF LinesOf
<1>2. QED
  BY <1>1, GivenSame

\* A line behind the others adds its values or replaces theirs.
LEMMA GivenMore ==
    ASSUME NEW f \in Files, NEW m \in 1 .. Len(f), NEW K \in SUBSET (1 .. m - 1)
    PROVE  /\ f[m].kind \in ListKinds =>
                 Extends(Given(f, K \union {m}, f[m].kind), Given(f, K, f[m].kind),
                         f[m].values, Values)
           /\ f[m].kind \notin ListKinds => Given(f, K \union {m}, f[m].kind) = f[m].values
<1> DEFINE N == Len(f)
           d == f[m].kind
           lines == K \intersect LinesOf(f, {d})
           part == Valued(f)
<1>1. N \in Nat /\ DOMAIN f = 1 .. N /\ \A k \in 1 .. N : f[k].values \in Seq(Values)
  BY FileLines
<1>2. m \in LinesOf(f, {d})
  BY <1>1 DEF LinesOf
<1>3. (K \union {m}) \intersect LinesOf(f, {d}) = lines \union {m}
  BY <1>2
<1>4. lines \in SUBSET (1 .. m - 1)
  OBVIOUS
<1>5. part \in [1 .. N -> Seq(Values)] /\ part[m] = f[m].values
  BY <1>1 DEF Valued
<1>a. Given(f, K, d) = GivenBy(f, lines, d)
  BY GivenLines
<1>b. Given(f, K \union {m}, d) = GivenBy(f, lines \union {m}, d)
  <2>1. Given(f, K \union {m}, d) = GivenBy(f, (K \union {m}) \intersect LinesOf(f, {d}), d)
    BY GivenLines
  <2>2. QED
    BY <1>3, <2>1
<1> HIDE DEF d
<1>6. ASSUME d \in ListKinds
      PROVE  Extends(Given(f, K \union {m}, d), Given(f, K, d), f[m].values, Values)
  <2> HIDE DEF lines
  <2>1. Given(f, K \union {m}, d) = FlattenSeq(Parts(f, lines \union {m}, part))
    BY <1>b, <1>6 DEF GivenBy
  <2>2. Given(f, K, d) = FlattenSeq(Parts(f, lines, part))
    BY <1>a, <1>6 DEF GivenBy
  <2> HIDE DEF part
  <2>3. MoreParts(f, lines, m, part, N, Values)
    BY <1>1, <1>4, <1>5 DEF MoreParts
  <2>4. Extends(FlattenSeq(Parts(f, lines \union {m}, part)), FlattenSeq(Parts(f, lines, part)),
                part[m], Values)
    BY <2>3, PartsMore
  <2>5. QED
    BY <1>5, <2>1, <2>2, <2>4
<1>7. ASSUME d \notin ListKinds
      PROVE  Given(f, K \union {m}, d) = f[m].values
  <2> DEFINE T == lines \union {m}
             x == Max(T)
  <2>1. m \in T /\ m \in Int /\ \A k \in T : k \in Int /\ k <= m
    BY <1>4
  <2> HIDE DEF T
  <2>2. x \in T /\ \A k \in T : k <= x
    BY <2>1 DEF Max
  <2>3. Given(f, K \union {m}, d) = f[x].values
    <3>1. T # {}
      BY <2>1
    <3>2. QED
      BY <1>b, <1>7, <3>1 DEF GivenBy, T
  <2> HIDE DEF x
  <2>4. x \in Int /\ x <= m /\ m <= x /\ m \in Int
    BY <2>1, <2>2
  <2>5. x = m
    BY <2>4
  <2>6. QED
    BY <2>3, <2>5
<1>8. QED
  BY <1>6, <1>7 DEF d

-----------------------------------------------------------------------------
(***************************************************************************)
(* The depth of one line more                                              *)
(***************************************************************************)
\* Lines with an opening brace.
OpenKinds == {"server", "location", "open"}

Before(f, kinds, k) == {j \in LinesOf(f, kinds) : j < k}

\* Lines in front of line k + 1 are those in front of line k, and line k.
LEMMA BeforeMore ==
    ASSUME NEW f \in Files, NEW kinds, NEW k \in 1 .. Len(f)
    PROVE  /\ Cardinality(Before(f, kinds, k)) \in Nat
           /\ Cardinality(Before(f, kinds, k + 1)) =
                 IF f[k].kind \in kinds THEN Cardinality(Before(f, kinds, k)) + 1
                                        ELSE Cardinality(Before(f, kinds, k))
<1> DEFINE B == Before(f, kinds, k)
           C == Before(f, kinds, k + 1)
<1>1. Len(f) \in Nat /\ DOMAIN f = 1 .. Len(f)
  BY FileLines
<1>2. B \in SUBSET (1 .. Len(f)) /\ k \notin B
  BY <1>1 DEF Before, LinesOf
<1>3. IsFiniteSet(B)
  <2>1. IsFiniteSet(1 .. Len(f))
    BY <1>1, FS_Interval
  <2> HIDE DEF B
  <2>2. QED
    BY <1>2, <2>1, FS_Subset
<1>4. C = IF f[k].kind \in kinds THEN B \union {k} ELSE B
  <2>1. \A j \in 1 .. Len(f) : j < k + 1 <=> j < k \/ j = k
    BY <1>1
  <2>2. \A j : j \in C <=> j \in 1 .. Len(f) /\ f[j].kind \in kinds /\ j < k + 1
    BY <1>1 DEF Before, LinesOf
  <2>3. \A j : j \in B <=> j \in 1 .. Len(f) /\ f[j].kind \in kinds /\ j < k
    BY <1>1 DEF Before, LinesOf
  <2> HIDE DEF B, C
  <2>4. CASE f[k].kind \in kinds
    <3>1. \A j : j \in C <=> j \in B \union {k}
      BY <2>1, <2>2, <2>3, <2>4
    <3>2. QED
      BY <2>4, <3>1
  <2>5. CASE f[k].kind \notin kinds
    <3>1. \A j : j \in C <=> j \in B
      BY <2>1, <2>2, <2>3, <2>5
    <3>2. QED
      BY <2>5, <3>1
  <2>6. QED
    BY <2>4, <2>5
<1> HIDE DEF B, C
<1>5. Cardinality(B) \in Nat /\ Cardinality(B \union {k}) = Cardinality(B) + 1
  BY <1>2, <1>3, FS_CardinalityType, FS_AddElement
<1>6. QED
  BY <1>4, <1>5 DEF B, C

LEMMA DepthBefore ==
    ASSUME NEW f, NEW k
    PROVE  Depth(f, k) = Cardinality(Before(f, OpenKinds, k)) - Cardinality(Before(f, {"close"}, k))
  BY DEF Depth, Before, OpenKinds

LEMMA DepthFirst ==
    ASSUME NEW f \in Files
    PROVE  Depth(f, 1) = 0
<1>1. \A kinds : Before(f, kinds, 1) = {}
  BY FileLines DEF Before, LinesOf
<1>2. QED
  BY <1>1, DepthBefore, FS_EmptySet

\* A brace changes the depth by one.
LEMMA DepthMore ==
    ASSUME NEW f \in Files, NEW k \in 1 .. Len(f)
    PROVE  /\ Depth(f, k) \in Int
           /\ Depth(f, k + 1) = IF f[k].kind \in OpenKinds THEN Depth(f, k) + 1
                                ELSE IF f[k].kind = "close" THEN Depth(f, k) - 1
                                ELSE Depth(f, k)
<1> DEFINE a == Cardinality(Before(f, OpenKinds, k))
           b == Cardinality(Before(f, {"close"}, k))
           c == Cardinality(Before(f, OpenKinds, k + 1))
           d == Cardinality(Before(f, {"close"}, k + 1))
<1>1. a \in Nat /\ c = IF f[k].kind \in OpenKinds THEN a + 1 ELSE a
  BY BeforeMore
<1>2. b \in Nat /\ d = IF f[k].kind = "close" THEN b + 1 ELSE b
  <2>1. b \in Nat /\ d = IF f[k].kind \in {"close"} THEN b + 1 ELSE b
    BY BeforeMore
  <2>2. QED
    BY <2>1
<1>3. Depth(f, k) = a - b /\ Depth(f, k + 1) = c - d
  BY DepthBefore
<1> HIDE DEF a, b, c, d
<1>4. f[k].kind \in OpenKinds => f[k].kind # "close"
  BY DEF OpenKinds
<1>5. QED
  BY <1>1, <1>2, <1>3, <1>4

-----------------------------------------------------------------------------
(***************************************************************************)
(* What the lines up to n say of the blocks that are open in front of the  *)
(* next one                                                                *)
(***************************************************************************)
\* The lines of a server block that are not in a location.
OwnLines(f, s, n) == {j \in s + 1 .. n : Depth(f, j) = 1}

\* What they say of one directive, the default of the block if nothing.
ServerValue(f, s, n, d) ==
    LET given == Given(f, s + 1 .. n, d)
    IN  IF d \in ServerKinds
        THEN IF d \in ListKinds \/ given # <<>> THEN given ELSE Server_struct.settings[d]
        ELSE IF d \in EitherKinds
             THEN OrElse(Given(f, OwnLines(f, s, n), d), Server_struct.settings[d])
             ELSE <<>>

\* The settings of the server block that line s opens.
ServerSoFar(f, s, n) == [d \in Directives |-> ServerValue(f, s, n, d)]

\* A location has no defaults until it is closed.
LocationValue(f, l, n, d) == IF d \in ServerKinds THEN <<>> ELSE Given(f, l + 1 .. n, d)

\* And those of the location of line l.
LocationSoFar(f, l, n) == [d \in Directives |-> LocationValue(f, l, n, d)]

\* A directive goes to servers, to locations, or to either.
LEMMA Kinds3 ==
    /\ \A d \in EitherKinds : d \notin ServerKinds /\ d \notin LocationKinds
    /\ \A d \in LocationKinds : d \notin ServerKinds
    /\ \A d \in Directives : d \in ServerKinds \/ d \in EitherKinds \/ d \in LocationKinds
    /\ ServerKinds \subseteq Directives /\ EitherKinds \subseteq Directives
    /\ LocationKinds \subseteq Directives
  BY DEF ServerKinds, LocationKinds, EitherKinds, Directives

LEMMA ServerDefaults ==
    /\ Server_struct.settings =
          [d \in Directives |-> CASE d = "listen" -> <<"8080">> [] d = "root" -> <<"www">>
                                  [] d = "client_max_body_size" -> <<"1048576">>
                                  [] d = "error_page" -> <<"/error.html">>
                                  [] OTHER -> <<>>]
    /\ Server_struct.locations = <<>>
  BY DEF Server_struct, Unset, Directives, ServerKinds, LocationKinds, EitherKinds

\* A block that has only been opened has no lines.
LEMMA LinesNone ==
    ASSUME NEW f \in Files, NEW n \in 1 .. Len(f)
    PROVE  n + 1 .. n = {} /\ OwnLines(f, n, n) = {}
<1>1. n \in Int
  BY FileLines
<1>2. QED
  BY <1>1 DEF OwnLines

\* The lines between a and n + 1.
LEMMA LinesMore ==
    ASSUME NEW f \in Files, NEW n \in 1 .. Len(f) - 1, NEW a \in 1 .. n
    PROVE  /\ n + 1 \in 1 .. Len(f)
           /\ a + 1 .. n \in SUBSET (1 .. (n + 1) - 1) /\ a + 1 .. n + 1 = (a + 1 .. n) \union {n + 1}
           /\ OwnLines(f, a, n) \in SUBSET (1 .. (n + 1) - 1)
           /\ OwnLines(f, a, n + 1) = IF Depth(f, n + 1) = 1 THEN OwnLines(f, a, n) \union {n + 1}
                                                             ELSE OwnLines(f, a, n)
<1>1. Len(f) \in Nat
  BY FileLines
<1>2. n + 1 \in 1 .. Len(f) /\ a + 1 .. n \in SUBSET (1 .. (n + 1) - 1)
  BY <1>1
<1>3. a + 1 .. n + 1 = (a + 1 .. n) \union {n + 1}
  BY <1>1
<1>4. QED
  BY <1>2, <1>3 DEF OwnLines

\* A block that has only been opened has the values it starts from.
LEMMA ServerBegins ==
    ASSUME NEW f \in Files, NEW s \in 1 .. Len(f)
    PROVE  ServerSoFar(f, s, s) = Server_struct.settings
<1>1. \A d : Given(f, s + 1 .. s, d) = <<>> /\ Given(f, OwnLines(f, s, s), d) = <<>>
  BY LinesNone, GivenNone
<1> DEFINE default == Server_struct.settings
<1>2. default = [d \in Directives |-> default[d]]
  BY ServerDefaults
<1>3. ASSUME NEW d \in Directives
      PROVE  ServerValue(f, s, s, d) = default[d]
  <2>1. ServerValue(f, s, s, d) = IF d \in ServerKinds
                                  THEN IF d \in ListKinds THEN <<>> ELSE default[d]
                                  ELSE IF d \in EitherKinds THEN default[d] ELSE <<>>
    BY <1>1 DEF ServerValue, OrElse
  <2>2. d \in ListKinds => default[d] = <<>>
    BY ServerDefaults DEF ListKinds
  <2>3. d \notin ServerKinds /\ d \notin EitherKinds => default[d] = <<>>
    BY ServerDefaults DEF ServerKinds, EitherKinds
  <2> HIDE DEF default
  <2>4. QED
    BY <2>1, <2>2, <2>3
<1> HIDE DEF default
<1>4. ServerSoFar(f, s, s) = [d \in Directives |-> default[d]]
  BY <1>3 DEF ServerSoFar
<1>5. QED
  BY <1>2, <1>4 DEF default

LEMMA LocationBegins ==
    ASSUME NEW f \in Files, NEW l \in 1 .. Len(f)
    PROVE  LocationSoFar(f, l, l) = Unset
<1>1. \A d : Given(f, l + 1 .. l, d) = <<>>
  BY LinesNone, GivenNone
<1>2. QED
  BY <1>1 DEF LocationSoFar, LocationValue, Unset

\* A line of another directive, of none, or of a location changes nothing.
LEMMA ServerValueSame ==
    ASSUME NEW f \in Files, NEW n \in 1 .. Len(f) - 1, NEW s \in 1 .. n, NEW d \in Directives,
           \/ f[n + 1].kind # d
           \/ d \in LocationKinds
           \/ d \in EitherKinds /\ Depth(f, n + 1) # 1
    PROVE  ServerValue(f, s, n + 1, d) = ServerValue(f, s, n, d)
<1>1. CASE d \in LocationKinds
  BY <1>1, Kinds3 DEF ServerValue
<1>2. CASE d \in EitherKinds /\ Depth(f, n + 1) # 1
  <2>1. OwnLines(f, s, n + 1) = OwnLines(f, s, n)
    BY <1>2, LinesMore
  <2>2. QED
    BY <1>2, <2>1, Kinds3 DEF ServerValue
<1>3. CASE f[n + 1].kind # d
  <2>1. Given(f, s + 1 .. n + 1, d) = Given(f, s + 1 .. n, d)
    <3>1. s + 1 .. n + 1 = (s + 1 .. n) \union {n + 1}
      BY LinesMore
    <3>2. QED
      BY <1>3, <3>1, GivenOther
  <2>2. Given(f, OwnLines(f, s, n + 1), d) = Given(f, OwnLines(f, s, n), d)
    <3>1. \/ OwnLines(f, s, n + 1) = OwnLines(f, s, n) \union {n + 1}
          \/ OwnLines(f, s, n + 1) = OwnLines(f, s, n)
      BY LinesMore
    <3>2. QED
      BY <1>3, <3>1, GivenOther
  <2>3. QED
    BY <2>1, <2>2 DEF ServerValue
<1>4. QED
  BY <1>1, <1>2, <1>3

LEMMA ServerSoFarSame ==
    ASSUME NEW f \in Files, NEW n \in 1 .. Len(f) - 1, NEW s \in 1 .. n,
           f[n + 1].kind \notin ServerKinds,
           f[n + 1].kind \in EitherKinds => Depth(f, n + 1) # 1
    PROVE  ServerSoFar(f, s, n + 1) = ServerSoFar(f, s, n)
<1>1. \A d \in Directives : ServerValue(f, s, n + 1, d) = ServerValue(f, s, n, d)
  BY ServerValueSame, Kinds3
<1>2. QED
  BY <1>1 DEF ServerSoFar

\* A directive of the server block is stored as With stores it.
LEMMA WithIs ==
    ASSUME NEW line, line.kind \in Directives, NEW X, NEW Y,
           DOMAIN X = Directives, DOMAIN Y = Directives,
           X = [d \in Directives |-> X[d]], Y = [d \in Directives |-> Y[d]],
           \A d \in Directives : d # line.kind => Y[d] = X[d],
           Y[line.kind] = IF line.kind \in ListKinds THEN X[line.kind] \o line.values
                                                     ELSE line.values
    PROVE  Y = With(X, line)
<1> DEFINE e == line.kind
           v == IF e \in ListKinds THEN X[e] \o line.values ELSE line.values
<1>1. With(X, line) = [X EXCEPT ![e] = v]
  BY DEF With
<1> HIDE DEF v
<1>2. [X EXCEPT ![e] = v] = [d \in Directives |-> IF d = e THEN v ELSE X[d]]
  OBVIOUS
<1>3. \A d \in Directives : Y[d] = IF d = e THEN v ELSE X[d]
  BY DEF v
<1>4. QED
  BY <1>1, <1>2, <1>3

LEMMA ServerSoFarMore ==
    ASSUME NEW f \in Files, NEW n \in 1 .. Len(f) - 1, NEW s \in 1 .. n,
           \/ f[n + 1].kind \in ServerKinds
           \/ f[n + 1].kind \in EitherKinds /\ Depth(f, n + 1) = 1
    PROVE  ServerSoFar(f, s, n + 1) = With(ServerSoFar(f, s, n), f[n + 1])
<1> DEFINE X == ServerSoFar(f, s, n)
           Y == ServerSoFar(f, s, n + 1)
           e == f[n + 1].kind
           v == f[n + 1].values
<1>1. e \in Directives
  BY Kinds3
<1>2. /\ DOMAIN X = Directives /\ DOMAIN Y = Directives
      /\ X = [d \in Directives |-> X[d]] /\ Y = [d \in Directives |-> Y[d]]
      /\ \A d \in Directives : X[d] = ServerValue(f, s, n, d) /\ Y[d] = ServerValue(f, s, n + 1, d)
  BY DEF ServerSoFar
<1>3. \A d \in Directives : d # e => Y[d] = X[d]
  BY <1>2, ServerValueSame
<1>4. n + 1 \in 1 .. Len(f)
  BY LinesMore
<1>5. /\ v \in Seq(Values) /\ (e \notin ListKinds => v # <<>>)
  BY <1>1, <1>4, LineTypeCorrect
<1>6. ASSUME NEW K \in SUBSET (1 .. (n + 1) - 1)
      PROVE  /\ e \in ListKinds => Extends(Given(f, K \union {n + 1}, e), Given(f, K, e), v, Values)
             /\ e \notin ListKinds => Given(f, K \union {n + 1}, e) = v
  BY <1>4, GivenMore
<1>7. Y[e] = IF e \in ListKinds THEN X[e] \o v ELSE v
  <2>1. CASE e \in ServerKinds
    <3> DEFINE K == s + 1 .. n
    <3>1. K \in SUBSET (1 .. (n + 1) - 1) /\ s + 1 .. n + 1 = K \union {n + 1}
      BY LinesMore
    <3>2. /\ e \in ListKinds => Given(f, s + 1 .. n + 1, e) = Given(f, K, e) \o v
          /\ e \notin ListKinds => Given(f, s + 1 .. n + 1, e) = v
      BY <1>6, <3>1 DEF Extends
    <3>3. e \in ListKinds => X[e] = Given(f, K, e) /\ Y[e] = Given(f, s + 1 .. n + 1, e)
      BY <1>1, <1>2, <2>1 DEF ServerValue
    <3>4. e \notin ListKinds => Y[e] = v
      BY <1>1, <1>2, <1>5, <2>1, <3>2 DEF ServerValue
    <3>5. QED
      BY <3>2, <3>3, <3>4
  <2>2. CASE e \in EitherKinds /\ Depth(f, n + 1) = 1
    <3> DEFINE K == OwnLines(f, s, n)
    <3>1. K \in SUBSET (1 .. (n + 1) - 1) /\ OwnLines(f, s, n + 1) = K \union {n + 1}
      BY <2>2, LinesMore
    <3>2. /\ e \in ListKinds => Extends(Given(f, OwnLines(f, s, n + 1), e), Given(f, K, e), v, Values)
          /\ e \notin ListKinds => Given(f, OwnLines(f, s, n + 1), e) = v
      BY <1>6, <3>1
    <3>3. /\ X[e] = OrElse(Given(f, K, e), Server_struct.settings[e])
          /\ Y[e] = OrElse(Given(f, OwnLines(f, s, n + 1), e), Server_struct.settings[e])
      BY <1>1, <1>2, <2>2, Kinds3 DEF ServerValue
    <3>4. e \in ListKinds => Server_struct.settings[e] = <<>>
      BY <1>1, ServerDefaults DEF ListKinds
    <3>5. \A x : OrElse(x, <<>>) = x
      BY DEF OrElse
    <3>6. CASE e \in ListKinds
      <4>1. X[e] = Given(f, K, e) /\ Y[e] = Given(f, OwnLines(f, s, n + 1), e)
        BY <3>3, <3>4, <3>5, <3>6
      <4>2. QED
        BY <3>2, <3>6, <4>1 DEF Extends
    <3>7. CASE e \notin ListKinds
      BY <1>5, <3>2, <3>3, <3>7 DEF OrElse
    <3>8. QED
      BY <3>6, <3>7
  <2>3. QED
    BY <2>1, <2>2
<1> HIDE DEF X, Y
<1>8. QED
  BY <1>1, <1>2, <1>3, <1>7, WithIs DEF X, Y

\* The same for locations.
LEMMA LocationSoFarSame ==
    ASSUME NEW f \in Files, NEW n \in 1 .. Len(f) - 1, NEW l \in 1 .. n,
           f[n + 1].kind \notin LocationKinds \union EitherKinds
    PROVE  LocationSoFar(f, l, n + 1) = LocationSoFar(f, l, n)
<1>1. l + 1 .. n + 1 = (l + 1 .. n) \union {n + 1}
  BY LinesMore
<1>2. \A d : f[n + 1].kind # d => Given(f, l + 1 .. n + 1, d) = Given(f, l + 1 .. n, d)
  BY <1>1, GivenOther
<1>3. \A d \in Directives : d \notin ServerKinds => d # f[n + 1].kind
  BY Kinds3
<1>4. \A d \in Directives : LocationValue(f, l, n + 1, d) = LocationValue(f, l, n, d)
  BY <1>2, <1>3 DEF LocationValue
<1>5. QED
  BY <1>4 DEF LocationSoFar

LEMMA LocationSoFarMore ==
    ASSUME NEW f \in Files, NEW n \in 1 .. Len(f) - 1, NEW l \in 1 .. n,
           f[n + 1].kind \in LocationKinds \union EitherKinds
    PROVE  LocationSoFar(f, l, n + 1) = With(LocationSoFar(f, l, n), f[n + 1])
<1> DEFINE X == LocationSoFar(f, l, n)
           Y == LocationSoFar(f, l, n + 1)
           e == f[n + 1].kind
           v == f[n + 1].values
           K == l + 1 .. n
<1>1. e \in Directives /\ e \notin ServerKinds
  BY Kinds3
<1>2. /\ DOMAIN X = Directives /\ DOMAIN Y = Directives
      /\ X = [d \in Directives |-> X[d]] /\ Y = [d \in Directives |-> Y[d]]
      /\ \A d \in Directives : /\ X[d] = LocationValue(f, l, n, d)
                               /\ Y[d] = LocationValue(f, l, n + 1, d)
  BY DEF LocationSoFar
<1>3. n + 1 \in 1 .. Len(f) /\ K \in SUBSET (1 .. (n + 1) - 1) /\ l + 1 .. n + 1 = K \union {n + 1}
  BY LinesMore
<1>4. \A d : d # e => Given(f, l + 1 .. n + 1, d) = Given(f, K, d)
  BY <1>3, GivenOther
<1>5. \A d \in Directives : d # e => Y[d] = X[d]
  BY <1>2, <1>4 DEF LocationValue
<1>6. /\ e \in ListKinds => Extends(Given(f, K \union {n + 1}, e), Given(f, K, e), v, Values)
      /\ e \notin ListKinds => Given(f, K \union {n + 1}, e) = v
  BY <1>3, GivenMore
<1>7. X[e] = Given(f, K, e) /\ Y[e] = Given(f, K \union {n + 1}, e)
  BY <1>1, <1>2, <1>3 DEF LocationValue
<1>8. Y[e] = IF e \in ListKinds THEN X[e] \o v ELSE v
  BY <1>6, <1>7 DEF Extends
<1> HIDE DEF X, Y
<1>9. QED
  BY <1>1, <1>2, <1>5, <1>8, WithIs DEF X, Y

-----------------------------------------------------------------------------
(***************************************************************************)
(* Blocks in the order of their lines                                      *)
(***************************************************************************)
\* Lines that open a location, ServerMeant of the server lines K, LocationMeant of K.
LocationLines(f) == LinesOf(f, {"location", "bare_location"})

ServersMeant(f, K) == [i \in DOMAIN InOrder(f, K) |-> ServerMeant(f, InOrder(f, K)[i])]

LocationsMeant(f, s, K) == [i \in DOMAIN InOrder(f, K) |-> LocationMeant(f, s, InOrder(f, K)[i])]

\* A function of each element of a sequence with one more element.
LEMMA MapAppend ==
    ASSUME NEW p \in Seq(Nat), NEW m \in Nat, NEW G, DOMAIN G = Nat
    PROVE  LET q == Append(p, m)
           IN  [i \in DOMAIN q |-> G[q[i]]] = Append([i \in DOMAIN p |-> G[p[i]]], G[m])
<1> DEFINE q == Append(p, m)
           N == Len(p)
           S == {G[k] : k \in Nat}
           a == [i \in 1 .. N |-> G[p[i]]]
           b == [i \in 1 .. N + 1 |-> G[q[i]]]
<1>1. N \in Nat /\ DOMAIN p = 1 .. N /\ \A i \in 1 .. N : p[i] \in Nat
  BY LenProperties, ElementOfSeq
<1>2. /\ q \in Seq(Nat) /\ Len(q) = N + 1 /\ q[N + 1] = m
      /\ \A i \in 1 .. N : q[i] = p[i]
  BY AppendProperties
<1>3. DOMAIN q = 1 .. N + 1 /\ \A i \in 1 .. N + 1 : q[i] \in Nat
  BY <1>2, LenProperties, ElementOfSeq
<1> HIDE DEF q, N
<1>4. \A k \in Nat : G[k] \in S
  OBVIOUS
<1> HIDE DEF S
<1>5. a \in Seq(S) /\ Len(a) = N
  BY <1>1, <1>4
<1>6. b \in Seq(S) /\ Len(b) = N + 1
  BY <1>1, <1>3, <1>4
<1>7. /\ Append(a, G[m]) \in Seq(S) /\ Len(Append(a, G[m])) = N + 1
      /\ (\A i \in 1 .. N : Append(a, G[m])[i] = a[i]) /\ Append(a, G[m])[N + 1] = G[m]
  <2>1. G[m] \in S
    BY <1>4
  <2> HIDE DEF a
  <2>2. QED
    BY <1>5, <2>1, AppendProperties
<1>8. \A i \in 1 .. N + 1 : b[i] = Append(a, G[m])[i]
  <2>1. \A i \in 1 .. N + 1 : i \in 1 .. N \/ i = N + 1
    BY <1>1
  <2>2. b[N + 1] = G[m]
    BY <1>1, <1>2
  <2>3. \A i \in 1 .. N : b[i] = a[i]
    BY <1>1, <1>2
  <2>4. QED
    BY <1>7, <2>1, <2>2, <2>3
<1> DEFINE c == Append(a, G[m])
<1>9. b = c
  <2> HIDE DEF a, b, c
  <2>1. c \in Seq(S) /\ Len(c) = N + 1 /\ \A i \in 1 .. N + 1 : b[i] = c[i]
    BY <1>7, <1>8 DEF c
  <2>2. QED
    BY <1>6, <2>1, SeqEqual
<1>10. QED
  BY <1>1, <1>3, <1>9 DEF q

\* The meanings of no lines, and of one line more.
LEMMA MeantNone ==
    ASSUME NEW f \in Files
    PROVE  ServersMeant(f, {}) = <<>> /\ \A s : LocationsMeant(f, s, {}) = <<>>
  BY InOrderNone DEF ServersMeant, LocationsMeant

LEMMA ServersMeantMore ==
    ASSUME NEW f \in Files, NEW m \in 1 .. Len(f), NEW K \in SUBSET (1 .. m - 1)
    PROVE  ServersMeant(f, K \union {m}) = Append(ServersMeant(f, K), ServerMeant(f, m))
<1> DEFINE p == InOrder(f, K)
           q == InOrder(f, K \union {m})
           G == [k \in Nat |-> ServerMeant(f, k)]
<1>1. p \in Seq(Nat) /\ q = Append(p, m) /\ m \in Nat
  <2>1. p \in Seq(Nat) /\ q = Append(p, m)
    BY InOrderMore
  <2> HIDE DEF p, q
  <2>2. Len(f) \in Nat
    BY FileLines
  <2>3. QED
    BY <2>1, <2>2
<1> HIDE DEF p, q
<1>2. \A i \in DOMAIN p : p[i] \in Nat
  BY <1>1, LenProperties, ElementOfSeq
<1>3. \A i \in DOMAIN q : q[i] \in Nat
  <2>1. q \in Seq(Nat)
    BY <1>1, AppendProperties
  <2>2. QED
    BY <2>1, LenProperties, ElementOfSeq
<1>4. [i \in DOMAIN q |-> G[q[i]]] = [i \in DOMAIN q |-> ServerMeant(f, q[i])]
  BY <1>3
<1>5. [i \in DOMAIN p |-> G[p[i]]] = [i \in DOMAIN p |-> ServerMeant(f, p[i])]
  BY <1>2
<1>6. G[m] = ServerMeant(f, m) /\ DOMAIN G = Nat
  BY <1>1
<1> HIDE DEF G
<1>7. [i \in DOMAIN q |-> G[q[i]]] = Append([i \in DOMAIN p |-> G[p[i]]], G[m])
  BY <1>1, <1>6, MapAppend
<1>8. QED
  BY <1>4, <1>5, <1>6, <1>7 DEF ServersMeant, p, q

LEMMA LocationsMeantMore ==
    ASSUME NEW f \in Files, NEW s, NEW m \in 1 .. Len(f), NEW K \in SUBSET (1 .. m - 1)
    PROVE  LocationsMeant(f, s, K \union {m})
              = Append(LocationsMeant(f, s, K), LocationMeant(f, s, m))
<1> DEFINE p == InOrder(f, K)
           q == InOrder(f, K \union {m})
           G == [k \in Nat |-> LocationMeant(f, s, k)]
<1>1. p \in Seq(Nat) /\ q = Append(p, m) /\ m \in Nat
  <2>1. p \in Seq(Nat) /\ q = Append(p, m)
    BY InOrderMore
  <2> HIDE DEF p, q
  <2>2. Len(f) \in Nat
    BY FileLines
  <2>3. QED
    BY <2>1, <2>2
<1> HIDE DEF p, q
<1>2. \A i \in DOMAIN p : p[i] \in Nat
  BY <1>1, LenProperties, ElementOfSeq
<1>3. \A i \in DOMAIN q : q[i] \in Nat
  <2>1. q \in Seq(Nat)
    BY <1>1, AppendProperties
  <2>2. QED
    BY <2>1, LenProperties, ElementOfSeq
<1>4. [i \in DOMAIN q |-> G[q[i]]] = [i \in DOMAIN q |-> LocationMeant(f, s, q[i])]
  BY <1>3
<1>5. [i \in DOMAIN p |-> G[p[i]]] = [i \in DOMAIN p |-> LocationMeant(f, s, p[i])]
  BY <1>2
<1>6. G[m] = LocationMeant(f, s, m) /\ DOMAIN G = Nat
  BY <1>1
<1> HIDE DEF G
<1>7. [i \in DOMAIN q |-> G[q[i]]] = Append([i \in DOMAIN p |-> G[p[i]]], G[m])
  BY <1>1, <1>6, MapAppend
<1>8. QED
  BY <1>4, <1>5, <1>6, <1>7 DEF LocationsMeant, p, q

-----------------------------------------------------------------------------
(***************************************************************************)
(* What a closing brace makes of a block is what the block means           *)
(***************************************************************************)
\* No brace up to line n closes the block that line k opens in one of depth d.
Unclosed(f, k, d, n) == \A i \in k + 1 .. n : f[i].kind = "close" => Depth(f, i) # d + 1

\* The lines up to n that are inside an open block are all those behind its first.
LEMMA InsideUpTo ==
    ASSUME NEW f \in Files, NEW n \in 1 .. Len(f), NEW k \in 1 .. n, NEW d, Unclosed(f, k, d, n)
    PROVE  \A j \in 1 .. n : j \in Inside(f, k, d) <=> j \in k + 1 .. n
<1>1. Len(f) \in Nat /\ DOMAIN f = 1 .. Len(f)
  BY FileLines
<1>2. ASSUME NEW j \in k + 1 .. n
      PROVE  j \in Inside(f, k, d)
  <2>1. ASSUME NEW i \in LinesOf(f, {"close"}), k < i, i <= j
        PROVE  Depth(f, i) # d + 1
    <3>1. i \in k + 1 .. n /\ f[i].kind = "close"
      BY <1>1, <2>1 DEF LinesOf
    <3>2. QED
      BY <3>1 DEF Unclosed
  <2>2. j \in k + 1 .. Len(f)
    BY <1>1
  <2>3. QED
    BY <2>1, <2>2 DEF Inside
<1>3. \A j \in 1 .. n : j \in Inside(f, k, d) => j \in k + 1 .. n
  BY <1>1 DEF Inside
<1>4. QED
  BY <1>2, <1>3

\* A closing brace at its depth ends the block.
LEMMA InsideEnds ==
    ASSUME NEW f \in Files, NEW n \in 1 .. Len(f) - 1, NEW k \in 1 .. n, NEW d,
           Unclosed(f, k, d, n), f[n + 1].kind = "close", Depth(f, n + 1) = d + 1
    PROVE  Inside(f, k, d) = k + 1 .. n
<1>1. Len(f) \in Nat /\ DOMAIN f = 1 .. Len(f) /\ n \in 1 .. Len(f)
  BY FileLines
<1>2. n + 1 \in LinesOf(f, {"close"}) /\ k < n + 1
  BY <1>1 DEF LinesOf
<1>3. ASSUME NEW j \in Inside(f, k, d)
      PROVE  j \in 1 .. n
  <2>1. j \in k + 1 .. Len(f) /\ ~(n + 1 <= j)
    BY <1>2 DEF Inside
  <2>2. QED
    BY <1>1, <2>1
<1>4. \A j \in 1 .. n : j \in Inside(f, k, d) <=> j \in k + 1 .. n
  BY <1>1, InsideUpTo
<1>5. \A j \in k + 1 .. n : j \in 1 .. n
  BY <1>1
<1>6. QED
  BY <1>3, <1>4, <1>5

\* Completed gives a location the root of the lines above and a method.
LEMMA CompletedIs ==
    ASSUME NEW path, NEW S, NEW c, S = [d \in Directives |-> S[d]]
    PROVE  Completed([path |-> path, settings |-> S], c)
              = [path |-> path,
                 settings |-> [d \in Directives |->
                                 IF d = "root" THEN OrElse(S["root"], c.settings["root"])
                                 ELSE IF d = "methods" THEN OrElse(S["methods"], <<"GET">>)
                                 ELSE S[d]]]
<1> DEFINE a == OrElse(S["root"], c.settings["root"])
           b == OrElse(S["methods"], <<"GET">>)
           x == [path |-> path, settings |-> S]
           T == [S EXCEPT !["root"] = a]
           U == [T EXCEPT !["methods"] = b]
<1>1. Completed(x, c) = [[x EXCEPT !.settings = T] EXCEPT !.settings = U]
  BY DEF Completed
<1>2. T = [d \in Directives |-> IF d = "root" THEN a ELSE S[d]]
  <2> HIDE DEF a
  <2>1. QED
    OBVIOUS
<1>3. U = [d \in Directives |-> IF d = "methods" THEN b ELSE T[d]]
  <2> HIDE DEF b
  <2>1. QED
    BY <1>2
<1> DEFINE V == [d \in Directives |-> IF d = "root" THEN a ELSE IF d = "methods" THEN b ELSE S[d]]
<1>4. U = V
  <2> HIDE DEF a, b, U
  <2>1. QED
    BY <1>2, <1>3
<1>5. Completed(x, c) = [path |-> path, settings |-> U]
  <2> HIDE DEF T, U
  <2>1. QED
    BY <1>1
<1> HIDE DEF U
<1>6. QED
  BY <1>4, <1>5

\* A location that is closed is what its lines mean.
LEMMA LocationEnds ==
    ASSUME NEW f \in Files, NEW n \in 1 .. Len(f) - 1, NEW s \in 1 .. n, NEW l \in s + 1 .. n,
           Unclosed(f, s, 0, n), Unclosed(f, l, 1, n),
           f[n + 1].kind = "close", Depth(f, n + 1) = 2,
           NEW c, c.settings = ServerSoFar(f, s, n)
    PROVE  LocationMeant(f, s, l)
              = Completed([path |-> f[l].values[1], settings |-> LocationSoFar(f, l, n)], c)
<1> DEFINE S == LocationSoFar(f, l, n)
           above == {k \in Inside(f, s, 0) : /\ Depth(f, k) = 1
                                             /\ \E j \in Inside(f, l, 1) \union {l} : k <= j}
           root == OrElse(Given(f, above, "root"), <<"www">>)
           default == [Unset EXCEPT !["root"] = root, !["methods"] = <<"GET">>]
           V == [d \in Directives |->
                   IF d = "root" THEN OrElse(S["root"], c.settings["root"])
                   ELSE IF d = "methods" THEN OrElse(S["methods"], <<"GET">>)
                   ELSE S[d]]
           W == [d \in Directives |-> IF d \in ServerKinds THEN <<>>
                                      ELSE OrElse(Given(f, Inside(f, l, 1), d), default[d])]
<1>1. Len(f) \in Nat /\ n \in 1 .. Len(f) /\ l \in 1 .. n /\ s < l
  BY FileLines
<1>2. Inside(f, l, 1) = l + 1 .. n
  BY <1>1, InsideEnds
<1>3. \A j \in 1 .. n : j \in Inside(f, s, 0) <=> j \in s + 1 .. n
  BY <1>1, InsideUpTo
<1>4. above = OwnLines(f, s, n)
  <2>1. ASSUME NEW k \in above
        PROVE  k \in OwnLines(f, s, n)
    <3>1. k \in Inside(f, s, 0) /\ Depth(f, k) = 1 /\ \E j \in (l + 1 .. n) \union {l} : k <= j
      BY <1>2
    <3>2. k \in s + 1 .. Len(f)
      BY <1>1, <3>1 DEF Inside
    <3>3. k \in 1 .. n
      BY <1>1, <3>1, <3>2
    <3>4. QED
      BY <1>3, <3>1, <3>3 DEF OwnLines
  <2>2. ASSUME NEW k \in OwnLines(f, s, n)
        PROVE  k \in above
    <3>1. k \in s + 1 .. n /\ Depth(f, k) = 1
      BY DEF OwnLines
    <3>2. k \in Inside(f, s, 0)
      BY <1>1, <1>3, <3>1
    <3>3. n \in (l + 1 .. n) \union {l} /\ k <= n
      BY <1>1, <3>1
    <3>4. QED
      BY <1>2, <3>1, <3>2, <3>3
  <2> HIDE DEF above
  <2>3. QED
    BY <2>1, <2>2
<1> HIDE DEF above
<1>5. root = c.settings["root"]
  <2>1. "root" \in Directives /\ "root" \in EitherKinds /\ "root" \notin ServerKinds
    BY DEF Directives, EitherKinds, ServerKinds
  <2>2. Server_struct.settings["root"] = <<"www">>
    BY <2>1, ServerDefaults
  <2>3. c.settings["root"] = ServerValue(f, s, n, "root")
    BY <2>1 DEF ServerSoFar
  <2>4. ServerValue(f, s, n, "root") = OrElse(Given(f, OwnLines(f, s, n), "root"), <<"www">>)
    BY <2>1, <2>2 DEF ServerValue
  <2>5. QED
    BY <1>4, <2>3, <2>4
<1> HIDE DEF root
<1>6. /\ default["root"] = root /\ default["methods"] = <<"GET">>
      /\ \A d \in Directives : d # "root" /\ d # "methods" => default[d] = <<>>
  <2>1. "root" \in Directives /\ "methods" \in Directives
    BY DEF Directives, EitherKinds, LocationKinds
  <2>2. QED
    BY <2>1 DEF Unset
<1> HIDE DEF default
<1>7. \A d \in Directives : S[d] = IF d \in ServerKinds THEN <<>> ELSE Given(f, l + 1 .. n, d)
  BY DEF LocationSoFar, LocationValue
<1>8. ASSUME NEW d \in Directives
      PROVE  W[d] = V[d]
  <2>1. CASE d \in ServerKinds
    <3>1. d # "root" /\ d # "methods"
      BY <2>1 DEF ServerKinds
    <3>2. V[d] = S[d]
      BY <3>1
    <3>3. QED
      BY <1>7, <2>1, <3>2
  <2>2. CASE d \notin ServerKinds
    <3>1. W[d] = OrElse(S[d], default[d])
      BY <1>2, <1>7, <2>2
    <3>2. V[d] = OrElse(S[d], default[d])
      BY <1>5, <1>6 DEF OrElse
    <3>3. QED
      BY <3>1, <3>2
  <2>3. QED
    BY <2>1, <2>2
<1>9. W = V
  BY <1>8
<1>10. LocationMeant(f, s, l) = [path |-> f[l].values[1], settings |-> W]
  BY DEF LocationMeant, above, root, default
<1>11. Completed([path |-> f[l].values[1], settings |-> S], c)
          = [path |-> f[l].values[1], settings |-> V]
  <2>1. S = [d \in Directives |-> S[d]]
    BY DEF LocationSoFar
  <2> HIDE DEF S
  <2>2. QED
    BY <2>1, CompletedIs
<1>12. QED
  BY <1>9, <1>10, <1>11

\* So is a server block.
LEMMA ServerEnds ==
    ASSUME NEW f \in Files, NEW n \in 1 .. Len(f) - 1, NEW s \in 1 .. n,
           Unclosed(f, s, 0, n), f[n + 1].kind = "close", Depth(f, n + 1) = 1
    PROVE  ServerMeant(f, s)
              = [settings |-> [ServerSoFar(f, s, n) EXCEPT !["index"] = OrElse(@, <<"index.html">>)],
                 locations |-> LocationsMeant(f, s, LocationLines(f) \intersect (s + 1 .. n))]
<1> DEFINE all == Inside(f, s, 0)
           own == {k \in all : Depth(f, k) = 1}
           base == Server_struct.settings
           default == [base EXCEPT !["index"] = <<"index.html">>]
           X == ServerSoFar(f, s, n)
           W == [d \in Directives |->
                    IF d \in ServerKinds
                    THEN (IF d \in ListKinds \/ Given(f, all, d) # <<>>
                          THEN Given(f, all, d) ELSE default[d])
                    ELSE IF d \in EitherKinds THEN OrElse(Given(f, own, d), default[d])
                    ELSE <<>>]
           V == [X EXCEPT !["index"] = OrElse(@, <<"index.html">>)]
<1>1. all = s + 1 .. n
  BY InsideEnds
<1>2. own = OwnLines(f, s, n)
  BY <1>1 DEF OwnLines
<1> HIDE DEF own, all
<1>3. /\ "index" \in Directives /\ "index" \in EitherKinds /\ "index" \notin ServerKinds
      /\ base["index"] = <<>>
  <2>1. "index" \in Directives /\ "index" \in EitherKinds /\ "index" \notin ServerKinds
    BY DEF Directives, EitherKinds, ServerKinds
  <2>2. QED
    BY <2>1, ServerDefaults
<1>4. default["index"] = <<"index.html">> /\ \A d \in Directives : d # "index" => default[d] = base[d]
  <2>1. DOMAIN base = Directives
    BY ServerDefaults
  <2> HIDE DEF base
  <2>2. QED
    BY <1>3, <2>1
<1>5. X = [d \in Directives |-> X[d]] /\ \A d \in Directives : X[d] = ServerValue(f, s, n, d)
  BY DEF ServerSoFar
<1> HIDE DEF default, X
<1>6. V = [d \in Directives |-> IF d = "index" THEN OrElse(X[d], <<"index.html">>) ELSE X[d]]
  BY <1>3, <1>5
<1>7. ASSUME NEW d \in Directives
      PROVE  W[d] = V[d]
  <2>1. CASE d = "index"
    <3>1. X[d] = Given(f, own, d)
      BY <1>2, <1>3, <1>5, <2>1 DEF ServerValue, OrElse
    <3>2. W[d] = OrElse(Given(f, own, d), <<"index.html">>)
      BY <1>3, <1>4, <2>1
    <3>3. V[d] = OrElse(X[d], <<"index.html">>)
      BY <1>6, <2>1
    <3>4. QED
      BY <3>1, <3>2, <3>3
  <2>2. CASE d # "index"
    <3>1. V[d] = ServerValue(f, s, n, d) /\ default[d] = base[d]
      BY <1>4, <1>5, <1>6, <2>2
    <3> HIDE DEF base, V
    <3>2. QED
      BY <1>1, <1>2, <3>1 DEF ServerValue, base
  <2>3. QED
    BY <2>1, <2>2
<1>8. W = V
  <2> HIDE DEF V
  <2>1. DOMAIN V = Directives /\ V = [d \in Directives |-> V[d]]
    BY <1>6 DEF V
  <2>2. QED
    BY <1>7, <2>1
<1> DEFINE places == InOrder(f, all \intersect LinesOf(f, {"location", "bare_location"}))
<1>9. ServerMeant(f, s) = [settings |-> W,
                           locations |-> [l \in DOMAIN places |-> LocationMeant(f, s, places[l])]]
  BY DEF ServerMeant, all, own, default
<1>10. all \intersect LinesOf(f, {"location", "bare_location"})
          = LocationLines(f) \intersect (s + 1 .. n)
  BY <1>1 DEF LocationLines
<1>11. [l \in DOMAIN places |-> LocationMeant(f, s, places[l])]
          = LocationsMeant(f, s, LocationLines(f) \intersect (s + 1 .. n))
  BY <1>10 DEF LocationsMeant
<1> HIDE DEF W, V, places
<1>12. QED
  BY <1>8, <1>9, <1>11 DEF V, X

-----------------------------------------------------------------------------
(***************************************************************************)
(* The invariant.  Behind line n of a well-nested file: the counter        *)
(* is the depth, the flags are what it says and whether a location waits   *)
(* for its brace, the blocks that are closed are those that the file means *)
(* and the open ones have the values of their lines so far.                *)
(***************************************************************************)
\* A location whose brace is to be on the next line.
BraceDue(f, n) == n > 0 /\ f[n].kind = "bare_location"

\* What inServer, inLocation and braceCount are behind line n.
Flags(f, n, inS, inL, braces) ==
    /\ inS \in BOOLEAN /\ inL \in BOOLEAN
    /\ braces = Depth(f, n + 1) /\ braces \in {0, 1, 2}
    /\ inS <=> braces > 0
    /\ inL <=> braces = 2 \/ BraceDue(f, n)
    /\ BraceDue(f, n) => braces = 1

\* Line s opens the server block that line n + 1 stands in.
OpenServer(f, s, n) ==
    /\ f[s].kind = "server" /\ s \in 1 .. n
    /\ Unclosed(f, s, 0, n)
    /\ \A k \in s + 1 .. n : f[k].kind # "server"

\* Line l opens the location that line n + 1 stands in.
OpenLocation(f, l, n) ==
    /\ l \in LocationLines(f)
    /\ Unclosed(f, l, 1, n)
    /\ \A k \in l + 1 .. n : k \notin LocationLines(f)

\* The locations of the server block under construction, and the open one.
LocationsBuilt(f, s, n, locations, location, inL) ==
    IF ~inL
    THEN locations = LocationsMeant(f, s, LocationLines(f) \intersect (s + 1 .. n))
    ELSE \E l \in s + 1 .. n :
            /\ OpenLocation(f, l, n)
            /\ locations = LocationsMeant(f, s, LocationLines(f) \intersect (s + 1 .. l - 1))
            /\ location = [path |-> f[l].values[1], settings |-> LocationSoFar(f, l, n)]

\* config.servers, and the server block under construction.
ServersBuilt(f, n, blocks, block, location, inS, inL) ==
    IF ~inS
    THEN blocks = ServersMeant(f, LinesOf(f, {"server"}) \intersect (1 .. n))
    ELSE \E s \in 1 .. n :
            /\ OpenServer(f, s, n)
            /\ blocks = ServersMeant(f, LinesOf(f, {"server"}) \intersect (1 .. s - 1))
            /\ block.settings = ServerSoFar(f, s, n)
            /\ LocationsBuilt(f, s, n, block.locations, location, inL)

\* For well-nested files, while nothing has been thrown.
NestInv ==
    /\ verdict = "accepted" => lineNumber = Len(file)
    /\ WellNested(file) /\ verdict # "refused" =>
          /\ Flags(file, lineNumber, inServer, inLocation, braceCount)
          /\ ServersBuilt(file, lineNumber, servers, currentServer, currentLocation,
                          inServer, inLocation)

-----------------------------------------------------------------------------
(***************************************************************************)
(* Each kind of line finds the flags as the nesting says                   *)
(***************************************************************************)
\* The rules of WellNested, for line k.
LEMMA NestedLine ==
    ASSUME NEW f \in Files, WellNested(f), NEW k \in 1 .. Len(f)
    PROVE  /\ f[k].kind = "server" => Depth(f, k) = 0
           /\ f[k].kind \in {"location", "bare_location"} => Depth(f, k) = 1
           /\ f[k].kind \in {"close"} \union Directives => Depth(f, k) > 0
           /\ f[k].kind = "open" => BraceDue(f, k - 1)
           /\ BraceDue(f, k - 1) => f[k].kind = "open"
<1>1. Len(f) \in Nat /\ DOMAIN f = 1 .. Len(f)
  BY FileLines
<1>2. \A kinds : k \in LinesOf(f, kinds) <=> f[k].kind \in kinds
  BY <1>1 DEF LinesOf
<1>3. f[k].kind = "open" => BraceDue(f, k - 1)
  BY <1>2 DEF WellNested, BraceDue
<1>4. ASSUME BraceDue(f, k - 1)
      PROVE  f[k].kind = "open"
  <2>1. k - 1 \in LinesOf(f, {"bare_location"})
    BY <1>1, <1>4 DEF LinesOf, BraceDue
  <2>2. f[(k - 1) + 1].kind = "open" /\ (k - 1) + 1 = k
    BY <1>1, <2>1 DEF WellNested
  <2>3. QED
    BY <2>2
<1>5. f[k].kind = "server" => Depth(f, k) = 0
  BY <1>2 DEF WellNested
<1>6. f[k].kind \in {"location", "bare_location"} => Depth(f, k) = 1
  BY <1>2 DEF WellNested
<1>7. f[k].kind \in {"close"} \union Directives => Depth(f, k) > 0
  BY <1>2 DEF WellNested
<1>8. QED
  BY <1>3, <1>4, <1>5, <1>6, <1>7

\* Lines that leave the depth as it is.
NoBrace == Directives \union {"word"}

\* What the flags stand for is enough to know what the next line may be, and
\* what they are to stand for behind it.
FlagsFollow(f, n, inS, inL, b) ==
    LET e == f[n + 1].kind
    IN  /\ e = "server" => ~inS /\ ~inL /\ Flags(f, n + 1, TRUE, inL, b + 1)
        /\ e = "close" /\ inL =>
              inS /\ Depth(f, n + 1) = 2 /\ Flags(f, n + 1, inS, FALSE, b - 1)
        /\ e = "close" /\ ~inL =>
              inS /\ Depth(f, n + 1) = 1 /\ Flags(f, n + 1, FALSE, inL, b - 1)
        /\ e = "location" => inS /\ ~inL /\ Flags(f, n + 1, inS, TRUE, b + 1)
        /\ e = "bare_location" => inS /\ ~inL /\ Flags(f, n + 1, inS, TRUE, b)
        /\ e \in Directives => inS /\ Depth(f, n + 1) = IF inL THEN 2 ELSE 1
        /\ e \in NoBrace => Flags(f, n + 1, inS, inL, b)
        /\ e = "open" => Flags(f, n + 1, inS, inL, b + 1)

LEMMA FlagsNext ==
    ASSUME NEW f \in Files, WellNested(f), NEW n \in 0 .. Len(f) - 1,
           NEW inS, NEW inL, NEW b, Flags(f, n, inS, inL, b)
    PROVE  FlagsFollow(f, n, inS, inL, b)
<1> DEFINE e == f[n + 1].kind
           d == Depth(f, n + 2)
           due == BraceDue(f, n)
<1>1. Len(f) \in Nat /\ n + 1 \in 1 .. Len(f) /\ (n + 1) - 1 = n /\ (n + 1) + 1 = n + 2 /\ n + 1 > 0
  BY FileLines
<1>2. /\ e = "server" => b = 0
      /\ e \in {"location", "bare_location"} => b = 1
      /\ e \in {"close"} \union Directives => b > 0
      /\ e = "open" <=> due
  BY <1>1, NestedLine DEF Flags
<1>3. /\ e = "server" \/ e = "location" \/ e = "open" => d = b + 1
      /\ e = "close" => d = b - 1
      /\ e \in NoBrace \union {"bare_location"} => d = b
  <2>1. /\ e \in {"server", "location", "open"} => d = b + 1
        /\ e \notin {"server", "location", "open"} => d = IF e = "close" THEN b - 1 ELSE b
    BY <1>1, DepthMore DEF OpenKinds, Flags
  <2>2. e \in NoBrace \union {"bare_location"} =>
           e \notin {"server", "location", "open", "close"}
    BY DEF NoBrace, Directives, ServerKinds, LocationKinds, EitherKinds
  <2>3. QED
    BY <2>1, <2>2
<1>4. BraceDue(f, n + 1) <=> e = "bare_location"
  BY <1>1 DEF BraceDue
<1>5. /\ inS \in BOOLEAN /\ inL \in BOOLEAN /\ b \in {0, 1, 2} /\ b = Depth(f, n + 1)
      /\ (inS <=> b > 0) /\ (inL <=> b = 2 \/ due) /\ (due => b = 1)
  BY DEF Flags
<1>6. e \in NoBrace => e # "bare_location" /\ e # "open"
  BY DEF NoBrace, Directives, ServerKinds, LocationKinds, EitherKinds
<1>7. e \in Directives => e \in NoBrace
  BY DEF NoBrace
<1>8. \A x, y, z : Flags(f, n + 1, x, y, z) <=>
         /\ x \in BOOLEAN /\ y \in BOOLEAN /\ z = d /\ z \in {0, 1, 2}
         /\ (x <=> z > 0) /\ (y <=> z = 2 \/ e = "bare_location")
         /\ (e = "bare_location" => z = 1)
  BY <1>1, <1>4 DEF Flags
<1>a. d = 0 /\ e # "bare_location" => Flags(f, n + 1, FALSE, FALSE, 0)
  BY <1>1, <1>4 DEF Flags
<1>b. d = 1 /\ e # "bare_location" => Flags(f, n + 1, TRUE, FALSE, 1)
  BY <1>1, <1>4 DEF Flags
<1>c. d = 2 /\ e # "bare_location" => Flags(f, n + 1, TRUE, TRUE, 2)
  BY <1>1, <1>4 DEF Flags
<1> HIDE DEF e, d, due
<1>9. e = "server" => ~inS /\ ~inL /\ Flags(f, n + 1, TRUE, inL, b + 1)
  <2> SUFFICES ASSUME e = "server" PROVE ~inS /\ ~inL /\ Flags(f, n + 1, TRUE, inL, b + 1)
    OBVIOUS
  <2>1. b = 0 /\ d = 1 /\ ~due
    BY <1>2, <1>3
  <2>2. ~inS /\ ~inL
    BY <1>5, <2>1
  <2>3. Flags(f, n + 1, TRUE, FALSE, 1)
    BY <1>b, <2>1
  <2>4. inL = FALSE /\ b + 1 = 1
    BY <1>5, <2>1, <2>2
  <2>5. QED
    BY <2>2, <2>3, <2>4
<1>10. e = "close" => ~due /\ (inL <=> b = 2) /\ inS /\ d = b - 1 /\ b \in {1, 2}
  BY <1>2, <1>3, <1>5
<1>11. e = "close" /\ inL => inS /\ b = 2 /\ Flags(f, n + 1, inS, FALSE, b - 1)
  <2> SUFFICES ASSUME e = "close", inL PROVE inS /\ b = 2 /\ Flags(f, n + 1, inS, FALSE, b - 1)
    OBVIOUS
  <2>1. b = 2 /\ d = 1 /\ inS = TRUE /\ b - 1 = 1
    BY <1>5, <1>10
  <2>2. Flags(f, n + 1, TRUE, FALSE, 1)
    BY <1>b, <2>1
  <2>3. QED
    BY <2>1, <2>2
<1>12. e = "close" /\ ~inL => inS /\ b = 1 /\ Flags(f, n + 1, FALSE, inL, b - 1)
  <2> SUFFICES ASSUME e = "close", ~inL PROVE inS /\ b = 1 /\ Flags(f, n + 1, FALSE, inL, b - 1)
    OBVIOUS
  <2>1. b = 1 /\ d = 0 /\ inS /\ inL = FALSE /\ b - 1 = 0
    BY <1>5, <1>10
  <2>2. Flags(f, n + 1, FALSE, FALSE, 0)
    BY <1>a, <2>1
  <2>3. QED
    BY <2>1, <2>2
<1>13. e = "location" \/ e = "bare_location" => b = 1 /\ ~due /\ inS /\ ~inL
  BY <1>2, <1>5
<1>14. e = "location" => inS /\ ~inL /\ Flags(f, n + 1, inS, TRUE, b + 1)
  <2> SUFFICES ASSUME e = "location" PROVE inS /\ ~inL /\ Flags(f, n + 1, inS, TRUE, b + 1)
    OBVIOUS
  <2>1. d = 2 /\ inS = TRUE /\ ~inL /\ b + 1 = 2
    BY <1>3, <1>5, <1>13
  <2>2. Flags(f, n + 1, TRUE, TRUE, 2)
    BY <1>c, <2>1
  <2>3. QED
    BY <2>1, <2>2
<1>15. e = "bare_location" => inS /\ ~inL /\ Flags(f, n + 1, inS, TRUE, b)
  BY <1>3, <1>5, <1>8, <1>13
<1>16. e \in Directives => inS /\ b = IF inL THEN 2 ELSE 1
  BY <1>2, <1>5, <1>6, <1>7
<1>17. e \in NoBrace => Flags(f, n + 1, inS, inL, b)
  BY <1>2, <1>3, <1>5, <1>6, <1>8
<1>18. e = "open" => Flags(f, n + 1, inS, inL, b + 1)
  <2> SUFFICES ASSUME e = "open" PROVE Flags(f, n + 1, inS, inL, b + 1)
    OBVIOUS
  <2>1. b + 1 = 2 /\ inS = TRUE /\ inL = TRUE /\ d = 2
    BY <1>2, <1>3, <1>5
  <2>2. Flags(f, n + 1, TRUE, TRUE, 2)
    BY <1>c, <2>1
  <2>3. QED
    BY <2>1, <2>2
<1>19. QED
  BY <1>5, <1>9, <1>11, <1>12, <1>14, <1>15, <1>16, <1>17, <1>18 DEF e, FlagsFollow

-----------------------------------------------------------------------------
(***************************************************************************)
(* Each kind of line builds what the file means                            *)
(***************************************************************************)
\* What a line leaves as it is.
LEMMA StaysOpen ==
    ASSUME NEW f \in Files, NEW n \in 1 .. Len(f) - 1
    PROVE  /\ \A k \in 1 .. n : \A d : Unclosed(f, k, d, n)
                 /\ (f[n + 1].kind = "close" => Depth(f, n + 1) # d + 1) => Unclosed(f, k, d, n + 1)
           /\ \A s : OpenServer(f, s, n) /\ f[n + 1].kind # "server"
                 /\ (f[n + 1].kind = "close" => Depth(f, n + 1) # 1) => OpenServer(f, s, n + 1)
           /\ \A l \in 1 .. n : OpenLocation(f, l, n) /\ n + 1 \notin LocationLines(f)
                 /\ (f[n + 1].kind = "close" => Depth(f, n + 1) # 2) => OpenLocation(f, l, n + 1)
<1>1. Len(f) \in Nat
  BY FileLines
<1>2. \A k \in 1 .. n : \A i \in k + 1 .. n + 1 : i \in k + 1 .. n \/ i = n + 1
  BY <1>1
<1>3. ASSUME NEW k \in 1 .. n, NEW d, Unclosed(f, k, d, n),
             f[n + 1].kind = "close" => Depth(f, n + 1) # d + 1
      PROVE  Unclosed(f, k, d, n + 1)
  BY <1>2, <1>3 DEF Unclosed
<1>4. ASSUME NEW s, OpenServer(f, s, n), f[n + 1].kind # "server",
             f[n + 1].kind = "close" => Depth(f, n + 1) # 1
      PROVE  OpenServer(f, s, n + 1)
  <2>1. s \in 1 .. n /\ s \in 1 .. n + 1 /\ Unclosed(f, s, 0, n)
    BY <1>1, <1>4 DEF OpenServer
  <2>2. Unclosed(f, s, 0, n + 1)
    BY <1>3, <1>4, <2>1
  <2>3. QED
    BY <1>2, <1>4, <2>1, <2>2 DEF OpenServer
<1>5. ASSUME NEW l \in 1 .. n, OpenLocation(f, l, n), n + 1 \notin LocationLines(f),
             f[n + 1].kind = "close" => Depth(f, n + 1) # 2
      PROVE  OpenLocation(f, l, n + 1)
  <2>1. Unclosed(f, l, 1, n + 1)
    BY <1>3, <1>5 DEF OpenLocation
  <2>2. QED
    BY <1>2, <1>5, <2>1 DEF OpenLocation
<1>6. QED
  BY <1>3, <1>4, <1>5

LEMMA LineIsLocation ==
    ASSUME NEW f \in Files, NEW k \in 1 .. Len(f)
    PROVE  /\ k \in LocationLines(f) <=> f[k].kind \in {"location", "bare_location"}
           /\ k \in LinesOf(f, {"server"}) <=> f[k].kind = "server"
  BY FileLines DEF LocationLines, LinesOf

\* The lines of a kind up to the next line.
LEMMA KindsMore ==
    ASSUME NEW f \in Files, NEW n \in 0 .. Len(f) - 1, NEW a \in 0 .. n, NEW K
    PROVE  K \intersect (a + 1 .. n + 1) = IF n + 1 \in K THEN (K \intersect (a + 1 .. n)) \union {n + 1}
                                                          ELSE K \intersect (a + 1 .. n)
<1>1. n \in Nat /\ a \in Nat /\ a <= n
  BY FileLines
<1>2. a + 1 .. n + 1 = (a + 1 .. n) \union {n + 1}
  BY <1>1
<1>3. QED
  BY <1>2

\* A server line starts a block with its defaults.
LEMMA BuiltServer ==
    ASSUME NEW f \in Files, NEW n \in 0 .. Len(f) - 1, f[n + 1].kind = "server",
           NEW blocks, NEW block, NEW location,
           ServersBuilt(f, n, blocks, block, location, FALSE, FALSE)
    PROVE  ServersBuilt(f, n + 1, blocks, Server_struct, location, TRUE, FALSE)
<1>1. Len(f) \in Nat /\ n + 1 \in 1 .. Len(f) /\ (n + 1) - 1 = n /\ n + 1 \in 1 .. n + 1
      /\ (n + 1) + 1 .. n + 1 = {}
  BY FileLines
<1>2. blocks = ServersMeant(f, LinesOf(f, {"server"}) \intersect (1 .. n))
  BY DEF ServersBuilt
<1>3. OpenServer(f, n + 1, n + 1)
  BY <1>1 DEF OpenServer, Unclosed
<1>4. Server_struct.settings = ServerSoFar(f, n + 1, n + 1) /\ Server_struct.locations = <<>>
  BY <1>1, ServerBegins, ServerDefaults
<1>5. LocationsBuilt(f, n + 1, n + 1, <<>>, location, FALSE)
  <2>1. LocationLines(f) \intersect ((n + 1) + 1 .. n + 1) = {}
    BY <1>1
  <2>2. QED
    BY <2>1, MeantNone DEF LocationsBuilt
<1>6. QED
  BY <1>1, <1>2, <1>3, <1>4, <1>5 DEF ServersBuilt

\* A location line starts a location in it.
LEMMA BuiltLocation ==
    ASSUME NEW f \in Files, NEW n \in 0 .. Len(f) - 1,
           f[n + 1].kind \in {"location", "bare_location"},
           NEW blocks, NEW block, NEW location,
           ServersBuilt(f, n, blocks, block, location, TRUE, FALSE)
    PROVE  ServersBuilt(f, n + 1, blocks, block, Location_struct(f[n + 1].values[1]), TRUE, TRUE)
<1> DEFINE fresh == Location_struct(f[n + 1].values[1])
<1>1. PICK s \in 1 .. n :
         /\ OpenServer(f, s, n)
         /\ blocks = ServersMeant(f, LinesOf(f, {"server"}) \intersect (1 .. s - 1))
         /\ block.settings = ServerSoFar(f, s, n)
         /\ LocationsBuilt(f, s, n, block.locations, location, FALSE)
  BY DEF ServersBuilt
<1>2. /\ Len(f) \in Nat /\ n \in 1 .. Len(f) - 1 /\ n + 1 \in 1 .. Len(f) /\ (n + 1) - 1 = n
      /\ n + 1 \in s + 1 .. n + 1 /\ (n + 1) + 1 .. n + 1 = {} /\ s \in 1 .. n + 1
  BY FileLines
<1>3. OpenServer(f, s, n + 1)
  BY <1>1, <1>2, StaysOpen
<1>4. block.settings = ServerSoFar(f, s, n + 1)
  <2>1. f[n + 1].kind \notin ServerKinds /\ f[n + 1].kind \notin EitherKinds
    BY DEF ServerKinds, EitherKinds
  <2>2. QED
    BY <1>1, <1>2, <2>1, ServerSoFarSame
<1>5. OpenLocation(f, n + 1, n + 1)
  BY <1>2, LineIsLocation DEF OpenLocation, Unclosed
<1>6. block.locations = LocationsMeant(f, s, LocationLines(f) \intersect (s + 1 .. (n + 1) - 1))
  BY <1>1, <1>2 DEF LocationsBuilt
<1>7. fresh = [path |-> f[n + 1].values[1], settings |-> LocationSoFar(f, n + 1, n + 1)]
  BY <1>2, LocationBegins DEF Location_struct
<1>8. LocationsBuilt(f, s, n + 1, block.locations, fresh, TRUE)
  <2> HIDE DEF fresh
  <2>1. QED
    BY <1>2, <1>5, <1>6, <1>7 DEF LocationsBuilt
<1> HIDE DEF fresh
<1>9. ServersBuilt(f, n + 1, blocks, block, fresh, TRUE, TRUE)
  BY <1>1, <1>2, <1>3, <1>4, <1>8 DEF ServersBuilt
<1>10. QED
  BY <1>9 DEF fresh

\* A line that opens and closes no block: the locations stay, and the one that
\* is open is what it becomes.
LEMMA LocationsStay ==
    ASSUME NEW f \in Files, NEW n \in 1 .. Len(f) - 1, NEW s \in 1 .. n,
           f[n + 1].kind \notin {"location", "bare_location", "close"},
           NEW locations, NEW location, NEW next, NEW inL \in BOOLEAN,
           LocationsBuilt(f, s, n, locations, location, inL),
           inL => \A l \in 1 .. n :
                     location = [path |-> f[l].values[1], settings |-> LocationSoFar(f, l, n)]
                     => next = [path |-> f[l].values[1], settings |-> LocationSoFar(f, l, n + 1)]
    PROVE  LocationsBuilt(f, s, n + 1, locations, next, inL)
<1>1. Len(f) \in Nat /\ n + 1 \in 1 .. Len(f) /\ n \in 0 .. Len(f) - 1 /\ s \in 0 .. n
  BY FileLines
<1>2. n + 1 \notin LocationLines(f)
  BY <1>1, LineIsLocation
<1>3. CASE ~inL
  <2>1. LocationLines(f) \intersect (s + 1 .. n + 1) = LocationLines(f) \intersect (s + 1 .. n)
    BY <1>1, <1>2, KindsMore
  <2>2. QED
    BY <1>3, <2>1 DEF LocationsBuilt
<1>4. CASE inL
  <2>1. PICK l \in s + 1 .. n :
           /\ OpenLocation(f, l, n)
           /\ locations = LocationsMeant(f, s, LocationLines(f) \intersect (s + 1 .. l - 1))
           /\ location = [path |-> f[l].values[1], settings |-> LocationSoFar(f, l, n)]
    BY <1>4 DEF LocationsBuilt
  <2>2. l \in 1 .. n /\ l \in s + 1 .. n + 1
    BY <1>1
  <2>3. OpenLocation(f, l, n + 1)
    BY <1>2, <2>1, <2>2, StaysOpen
  <2>4. next = [path |-> f[l].values[1], settings |-> LocationSoFar(f, l, n + 1)]
    BY <1>4, <2>1, <2>2
  <2>5. QED
    BY <1>4, <2>1, <2>2, <2>3, <2>4 DEF LocationsBuilt
<1>5. QED
  BY <1>3, <1>4

\* A line that is ignored leaves all as it is.
LEMMA BuiltIgnored ==
    ASSUME NEW f \in Files, NEW n \in 0 .. Len(f) - 1, f[n + 1].kind \in {"open", "word"},
           NEW blocks, NEW block, NEW location, NEW inS \in BOOLEAN, NEW inL \in BOOLEAN,
           ServersBuilt(f, n, blocks, block, location, inS, inL)
    PROVE  ServersBuilt(f, n + 1, blocks, block, location, inS, inL)
<1>1. Len(f) \in Nat /\ n + 1 \in 1 .. Len(f)
  BY FileLines
<1>2. f[n + 1].kind \notin Directives
  BY DEF Directives, ServerKinds, LocationKinds, EitherKinds
<1>3. CASE ~inS
  <2>1. LinesOf(f, {"server"}) \intersect (0 + 1 .. n + 1)
           = LinesOf(f, {"server"}) \intersect (0 + 1 .. n)
    <3>1. 0 \in 0 .. n /\ n + 1 \notin LinesOf(f, {"server"})
      BY <1>1, LineIsLocation
    <3>2. QED
      BY <1>1, <3>1, KindsMore
  <2>2. 0 + 1 = 1
    OBVIOUS
  <2>3. LinesOf(f, {"server"}) \intersect (1 .. n + 1) = LinesOf(f, {"server"}) \intersect (1 .. n)
    BY <2>1, <2>2
  <2>4. QED
    BY <1>3, <2>3 DEF ServersBuilt
<1>4. CASE inS
  <2>1. PICK s \in 1 .. n :
           /\ OpenServer(f, s, n)
           /\ blocks = ServersMeant(f, LinesOf(f, {"server"}) \intersect (1 .. s - 1))
           /\ block.settings = ServerSoFar(f, s, n)
           /\ LocationsBuilt(f, s, n, block.locations, location, inL)
    BY <1>4 DEF ServersBuilt
  <2>2. n \in 1 .. Len(f) - 1 /\ s \in 1 .. n + 1
    BY <1>1
  <2>3. OpenServer(f, s, n + 1)
    BY <2>1, <2>2, StaysOpen
  <2>4. ServerSoFar(f, s, n + 1) = ServerSoFar(f, s, n)
    BY <1>2, <2>2, ServerSoFarSame, Kinds3
  <2>5. \A l \in 1 .. n : LocationSoFar(f, l, n + 1) = LocationSoFar(f, l, n)
    BY <1>2, <2>2, LocationSoFarSame, Kinds3
  <2>6. LocationsBuilt(f, s, n + 1, block.locations, location, inL)
    BY <2>1, <2>2, <2>5, LocationsStay
  <2>7. QED
    BY <1>4, <2>1, <2>2, <2>3, <2>4, <2>6 DEF ServersBuilt
<1>5. QED
  BY <1>3, <1>4

\* A directive of the server block.
LEMMA BuiltServerDirective ==
    ASSUME NEW f \in Files, NEW n \in 0 .. Len(f) - 1, NEW inL \in BOOLEAN,
           \/ f[n + 1].kind \in ServerKinds
           \/ f[n + 1].kind \in EitherKinds /\ ~inL,
           Depth(f, n + 1) = IF inL THEN 2 ELSE 1,
           NEW blocks, NEW block, NEW location, NEW next,
           next.settings = With(block.settings, f[n + 1]), next.locations = block.locations,
           ServersBuilt(f, n, blocks, block, location, TRUE, inL)
    PROVE  ServersBuilt(f, n + 1, blocks, next, location, TRUE, inL)
<1>1. Len(f) \in Nat /\ n + 1 \in 1 .. Len(f)
  BY FileLines
<1>2. f[n + 1].kind \notin {"location", "bare_location", "close", "server"}
  BY DEF ServerKinds, EitherKinds
<1>3. PICK s \in 1 .. n :
         /\ OpenServer(f, s, n)
         /\ blocks = ServersMeant(f, LinesOf(f, {"server"}) \intersect (1 .. s - 1))
         /\ block.settings = ServerSoFar(f, s, n)
         /\ LocationsBuilt(f, s, n, block.locations, location, inL)
  BY DEF ServersBuilt
<1>4. n \in 1 .. Len(f) - 1 /\ s \in 1 .. n + 1
  BY <1>1
<1>5. OpenServer(f, s, n + 1)
  BY <1>2, <1>3, <1>4, StaysOpen
<1>6. next.settings = ServerSoFar(f, s, n + 1)
  <2>1. f[n + 1].kind \in ServerKinds \/ (f[n + 1].kind \in EitherKinds /\ Depth(f, n + 1) = 1)
    OBVIOUS
  <2>2. QED
    BY <1>3, <1>4, <2>1, ServerSoFarMore
<1>7. ASSUME inL, NEW l \in 1 .. n
      PROVE  LocationSoFar(f, l, n + 1) = LocationSoFar(f, l, n)
  <2>1. f[n + 1].kind \notin LocationKinds \union EitherKinds
    BY <1>7, Kinds3
  <2>2. QED
    BY <1>4, <2>1, LocationSoFarSame
<1>8. LocationsBuilt(f, s, n + 1, block.locations, location, inL)
  BY <1>2, <1>3, <1>4, <1>7, LocationsStay
<1>9. QED
  BY <1>3, <1>4, <1>5, <1>6, <1>8 DEF ServersBuilt

\* A directive of the location.
LEMMA BuiltLocationDirective ==
    ASSUME NEW f \in Files, NEW n \in 0 .. Len(f) - 1, NEW inL \in BOOLEAN,
           \/ f[n + 1].kind \in LocationKinds
           \/ f[n + 1].kind \in EitherKinds /\ inL,
           Depth(f, n + 1) = IF inL THEN 2 ELSE 1,
           NEW blocks, NEW block, NEW location,
           ServersBuilt(f, n, blocks, block, location, TRUE, inL)
    PROVE  ServersBuilt(f, n + 1, blocks, block,
                        [location EXCEPT !.settings = With(@, f[n + 1])], TRUE, inL)
<1> DEFINE next == [location EXCEPT !.settings = With(@, f[n + 1])]
<1>1. Len(f) \in Nat /\ n + 1 \in 1 .. Len(f)
  BY FileLines
<1>2. f[n + 1].kind \notin {"location", "bare_location", "close", "server"}
  BY DEF LocationKinds, EitherKinds
<1>3. PICK s \in 1 .. n :
         /\ OpenServer(f, s, n)
         /\ blocks = ServersMeant(f, LinesOf(f, {"server"}) \intersect (1 .. s - 1))
         /\ block.settings = ServerSoFar(f, s, n)
         /\ LocationsBuilt(f, s, n, block.locations, location, inL)
  BY DEF ServersBuilt
<1>4. n \in 1 .. Len(f) - 1 /\ s \in 1 .. n + 1
  BY <1>1
<1>5. OpenServer(f, s, n + 1)
  BY <1>2, <1>3, <1>4, StaysOpen
<1>6. ServerSoFar(f, s, n + 1) = ServerSoFar(f, s, n)
  <2>1. f[n + 1].kind \notin ServerKinds
        /\ (f[n + 1].kind \in EitherKinds => Depth(f, n + 1) # 1)
    BY Kinds3
  <2>2. QED
    BY <1>4, <2>1, ServerSoFarSame
<1>7. ASSUME NEW l \in 1 .. n,
             location = [path |-> f[l].values[1], settings |-> LocationSoFar(f, l, n)]
      PROVE  next = [path |-> f[l].values[1], settings |-> LocationSoFar(f, l, n + 1)]
  <2>1. next = [path |-> f[l].values[1], settings |-> With(LocationSoFar(f, l, n), f[n + 1])]
    BY <1>7
  <2>2. With(LocationSoFar(f, l, n), f[n + 1]) = LocationSoFar(f, l, n + 1)
    BY <1>4, LocationSoFarMore
  <2>3. QED
    BY <2>1, <2>2
<1> HIDE DEF next
<1>8. LocationsBuilt(f, s, n + 1, block.locations, next, inL)
  BY <1>2, <1>3, <1>4, <1>7, LocationsStay
<1>9. ServersBuilt(f, n + 1, blocks, block, next, TRUE, inL)
  BY <1>3, <1>4, <1>5, <1>6, <1>8 DEF ServersBuilt
<1>10. QED
  BY <1>9 DEF next


\* The location that is appended is the next one of the block.
LEMMA BuiltCloseLocation ==
    ASSUME NEW f \in Files, NEW n \in 0 .. Len(f) - 1, f[n + 1].kind = "close",
           Depth(f, n + 1) = 2,
           NEW blocks, NEW block, NEW location, NEW next, NEW other,
           next.settings = block.settings,
           next.locations = Append(block.locations, Completed(location, block)),
           ServersBuilt(f, n, blocks, block, location, TRUE, TRUE)
    PROVE  ServersBuilt(f, n + 1, blocks, next, other, TRUE, FALSE)
<1>1. Len(f) \in Nat /\ n + 1 \in 1 .. Len(f)
  BY FileLines
<1>2. PICK s \in 1 .. n :
         /\ OpenServer(f, s, n)
         /\ blocks = ServersMeant(f, LinesOf(f, {"server"}) \intersect (1 .. s - 1))
         /\ block.settings = ServerSoFar(f, s, n)
         /\ LocationsBuilt(f, s, n, block.locations, location, TRUE)
  BY DEF ServersBuilt
<1>3. PICK l \in s + 1 .. n :
         /\ OpenLocation(f, l, n)
         /\ block.locations = LocationsMeant(f, s, LocationLines(f) \intersect (s + 1 .. l - 1))
         /\ location = [path |-> f[l].values[1], settings |-> LocationSoFar(f, l, n)]
  BY <1>2 DEF LocationsBuilt
<1>4. /\ n \in 1 .. Len(f) - 1 /\ s \in 1 .. n + 1 /\ l \in 1 .. Len(f) /\ l \in 1 .. n
      /\ n \in Nat /\ s \in Nat /\ l \in Nat
  <2>1. n \in Nat /\ s \in Nat /\ l \in Nat /\ 1 <= s /\ s <= n /\ s + 1 <= l /\ l <= n
    BY <1>1
  <2>2. QED
    BY <1>1, <2>1
<1>5. OpenServer(f, s, n + 1)
  BY <1>2, <1>4, StaysOpen
<1>6. next.settings = ServerSoFar(f, s, n + 1)
  <2>1. f[n + 1].kind \notin ServerKinds /\ f[n + 1].kind \notin EitherKinds
    BY DEF ServerKinds, EitherKinds
  <2>2. QED
    BY <1>2, <1>4, <2>1, ServerSoFarSame
<1>7. LocationMeant(f, s, l) = Completed(location, block)
  <2>1. Unclosed(f, s, 0, n) /\ Unclosed(f, l, 1, n)
    BY <1>2, <1>3 DEF OpenServer, OpenLocation
  <2>2. QED
    BY <1>2, <1>3, <1>4, <2>1, LocationEnds
<1> DEFINE K == LocationLines(f) \intersect (s + 1 .. l - 1)
<1>8. LocationLines(f) \intersect (s + 1 .. n + 1) = K \union {l}
  <2>1. l \in LocationLines(f) /\ \A k \in l + 1 .. n : k \notin LocationLines(f)
    BY <1>3 DEF OpenLocation
  <2>2. n + 1 \notin LocationLines(f)
    BY <1>1, LineIsLocation
  <2>3. s + 1 <= l /\ l <= n
    BY <1>4
  <2>4. ASSUME NEW k \in s + 1 .. n + 1, k \in LocationLines(f)
        PROVE  k \in K \union {l}
    <3>1. CASE k < l
      BY <1>4, <2>4, <3>1
    <3>2. CASE k > l
      <4>1. k \in l + 1 .. n \/ k = n + 1
        BY <1>4, <3>2
      <4>2. QED
        BY <2>1, <2>2, <2>4, <4>1
    <3>3. k < l \/ k = l \/ k > l
      BY <1>4
    <3>4. QED
      BY <3>1, <3>2, <3>3
  <2>5. ASSUME NEW k \in K \union {l}
        PROVE  k \in LocationLines(f) \intersect (s + 1 .. n + 1)
    <3>1. k \in s + 1 .. l - 1 \/ k = l
      OBVIOUS
    <3>2. k \in s + 1 .. n + 1
      BY <1>4, <2>3, <3>1
    <3>3. QED
      BY <2>1, <3>2
  <2> HIDE DEF K
  <2>6. QED
    BY <2>4, <2>5
<1>9. K \in SUBSET (1 .. l - 1)
  BY <1>4
<1>10. next.locations = LocationsMeant(f, s, LocationLines(f) \intersect (s + 1 .. n + 1))
  <2> HIDE DEF K
  <2>1. LocationsMeant(f, s, K \union {l}) = Append(LocationsMeant(f, s, K), LocationMeant(f, s, l))
    BY <1>4, <1>9, LocationsMeantMore
  <2>2. block.locations = LocationsMeant(f, s, K)
    BY <1>3 DEF K
  <2>3. QED
    BY <1>7, <1>8, <2>1, <2>2
<1>11. LocationsBuilt(f, s, n + 1, next.locations, other, FALSE)
  BY <1>10 DEF LocationsBuilt
<1>12. QED
  BY <1>2, <1>4, <1>5, <1>6, <1>11 DEF ServersBuilt

\* The server block that is appended is the next one of the file.
LEMMA BuiltCloseServer ==
    ASSUME NEW f \in Files, NEW n \in 0 .. Len(f) - 1, f[n + 1].kind = "close",
           Depth(f, n + 1) = 1,
           NEW blocks, NEW block, NEW location, NEW next, NEW other,
           next = [settings |-> [block.settings EXCEPT !["index"] = OrElse(@, <<"index.html">>)],
                   locations |-> block.locations],
           ServersBuilt(f, n, blocks, block, location, TRUE, FALSE)
    PROVE  ServersBuilt(f, n + 1, Append(blocks, next), next, other, FALSE, FALSE)
<1>1. Len(f) \in Nat /\ n + 1 \in 1 .. Len(f)
  BY FileLines
<1>2. PICK s \in 1 .. n :
         /\ OpenServer(f, s, n)
         /\ blocks = ServersMeant(f, LinesOf(f, {"server"}) \intersect (1 .. s - 1))
         /\ block.settings = ServerSoFar(f, s, n)
         /\ LocationsBuilt(f, s, n, block.locations, location, FALSE)
  BY DEF ServersBuilt
<1>3. /\ n \in 1 .. Len(f) - 1 /\ s \in 1 .. Len(f)
      /\ n \in Nat /\ s \in Nat
  BY <1>1
<1>4. block.locations = LocationsMeant(f, s, LocationLines(f) \intersect (s + 1 .. n))
  BY <1>2 DEF LocationsBuilt
<1>5. next = ServerMeant(f, s)
  <2>1. Unclosed(f, s, 0, n)
    BY <1>2 DEF OpenServer
  <2>2. QED
    BY <1>2, <1>3, <1>4, <2>1, ServerEnds
<1> DEFINE K == LinesOf(f, {"server"}) \intersect (1 .. s - 1)
<1>6. LinesOf(f, {"server"}) \intersect (1 .. n + 1) = K \union {s}
  <2>1. s \in LinesOf(f, {"server"})
    BY <1>2, <1>3, LineIsLocation DEF OpenServer
  <2>2. \A k \in s + 1 .. n : k \notin LinesOf(f, {"server"})
    BY <1>1, <1>2, <1>3, LineIsLocation DEF OpenServer
  <2>3. n + 1 \notin LinesOf(f, {"server"})
    BY <1>1, LineIsLocation
  <2>4. 1 .. n + 1 = (1 .. s - 1) \union {s} \union (s + 1 .. n) \union {n + 1}
    BY <1>3
  <2>5. QED
    BY <2>1, <2>2, <2>3, <2>4
<1>7. K \in SUBSET (1 .. s - 1)
  OBVIOUS
<1>8. Append(blocks, next) = ServersMeant(f, LinesOf(f, {"server"}) \intersect (1 .. n + 1))
  <2> HIDE DEF K
  <2>1. ServersMeant(f, K \union {s}) = Append(ServersMeant(f, K), ServerMeant(f, s))
    BY <1>3, <1>7, ServersMeantMore
  <2>2. blocks = ServersMeant(f, K)
    BY <1>2 DEF K
  <2>3. QED
    BY <1>5, <1>6, <2>1, <2>2
<1>9. QED
  BY <1>8 DEF ServersBuilt


-----------------------------------------------------------------------------
(***************************************************************************)
(* The parser                                                              *)
(***************************************************************************)
\* No line has been read: no block is open.
LEMMA NestInit == Init => NestInv
<1> SUFFICES ASSUME Init PROVE NestInv
  OBVIOUS
<1>1. file \in Files /\ lineNumber = 0 /\ servers = <<>>
  BY Zenon DEF Init
<1>2. inServer = FALSE /\ inLocation = FALSE
  BY Zenon DEF Init
<1>3. braceCount = 0 /\ verdict = "reading"
  BY Zenon DEF Init
<1>4. ~BraceDue(file, 0)
  BY DEF BraceDue
<1>5. Depth(file, 0 + 1) = 0
  BY <1>1, DepthFirst
<1>6. Flags(file, 0, FALSE, FALSE, 0)
  BY <1>4, <1>5 DEF Flags
<1>7. LinesOf(file, {"server"}) \intersect (1 .. 0) = {}
  OBVIOUS
<1>8. ServersBuilt(file, 0, <<>>, currentServer, currentLocation, FALSE, FALSE)
  BY <1>1, <1>7, MeantNone DEF ServersBuilt
<1>9. QED
  BY <1>1, <1>2, <1>3, <1>6, <1>8 DEF NestInv

\* What holds where a line is read.
LEMMA NestRead ==
    ASSUME ConfInv, NestInv, NEW kinds, Reads(kinds), WellNested(file)
    PROVE  /\ file \in Files /\ lineNumber \in 0 .. Len(file) - 1
           /\ file[lineNumber + 1].kind \in kinds
           /\ lineNumber' = lineNumber + 1 /\ file' = file /\ verdict = "reading"
           /\ Flags(file, lineNumber, inServer, inLocation, braceCount)
          /\ FlagsFollow(file, lineNumber, inServer, inLocation, braceCount)
           /\ FlagsFollow(file, lineNumber, inServer, inLocation, braceCount)
           /\ ServersBuilt(file, lineNumber, servers, currentServer, currentLocation,
                           inServer, inLocation)
<1>1. file \in Files /\ lineNumber \in 0 .. Len(file)
  BY DEF ConfInv, CountInv
<1>2. verdict = "reading" /\ lineNumber < Len(file) /\ file[lineNumber + 1].kind \in kinds
      /\ lineNumber' = lineNumber + 1 /\ file' = file
  BY DEF Reads, Line
<1>3. Len(file) \in Nat
  BY <1>1, FileLines
<1>4. lineNumber \in 0 .. Len(file) - 1
  BY <1>1, <1>2, <1>3
<1>5. Flags(file, lineNumber, inServer, inLocation, braceCount)
  BY <1>2 DEF NestInv
<1>6. FlagsFollow(file, lineNumber, inServer, inLocation, braceCount)
  BY <1>1, <1>4, <1>5, FlagsNext
<1>7. QED
  BY <1>1, <1>2, <1>4, <1>5, <1>6 DEF NestInv

\* What is to be shown of a step that reads a line.
LEMMA NestKept ==
    ASSUME file' = file, lineNumber' = lineNumber + 1, verdict' = "reading",
           WellNested(file) =>
             /\ Flags(file, lineNumber + 1, inServer', inLocation', braceCount')
             /\ ServersBuilt(file, lineNumber + 1, servers', currentServer', currentLocation',
                             inServer', inLocation')
    PROVE  NestInv'
  BY DEF NestInv

\* One case for each kind of line.
LEMMA NestStep ==
    ASSUME ConfInv, NestInv, [Next]_vars
    PROVE  NestInv'
<1> DEFINE e == file[lineNumber + 1].kind
<1> USE DEF blockVars
<1>1. CASE ServerLine
  <2>1. Reads({"server"}) /\ verdict' = verdict
    BY <1>1 DEF ServerLine
  <2>2. ASSUME WellNested(file)
        PROVE  /\ Flags(file, lineNumber + 1, inServer', inLocation', braceCount')
               /\ ServersBuilt(file, lineNumber + 1, servers', currentServer', currentLocation',
                               inServer', inLocation')
    <3>1. /\ file \in Files /\ lineNumber \in 0 .. Len(file) - 1 /\ e = "server"
          /\ Flags(file, lineNumber, inServer, inLocation, braceCount)
          /\ FlagsFollow(file, lineNumber, inServer, inLocation, braceCount)
          /\ ServersBuilt(file, lineNumber, servers, currentServer, currentLocation,
                          inServer, inLocation)
      BY <2>1, <2>2, NestRead
    <3>2. ~inServer /\ ~inLocation /\ Flags(file, lineNumber + 1, TRUE, inLocation, braceCount + 1)
      BY <2>2, <3>1 DEF FlagsFollow
    <3>3. inServer = FALSE /\ inLocation = FALSE
      BY <3>1, <3>2 DEF Flags
    <3>4. ServersBuilt(file, lineNumber, servers, currentServer, currentLocation, FALSE, FALSE)
      BY <3>1, <3>3
    <3>5. ServersBuilt(file, lineNumber + 1, servers, Server_struct, currentLocation, TRUE, FALSE)
      BY <3>1, <3>4, BuiltServer
    <3>6. QED
      BY <1>1, <3>2, <3>3, <3>5 DEF ServerLine
  <2>3. QED
    BY <2>1, <2>2, NestKept DEF Reads
<1>2. CASE CloseLocation
  <2>1. Reads({"close"}) /\ verdict' = verdict
    BY <1>2 DEF CloseLocation
  <2>2. ASSUME WellNested(file)
        PROVE  /\ Flags(file, lineNumber + 1, inServer', inLocation', braceCount')
               /\ ServersBuilt(file, lineNumber + 1, servers', currentServer', currentLocation',
                               inServer', inLocation')
    <3>1. /\ file \in Files /\ lineNumber \in 0 .. Len(file) - 1 /\ e = "close"
          /\ Flags(file, lineNumber, inServer, inLocation, braceCount)
          /\ FlagsFollow(file, lineNumber, inServer, inLocation, braceCount)
          /\ ServersBuilt(file, lineNumber, servers, currentServer, currentLocation,
                          inServer, inLocation)
      BY <2>1, <2>2, NestRead
    <3>2. inLocation => /\ inServer /\ Depth(file, lineNumber + 1) = 2
                        /\ Flags(file, lineNumber + 1, inServer, FALSE, braceCount - 1)
      BY <2>2, <3>1 DEF FlagsFollow
    <3>3. inServer = TRUE /\ inLocation = TRUE
      BY <1>2, <3>1, <3>2 DEF Flags, CloseLocation
    <3>4. ServersBuilt(file, lineNumber, servers, currentServer, currentLocation, TRUE, TRUE)
      BY <3>1, <3>3
    <3>5. /\ currentServer'.settings = currentServer.settings
          /\ currentServer'.locations
                = Append(currentServer.locations, Completed(currentLocation, currentServer))
      BY <1>2 DEF CloseLocation, ConfInv, BlocksInv, ServerBlocks
    <3>6. ServersBuilt(file, lineNumber + 1, servers, currentServer', currentLocation, TRUE, FALSE)
      BY <3>1, <3>2, <3>3, <3>4, <3>5, BuiltCloseLocation
    <3>7. QED
      BY <1>2, <3>2, <3>3, <3>6 DEF CloseLocation
  <2>3. QED
    BY <2>1, <2>2, NestKept DEF Reads
<1>3. CASE CloseServer
  <2>1. Reads({"close"}) /\ verdict' = verdict
    BY <1>3 DEF CloseServer
  <2>2. ASSUME WellNested(file)
        PROVE  /\ Flags(file, lineNumber + 1, inServer', inLocation', braceCount')
               /\ ServersBuilt(file, lineNumber + 1, servers', currentServer', currentLocation',
                               inServer', inLocation')
    <3>1. /\ file \in Files /\ lineNumber \in 0 .. Len(file) - 1 /\ e = "close"
          /\ Flags(file, lineNumber, inServer, inLocation, braceCount)
          /\ FlagsFollow(file, lineNumber, inServer, inLocation, braceCount)
          /\ ServersBuilt(file, lineNumber, servers, currentServer, currentLocation,
                          inServer, inLocation)
      BY <2>1, <2>2, NestRead
    <3>2. ~inLocation => /\ Depth(file, lineNumber + 1) = 1
                         /\ Flags(file, lineNumber + 1, FALSE, inLocation, braceCount - 1)
      BY <2>2, <3>1 DEF FlagsFollow
    <3>3. inServer = TRUE /\ inLocation = FALSE
      BY <1>3, <3>1 DEF Flags, CloseServer
    <3>4. ServersBuilt(file, lineNumber, servers, currentServer, currentLocation, TRUE, FALSE)
      BY <3>1, <3>3
    <3>5. currentServer' =
             [settings |-> [currentServer.settings EXCEPT !["index"] = OrElse(@, <<"index.html">>)],
              locations |-> currentServer.locations]
      BY <1>3 DEF CloseServer, ConfInv, BlocksInv, ServerBlocks
    <3>6. ServersBuilt(file, lineNumber + 1, Append(servers, currentServer'), currentServer',
                       currentLocation, FALSE, FALSE)
      BY <3>1, <3>2, <3>3, <3>4, <3>5, BuiltCloseServer
    <3>7. QED
      BY <1>3, <3>2, <3>3, <3>6 DEF CloseServer
  <2>3. QED
    BY <2>1, <2>2, NestKept DEF Reads
<1>4. CASE CloseOther
  <2>1. Reads({"close"}) /\ verdict' = verdict /\ ~inLocation /\ ~inServer
    BY <1>4 DEF CloseOther
  <2>2. ASSUME WellNested(file) PROVE FALSE
    <3>1. /\ file \in Files /\ lineNumber \in 0 .. Len(file) - 1 /\ e = "close"
          /\ Flags(file, lineNumber, inServer, inLocation, braceCount)
          /\ FlagsFollow(file, lineNumber, inServer, inLocation, braceCount)
      BY <2>1, <2>2, NestRead
    <3>2. ~inLocation => inServer
      BY <2>2, <3>1 DEF FlagsFollow
    <3>3. QED
      BY <2>1, <3>2
  <2>3. QED
    BY <2>1, <2>2, NestKept DEF Reads
<1>5. CASE LocationLine
  <2>1. Reads({"location", "bare_location"}) /\ verdict' = verdict
    BY <1>5 DEF LocationLine, Counted
  <2>2. ASSUME WellNested(file)
        PROVE  /\ Flags(file, lineNumber + 1, inServer', inLocation', braceCount')
               /\ ServersBuilt(file, lineNumber + 1, servers', currentServer', currentLocation',
                               inServer', inLocation')
    <3>1. /\ file \in Files /\ lineNumber \in 0 .. Len(file) - 1 /\ e \in {"location", "bare_location"}
          /\ Flags(file, lineNumber, inServer, inLocation, braceCount)
          /\ FlagsFollow(file, lineNumber, inServer, inLocation, braceCount)
          /\ ServersBuilt(file, lineNumber, servers, currentServer, currentLocation,
                          inServer, inLocation)
      BY <2>1, <2>2, NestRead
    <3>2. braceCount' = IF e = "location" THEN braceCount + 1 ELSE braceCount
      BY <1>5, <3>1 DEF LocationLine, Counted, Opens, Line
    <3>3. inServer /\ ~inLocation /\ Flags(file, lineNumber + 1, inServer, TRUE, braceCount')
      BY <2>2, <3>1, <3>2 DEF FlagsFollow
    <3>4. inServer = TRUE /\ inLocation = FALSE
      BY <3>1, <3>3 DEF Flags
    <3>5. ServersBuilt(file, lineNumber, servers, currentServer, currentLocation, TRUE, FALSE)
      BY <3>1, <3>4
    <3>6. ServersBuilt(file, lineNumber + 1, servers, currentServer,
                       Location_struct(file[lineNumber + 1].values[1]), TRUE, TRUE)
      BY <3>1, <3>5, BuiltLocation
    <3>7. QED
      BY <1>5, <3>3, <3>4, <3>6 DEF LocationLine, Line
  <2>3. QED
    BY <2>1, <2>2, NestKept DEF Reads
<1>6. CASE ServerDirective
  <2>1. Reads(Directives) /\ verdict' = verdict
    BY <1>6 DEF ServerDirective, Counted
  <2>2. ASSUME WellNested(file)
        PROVE  /\ Flags(file, lineNumber + 1, inServer', inLocation', braceCount')
               /\ ServersBuilt(file, lineNumber + 1, servers', currentServer', currentLocation',
                               inServer', inLocation')
    <3>1. /\ file \in Files /\ lineNumber \in 0 .. Len(file) - 1 /\ e \in Directives
          /\ Flags(file, lineNumber, inServer, inLocation, braceCount)
          /\ FlagsFollow(file, lineNumber, inServer, inLocation, braceCount)
          /\ ServersBuilt(file, lineNumber, servers, currentServer, currentLocation,
                          inServer, inLocation)
      BY <2>1, <2>2, NestRead
    <3>2. e \notin {"location", "open"}
      BY <3>1 DEF Directives, ServerKinds, LocationKinds, EitherKinds
    <3>3. braceCount' = braceCount
      BY <1>6, <3>2 DEF ServerDirective, Counted, Opens, Line
    <3>4. /\ inServer /\ Depth(file, lineNumber + 1) = IF inLocation THEN 2 ELSE 1
          /\ Flags(file, lineNumber + 1, inServer, inLocation, braceCount)
      <4>1. /\ e \in Directives => inServer /\ Depth(file, lineNumber + 1) = IF inLocation THEN 2 ELSE 1
            /\ e \in NoBrace => Flags(file, lineNumber + 1, inServer, inLocation, braceCount)
        BY <2>2, <3>1 DEF FlagsFollow
      <4>2. QED
        BY <3>1, <4>1 DEF NoBrace
    <3>5. inServer = TRUE /\ inLocation \in BOOLEAN
      BY <3>1, <3>4 DEF Flags
    <3>6. ServersBuilt(file, lineNumber, servers, currentServer, currentLocation, TRUE, inLocation)
      BY <3>1, <3>5
    <3>7. /\ currentServer'.settings = With(currentServer.settings, file[lineNumber + 1])
          /\ currentServer'.locations = currentServer.locations
      BY <1>6 DEF ServerDirective, Line, ConfInv, BlocksInv, ServerBlocks
    <3>8. e \in ServerKinds \/ (e \in EitherKinds /\ ~inLocation)
      BY <1>6 DEF ServerDirective, ToServer, Line
    <3>9. ServersBuilt(file, lineNumber + 1, servers, currentServer', currentLocation,
                       TRUE, inLocation)
      BY <3>1, <3>4, <3>5, <3>6, <3>7, <3>8, BuiltServerDirective
    <3>10. QED
      BY <1>6, <3>3, <3>4, <3>5, <3>9 DEF ServerDirective
  <2>3. QED
    BY <2>1, <2>2, NestKept DEF Reads
<1>7. CASE LocationDirective
  <2>1. Reads(Directives) /\ verdict' = verdict
    BY <1>7 DEF LocationDirective, Counted
  <2>2. ASSUME WellNested(file)
        PROVE  /\ Flags(file, lineNumber + 1, inServer', inLocation', braceCount')
               /\ ServersBuilt(file, lineNumber + 1, servers', currentServer', currentLocation',
                               inServer', inLocation')
    <3>1. /\ file \in Files /\ lineNumber \in 0 .. Len(file) - 1 /\ e \in Directives
          /\ Flags(file, lineNumber, inServer, inLocation, braceCount)
          /\ FlagsFollow(file, lineNumber, inServer, inLocation, braceCount)
          /\ ServersBuilt(file, lineNumber, servers, currentServer, currentLocation,
                          inServer, inLocation)
      BY <2>1, <2>2, NestRead
    <3>2. e \notin {"location", "open"}
      BY <3>1 DEF Directives, ServerKinds, LocationKinds, EitherKinds
    <3>3. braceCount' = braceCount
      BY <1>7, <3>2 DEF LocationDirective, Counted, Opens, Line
    <3>4. /\ inServer /\ Depth(file, lineNumber + 1) = IF inLocation THEN 2 ELSE 1
          /\ Flags(file, lineNumber + 1, inServer, inLocation, braceCount)
      <4>1. /\ e \in Directives => inServer /\ Depth(file, lineNumber + 1) = IF inLocation THEN 2 ELSE 1
            /\ e \in NoBrace => Flags(file, lineNumber + 1, inServer, inLocation, braceCount)
        BY <2>2, <3>1 DEF FlagsFollow
      <4>2. QED
        BY <3>1, <4>1 DEF NoBrace
    <3>5. inServer = TRUE /\ inLocation \in BOOLEAN
      BY <3>1, <3>4 DEF Flags
    <3>6. ServersBuilt(file, lineNumber, servers, currentServer, currentLocation, TRUE, inLocation)
      BY <3>1, <3>5
    <3>7. e \in LocationKinds \/ (e \in EitherKinds /\ inLocation)
      BY <1>7, <3>1, Kinds3 DEF LocationDirective, ToServer, Line
    <3>8. ServersBuilt(file, lineNumber + 1, servers, currentServer,
                       [currentLocation EXCEPT !.settings = With(@, file[lineNumber + 1])],
                       TRUE, inLocation)
      BY <3>1, <3>4, <3>5, <3>6, <3>7, BuiltLocationDirective
    <3>9. QED
      BY <1>7, <3>3, <3>4, <3>5, <3>8 DEF LocationDirective, Line
  <2>3. QED
    BY <2>1, <2>2, NestKept DEF Reads
<1>8. CASE Ignored
  <2>1. Reads({"open", "word"}) /\ verdict' = verdict
    BY <1>8 DEF Ignored, Counted
  <2>2. ASSUME WellNested(file)
        PROVE  /\ Flags(file, lineNumber + 1, inServer', inLocation', braceCount')
               /\ ServersBuilt(file, lineNumber + 1, servers', currentServer', currentLocation',
                               inServer', inLocation')
    <3>1. /\ file \in Files /\ lineNumber \in 0 .. Len(file) - 1 /\ e \in {"open", "word"}
          /\ Flags(file, lineNumber, inServer, inLocation, braceCount)
          /\ FlagsFollow(file, lineNumber, inServer, inLocation, braceCount)
          /\ ServersBuilt(file, lineNumber, servers, currentServer, currentLocation,
                          inServer, inLocation)
      BY <2>1, <2>2, NestRead
    <3>2. braceCount' = IF e = "open" THEN braceCount + 1 ELSE braceCount
      BY <1>8, <3>1 DEF Ignored, Counted, Opens, Line
    <3>3. Flags(file, lineNumber + 1, inServer, inLocation, braceCount')
      BY <2>2, <3>1, <3>2 DEF FlagsFollow, NoBrace
    <3>4. inServer \in BOOLEAN /\ inLocation \in BOOLEAN
      BY <3>1 DEF Flags
    <3>5. ServersBuilt(file, lineNumber + 1, servers, currentServer, currentLocation,
                       inServer, inLocation)
      BY <3>1, <3>4, BuiltIgnored
    <3>6. QED
      BY <1>8, <3>3, <3>5 DEF Ignored
  <2>3. QED
    BY <2>1, <2>2, NestKept DEF Reads
<1>9. CASE LineRefused \/ UnexpectedBrace
  <2>1. verdict' = "refused" /\ file' = file
    BY <1>9 DEF LineRefused, UnexpectedBrace, Counted, Reads
  <2>2. QED
    BY <2>1 DEF NestInv
<1>10. CASE EndOfFile
  <2>1. /\ verdict = "reading" /\ lineNumber = Len(file)
        /\ UNCHANGED <<file, lineNumber, servers, currentServer, currentLocation,
                       inServer, inLocation, braceCount>>
    BY <1>10 DEF EndOfFile
  <2>2. QED
    BY <2>1 DEF NestInv
<1>11. CASE UNCHANGED vars
  BY <1>11 DEF vars, NestInv
<1>12. QED
  BY <1>1, <1>2, <1>3, <1>4, <1>5, <1>6, <1>7, <1>8, <1>9, <1>10, <1>11 DEF Next

LEMMA NestInvariant == Spec => []NestInv
<1>1. ConfInv /\ NestInv /\ [Next]_vars => NestInv'
  BY NestStep
<1>2. QED
  BY <1>1, ConfInvariant, NestInit, PTL DEF Spec

\* BlocksKept: a file in which every server and every location has its braces
\* where WellNested wants them is accepted as what its nesting says, or not at
\* all.
THEOREM BlocksAreKept == Spec => []BlocksKept
<1>1. ConfInv /\ NestInv => BlocksKept
  <2> SUFFICES ASSUME ConfInv, NestInv, verdict = "accepted", WellNested(file)
               PROVE  servers = Meaning(file)
    BY DEF BlocksKept
  <2>1. file \in Files /\ braceCount = 0
    BY DEF ConfInv, CountInv, VerdictInv, Acceptable
  <2>2. /\ lineNumber = Len(file)
        /\ Flags(file, lineNumber, inServer, inLocation, braceCount)
        /\ ServersBuilt(file, lineNumber, servers, currentServer, currentLocation,
                        inServer, inLocation)
    BY DEF NestInv
  <2>3. ~inServer
    BY <2>1, <2>2 DEF Flags
  <2>4. servers = ServersMeant(file, LinesOf(file, {"server"}) \intersect (1 .. Len(file)))
    BY <2>2, <2>3 DEF ServersBuilt
  <2>5. LinesOf(file, {"server"}) \intersect (1 .. Len(file)) = LinesOf(file, {"server"})
    BY <2>1, FileLines DEF LinesOf
  <2>6. QED
    BY <2>4, <2>5 DEF ServersMeant, Meaning
<1>2. QED
  BY <1>1, ConfInvariant, NestInvariant, PTL
=============================================================================
