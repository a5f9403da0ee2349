------------------------------ MODULE FoldProofs ------------------------------
(***************************************************************************)
(* Lemmas about FlattenSeq and FoldLeft, which the library defines by a    *)
(* recursive function.  Such a function exists, its values are those of    *)
(* one step more, and any function that satisfies the same equation has    *)
(* them, too.  Each of these facts is proved by induction: the set of      *)
(* numbers for which it holds is shown to be Nat.                          *)
(***************************************************************************)
EXTENDS Integers, Sequences, SequencesExt, SequenceTheorems, WellFoundedInduction, TLAPS

-----------------------------------------------------------------------------
(* Induction                                                               *)

\* Less-than, as a relation.
Below == {p \in Nat \X Nat : p[1] < p[2]}

\* Less-than on the naturals, as the pairs it relates, is well founded.
LEMMA BelowWF == IsWellFoundedOn(Below, Nat)
<1>1. Below = OpToRel(<, Nat)
  BY Zenon DEF Below, OpToRel
<1> QED BY <1>1, NatLessThanWellFounded

\* Induction as a statement about a set: the library's theorem takes an operator.
LEMMA Induct ==
  ASSUME NEW T \in SUBSET Nat, 0 \in T, \A n \in T : n + 1 \in T
  PROVE T = Nat
<1> SUFFICES ASSUME Nat \ T # {} PROVE FALSE OBVIOUS
<1>1. PICK x \in Nat \ T : \A y \in Nat \ T : ~(<<y, x>> \in Below)
  <2> HIDE DEF Below
  <2> QED BY BelowWF, WFMin
<1>2. x # 0 /\ x - 1 \in Nat /\ x - 1 \notin T
  <2>1. x # 0 OBVIOUS
  <2>2. x - 1 \in T => x \in T
    <3> SUFFICES ASSUME x - 1 \in T PROVE x \in T OBVIOUS
    <3>1. (x - 1) + 1 \in T OBVIOUS
    <3> QED BY <3>1
  <2> QED BY <2>1, <2>2
<1>3. <<x - 1, x>> \in Below BY <1>2 DEF Below
<1> QED BY <1>1, <1>2, <1>3

-----------------------------------------------------------------------------
(* FlattenSeq *)

\* g[i] is the first i elements of s, one behind the other.
Flat(g, s, n) == g = [i \in 1 .. n |-> IF i = 1 THEN s[i] ELSE g[i - 1] \o s[i]]

\* There is a function of the prefix lengths of s that FlattenSeq is defined by.
LEMMA FlatExists ==
  ASSUME NEW X, NEW s \in Seq(Seq(X)), NEW n \in 0 .. Len(s)
  PROVE \E g \in [1 .. n -> Seq(X)] : Flat(g, s, n)
<1> DEFINE P(m) == \E g \in [1 .. m -> Seq(X)] : Flat(g, s, m)
           T == {m \in Nat : m <= Len(s) => P(m)}
<1>1. P(0)
  <2>1. [i \in 1 .. 0 |-> <<>>] \in [1 .. 0 -> Seq(X)]
    OBVIOUS
  <2>2. Flat([i \in 1 .. 0 |-> <<>>], s, 0)
    BY DEF Flat
  <2> QED BY <2>1, <2>2
<1>2. ASSUME NEW m \in Nat, P(m), m + 1 <= Len(s) PROVE P(m + 1)
  <2>1. PICK g \in [1 .. m -> Seq(X)] : Flat(g, s, m)
    BY <1>2
  <2> DEFINE h == [i \in 1 .. m + 1 |-> IF i = 1 THEN s[i] ELSE g[i - 1] \o s[i]]
  <2>2. \A i \in 1 .. m + 1 : s[i] \in Seq(X)
    BY <1>2
  <2>3. \A i \in 1 .. m + 1 : i # 1 => g[i - 1] \in Seq(X)
    OBVIOUS
  <2>4. h \in [1 .. m + 1 -> Seq(X)]
    BY <2>2, <2>3
  <2>5. ASSUME NEW i \in 1 .. m PROVE h[i] = g[i]
    <3>1. g[i] = IF i = 1 THEN s[i] ELSE g[i - 1] \o s[i]
      BY <2>1 DEF Flat
    <3>2. h[i] = IF i = 1 THEN s[i] ELSE g[i - 1] \o s[i]
      OBVIOUS
    <3> QED BY <3>1, <3>2
  <2>6. h = [i \in 1 .. m + 1 |-> IF i = 1 THEN s[i] ELSE h[i - 1] \o s[i]]
    <3>1. ASSUME NEW i \in 1 .. m + 1, i # 1 PROVE h[i - 1] = g[i - 1]
      <4>1. i - 1 \in 1 .. m
        BY <3>1
      <4> HIDE DEF h
      <4> QED BY <4>1, <2>5
    <3> HIDE DEF h
    <3>2. h = [i \in 1 .. m + 1 |-> IF i = 1 THEN s[i] ELSE g[i - 1] \o s[i]]
      BY DEF h
    <3> QED BY <3>1, <3>2
  <2> HIDE DEF h
  <2> QED BY <2>4, <2>6 DEF Flat
<1> HIDE DEF P
<1>3. T = Nat
  <2>1. T \in SUBSET Nat /\ 0 \in T
    BY <1>1
  <2>2. ASSUME NEW m \in T PROVE m + 1 \in T
    BY <1>2
  <2> HIDE DEF T
  <2> QED BY <2>1, <2>2, Induct
<1>4. P(n)
  BY <1>3
<1> QED BY <1>4 DEF P

\* Two functions agree on 1 .. m.
Agree(s, t, m) == \A i \in 1 .. m : s[i] = t[i]

\* It depends on the elements of the prefix only, so that there is one.
LEMMA FlatAgree ==
  ASSUME NEW s, NEW t, NEW n \in Nat, NEW m \in Nat, m <= n, Agree(s, t, m),
         NEW g, Flat(g, s, n), NEW h, Flat(h, t, m)
  PROVE Agree(g, h, m)
<1> DEFINE T == {i \in Nat : i + 1 <= m => g[i + 1] = h[i + 1]}
<1>0. \A i \in 1 .. m : s[i] = t[i]
  BY DEF Agree
<1>1. \A i \in 1 .. n : g[i] = IF i = 1 THEN s[i] ELSE g[i - 1] \o s[i]
  BY DEF Flat
<1>2. \A i \in 1 .. m : h[i] = IF i = 1 THEN t[i] ELSE h[i - 1] \o t[i]
  BY DEF Flat
<1>3. 0 \in T
  <2> SUFFICES ASSUME 1 <= m PROVE g[1] = h[1]
    OBVIOUS
  <2>1. 1 \in 1 .. n /\ 1 \in 1 .. m
    OBVIOUS
  <2> QED BY <1>0, <1>1, <1>2, <2>1
<1>4. ASSUME NEW i \in T PROVE i + 1 \in T
  <2>0. i \in Nat
    OBVIOUS
  <2> SUFFICES ASSUME i + 2 <= m PROVE g[i + 2] = h[i + 2]
    BY <2>0
  <2> DEFINE j == i + 2
  <2>1. j \in 1 .. n /\ j \in 1 .. m /\ j # 1 /\ j - 1 = i + 1 /\ i + 1 <= m
    BY <2>0
  <2>2. g[i + 1] = h[i + 1]
    BY <2>1
  <2> HIDE DEF j, T
  <2>3. g[j] = h[j]
    BY <1>0, <1>1, <1>2, <2>1, <2>2
  <2> QED BY <2>3 DEF j
<1>5. T = Nat
  <2> HIDE DEF T
  <2>1. T \in SUBSET Nat
    BY DEF T
  <2> QED BY <1>3, <1>4, <2>1, Induct
<1>6. ASSUME NEW i \in 1 .. m PROVE g[i] = h[i]
  <2>1. i - 1 \in Nat /\ (i - 1) + 1 = i
    OBVIOUS
  <2>2. i - 1 \in T
    BY <1>5, <2>1
  <2> QED BY <2>1, <2>2
<1> QED BY <1>6 DEF Agree

\* What the library's FlattenSeq is: the value of that function at the last element.
LEMMA FlattenIs ==
  ASSUME NEW s, Len(s) \in Nat \ {0}
  PROVE FlattenSeq(s) = (CHOOSE g : Flat(g, s, Len(s)))[Len(s)]
  BY Zenon DEF FlattenSeq, Flat

\* Any such function will do.
LEMMA FlattenLast ==
  ASSUME NEW s, Len(s) \in Nat \ {0}, NEW g, Flat(g, s, Len(s))
  PROVE FlattenSeq(s) = g[Len(s)]
<1> DEFINE n == Len(s)
           h == CHOOSE k : Flat(k, s, n)
<1>1. Flat(h, s, n)
  OBVIOUS
<1>2. FlattenSeq(s) = h[n]
  BY FlattenIs
<1> HIDE DEF h, n
<1>3. h[n] = g[n]
  <2>1. n \in Nat /\ n \in 1 .. n /\ n <= n /\ Flat(g, s, n)
    BY DEF n
  <2>2. Agree(s, s, n)
    BY DEF Agree
  <2>3. Agree(h, g, n)
    BY <1>1, <2>1, <2>2, FlatAgree
  <2> QED BY <2>1, <2>3 DEF Agree
<1> QED BY <1>2, <1>3 DEF n

\* Nothing, flattened.
LEMMA FlattenEmpty == FlattenSeq(<<>>) = <<>>
  BY DEF FlattenSeq

\* The elements of a flattened sequence are those of its elements.
LEMMA FlattenType ==
  ASSUME NEW X, NEW s \in Seq(Seq(X))
  PROVE FlattenSeq(s) \in Seq(X)
<1>1. CASE s = <<>>
  <2>1. <<>> \in Seq(X)
    BY EmptySeq
  <2> QED BY <1>1, <2>1, FlattenEmpty, Zenon
<1>2. CASE s # <<>>
  <2>1. Len(s) \in Nat \ {0} /\ Len(s) \in 0 .. Len(s)
    BY <1>2, EmptySeq
  <2>2. PICK g \in [1 .. Len(s) -> Seq(X)] : Flat(g, s, Len(s))
    BY FlatExists, <2>1
  <2>3. g[Len(s)] \in Seq(X)
    <3>1. Len(s) \in 1 .. Len(s)
      BY <2>1
    <3> QED BY <3>1, <2>2, Zenon
  <2> QED BY <2>1, <2>2, <2>3, FlattenLast
<1> QED BY <1>1, <1>2

\* FlattenSeq of one element more.
LEMMA FlattenAppend ==
  ASSUME NEW X, NEW s \in Seq(Seq(X)), NEW e \in Seq(X)
  PROVE FlattenSeq(Append(s, e)) = FlattenSeq(s) \o e
<1> DEFINE t == Append(s, e)
           n == Len(s)
<1>1. t \in Seq(Seq(X)) /\ Len(t) = n + 1 /\ n \in Nat
  OBVIOUS
<1>3. t[n + 1] = e /\ \A i \in 1 .. n : t[i] = s[i]
  OBVIOUS
<1> HIDE DEF t, n
<1>2. PICK h \in [1 .. n + 1 -> Seq(X)] : Flat(h, t, n + 1)
  <2>1. n + 1 \in 0 .. Len(t)
    BY <1>1
  <2> QED BY <1>1, <2>1, FlatExists
<1>4. FlattenSeq(t) = h[n + 1]
  <2>1. Len(t) \in Nat \ {0} /\ Flat(h, t, Len(t))
    BY <1>1, <1>2
  <2>2. FlattenSeq(t) = h[Len(t)]
    BY <2>1, FlattenLast
  <2> QED BY <2>2, <1>1
<1>5. h[n + 1] = IF n + 1 = 1 THEN t[n + 1] ELSE h[n] \o t[n + 1]
  <2>1. n + 1 \in 1 .. n + 1 /\ (n + 1) - 1 = n
    BY <1>1
  <2> QED BY <2>1, <1>2 DEF Flat
<1>6. CASE n = 0
  <2>1. s = <<>>
    BY <1>6, EmptySeq DEF n
  <2>2. h[n + 1] = e
    BY <1>3, <1>5, <1>6
  <2>3. FlattenSeq(s) = <<>>
    BY <2>1, FlattenEmpty
  <2>4. <<>> \o e = e
    BY ConcatEmptySeq
  <2> QED BY <2>2, <2>3, <2>4, <1>4 DEF t
<1>7. CASE n # 0
  <2>0. n \in 0 .. Len(s) /\ n = Len(s) /\ Len(s) \in Nat \ {0}
    BY <1>1, <1>7 DEF n
  <2>1. PICK g \in [1 .. n -> Seq(X)] : Flat(g, s, n)
    BY <2>0, FlatExists
  <2>2. h[n] = g[n]
    <3>1. n \in Nat /\ n + 1 \in Nat /\ n <= n + 1 /\ n \in 1 .. n
      BY <1>1, <1>7
    <3>2. Agree(t, s, n)
      BY <1>3 DEF Agree
    <3>3. Agree(h, g, n)
      BY <1>2, <2>1, <3>1, <3>2, FlatAgree
    <3> QED BY <3>1, <3>3 DEF Agree
  <2>3. FlattenSeq(s) = g[n]
    BY <2>0, <2>1, FlattenLast
  <2>4. n + 1 # 1
    BY <1>1, <1>7
  <2> QED BY <2>2, <2>3, <2>4, <1>3, <1>4, <1>5 DEF t
<1> QED BY <1>6, <1>7
-----------------------------------------------------------------------------
(* FoldLeft *)

\* The library's fold over 1 .. n takes the largest index first.
LEMMA MaxIs ==
  ASSUME NEW n \in Nat, NEW s \in SUBSET (1 .. n), n \in s PROVE Max(s) = n
<1>1. \A y \in s : n >= y
  OBVIOUS
<1>2. \A x \in s : (\A y \in s : x >= y) => x = n
  OBVIOUS
<1>3. Max(s) \in s /\ \A y \in s : Max(s) >= y
  BY <1>1 DEF Max
<1> QED BY <1>2, <1>3

\* The largest of some of these indices is one of them.
LEMMA MaxIn ==
  ASSUME NEW n \in Nat, NEW s \in SUBSET (1 .. n), s # {}
  PROVE  Max(s) \in s
<1> DEFINE T == {m \in Nat : \A r \in SUBSET (1 .. m) :
                                r # {} => \E x \in r : \A y \in r : x >= y}
<1>1. 0 \in T
  <2>1. 1 .. 0 = {}
    OBVIOUS
  <2> QED BY <2>1
<1>2. ASSUME NEW m \in T PROVE m + 1 \in T
  <2>1. m \in Nat /\ \A r \in SUBSET (1 .. m) : r # {} => \E x \in r : \A y \in r : x >= y
    OBVIOUS
  <2> HIDE DEF T
  <2>2. SUFFICES ASSUME NEW r \in SUBSET (1 .. m + 1), r # {}
                 PROVE  \E x \in r : \A y \in r : x >= y
    BY <2>1 DEF T
  <2>3. CASE m + 1 \in r
    BY <2>1, <2>3
  <2>4. CASE m + 1 \notin r
    <3>1. r \in SUBSET (1 .. m)
      BY <2>1, <2>4
    <3> QED BY <2>1, <2>2, <3>1
  <2> QED BY <2>3, <2>4
<1>3. T = Nat
  <2>1. T \in SUBSET Nat
    OBVIOUS
  <2> HIDE DEF T
  <2> QED BY <1>1, <1>2, <2>1, Induct
<1>4. \E x \in s : \A y \in s : x >= y
  BY <1>3
<1> QED BY <1>4 DEF Max

\* g[s] is what a fold of the elements with indices in s makes of base: f takes it
\* one element further, the one with the largest of these indices.
Folded(g, f, base, n) ==
  g = [s \in SUBSET (1 .. n) |-> IF s = {} THEN base ELSE f[<<g[s \ {Max(s)}], Max(s)>>]]

\* There is such a function, for every step f on a set of values.
LEMMA FoldExists ==
  ASSUME NEW S, NEW base \in S, NEW N \in Nat, NEW f \in [S \X (1 .. N) -> S], NEW n \in 0 .. N
  PROVE  \E g \in [SUBSET (1 .. n) -> S] : Folded(g, f, base, n)
<1> DEFINE P(m) == \E g \in [SUBSET (1 .. m) -> S] : Folded(g, f, base, m)
           T == {m \in Nat : m <= N => P(m)}
<1>1. P(0)
  <2> DEFINE g == [s \in SUBSET (1 .. 0) |-> base]
  <2>1. g \in [SUBSET (1 .. 0) -> S]
    OBVIOUS
  <2>2. \A s \in SUBSET (1 .. 0) : s = {}
    OBVIOUS
  <2>3. Folded(g, f, base, 0)
    BY <2>2 DEF Folded
  <2> QED BY <2>1, <2>3
<1>2. ASSUME NEW m \in Nat, P(m), m + 1 <= N PROVE P(m + 1)
  <2>1. PICK g \in [SUBSET (1 .. m) -> S] : Folded(g, f, base, m)
    BY <1>2
  <2> DEFINE k == m + 1
             V(h, s) == IF s = {} THEN base ELSE f[<<h[s \ {Max(s)}], Max(s)>>]
             h == [s \in SUBSET (1 .. k) |-> IF k \in s THEN f[<<g[s \ {k}], k>>] ELSE g[s]]
  <2>2. k \in 1 .. N /\ k \in Nat /\ k > 0
    BY <1>2
  <2>3. ASSUME NEW s \in SUBSET (1 .. k) PROVE s \ {k} \in SUBSET (1 .. m)
    <3>1. \A i \in 1 .. k : i = k \/ i \in 1 .. m
      OBVIOUS
    <3> HIDE DEF k
    <3> QED BY <3>1
  <2>4. \A s \in SUBSET (1 .. k) : k \notin s => s \in SUBSET (1 .. m)
    OBVIOUS
  <2>a. \A s \in SUBSET (1 .. m) : s \in SUBSET (1 .. k) /\ k \notin s
    OBVIOUS
  <2> HIDE DEF k
  <2>b. \A s \in SUBSET (1 .. k) : f[<<g[s \ {k}], k>>] \in S
    BY <2>2, <2>3
  <2>5. h \in [SUBSET (1 .. k) -> S]
    BY <2>4, <2>b
  <2>6. \A s \in SUBSET (1 .. m) : h[s] = g[s]
    BY <2>a
  <2>7. \A s \in SUBSET (1 .. m) : g[s] = V(g, s)
    BY <2>1 DEF Folded
  <2>8. ASSUME NEW s \in SUBSET (1 .. k) PROVE h[s] = V(h, s)
    <3>1. CASE k \in s
      <4>1. Max(s) = k
        BY <2>2, <3>1, MaxIs
      <4>2. h[s] = f[<<g[s \ {k}], k>>]
        BY <3>1
      <4>3. h[s \ {k}] = g[s \ {k}]
        BY <2>3, <2>6
      <4> HIDE DEF h
      <4> QED BY <3>1, <4>1, <4>2, <4>3
    <3>2. CASE k \notin s
      <4>1. s \in SUBSET (1 .. m) /\ s \ {Max(s)} \in SUBSET (1 .. m)
        BY <3>2, <2>4
      <4>2. h[s] = g[s] /\ h[s \ {Max(s)}] = g[s \ {Max(s)}]
        BY <2>6, <4>1
      <4> HIDE DEF h
      <4> QED BY <4>1, <4>2, <2>7
    <3> QED BY <3>1, <3>2
  <2> HIDE DEF h
  <2>9. h = [s \in SUBSET (1 .. k) |-> V(h, s)]
    BY <2>5, <2>8
  <2>10. Folded(h, f, base, k)
    BY <2>9 DEF Folded
  <2> QED BY <2>5, <2>10 DEF k
<1> HIDE DEF P
<1>3. T = Nat
  <2>1. T \in SUBSET Nat /\ 0 \in T
    BY <1>1
  <2>2. ASSUME NEW m \in T PROVE m + 1 \in T
    BY <1>2
  <2> HIDE DEF T
  <2> QED BY <2>1, <2>2, Induct
<1>4. P(n)
  BY <1>3
<1> QED BY <1>4 DEF P

\* The sets of indices that a fold meets are the prefixes.
LEMMA PrefixStep ==
  ASSUME NEW n \in Nat, NEW k \in 1 .. n
  PROVE  /\ 1 .. k \in SUBSET (1 .. n)
         /\ 1 .. k # {}
         /\ Max(1 .. k) = k
         /\ (1 .. k) \ {Max(1 .. k)} = 1 .. k - 1
<1>1. 1 .. k \in SUBSET (1 .. n) /\ k \in 1 .. k /\ k \in Nat /\ 1 .. k \in SUBSET (1 .. k)
  OBVIOUS
<1>2. Max(1 .. k) = k
  BY <1>1, MaxIs
<1>3. (1 .. k) \ {k} = 1 .. k - 1
  OBVIOUS
<1> QED BY <1>1, <1>2, <1>3

\* The same of the prefixes only: from a value in S, f is the step.
Steps(h, f, S, n) ==
  \A k \in 1 .. n : h[1 .. k - 1] \in S => h[1 .. k] = f[<<h[1 .. k - 1], k>>]

\* A run of f from base, in S, to v.
RunTo(r, f, base, S, n, v) ==
  /\ r \in [0 .. n -> S]
  /\ r[0] = base
  /\ \A k \in 1 .. n : r[k] = f[<<r[k - 1], k>>]
  /\ r[n] = v

\* The values of a fold for the prefixes are a run.
LEMMA FoldRun ==
  ASSUME NEW S, NEW base \in S, NEW n \in Nat, NEW f \in [S \X (1 .. n) -> S], NEW h,
         h[{}] = base, Steps(h, f, S, n)
  PROVE  \E r : RunTo(r, f, base, S, n, h[1 .. n])
<1> DEFINE r == [k \in 0 .. n |-> h[1 .. k]]
           T == {k \in Nat : k <= n => h[1 .. k] \in S}
<1>1. 0 \in T
  <2>1. 1 .. 0 = {}
    OBVIOUS
  <2> QED BY <2>1
<1>2. ASSUME NEW k \in T PROVE k + 1 \in T
  <2>1. k \in Nat
    OBVIOUS
  <2> SUFFICES ASSUME k + 1 <= n PROVE h[1 .. k + 1] \in S
    BY <2>1
  <2>2. k + 1 \in 1 .. n /\ (k + 1) - 1 = k /\ h[1 .. k] \in S
    BY <2>1
  <2>3. h[1 .. k + 1] = f[<<h[1 .. k], k + 1>>]
    BY <2>2 DEF Steps
  <2> QED BY <2>2, <2>3
<1>3. T = Nat
  <2>1. T \in SUBSET Nat
    OBVIOUS
  <2> HIDE DEF T
  <2> QED BY <1>1, <1>2, <2>1, Induct
<1>4. \A k \in 0 .. n : h[1 .. k] \in S
  BY <1>3
<1>5. r \in [0 .. n -> S]
  BY <1>4
<1>6. r[0] = base
  <2>1. 1 .. 0 = {} /\ 0 \in 0 .. n
    OBVIOUS
  <2> QED BY <2>1
<1>7. ASSUME NEW k \in 1 .. n PROVE r[k] = f[<<r[k - 1], k>>]
  <2>1. k \in 0 .. n /\ k - 1 \in 0 .. n
    OBVIOUS
  <2> QED BY <2>1, <1>4 DEF Steps
<1>8. r[n] = h[1 .. n]
  OBVIOUS
<1> HIDE DEF r
<1> QED BY <1>5, <1>6, <1>7, <1>8 DEF RunTo

=============================================================================
