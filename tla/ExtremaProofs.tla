--------------------------- MODULE ExtremaProofs ----------------------------
(***************************************************************************)
(* That the largest and smallest elements the code asks for exist: the     *)
(* maximum a flush takes over the generations of the dirty rows, the first *)
(* object it uploads, the superblock with the highest generation, the ends *)
(* of a merged range; and what a concatenation of many sequences holds:    *)
(* the leaves of a manifest tree, the packets of a connection.             *)
(***************************************************************************)
EXTENDS SequencesExt, FiniteSetTheorems, NaturalsInduction, WellFoundedInduction, TLAPS

\* A number attached to each element of a finite set has a largest value there.
LEMMA ArgMax ==
  ASSUME NEW S, IsFiniteSet(S), S # {}, NEW f \in [S -> Int]
  PROVE  \E x \in S : \A y \in S : f[y] <= f[x]
<1> DEFINE Above(x) == {y \in S : f[y] > f[x]}
           T == {Above(x) : x \in S}
           R == StrictSubsetOrdering(S)
<1>1. IsWellFoundedOn(R, FiniteSubsetsOf(S))
  BY FS_StrictSubsetOrderingWellFounded
<1>2. T \subseteq FiniteSubsetsOf(S) /\ T # {}
  <2>1. FiniteSubsetsOf(S) = SUBSET S
    BY FS_FiniteSubsetsOfFinite
  <2>2. \A x \in S : Above(x) \in SUBSET S
    OBVIOUS
  <2>3. T # {}
    <3>1. PICK x : x \in S
      OBVIOUS
    <3>2. Above(x) \in T
      BY <3>1
    <3> QED BY <3>2
  <2>4. T \subseteq SUBSET S
    <3> HIDE DEF Above
    <3> QED BY <2>2
  <2> QED BY <2>1, <2>3, <2>4
<1>3. PICK A \in T : \A B \in T : ~(<<B, A>> \in R)
  <2> HIDE DEF R, T
  <2> QED BY <1>1, <1>2, WFMin
<1>4. PICK x \in S : A = Above(x)
  OBVIOUS
<1>5. \A y \in S : ~(f[y] > f[x])
  <2> SUFFICES ASSUME NEW y \in S, f[y] > f[x] PROVE FALSE
    OBVIOUS
  <2>1. Above(y) \subseteq Above(x) /\ y \in Above(x) /\ y \notin Above(y)
    OBVIOUS
  <2>2. <<Above(y), Above(x)>> \in R
    BY <2>1 DEF StrictSubsetOrdering
  <2> QED BY <2>2, <1>3, <1>4
<1> QED BY <1>5

\* Max of a finite set of integers is its largest element.
LEMMA MaxIsLargest ==
  ASSUME NEW S \in SUBSET Int, IsFiniteSet(S), S # {}
  PROVE  Max(S) \in S /\ \A y \in S : y <= Max(S)
<1> DEFINE f == [x \in S |-> x]
<1>1. f \in [S -> Int]
  OBVIOUS
<1>2. PICK x \in S : \A y \in S : f[y] <= f[x]
  <2> HIDE DEF f
  <2> QED BY <1>1, ArgMax
<1>3. \A y \in S : x >= y
  BY <1>2
<1> QED BY <1>3 DEF Max

\* Min of a finite set of integers is its smallest element.
LEMMA MinIsSmallest ==
  ASSUME NEW S \in SUBSET Int, IsFiniteSet(S), S # {}
  PROVE  Min(S) \in S /\ \A y \in S : Min(S) <= y
<1> DEFINE f == [x \in S |-> 0 - x]
<1>1. f \in [S -> Int]
  OBVIOUS
<1>2. PICK x \in S : \A y \in S : f[y] <= f[x]
  <2> HIDE DEF f
  <2> QED BY <1>1, ArgMax
<1>3. \A y \in S : x =< y
  BY <1>2
<1> QED BY <1>3 DEF Min

\* The values a function takes on a finite set form a finite set.
LEMMA FiniteImage ==
  ASSUME NEW S, IsFiniteSet(S), NEW T, NEW f \in [S -> T]
  PROVE  IsFiniteSet({f[x] : x \in S})
<1> DEFINE U == {f[x] : x \in S}
<1>1. f \in Surjection(S, U)
  BY DEF Surjection
<1> HIDE DEF U
<1>2. IsFiniteSet(U)
  BY <1>1, FS_Surjection
<1> QED BY <1>2 DEF U

(* Sequences of sequences *)

\* Induction, with a set for what is shown of every number.
LEMMA SetInduction ==
  ASSUME NEW S, 0 \in S, \A n \in Nat : n \in S => n + 1 \in S
  PROVE  \A n \in Nat : n \in S
<1> SUFFICES ASSUME NEW m \in Nat, m \notin S PROVE FALSE
  OBVIOUS
<1> DEFINE Out == {n \in Nat : n \notin S}
           R == OpToRel(<, Nat)
<1>1. PICK n \in Out : \A k \in Out : ~(<<k, n>> \in R)
  <2>1. Out # {} /\ Out \subseteq Nat
    OBVIOUS
  <2> HIDE DEF Out, R
  <2>2. IsWellFoundedOn(R, Nat)
    BY NatLessThanWellFounded DEF R
  <2> QED BY <2>1, <2>2, WFMin
<1>2. n # 0 /\ n - 1 \in Nat /\ n - 1 + 1 = n
  OBVIOUS
<1>3. n - 1 \in Out
  BY <1>2
<1>4. <<n - 1, n>> \in R
  BY <1>2 DEF OpToRel
<1> QED BY <1>1, <1>3, <1>4

\* The recursion of FlattenSeq has a solution.
LEMMA FlattenDefined ==
  ASSUME NEW s, Len(s) \in Nat
  PROVE  \E f : f = [i \in 1 .. Len(s) |-> IF i = 1 THEN s[i] ELSE f[i - 1] \o s[i]]
<1> DEFINE Solves(n, f) == f = [i \in 1 .. n |-> IF i = 1 THEN s[i] ELSE f[i - 1] \o s[i]]
           S == {n \in Nat : \E f : Solves(n, f)}
<1>1. 0 \in S
  <2>1. Solves(0, [i \in 1 .. 0 |-> 0])
    OBVIOUS
  <2> HIDE DEF Solves
  <2> QED BY <2>1
<1>2. ASSUME NEW n \in Nat, n \in S PROVE n + 1 \in S
  <2>1. PICK f : Solves(n, f)
    BY <1>2
  <2> DEFINE last == IF n = 0 THEN s[1] ELSE f[n] \o s[n + 1]
             g == [i \in 1 .. n + 1 |-> IF i <= n THEN f[i] ELSE last]
  <2>2. ASSUME NEW i \in 1 .. n + 1
        PROVE  g[i] = IF i = 1 THEN s[i] ELSE g[i - 1] \o s[i]
    <3> HIDE DEF last
    <3>1. CASE i <= n
      <4>1. g[i] = f[i] /\ (i # 1 => g[i - 1] = f[i - 1])
        BY <3>1
      <4>2. f[i] = IF i = 1 THEN s[i] ELSE f[i - 1] \o s[i]
        <5> DEFINE e == [j \in 1 .. n |-> IF j = 1 THEN s[j] ELSE f[j - 1] \o s[j]]
        <5>1. e[i] = IF i = 1 THEN s[i] ELSE f[i - 1] \o s[i]
          BY <3>1
        <5>2. f = e
          BY <2>1
        <5> HIDE DEF e
        <5> QED BY <5>1, <5>2
      <4> HIDE DEF g, Solves
      <4> QED BY <4>1, <4>2
    <3>2. CASE i = n + 1
      <4>1. g[i] = last /\ (i # 1 => g[i - 1] = f[n] /\ n # 0) /\ (i = 1 => n = 0)
        BY <3>2
      <4> HIDE DEF g, Solves
      <4> QED BY <3>2, <4>1 DEF last
    <3> QED BY <3>1, <3>2
  <2>3. Solves(n + 1, g)
    <3>1. g = [i \in 1 .. n + 1 |-> g[i]]
      OBVIOUS
    <3> HIDE DEF g
    <3> QED BY <2>2, <3>1
  <2> HIDE DEF Solves, g
  <2> QED BY <2>3
<1>3. Len(s) \in S
  <2> HIDE DEF S
  <2> QED BY <1>1, <1>2, SetInduction
<1> QED BY <1>3

\* FlattenSeq by that recursion.
LEMMA FlattenIs ==
  ASSUME NEW s, Len(s) \in Nat, Len(s) # 0
  PROVE  \E f : /\ f = [i \in 1 .. Len(s) |-> IF i = 1 THEN s[i] ELSE f[i - 1] \o s[i]]
                /\ FlattenSeq(s) = f[Len(s)]
<1> DEFINE C == CHOOSE f : f = [i \in 1 .. Len(s) |-> IF i = 1 THEN s[i] ELSE f[i - 1] \o s[i]]
<1>1. \E f : f = [i \in 1 .. Len(s) |-> IF i = 1 THEN s[i] ELSE f[i - 1] \o s[i]]
  BY FlattenDefined
<1>2. C = [i \in 1 .. Len(s) |-> IF i = 1 THEN s[i] ELSE C[i - 1] \o s[i]]
  BY <1>1, Zenon
<1>3. FlattenSeq(s) = C[Len(s)]
  BY Zenon DEF FlattenSeq
<1> HIDE DEF C
<1> QED BY <1>2, <1>3, Zenon

\* What is where in a concatenation.
LEMMA Concatenated ==
  ASSUME NEW T, NEW x \in Seq(T), NEW y \in Seq(T)
  PROVE  /\ x \o y \in Seq(T)
         /\ Len(x \o y) = Len(x) + Len(y)
         /\ \A i \in 1 .. Len(x) : (x \o y)[i] = x[i]
         /\ \A k \in 1 .. Len(y) : (x \o y)[Len(x) + k] = y[k]
<1>1. x \o y \in Seq(T) /\ Len(x \o y) = Len(x) + Len(y)
  OBVIOUS
<1>2. ASSUME NEW i \in 1 .. Len(x) PROVE (x \o y)[i] = x[i]
  OBVIOUS
<1>3. ASSUME NEW k \in 1 .. Len(y) PROVE (x \o y)[Len(x) + k] = y[k]
  <2>1. Len(x) + k \in 1 .. Len(x) + Len(y) /\ Len(x) + k > Len(x) /\ Len(x) + k - Len(x) = k
    OBVIOUS
  <2> QED BY <2>1
<1> QED BY <1>1, <1>2, <1>3

\* b[h] elements come from the first h sequences.
Bases(s, b) ==
  /\ b \in [0 .. Len(s) -> Nat]
  /\ b[0] = 0
  /\ \A h \in 1 .. Len(s) : b[h] = b[h - 1] + Len(s[h])

\* Where the elements of the sequences are in the flat one.
LEMMA Flattened ==
  ASSUME NEW T, NEW s \in Seq(Seq(T))
  PROVE  /\ FlattenSeq(s) \in Seq(T)
         /\ \E b : /\ Bases(s, b)
                   /\ b[Len(s)] = Len(FlattenSeq(s))
                   /\ \A h \in 1 .. Len(s) : \A k \in 1 .. Len(s[h]) :
                        FlattenSeq(s)[b[h - 1] + k] = s[h][k]
<1> DEFINE n == Len(s)
<1>0. n \in Nat /\ \A h \in 1 .. n : s[h] \in Seq(T) /\ Len(s[h]) \in Nat
  OBVIOUS
<1>1. CASE n = 0
  <2>1. s = <<>> /\ FlattenSeq(s) = <<>>
    BY <1>1 DEF FlattenSeq
  <2> DEFINE b == [h \in 0 .. 0 |-> 0]
  <2>2. Bases(s, b) /\ b[Len(s)] = Len(FlattenSeq(s))
    BY <1>1, <2>1 DEF Bases
  <2>3. FlattenSeq(s) \in Seq(T)
    <3>1. <<>> \in Seq(T)
      OBVIOUS
    <3> QED BY <2>1, <3>1, Zenon
  <2>4. \A h \in 1 .. Len(s) : FALSE
    BY <1>1
  <2> HIDE DEF b
  <2> QED BY <2>2, <2>3, <2>4
<1>2. CASE n # 0
  <2>1. PICK f : /\ f = [i \in 1 .. n |-> IF i = 1 THEN s[i] ELSE f[i - 1] \o s[i]]
                 /\ FlattenSeq(s) = f[n]
    BY <1>0, <1>2, FlattenIs
  <2>2. ASSUME NEW i \in 1 .. n
        PROVE  f[i] = IF i = 1 THEN s[i] ELSE f[i - 1] \o s[i]
    <3> DEFINE e == [j \in 1 .. n |-> IF j = 1 THEN s[j] ELSE f[j - 1] \o s[j]]
    <3>1. e[i] = IF i = 1 THEN s[i] ELSE f[i - 1] \o s[i]
      OBVIOUS
    <3>2. f = e
      BY <2>1
    <3> HIDE DEF e
    <3> QED BY <3>1, <3>2
  <2> HIDE DEF n
  <2>3. \A i \in 1 .. n : f[i] \in Seq(T)
    <3> DEFINE S == {i \in Nat : i \in 1 .. n => f[i] \in Seq(T)}
    <3>1. 0 \in S
      BY <1>0
    <3>2. ASSUME NEW i \in Nat, i \in S PROVE i + 1 \in S
      <4> SUFFICES ASSUME i + 1 \in 1 .. n PROVE f[i + 1] \in Seq(T)
        OBVIOUS
      <4>1. f[i + 1] = IF i + 1 = 1 THEN s[i + 1] ELSE f[i + 1 - 1] \o s[i + 1]
        BY <2>2
      <4>2. s[i + 1] \in Seq(T) /\ i + 1 - 1 = i /\ (i + 1 # 1 => i \in 1 .. n)
        BY <1>0
      <4> QED BY <3>2, <4>1, <4>2
    <3> HIDE DEF S
    <3>3. \A i \in Nat : i \in S
      BY <3>1, <3>2, SetInduction
    <3> QED BY <1>0, <3>3 DEF S
  <2> DEFINE b == [h \in 0 .. n |-> IF h = 0 THEN 0 ELSE Len(f[h])]
  <2>4. ASSUME NEW h \in 1 .. n
        PROVE  /\ b[h] = b[h - 1] + Len(s[h]) /\ b[h - 1] \in Nat /\ b[h] = Len(f[h])
               /\ \A k \in 1 .. Len(s[h]) : f[h][b[h - 1] + k] = s[h][k]
    <3>1. h \in 0 .. n /\ h - 1 \in 0 .. n /\ (h # 1 => h - 1 \in 1 .. n) /\ h # 0
      BY <1>0
    <3>2. b[h] = Len(f[h])
      BY <3>1
    <3>3. CASE h = 1
      <4>1. b[h - 1] = 0 /\ f[h] = s[h]
        BY <2>2, <3>3, <1>0
      <4> HIDE DEF b
      <4> QED BY <3>2, <4>1, <1>0
    <3>4. CASE h # 1
      <4>1. b[h - 1] = Len(f[h - 1])
        BY <3>1, <3>4
      <4>2. f[h] = f[h - 1] \o s[h] /\ f[h - 1] \in Seq(T) /\ s[h] \in Seq(T)
        BY <2>2, <2>3, <3>1, <3>4, <1>0
      <4>3. /\ Len(f[h]) = Len(f[h - 1]) + Len(s[h]) /\ Len(f[h - 1]) \in Nat
            /\ \A k \in 1 .. Len(s[h]) : f[h][Len(f[h - 1]) + k] = s[h][k]
        <5> DEFINE x == f[h - 1]  y == s[h]
        <5> HIDE DEF x, y
        <5>1. x \in Seq(T) /\ y \in Seq(T)
          BY <4>2 DEF x, y
        <5>2. /\ Len(x \o y) = Len(x) + Len(y) /\ Len(x) \in Nat
              /\ \A k \in 1 .. Len(y) : (x \o y)[Len(x) + k] = y[k]
          BY <5>1, Concatenated
        <5> QED BY <4>2, <5>2, Zenon DEF x, y
      <4> HIDE DEF b
      <4> QED BY <3>2, <4>1, <4>3
    <3> QED BY <3>3, <3>4
  <2>5. Bases(s, b)
    <3>1. b \in [0 .. n -> Nat]
      BY <2>3, <1>0
    <3>2. b[0] = 0
      BY <1>0
    <3> HIDE DEF b
    <3> QED BY <2>4, <3>1, <3>2 DEF Bases, n
  <2>6. ASSUME NEW h \in 1 .. n
        PROVE  \A x \in 1 .. Len(f[h]) : f[n][x] = f[h][x]
    <3> DEFINE S == {d \in Nat : h + d \in 1 .. n =>
                                   /\ Len(f[h]) <= Len(f[h + d])
                                   /\ \A x \in 1 .. Len(f[h]) : f[h + d][x] = f[h][x]}
    <3>0. f[h] \in Seq(T) /\ Len(f[h]) \in Nat
      BY <2>3
    <3>1. 0 \in S
      <4>1. h + 0 = h
        BY <1>0
      <4> QED BY <3>0, <4>1
    <3>2. ASSUME NEW d \in Nat, d \in S PROVE d + 1 \in S
      <4> SUFFICES ASSUME h + (d + 1) \in 1 .. n
                   PROVE  /\ Len(f[h]) <= Len(f[h + (d + 1)])
                          /\ \A x \in 1 .. Len(f[h]) : f[h + (d + 1)][x] = f[h][x]
        OBVIOUS
      <4>1. h + d \in 1 .. n /\ h + (d + 1) - 1 = h + d /\ h + (d + 1) # 1
        BY <1>0
      <4>2. f[h + (d + 1)] = f[h + d] \o s[h + (d + 1)]
        <5> DEFINE m == h + (d + 1)
        <5>1. m \in 1 .. n /\ m # 1 /\ m - 1 = h + d
          BY <4>1
        <5> HIDE DEF m
        <5>2. f[m] = f[m - 1] \o s[m]
          BY <2>2, <5>1
        <5>3. f[m] = f[h + d] \o s[m]
          BY <5>1, <5>2
        <5> QED BY <5>3 DEF m
      <4>3. f[h + d] \in Seq(T) /\ s[h + (d + 1)] \in Seq(T)
        BY <1>0, <2>3, <4>1
      <4>4. /\ Len(f[h]) <= Len(f[h + d])
            /\ \A x \in 1 .. Len(f[h]) : f[h + d][x] = f[h][x]
        BY <3>2, <4>1
      <4>5. /\ Len(f[h + d]) <= Len(f[h + (d + 1)])
            /\ \A x \in 1 .. Len(f[h + d]) : f[h + (d + 1)][x] = f[h + d][x]
        <5> DEFINE x == f[h + d]  y == s[h + (d + 1)]
        <5> HIDE DEF x, y
        <5>1. x \in Seq(T) /\ y \in Seq(T)
          BY <4>3 DEF x, y
        <5>2. Len(x) <= Len(x \o y) /\ \A i \in 1 .. Len(x) : (x \o y)[i] = x[i]
          BY <5>1, Concatenated
        <5> QED BY <4>2, <5>2, Zenon DEF x, y
      <4>6. Len(f[h + d]) \in Nat /\ Len(f[h + (d + 1)]) \in Nat
        BY <2>3, <4>1
      <4> HIDE DEF S
      <4> QED BY <3>0, <4>4, <4>5, <4>6
    <3> HIDE DEF S
    <3>3. \A d \in Nat : d \in S
      BY <3>1, <3>2, SetInduction
    <3>4. n - h \in Nat /\ h + (n - h) = n /\ n \in 1 .. n
      BY <1>0
    <3>5. n - h \in S
      BY <3>3, <3>4
    <3> QED BY <3>4, <3>5 DEF S
  <2>7. n \in 1 .. n /\ b[n] = Len(f[n]) /\ f[n] \in Seq(T)
    BY <1>0, <1>2, <2>3
  <2>8. ASSUME NEW h \in 1 .. n, NEW k \in 1 .. Len(s[h])
        PROVE  f[n][b[h - 1] + k] = s[h][k]
    <3>1. b[h - 1] + k \in 1 .. Len(f[h])
      <4> HIDE DEF b
      <4> QED BY <2>4, <1>0
    <3> HIDE DEF b
    <3> QED BY <2>4, <2>6, <3>1
  <2> HIDE DEF b
  <2>9. /\ Bases(s, b) /\ b[Len(s)] = Len(FlattenSeq(s))
        /\ \A h \in 1 .. Len(s) : \A k \in 1 .. Len(s[h]) :
             FlattenSeq(s)[b[h - 1] + k] = s[h][k]
    BY <2>1, <2>5, <2>7, <2>8 DEF n
  <2>10. FlattenSeq(s) \in Seq(T)
    BY <2>1, <2>7
  <2> QED BY <2>9, <2>10
<1> QED BY <1>1, <1>2

\* Both count the same elements.
LEMMA SameBases ==
  ASSUME NEW T, NEW s \in Seq(Seq(T)), NEW t \in Seq(Seq(T)), Len(t) <= Len(s),
         \A h \in 1 .. Len(t) : t[h] = s[h], NEW b, Bases(s, b), NEW a, Bases(t, a)
  PROVE  a[Len(t)] = b[Len(t)]
<1> DEFINE S == {h \in Nat : h <= Len(t) => a[h] = b[h]}
<1>0. Len(t) \in Nat /\ Len(s) \in Nat
  OBVIOUS
<1>1. 0 \in S
  BY DEF Bases
<1>2. ASSUME NEW h \in Nat, h \in S PROVE h + 1 \in S
  <2> SUFFICES ASSUME h + 1 <= Len(t) PROVE a[h + 1] = b[h + 1]
    OBVIOUS
  <2>1. h + 1 \in 1 .. Len(t) /\ h + 1 \in 1 .. Len(s) /\ h + 1 - 1 = h /\ h <= Len(t)
    BY <1>0
  <2>2. a[h + 1] = a[h + 1 - 1] + Len(t[h + 1]) /\ b[h + 1] = b[h + 1 - 1] + Len(s[h + 1])
    BY <2>1 DEF Bases
  <2> QED BY <1>2, <2>1, <2>2
<1> HIDE DEF S
<1>3. Len(t) \in S
  BY <1>0, <1>1, <1>2, SetInduction
<1> QED BY <1>0, <1>3 DEF S
=============================================================================
