--------------------------- MODULE SequenceLemmas ---------------------------
(***************************************************************************)
(* Sequences that are put together: what FlattenSeq returns, how counting  *)
(* in a prefix goes on, and the induction over numbers both rest on.       *)
(***************************************************************************)
EXTENDS Integers, Sequences, SequencesExt, WellFoundedInduction, SequenceTheorems, TLAPS

\* A set of natural numbers that is not empty has a least member.
LEMMA LeastMember ==
  ASSUME NEW S, S \subseteq Nat, S # {}
  PROVE  \E x \in S : \A y \in S : x <= y
<1>1. IsWellFoundedOn(OpToRel(<, Nat), Nat)
  BY NatLessThanWellFounded
<1>2. PICK x \in S : \A y \in S : ~(<<y, x>> \in OpToRel(<, Nat))
  BY <1>1, WFMin, Zenon
<1>3. ASSUME NEW y \in S PROVE x <= y
  <2>1. y \in Nat /\ x \in Nat
    OBVIOUS
  <2>2. ~(y < x)
    BY <1>2, <2>1 DEF OpToRel
  <2> QED
    BY <2>1, <2>2
<1> QED
  BY <1>3

\* Induction, over a set in place of a formula.
LEMMA SetInduction ==
  ASSUME NEW S, 0 \in S, \A n \in Nat : n \in S => n + 1 \in S
  PROVE  \A n \in Nat : n \in S
<1> DEFINE T == Nat \ S
<1> SUFFICES ASSUME T # {} PROVE FALSE
  OBVIOUS
<1>1. PICK x \in T : \A y \in T : x <= y
  BY LeastMember
<1>2. x \in Nat \ {0} /\ x - 1 \in Nat /\ x - 1 + 1 = x
  OBVIOUS
<1>3. x - 1 \notin T
  BY <1>1, <1>2
<1> QED
  BY <1>2, <1>3

-----------------------------------------------------------------------------
(* FlattenSeq.                                                             *)

\* g[i] is what the first i parts make.
Flattens(g, s, n, X) ==
  /\ g \in [1..n -> Seq(X)]
  /\ \A i \in 1..n : g[i] = IF i = 1 THEN s[i] ELSE g[i - 1] \o s[i]

\* The recursion goes one part further,
LEMMA FlattensOneMore ==
  ASSUME NEW X, NEW s \in Seq(Seq(X)), NEW n \in Nat, n + 1 <= Len(s), NEW g, Flattens(g, s, n, X)
  PROVE  \E f : Flattens(f, s, n + 1, X)
<1> DEFINE f == [i \in 1..(n + 1) |->
                   IF i <= n THEN g[i] ELSE IF n = 0 THEN s[1] ELSE g[n] \o s[n + 1]]
<1>1. \A i \in 1..Len(s) : s[i] \in Seq(X)
  OBVIOUS
<1>2. \A i \in 1..n : f[i] = g[i] /\ g[i] \in Seq(X)
  BY DEF Flattens
<1>3. f[n + 1] = IF n = 0 THEN s[1] ELSE g[n] \o s[n + 1]
  OBVIOUS
<1>4. f[n + 1] \in Seq(X)
  <2>1. CASE n = 0
    BY <1>1, <1>3, <2>1
  <2>2. CASE n # 0
    <3>1. n \in 1..n /\ n + 1 \in 1..Len(s)
      BY <2>2
    <3>2. g[n] \in Seq(X) /\ s[n + 1] \in Seq(X)
      BY <1>1, <1>2, <3>1
    <3>3. g[n] \o s[n + 1] \in Seq(X)
      BY <3>2, ConcatProperties
    <3> QED
      BY <1>3, <2>2, <3>3
  <2> QED
    BY <2>1, <2>2
<1>5. ASSUME NEW i \in 1..(n + 1)
      PROVE  f[i] \in Seq(X) /\ f[i] = IF i = 1 THEN s[i] ELSE f[i - 1] \o s[i]
  <2>1. CASE i = n + 1
    <3>1. CASE n = 0
      BY <1>3, <1>4, <2>1, <3>1
    <3>2. CASE n # 0
      <4>1. i # 1 /\ i - 1 = n /\ n \in 1..n
        BY <2>1, <3>2
      <4> QED
        BY <1>2, <1>3, <1>4, <2>1, <3>2, <4>1
    <3> QED
      BY <3>1, <3>2
  <2>2. CASE i # n + 1
    <3>1. i \in 1..n /\ (i # 1 => i - 1 \in 1..n)
      BY <2>2
    <3>2. g[i] = IF i = 1 THEN s[i] ELSE g[i - 1] \o s[i]
      BY <3>1 DEF Flattens
    <3> QED
      BY <1>2, <3>1, <3>2
  <2> QED
    BY <2>1, <2>2
<1>6. f \in [1..(n + 1) -> Seq(X)]
  BY <1>5
<1> HIDE DEF f
<1> QED
  BY <1>5, <1>6 DEF Flattens

\* so it reaches every part,
LEMMA FlattensExists ==
  ASSUME NEW X, NEW s \in Seq(Seq(X))
  PROVE  \A n \in Nat : n <= Len(s) => \E g : Flattens(g, s, n, X)
<1> DEFINE S == {n \in Nat : n <= Len(s) => \E g : Flattens(g, s, n, X)}
<1>1. 0 \in S
  <2>1. Flattens([i \in 1..0 |-> <<>>], s, 0, X)
    BY DEF Flattens
  <2> QED
    BY <2>1
<1>2. ASSUME NEW n \in Nat, n \in S PROVE n + 1 \in S
  <2> SUFFICES ASSUME n + 1 <= Len(s) PROVE \E g : Flattens(g, s, n + 1, X)
    OBVIOUS
  <2>1. n <= Len(s)
    OBVIOUS
  <2>2. PICK g : Flattens(g, s, n, X)
    BY <1>2, <2>1
  <2> QED
    BY <2>2, FlattensOneMore
<1> HIDE DEF S
<1>3. \A n \in Nat : n \in S
  BY <1>1, <1>2, SetInduction
<1> QED
  BY <1>3 DEF S

\* and in one way only.
LEMMA FlattensOnce ==
  ASSUME NEW X, NEW s, NEW n \in Nat, NEW m \in Nat, n <= m,
         NEW f, NEW g, Flattens(f, s, n, X), Flattens(g, s, m, X)
  PROVE  \A i \in 1..n : f[i] = g[i]
<1> DEFINE S == {i \in Nat : i \in 1..n => f[i] = g[i]}
<1>1. 0 \in S
  OBVIOUS
<1>2. ASSUME NEW i \in Nat, i \in S PROVE i + 1 \in S
  <2> SUFFICES ASSUME i + 1 \in 1..n PROVE f[i + 1] = g[i + 1]
    OBVIOUS
  <2>1. PICK j : j = i + 1 /\ j \in 1..n /\ j \in 1..m /\ j - 1 = i
    OBVIOUS
  <2>2. f[j] = IF j = 1 THEN s[j] ELSE f[j - 1] \o s[j]
    BY <2>1 DEF Flattens
  <2>3. g[j] = IF j = 1 THEN s[j] ELSE g[j - 1] \o s[j]
    BY <2>1 DEF Flattens
  <2>4. j # 1 => f[j - 1] = g[j - 1]
    BY <1>2, <2>1
  <2> QED
    BY <2>1, <2>2, <2>3, <2>4
<1> HIDE DEF S
<1>3. \A i \in Nat : i \in S
  BY <1>1, <1>2, SetInduction
<1> QED
  BY <1>3 DEF S

\* FlattenSeq is the last of these.
LEMMA FlattenSeqIs ==
  ASSUME NEW X, NEW s \in Seq(Seq(X))
  PROVE  /\ Len(s) = 0 => FlattenSeq(s) = <<>>
         /\ Len(s) # 0 => \E g : Flattens(g, s, Len(s), X) /\ FlattenSeq(s) = g[Len(s)]
<1>1. CASE Len(s) = 0
  BY <1>1 DEF FlattenSeq
<1>2. CASE Len(s) # 0
  <2> DEFINE Eq(f) == f = [i \in 1..Len(s) |-> IF i = 1 THEN s[i] ELSE f[i - 1] \o s[i]]
  <2>1. PICK g : Flattens(g, s, Len(s), X)
    BY FlattensExists
  <2>2. Eq(g)
    BY <2>1 DEF Flattens
  <2>3. Eq(CHOOSE f : Eq(f))
    BY <2>2, Zenon
  <2>4. FlattenSeq(s) = (CHOOSE f : Eq(f))[Len(s)]
    BY <1>2 DEF FlattenSeq
  <2>5. PICK f : f = (CHOOSE h : Eq(h))
    OBVIOUS
  <2> DEFINE S == {i \in Nat : i \in 1..Len(s) => f[i] = g[i]}
  <2>6. Eq(f)
    BY <2>3, <2>5
  <2>7. 0 \in S
    OBVIOUS
  <2>8. ASSUME NEW i \in Nat, i \in S PROVE i + 1 \in S
    <3> SUFFICES ASSUME i + 1 \in 1..Len(s) PROVE f[i + 1] = g[i + 1]
      OBVIOUS
    <3>0. PICK j : j = i + 1 /\ j \in 1..Len(s) /\ j - 1 = i
      OBVIOUS
    <3>1. f[j] = IF j = 1 THEN s[j] ELSE f[j - 1] \o s[j]
      BY <2>6, <3>0
    <3>2. g[j] = IF j = 1 THEN s[j] ELSE g[j - 1] \o s[j]
      BY <2>2, <3>0
    <3>3. j # 1 => f[j - 1] = g[j - 1]
      BY <2>8, <3>0
    <3> QED
      BY <3>0, <3>1, <3>2, <3>3
  <2>9. \A i \in Nat : i \in S
    <3> HIDE DEF S
    <3> QED
      BY <2>7, <2>8, SetInduction
  <2>10. f[Len(s)] = g[Len(s)]
    BY <1>2, <2>9
  <2> QED
    BY <1>2, <2>1, <2>4, <2>5, <2>10
<1> QED
  BY <1>1, <1>2

\* A sequence of texts makes a text.
LEMMA FlattenSeqType ==
  ASSUME NEW X, NEW s \in Seq(Seq(X))
  PROVE  FlattenSeq(s) \in Seq(X)
<1>1. CASE Len(s) = 0
  <2>1. FlattenSeq(s) = <<>>
    BY <1>1, FlattenSeqIs
  <2>2. <<>> \in Seq(X)
    OBVIOUS
  <2> QED
    BY <2>1, <2>2
<1>2. CASE Len(s) # 0
  <2>1. PICK g : Flattens(g, s, Len(s), X) /\ FlattenSeq(s) = g[Len(s)]
    BY <1>2, FlattenSeqIs
  <2>2. Len(s) \in 1..Len(s)
    BY <1>2
  <2> QED
    BY <2>1, <2>2 DEF Flattens
<1> QED
  BY <1>1, <1>2

\* u[n] is what the first n parts make, from none.
LEMMA FlattenByParts ==
  ASSUME NEW X, NEW s \in Seq(Seq(X)), NEW u,
         u = [n \in 0..Len(s) |-> IF n = 0 THEN <<>> ELSE u[n - 1] \o s[n]]
  PROVE  u[Len(s)] = FlattenSeq(s)
<1>1. u[0] = <<>> /\ \A n \in 1..Len(s) : u[n] = u[n - 1] \o s[n]
  <2>1. Len(s) \in Nat /\ 0 \in 0..Len(s) /\ \A n \in 1..Len(s) : n \in 0..Len(s) /\ n # 0
    OBVIOUS
  <2>2. \A n \in 0..Len(s) : u[n] = IF n = 0 THEN <<>> ELSE u[n - 1] \o s[n]
    OBVIOUS
  <2> QED
    BY <2>1, <2>2
<1>2. CASE Len(s) = 0
  BY <1>1, <1>2, FlattenSeqIs
<1>3. CASE Len(s) # 0
  <2>1. PICK g : Flattens(g, s, Len(s), X) /\ FlattenSeq(s) = g[Len(s)]
    BY <1>3, FlattenSeqIs
  <2> DEFINE S == {n \in Nat : n \in 1..Len(s) => u[n] = g[n]}
  <2>2. 0 \in S
    OBVIOUS
  <2>3. ASSUME NEW n \in Nat, n \in S PROVE n + 1 \in S
    <3> SUFFICES ASSUME n + 1 \in 1..Len(s) PROVE u[n + 1] = g[n + 1]
      OBVIOUS
    <3>1. PICK m : m = n + 1 /\ m \in 1..Len(s) /\ m - 1 = n
      OBVIOUS
    <3>2. u[m] = u[m - 1] \o s[m] /\ g[m] = IF m = 1 THEN s[m] ELSE g[m - 1] \o s[m]
      BY <1>1, <2>1, <3>1 DEF Flattens
    <3>3. CASE m = 1
      <4>1. s[m] \in Seq(X) /\ u[m - 1] = <<>>
        BY <1>1, <3>1, <3>3
      <4>2. <<>> \o s[m] = s[m]
        BY <4>1, ConcatEmptySeq
      <4> QED
        BY <3>1, <3>2, <3>3, <4>1, <4>2
    <3>4. CASE m # 1
      <4>1. n \in 1..Len(s)
        BY <3>1, <3>4
      <4>2. u[n] = g[n]
        BY <2>3, <4>1
      <4> QED
        BY <3>1, <3>2, <3>4, <4>2
    <3> QED
      BY <3>3, <3>4
  <2>4. \A n \in Nat : n \in S
    <3> HIDE DEF S
    <3> QED
      BY <2>2, <2>3, SetInduction
  <2>5. Len(s) \in Nat /\ Len(s) \in 1..Len(s)
    BY <1>3
  <2>6. u[Len(s)] = g[Len(s)]
    BY <2>4, <2>5
  <2> QED
    BY <2>1, <2>6
<1> QED
  BY <1>2, <1>3

\* Such a u exists.
LEMMA PartsExist ==
  ASSUME NEW X, NEW s \in Seq(Seq(X))
  PROVE  \E u : u = [n \in 0..Len(s) |-> IF n = 0 THEN <<>> ELSE u[n - 1] \o s[n]]
<1>1. PICK g : Flattens(g, s, Len(s), X)
  BY FlattensExists
<1> DEFINE u == [n \in 0..Len(s) |-> IF n = 0 THEN <<>> ELSE g[n]]
<1>2. ASSUME NEW n \in 0..Len(s) PROVE u[n] = IF n = 0 THEN <<>> ELSE u[n - 1] \o s[n]
  <2>1. CASE n = 0
    BY <2>1
  <2>2. CASE n = 1
    <3>1. n \in 1..Len(s) /\ 0 \in 0..Len(s) /\ s[n] \in Seq(X)
      BY <2>2
    <3>2. g[n] = s[n]
      BY <1>1, <2>2, <3>1 DEF Flattens
    <3>3. u[n] = g[n] /\ u[n - 1] = <<>>
      BY <2>2, <3>1
    <3>4. <<>> \o s[n] = s[n]
      BY <3>1, ConcatEmptySeq
    <3> QED
      BY <2>2, <3>2, <3>3, <3>4
  <2>3. CASE n # 0 /\ n # 1
    <3>1. n \in 1..Len(s) /\ n - 1 \in 0..Len(s) /\ n - 1 # 0
      BY <2>3
    <3>2. g[n] = g[n - 1] \o s[n]
      BY <1>1, <2>3, <3>1 DEF Flattens
    <3>3. u[n] = g[n] /\ u[n - 1] = g[n - 1]
      BY <2>3, <3>1
    <3> QED
      BY <2>3, <3>2, <3>3
  <2> QED
    BY <2>1, <2>2, <2>3
<1>3. u = [n \in 0..Len(s) |-> IF n = 0 THEN <<>> ELSE u[n - 1] \o s[n]]
  BY <1>2
<1> QED
  BY <1>3

\* One part more.
LEMMA FlattenAppend ==
  ASSUME NEW X, NEW s \in Seq(Seq(X)), NEW e \in Seq(X)
  PROVE  FlattenSeq(Append(s, e)) = FlattenSeq(s) \o e
<1> DEFINE n == Len(s)
<1>1. PICK t : t = Append(s, e)
  OBVIOUS
<1>2. t \in Seq(Seq(X)) /\ Len(t) = n + 1 /\ t[n + 1] = e /\ \A i \in 1..n : t[i] = s[i]
  BY <1>1
<1>3. PICK g : Flattens(g, t, n + 1, X) /\ FlattenSeq(t) = g[n + 1]
  BY <1>2, FlattenSeqIs
<1>4. CASE n = 0
  <2>1. g[1] = e
    BY <1>2, <1>3, <1>4 DEF Flattens
  <2>2. FlattenSeq(s) = <<>>
    BY <1>4, FlattenSeqIs
  <2>3. <<>> \o e = e
    BY ConcatEmptySeq
  <2> QED
    BY <1>1, <1>3, <1>4, <2>1, <2>2, <2>3
<1>5. CASE n # 0
  <2>1. PICK f : Flattens(f, s, n, X) /\ FlattenSeq(s) = f[n]
    BY <1>5, FlattenSeqIs
  <2>2. Flattens(f, t, n, X)
    BY <1>2, <2>1 DEF Flattens
  <2>3. n \in 1..n /\ n <= n + 1 /\ n + 1 \in Nat /\ n \in Nat
    BY <1>5
  <2>4. PICK k, l : k = n /\ l = n + 1
    OBVIOUS
  <2>5. k \in Nat /\ l \in Nat /\ k <= l /\ Flattens(f, t, k, X) /\ Flattens(g, t, l, X)
    BY <1>3, <2>2, <2>3, <2>4
  <2>6. \A i \in 1..k : f[i] = g[i]
    BY <2>5, FlattensOnce
  <2>7. \A i \in 1..n : f[i] = g[i]
    BY <2>4, <2>6
  <2>8. f[n] = g[n]
    BY <2>3, <2>7
  <2>9. PICK m : m = n + 1 /\ m \in 1..(n + 1) /\ m # 1 /\ m - 1 = n
    BY <1>5
  <2>10. g[m] = g[m - 1] \o t[m]
    BY <1>3, <2>9 DEF Flattens
  <2> QED
    BY <1>1, <1>2, <1>3, <2>1, <2>9, <2>10, <2>8
<1> QED
  BY <1>4, <1>5

-----------------------------------------------------------------------------
(* Where each part stands.                                                 *)

\* Part i of s stands in t behind place p[i - 1] and up to p[i].
Layout(p, s, t) ==
  /\ p \in [0..Len(s) -> Nat]
  /\ p[0] = 0 /\ p[Len(s)] = Len(t)
  /\ \A i \in 1..Len(s) : p[i] = p[i - 1] + Len(s[i]) /\ p[i] <= Len(t)
  /\ \A i \in 1..Len(s) : \A j \in 1..Len(s[i]) : t[p[i - 1] + j] = s[i][j]

\* A further part stands behind the others.
LEMMA LayoutGrows ==
  ASSUME NEW X, NEW s \in Seq(Seq(X)), NEW t \in Seq(X), NEW e \in Seq(X), NEW p, Layout(p, s, t)
  PROVE  \E q : Layout(q, Append(s, e), t \o e)
<1> DEFINE n == Len(s)
<1>1. PICK s2, t2 : s2 = Append(s, e) /\ t2 = t \o e
  OBVIOUS
<1>2. /\ n \in Nat /\ Len(s2) = n + 1 /\ s2[n + 1] = e
      /\ \A i \in 1..n : s2[i] = s[i] /\ s[i] \in Seq(X)
  BY <1>1
<1>3. /\ Len(t) \in Nat /\ Len(e) \in Nat /\ Len(t2) = Len(t) + Len(e)
      /\ \A j \in 1..Len(t) : t2[j] = t[j]
      /\ \A j \in 1..Len(e) : t2[Len(t) + j] = e[j]
  <2>1. \A i \in 1..(Len(t) + Len(e)) : t2[i] = IF i <= Len(t) THEN t[i] ELSE e[i - Len(t)]
    BY <1>1, ConcatProperties
  <2>2. ASSUME NEW j \in 1..Len(e) PROVE t2[Len(t) + j] = e[j]
    <3>1. PICK i : i = Len(t) + j /\ i \in 1..(Len(t) + Len(e)) /\ ~(i <= Len(t)) /\ i - Len(t) = j
      OBVIOUS
    <3> QED
      BY <2>1, <3>1
  <2> QED
    BY <1>1, <2>1, <2>2
<1> DEFINE q == [i \in 0..(n + 1) |-> IF i = n + 1 THEN Len(t2) ELSE p[i]]
<1>4. /\ p \in [0..n -> Nat] /\ p[0] = 0 /\ p[n] = Len(t)
      /\ \A i \in 1..n : p[i] = p[i - 1] + Len(s[i]) /\ p[i] <= Len(t)
      /\ \A i \in 1..n : \A j \in 1..Len(s[i]) : t[p[i - 1] + j] = s[i][j]
  BY DEF Layout
<1>5. q[n + 1] = Len(t2) /\ \A i \in 0..n : q[i] = p[i]
  BY <1>2
<1>6. q \in [0..(n + 1) -> Nat]
  BY <1>2, <1>3, <1>4
<1> HIDE DEF q
<1>7. ASSUME NEW i \in 1..(n + 1)
      PROVE  /\ q[i] = q[i - 1] + Len(s2[i]) /\ q[i] <= Len(t2)
             /\ \A j \in 1..Len(s2[i]) : t2[q[i - 1] + j] = s2[i][j]
  <2>1. CASE i = n + 1
    <3>1. i - 1 = n /\ n \in 0..n
      BY <1>2, <2>1
    <3>2. q[i - 1] = Len(t) /\ q[i] = Len(t) + Len(e) /\ s2[i] = e
      BY <1>2, <1>3, <1>4, <1>5, <2>1, <3>1
    <3> QED
      BY <1>3, <3>2
  <2>2. CASE i # n + 1
    <3>1. PICK h : h = i - 1
      OBVIOUS
    <3>2. i \in 1..n /\ h \in 0..n /\ i \in 0..n
      BY <1>2, <2>2, <3>1
    <3>3. q[i] = p[i] /\ q[h] = p[h] /\ s2[i] = s[i]
      BY <1>2, <1>5, <3>2
    <3>4. p[i] = p[h] + Len(s[i]) /\ p[i] <= Len(t)
      BY <1>4, <3>1, <3>2
    <3>5. p[i] \in Nat /\ p[h] \in Nat
      BY <1>4, <3>2
    <3>6. s[i] \in Seq(X) /\ Len(s[i]) \in Nat
      BY <1>2, <3>2
    <3>7. p[i] <= Len(t2)
      BY <1>3, <3>4, <3>5
    <3>8. ASSUME NEW j \in 1..Len(s[i]) PROVE t2[p[h] + j] = s[i][j]
      <4>1. PICK c : c = p[h] + j
        OBVIOUS
      <4>2. PICK a, b, d : a = p[h] /\ b = p[i] /\ d = Len(s[i])
        OBVIOUS
      <4>3. a \in Nat /\ b \in Nat /\ d \in Nat /\ b = a + d /\ b <= Len(t) /\ j \in 1..d /\ c = a + j
        BY <3>4, <3>5, <3>6, <4>1, <4>2
      <4>4. c \in 1..Len(t)
        BY <1>3, <4>3
      <4>5. t[c] = s[i][j]
        BY <1>4, <3>1, <3>2, <4>1
      <4>6. t2[c] = t[c]
        BY <1>3, <4>4
      <4> QED
        BY <4>1, <4>5, <4>6
    <3> QED
      BY <3>1, <3>3, <3>4, <3>7, <3>8
  <2> QED
    BY <2>1, <2>2
<1>8. q[0] = 0
  BY <1>2, <1>4, <1>5
<1>9. Layout(q, s2, t2)
  BY <1>2, <1>5, <1>6, <1>7, <1>8 DEF Layout
<1> QED
  BY <1>1, <1>9

\* Every sequence FlattenSeq returns has its parts in their order.
LEMMA FlattenLayout ==
  ASSUME NEW X, NEW s \in Seq(Seq(X))
  PROVE  \E p : Layout(p, s, FlattenSeq(s))
<1> DEFINE S == {n \in Nat : \A r \in Seq(Seq(X)) : Len(r) = n => \E p : Layout(p, r, FlattenSeq(r))}
<1>1. 0 \in S
  <2> SUFFICES ASSUME NEW r \in Seq(Seq(X)), Len(r) = 0 PROVE \E p : Layout(p, r, FlattenSeq(r))
    OBVIOUS
  <2>1. FlattenSeq(r) = <<>> /\ Len(<<>>) = 0
    BY FlattenSeqIs
  <2>2. PICK p : p = [i \in 0..0 |-> 0]
    OBVIOUS
  <2>3. Layout(p, r, <<>>)
    BY <2>1, <2>2 DEF Layout
  <2> QED
    BY <2>1, <2>3
<1>2. ASSUME NEW n \in Nat, n \in S PROVE n + 1 \in S
  <2> SUFFICES ASSUME NEW r \in Seq(Seq(X)), Len(r) = n + 1 PROVE \E p : Layout(p, r, FlattenSeq(r))
    OBVIOUS
  <2>1. r # <<>>
    OBVIOUS
  <2>2. PICK f \in Seq(Seq(X)), e \in Seq(X) : r = Append(f, e)
    BY <2>1, SequenceEmptyOrAppend
  <2>3. Len(f) = n
    BY <2>2
  <2>4. PICK p : Layout(p, f, FlattenSeq(f))
    BY <1>2, <2>3
  <2>5. FlattenSeq(f) \in Seq(X)
    BY FlattenSeqType
  <2>6. \E q : Layout(q, Append(f, e), FlattenSeq(f) \o e)
    BY <2>4, <2>5, LayoutGrows
  <2>7. FlattenSeq(Append(f, e)) = FlattenSeq(f) \o e
    BY FlattenAppend
  <2> QED
    BY <2>2, <2>6, <2>7
<1>3. \A n \in Nat : n \in S
  <2> HIDE DEF S
  <2> QED
    BY <1>1, <1>2, SetInduction
<1> QED
  BY <1>3

-----------------------------------------------------------------------------
(* Two sequences behind one another.                                       *)

Joins(u, s, t, X) ==
  /\ u \in Seq(X) /\ Len(u) = Len(s) + Len(t) /\ Len(s) \in Nat /\ Len(t) \in Nat
  /\ \A j \in 1..Len(s) : u[j] = s[j]
  /\ \A j \in 1..Len(t) : u[Len(s) + j] = t[j]

\* A concatenation has the one part and behind it the other.
LEMMA ConcatJoins ==
  ASSUME NEW X, NEW s \in Seq(X), NEW t \in Seq(X)
  PROVE  Joins(s \o t, s, t, X)
<1>1. PICK u : u = s \o t
  OBVIOUS
<1>2. /\ u \in Seq(X) /\ Len(u) = Len(s) + Len(t)
      /\ \A i \in 1..(Len(s) + Len(t)) : u[i] = IF i <= Len(s) THEN s[i] ELSE t[i - Len(s)]
  BY <1>1, ConcatProperties
<1>3. Len(s) \in Nat /\ Len(t) \in Nat
  OBVIOUS
<1>4. \A j \in 1..Len(s) : u[j] = s[j]
  BY <1>2, <1>3
<1>5. ASSUME NEW j \in 1..Len(t) PROVE u[Len(s) + j] = t[j]
  <2>1. PICK i : i = Len(s) + j /\ i \in 1..(Len(s) + Len(t)) /\ ~(i <= Len(s)) /\ i - Len(s) = j
    BY <1>3
  <2> QED
    BY <1>2, <2>1
<1> QED
  BY <1>1, <1>2, <1>3, <1>4, <1>5 DEF Joins

\* Min and Max are what their names say.
LEMMA MinMember ==
  ASSUME NEW S, S \subseteq Nat, S # {}
  PROVE  Min(S) \in S /\ \A y \in S : Min(S) <= y
<1>1. \E x \in S : \A y \in S : x =< y
  BY LeastMember
<1>2. Min(S) = CHOOSE x \in S : \A y \in S : x =< y
  BY DEF Min
<1> QED
  BY <1>1, <1>2

LEMMA MaxMember ==
  ASSUME NEW S, NEW n \in Nat, S \subseteq 0..n, S # {}
  PROVE  Max(S) \in S /\ \A y \in S : Max(S) >= y
<1> DEFINE T == {n - x : x \in S}
<1>1. T \subseteq Nat /\ T # {}
  <2>1. \A x \in S : x \in 0..n /\ n - x \in Nat
    OBVIOUS
  <2>2. T # {}
    OBVIOUS
  <2> QED
    BY <2>1, <2>2
<1>2. PICK d \in T : \A e \in T : d <= e
  BY <1>1, LeastMember
<1>3. PICK m \in S : d = n - m
  OBVIOUS
<1>4. ASSUME NEW y \in S PROVE m >= y
  <2>1. n - y \in T
    OBVIOUS
  <2>2. n - m <= n - y
    BY <1>2, <1>3, <2>1
  <2>3. m \in Int /\ y \in Int
    OBVIOUS
  <2> HIDE DEF T
  <2> QED
    BY <2>2, <2>3
<1>5. \E x \in S : \A y \in S : x >= y
  BY <1>4
<1>6. Max(S) = CHOOSE x \in S : \A y \in S : x >= y
  BY DEF Max
<1> QED
  BY <1>5, <1>6

\* The beginnings of a sequence grow by one element.
LEMMA PrefixGrows ==
  ASSUME NEW X, NEW v \in Seq(X), NEW k \in Nat, k < Len(v)
  PROVE  /\ SubSeq(v, 1, k) \in Seq(X) /\ SubSeq(v, 1, k + 1) \in Seq(X)
         /\ v[k + 1] \in X
         /\ SubSeq(v, 1, k) \o <<v[k + 1]>> = SubSeq(v, 1, k + 1)
         /\ Append(SubSeq(v, 1, k), v[k + 1]) = SubSeq(v, 1, k + 1)
<1>1. PICK m : m = k + 1
  OBVIOUS
<1>2. 1 \in 1..Len(v) /\ m \in 1..Len(v) /\ m - 1 = k /\ k \in Int /\ m \in Int
  BY <1>1
<1>3. SubSeq(v, 1, m) = SubSeq(v, 1, m - 1) \o <<v[m]>>
  BY <1>2, SubSeqRecursiveSecond
<1>4. \A i \in 1..Len(v) : v[i] \in X
  OBVIOUS
<1>5. SubSeq(v, 1, k) \in Seq(X) /\ SubSeq(v, 1, m) \in Seq(X)
  BY <1>2, <1>4, SubSeqProperties
<1>6. v[m] \in X
  BY <1>2, <1>4
<1>7. Append(SubSeq(v, 1, k), v[m]) = SubSeq(v, 1, k) \o <<v[m]>>
  BY <1>5, <1>6, AppendIsConcat
<1> QED
  BY <1>1, <1>2, <1>3, <1>5, <1>6, <1>7

\* The first k members of a sequence.
LEMMA PrefixType ==
  ASSUME NEW X, NEW v \in Seq(X)
  PROVE  /\ SubSeq(v, 1, 0) = <<>>
         /\ SubSeq(v, 1, Len(v)) = v
         /\ \A k \in 0..Len(v) : SubSeq(v, 1, k) \in Seq(X)
<1>1. SubSeq(v, 1, 0) = <<>>
  BY SubSeqEmpty
<1>2. \A k \in 0..Len(v) : SubSeq(v, 1, k) \in Seq(X)
  <2> SUFFICES ASSUME NEW k \in 0..Len(v) PROVE SubSeq(v, 1, k) \in Seq(X)
    OBVIOUS
  <2>1. k \in Int /\ \A i \in 1..k : v[i] \in X
    OBVIOUS
  <2> QED
    BY <2>1, SubSeqProperties
<1> QED
  BY <1>1, <1>2, SubSeqFull

=============================================================================
