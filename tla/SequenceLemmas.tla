--------------------------- MODULE SequenceLemmas ---------------------------
(***************************************************************************)
(* Lemmas about numbers and sequences for the proofs of the sequential     *)
(* parts: least numbers and induction as facts about sets, the sequences   *)
(* that are joined from others, the first place of an element, the         *)
(* elements at given positions, and functions that are recursive over      *)
(* numbers.                                                                *)
(***************************************************************************)
EXTENDS Selection, SequenceTheorems, WellFoundedInduction, TLAPS

\* Every set of numbers that is not empty has a least one, and Min is it.
LEMMA LeastIsMin ==
  ASSUME NEW I \in SUBSET Nat, I # {}
  PROVE  Min(I) \in I /\ \A j \in I : Min(I) <= j
<1> DEFINE R == {ss \in Nat \X Nat : ss[1] < ss[2]}
<1>1. IsWellFoundedOn(R, Nat)
  <2>1. R = OpToRel(<, Nat)
    BY DEF OpToRel
  <2> QED BY <2>1, NatLessThanWellFounded
<1>2. \A x, y \in Nat : y < x => <<y, x>> \in R
  OBVIOUS
<1> HIDE DEF R
<1>3. PICK x \in I : \A y \in I : ~ (<<y, x>> \in R)
  BY <1>1, WFMin
<1>4. \A y \in I : ~ (y < x)
  BY <1>2, <1>3
<1>5. \A y \in I : x <= y
  BY <1>4
<1> QED BY <1>5 DEF Min

\* A least number is the minimum, a greatest one the maximum.
LEMMA MinIs ==
  ASSUME NEW I \in SUBSET Nat, NEW m \in I, \A j \in I : m <= j
  PROVE  Min(I) = m
<1>1. \A x \in I : (\A y \in I : x <= y) => x = m
  OBVIOUS
<1> QED BY <1>1 DEF Min

\* The same of a greatest number.
LEMMA MaxIs ==
  ASSUME NEW I \in SUBSET Nat, NEW m \in I, \A j \in I : m >= j
  PROVE  Max(I) = m
<1>1. \A x \in I : (\A y \in I : x >= y) => x = m
  OBVIOUS
<1> QED BY <1>1 DEF Max

\* Every set of numbers up to n that is not empty has a greatest one.
LEMMA GreatestIsMax ==
  ASSUME NEW n \in Nat, NEW I \in SUBSET (1..n), I # {}
  PROVE  Max(I) \in I /\ \A j \in I : Max(I) >= j
<1> DEFINE D == {n - i : i \in I}
<1>1. D \in SUBSET Nat /\ D # {}
  <2>1. PICK i : i \in I
    OBVIOUS
  <2>2. n - i \in D
    BY <2>1
  <2>3. \A j \in I : n - j \in Nat
    OBVIOUS
  <2> QED BY <2>2, <2>3
<1>2. PICK d \in D : \A j \in D : d <= j
  <2> HIDE DEF D
  <2>1. Min(D) \in D /\ \A j \in D : Min(D) <= j
    BY <1>1, LeastIsMin
  <2> QED BY <2>1
<1>3. PICK m \in I : d = n - m
  OBVIOUS
<1>4. ASSUME NEW j \in I PROVE m >= j
  <2>1. d <= n - j
    BY <1>2
  <2> QED BY <1>3, <2>1
<1>5. I \in SUBSET Nat
  OBVIOUS
<1>6. Max(I) = m
  BY <1>4, <1>5, MaxIs
<1> QED BY <1>4, <1>6

\* The positions of c in s.
At(s, c) == {i \in 1..Len(s) : s[i] = c}

\* Sequence r is a followed by s, which can be told from r and a.
Joins(r, a, s) ==
  /\ Len(r) = Len(a) + Len(s)
  /\ \A i \in 1..Len(a) : r[i] = a[i]
  /\ \A i \in 1..Len(s) : r[Len(a) + i] = s[i]

\* Joining two sequences.
LEMMA Prefixed ==
  ASSUME NEW C, NEW a \in Seq(C), NEW s \in Seq(C)
  PROVE  a \o s \in Seq(C) /\ Joins(a \o s, a, s)
BY DEF Joins

\* What follows a prefix is determined.
LEMMA PrefixCancels ==
  ASSUME NEW C, NEW a \in Seq(C), NEW s \in Seq(C), NEW t \in Seq(C), NEW r,
         Joins(r, a, s), Joins(r, a, t)
  PROVE  s = t
<1>1. Len(s) = Len(t)
  <2>1. Len(a) \in Nat /\ Len(s) \in Nat /\ Len(t) \in Nat
    OBVIOUS
  <2> QED BY <2>1 DEF Joins
<1>2. \A i \in 1..Len(s) : s[i] = t[i]
  BY <1>1 DEF Joins
<1> QED BY <1>1, <1>2, SeqEqual

\* Sequence r is u, then c, then s.
Around(r, u, c, s) ==
  /\ Len(r) = Len(u) + 1 + Len(s) /\ r[Len(u) + 1] = c
  /\ \A i \in 1..Len(u) : r[i] = u[i]
  /\ \A i \in 1..Len(s) : r[Len(u) + 1 + i] = s[i]

\* Joining two sequences with an element between them.
LEMMA PutAround ==
  ASSUME NEW C, NEW c \in C, NEW u \in Seq(C), NEW s \in Seq(C)
  PROVE  u \o <<c>> \o s \in Seq(C) /\ Around(u \o <<c>> \o s, u, c, s)
BY DEF Around

\* The first position of c, or 0.
First(s, c) == IF At(s, c) # {} THEN Min(At(s, c)) ELSE 0

\* First is the place of the first c, or 0.
LEMMA FirstIs ==
  ASSUME NEW S, NEW s \in Seq(S), NEW c
  PROVE  \/ First(s, c) = 0 /\ \A i \in 1..Len(s) : s[i] # c
         \/ /\ First(s, c) \in 1..Len(s) /\ s[First(s, c)] = c
            /\ \A i \in 1..Len(s) : i < First(s, c) => s[i] # c
<1> DEFINE n == First(s, c)
<1>1. CASE At(s, c) # {}
  <2>1. n \in At(s, c) /\ \A j \in At(s, c) : n <= j
    <3>1. At(s, c) \in SUBSET Nat
      BY DEF At
    <3>2. n = Min(At(s, c))
      BY <1>1 DEF First
    <3> QED BY <1>1, <3>1, <3>2, LeastIsMin
  <2> HIDE DEF n
  <2>2. n \in 1..Len(s) /\ s[n] = c
    BY <2>1 DEF At
  <2>3. ASSUME NEW i \in 1..Len(s), i < n PROVE s[i] # c
    BY <2>1, <2>2, <2>3 DEF At
  <2>4. /\ n \in 1..Len(s) /\ s[n] = c
        /\ \A i \in 1..Len(s) : i < n => s[i] # c
    BY <2>2, <2>3
  <2> QED BY <2>4 DEF n
<1>2. CASE At(s, c) = {}
  BY <1>2 DEF First, At
<1> QED BY <1>1, <1>2

-----------------------------------------------------------------------------
\* Induction: a set with 0, and with the successors of its elements, has all.
LEMMA Induction ==
  ASSUME NEW I, 0 \in I, \A n \in Nat : n \in I => n + 1 \in I
  PROVE  \A n \in Nat : n \in I
<1> SUFFICES ASSUME Nat \ I # {} PROVE FALSE
  OBVIOUS
<1>1. PICK n \in Nat \ I : \A m \in Nat \ I : n <= m
  <2>1. Min(Nat \ I) \in Nat \ I /\ \A m \in Nat \ I : Min(Nat \ I) <= m
    BY LeastIsMin
  <2> QED BY <2>1
<1>2. n # 0
  OBVIOUS
<1>3. n - 1 \in Nat /\ n - 1 \notin Nat \ I
  BY <1>1, <1>2
<1> QED BY <1>3

-----------------------------------------------------------------------------
\* Upto n, the elements at the positions in I: what Picked goes through.
PicksUpTo(g, s, I, n) ==
  /\ g[0] = <<>>
  /\ \A i \in 1..n : g[i] = IF i \in I THEN Append(g[i - 1], s[i]) ELSE g[i - 1]

\* The recursion is well defined.
LEMMA PicksAre ==
  ASSUME NEW s, Len(s) \in Nat, NEW I
  PROVE  \E g : PicksUpTo(g, s, I, Len(s)) /\ Picked(s, I) = g[Len(s)]
<1> DEFINE Step(x, i) == IF i \in I THEN Append(x, s[i]) ELSE x
           is(g, n) == g = [i \in 0..n |-> IF i = 0 THEN <<>>
                                           ELSE IF i \in I THEN Append(g[i - 1], s[i])
                                           ELSE g[i - 1]]
           N == {n \in Nat : \E g : is(g, n)}
           upTo == CHOOSE g : is(g, Len(s))
<1>1. Picked(s, I) = upTo[Len(s)]
  BY DEF Picked
<1>2. \A g, n : is(g, n) <=> g = [i \in 0..n |-> IF i = 0 THEN <<>> ELSE Step(g[i - 1], i)]
  OBVIOUS
<1> HIDE DEF is
<1>3. ASSUME NEW g, NEW n \in Nat, is(g, n)
      PROVE  PicksUpTo(g, s, I, n)
  <2> DEFINE f == [i \in 0..n |-> IF i = 0 THEN <<>> ELSE Step(g[i - 1], i)]
  <2>1. f[0] = <<>> /\ \A i \in 1..n : f[i] = Step(g[i - 1], i)
    <3>1. 0 \in 0..n /\ \A i \in 1..n : i \in 0..n /\ i # 0
      OBVIOUS
    <3> HIDE DEF Step
    <3> QED BY <3>1
  <2>2. g = f
    BY <1>2, <1>3
  <2> QED BY <2>1, <2>2 DEF PicksUpTo
<1>4. 0 \in N
  <2> DEFINE f == [i \in 0..0 |-> <<>>]
  <2>1. is(f, 0)
    <3>1. \A i \in 0..0 : i = 0
      OBVIOUS
    <3> HIDE DEF Step
    <3>2. f = [i \in 0..0 |-> IF i = 0 THEN <<>> ELSE Step(f[i - 1], i)]
      BY <3>1
    <3> QED BY <1>2, <3>2
  <2> QED BY <2>1
<1>5. ASSUME NEW n \in Nat, n \in N PROVE n + 1 \in N
  <2>1. PICK g : is(g, n)
    BY <1>5
  <2> HIDE DEF Step
  <2> DEFINE h == [i \in 0..(n + 1) |-> IF i = n + 1 THEN Step(g[n], n + 1) ELSE g[i]]
             k == [i \in 0..(n + 1) |-> IF i = 0 THEN <<>> ELSE Step(h[i - 1], i)]
  <2>2. ASSUME NEW i \in 0..(n + 1) PROVE h[i] = k[i]
    <3>1. CASE i = n + 1
      <4>1. n \in 0..(n + 1) /\ n # n + 1 /\ i # 0 /\ i - 1 = n
        BY <3>1
      <4>2. h[n] = g[n]
        BY <4>1
      <4> QED BY <3>1, <4>1, <4>2
    <3>2. CASE i # n + 1
      <4>1. i \in 0..n
        BY <3>2
      <4>2. g = [j \in 0..n |-> IF j = 0 THEN <<>> ELSE Step(g[j - 1], j)]
        BY <1>2, <2>1
      <4>3. h[i] = g[i] /\ g[i] = IF i = 0 THEN <<>> ELSE Step(g[i - 1], i)
        <5> DEFINE f == [j \in 0..n |-> IF j = 0 THEN <<>> ELSE Step(g[j - 1], j)]
        <5>1. f[i] = IF i = 0 THEN <<>> ELSE Step(g[i - 1], i)
          BY <4>1
        <5>2. g[i] = f[i]
          BY <4>2
        <5> QED BY <3>2, <4>1, <5>1, <5>2
      <4>4. i # 0 => i - 1 \in 0..(n + 1) /\ i - 1 # n + 1
        BY <4>1
      <4> QED BY <4>3, <4>4
    <3> QED BY <3>1, <3>2
  <2>3. h = k
    BY <2>2
  <2>4. is(h, n + 1)
    BY <1>2, <2>3
  <2> HIDE DEF h
  <2>5. \E f : is(f, n + 1)
    BY <2>4
  <2> QED BY <2>5
<1>6. is(upTo, Len(s))
  <2> HIDE DEF N
  <2>1. Len(s) \in N
    BY <1>4, <1>5, Induction
  <2> QED BY <2>1 DEF N
<1> HIDE DEF upTo
<1>7. PicksUpTo(upTo, s, I, Len(s))
  BY <1>3, <1>6
<1> QED BY <1>1, <1>7

\* p lists the m elements of I from the least to the greatest.
Lists(p, m, I) ==
  /\ p \in [1..m -> I]
  /\ \A i, j \in 1..m : i < j => p[i] < p[j]
  /\ \A x \in I : \E i \in 1..m : p[i] = x

\* There is just one way to do so.
LEMMA ListsOnce ==
  ASSUME NEW I \in SUBSET Nat, NEW m \in Nat, NEW k \in Nat, NEW p, NEW q,
         Lists(p, m, I), Lists(q, k, I)
  PROVE  m = k /\ \A i \in 1..m : p[i] = q[i]
<1> DEFINE Same == {n \in Nat : \A i \in 1..n : i <= m /\ i <= k => p[i] = q[i]}
<1>1. 0 \in Same
  OBVIOUS
<1>2. ASSUME NEW n \in Nat, n \in Same PROVE n + 1 \in Same
  <2>1. SUFFICES ASSUME n + 1 <= m, n + 1 <= k PROVE p[n + 1] = q[n + 1]
    BY <1>2
  <2> DEFINE j == n + 1
  <2>2. /\ j \in 1..m /\ j \in 1..k /\ p[j] \in I /\ q[j] \in I
        /\ p[j] \in Nat /\ q[j] \in Nat
    <3>1. j \in 1..m /\ j \in 1..k
      BY <2>1
    <3>2. p[j] \in I /\ q[j] \in I
      BY <3>1 DEF Lists
    <3> QED BY <3>1, <3>2
  <2>3. \A i \in 1..n : i \in 1..m /\ i \in 1..k /\ p[i] = q[i] /\ i < j
    BY <1>2, <2>1
  <2>4. q[j] <= p[j]
    <3>1. PICK i \in 1..k : q[i] = p[j]
      BY <2>2 DEF Lists
    <3>2. CASE i <= n
      <4>1. i \in 1..n /\ p[i] = p[j] /\ p[i] < p[j]
        BY <2>2, <2>3, <3>1, <3>2 DEF Lists
      <4> QED BY <2>2, <4>1
    <3>3. CASE i = j
      BY <2>2, <3>1, <3>3
    <3>4. CASE i > j
      <4>1. q[j] < q[i]
        BY <2>2, <3>4 DEF Lists
      <4> QED BY <2>2, <3>1, <4>1
    <3> QED BY <3>2, <3>3, <3>4
  <2>5. p[j] <= q[j]
    <3>1. PICK i \in 1..m : p[i] = q[j]
      BY <2>2 DEF Lists
    <3>2. CASE i <= n
      <4>1. i \in 1..n /\ q[i] = q[j] /\ q[i] < q[j]
        BY <2>2, <2>3, <3>1, <3>2 DEF Lists
      <4> QED BY <2>2, <4>1
    <3>3. CASE i = j
      BY <2>2, <3>1, <3>3
    <3>4. CASE i > j
      <4>1. p[j] < p[i]
        BY <2>2, <3>4 DEF Lists
      <4> QED BY <2>2, <3>1, <4>1
    <3> QED BY <3>2, <3>3, <3>4
  <2> QED BY <2>2, <2>4, <2>5
<1> HIDE DEF Same
<1>3. \A n \in Nat : n \in Same
  BY <1>1, <1>2, Induction
<1>4. \A i : i \in 1..m /\ i \in 1..k => p[i] = q[i]
  BY <1>3 DEF Same
<1>5. ~ (m < k)
  <2> SUFFICES ASSUME m < k PROVE FALSE
    OBVIOUS
  <2>1. m + 1 \in 1..k /\ q[m + 1] \in I /\ q[m + 1] \in Nat
    <3>1. m + 1 \in 1..k
      OBVIOUS
    <3>2. q[m + 1] \in I
      BY <3>1 DEF Lists
    <3> QED BY <3>1, <3>2
  <2>2. PICK i \in 1..m : p[i] = q[m + 1]
    BY <2>1 DEF Lists
  <2>3. i \in 1..k /\ i < m + 1 /\ p[i] = q[i]
    BY <1>4
  <2>4. q[i] < q[m + 1]
    BY <2>1, <2>3 DEF Lists
  <2> QED BY <2>1, <2>2, <2>3, <2>4
<1>6. ~ (k < m)
  <2> SUFFICES ASSUME k < m PROVE FALSE
    OBVIOUS
  <2>1. k + 1 \in 1..m /\ p[k + 1] \in I /\ p[k + 1] \in Nat
    <3>1. k + 1 \in 1..m
      OBVIOUS
    <3>2. p[k + 1] \in I
      BY <3>1 DEF Lists
    <3> QED BY <3>1, <3>2
  <2>2. PICK i \in 1..k : q[i] = p[k + 1]
    BY <2>1 DEF Lists
  <2>3. i \in 1..m /\ i < k + 1 /\ p[i] = q[i]
    BY <1>4
  <2>4. p[i] < p[k + 1]
    BY <2>1, <2>3 DEF Lists
  <2> QED BY <2>1, <2>2, <2>3, <2>4
<1> QED BY <1>4, <1>5, <1>6

\* r is what s has at the positions in I.
Follows(r, S, s, I) ==
  /\ r \in Seq(S)
  /\ \E p : Lists(p, Len(r), I) /\ \A i \in 1..Len(r) : r[i] = s[p[i]]

\* One more position, behind the others.
LEMMA FollowsNext ==
  ASSUME NEW S, NEW s, NEW I \in SUBSET Nat, NEW n \in Nat, \A x \in I : x < n,
         s[n] \in S, NEW r, Follows(r, S, s, I)
  PROVE  Follows(Append(r, s[n]), S, s, I \union {n})
<1> DEFINE m == Len(r)
           J == I \union {n}
           z == Append(r, s[n])
<1>1. PICK p : Lists(p, m, I) /\ \A i \in 1..m : r[i] = s[p[i]]
  BY DEF Follows
<1>2. r \in Seq(S) /\ m \in Nat
  BY DEF Follows
<1>3. z \in Seq(S) /\ Len(z) = m + 1 /\ z[m + 1] = s[n] /\ \A i \in 1..m : z[i] = r[i]
  BY <1>2
<1> HIDE DEF m, z
<1> DEFINE q == [i \in 1..(m + 1) |-> IF i = m + 1 THEN n ELSE p[i]]
<1>4. \A i \in 1..(m + 1) : i = m + 1 \/ (i \in 1..m /\ i # m + 1)
  BY <1>2
<1>5. \A i \in 1..m : i \in 1..(m + 1) /\ i # m + 1
  BY <1>2
<1>6. \A i \in 1..m : q[i] = p[i] /\ p[i] \in I /\ p[i] < n
  BY <1>1, <1>5 DEF Lists
<1>7. m + 1 \in 1..(m + 1) /\ q[m + 1] = n
  BY <1>2
<1>8. q \in [1..(m + 1) -> J]
  <2>1. ASSUME NEW i \in 1..(m + 1) PROVE (IF i = m + 1 THEN n ELSE p[i]) \in J
    BY <1>4, <1>6
  <2> HIDE DEF J
  <2> QED BY <2>1
<1> HIDE DEF q
<1>9. ASSUME NEW i \in 1..(m + 1), NEW j \in 1..(m + 1), i < j PROVE q[i] < q[j]
  <2>1. i \in 1..m /\ (j = m + 1 \/ j \in 1..m)
    BY <1>2, <1>9
  <2>2. \A x, y \in 1..m : x < y => p[x] < p[y]
    BY <1>1 DEF Lists
  <2> QED BY <1>6, <1>7, <1>9, <2>1, <2>2
<1>10. ASSUME NEW x \in J PROVE \E i \in 1..(m + 1) : q[i] = x
  <2>1. x = n \/ \E i \in 1..m : p[i] = x
    BY <1>1 DEF Lists
  <2> QED BY <1>5, <1>6, <1>7, <2>1
<1> HIDE DEF J
<1>11. Lists(q, m + 1, J)
  BY <1>8, <1>9, <1>10 DEF Lists
<1>12. \A i \in 1..(m + 1) : z[i] = s[q[i]]
  BY <1>1, <1>3, <1>4, <1>6, <1>7
<1>13. Follows(z, S, s, J)
  BY <1>3, <1>11, <1>12 DEF Follows
<1> QED BY <1>13 DEF z, J

\* Nothing follows no positions.
LEMMA FollowsNone ==
  ASSUME NEW S, NEW s
  PROVE  Follows(<<>>, S, s, {})
<1>1. Lists(<<>>, 0, {})
  BY DEF Lists
<1>2. <<>> \in Seq(S) /\ Len(<<>>) = 0
  OBVIOUS
<1> QED BY <1>1, <1>2 DEF Follows

\* The positions in I can be listed, and Picked goes along the list.
LEMMA PickedFollows ==
  ASSUME NEW S, NEW s \in Seq(S), NEW I \in SUBSET (1..Len(s))
  PROVE  Follows(Picked(s, I), S, s, I)
<1> DEFINE Upto(n) == {i \in I : i <= n}
<1>1. Len(s) \in Nat /\ I \in SUBSET Nat /\ \A i \in 1..Len(s) : s[i] \in S
  OBVIOUS
<1>2. Upto(0) = {} /\ Upto(Len(s)) = I
  <2>1. \A i \in I : i \in Nat /\ 1 <= i /\ i <= Len(s)
    BY <1>1
  <2>2. \A i \in I : ~(i <= 0)
    BY <2>1
  <2> QED BY <2>1, <2>2
<1>3. ASSUME NEW n \in Nat
      PROVE  /\ Upto(n) \in SUBSET Nat /\ \A x \in Upto(n) : x < n + 1
             /\ Upto(n + 1) = IF n + 1 \in I THEN Upto(n) \union {n + 1} ELSE Upto(n)
  <2>1. \A x \in I : /\ x \in Nat /\ (x <= n => x < n + 1)
                     /\ x <= n + 1 <=> (x <= n \/ x = n + 1)
    BY <1>1
  <2>2. Upto(n + 1) = IF n + 1 \in I THEN Upto(n) \union {n + 1} ELSE Upto(n)
    <3>1. CASE n + 1 \in I
      <4>1. \A x : x \in Upto(n + 1) <=> x \in Upto(n) \union {n + 1}
        BY <2>1, <3>1
      <4> HIDE DEF Upto
      <4> QED BY <3>1, <4>1
    <3>2. CASE n + 1 \notin I
      <4>1. \A x : x \in Upto(n + 1) <=> x \in Upto(n)
        BY <2>1, <3>2
      <4> HIDE DEF Upto
      <4> QED BY <3>2, <4>1
    <3> QED BY <3>1, <3>2
  <2>3. Upto(n) \in SUBSET Nat /\ \A x \in Upto(n) : x < n + 1
    BY <2>1
  <2> QED BY <2>2, <2>3
<1> HIDE DEF Upto
<1>4. PICK g : PicksUpTo(g, s, I, Len(s)) /\ Picked(s, I) = g[Len(s)]
  BY <1>1, PicksAre
<1> DEFINE N == {n \in Nat : n <= Len(s) => Follows(g[n], S, s, Upto(n))}
<1>5. 0 \in N
  <2>1. g[0] = <<>>
    BY <1>4 DEF PicksUpTo
  <2> QED BY <1>2, <2>1, FollowsNone
<1>6. ASSUME NEW n \in Nat, n \in N PROVE n + 1 \in N
  <2> SUFFICES ASSUME n + 1 <= Len(s) PROVE Follows(g[n + 1], S, s, Upto(n + 1))
    BY DEF N
  <2>1. n <= Len(s) /\ n + 1 \in 1..Len(s) /\ (n + 1) - 1 = n /\ s[n + 1] \in S
    BY <1>1
  <2>2. Follows(g[n], S, s, Upto(n))
    BY <1>6, <2>1
  <2>3. g[n + 1] = IF n + 1 \in I THEN Append(g[n], s[n + 1]) ELSE g[n]
    BY <1>4, <2>1 DEF PicksUpTo
  <2>4. CASE n + 1 \notin I
    BY <1>3, <2>2, <2>3, <2>4
  <2>5. CASE n + 1 \in I
    <3>1. Follows(Append(g[n], s[n + 1]), S, s, Upto(n) \union {n + 1})
      <4> DEFINE J == Upto(n)
                 k == n + 1
                 r == g[n]
      <4>0. k \in Nat
        OBVIOUS
      <4>1. J \in SUBSET Nat /\ \A x \in J : x < k
        BY <1>3
      <4>2. s[k] \in S /\ Follows(r, S, s, J)
        BY <2>1, <2>2
      <4> HIDE DEF J, k, r
      <4>3. Follows(Append(r, s[k]), S, s, J \union {k})
        BY <4>0, <4>1, <4>2, FollowsNext
      <4> QED BY <4>3 DEF J, k, r
    <3> QED BY <1>3, <2>3, <2>5, <3>1
  <2> QED BY <2>4, <2>5
<1> HIDE DEF N
<1>7. Len(s) \in N
  BY <1>1, <1>5, <1>6, Induction
<1>8. Follows(g[Len(s)], S, s, Upto(Len(s)))
  <2>1. Len(s) <= Len(s)
    BY <1>1
  <2> QED BY <1>7, <2>1 DEF N
<1> QED BY <1>2, <1>4, <1>8

\* Whoever lists the positions knows what is picked.
LEMMA PickedAlong ==
  ASSUME NEW S, NEW s \in Seq(S), NEW I \in SUBSET (1..Len(s)),
         NEW m \in Nat, NEW p, Lists(p, m, I)
  PROVE  /\ Picked(s, I) \in Seq(S) /\ Len(Picked(s, I)) = m
         /\ \A i \in 1..m : Picked(s, I)[i] = s[p[i]]
<1> DEFINE r == Picked(s, I)
<1>1. Follows(r, S, s, I)
  BY PickedFollows
<1> HIDE DEF r
<1>2. r \in Seq(S)
  BY <1>1 DEF Follows
<1>3. PICK q : Lists(q, Len(r), I) /\ \A i \in 1..Len(r) : r[i] = s[q[i]]
  BY <1>1 DEF Follows
<1>4. Len(r) \in Nat /\ I \in SUBSET Nat
  BY <1>2
<1> DEFINE k == Len(r)
<1> HIDE DEF k
<1>5. k \in Nat /\ Lists(q, k, I)
  BY <1>3, <1>4 DEF k
<1>6. m = k /\ \A i \in 1..m : p[i] = q[i]
  BY <1>4, <1>5, ListsOnce
<1>7. r \in Seq(S) /\ Len(r) = m /\ \A i \in 1..m : r[i] = s[p[i]]
  BY <1>2, <1>3, <1>6 DEF k
<1> QED BY <1>7 DEF r

\* A sequence that follows s along I is the only one.
LEMMA FollowsOnce ==
  ASSUME NEW S, NEW s, NEW I \in SUBSET Nat, NEW r, NEW z,
         Follows(r, S, s, I), Follows(z, S, s, I)
  PROVE  r = z
<1>1. r \in Seq(S) /\ z \in Seq(S) /\ Len(r) \in Nat /\ Len(z) \in Nat
  BY DEF Follows
<1>2. PICK p : Lists(p, Len(r), I) /\ \A i \in 1..Len(r) : r[i] = s[p[i]]
  BY DEF Follows
<1>3. PICK q : Lists(q, Len(z), I) /\ \A i \in 1..Len(z) : z[i] = s[q[i]]
  BY DEF Follows
<1>4. Len(r) = Len(z) /\ \A i \in 1..Len(r) : p[i] = q[i]
  BY <1>1, <1>2, <1>3, ListsOnce
<1>5. \A i \in 1..Len(r) : r[i] = z[i]
  BY <1>2, <1>3, <1>4
<1> QED BY <1>1, <1>4, <1>5, SeqEqual

\* Nothing picked, and one more element picked, behind the others.
LEMMA PickedNone ==
  ASSUME NEW S, NEW s \in Seq(S)
  PROVE  Picked(s, {}) = <<>>
<1> DEFINE r == Picked(s, {})
<1>1. {} \in SUBSET (1..Len(s)) /\ {} \in SUBSET Nat
  OBVIOUS
<1>2. Follows(r, S, s, {})
  BY <1>1, PickedFollows
<1>3. Follows(<<>>, S, s, {})
  BY FollowsNone
<1> HIDE DEF r
<1>4. r = <<>>
  BY <1>1, <1>2, <1>3, FollowsOnce
<1> QED BY <1>4 DEF r

\* Picking at one position more, after the others, appends.
LEMMA PickedNext ==
  ASSUME NEW S, NEW s \in Seq(S), NEW I \in SUBSET (1..Len(s)), NEW n \in 1..Len(s),
         \A x \in I : x < n
  PROVE  Picked(s, I \union {n}) = Append(Picked(s, I), s[n])
<1> DEFINE r == Picked(s, I)
           J == I \union {n}
           z == Picked(s, J)
<1>1. J \in SUBSET (1..Len(s)) /\ J \in SUBSET Nat /\ I \in SUBSET Nat /\ n \in Nat
  OBVIOUS
<1>2. s[n] \in S
  OBVIOUS
<1>3. Follows(r, S, s, I)
  BY PickedFollows
<1> HIDE DEF r
<1>4. Follows(Append(r, s[n]), S, s, J)
  BY <1>1, <1>2, <1>3, FollowsNext
<1> HIDE DEF J
<1>5. Follows(z, S, s, J)
  BY <1>1, PickedFollows
<1> HIDE DEF z
<1>6. z = Append(r, s[n])
  BY <1>1, <1>4, <1>5, FollowsOnce
<1> QED BY <1>6 DEF z, r, J

-----------------------------------------------------------------------------
\* Induction over sequences that are appended to.
LEMMA AppendInduction ==
  ASSUME NEW T, NEW I, <<>> \in I,
         \A s \in Seq(T) : \A x \in T : s \in I => Append(s, x) \in I
  PROVE  \A s \in Seq(T) : s \in I
<1> DEFINE J == {n \in Nat : \A s \in Seq(T) : Len(s) = n => s \in I}
<1>1. 0 \in J
  <2>1. \A s \in Seq(T) : Len(s) = 0 => s = <<>>
    OBVIOUS
  <2> QED BY <2>1
<1>2. ASSUME NEW n \in Nat, n \in J PROVE n + 1 \in J
  <2> SUFFICES ASSUME NEW s \in Seq(T), Len(s) = n + 1 PROVE s \in I
    OBVIOUS
  <2> DEFINE r == SubSeq(s, 1, n)
             x == s[n + 1]
  <2>1. r \in Seq(T) /\ Len(r) = n /\ x \in T /\ \A i \in 1..n : r[i] = s[i]
    OBVIOUS
  <2>2. s = Append(r, x)
    <3> HIDE DEF r
    <3>1. Append(r, x) \in Seq(T) /\ Len(Append(r, x)) = Len(s)
      BY <2>1
    <3>2. \A i \in 1..Len(s) : Append(r, x)[i] = s[i]
      BY <2>1
    <3> HIDE DEF x
    <3> QED BY <3>1, <3>2, SeqEqual
  <2>3. r \in I
    BY <1>2, <2>1
  <2> HIDE DEF r, x
  <2> QED BY <2>1, <2>2, <2>3
<1> HIDE DEF J
<1>3. \A n \in Nat : n \in J
  BY <1>1, <1>2, Induction
<1> QED BY <1>3 DEF J

\* The values in S that a recursion goes through, from a in n steps.
Runs(g, S, a, n, step) ==
  g \in [0..n -> S] /\ g[0] = a /\ \A i \in 1..n : g[i] = step[i][g[i - 1]]

\* There are such values.
LEMMA Recursion ==
  ASSUME NEW S, NEW a \in S, NEW n \in Nat, NEW step \in [1..n -> [S -> S]]
  PROVE  \E g : Runs(g, S, a, n, step)
<1> DEFINE Is(g, m) == g[0] = a /\ \A i \in 1..m : g[i] = step[i][g[i - 1]]
           I == {m \in Nat : m <= n => \E g \in [0..m -> S] : Is(g, m)}
<1>1. 0 \in I
  <2> DEFINE g == [i \in 0..0 |-> a]
  <2>1. g \in [0..0 -> S] /\ g[0] = a
    OBVIOUS
  <2> HIDE DEF g
  <2>2. \E h \in [0..0 -> S] : Is(h, 0)
    BY <2>1
  <2> QED BY <2>2
<1>2. ASSUME NEW m \in Nat, m \in I PROVE m + 1 \in I
  <2> SUFFICES ASSUME m + 1 <= n PROVE \E h \in [0..(m + 1) -> S] : Is(h, m + 1)
    OBVIOUS
  <2>1. PICK g \in [0..m -> S] : Is(g, m)
    BY <1>2
  <2> DEFINE h == [i \in 0..(m + 1) |-> IF i = m + 1 THEN step[m + 1][g[m]] ELSE g[i]]
  <2>2. step[m + 1] \in [S -> S] /\ g[m] \in S
    OBVIOUS
  <2>3. h \in [0..(m + 1) -> S]
    BY <2>2
  <2>4. h[0] = a
    BY <2>1
  <2>5. ASSUME NEW i \in 1..(m + 1) PROVE h[i] = step[i][h[i - 1]]
    <3>1. CASE i = m + 1
      <4>1. h[i] = step[m + 1][g[m]] /\ i - 1 = m /\ h[m] = g[m]
        BY <3>1
      <4> QED BY <3>1, <4>1
    <3>2. CASE i # m + 1
      <4>1. i \in 1..m /\ i - 1 \in 0..m /\ h[i] = g[i] /\ h[i - 1] = g[i - 1]
        BY <3>2
      <4> QED BY <2>1, <4>1
    <3> QED BY <3>1, <3>2
  <2> HIDE DEF h
  <2> QED BY <2>3, <2>4, <2>5
<1> HIDE DEF Is
<1>3. n \in I
  <2> HIDE DEF I
  <2> QED BY <1>1, <1>2, Induction
<1>4. PICK g \in [0..n -> S] : Is(g, n)
  BY <1>3
<1> QED BY <1>4 DEF Is, Runs
=============================================================================
