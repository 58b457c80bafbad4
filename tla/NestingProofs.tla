---------------------------- MODULE NestingProofs ----------------------------
(***************************************************************************)
(* Proofs about data that nest, however deep: the merge of IndexedDB       *)
(* snapshots (MergeValue), which settles and on leaves is the overriding   *)
(* that SessionStore has it be; the reading of GGUF files (GgufReader),    *)
(* which ends in what the file says or in an error; and the expansion of   *)
(* macros (Macros), which is the same in every order.                      *)
(***************************************************************************)
EXTENDS MergeValue, GgufReader, Macros, SequenceLemmas, FiniteSetTheorems

-----------------------------------------------------------------------------
(***************************************************************************)
(* JSON values.                                                            *)
(***************************************************************************)

\* One level more.
Deeper(l) ==
  LET V == ValuesOver(l.values)
  IN [values |-> V, merge |-> [e \in V |-> [i \in V |-> MergeWith(l.merge, e, i)]]]

NoLevel == [values |-> {}, merge |-> <<>>]

\* The recursion over the levels is well defined.
LEMMA LevelsAre ==
  Level[0] = NoLevel /\ \A n \in 1..Depth : Level[n] = Deeper(Level[n - 1])
<1> DEFINE Is(g, n) == g = [i \in 0..n |-> IF i = 0 THEN NoLevel ELSE Deeper(g[i - 1])]
           I == {n \in Nat : \E g : Is(g, n)}
<1>1. 0 \in I
  <2> DEFINE g == [i \in 0..0 |-> NoLevel]
  <2>1. g = [i \in 0..0 |-> IF i = 0 THEN NoLevel ELSE Deeper(g[i - 1])]
    OBVIOUS
  <2> HIDE DEF g
  <2> QED BY <2>1
<1>2. ASSUME NEW n \in Nat, n \in I PROVE n + 1 \in I
  <2>1. PICK g : Is(g, n)
    BY <1>2
  <2> DEFINE h == [i \in 0..(n + 1) |-> IF i = n + 1 THEN Deeper(g[n]) ELSE g[i]]
             v == [i \in 0..(n + 1) |-> IF i = 0 THEN NoLevel ELSE Deeper(h[i - 1])]
  <2>2. \A i \in 0..n : g[i] = IF i = 0 THEN NoLevel ELSE Deeper(g[i - 1])
    <3> DEFINE w == [i \in 0..n |-> IF i = 0 THEN NoLevel ELSE Deeper(g[i - 1])]
    <3>1. g = w
      BY <2>1
    <3>2. \A i \in 0..n : w[i] = IF i = 0 THEN NoLevel ELSE Deeper(g[i - 1])
      OBVIOUS
    <3> HIDE DEF w
    <3> QED BY <3>1, <3>2
  <2>3. ASSUME NEW i \in 0..(n + 1)
        PROVE  h[i] = IF i = 0 THEN NoLevel ELSE Deeper(h[i - 1])
    <3>1. CASE i = n + 1
      <4>1. h[i] = Deeper(g[n]) /\ i - 1 = n /\ h[i - 1] = g[n] /\ i # 0
        BY <3>1
      <4> QED BY <4>1
    <3>2. CASE i # n + 1
      <4>1. i \in 0..n /\ h[i] = g[i]
        BY <3>2
      <4>2. i # 0 => i - 1 \in 0..n /\ h[i - 1] = g[i - 1]
        BY <4>1
      <4> HIDE DEF h
      <4> QED BY <2>2, <4>1, <4>2
    <3> QED BY <3>1, <3>2
  <2>4. h = v
    <3>1. h = [i \in 0..(n + 1) |-> h[i]]
      OBVIOUS
    <3>2. v = [i \in 0..(n + 1) |-> v[i]]
      OBVIOUS
    <3>3. \A i \in 0..(n + 1) : v[i] = IF i = 0 THEN NoLevel ELSE Deeper(h[i - 1])
      OBVIOUS
    <3> HIDE DEF h, v
    <3> QED BY <2>3, <3>1, <3>2, <3>3
  <2> HIDE DEF h
  <2> QED BY <2>4 DEF v
<1> HIDE DEF I
<1>3. Depth \in I
  BY <1>1, <1>2, Induction, DepthAssumption
<1>4. Is(Level, Depth)
  <2>1. \E g : Is(g, Depth)
    BY <1>3 DEF I
  <2>2. Level = CHOOSE g : Is(g, Depth)
    BY DEF Level, Deeper, NoLevel
  <2> QED BY <2>1, <2>2
<1>5. ASSUME NEW n \in 0..Depth
      PROVE  Level[n] = IF n = 0 THEN NoLevel ELSE Deeper(Level[n - 1])
  <2> DEFINE w == [i \in 0..Depth |-> IF i = 0 THEN NoLevel ELSE Deeper(Level[i - 1])]
  <2>1. Level = w
    BY <1>4
  <2>2. w[n] = IF n = 0 THEN NoLevel ELSE Deeper(Level[n - 1])
    OBVIOUS
  <2> HIDE DEF w
  <2> QED BY <2>1, <2>2
<1> QED BY <1>5, DepthAssumption

\* What is merged once more, with the same or with itself, stays as it is.
StaysPut(f, T) ==
  \A e, i \in T : f[e][i] \in T /\ f[f[e][i]][i] = f[e][i] /\ f[e][e] = e

\* Lists: the union of i and what has it all is that.
LEMMA JoinedWith ==
  ASSUME NEW S, NEW e \in Seq(S), NEW i \in Seq(S)
  PROVE  /\ Joined(e, i) \in Seq(S)
         /\ \A x : Contains(Joined(e, i), x) <=> Contains(e, x) \/ Contains(i, x)
         /\ (\A n \in 1..Len(i) : Contains(e, i[n])) => Joined(e, i) = e
<1> DEFINE new == {n \in 1..Len(i) : ~Contains(e, i[n]) /\ \A m \in 1..(n - 1) : i[m] # i[n]}
           r == Picked(i, new)
           j == e \o r
<1>1. new \in SUBSET (1..Len(i)) /\ Len(i) \in Nat
  OBVIOUS
<1>2. Joined(e, i) = j
  BY DEF Joined
<1>3. Follows(r, S, i, new)
  BY <1>1, PickedFollows
<1>4. ASSUME \A n \in 1..Len(i) : Contains(e, i[n]) PROVE j = e
  <2>1. new = {}
    BY <1>4
  <2>2. r = <<>>
    BY <2>1, PickedNone
  <2> HIDE DEF r
  <2> QED BY <2>2
<1>5. ASSUME NEW x, Contains(i, x), ~Contains(e, x)
      PROVE  \E n \in new : i[n] = x
  <2> DEFINE at == {n \in 1..Len(i) : i[n] = x}
             n == Min(at)
  <2>1. at \in SUBSET Nat /\ at # {}
    BY <1>5 DEF Contains
  <2>2. n \in at /\ \A m \in at : n <= m
    <3> HIDE DEF at
    <3> QED BY <2>1, LeastIsMin
  <2> HIDE DEF n
  <2>3. n \in 1..Len(i) /\ i[n] = x
    BY <2>2
  <2>4. ASSUME NEW m \in 1..(n - 1) PROVE i[m] # i[n]
    <3>1. m \in 1..Len(i) /\ ~ (n <= m)
      BY <1>1, <2>3
    <3> QED BY <2>2, <2>3, <3>1
  <2> QED BY <1>5, <2>3, <2>4
<1>6. PICK p : Lists(p, Len(r), new) /\ \A n \in 1..Len(r) : r[n] = i[p[n]]
  BY <1>3 DEF Follows
<1>7. r \in Seq(S)
  BY <1>3 DEF Follows
<1> HIDE DEF new, r
<1>8. \A x : Contains(r, x) <=> \E n \in new : i[n] = x
  <2>1. ASSUME NEW x, Contains(r, x) PROVE \E n \in new : i[n] = x
    <3>1. PICK k \in 1..Len(r) : r[k] = x
      BY <2>1 DEF Contains
    <3>2. p[k] \in new /\ i[p[k]] = x
      BY <1>6, <3>1 DEF Lists
    <3> QED BY <3>2
  <2>2. ASSUME NEW n \in new PROVE Contains(r, i[n])
    <3>1. PICK k \in 1..Len(r) : p[k] = n
      BY <1>6 DEF Lists
    <3>2. r[k] = i[n]
      BY <1>6, <3>1
    <3> QED BY <3>2 DEF Contains
  <2> QED BY <2>1, <2>2
<1>9. j \in Seq(S) /\ Joins(j, e, r)
  BY <1>7, Prefixed
<1> HIDE DEF j
<1>10. \A x : Contains(j, x) <=> Contains(e, x) \/ Contains(r, x)
  <2>1. Len(j) = Len(e) + Len(r) /\ Len(e) \in Nat /\ Len(r) \in Nat
    BY <1>7, <1>9 DEF Joins
  <2>2. ASSUME NEW x, Contains(e, x) \/ Contains(r, x) PROVE Contains(j, x)
    <3>1. CASE Contains(e, x)
      <4>1. PICK n \in 1..Len(e) : e[n] = x
        BY <3>1 DEF Contains
      <4>2. n \in 1..Len(j) /\ j[n] = x
        BY <1>9, <2>1, <4>1 DEF Joins
      <4> QED BY <4>2 DEF Contains
    <3>2. CASE Contains(r, x)
      <4>1. PICK n \in 1..Len(r) : r[n] = x
        BY <3>2 DEF Contains
      <4>2. Len(e) + n \in 1..Len(j) /\ j[Len(e) + n] = x
        BY <1>9, <2>1, <4>1 DEF Joins
      <4> QED BY <4>2 DEF Contains
    <3> QED BY <2>2, <3>1, <3>2
  <2>3. ASSUME NEW x, Contains(j, x) PROVE Contains(e, x) \/ Contains(r, x)
    <3>1. PICK n \in 1..Len(j) : j[n] = x
      BY <2>3 DEF Contains
    <3>2. CASE n <= Len(e)
      <4>1. n \in 1..Len(e) /\ e[n] = x
        BY <1>9, <2>1, <3>1, <3>2 DEF Joins
      <4> QED BY <4>1 DEF Contains
    <3>3. CASE ~ (n <= Len(e))
      <4> DEFINE k == n - Len(e)
      <4>1. k \in 1..Len(r) /\ n = Len(e) + k
        BY <2>1, <3>1, <3>3
      <4> HIDE DEF k
      <4>2. r[k] = x
        BY <1>9, <3>1, <4>1 DEF Joins
      <4> QED BY <4>1, <4>2 DEF Contains
    <3> QED BY <3>2, <3>3
  <2> QED BY <2>2, <2>3
<1>11. \A n \in new : Contains(i, i[n])
  BY <1>1 DEF Contains
<1> QED BY <1>2, <1>4, <1>5, <1>8, <1>9, <1>10, <1>11

\* Values.
LEMMA MergeWithSettles ==
  ASSUME NEW S, NEW f, StaysPut(f, S), Absent \notin S,
         NEW e \in ValuesOver(S), NEW i \in ValuesOver(S)
  PROVE  LET m == MergeWith(f, e, i) IN
         /\ m \in ValuesOver(S) /\ MergeWith(f, m, i) = m /\ MergeWith(f, e, e) = e
<1> DEFINE m == MergeWith(f, e, i)
           V == ValuesOver(S)
<1>1. \A v \in V : \/ v.kind = "atom" /\ v \in [kind : {"atom"}, is : Scalars]
                   \/ /\ v.kind = "object"
                      /\ v \in [kind : {"object"}, of : [Fields -> S \union {Absent}]]
                   \/ v.kind = "list" /\ v \in [kind : {"list"}, of : Seq(S)]
  BY DEF ValuesOver
<1>2. \A h \in [Fields -> S \union {Absent}] :
        Object(h) = [kind |-> "object", of |-> h] /\ Object(h) \in V
  <2> TAKE h \in [Fields -> S \union {Absent}]
  <2>1. [k \in Fields |-> IF k \in DOMAIN h THEN h[k] ELSE Absent] = h
    OBVIOUS
  <2> QED BY <2>1 DEF Object, ValuesOver
<1>3. \A s \in Seq(S) : List(s) = [kind |-> "list", of |-> s] /\ List(s) \in V
  BY DEF List, ValuesOver
<1> DEFINE g(a, b) == IF b = Absent THEN a ELSE IF a = Absent THEN b ELSE f[a][b]
<1>4. \A a, b \in S \union {Absent} :
        g(a, b) \in S \union {Absent} /\ g(g(a, b), b) = g(a, b) /\ g(a, a) = a
  BY DEF StaysPut
<1> DEFINE h(a, b) == [k \in Fields |-> g(a.of[k], b.of[k])]
<1>5. \A a, b : Both(a, b, "object") => MergeWith(f, a, b) = Object(h(a, b))
  <2> TAKE a, b
  <2>1. h(a, b) = [k \in Fields |-> IF b.of[k] = Absent THEN a.of[k]
                                    ELSE IF a.of[k] = Absent THEN b.of[k]
                                    ELSE f[a.of[k]][b.of[k]]]
    OBVIOUS
  <2>2. Both(a, b, "object") =>
          MergeWith(f, a, b) = Object([k \in Fields |-> IF b.of[k] = Absent THEN a.of[k]
                                                        ELSE IF a.of[k] = Absent THEN b.of[k]
                                                        ELSE f[a.of[k]][b.of[k]]])
    BY Zenon DEF MergeWith, Both
  <2> HIDE DEF h
  <2> QED BY Zenon, <2>1, <2>2
<1>6. \A a, b \in V : Both(a, b, "list") => MergeWith(f, a, b) = List(Joined(a.of, b.of))
  BY DEF MergeWith, Both
<1>7. \A a, b \in V : ~Both(a, b, "object") /\ ~Both(a, b, "list") => MergeWith(f, a, b) = b
  BY DEF MergeWith
<1>V. e \in V /\ i \in V
  OBVIOUS
<1> HIDE DEF g, V
<1>8. CASE Both(e, i, "object")
  <2>1. /\ e.of \in [Fields -> S \union {Absent}] /\ i.of \in [Fields -> S \union {Absent}]
        /\ e = [kind |-> "object", of |-> e.of]
    <3>1. e.kind = "object" /\ i.kind = "object"
      BY <1>8 DEF Both
    <3>2. /\ e \in [kind : {"object"}, of : [Fields -> S \union {Absent}]]
          /\ i \in [kind : {"object"}, of : [Fields -> S \union {Absent}]]
      BY <1>V, <1>1, <3>1
    <3> QED BY <3>2
  <2>2. h(e, i) \in [Fields -> S \union {Absent}] /\ h(e, e) \in [Fields -> S \union {Absent}]
    BY <1>4, <2>1
  <2>3. m = [kind |-> "object", of |-> h(e, i)] /\ m \in V
    <3>1. m = Object(h(e, i))
      BY <1>5, <1>8
    <3> DEFINE o == h(e, i)
    <3> HIDE DEF h, m
    <3>2. o \in [Fields -> S \union {Absent}]
      BY <2>2
    <3> HIDE DEF o
    <3>3. Object(o) = [kind |-> "object", of |-> o] /\ Object(o) \in V
      BY <1>2, <3>2
    <3> QED BY <3>1, <3>3 DEF o
  <2>4. Both(m, i, "object") /\ Both(e, e, "object")
    BY <1>8, <2>3 DEF Both
  <2>5. h(m, i) = h(e, i)
    <3>1. m.of = h(e, i)
      BY <2>3
    <3>2. \A k \in Fields : g(m.of[k], i.of[k]) = g(e.of[k], i.of[k])
      BY <1>4, <2>1, <3>1
    <3> QED BY <3>2
  <2>6. h(e, e) = e.of
    <3>1. \A k \in Fields : g(e.of[k], e.of[k]) = e.of[k]
      BY <1>4, <2>1
    <3> QED BY <2>1, <3>1
  <2>7. MergeWith(f, m, i) = Object(h(m, i)) /\ MergeWith(f, e, e) = Object(h(e, e))
    BY <1>5, <2>3, <2>4 DEF V
  <2> HIDE DEF m, h
  <2> QED BY <1>2, <2>1, <2>2, <2>3, <2>5, <2>6, <2>7 DEF m, V
<1>9. CASE Both(e, i, "list")
  <2>1. e.of \in Seq(S) /\ i.of \in Seq(S) /\ e = [kind |-> "list", of |-> e.of]
    <3>1. e.kind = "list" /\ i.kind = "list"
      BY <1>9 DEF Both
    <3>2. e \in [kind : {"list"}, of : Seq(S)] /\ i \in [kind : {"list"}, of : Seq(S)]
      BY <1>V, <1>1, <3>1
    <3> QED BY <3>2
  <2> DEFINE j == Joined(e.of, i.of)
  <2>2. j \in Seq(S) /\ (\A x : Contains(j, x) <=> Contains(e.of, x) \/ Contains(i.of, x))
    BY <2>1, JoinedWith
  <2>3. m = [kind |-> "list", of |-> j] /\ m \in V
    BY <1>3, <1>6, <1>9, <2>2 DEF V
  <2>4. Both(m, i, "list") /\ Both(e, e, "list") /\ m.of = j
    BY <1>9, <2>3 DEF Both
  <2> HIDE DEF j
  <2>5. Joined(j, i.of) = j
    <3>1. \A n \in 1..Len(i.of) : Contains(j, i.of[n])
      BY <2>2 DEF Contains
    <3> QED BY <2>1, <2>2, <3>1, JoinedWith
  <2>6. Joined(e.of, e.of) = e.of
    <3>1. \A n \in 1..Len(e.of) : Contains(e.of, e.of[n])
      BY DEF Contains
    <3> QED BY <2>1, <3>1, JoinedWith
  <2>7. MergeWith(f, m, i) = List(Joined(j, i.of)) /\ MergeWith(f, e, e) = List(Joined(e.of, e.of))
    BY <1>6, <2>3, <2>4 DEF V
  <2> HIDE DEF m
  <2> QED BY <1>3, <2>1, <2>2, <2>3, <2>5, <2>6, <2>7 DEF m, V
<1>10. CASE ~Both(e, i, "object") /\ ~Both(e, i, "list")
  <2>1. m = i
    BY <1>7, <1>10 DEF V
  <2>2. \A v \in V : MergeWith(f, v, v) = v
    <3>1. ASSUME NEW v \in V PROVE MergeWith(f, v, v) = v
      <4>1. CASE v.kind = "atom"
        BY <1>7, <4>1 DEF Both
      <4>2. CASE v.kind = "object"
        <5>1. v.of \in [Fields -> S \union {Absent}] /\ v = [kind |-> "object", of |-> v.of]
          BY <1>1, <4>2
        <5>2. h(v, v) = v.of
          <6>1. \A k \in Fields : g(v.of[k], v.of[k]) = v.of[k]
            BY <1>4, <5>1
          <6> QED BY <5>1, <6>1
        <5>3. MergeWith(f, v, v) = Object(h(v, v))
          BY <1>5, <4>2 DEF Both
        <5> QED BY <1>2, <5>1, <5>2, <5>3
      <4>3. CASE v.kind = "list"
        <5>1. v.of \in Seq(S) /\ v = [kind |-> "list", of |-> v.of]
          BY <1>1, <4>3
        <5>2. Joined(v.of, v.of) = v.of
          <6>1. \A n \in 1..Len(v.of) : Contains(v.of, v.of[n])
            BY DEF Contains
          <6> QED BY <5>1, <6>1, JoinedWith
        <5>3. MergeWith(f, v, v) = List(Joined(v.of, v.of))
          BY <1>6, <4>3 DEF Both
        <5> QED BY <1>3, <5>1, <5>2, <5>3
      <4> QED BY <1>1, <4>1, <4>2, <4>3
    <3> QED BY <3>1
  <2> HIDE DEF m
  <2> QED BY <2>1, <2>2 DEF m, V
<1> QED BY <1>8, <1>9, <1>10

\* At every level: only the values of the level below are merged with it.
LEMMA LevelsSettle ==
  \A n \in 0..Depth : StaysPut(Level[n].merge, Level[n].values) /\ Absent \notin Level[n].values
<1> DEFINE Fine(l) == StaysPut(l.merge, l.values) /\ Absent \notin l.values
           N == {n \in Nat : n <= Depth => Fine(Level[n])}
<1>1. 0 \in N
  BY LevelsAre DEF NoLevel, StaysPut
<1>2. ASSUME NEW l, Fine(l) PROVE Fine(Deeper(l))
  <2> DEFINE S == l.values
             f == l.merge
             V == ValuesOver(S)
             g == [e \in V |-> [i \in V |-> MergeWith(f, e, i)]]
  <2>1. Deeper(l).values = V /\ Deeper(l).merge = g
    BY DEF Deeper
  <2>2. Absent \notin V
    <3>1. \A v \in V : v.kind \in {"atom", "object", "list"}
      BY DEF ValuesOver
    <3>2. Absent.kind = "absent"
      BY DEF Absent
    <3> HIDE DEF V
    <3> QED BY <3>1, <3>2
  <2>3. StaysPut(f, S) /\ Absent \notin S
    BY <1>2
  <2>4. ASSUME NEW e \in V, NEW i \in V
        PROVE  LET m == MergeWith(f, e, i) IN
               m \in V /\ MergeWith(f, m, i) = m /\ MergeWith(f, e, e) = e
    <3> HIDE DEF S, f
    <3> QED BY <2>3, <2>4, MergeWithSettles
  <2>5. \A e, i \in V : g[e][i] = MergeWith(f, e, i)
    OBVIOUS
  <2> HIDE DEF V, g, f
  <2>6. StaysPut(g, V)
    BY <2>4, <2>5 DEF StaysPut
  <2> QED BY <2>1, <2>2, <2>6
<1>3. ASSUME NEW n \in Nat, n \in N PROVE n + 1 \in N
  <2> SUFFICES ASSUME n + 1 <= Depth PROVE Fine(Level[n + 1])
    OBVIOUS
  <2>1. n <= Depth /\ n + 1 \in 1..Depth /\ (n + 1) - 1 = n
    BY DepthAssumption
  <2>2. Level[n + 1] = Deeper(Level[n]) /\ Fine(Level[n])
    BY <1>3, <2>1, LevelsAre
  <2> HIDE DEF Fine
  <2> QED BY <1>2, <2>2
<1> HIDE DEF N
<1>4. \A n \in Nat : n \in N
  BY <1>1, <1>3, Induction
<1> QED BY <1>4, DepthAssumption DEF N

-----------------------------------------------------------------------------
(***************************************************************************)
(* Maps, records and stores.                                               *)
(***************************************************************************)

\* Maps with names in N and entries in T.
Maps(N, T) == UNION {[D -> T] : D \in SUBSET N}

\* Union, with a function instead of an operator.
Combined(e, i, f) ==
  [x \in DOMAIN e \union DOMAIN i |->
     IF x \notin DOMAIN i THEN e[x] ELSE IF x \notin DOMAIN e THEN i[x] ELSE f[e[x]][i[x]]]

\* Maps with names from N and values from T.
LEMMA MapsAre ==
  ASSUME NEW N, NEW T, NEW e
  PROVE  e \in Maps(N, T) <=> e \in [DOMAIN e -> T] /\ DOMAIN e \in SUBSET N
BY DEF Maps

\* Combining maps by a merge that settles is a merge that settles.
LEMMA CombinedSettles ==
  ASSUME NEW N, NEW T, NEW f, StaysPut(f, T), NEW e \in Maps(N, T), NEW i \in Maps(N, T)
  PROVE  LET m == Combined(e, i, f) IN
         m \in Maps(N, T) /\ Combined(m, i, f) = m /\ Combined(e, e, f) = e
<1> DEFINE D == DOMAIN e \union DOMAIN i
           m == Combined(e, i, f)
<1>1. /\ e \in [DOMAIN e -> T] /\ DOMAIN e \in SUBSET N
      /\ i \in [DOMAIN i -> T] /\ DOMAIN i \in SUBSET N
  BY MapsAre
<1>2. m \in [D -> T]
  BY <1>1 DEF Combined, StaysPut
<1>3. m \in Maps(N, T)
  BY <1>1, <1>2 DEF Maps
<1>4. \A x \in D : m[x] = IF x \notin DOMAIN i THEN e[x]
                          ELSE IF x \notin DOMAIN e THEN i[x] ELSE f[e[x]][i[x]]
  BY DEF Combined
<1> HIDE DEF m
<1>5. Combined(m, i, f) = m
  <2> DEFINE c == Combined(m, i, f)
  <2>1. DOMAIN m = D /\ DOMAIN m \union DOMAIN i = D
    BY <1>2
  <2>2. c = [x \in D |-> IF x \notin DOMAIN i THEN m[x] ELSE f[m[x]][i[x]]]
    BY <2>1 DEF Combined
  <2>3. ASSUME NEW x \in D PROVE (IF x \notin DOMAIN i THEN m[x] ELSE f[m[x]][i[x]]) = m[x]
    <3>1. CASE x \notin DOMAIN i
      BY <3>1
    <3>2. CASE x \in DOMAIN i /\ x \notin DOMAIN e
      BY <1>1, <1>4, <3>2 DEF StaysPut
    <3>3. CASE x \in DOMAIN i /\ x \in DOMAIN e
      <4>1. m[x] = f[e[x]][i[x]] /\ e[x] \in T /\ i[x] \in T
        BY <1>1, <1>4, <3>3
      <4> QED BY <3>3, <4>1 DEF StaysPut
    <3> QED BY <3>1, <3>2, <3>3
  <2> HIDE DEF c, D
  <2> QED BY <1>2, <2>2, <2>3 DEF c
<1>6. Combined(e, e, f) = e
  <2>1. \A x \in DOMAIN e : f[e[x]][e[x]] = e[x]
    BY <1>1 DEF StaysPut
  <2>2. Combined(e, e, f) = [x \in DOMAIN e |-> f[e[x]][e[x]]]
    BY DEF Combined
  <2> QED BY <1>1, <2>1, <2>2
<1> QED BY <1>3, <1>5, <1>6 DEF m

\* The last record of a key is the only one.
LastWithKey(out, k) == SelectLastInSeq(out, LAMBDA r : r.key = k)

\* In records with keys of their own, the last with a key is the only one.
LEMMA LastIs ==
  ASSUME NEW S, NEW out \in Seq(S), OwnKeys(out), NEW k, k # NoKey
  PROVE  /\ \A n \in 1..Len(out) : out[n].key = k => LastWithKey(out, k) = n
         /\ LastWithKey(out, k) > 0 => LastWithKey(out, k) \in 1..Len(out) /\ out[LastWithKey(out, k)].key = k
         /\ LastWithKey(out, k) \in Nat
<1> DEFINE I == {n \in 1..Len(out) : out[n].key = k}
<1>1. LastWithKey(out, k) = IF I # {} THEN Max(I) ELSE 0
  BY DEF LastWithKey, SelectLastInSeq
<1>2. \A m, n \in I : m = n
  BY DEF OwnKeys
<1>3. Len(out) \in Nat /\ I \in SUBSET (1..Len(out))
  OBVIOUS
<1>4. I # {} => Max(I) \in I
  <2> HIDE DEF I
  <2> QED BY <1>3, GreatestIsMax
<1> HIDE DEF LastWithKey
<1>5. \A n \in 1..Len(out) : out[n].key = k => n \in I
  OBVIOUS
<1>6. \A n \in I : n \in 1..Len(out) /\ out[n].key = k /\ n \in Nat
  BY <1>3
<1> HIDE DEF I
<1> QED BY <1>1, <1>2, <1>4, <1>5, <1>6

\* A record is in a store already: merging it changes nothing.
HasMerged(out, rec) ==
  IF rec.key = NoKey THEN Contains(out, rec)
  ELSE \E n \in 1..Len(out) :
         out[n].key = rec.key /\ MergeJSON(out[n].value, rec.value) = out[n].value

\* The merge of values settles.  (mergeJSONValue)
LEMMA JSONSettles ==
  ASSUME NEW e \in JSON, NEW i \in JSON
  PROVE  LET m == MergeJSON(e, i) IN
         m \in JSON /\ MergeJSON(m, i) = m /\ MergeJSON(e, e) = e
<1>1. Depth \in 0..Depth
  BY DepthAssumption
<1>2. StaysPut(Level[Depth].merge, JSON)
  BY <1>1, LevelsSettle DEF JSON
<1> QED BY <1>2 DEF StaysPut, MergeJSON

\* A merged record is there; the others that were there still are.
LEMMA MergeRecordHas ==
  ASSUME NEW T, NEW out \in Seq(Record(T)), OwnKeys(out), NEW rec \in Record(T)
  PROVE  LET m == MergeRecord(out, rec) IN
         /\ m \in Seq(Record(T)) /\ OwnKeys(m) /\ HasMerged(m, rec)
         /\ \A q \in Record(T) :
              HasMerged(out, q) /\ (q.key = NoKey \/ q.key # rec.key) => HasMerged(m, q)
         /\ HasMerged(out, rec) => m = out
<1> DEFINE m == MergeRecord(out, rec)
           at == LastWithKey(out, rec.key)
           L == Len(out)
<1>1. /\ L \in Nat /\ rec.value \in JSON
      /\ rec = [key |-> rec.key, value |-> rec.value]
      /\ \A n \in 1..L : /\ out[n] \in Record(T) /\ out[n].value \in JSON
                         /\ out[n] = [key |-> out[n].key, value |-> out[n].value]
  <2>1. \A n \in 1..L : out[n] \in Record(T)
    OBVIOUS
  <2> QED BY <2>1 DEF Record
<1>2. m = IF rec.key # NoKey /\ at > 0
          THEN [out EXCEPT ![at] = [key |-> rec.key,
                                    value |-> MergeJSON(out[at].value, rec.value)]]
          ELSE IF Contains(out, rec) THEN out ELSE Append(out, rec)
  BY DEF MergeRecord, LastWithKey
<1>3. rec.key # NoKey =>
        /\ \A n \in 1..L : out[n].key = rec.key => at = n
        /\ at > 0 => at \in 1..L /\ out[at].key = rec.key
        /\ at \in Nat
  BY LastIs
<1> HIDE DEF m, at
<1>4. CASE rec.key # NoKey /\ at > 0
  <2> DEFINE v == MergeJSON(out[at].value, rec.value)
             r == [key |-> rec.key, value |-> v]
  <2>1. at \in 1..L /\ out[at].key = rec.key /\ out[at].value \in JSON
    BY <1>1, <1>3, <1>4
  <2>2. v \in JSON /\ MergeJSON(v, rec.value) = v
    BY <1>1, <2>1, JSONSettles
  <2>3. m = [out EXCEPT ![at] = r]
    BY <1>2, <1>4
  <2>4. r \in Record(T) /\ r.key = rec.key /\ r.value = v
    BY <2>2 DEF Record
  <2> HIDE DEF v, r
  <2>5. m \in Seq(Record(T)) /\ Len(m) = L
    BY <2>1, <2>3, <2>4
  <2>6. m[at] = r /\ \A n \in 1..L : n # at => m[n] = out[n]
    BY <2>1, <2>3
  <2>7. \A n \in 1..L : m[n].key = out[n].key
    BY <2>1, <2>4, <2>6
  <2>8. OwnKeys(m)
    BY <2>5, <2>7 DEF OwnKeys
  <2>9. HasMerged(m, rec)
    BY <1>4, <2>1, <2>2, <2>4, <2>5, <2>6 DEF HasMerged
  <2>10. ASSUME NEW q \in Record(T), HasMerged(out, q), q.key = NoKey \/ q.key # rec.key
         PROVE  HasMerged(m, q)
    <3>1. CASE q.key = NoKey
      <4>1. PICK n \in 1..L : out[n] = q
        BY <2>10, <3>1 DEF HasMerged, Contains
      <4>2. m[n] = q /\ n \in 1..Len(m)
        BY <1>4, <2>1, <2>5, <2>6, <3>1, <4>1
      <4> QED BY <3>1, <4>2 DEF HasMerged, Contains
    <3>2. CASE q.key # NoKey
      <4>1. PICK n \in 1..L : out[n].key = q.key /\ MergeJSON(out[n].value, q.value) = out[n].value
        BY <2>10, <3>2 DEF HasMerged
      <4>2. m[n] = out[n] /\ n \in 1..Len(m)
        BY <2>1, <2>5, <2>6, <2>10, <3>2, <4>1
      <4> QED BY <3>2, <4>1, <4>2 DEF HasMerged
    <3> QED BY <3>1, <3>2
  <2>11. ASSUME HasMerged(out, rec) PROVE m = out
    <3>1. PICK n \in 1..L :
            out[n].key = rec.key /\ MergeJSON(out[n].value, rec.value) = out[n].value
      BY <1>4, <2>11 DEF HasMerged
    <3>2. n = at
      BY <1>3, <1>4, <3>1
    <3>3. v = out[at].value
      BY <3>1, <3>2 DEF v
    <3>4. r = out[at]
      <4>1. out[at] = [key |-> out[at].key, value |-> out[at].value]
        BY <1>1, <2>1
      <4> QED BY <2>1, <3>3, <4>1 DEF r
    <3> QED BY <2>1, <2>3, <3>4
  <2> QED BY <2>5, <2>8, <2>9, <2>10, <2>11 DEF m
<1>5. CASE ~(rec.key # NoKey /\ at > 0) /\ Contains(out, rec)
  <2>1. m = out
    BY <1>2, <1>5
  <2>2. rec.key = NoKey
    <3>1. PICK n \in 1..L : out[n] = rec
      BY <1>5 DEF Contains
    <3>2. rec.key # NoKey => at = n
      BY <1>3, <3>1
    <3>3. rec.key # NoKey => at > 0
      BY <1>1, <3>1, <3>2
    <3> QED BY <1>5, <3>3
  <2>3. HasMerged(m, rec)
    BY <1>5, <2>1, <2>2 DEF HasMerged
  <2> QED BY <2>1, <2>3 DEF m
<1>6. CASE ~(rec.key # NoKey /\ at > 0) /\ ~Contains(out, rec)
  <2>1. m = Append(out, rec)
    BY <1>2, <1>6
  <2>2. /\ m \in Seq(Record(T)) /\ Len(m) = L + 1 /\ m[L + 1] = rec
        /\ \A n \in 1..L : m[n] = out[n]
    BY <2>1
  <2>3. ASSUME NEW n \in 1..L, rec.key # NoKey PROVE out[n].key # rec.key
    <3>1. out[n].key = rec.key => at = n
      BY <1>3, <2>3
    <3> QED BY <1>1, <1>6, <2>3, <3>1
  <2>4. OwnKeys(m)
    <3> SUFFICES ASSUME NEW a \in 1..Len(m), NEW b \in 1..Len(m),
                        m[a].key = m[b].key, m[a].key # NoKey
                 PROVE  a = b
      BY DEF OwnKeys
    <3>1. (a \in 1..L \/ a = L + 1) /\ (b \in 1..L \/ b = L + 1)
      BY <1>1, <2>2
    <3>2. CASE a \in 1..L /\ b \in 1..L
      BY <2>2, <3>2 DEF OwnKeys
    <3>3. CASE a \in 1..L /\ b = L + 1
      BY <2>2, <2>3, <3>3
    <3>4. CASE a = L + 1 /\ b \in 1..L
      BY <2>2, <2>3, <3>4
    <3> QED BY <3>1, <3>2, <3>3, <3>4
  <2>5. 1..L \subseteq 1..Len(m) /\ L + 1 \in 1..Len(m)
    BY <1>1, <2>2
  <2>6. HasMerged(m, rec)
    <3>1. MergeJSON(rec.value, rec.value) = rec.value
      BY <1>1, JSONSettles
    <3> QED BY <2>2, <2>5, <3>1 DEF HasMerged, Contains
  <2>7. ASSUME NEW q, HasMerged(out, q) PROVE HasMerged(m, q)
    <3>1. CASE q.key = NoKey
      <4>1. PICK n \in 1..L : out[n] = q
        BY <2>7, <3>1 DEF HasMerged, Contains
      <4> QED BY <2>2, <2>5, <3>1, <4>1 DEF HasMerged, Contains
    <3>2. CASE q.key # NoKey
      <4>1. PICK n \in 1..L : out[n].key = q.key /\ MergeJSON(out[n].value, q.value) = out[n].value
        BY <2>7, <3>2 DEF HasMerged
      <4>2. m[n] = out[n] /\ n \in 1..Len(m)
        BY <2>2, <2>5
      <4> QED BY <3>2, <4>1, <4>2 DEF HasMerged
    <3> QED BY <3>1, <3>2
  <2>8. ~HasMerged(out, rec)
    <3>1. rec.key = NoKey => ~HasMerged(out, rec)
      BY <1>6 DEF HasMerged
    <3>2. rec.key # NoKey => ~HasMerged(out, rec)
      BY <2>3 DEF HasMerged
    <3> QED BY <3>1, <3>2
  <2> QED BY <2>2, <2>4, <2>6, <2>7, <2>8 DEF m
<1> QED BY <1>4, <1>5, <1>6

\* The recursion of MergeRecords is well defined.
MergesUpTo(g, e, i, n) ==
  g[0] = e /\ \A k \in 1..n : g[k] = MergeRecord(g[k - 1], i[k])

\* The recursion of MergeRecords is well defined.
LEMMA MergesAre ==
  ASSUME NEW e, NEW i, Len(i) \in Nat
  PROVE  \E g : MergesUpTo(g, e, i, Len(i)) /\ MergeRecords(e, i) = g[Len(i)]
<1> DEFINE is(g, n) == g = [k \in 0..n |-> IF k = 0 THEN e ELSE MergeRecord(g[k - 1], i[k])]
           N == {n \in Nat : \E g : is(g, n)}
           upTo == CHOOSE g : is(g, Len(i))
<1>1. MergeRecords(e, i) = upTo[Len(i)]
  BY DEF MergeRecords
<1>2. ASSUME NEW g, NEW n \in Nat, is(g, n)
      PROVE  \A k \in 0..n : g[k] = IF k = 0 THEN e ELSE MergeRecord(g[k - 1], i[k])
  <2> DEFINE f == [k \in 0..n |-> IF k = 0 THEN e ELSE MergeRecord(g[k - 1], i[k])]
  <2>1. g = f
    BY <1>2
  <2>2. \A k \in 0..n : f[k] = IF k = 0 THEN e ELSE MergeRecord(g[k - 1], i[k])
    OBVIOUS
  <2> HIDE DEF f
  <2> QED BY <2>1, <2>2
<1>3. 0 \in N
  <2> DEFINE f == [k \in 0..0 |-> e]
  <2>1. \A k \in 0..0 : k = 0
    OBVIOUS
  <2>2. is(f, 0)
    BY <2>1
  <2> QED BY <2>2
<1>4. ASSUME NEW n \in Nat, n \in N PROVE n + 1 \in N
  <2>1. PICK g : is(g, n)
    BY <1>4
  <2> DEFINE h == [k \in 0..(n + 1) |-> IF k = n + 1 THEN MergeRecord(g[n], i[n + 1]) ELSE g[k]]
             w == [k \in 0..(n + 1) |-> IF k = 0 THEN e ELSE MergeRecord(h[k - 1], i[k])]
  <2>2. ASSUME NEW k \in 0..(n + 1)
        PROVE  h[k] = IF k = 0 THEN e ELSE MergeRecord(h[k - 1], i[k])
    <3>1. CASE k = n + 1
      <4>1. h[k] = MergeRecord(g[n], i[n + 1]) /\ k - 1 = n /\ h[n] = g[n] /\ k # 0
        BY <3>1
      <4> HIDE DEF h
      <4> QED BY <3>1, <4>1
    <3>2. CASE k # n + 1
      <4>1. k \in 0..n /\ h[k] = g[k]
        BY <3>2
      <4>2. k # 0 => h[k - 1] = g[k - 1]
        BY <4>1
      <4>3. g[k] = IF k = 0 THEN e ELSE MergeRecord(g[k - 1], i[k])
        BY <1>2, <2>1, <4>1
      <4> HIDE DEF h
      <4> QED BY <4>1, <4>2, <4>3
    <3> QED BY <3>1, <3>2
  <2>3. h = w
    <3>1. h = [k \in 0..(n + 1) |-> h[k]]
      OBVIOUS
    <3>2. w = [k \in 0..(n + 1) |-> w[k]]
      OBVIOUS
    <3>3. \A k \in 0..(n + 1) : w[k] = IF k = 0 THEN e ELSE MergeRecord(h[k - 1], i[k])
      OBVIOUS
    <3> HIDE DEF h, w
    <3> QED BY <2>2, <3>1, <3>2, <3>3
  <2> HIDE DEF h
  <2>4. is(h, n + 1)
    BY <2>3 DEF w
  <2> HIDE DEF is
  <2> QED BY <2>4
<1>5. is(upTo, Len(i))
  <2> HIDE DEF N
  <2>1. Len(i) \in N
    BY <1>3, <1>4, Induction
  <2> QED BY <2>1 DEF N
<1> HIDE DEF upTo
<1>6. \A k \in 0..Len(i) : upTo[k] = IF k = 0 THEN e ELSE MergeRecord(upTo[k - 1], i[k])
  BY <1>2, <1>5
<1>7. 0 \in 0..Len(i) /\ \A k \in 1..Len(i) : k \in 0..Len(i) /\ k # 0
  OBVIOUS
<1>8. MergesUpTo(upTo, e, i, Len(i))
  BY <1>6, <1>7 DEF MergesUpTo
<1> QED BY <1>1, <1>8

\* The records of a store.
Records(T) == {rs \in Seq(Record(T)) : OwnKeys(rs)}

\* Merged into e, all of i is there.
LEMMA MergeRecordsHas ==
  ASSUME NEW T, NEW e \in Records(T), NEW i \in Records(T)
  PROVE  /\ MergeRecords(e, i) \in Records(T)
         /\ \A n \in 1..Len(i) : HasMerged(MergeRecords(e, i), i[n])
<1>1. Len(i) \in Nat /\ \A n \in 1..Len(i) : i[n] \in Record(T)
  BY DEF Records
<1>2. PICK g : MergesUpTo(g, e, i, Len(i)) /\ MergeRecords(e, i) = g[Len(i)]
  BY <1>1, MergesAre
<1> DEFINE All(n) == g[n] \in Records(T) /\ \A k \in 1..n : HasMerged(g[n], i[k])
           N == {n \in Nat : n <= Len(i) => All(n)}
<1>3. 0 \in N
  BY <1>2 DEF MergesUpTo
<1>4. ASSUME NEW n \in Nat, n \in N PROVE n + 1 \in N
  <2> SUFFICES ASSUME n + 1 <= Len(i) PROVE All(n + 1)
    OBVIOUS
  <2> DEFINE out == g[n]
             rec == i[n + 1]
             m == MergeRecord(out, rec)
  <2>1. n <= Len(i) /\ n + 1 \in 1..Len(i) /\ (n + 1) - 1 = n
    BY <1>1
  <2>2. g[n + 1] = m /\ rec \in Record(T) /\ All(n)
    BY <1>1, <1>2, <1>4, <2>1 DEF MergesUpTo
  <2>3. out \in Seq(Record(T)) /\ OwnKeys(out)
    BY <2>2 DEF Records
  <2>4. /\ m \in Seq(Record(T)) /\ OwnKeys(m) /\ HasMerged(m, rec)
        /\ \A q \in Record(T) :
             HasMerged(out, q) /\ (q.key = NoKey \/ q.key # rec.key) => HasMerged(m, q)
    <3> HIDE DEF out, rec
    <3> QED BY <2>2, <2>3, MergeRecordHas
  <2>5. ASSUME NEW k \in 1..(n + 1) PROVE HasMerged(m, i[k])
    <3>1. CASE k = n + 1
      BY <2>4, <3>1
    <3>2. CASE k # n + 1
      <4>1. k \in 1..n /\ k \in 1..Len(i)
        BY <2>1, <3>2
      <4>2. HasMerged(out, i[k]) /\ i[k] \in Record(T)
        BY <1>1, <2>2, <4>1
      <4>3. i[k].key = NoKey \/ i[k].key # rec.key
        BY <2>1, <3>2, <4>1 DEF Records, OwnKeys
      <4> HIDE DEF m, out, rec
      <4> QED BY <2>4, <4>2, <4>3
    <3> QED BY <3>1, <3>2
  <2> HIDE DEF m
  <2> QED BY <2>2, <2>4, <2>5 DEF Records
<1> HIDE DEF N
<1>5. Len(i) \in N
  BY <1>1, <1>3, <1>4, Induction
<1>6. All(Len(i))
  <2>1. Len(i) <= Len(i)
    BY <1>1
  <2> QED BY <1>5, <2>1 DEF N
<1> QED BY <1>2, <1>6

\* What has all of i stays as it is.
LEMMA MergeRecordsStays ==
  ASSUME NEW T, NEW e \in Records(T), NEW i \in Records(T),
         \A n \in 1..Len(i) : HasMerged(e, i[n])
  PROVE  MergeRecords(e, i) = e
<1>1. Len(i) \in Nat /\ \A n \in 1..Len(i) : i[n] \in Record(T)
  BY DEF Records
<1>2. PICK g : MergesUpTo(g, e, i, Len(i)) /\ MergeRecords(e, i) = g[Len(i)]
  BY <1>1, MergesAre
<1> DEFINE N == {n \in Nat : n <= Len(i) => g[n] = e}
<1>3. 0 \in N
  BY <1>2 DEF MergesUpTo
<1>4. ASSUME NEW n \in Nat, n \in N PROVE n + 1 \in N
  <2> SUFFICES ASSUME n + 1 <= Len(i) PROVE g[n + 1] = e
    OBVIOUS
  <2>1. n <= Len(i) /\ n + 1 \in 1..Len(i) /\ (n + 1) - 1 = n
    BY <1>1
  <2>2. g[n + 1] = MergeRecord(e, i[n + 1])
    BY <1>2, <1>4, <2>1 DEF MergesUpTo
  <2> DEFINE rec == i[n + 1]
  <2>3. rec \in Record(T) /\ HasMerged(e, rec) /\ e \in Seq(Record(T)) /\ OwnKeys(e)
    BY <1>1, <2>1 DEF Records
  <2> HIDE DEF rec
  <2>4. MergeRecord(e, rec) = e
    BY <2>3, MergeRecordHas
  <2> QED BY <2>2, <2>4 DEF rec
<1> HIDE DEF N
<1>5. Len(i) \in N
  BY <1>1, <1>3, <1>4, Induction
<1> QED BY <1>1, <1>2, <1>5 DEF N

\* A store has all of its own.
LEMMA HasItsOwn ==
  ASSUME NEW T, NEW e \in Records(T), NEW n \in 1..Len(e)
  PROVE  HasMerged(e, e[n])
<1>1. e[n] \in Record(T)
  BY DEF Records
<1>2. e[n].value \in JSON
  BY <1>1 DEF Record
<1>3. MergeJSON(e[n].value, e[n].value) = e[n].value
  BY <1>2, JSONSettles
<1> QED BY <1>3 DEF HasMerged, Contains

\* The merge of records settles.  (mergeIDBRecords)
LEMMA MergeRecordsSettle ==
  ASSUME NEW T, NEW e \in Records(T), NEW i \in Records(T)
  PROVE  LET m == MergeRecords(e, i) IN
         m \in Records(T) /\ MergeRecords(m, i) = m /\ MergeRecords(e, e) = e
<1> DEFINE m == MergeRecords(e, i)
<1>1. m \in Records(T) /\ \A n \in 1..Len(i) : HasMerged(m, i[n])
  BY MergeRecordsHas
<1> HIDE DEF m
<1>2. MergeRecords(m, i) = m
  BY <1>1, MergeRecordsStays
<1>3. MergeRecords(e, e) = e
  BY HasItsOwn, MergeRecordsStays
<1> QED BY <1>1, <1>2, <1>3 DEF m

-----------------------------------------------------------------------------
(***************************************************************************)
(* Databases and snapshots.                                                *)
(***************************************************************************)

\* Stores, and databases, whose records have keys of their own.
Stores(T) ==
  [keyPath : T \union {NoKeyPath}, autoIncrement : BOOLEAN, records : Records(T)]
Databases(T) == [version : Nat, stores : Maps(T, Stores(T))]

\* The merge of what is in S, as a function.
StoreMerge(T) == [e \in Stores(T) |-> [i \in Stores(T) |-> MergeStore(e, i)]]
DatabaseMerge(T) == [e \in Databases(T) |-> [i \in Databases(T) |-> MergeDatabase(e, i)]]

\* The merge of stores settles.
LEMMA StoresSettle ==
  ASSUME NEW T
  PROVE  StaysPut(StoreMerge(T), Stores(T))
<1> SUFFICES ASSUME NEW e \in Stores(T), NEW i \in Stores(T)
             PROVE  LET m == MergeStore(e, i) IN
                    m \in Stores(T) /\ MergeStore(m, i) = m /\ MergeStore(e, e) = e
  BY DEF StaysPut, StoreMerge
<1> DEFINE m == MergeStore(e, i)
           rs == MergeRecords(e.records, i.records)
           path == IF e.keyPath = NoKeyPath THEN i.keyPath ELSE e.keyPath
           auto == e.autoIncrement \/ i.autoIncrement
<1>1. /\ e = [keyPath |-> e.keyPath, autoIncrement |-> e.autoIncrement, records |-> e.records]
      /\ e.keyPath \in T \union {NoKeyPath} /\ i.keyPath \in T \union {NoKeyPath}
      /\ e.autoIncrement \in BOOLEAN /\ i.autoIncrement \in BOOLEAN
      /\ e.records \in Records(T) /\ i.records \in Records(T)
  BY DEF Stores
<1>2. /\ rs \in Records(T) /\ MergeRecords(rs, i.records) = rs
      /\ MergeRecords(e.records, e.records) = e.records
  BY <1>1, MergeRecordsSettle
<1>3. m = [keyPath |-> path, autoIncrement |-> auto, records |-> rs]
  BY DEF MergeStore
<1>4. auto \in BOOLEAN /\ (auto \/ i.autoIncrement) = auto
  BY <1>1
<1>5. path \in T \union {NoKeyPath} /\ (IF path = NoKeyPath THEN i.keyPath ELSE path) = path
  BY <1>1
<1>6. m \in Stores(T)
  <2> HIDE DEF m, path, auto, rs
  <2> QED BY <1>2, <1>3, <1>4, <1>5 DEF Stores
<1>7. MergeStore(m, i) = m
  <2>1. m.keyPath = path /\ m.autoIncrement = auto /\ m.records = rs
    <3> HIDE DEF m, path, auto, rs
    <3> QED BY <1>3
  <2> HIDE DEF m, path, auto, rs
  <2> QED BY <1>2, <1>3, <1>4, <1>5, <2>1 DEF MergeStore
<1>8. MergeStore(e, e) = e
  <2>1. (e.autoIncrement \/ e.autoIncrement) = e.autoIncrement
    BY <1>1
  <2>2. (IF e.keyPath = NoKeyPath THEN e.keyPath ELSE e.keyPath) = e.keyPath
    OBVIOUS
  <2> QED BY <1>1, <1>2, <2>1, <2>2 DEF MergeStore
<1> QED BY <1>6, <1>7, <1>8

\* The merge of databases settles.
LEMMA DatabasesSettle ==
  ASSUME NEW T
  PROVE  StaysPut(DatabaseMerge(T), Databases(T))
<1> SUFFICES ASSUME NEW e \in Databases(T), NEW i \in Databases(T)
             PROVE  LET m == MergeDatabase(e, i) IN
                    m \in Databases(T) /\ MergeDatabase(m, i) = m /\ MergeDatabase(e, e) = e
  BY DEF StaysPut, DatabaseMerge
<1> DEFINE f == StoreMerge(T)
           u == Combined(e.stores, i.stores, f)
           v == Max({e.version, i.version})
           m == MergeDatabase(e, i)
<1>1. /\ e = [version |-> e.version, stores |-> e.stores]
      /\ e.version \in Nat /\ i.version \in Nat
      /\ e.stores \in Maps(T, Stores(T)) /\ i.stores \in Maps(T, Stores(T))
  BY DEF Databases
<1>2. ASSUME NEW a \in Nat, NEW b \in Nat
      PROVE  Max({a, b}) = IF a >= b THEN a ELSE b
  <2>1. {a, b} \in SUBSET Nat
    OBVIOUS
  <2>2. a >= b => Max({a, b}) = a
    BY <2>1, MaxIs
  <2>3. ~(a >= b) => Max({a, b}) = b
    <3> SUFFICES ASSUME ~(a >= b) PROVE Max({a, b}) = b
      OBVIOUS
    <3>1. \A j \in {a, b} : b >= j
      OBVIOUS
    <3> QED BY <2>1, <3>1, MaxIs
  <2> QED BY <2>2, <2>3
<1>3. ASSUME NEW a \in Maps(T, Stores(T)), NEW b \in Maps(T, Stores(T))
      PROVE  Union(a, b, MergeStore) = Combined(a, b, f)
  <2>1. a \in [DOMAIN a -> Stores(T)] /\ b \in [DOMAIN b -> Stores(T)]
    BY MapsAre
  <2>2. \A x \in DOMAIN a \intersect DOMAIN b : MergeStore(a[x], b[x]) = f[a[x]][b[x]]
    BY <2>1 DEF StoreMerge
  <2> HIDE DEF f
  <2> QED BY <2>2 DEF Union, Combined
<1>4. /\ u \in Maps(T, Stores(T)) /\ Combined(u, i.stores, f) = u
      /\ Combined(e.stores, e.stores, f) = e.stores
  <2>1. StaysPut(f, Stores(T))
    BY StoresSettle
  <2> HIDE DEF f
  <2> QED BY <1>1, <2>1, CombinedSettles
<1> HIDE DEF f
<1>5. m = [version |-> v, stores |-> u]
  BY <1>1, <1>3 DEF MergeDatabase
<1>6. v \in Nat /\ Max({v, i.version}) = v /\ Max({e.version, e.version}) = e.version
  <2>1. v = IF e.version >= i.version THEN e.version ELSE i.version
    BY <1>1, <1>2
  <2> HIDE DEF v
  <2>2. v \in Nat /\ v >= i.version
    BY <1>1, <2>1
  <2> QED BY <1>1, <1>2, <2>2
<1> HIDE DEF m, u, v
<1>7. m \in Databases(T) /\ m.version = v /\ m.stores = u
  BY <1>4, <1>5, <1>6 DEF Databases
<1>8. MergeDatabase(m, i) = m
  <2>1. Union(m.stores, i.stores, MergeStore) = u
    BY <1>1, <1>3, <1>4, <1>7
  <2> QED BY <1>5, <1>6, <1>7, <2>1 DEF MergeDatabase
<1>9. MergeDatabase(e, e) = e
  <2>1. Union(e.stores, e.stores, MergeStore) = e.stores
    BY <1>1, <1>3, <1>4
  <2> QED BY <1>1, <1>6, <2>1 DEF MergeDatabase
<1> QED BY <1>7, <1>8, <1>9 DEF m

\* Snapshots are maps of such databases.
LEMMA SnapshotsAre ==
  ASSUME NEW T, NEW s, IsSnapshot(s, T), KeysDiffer(s)
  PROVE  s \in Maps(T, Databases(T))
<1>1. ASSUME NEW d \in DOMAIN s PROVE s[d] \in Databases(T)
  <2> DEFINE f == s[d].stores
  <2>1. s[d] \in [version : Nat, stores : {f}] /\ IsMap(f, T)
    BY DEF IsSnapshot, IsDatabase
  <2>2. ASSUME NEW x \in DOMAIN f PROVE f[x] \in Stores(T)
    <3>1. f[x] \in Store(T)
      BY DEF IsSnapshot, IsDatabase
    <3>2. OwnKeys(f[x].records)
      BY DEF KeysDiffer
    <3> HIDE DEF f
    <3> QED BY <3>1, <3>2 DEF Store, Stores, Records
  <2> HIDE DEF f
  <2>3. f \in [DOMAIN f -> Stores(T)] /\ DOMAIN f \in SUBSET T
    BY <2>1, <2>2 DEF IsMap
  <2>4. f \in Maps(T, Stores(T))
    BY <2>3, MapsAre
  <2> QED BY <2>1, <2>4 DEF Databases
<1>2. s \in [DOMAIN s -> Databases(T)] /\ DOMAIN s \in SUBSET T
  BY <1>1 DEF IsSnapshot, IsMap
<1> QED BY <1>2, MapsAre

\* Merged once more, with what was merged or with itself, a snapshot stays as it
\* is, whatever two snapshots were merged; and no record is doubled.
\* (mergeIndexedDB)
THEOREM SnapshotsSettle ==
  ASSUME NEW T, NEW e, IsSnapshot(e, T), KeysDiffer(e), NEW i, IsSnapshot(i, T), KeysDiffer(i)
  PROVE  LET m == MergeIndexedDB(e, i) IN
         MergeIndexedDB(m, i) = m /\ MergeIndexedDB(m, m) = m /\ KeysDiffer(m)
<1> DEFINE f == DatabaseMerge(T)
           M == Maps(T, Databases(T))
           m == Combined(e, i, f)
<1>1. e \in M /\ i \in M
  BY SnapshotsAre
<1>2. ASSUME NEW a \in M, NEW b \in M
      PROVE  MergeIndexedDB(a, b) = Combined(a, b, f)
  <2>1. a \in [DOMAIN a -> Databases(T)] /\ b \in [DOMAIN b -> Databases(T)]
    BY MapsAre
  <2>2. \A x \in DOMAIN a \intersect DOMAIN b : MergeDatabase(a[x], b[x]) = f[a[x]][b[x]]
    BY <2>1 DEF DatabaseMerge
  <2> HIDE DEF f
  <2> QED BY <2>2 DEF MergeIndexedDB, Union, Combined
<1>3. \A a, b \in M : /\ Combined(a, b, f) \in M
                      /\ Combined(Combined(a, b, f), b, f) = Combined(a, b, f)
                      /\ Combined(a, a, f) = a
  <2>1. StaysPut(f, Databases(T))
    BY DatabasesSettle
  <2> HIDE DEF f
  <2> QED BY <2>1, CombinedSettles
<1> HIDE DEF f
<1>4. m \in M /\ Combined(m, i, f) = m /\ Combined(m, m, f) = m
  BY <1>1, <1>3
<1>5. KeysDiffer(m)
  <2> HIDE DEF m
  <2>1. m \in [DOMAIN m -> Databases(T)]
    BY <1>4, MapsAre
  <2> SUFFICES ASSUME NEW d \in DOMAIN m, NEW s \in DOMAIN m[d].stores
               PROVE  OwnKeys(m[d].stores[s].records)
    BY DEF KeysDiffer
  <2>2. m[d].stores \in Maps(T, Stores(T))
    BY <2>1 DEF Databases
  <2>3. m[d].stores[s] \in Stores(T)
    BY <2>2, MapsAre
  <2> QED BY <2>3 DEF Stores, Records
<1> HIDE DEF m, M
<1> QED BY <1>1, <1>2, <1>4, <1>5 DEF m

-----------------------------------------------------------------------------
(***************************************************************************)
(* The leaves of values.                                                   *)
(***************************************************************************)

\* The leaves of the values V, and which two are alike, with those of their parts.
PictureOf(V, below) ==
  [leaves |-> [v \in V |->
     CASE v.kind = "atom" -> {<<<<>>, v>>}
       [] v.kind = "object" -> UNION {Under(k, below.leaves[v.of[k]]) : k \in Present(v)}
       [] v.kind = "list" -> {<<<<x>>, x>> : x \in ToSet(v.of)}],
   alike |-> [e \in V |-> [i \in V |->
     /\ e.kind = i.kind
     /\ e.kind = "object" =>
          \A k \in Present(e) \intersect Present(i) : below.alike[e.of[k]][i.of[k]]]]]

NoPicture == [leaves |-> <<>>, alike |-> <<>>]

\* The recursion over the levels of the reference is well defined, too.
LEMMA PicturesAre ==
  /\ Picture[0] = NoPicture
  /\ \A n \in 1..Depth : Picture[n] = PictureOf(Level[n].values, Picture[n - 1])
<1> DEFINE Of(i, below) == PictureOf(Level[i].values, below)
           Is(g, n) == g = [i \in 0..n |-> IF i = 0 THEN NoPicture ELSE Of(i, g[i - 1])]
           I == {n \in Nat : \E g : Is(g, n)}
<1>1. 0 \in I
  <2> DEFINE g == [i \in 0..0 |-> NoPicture]
  <2>1. g = [i \in 0..0 |-> IF i = 0 THEN NoPicture ELSE Of(i, g[i - 1])]
    OBVIOUS
  <2> HIDE DEF g
  <2> QED BY <2>1
<1>2. ASSUME NEW n \in Nat, n \in I PROVE n + 1 \in I
  <2>1. PICK g : Is(g, n)
    BY <1>2
  <2> DEFINE h == [i \in 0..(n + 1) |-> IF i = n + 1 THEN Of(n + 1, g[n]) ELSE g[i]]
             v == [i \in 0..(n + 1) |-> IF i = 0 THEN NoPicture ELSE Of(i, h[i - 1])]
  <2>2. \A i \in 0..n : g[i] = IF i = 0 THEN NoPicture ELSE Of(i, g[i - 1])
    <3> DEFINE w == [i \in 0..n |-> IF i = 0 THEN NoPicture ELSE Of(i, g[i - 1])]
    <3>1. g = w
      BY <2>1
    <3>2. \A i \in 0..n : w[i] = IF i = 0 THEN NoPicture ELSE Of(i, g[i - 1])
      OBVIOUS
    <3> HIDE DEF w
    <3> QED BY <3>1, <3>2
  <2>3. ASSUME NEW i \in 0..(n + 1)
        PROVE  h[i] = IF i = 0 THEN NoPicture ELSE Of(i, h[i - 1])
    <3>1. CASE i = n + 1
      <4>1. h[i] = PictureOf(Level[n + 1].values, g[n]) /\ i - 1 = n /\ h[i - 1] = g[n] /\ i # 0
        BY <3>1
      <4> QED BY <4>1
    <3>2. CASE i # n + 1
      <4>1. i \in 0..n /\ h[i] = g[i]
        BY <3>2
      <4>2. i # 0 => i - 1 \in 0..n /\ h[i - 1] = g[i - 1]
        BY <4>1
      <4> HIDE DEF h
      <4> QED BY <2>2, <4>1, <4>2
    <3> QED BY <3>1, <3>2
  <2>4. h = v
    <3>1. h = [i \in 0..(n + 1) |-> h[i]]
      OBVIOUS
    <3>2. v = [i \in 0..(n + 1) |-> v[i]]
      OBVIOUS
    <3>3. \A i \in 0..(n + 1) : v[i] = IF i = 0 THEN NoPicture ELSE Of(i, h[i - 1])
      OBVIOUS
    <3> HIDE DEF h, v
    <3> QED BY <2>3, <3>1, <3>2, <3>3
  <2> HIDE DEF h
  <2> QED BY <2>4 DEF v
<1> HIDE DEF I
<1>3. Depth \in I
  BY <1>1, <1>2, Induction, DepthAssumption
<1>4. Is(Picture, Depth)
  <2>1. \E g : Is(g, Depth)
    BY <1>3 DEF I
  <2>2. Picture = CHOOSE g : Is(g, Depth)
    BY DEF Picture, PictureOf, NoPicture
  <2> QED BY <2>1, <2>2
<1>5. ASSUME NEW n \in 0..Depth
      PROVE  Picture[n] = IF n = 0 THEN NoPicture ELSE PictureOf(Level[n].values, Picture[n - 1])
  <2> DEFINE w == [i \in 0..Depth |-> IF i = 0 THEN NoPicture ELSE Of(i, Picture[i - 1])]
  <2>1. Picture = w
    BY <1>4
  <2>2. w[n] = IF n = 0 THEN NoPicture ELSE PictureOf(Level[n].values, Picture[n - 1])
    OBVIOUS
  <2> HIDE DEF w
  <2> QED BY <2>1, <2>2
<1> QED BY <1>5, DepthAssumption

\* Leaves, with paths over U; the leaves F[k] under k, for all k in K.
LeavesOver(U) == Seq(U) \X U
All(K, F) == UNION {Under(k, F[k]) : k \in K}

\* A path over U with an element of U at its end is a leaf over U.
LEMMA LeafOver ==
  ASSUME NEW U, NEW p \in Seq(U), NEW x \in U
  PROVE  <<p, x>> \in LeavesOver(U)
BY DEF LeavesOver

\* Leaves that are put below different names have different paths.
LEMMA PutApart ==
  ASSUME NEW U, NEW j, NEW k, Atom(j) \in U, Atom(k) \in U,
         NEW l \in LeavesOver(U), NEW m \in LeavesOver(U)
  PROVE  /\ Put(j, l) \in LeavesOver(U)
         /\ Put(j, l)[1] = Put(k, m)[1] <=> j = k /\ l[1] = m[1]
<1> DEFINE a == <<Atom(j)>>
           b == <<Atom(k)>>
           p == l[1]
           q == m[1]
<1>1. p \in Seq(U) /\ q \in Seq(U) /\ l[2] \in U /\ a \in Seq(U) /\ b \in Seq(U)
  BY DEF LeavesOver
<1>2. Len(a) = 1 /\ Len(b) = 1 /\ a[1] = Atom(j) /\ b[1] = Atom(k)
  OBVIOUS
<1>3. Put(j, l) = <<a \o p, l[2]>> /\ Put(k, m) = <<b \o q, m[2]>>
  BY DEF Put
<1> HIDE DEF a, b, p, q
<1>4. /\ a \o p \in Seq(U) /\ Joins(a \o p, a, p)
      /\ b \o q \in Seq(U) /\ Joins(b \o q, b, q)
  BY <1>1, Prefixed
<1>5. ASSUME a \o p = b \o q PROVE j = k /\ p = q
  <2>1. (a \o p)[1] = Atom(j) /\ (b \o q)[1] = Atom(k)
    BY <1>2, <1>4 DEF Joins
  <2>2. Atom(j) = Atom(k)
    BY <1>5, <2>1
  <2>3. j = k
    BY <2>2 DEF Atom
  <2>4. a = b
    BY <2>3 DEF a, b
  <2>5. Joins(a \o p, a, q)
    BY <1>4, <1>5, <2>4
  <2> QED BY <1>1, <1>4, <2>3, <2>5, PrefixCancels
<1>6. j = k /\ p = q => a \o p = b \o q
  BY DEF a, b
<1>7. Put(j, l) \in LeavesOver(U)
  <2> DEFINE w == a \o p
             z == l[2]
  <2>1. w \in Seq(U) /\ z \in U /\ Put(j, l) = <<w, z>>
    BY <1>1, <1>3, <1>4
  <2> HIDE DEF w, z
  <2> QED BY <2>1 DEF LeavesOver
<1> QED BY <1>3, <1>5, <1>6, <1>7 DEF p, q

\* A leaf of All is one that was put below some name.
LEMMA AllAre ==
  ASSUME NEW K, NEW F, NEW l
  PROVE  l \in All(K, F) <=> \E k \in K : \E x \in F[k] : l = Put(k, x)
BY DEF All, Under

\* What overrides each part overrides all.
EachOverridden(U, K, E, I, M) ==
  \A k \in K : /\ Atom(k) \in U /\ E[k] \subseteq LeavesOver(U)
               /\ I[k] \subseteq LeavesOver(U)
               /\ M[k] = Overridden(E[k], I[k])

\* What is overridden name by name is overridden altogether.
LEMMA AllOverridden ==
  ASSUME NEW U, NEW K, NEW E, NEW I, NEW M, EachOverridden(U, K, E, I, M)
  PROVE  All(K, M) = Overridden(All(K, E), All(K, I))
<1>1. \A k \in K : \A x \in M[k] : x \in I[k] \/ (x \in E[k] /\ \A y \in I[k] : y[1] # x[1])
  BY DEF EachOverridden, Overridden
<1>2. \A k \in K : /\ \A x \in I[k] : x \in M[k]
                   /\ \A x \in E[k] : (\A y \in I[k] : y[1] # x[1]) => x \in M[k]
  BY DEF EachOverridden, Overridden
<1>3. ASSUME NEW l, l \in All(K, M) PROVE l \in Overridden(All(K, E), All(K, I))
  <2>1. PICK k \in K : \E x \in M[k] : l = Put(k, x)
    BY <1>3, AllAre
  <2>2. PICK x \in M[k] : l = Put(k, x)
    BY <2>1
  <2>3. CASE x \in I[k]
    <3>1. l \in All(K, I)
      BY <2>2, <2>3, AllAre
    <3> QED BY <3>1 DEF Overridden
  <2>4. CASE x \in E[k] /\ \A y \in I[k] : y[1] # x[1]
    <3>1. l \in All(K, E)
      BY <2>2, <2>4, AllAre
    <3>2. ASSUME NEW m \in All(K, I) PROVE m[1] # l[1]
      <4>1. PICK j \in K : \E y \in I[j] : m = Put(j, y)
        BY AllAre
      <4>2. PICK y \in I[j] : m = Put(j, y)
        BY <4>1
      <4>3. y \in LeavesOver(U) /\ x \in LeavesOver(U) /\ Atom(j) \in U /\ Atom(k) \in U
        BY <2>4, <4>2 DEF EachOverridden
      <4>4. Put(j, y)[1] = Put(k, x)[1] => j = k /\ y[1] = x[1]
        BY <4>3, PutApart
      <4> QED BY <2>2, <2>4, <4>2, <4>4
    <3> QED BY <3>1, <3>2 DEF Overridden
  <2> QED BY <1>1, <2>3, <2>4
<1>4. ASSUME NEW l, l \in Overridden(All(K, E), All(K, I)) PROVE l \in All(K, M)
  <2>1. CASE l \in All(K, I)
    <3>1. PICK k \in K : \E x \in I[k] : l = Put(k, x)
      BY <2>1, AllAre
    <3> QED BY <1>2, <3>1, AllAre
  <2>2. CASE l \in All(K, E) /\ \A m \in All(K, I) : m[1] # l[1]
    <3>1. PICK k \in K : \E x \in E[k] : l = Put(k, x)
      BY <2>2, AllAre
    <3>2. PICK x \in E[k] : l = Put(k, x)
      BY <3>1
    <3>3. ASSUME NEW y \in I[k] PROVE y[1] # x[1]
      <4>1. Put(k, y) \in All(K, I)
        BY <3>3, AllAre
      <4>2. y \in LeavesOver(U) /\ x \in LeavesOver(U) /\ Atom(k) \in U
        BY <3>2 DEF EachOverridden
      <4>3. Put(k, y)[1] = Put(k, x)[1] <=> y[1] = x[1]
        BY <4>2, PutApart
      <4> QED BY <2>2, <3>2, <4>1, <4>3
    <3>4. x \in M[k]
      BY <1>2, <3>2, <3>3
    <3> QED BY <3>2, <3>4, AllAre
  <2> QED BY <1>4, <2>1, <2>2 DEF Overridden
<1> QED BY <1>3, <1>4

\* Leaves over U, put below names from U, are leaves over U.
LEMMA AllOver ==
  ASSUME NEW U, NEW K, NEW F, \A k \in K : Atom(k) \in U /\ F[k] \subseteq LeavesOver(U)
  PROVE  All(K, F) \subseteq LeavesOver(U)
<1> SUFFICES ASSUME NEW l \in All(K, F) PROVE l \in LeavesOver(U)
  OBVIOUS
<1>1. PICK k \in K : \E x \in F[k] : l = Put(k, x)
  BY AllAre
<1> QED BY <1>1, PutApart

\* None of the leaves on one side.
LEMMA OverriddenNone ==
  ASSUME NEW E
  PROVE  Overridden(E, {}) = E /\ Overridden({}, E) = E
BY DEF Overridden

\* The leaves of an object's fields.
LeavesOfFields(v, Q) ==
  [k \in Fields |-> IF v.of[k] = Absent THEN {} ELSE Q.leaves[v.of[k]]]

\* The leaves of a value, by its kind.
LEMMA LeavesAre ==
  ASSUME NEW S, NEW Q, NEW v \in ValuesOver(S)
  PROVE  LET L == PictureOf(ValuesOver(S), Q).leaves[v] IN
         /\ v.kind = "atom" => L = {<<<<>>, v>>}
         /\ v.kind = "object" => L = All(Fields, LeavesOfFields(v, Q))
         /\ v.kind = "list" => L = {<<<<x>>, x>> : x \in ToSet(v.of)}
<1> DEFINE V == ValuesOver(S)
           F == LeavesOfFields(v, Q)
           L == PictureOf(V, Q).leaves[v]
<1>1. v \in V
  OBVIOUS
<1> HIDE DEF V
<1>2. L = CASE v.kind = "atom" -> {<<<<>>, v>>}
            [] v.kind = "object" -> UNION {Under(k, Q.leaves[v.of[k]]) : k \in Present(v)}
            [] v.kind = "list" -> {<<<<x>>, x>> : x \in ToSet(v.of)}
  BY <1>1 DEF PictureOf
<1>3. UNION {Under(k, Q.leaves[v.of[k]]) : k \in Present(v)} = All(Fields, F)
  <2>1. \A k \in Present(v) : k \in Fields /\ F[k] = Q.leaves[v.of[k]]
    BY DEF Present, LeavesOfFields
  <2>2. \A k \in Fields : k \notin Present(v) => F[k] = {}
    BY DEF Present, LeavesOfFields
  <2>3. \A l : l \in All(Fields, F) <=> \E k \in Fields : \E x \in F[k] : l = Put(k, x)
    BY AllAre
  <2>4. \A k, l : l \in Under(k, Q.leaves[v.of[k]]) <=> \E x \in Q.leaves[v.of[k]] : l = Put(k, x)
    BY DEF Under
  <2> HIDE DEF F
  <2>5. \A l : l \in UNION {Under(k, Q.leaves[v.of[k]]) : k \in Present(v)}
               <=> \E k \in Present(v) : l \in Under(k, Q.leaves[v.of[k]])
    OBVIOUS
  <2>6. \A l : l \in UNION {Under(k, Q.leaves[v.of[k]]) : k \in Present(v)}
               <=> l \in All(Fields, F)
    <3> TAKE l
    <3>1. ASSUME NEW k \in Present(v), l \in Under(k, Q.leaves[v.of[k]])
          PROVE  l \in All(Fields, F)
      <4>1. \E x \in F[k] : l = Put(k, x)
        BY <2>1, <2>4, <3>1
      <4> QED BY <2>1, <2>3, <4>1
    <3>2. ASSUME NEW k \in Fields, \E x \in F[k] : l = Put(k, x)
          PROVE  k \in Present(v) /\ l \in Under(k, Q.leaves[v.of[k]])
      <4>1. k \in Present(v)
        BY <2>2, <3>2
      <4> QED BY <2>1, <2>4, <3>2, <4>1
    <3> QED BY <2>3, <2>5, <3>1, <3>2
  <2> QED BY <2>6
<1> HIDE DEF L, F
<1>4. v.kind = "object" => L = UNION {Under(k, Q.leaves[v.of[k]]) : k \in Present(v)}
  BY <1>2
<1>5. v.kind = "atom" => L = {<<<<>>, v>>}
  BY <1>2
<1>6. v.kind = "list" => L = {<<<<x>>, x>> : x \in ToSet(v.of)}
  BY <1>2
<1> QED BY <1>3, <1>4, <1>5, <1>6 DEF L, V, F

\* The leaves are over U, and those of a merge are the overridden ones.
Pictured(S, f, Q, U) ==
  /\ \A v \in S : Q.leaves[v] \subseteq LeavesOver(U)
  /\ \A e, i \in S : Q.alike[e][i] =>
       Q.leaves[f[e][i]] = Overridden(Q.leaves[e], Q.leaves[i])

\* If merged values have overridden leaves, so have values of one level more.
LEMMA LeavesOverridden ==
  ASSUME NEW U, NEW S, NEW f, NEW Q, StaysPut(f, S), Absent \notin S, S \subseteq U,
         ValuesOver(S) \subseteq U, \A k \in Fields : Atom(k) \in U, Pictured(S, f, Q, U),
         NEW e \in ValuesOver(S), NEW i \in ValuesOver(S)
  PROVE  LET P == PictureOf(ValuesOver(S), Q) IN
         /\ P.leaves[e] \subseteq LeavesOver(U)
         /\ P.alike[e][i] =>
              P.leaves[MergeWith(f, e, i)] = Overridden(P.leaves[e], P.leaves[i])
<1> DEFINE V == ValuesOver(S)
           P == PictureOf(V, Q)
           m == MergeWith(f, e, i)
           Of(v) == P.leaves[v]
<1>1. \A v \in V : \/ v.kind = "atom"
                   \/ v.kind = "object" /\ v.of \in [Fields -> S \union {Absent}]
                   \/ v.kind = "list" /\ v.of \in Seq(S)
  BY DEF ValuesOver
<1>2. m \in V
  BY MergeWithSettles
<1>3. \A v \in V : /\ v.kind = "atom" => Of(v) = {<<<<>>, v>>}
                   /\ v.kind = "object" => Of(v) = All(Fields, LeavesOfFields(v, Q))
                   /\ v.kind = "list" => Of(v) = {<<<<x>>, x>> : x \in ToSet(v.of)}
  BY LeavesAre
<1>4. P.alike[e][i] =>
        /\ e.kind = i.kind
        /\ e.kind = "object" =>
             \A k \in Present(e) \intersect Present(i) : Q.alike[e.of[k]][i.of[k]]
  <2>1. e \in V /\ i \in V
    OBVIOUS
  <2> HIDE DEF V
  <2> QED BY <2>1 DEF PictureOf
<1>5. e \in V /\ i \in V /\ V \subseteq U
  OBVIOUS
<1> HIDE DEF V, P
<1>6. ASSUME NEW v \in V, v.kind = "object", NEW k \in Fields
      PROVE  LeavesOfFields(v, Q)[k] \subseteq LeavesOver(U)
  <2>1. v.of[k] \in S \union {Absent}
    BY <1>1, <1>6
  <2> QED BY <2>1 DEF LeavesOfFields, Pictured
<1>7. Of(e) \subseteq LeavesOver(U)
  <2>1. CASE e.kind = "atom"
    <3>1. Of(e) = {<<<<>>, e>>} /\ e \in U /\ <<>> \in Seq(U)
      BY <1>3, <1>5, <2>1
    <3> QED BY <3>1, LeafOver
  <2>2. CASE e.kind = "object"
    <3>1. Of(e) = All(Fields, LeavesOfFields(e, Q))
      BY <1>3, <1>5, <2>2
    <3> QED BY <1>5, <1>6, <2>2, <3>1, AllOver
  <2>3. CASE e.kind = "list"
    <3>1. Of(e) = {<<<<x>>, x>> : x \in ToSet(e.of)} /\ e.of \in Seq(S)
      BY <1>1, <1>3, <1>5, <2>3
    <3>2. ToSet(e.of) \subseteq U
      BY <3>1 DEF ToSet
    <3>3. \A x \in U : <<<<x>>, x>> \in LeavesOver(U)
      <4> TAKE x \in U
      <4>1. <<x>> \in Seq(U)
        OBVIOUS
      <4> QED BY <4>1, LeafOver
    <3> QED BY <3>1, <3>2, <3>3
  <2> QED BY <1>1, <1>5, <2>1, <2>2, <2>3
<1>8. ASSUME P.alike[e][i] PROVE Of(m) = Overridden(Of(e), Of(i))
  <2>1. CASE e.kind = "atom"
    <3>1. i.kind = "atom" /\ ~Both(e, i, "object") /\ ~Both(e, i, "list")
      BY <1>4, <1>8, <2>1 DEF Both
    <3>2. m = i
      BY <3>1 DEF MergeWith
    <3>3. Of(e) = {<<<<>>, e>>} /\ Of(i) = {<<<<>>, i>>}
      BY <1>3, <1>5, <2>1, <3>1
    <3> HIDE DEF m
    <3>4. Overridden({<<<<>>, e>>}, {<<<<>>, i>>}) = {<<<<>>, i>>}
      BY DEF Overridden
    <3> QED BY <3>2, <3>3, <3>4
  <2>2. CASE e.kind = "list"
    <3>1. i.kind = "list" /\ Both(e, i, "list") /\ ~Both(e, i, "object")
      BY <1>4, <1>8, <2>2 DEF Both
    <3> DEFINE j == Joined(e.of, i.of)
               X == ToSet(e.of)
               Y == ToSet(i.of)
    <3>2. m = [kind |-> "list", of |-> j]
      BY <3>1 DEF MergeWith, List
    <3>3. e.of \in Seq(S) /\ i.of \in Seq(S)
      BY <1>1, <1>5, <2>2, <3>1
    <3>4. j \in Seq(S) /\ \A x : Contains(j, x) <=> Contains(e.of, x) \/ Contains(i.of, x)
      BY <3>3, JoinedWith
    <3>5. \A s \in Seq(S) : \A x : x \in ToSet(s) <=> Contains(s, x)
      BY DEF ToSet, Contains
    <3> HIDE DEF m, j
    <3>6. ToSet(j) = X \union Y
      BY <3>3, <3>4, <3>5
    <3>7. Of(m) = {<<<<x>>, x>> : x \in X \union Y}
      BY <1>2, <1>3, <3>2, <3>6
    <3>8. Of(e) = {<<<<x>>, x>> : x \in X} /\ Of(i) = {<<<<x>>, x>> : x \in Y}
      BY <1>3, <1>5, <2>2, <3>1
    <3> HIDE DEF X, Y
    <3>9. Overridden({<<<<x>>, x>> : x \in X}, {<<<<x>>, x>> : x \in Y})
            = {<<<<x>>, x>> : x \in X \union Y}
      <4>1. \A x, y : <<x>> = <<y>> => x = y
        OBVIOUS
      <4> QED BY <4>1 DEF Overridden
    <3> QED BY <3>7, <3>8, <3>9
  <2>3. CASE e.kind = "object"
    <3> DEFINE E == LeavesOfFields(e, Q)
               I == LeavesOfFields(i, Q)
               M == LeavesOfFields(m, Q)
    <3>1. i.kind = "object" /\ Both(e, i, "object")
      BY <1>4, <1>8, <2>3 DEF Both
    <3>2. m.kind = "object" /\ \A k \in Fields :
            m.of[k] = IF i.of[k] = Absent THEN e.of[k]
                      ELSE IF e.of[k] = Absent THEN i.of[k] ELSE f[e.of[k]][i.of[k]]
      <4> DEFINE h == [k \in Fields |-> IF i.of[k] = Absent THEN e.of[k]
                                        ELSE IF e.of[k] = Absent THEN i.of[k]
                                        ELSE f[e.of[k]][i.of[k]]]
      <4>1. m = Object(h)
        BY Zenon, <3>1 DEF MergeWith, Both
      <4>2. Object(h) = [kind |-> "object", of |-> h]
        <5>1. [k \in Fields |-> IF k \in DOMAIN h THEN h[k] ELSE Absent] = h
          OBVIOUS
        <5> HIDE DEF h
        <5> QED BY <5>1 DEF Object
      <4>3. \A k \in Fields : h[k] = IF i.of[k] = Absent THEN e.of[k]
                                     ELSE IF e.of[k] = Absent THEN i.of[k]
                                     ELSE f[e.of[k]][i.of[k]]
        OBVIOUS
      <4> HIDE DEF h, m
      <4> QED BY <4>1, <4>2, <4>3
    <3> HIDE DEF m
    <3>3. ASSUME NEW k \in Fields
          PROVE  /\ Atom(k) \in U /\ E[k] \subseteq LeavesOver(U) /\ I[k] \subseteq LeavesOver(U)
                 /\ M[k] = Overridden(E[k], I[k])
      <4>1. E[k] \subseteq LeavesOver(U) /\ I[k] \subseteq LeavesOver(U)
        BY <1>5, <1>6, <2>3, <3>1
      <4>2. e.of[k] \in S \union {Absent} /\ i.of[k] \in S \union {Absent}
        BY <1>1, <1>5, <2>3, <3>1
      <4>3. /\ E[k] = IF e.of[k] = Absent THEN {} ELSE Q.leaves[e.of[k]]
            /\ I[k] = IF i.of[k] = Absent THEN {} ELSE Q.leaves[i.of[k]]
            /\ M[k] = IF m.of[k] = Absent THEN {} ELSE Q.leaves[m.of[k]]
        BY DEF LeavesOfFields
      <4> SUFFICES M[k] = Overridden(E[k], I[k])
        BY <4>1
      <4> HIDE DEF E, I, M
      <4>4. CASE i.of[k] = Absent
        BY <3>2, <4>3, <4>4, OverriddenNone
      <4>5. CASE i.of[k] # Absent /\ e.of[k] = Absent
        BY <3>2, <4>3, <4>5, OverriddenNone
      <4>6. CASE i.of[k] # Absent /\ e.of[k] # Absent
        <5>1. k \in Present(e) \intersect Present(i)
          BY <4>6 DEF Present
        <5>2. Q.alike[e.of[k]][i.of[k]]
          BY <1>4, <1>8, <2>3, <5>1
        <5>3. f[e.of[k]][i.of[k]] \in S
          BY <4>2, <4>6 DEF StaysPut
        <5>4. Q.leaves[f[e.of[k]][i.of[k]]] = Overridden(Q.leaves[e.of[k]], Q.leaves[i.of[k]])
          BY <4>2, <4>6, <5>2 DEF Pictured
        <5> QED BY <3>2, <4>3, <4>6, <5>3, <5>4
      <4> QED BY <4>4, <4>5, <4>6
    <3>4. Of(m) = All(Fields, M) /\ Of(e) = All(Fields, E) /\ Of(i) = All(Fields, I)
      BY <1>2, <1>3, <1>5, <2>3, <3>1, <3>2
    <3> HIDE DEF E, I, M
    <3>5. All(Fields, M) = Overridden(All(Fields, E), All(Fields, I))
      <4>1. EachOverridden(U, Fields, E, I, M)
        BY <3>3 DEF EachOverridden
      <4> QED BY <4>1, AllOverridden
    <3> QED BY <3>4, <3>5
  <2> QED BY <1>1, <1>5, <2>1, <2>2, <2>3
<1> QED BY <1>7, <1>8 DEF P, V

\* At every level.
LEMMA PicturesOverridden ==
  ASSUME NEW U, \A k \in Fields : Atom(k) \in U, \A n \in 0..Depth : Level[n].values \subseteq U
  PROVE  Pictured(JSON, Level[Depth].merge, Picture[Depth], U)
<1> DEFINE Fine(n) == Pictured(Level[n].values, Level[n].merge, Picture[n], U)
           N == {n \in Nat : n <= Depth => Fine(n)}
<1>1. 0 \in N
  BY LevelsAre DEF NoLevel, Pictured
<1>2. ASSUME NEW n \in Nat, n \in N PROVE n + 1 \in N
  <2> SUFFICES ASSUME n + 1 <= Depth PROVE Fine(n + 1)
    OBVIOUS
  <2> DEFINE S == Level[n].values
             f == Level[n].merge
             Q == Picture[n]
             V == ValuesOver(S)
             g == [e \in V |-> [i \in V |-> MergeWith(f, e, i)]]
             P == PictureOf(V, Q)
  <2>1. n \in 0..Depth /\ n + 1 \in 0..Depth /\ n + 1 \in 1..Depth /\ (n + 1) - 1 = n /\ n <= Depth
    BY DepthAssumption
  <2>2. Level[n + 1].values = V /\ Level[n + 1].merge = g
    <3>1. Level[n + 1] = Deeper(Level[n])
      BY <2>1, LevelsAre
    <3> QED BY <3>1 DEF Deeper
  <2>3. Picture[n + 1] = P
    <3>1. Picture[n + 1] = PictureOf(Level[n + 1].values, Picture[n])
      BY <2>1, PicturesAre
    <3> QED BY <2>2, <3>1
  <2>4. StaysPut(f, S) /\ Absent \notin S /\ S \subseteq U /\ V \subseteq U /\ Pictured(S, f, Q, U)
    <3>1. Pictured(S, f, Q, U)
      BY <1>2, <2>1
    <3>2. V \subseteq U
      BY <2>1, <2>2
    <3> QED BY <2>1, <3>1, <3>2, LevelsSettle
  <2>5. \A e, i \in V : g[e][i] = MergeWith(f, e, i)
    OBVIOUS
  <2> HIDE DEF S, f, Q, g
  <2>6. ASSUME NEW e \in V, NEW i \in V
        PROVE  /\ P.leaves[e] \subseteq LeavesOver(U)
               /\ P.alike[e][i] =>
                    P.leaves[MergeWith(f, e, i)] = Overridden(P.leaves[e], P.leaves[i])
    BY <2>4, <2>6, LeavesOverridden
  <2> HIDE DEF V, P
  <2>7. Pictured(V, g, P, U)
    BY <2>5, <2>6 DEF Pictured
  <2> QED BY <2>2, <2>3, <2>7
<1> HIDE DEF N
<1>3. Depth \in N
  BY <1>1, <1>2, Induction, DepthAssumption
<1>4. Fine(Depth)
  <2>1. Depth <= Depth
    BY DepthAssumption
  <2> QED BY <1>3, <2>1 DEF N
<1> QED BY <1>4 DEF JSON

-----------------------------------------------------------------------------
(***************************************************************************)
(* The leaves of stores, of databases and of snapshots.                    *)
(***************************************************************************)

\* The values of key k in a store, which has at most one; and those merged.
ValuesUpTo(rs, k, n) == {rs[j].value : j \in {j \in 1..n : rs[j].key = k}}
ValuesOf(rs, k) == ValuesUpTo(rs, k, Len(rs))

MergedValues(E, I) ==
  IF I = {} THEN E ELSE IF E = {} THEN I ELSE {MergeJSON(l[1], l[2]) : l \in E \X I}

\* The values among the first n records with the key k.
LEMMA ValuesAre ==
  ASSUME NEW rs, NEW k, NEW n, NEW v
  PROVE  v \in ValuesUpTo(rs, k, n) <=> \E j \in 1..n : rs[j].key = k /\ v = rs[j].value
BY DEF ValuesUpTo

\* Two single values have one merge.
LEMMA MergedOne ==
  ASSUME NEW a, NEW b
  PROVE  MergedValues({a}, {b}) = {MergeJSON(a, b)}
<1> DEFINE P == {a} \X {b}
           M == {MergeJSON(l[1], l[2]) : l \in P}
<1>1. \A l \in P : l[1] = a /\ l[2] = b
  OBVIOUS
<1>2. <<a, b>> \in P
  OBVIOUS
<1>3. MergedValues({a}, {b}) = M
  BY DEF MergedValues
<1> HIDE DEF P
<1>4. \A x : x \in M <=> x = MergeJSON(a, b)
  BY <1>1, <1>2
<1> HIDE DEF M
<1> QED BY <1>3, <1>4

\* The records with a key have at most one value.
LEMMA OneValue ==
  ASSUME NEW T, NEW rs \in Records(T), NEW k, k # NoKey
  PROVE  /\ \A v, w \in ValuesOf(rs, k) : v = w
         /\ \A v \in ValuesOf(rs, k) : v \in JSON
<1>1. \A j \in 1..Len(rs) : rs[j] \in Record(T)
  BY DEF Records
<1>2. \A j \in 1..Len(rs) : rs[j].value \in JSON
  BY <1>1 DEF Record
<1>3. \A m, n \in 1..Len(rs) : rs[m].key = rs[n].key /\ rs[m].key # NoKey => m = n
  BY DEF Records, OwnKeys
<1> QED BY <1>2, <1>3, ValuesAre DEF ValuesOf

\* One record merged: keyless records are added, the value of its key is merged.
IsMergedWith(m, out, rec) ==
  /\ \A r : r.key = NoKey => (Contains(m, r) <=> Contains(out, r) \/ r = rec)
  /\ \A k : k # NoKey =>
       ValuesOf(m, k) = IF k # rec.key THEN ValuesOf(out, k)
                        ELSE MergedValues(ValuesOf(out, k), {rec.value})

\* Merging a record adds it, or touches only the values under its key.
LEMMA MergeRecordIs ==
  ASSUME NEW T, NEW out \in Records(T), NEW rec \in Record(T)
  PROVE  IsMergedWith(MergeRecord(out, rec), out, rec)
<1> DEFINE m == MergeRecord(out, rec)
           at == LastWithKey(out, rec.key)
           L == Len(out)
<1>1. out \in Seq(Record(T)) /\ OwnKeys(out) /\ L \in Nat
  BY DEF Records
<1>2. m = IF rec.key # NoKey /\ at > 0
          THEN [out EXCEPT ![at] = [key |-> rec.key,
                                    value |-> MergeJSON(out[at].value, rec.value)]]
          ELSE IF Contains(out, rec) THEN out ELSE Append(out, rec)
  BY DEF MergeRecord, LastWithKey
<1>3. rec.key # NoKey =>
        /\ \A n \in 1..L : out[n].key = rec.key => at = n
        /\ at > 0 => at \in 1..L /\ out[at].key = rec.key
        /\ at \in Nat
  BY <1>1, LastIs
<1> HIDE DEF m, at
<1>4. \A rs, k, v : v \in ValuesOf(rs, k) <=> \E j \in 1..Len(rs) : rs[j].key = k /\ v = rs[j].value
  BY ValuesAre DEF ValuesOf
<1>5. CASE rec.key # NoKey /\ at > 0
  <2> DEFINE w == MergeJSON(out[at].value, rec.value)
             q == [key |-> rec.key, value |-> w]
  <2>1. at \in 1..L /\ out[at].key = rec.key
    BY <1>3, <1>5
  <2>2. m = [out EXCEPT ![at] = q]
    BY <1>2, <1>5
  <2>3. q.key = rec.key /\ q.value = w
    OBVIOUS
  <2> HIDE DEF q, w
  <2>4. Len(m) = L /\ m[at] = q /\ \A n \in 1..L : n # at => m[n] = out[n]
    BY <1>1, <2>1, <2>2
  <2>5. ASSUME NEW r, r.key = NoKey PROVE Contains(m, r) <=> Contains(out, r) \/ r = rec
    <3>1. \A n \in 1..L : m[n] = r <=> out[n] = r
      BY <1>5, <2>1, <2>3, <2>4, <2>5
    <3> QED BY <1>5, <2>4, <2>5, <3>1 DEF Contains
  <2>6. ASSUME NEW k, k # NoKey, k # rec.key PROVE ValuesOf(m, k) = ValuesOf(out, k)
    <3>1. \A n \in 1..L : m[n].key = k <=> out[n].key = k
      BY <2>1, <2>3, <2>4, <2>6
    <3>2. \A n \in 1..L : out[n].key = k => m[n] = out[n]
      BY <2>1, <2>4, <2>6
    <3>3. \A v : v \in ValuesOf(m, k) <=> v \in ValuesOf(out, k)
      BY <1>4, <2>4, <3>1, <3>2
    <3> QED BY <3>3
  <2>7. ValuesOf(m, rec.key) = MergedValues(ValuesOf(out, rec.key), {rec.value})
    <3>1. \A n \in 1..L : out[n].key = rec.key <=> n = at
      BY <1>3, <1>5, <2>1
    <3>2. \A n \in 1..L : m[n].key = rec.key <=> n = at
      BY <2>1, <2>3, <2>4, <3>1
    <3>3. ValuesOf(out, rec.key) = {out[at].value}
      BY <1>4, <2>1, <3>1
    <3>4. ValuesOf(m, rec.key) = {w}
      BY <1>4, <2>1, <2>3, <2>4, <3>2
    <3> DEFINE a == out[at].value
               b == rec.value
    <3> HIDE DEF a, b
    <3>5. MergedValues({a}, {b}) = {MergeJSON(a, b)}
      BY MergedOne
    <3> QED BY <3>3, <3>4, <3>5 DEF w, a, b
  <2> QED BY <2>5, <2>6, <2>7 DEF m, IsMergedWith
<1>6. CASE ~(rec.key # NoKey /\ at > 0)
  <2>1. ASSUME NEW n \in 1..L, rec.key # NoKey PROVE out[n].key # rec.key
    <3>1. out[n].key = rec.key => at = n
      BY <1>3, <2>1
    <3> QED BY <1>1, <1>6, <2>1, <3>1
  <2>2. CASE Contains(out, rec)
    <3>1. m = out
      BY <1>2, <1>6, <2>2
    <3>2. rec.key = NoKey
      BY <2>1, <2>2 DEF Contains
    <3> QED BY <2>2, <3>1, <3>2 DEF m, IsMergedWith
  <2>3. CASE ~Contains(out, rec)
    <3>1. m = Append(out, rec)
      BY <1>2, <1>6, <2>3
    <3>2. Len(m) = L + 1 /\ m[L + 1] = rec /\ \A n \in 1..L : m[n] = out[n]
      BY <1>1, <3>1
    <3>3. \A n : n \in 1..(L + 1) <=> n \in 1..L \/ n = L + 1
      BY <1>1
    <3>4. ASSUME NEW r PROVE Contains(m, r) <=> Contains(out, r) \/ r = rec
      BY <3>2, <3>3 DEF Contains
    <3>5. ASSUME NEW k, k # NoKey, k # rec.key PROVE ValuesOf(m, k) = ValuesOf(out, k)
      <4>1. \A v : v \in ValuesOf(m, k) <=> v \in ValuesOf(out, k)
        BY <1>4, <3>2, <3>3, <3>5
      <4> QED BY <4>1
    <3>6. ASSUME rec.key # NoKey
          PROVE  ValuesOf(m, rec.key) = MergedValues(ValuesOf(out, rec.key), {rec.value})
      <4>1. ValuesOf(out, rec.key) = {}
        BY <1>4, <2>1, <3>6
      <4>2. ValuesOf(m, rec.key) = {rec.value}
        BY <1>4, <2>1, <3>2, <3>3, <3>6
      <4> QED BY <4>1, <4>2 DEF MergedValues
    <3> QED BY <3>4, <3>5, <3>6 DEF m, IsMergedWith
  <2> QED BY <2>2, <2>3
<1> QED BY <1>5, <1>6

\* All records merged: a store has the keyless records of both, and one record
\* for each key of either.
LEMMA MergeRecordsIs ==
  ASSUME NEW T, NEW e \in Records(T), NEW i \in Records(T)
  PROVE  LET m == MergeRecords(e, i) IN
         /\ \A r : r.key = NoKey => (Contains(m, r) <=> Contains(e, r) \/ Contains(i, r))
         /\ \A k : k # NoKey =>
              ValuesOf(m, k) = MergedValues(ValuesOf(e, k), ValuesOf(i, k))
<1>1. Len(i) \in Nat /\ \A n \in 1..Len(i) : i[n] \in Record(T)
  BY DEF Records
<1>2. PICK g : MergesUpTo(g, e, i, Len(i)) /\ MergeRecords(e, i) = g[Len(i)]
  BY <1>1, MergesAre
<1> DEFINE Are(n) ==
             /\ g[n] \in Records(T)
             /\ \A r : r.key = NoKey =>
                  (Contains(g[n], r) <=> Contains(e, r) \/ \E j \in 1..n : i[j] = r)
             /\ \A k : k # NoKey =>
                  ValuesOf(g[n], k) = MergedValues(ValuesOf(e, k), ValuesUpTo(i, k, n))
           N == {n \in Nat : n <= Len(i) => Are(n)}
<1>3. 0 \in N
  <2>1. g[0] = e
    BY <1>2 DEF MergesUpTo
  <2>2. ASSUME NEW k PROVE MergedValues(ValuesOf(e, k), ValuesUpTo(i, k, 0)) = ValuesOf(e, k)
    <3>1. \A j : j \notin 1..0
      OBVIOUS
    <3>2. ValuesUpTo(i, k, 0) = {}
      BY <3>1, ValuesAre
    <3> QED BY <3>2 DEF MergedValues
  <2> QED BY <2>1, <2>2
<1>4. ASSUME NEW n \in Nat, n \in N PROVE n + 1 \in N
  <2> SUFFICES ASSUME n + 1 <= Len(i) PROVE Are(n + 1)
    OBVIOUS
  <2> DEFINE out == g[n]
             rec == i[n + 1]
             m == MergeRecord(out, rec)
  <2>1. n <= Len(i) /\ n + 1 \in 1..Len(i) /\ (n + 1) - 1 = n
    BY <1>1
  <2>2. g[n + 1] = m /\ rec \in Record(T) /\ Are(n)
    BY <1>1, <1>2, <1>4, <2>1 DEF MergesUpTo
  <2>3. /\ out \in Records(T)
        /\ \A r : r.key = NoKey =>
             (Contains(out, r) <=> Contains(e, r) \/ \E j \in 1..n : i[j] = r)
        /\ \A k : k # NoKey =>
             ValuesOf(out, k) = MergedValues(ValuesOf(e, k), ValuesUpTo(i, k, n))
    BY <2>2
  <2>4. \A j : j \in 1..(n + 1) <=> j \in 1..n \/ j = n + 1
    OBVIOUS
  <2>5. \A j \in 1..n : j \in 1..Len(i) /\ j # n + 1
    BY <2>1
  <2>6. \A j \in 1..n : i[j].key = rec.key => rec.key = NoKey
    BY <2>1, <2>5 DEF Records, OwnKeys
  <2>7. m \in Records(T)
    <3>1. out \in Seq(Record(T)) /\ OwnKeys(out)
      BY <2>3 DEF Records
    <3> HIDE DEF out, rec
    <3>2. m \in Seq(Record(T)) /\ OwnKeys(m)
      BY <2>2, <3>1, MergeRecordHas
    <3> QED BY <3>2 DEF Records
  <2>8. /\ \A r : r.key = NoKey => (Contains(m, r) <=> Contains(out, r) \/ r = rec)
        /\ \A k : k # NoKey =>
             ValuesOf(m, k) = IF k # rec.key THEN ValuesOf(out, k)
                              ELSE MergedValues(ValuesOf(out, k), {rec.value})
    <3> HIDE DEF out, rec
    <3>1. rec \in Record(T) /\ out \in Records(T)
      BY <2>2, <2>3
    <3>2. IsMergedWith(m, out, rec)
      BY <3>1, MergeRecordIs
    <3> HIDE DEF m
    <3> QED BY <3>2 DEF IsMergedWith
  <2> HIDE DEF m, out
  <2>9. ASSUME NEW r, r.key = NoKey
        PROVE  Contains(m, r) <=> Contains(e, r) \/ \E j \in 1..(n + 1) : i[j] = r
    BY <2>3, <2>4, <2>8, <2>9
  <2>10. ASSUME NEW k, k # NoKey
         PROVE  ValuesOf(m, k) = MergedValues(ValuesOf(e, k), ValuesUpTo(i, k, n + 1))
    <3>1. CASE k # rec.key
      <4>1. \A v : v \in ValuesUpTo(i, k, n + 1) <=> v \in ValuesUpTo(i, k, n)
        BY <2>4, <3>1, ValuesAre
      <4>2. ValuesUpTo(i, k, n + 1) = ValuesUpTo(i, k, n)
        BY <4>1
      <4> QED BY <2>3, <2>8, <2>10, <3>1, <4>2
    <3>2. CASE k = rec.key
      <4>1. ValuesUpTo(i, k, n) = {}
        BY <2>6, <2>10, <3>2, ValuesAre
      <4>2. \A v : v \in ValuesUpTo(i, k, n + 1) <=> v = rec.value
        BY <2>4, <2>6, <2>10, <3>2, ValuesAre
      <4>3. ValuesUpTo(i, k, n + 1) = {rec.value}
        BY <4>2
      <4>4. ValuesOf(out, k) = ValuesOf(e, k)
        BY <2>3, <2>10, <4>1 DEF MergedValues
      <4> QED BY <2>8, <2>10, <3>2, <4>3, <4>4
    <3> QED BY <3>1, <3>2
  <2> QED BY <2>2, <2>7, <2>9, <2>10
<1> HIDE DEF N
<1>5. Len(i) \in N
  BY <1>1, <1>3, <1>4, Induction
<1>6. Are(Len(i))
  <2>1. Len(i) <= Len(i)
    BY <1>1
  <2> QED BY <1>5, <2>1 DEF N
<1> QED BY <1>2, <1>6 DEF Contains, ValuesOf

\* What override what, in two parts that have no path in common.
LEMMA OverriddenApart ==
  ASSUME NEW A, NEW B, NEW C, NEW D,
         \A l \in A : \A m \in D : m[1] # l[1], \A l \in B : \A m \in C : m[1] # l[1]
  PROVE  Overridden(A \union B, C \union D) = Overridden(A, C) \union Overridden(B, D)
BY DEF Overridden

\* The leaves of a store: those of the values under their keys, and the records
\* without a key.
Keys(T) == T \ {NoKey}
LeavesOfKeys(rs, T) ==
  [k \in Keys(T) |-> UNION {Picture[Depth].leaves[v] : v \in ValuesOf(rs, k)}]
Keyless(rs) == {<<<<r>>, r>> : r \in {r \in ToSet(rs) : r.key = NoKey}}

\* The leaves of a store: those below its keys, and the records without.
LEMMA StoreLeavesAre ==
  ASSUME NEW T, NEW t \in Stores(T)
  PROVE  StoreLeaves(t) = All(Keys(T), LeavesOfKeys(t.records, T)) \union Keyless(t.records)
<1> DEFINE rs == t.records
           F == LeavesOfKeys(rs, T)
           Of(v) == Picture[Depth].leaves[v]
<1>1. rs \in Records(T)
  BY DEF Stores
<1> HIDE DEF rs
<1>2. \A r : r \in ToSet(rs) <=> \E j \in 1..Len(rs) : r = rs[j]
  BY <1>1 DEF Records, ToSet
<1>3. \A r \in ToSet(rs) : r.key \in T \union {NoKey}
  <2>1. \A j \in 1..Len(rs) : rs[j] \in Record(T)
    BY <1>1 DEF Records
  <2>2. \A r \in Record(T) : r.key \in T \union {NoKey}
    BY DEF Record
  <2> QED BY <1>2, <2>1, <2>2
<1>4. \A l : l \in StoreLeaves(t) <=> \E r \in ToSet(rs) : l \in RecordLeaves(r)
  BY DEF StoreLeaves, rs
<1>5. \A r, l : l \in RecordLeaves(r) <=>
        IF r.key = NoKey THEN l = <<<<r>>, r>> ELSE \E x \in Of(r.value) : l = Put(r.key, x)
  BY DEF RecordLeaves, Under
<1>6. ASSUME NEW k \in Keys(T), NEW x
      PROVE  x \in F[k] <=> \E r \in ToSet(rs) : r.key = k /\ x \in Of(r.value)
  <2>1. x \in F[k] <=> \E v \in ValuesOf(rs, k) : x \in Of(v)
    BY DEF LeavesOfKeys
  <2>2. \A v : v \in ValuesOf(rs, k) <=> \E r \in ToSet(rs) : r.key = k /\ v = r.value
    BY <1>2, ValuesAre DEF ValuesOf
  <2> HIDE DEF F
  <2> QED BY <2>1, <2>2
<1>7. \A l : l \in All(Keys(T), F) <=> \E k \in Keys(T) : \E x \in F[k] : l = Put(k, x)
  BY AllAre
<1>8. \A l : l \in Keyless(rs) <=> \E r \in ToSet(rs) : r.key = NoKey /\ l = <<<<r>>, r>>
  BY DEF Keyless
<1> HIDE DEF F
<1>9. ASSUME NEW l, l \in StoreLeaves(t) PROVE l \in All(Keys(T), F) \union Keyless(rs)
  <2>1. PICK r \in ToSet(rs) : l \in RecordLeaves(r)
    BY <1>4, <1>9
  <2>2. CASE r.key = NoKey
    BY <1>5, <1>8, <2>1, <2>2
  <2>3. CASE r.key # NoKey
    <3>1. r.key \in Keys(T)
      BY <1>3, <2>3 DEF Keys
    <3>2. PICK x \in Of(r.value) : l = Put(r.key, x)
      BY <1>5, <2>1, <2>3
    <3>3. x \in F[r.key]
      BY <1>6, <3>1, <3>2
    <3> QED BY <1>7, <3>1, <3>2, <3>3
  <2> QED BY <2>2, <2>3
<1>10. ASSUME NEW l, l \in All(Keys(T), F) \union Keyless(rs) PROVE l \in StoreLeaves(t)
  <2>1. CASE l \in Keyless(rs)
    BY <1>4, <1>5, <1>8, <2>1
  <2>2. CASE l \in All(Keys(T), F)
    <3>1. PICK k \in Keys(T) : \E x \in F[k] : l = Put(k, x)
      BY <1>7, <2>2
    <3>2. PICK x \in F[k] : l = Put(k, x)
      BY <3>1
    <3>3. PICK r \in ToSet(rs) : r.key = k /\ x \in Of(r.value)
      BY <1>6, <3>2
    <3>4. r.key # NoKey
      BY <3>3 DEF Keys
    <3> QED BY <1>4, <1>5, <3>2, <3>3, <3>4
  <2> QED BY <1>10, <2>1, <2>2
<1> QED BY <1>9, <1>10 DEF F, rs

\* What paths and leaves are made of.
Elements(T) ==
  {Atom(k) : k \in Fields \union T} \union (UNION {Level[n].values : n \in 0..Depth})
    \union Record(T)

\* On leaves the merge of values overrides.  (mergeJSONValue)
LEMMA JSONOverridden ==
  ASSUME NEW T
  PROVE  /\ Pictured(JSON, Level[Depth].merge, Picture[Depth], Elements(T))
         /\ \A k \in T : Atom(k) \in Elements(T)
         /\ Record(T) \subseteq Elements(T)
<1> DEFINE U == Elements(T)
<1>1. /\ \A k \in Fields : Atom(k) \in U
      /\ \A k \in T : Atom(k) \in U
      /\ Record(T) \subseteq U
      /\ \A n \in 0..Depth : Level[n].values \subseteq U
  BY DEF Elements
<1> HIDE DEF U
<1>2. Pictured(JSON, Level[Depth].merge, Picture[Depth], U)
  BY <1>1, PicturesOverridden
<1> QED BY <1>1, <1>2 DEF U

\* Two values, in the store or not.
LEMMA ValuesOverridden ==
  ASSUME NEW T, NEW L, NEW E, NEW I, NEW M, M = MergedValues(E, I),
         \A v, w \in E : v = w, \A v, w \in I : v = w,
         \A v \in E, w \in I : L[MergeJSON(v, w)] = Overridden(L[v], L[w])
  PROVE  UNION {L[v] : v \in M} = Overridden(UNION {L[v] : v \in E}, UNION {L[v] : v \in I})
<1> DEFINE Of(S) == UNION {L[v] : v \in S}
<1>1. Of({}) = {} /\ \A a : Of({a}) = L[a]
  OBVIOUS
<1> HIDE DEF Of
<1>2. CASE I = {}
  BY <1>1, <1>2, OverriddenNone DEF MergedValues, Of
<1>3. CASE I # {} /\ E = {}
  BY <1>1, <1>3, OverriddenNone DEF MergedValues, Of
<1>4. CASE I # {} /\ E # {}
  <2>1. PICK a \in E, b \in I : TRUE
    BY <1>4
  <2>2. E = {a} /\ I = {b}
    BY <2>1
  <2>3. M = {MergeJSON(a, b)}
    BY <2>2, MergedOne
  <2>4. L[MergeJSON(a, b)] = Overridden(L[a], L[b])
    BY <2>1
  <2>5. Of(M) = Overridden(Of(E), Of(I))
    BY <1>1, <2>2, <2>3, <2>4
  <2> QED BY <2>5 DEF Of
<1> QED BY <1>2, <1>3, <1>4

\* Stores.
AgreeInRecords(e, i) ==
  \A r \in ToSet(e.records), q \in ToSet(i.records) :
    r.key = q.key /\ r.key # NoKey => SameShape(r.value, q.value)

\* The leaves of a store are leaves.
LEMMA StoresOver ==
  ASSUME NEW T, NEW e \in Stores(T)
  PROVE  /\ All(Keys(T), LeavesOfKeys(e.records, T)) \subseteq LeavesOver(Elements(T))
         /\ \A k \in Keys(T) : LeavesOfKeys(e.records, T)[k] \subseteq LeavesOver(Elements(T))
         /\ StoreLeaves(e) \subseteq LeavesOver(Elements(T))
<1> DEFINE U == Elements(T)
           F == LeavesOfKeys(e.records, T)
<1>1. e.records \in Records(T)
  BY DEF Stores
<1>2. \A k \in Keys(T) : k # NoKey /\ Atom(k) \in U
  BY JSONOverridden DEF Keys
<1>3. \A v \in JSON : Picture[Depth].leaves[v] \subseteq LeavesOver(U)
  BY JSONOverridden DEF Pictured
<1>4. ASSUME NEW k \in Keys(T) PROVE F[k] \subseteq LeavesOver(U)
  <2>1. F[k] = UNION {Picture[Depth].leaves[v] : v \in ValuesOf(e.records, k)}
    BY DEF LeavesOfKeys
  <2>2. \A v \in ValuesOf(e.records, k) : v \in JSON
    BY <1>1, <1>2, OneValue
  <2> HIDE DEF F
  <2> QED BY <1>3, <2>1, <2>2
<1> HIDE DEF F
<1>5. All(Keys(T), F) \subseteq LeavesOver(U)
  BY <1>2, <1>4, AllOver
<1>6. Keyless(e.records) \subseteq LeavesOver(U)
  <2>1. ToSet(e.records) \subseteq U
    <3>1. ToSet(e.records) \subseteq Record(T)
      BY <1>1 DEF Records, ToSet
    <3> QED BY <3>1, JSONOverridden
  <2>2. ASSUME NEW r \in U PROVE <<<<r>>, r>> \in LeavesOver(U)
    <3>1. <<r>> \in Seq(U)
      OBVIOUS
    <3> QED BY <3>1, LeafOver
  <2> HIDE DEF U
  <2> QED BY <2>1, <2>2 DEF Keyless
<1>7. StoreLeaves(e) = All(Keys(T), F) \union Keyless(e.records)
  BY StoreLeavesAre DEF F
<1> QED BY <1>4, <1>5, <1>6, <1>7 DEF F, U

\* On leaves the merge of stores overrides.
LEMMA StoresOverridden ==
  ASSUME NEW T, NEW e \in Stores(T), NEW i \in Stores(T), AgreeInRecords(e, i)
  PROVE  StoreLeaves(MergeStore(e, i)) = Overridden(StoreLeaves(e), StoreLeaves(i))
<1> DEFINE U == Elements(T)
           K == Keys(T)
           m == MergeStore(e, i)
           E == LeavesOfKeys(e.records, T)
           I == LeavesOfKeys(i.records, T)
           M == LeavesOfKeys(m.records, T)
           L == Picture[Depth].leaves
<1>1. e.records \in Records(T) /\ i.records \in Records(T)
  BY DEF Stores
<1>2. m \in Stores(T) /\ m.records = MergeRecords(e.records, i.records)
  <2>1. m \in Stores(T)
    BY StoresSettle DEF StaysPut, StoreMerge
  <2> QED BY <2>1 DEF MergeStore
<1>3. /\ \A r : r.key = NoKey =>
           (Contains(m.records, r) <=> Contains(e.records, r) \/ Contains(i.records, r))
      /\ \A k : k # NoKey =>
           ValuesOf(m.records, k) = MergedValues(ValuesOf(e.records, k), ValuesOf(i.records, k))
  BY <1>1, <1>2, MergeRecordsIs
<1> HIDE DEF m
<1>4. \A rs \in Records(T) : \A r : r \in ToSet(rs) <=> Contains(rs, r)
  BY DEF Records, ToSet, Contains
<1>5. m.records \in Records(T)
  BY <1>2 DEF Stores
<1>6. ASSUME NEW k \in K
      PROVE  /\ Atom(k) \in U /\ E[k] \subseteq LeavesOver(U) /\ I[k] \subseteq LeavesOver(U)
             /\ M[k] = Overridden(E[k], I[k])
  <2> DEFINE Ve == ValuesOf(e.records, k)
             Vi == ValuesOf(i.records, k)
             Vm == ValuesOf(m.records, k)
  <2>1. k # NoKey /\ Atom(k) \in U
    BY JSONOverridden DEF Keys
  <2>2. E[k] \subseteq LeavesOver(U) /\ I[k] \subseteq LeavesOver(U)
    BY StoresOver
  <2>3. /\ E[k] = UNION {L[v] : v \in Ve} /\ I[k] = UNION {L[v] : v \in Vi}
        /\ M[k] = UNION {L[v] : v \in Vm}
    BY DEF LeavesOfKeys
  <2>4. (\A v, w \in Ve : v = w) /\ (\A v, w \in Vi : v = w)
    BY <1>1, <2>1, OneValue
  <2>5. Vm = MergedValues(Ve, Vi)
    BY <1>3, <2>1
  <2>6. ASSUME NEW v \in Ve, NEW w \in Vi
        PROVE  L[MergeJSON(v, w)] = Overridden(L[v], L[w])
    <3>1. PICK a \in 1..Len(e.records) : e.records[a].key = k /\ v = e.records[a].value
      BY ValuesAre DEF ValuesOf
    <3>2. PICK b \in 1..Len(i.records) : i.records[b].key = k /\ w = i.records[b].value
      BY ValuesAre DEF ValuesOf
    <3>3. e.records[a] \in ToSet(e.records) /\ i.records[b] \in ToSet(i.records)
      BY <1>1, <1>4 DEF Contains
    <3>4. SameShape(v, w)
      BY <2>1, <3>1, <3>2, <3>3 DEF AgreeInRecords
    <3>5. v \in JSON /\ w \in JSON
      BY <1>1, <2>1, OneValue
    <3> QED BY <3>4, <3>5, JSONOverridden DEF Pictured, SameShape, MergeJSON
  <2> HIDE DEF E, I, M, Ve, Vi, Vm, L
  <2>7. UNION {L[v] : v \in Vm} = Overridden(UNION {L[v] : v \in Ve}, UNION {L[v] : v \in Vi})
    BY <2>4, <2>5, <2>6, ValuesOverridden
  <2> QED BY <2>1, <2>2, <2>3, <2>7
<1>7. /\ StoreLeaves(m) = All(K, M) \union Keyless(m.records)
      /\ StoreLeaves(e) = All(K, E) \union Keyless(e.records)
      /\ StoreLeaves(i) = All(K, I) \union Keyless(i.records)
  BY <1>2, StoreLeavesAre
<1>8. \A rs \in Records(T) : \A l :
        l \in Keyless(rs) <=> \E r : r.key = NoKey /\ Contains(rs, r) /\ l = <<<<r>>, r>>
  BY <1>4 DEF Keyless
<1>9. Keyless(m.records) = Overridden(Keyless(e.records), Keyless(i.records))
  <2>1. \A l : l \in Keyless(m.records) <=> l \in Keyless(e.records) \/ l \in Keyless(i.records)
    BY <1>1, <1>3, <1>5, <1>8
  <2>2. \A l \in Keyless(e.records) : \A q \in Keyless(i.records) : q[1] = l[1] => q = l
    <3> SUFFICES ASSUME NEW l \in Keyless(e.records), NEW q \in Keyless(i.records), q[1] = l[1]
                 PROVE  q = l
      OBVIOUS
    <3>1. PICK r : l = <<<<r>>, r>>
      BY <1>1, <1>8
    <3>2. PICK z : q = <<<<z>>, z>>
      BY <1>1, <1>8
    <3>3. <<z>> = <<r>>
      BY <3>1, <3>2
    <3>4. z = r
      BY <3>3
    <3> QED BY <3>1, <3>2, <3>4
  <2> QED BY <2>1, <2>2 DEF Overridden
<1>10. ASSUME NEW s \in Stores(T), NEW t \in Stores(T),
              NEW l \in All(K, LeavesOfKeys(s.records, T)), NEW q \in Keyless(t.records)
       PROVE  q[1] # l[1]
  <2> DEFINE F == LeavesOfKeys(s.records, T)
  <2>1. PICK k \in K : \E x \in F[k] : l = Put(k, x)
    BY AllAre
  <2>2. PICK x \in F[k] : l = Put(k, x)
    BY <2>1
  <2>3. x \in LeavesOver(U)
    <3>1. F[k] \subseteq LeavesOver(U)
      BY StoresOver
    <3> QED BY <3>1
  <2>4. t.records \in Records(T)
    BY DEF Stores
  <2>5. PICK r : Contains(t.records, r) /\ q = <<<<r>>, r>>
    BY <1>8, <2>4
  <2>6. r \in Record(T)
    BY <2>4, <2>5 DEF Records, Contains
  <2>7. r # Atom(k)
    BY <2>6 DEF Record, Atom
  <2> DEFINE p == x[1]
             a == <<Atom(k)>>
  <2>8. p \in Seq(U) /\ a \in Seq(U) /\ Len(a) = 1 /\ a[1] = Atom(k)
    BY <2>3, JSONOverridden DEF LeavesOver, Keys
  <2>9. l[1] = a \o p /\ q[1] = <<r>>
    BY <2>2, <2>5 DEF Put
  <2> HIDE DEF a, p
  <2>10. (a \o p)[1] = Atom(k)
    BY <2>8, Prefixed DEF Joins
  <2>11. <<r>>[1] = r
    OBVIOUS
  <2> QED BY <2>7, <2>9, <2>10, <2>11
<1>11. All(K, M) = Overridden(All(K, E), All(K, I))
  <2>1. EachOverridden(U, K, E, I, M)
    BY <1>6 DEF EachOverridden
  <2> QED BY <2>1, AllOverridden
<1>12. Overridden(All(K, E) \union Keyless(e.records), All(K, I) \union Keyless(i.records))
         = Overridden(All(K, E), All(K, I)) \union Overridden(Keyless(e.records), Keyless(i.records))
  <2>1. \A l \in All(K, E) : \A q \in Keyless(i.records) : q[1] # l[1]
    BY <1>10
  <2>2. \A l \in Keyless(e.records) : \A q \in All(K, I) : q[1] # l[1]
    BY <1>10
  <2> HIDE DEF E, I, K
  <2> QED BY <2>1, <2>2, OverriddenApart
<1> HIDE DEF E, I, M, K
<1> QED BY <1>7, <1>9, <1>11, <1>12 DEF m

\* Maps whose entries are overridden.
LEMMA MapsOverridden ==
  ASSUME NEW U, NEW D, NEW C, NEW E, NEW I, NEW M,
         \A x \in D \union C : Atom(x) \in U,
         \A x \in D : E[x] \subseteq LeavesOver(U),
         \A x \in C : I[x] \subseteq LeavesOver(U),
         \A x \in D \union C :
           M[x] = IF x \notin C THEN E[x] ELSE IF x \notin D THEN I[x]
                  ELSE Overridden(E[x], I[x])
  PROVE  All(D \union C, M) = Overridden(All(D, E), All(C, I))
<1> DEFINE K == D \union C
           F == [x \in K |-> IF x \in D THEN E[x] ELSE {}]
           J == [x \in K |-> IF x \in C THEN I[x] ELSE {}]
<1>1. \A x \in K : F[x] = (IF x \in D THEN E[x] ELSE {}) /\ J[x] = (IF x \in C THEN I[x] ELSE {})
  OBVIOUS
<1>2. D \subseteq K /\ C \subseteq K
  OBVIOUS
<1> HIDE DEF F, J
<1>3. ASSUME NEW x \in K
      PROVE  /\ Atom(x) \in U /\ F[x] \subseteq LeavesOver(U) /\ J[x] \subseteq LeavesOver(U)
             /\ M[x] = Overridden(F[x], J[x])
  <2>1. CASE x \in D /\ x \in C
    BY <1>1, <2>1
  <2>2. CASE x \in D /\ x \notin C
    BY <1>1, <2>2, OverriddenNone
  <2>3. CASE x \notin D /\ x \in C
    BY <1>1, <2>3, OverriddenNone
  <2> QED BY <2>1, <2>2, <2>3
<1> HIDE DEF K
<1>4. EachOverridden(U, K, F, J, M)
  BY <1>3 DEF EachOverridden
<1>5. All(K, M) = Overridden(All(K, F), All(K, J))
  BY <1>4, AllOverridden
<1>6. All(K, F) = All(D, E)
  <2>1. \A l : l \in All(K, F) <=> \E k \in K : \E x \in F[k] : l = Put(k, x)
    BY AllAre
  <2>2. \A l : l \in All(D, E) <=> \E k \in D : \E x \in E[k] : l = Put(k, x)
    BY AllAre
  <2>3. \A k \in K : \A x \in F[k] : k \in D /\ x \in E[k]
    BY <1>1
  <2>4. \A k \in D : k \in K /\ F[k] = E[k]
    BY <1>1, <1>2
  <2>5. \A l : l \in All(K, F) <=> l \in All(D, E)
    BY <2>1, <2>2, <2>3, <2>4
  <2> QED BY <2>5
<1>7. All(K, J) = All(C, I)
  <2>1. \A l : l \in All(K, J) <=> \E k \in K : \E x \in J[k] : l = Put(k, x)
    BY AllAre
  <2>2. \A l : l \in All(C, I) <=> \E k \in C : \E x \in I[k] : l = Put(k, x)
    BY AllAre
  <2>3. \A k \in K : \A x \in J[k] : k \in C /\ x \in I[k]
    BY <1>1
  <2>4. \A k \in C : k \in K /\ J[k] = I[k]
    BY <1>1, <1>2
  <2>5. \A l : l \in All(K, J) <=> l \in All(C, I)
    BY <2>1, <2>2, <2>3, <2>4
  <2> QED BY <2>5
<1> QED BY <1>5, <1>6, <1>7 DEF K

\* The leaves of each store of a database.
LeavesOfStores(db) == [s \in DOMAIN db.stores |-> StoreLeaves(db.stores[s])]

\* The leaves of a database are those of its stores.
LEMMA DatabaseLeavesAre ==
  ASSUME NEW db
  PROVE  DatabaseLeaves(db) = All(DOMAIN db.stores, LeavesOfStores(db))
BY DEF DatabaseLeaves, All, LeavesOfStores

\* The leaves of a database are leaves.
LEMMA DatabasesOver ==
  ASSUME NEW T, NEW db \in Databases(T)
  PROVE  /\ \A s \in DOMAIN db.stores : /\ db.stores[s] \in Stores(T)
                                        /\ Atom(s) \in Elements(T)
                                        /\ LeavesOfStores(db)[s] \subseteq LeavesOver(Elements(T))
         /\ DatabaseLeaves(db) \subseteq LeavesOver(Elements(T))
<1> DEFINE U == Elements(T)
           D == DOMAIN db.stores
           F == LeavesOfStores(db)
<1>1. db.stores \in Maps(T, Stores(T))
  BY DEF Databases
<1>2. D \subseteq T /\ \A s \in D : db.stores[s] \in Stores(T)
  BY <1>1, MapsAre
<1>3. \A s \in D : F[s] = StoreLeaves(db.stores[s])
  BY DEF LeavesOfStores
<1>4. \A s \in D : StoreLeaves(db.stores[s]) \subseteq LeavesOver(U)
  BY <1>2, StoresOver
<1>5. \A s \in D : Atom(s) \in U
  BY <1>2, JSONOverridden
<1> HIDE DEF U, D, F
<1>6. All(D, F) \subseteq LeavesOver(U)
  BY <1>3, <1>4, <1>5, AllOver
<1>7. DatabaseLeaves(db) = All(D, F)
  BY DatabaseLeavesAre DEF D, F
<1>8. \A s \in D : F[s] \subseteq LeavesOver(U)
  BY <1>3, <1>4
<1> QED BY <1>2, <1>5, <1>6, <1>7, <1>8 DEF U, D, F

AgreeInStores(e, i) ==
  \A s \in DOMAIN e.stores \intersect DOMAIN i.stores : AgreeInRecords(e.stores[s], i.stores[s])

\* On leaves the merge of databases overrides.
LEMMA DatabasesOverridden ==
  ASSUME NEW T, NEW e \in Databases(T), NEW i \in Databases(T), AgreeInStores(e, i)
  PROVE  DatabaseLeaves(MergeDatabase(e, i)) = Overridden(DatabaseLeaves(e), DatabaseLeaves(i))
<1> DEFINE U == Elements(T)
           m == MergeDatabase(e, i)
           D == DOMAIN e.stores
           C == DOMAIN i.stores
           E == LeavesOfStores(e)
           I == LeavesOfStores(i)
           M == LeavesOfStores(m)
<1>1. /\ DOMAIN m.stores = D \union C
      /\ \A s \in D \union C :
           m.stores[s] = IF s \notin C THEN e.stores[s] ELSE IF s \notin D THEN i.stores[s]
                         ELSE MergeStore(e.stores[s], i.stores[s])
  BY DEF MergeDatabase, Union
<1> HIDE DEF m
<1>2. /\ \A s \in D : E[s] = StoreLeaves(e.stores[s])
      /\ \A s \in C : I[s] = StoreLeaves(i.stores[s])
      /\ \A s \in D \union C : M[s] = StoreLeaves(m.stores[s])
  BY <1>1 DEF LeavesOfStores
<1>3. /\ \A s \in D : /\ e.stores[s] \in Stores(T) /\ Atom(s) \in U
                      /\ E[s] \subseteq LeavesOver(U)
      /\ \A s \in C : /\ i.stores[s] \in Stores(T) /\ Atom(s) \in U
                      /\ I[s] \subseteq LeavesOver(U)
  BY DatabasesOver
<1>4. ASSUME NEW s \in D \intersect C
      PROVE  StoreLeaves(MergeStore(e.stores[s], i.stores[s])) = Overridden(E[s], I[s])
  <2>1. AgreeInRecords(e.stores[s], i.stores[s])
    BY DEF AgreeInStores
  <2>2. e.stores[s] \in Stores(T) /\ i.stores[s] \in Stores(T)
    BY <1>3
  <2>3. StoreLeaves(MergeStore(e.stores[s], i.stores[s]))
          = Overridden(StoreLeaves(e.stores[s]), StoreLeaves(i.stores[s]))
    BY <2>1, <2>2, StoresOverridden
  <2> HIDE DEF E, I
  <2> QED BY <1>2, <2>3
<1>5. /\ DatabaseLeaves(m) = All(D \union C, M)
      /\ DatabaseLeaves(e) = All(D, E) /\ DatabaseLeaves(i) = All(C, I)
  BY <1>1, DatabaseLeavesAre
<1> HIDE DEF U, D, C, E, I, M
<1>6. \A s \in D \union C :
        M[s] = IF s \notin C THEN E[s] ELSE IF s \notin D THEN I[s] ELSE Overridden(E[s], I[s])
  BY <1>1, <1>2, <1>4
<1>7. /\ \A s \in D \union C : Atom(s) \in U
      /\ \A s \in D : E[s] \subseteq LeavesOver(U)
      /\ \A s \in C : I[s] \subseteq LeavesOver(U)
  BY <1>3
<1>8. All(D \union C, M) = Overridden(All(D, E), All(C, I))
  BY <1>6, <1>7, MapsOverridden
<1> QED BY <1>5, <1>8 DEF m

\* On leaves, the merge of two snapshots is the second one and what it does not
\* override of the first, whatever they are, if they have objects at the same
\* places.  (mergeIndexedDB)
THEOREM SnapshotsOverridden ==
  ASSUME NEW T, NEW e, IsSnapshot(e, T), KeysDiffer(e), NEW i, IsSnapshot(i, T), KeysDiffer(i),
         AgreeInShape(e, i)
  PROVE  Leaves(MergeIndexedDB(e, i)) = Overridden(Leaves(e), Leaves(i))
<1> DEFINE U == Elements(T)
           m == MergeIndexedDB(e, i)
           D == DOMAIN e
           C == DOMAIN i
           Of(db) == [d \in DOMAIN db |-> DatabaseLeaves(db[d])]
           E == Of(e)
           I == Of(i)
           M == Of(m)
<1>1. e \in Maps(T, Databases(T)) /\ i \in Maps(T, Databases(T))
  BY SnapshotsAre
<1>2. /\ D \subseteq T /\ C \subseteq T
      /\ \A d \in D : e[d] \in Databases(T)
      /\ \A d \in C : i[d] \in Databases(T)
  BY <1>1, MapsAre
<1>3. /\ DOMAIN m = D \union C
      /\ \A d \in D \union C :
           m[d] = IF d \notin C THEN e[d] ELSE IF d \notin D THEN i[d]
                  ELSE MergeDatabase(e[d], i[d])
  BY DEF MergeIndexedDB, Union
<1> HIDE DEF m
<1>4. /\ \A d \in D : E[d] = DatabaseLeaves(e[d])
      /\ \A d \in C : I[d] = DatabaseLeaves(i[d])
      /\ \A d \in D \union C : M[d] = DatabaseLeaves(m[d])
  BY <1>3
<1>5. \A db : Leaves(db) = All(DOMAIN db, Of(db))
  BY DEF Leaves, All
<1>6. Leaves(m) = All(D \union C, M) /\ Leaves(e) = All(D, E) /\ Leaves(i) = All(C, I)
  BY <1>3, <1>5
<1>7. ASSUME NEW d \in D \intersect C
      PROVE  DatabaseLeaves(MergeDatabase(e[d], i[d])) = Overridden(E[d], I[d])
  <2>1. AgreeInStores(e[d], i[d])
    BY DEF AgreeInShape, AgreeInStores, AgreeInRecords
  <2>2. e[d] \in Databases(T) /\ i[d] \in Databases(T)
    BY <1>2
  <2> HIDE DEF E, I
  <2> QED BY <1>4, <2>1, <2>2, DatabasesOverridden
<1> HIDE DEF U, D, C, E, I, M
<1>8. \A d \in D \union C :
        M[d] = IF d \notin C THEN E[d] ELSE IF d \notin D THEN I[d] ELSE Overridden(E[d], I[d])
  BY <1>3, <1>4, <1>7
<1>9. /\ \A d \in D \union C : Atom(d) \in U
      /\ \A d \in D : E[d] \subseteq LeavesOver(U)
      /\ \A d \in C : I[d] \subseteq LeavesOver(U)
  BY <1>2, <1>4, JSONOverridden, DatabasesOver DEF U
<1>10. All(D \union C, M) = Overridden(All(D, E), All(C, I))
  BY <1>8, <1>9, MapsOverridden
<1> QED BY <1>6, <1>10 DEF m

-----------------------------------------------------------------------------
(***************************************************************************)
(* Sums of bytes, of which one may be refused.                             *)
(***************************************************************************)

Bytes == Nat \union {Refused}

Plus(a, b) == IF a = Refused \/ b = Refused THEN Refused ELSE a + b

Sums(g, parts, n, start) ==
  g[0] = start /\ \A m \in 1..n : g[m] = Plus(g[m - 1], parts[m])

\* Together is the last of these sums.
LEMMA TogetherIs ==
  ASSUME NEW n \in Nat, NEW parts, \A m \in 1..n : parts[m] \in Bytes, NEW start \in Bytes
  PROVE  \E g \in [0..n -> Bytes] :
           Sums(g, parts, n, start) /\ Together(parts, n, start) = g[n]
<1> DEFINE Is(g) == g = [m \in 0..n |-> IF m = 0 THEN start ELSE Plus(g[m - 1], parts[m])]
           upTo == CHOOSE g : Is(g)
<1>1. Together(parts, n, start) = upTo[n]
  BY DEF Together, Plus
<1>2. PICK step \in [1..n -> [Bytes -> Bytes]] :
             \A m \in 1..n : \A a \in Bytes : step[m][a] = Plus(a, parts[m])
  <2> DEFINE f == [m \in 1..n |-> [a \in Bytes |-> Plus(a, parts[m])]]
  <2>1. \A a, b \in Bytes : Plus(a, b) \in Bytes
    BY DEF Plus, Bytes, Refused
  <2>2. f \in [1..n -> [Bytes -> Bytes]]
    BY <2>1
  <2>3. \A m \in 1..n : \A a \in Bytes : f[m][a] = Plus(a, parts[m])
    OBVIOUS
  <2> HIDE DEF f
  <2> QED BY <2>2, <2>3
<1>3. PICK h \in [0..n -> Bytes] : h[0] = start /\ \A m \in 1..n : h[m] = step[m][h[m - 1]]
  <2>1. \E h : Runs(h, Bytes, start, n, step)
    BY Recursion
  <2> QED BY <2>1 DEF Runs
<1>4. Is(h)
  <2> DEFINE k == [m \in 0..n |-> IF m = 0 THEN start ELSE Plus(h[m - 1], parts[m])]
  <2>1. ASSUME NEW m \in 0..n PROVE h[m] = k[m]
    <3>1. CASE m = 0
      BY <1>3, <3>1
    <3>2. CASE m # 0
      <4>1. m \in 1..n /\ m - 1 \in 0..n
        BY <3>2
      <4>2. h[m - 1] \in Bytes /\ h[m] = Plus(h[m - 1], parts[m])
        BY <1>2, <1>3, <4>1
      <4> QED BY <3>2, <4>1, <4>2
    <3> QED BY <3>1, <3>2
  <2>2. h = k
    <3>1. h = [m \in 0..n |-> h[m]]
      OBVIOUS
    <3> QED BY <2>1, <3>1
  <2> QED BY <2>2
<1>5. Is(upTo)
  <2> HIDE DEF Is
  <2> QED BY <1>4
<1>6. \A m \in 0..n : upTo[m] = IF m = 0 THEN start ELSE Plus(upTo[m - 1], parts[m])
  <2> HIDE DEF upTo
  <2> DEFINE k == [m \in 0..n |-> IF m = 0 THEN start ELSE Plus(upTo[m - 1], parts[m])]
  <2>1. upTo = k
    BY <1>5
  <2>2. \A m \in 0..n : k[m] = IF m = 0 THEN start ELSE Plus(upTo[m - 1], parts[m])
    OBVIOUS
  <2> HIDE DEF k
  <2> QED BY <2>1, <2>2
<1>7. upTo = [m \in 0..n |-> upTo[m]]
  <2> HIDE DEF upTo
  <2> DEFINE k == [m \in 0..n |-> IF m = 0 THEN start ELSE Plus(upTo[m - 1], parts[m])]
  <2>1. upTo = k
    BY <1>5
  <2>2. k = [m \in 0..n |-> k[m]]
    OBVIOUS
  <2> HIDE DEF k
  <2> QED BY <2>1, <2>2
<1> HIDE DEF upTo, Is
<1>8. \A m \in 0..n : upTo[m] \in Bytes
  <2> DEFINE I == {m \in Nat : m <= n => upTo[m] \in Bytes}
  <2>1. 0 \in I
    BY <1>6 DEF Bytes
  <2>2. ASSUME NEW m \in Nat, m \in I PROVE m + 1 \in I
    <3> SUFFICES ASSUME m + 1 <= n PROVE upTo[m + 1] \in Bytes
      OBVIOUS
    <3>1. m + 1 \in 0..n /\ m + 1 # 0 /\ (m + 1) - 1 = m /\ upTo[m] \in Bytes /\ m + 1 \in 1..n
      BY <2>2
    <3>2. upTo[m + 1] = Plus(upTo[m], parts[m + 1])
      BY <1>6, <3>1
    <3> QED BY <3>1, <3>2 DEF Plus, Bytes, Refused
  <2> HIDE DEF I
  <2>3. \A m \in Nat : m \in I
    BY <2>1, <2>2, Induction
  <2> QED BY <2>3 DEF I
<1>9. Sums(upTo, parts, n, start)
  <2>1. \A m \in 1..n : m \in 0..n /\ m # 0
    OBVIOUS
  <2>2. 0 \in 0..n
    OBVIOUS
  <2> QED BY <1>6, <2>1, <2>2 DEF Sums
<1>10. upTo \in [0..n -> Bytes]
  BY <1>7, <1>8
<1> QED BY <1>1, <1>9, <1>10

\* Numbers of bytes have a sum, which is not below any of them.
LEMMA TogetherOfNats ==
  ASSUME NEW n \in Nat, NEW parts, \A m \in 1..n : parts[m] \in Nat, NEW start \in Nat
  PROVE  /\ Together(parts, n, start) \in Nat
         /\ Together(parts, n, start) >= start
         /\ \A m \in 1..n : Together(parts, n, start) >= start + parts[m]
<1>1. PICK g \in [0..n -> Bytes] : Sums(g, parts, n, start) /\ Together(parts, n, start) = g[n]
  <2>1. start \in Bytes /\ \A m \in 1..n : parts[m] \in Bytes
    BY DEF Bytes
  <2> QED BY <2>1, TogetherIs
<1> DEFINE I == {m \in Nat : m <= n => /\ g[m] \in Nat /\ g[m] >= start
                                       /\ \A i \in 1..m : g[m] >= start + parts[i]}
<1>2. 0 \in I
  BY <1>1 DEF Sums
<1>3. ASSUME NEW m \in Nat, m \in I PROVE m + 1 \in I
  <2> SUFFICES ASSUME m + 1 <= n
               PROVE  /\ g[m + 1] \in Nat /\ g[m + 1] >= start
                      /\ \A i \in 1..(m + 1) : g[m + 1] >= start + parts[i]
    OBVIOUS
  <2>1. m + 1 \in 1..n /\ (m + 1) - 1 = m
    OBVIOUS
  <2>2. g[m] \in Nat /\ g[m] >= start /\ \A i \in 1..m : g[m] >= start + parts[i]
    BY <1>3
  <2>3. g[m + 1] = Plus(g[m], parts[m + 1])
    BY <1>1, <2>1 DEF Sums
  <2>4. g[m + 1] = g[m] + parts[m + 1] /\ parts[m + 1] \in Nat
    BY <2>1, <2>2, <2>3 DEF Plus, Refused
  <2>5. ASSUME NEW i \in 1..(m + 1) PROVE g[m + 1] >= start + parts[i]
    <3>1. CASE i = m + 1
      BY <2>2, <2>4, <3>1
    <3>2. CASE i # m + 1
      <4>1. i \in 1..m /\ parts[i] \in Nat
        BY <3>2
      <4> QED BY <2>2, <2>4, <4>1
    <3> QED BY <3>1, <3>2
  <2> QED BY <2>2, <2>4, <2>5
<1> HIDE DEF I
<1>4. n \in I
  BY <1>2, <1>3, Induction
<1> QED BY <1>1, <1>4 DEF I

-----------------------------------------------------------------------------
(***************************************************************************)
(* Values.                                                                 *)
(***************************************************************************)

\* A scalar has a size, or its type is not known.
LEMMA ScalarSizeIs ==
  /\ \A t \in Nat : ScalarSize(t) \in {-1, 1, 2, 4, 8}
  /\ ScalarSize(String) = -1 /\ ScalarSize(Array) = -1
BY DEF ScalarSize, String, Array

\* One level more.
DeeperNest(l) ==
  LET V == NestedOver(l.values)
  IN [values |-> V,
      taken |-> [v \in V |-> DiscardWith(l.taken, v)],
      size |-> [v \in V |-> SizeWith(l.size, v)],
      stated |-> [v \in V |-> StatedWith(l.stated, v)]]

NoNest == [values |-> {}, taken |-> <<>>, size |-> <<>>, stated |-> <<>>]

\* The recursion over the levels is well defined.
LEMMA NestsAre ==
  Nested[0] = NoNest /\ \A n \in 1..Nesting : Nested[n] = DeeperNest(Nested[n - 1])
<1> DEFINE Is(g, n) == g = [i \in 0..n |-> IF i = 0 THEN NoNest ELSE DeeperNest(g[i - 1])]
           I == {n \in Nat : \E g : Is(g, n)}
<1>1. 0 \in I
  <2> DEFINE g == [i \in 0..0 |-> NoNest]
  <2>1. g = [i \in 0..0 |-> IF i = 0 THEN NoNest ELSE DeeperNest(g[i - 1])]
    OBVIOUS
  <2> HIDE DEF g
  <2> QED BY <2>1
<1>2. ASSUME NEW n \in Nat, n \in I PROVE n + 1 \in I
  <2>1. PICK g : Is(g, n)
    BY <1>2
  <2> DEFINE h == [i \in 0..(n + 1) |-> IF i = n + 1 THEN DeeperNest(g[n]) ELSE g[i]]
             v == [i \in 0..(n + 1) |-> IF i = 0 THEN NoNest ELSE DeeperNest(h[i - 1])]
  <2>2. \A i \in 0..n : g[i] = IF i = 0 THEN NoNest ELSE DeeperNest(g[i - 1])
    <3> DEFINE w == [i \in 0..n |-> IF i = 0 THEN NoNest ELSE DeeperNest(g[i - 1])]
    <3>1. g = w
      BY <2>1
    <3>2. \A i \in 0..n : w[i] = IF i = 0 THEN NoNest ELSE DeeperNest(g[i - 1])
      OBVIOUS
    <3> HIDE DEF w
    <3> QED BY <3>1, <3>2
  <2>3. ASSUME NEW i \in 0..(n + 1)
        PROVE  h[i] = IF i = 0 THEN NoNest ELSE DeeperNest(h[i - 1])
    <3>1. CASE i = n + 1
      <4>1. h[i] = DeeperNest(g[n]) /\ i - 1 = n /\ h[i - 1] = g[n] /\ i # 0
        BY <3>1
      <4> QED BY <4>1
    <3>2. CASE i # n + 1
      <4>1. i \in 0..n /\ h[i] = g[i]
        BY <3>2
      <4>2. i # 0 => i - 1 \in 0..n /\ h[i - 1] = g[i - 1]
        BY <4>1
      <4> HIDE DEF h
      <4> QED BY <2>2, <4>1, <4>2
    <3> QED BY <3>1, <3>2
  <2>4. h = v
    <3>1. h = [i \in 0..(n + 1) |-> h[i]]
      OBVIOUS
    <3>2. v = [i \in 0..(n + 1) |-> v[i]]
      OBVIOUS
    <3>3. \A i \in 0..(n + 1) : v[i] = IF i = 0 THEN NoNest ELSE DeeperNest(h[i - 1])
      OBVIOUS
    <3> HIDE DEF h, v
    <3> QED BY <2>3, <3>1, <3>2, <3>3
  <2>5. Is(h, n + 1)
    BY <2>4
  <2> HIDE DEF h, Is
  <2> QED BY <2>5
<1>3. Nesting \in Nat
  BY GgufAssumption
<1>4. Is(Nested, Nesting)
  <2>1. \E g : Is(g, Nesting)
    <3> HIDE DEF I
    <3>1. Nesting \in I
      BY <1>1, <1>2, <1>3, Induction
    <3> QED BY <3>1 DEF I
  <2>2. Nested = CHOOSE g : Is(g, Nesting)
    BY DEF Nested, DeeperNest, NoNest
  <2> HIDE DEF Is
  <2> QED BY <2>1, <2>2
<1>5. ASSUME NEW n \in 0..Nesting
      PROVE  Nested[n] = IF n = 0 THEN NoNest ELSE DeeperNest(Nested[n - 1])
  <2> DEFINE w == [i \in 0..Nesting |-> IF i = 0 THEN NoNest ELSE DeeperNest(Nested[i - 1])]
  <2>1. Nested = w
    BY <1>4
  <2>2. w[n] = IF n = 0 THEN NoNest ELSE DeeperNest(Nested[n - 1])
    OBVIOUS
  <2> HIDE DEF w
  <2> QED BY <2>1, <2>2
<1> QED BY <1>3, <1>5

\* The values that are no arrays of strings or arrays, and those that are.
Texts8 == [typ : {String}, n : Nat, len : Nat]
Scalars8 == [typ : OtherType]
Blocks == [typ : {Array}, elem : OtherType, n : Nat, len : Nat]
ArraysOver(S) == [typ : {Array}, elem : {String, Array}, items : Seq(S)]

\* A number that fits a word is its own remainder.
LEMMA ModIs ==
  ASSUME NEW k \in Nat
  PROVE  k % Word \in Nat /\ (k < Word => k % Word = k)
BY GgufAssumption

\* Half of the lengths, which an int64 holds.
Int64Limit == Word \div 2

\* Half of a number, doubled.
LEMMA Halves ==
  ASSUME NEW w \in Nat
  PROVE  w \div 2 \in Nat /\ \A k \in Nat : k < w \div 2 => 2 * k < w /\ k < w
<1>1. w \div 2 \in Nat
  OBVIOUS
<1>2. ASSUME NEW k \in Nat, k < w \div 2 PROVE 2 * k < w /\ k < w
  BY <1>2
<1> QED BY <1>1, <1>2

\* A length below the limit fits a word, twice.
LEMMA LimitIs == Int64Limit \in Nat /\ \A k \in Nat : k < Int64Limit => 2 * k < Word /\ k < Word
<1>1. Word \in Nat
  BY GgufAssumption
<1> QED BY ONLY <1>1, Halves DEF Int64Limit

\* A length below the limit is the same as an int64.
LEMMA SignedIs ==
  ASSUME NEW k \in Nat
  PROVE  /\ Skipped(Signed(k)) \in Nat
         /\ k < Int64Limit => Skipped(Signed(k)) = k
<1>1. Word \in Nat \ {0}
  BY GgufAssumption
<1>2. Signed(k) \in Int
  BY <1>1 DEF Signed
<1>3. ASSUME k < Int64Limit PROVE Signed(k) = k
  <2>1. 2 * k < Word
    BY <1>3, LimitIs
  <2>2. ~ (2 * k >= Word)
    BY <1>1, <2>1
  <2> QED BY <2>2 DEF Signed
<1> QED BY <1>2, <1>3 DEF Skipped

\* What is known of a value: the bytes taken, its size, whether it is stated.
Fits(taken, size, stated) ==
  /\ taken \in Bytes /\ size \in Nat /\ stated \in BOOLEAN
  /\ stated /\ size < Int64Limit => taken = size

\* Scalars.
LEMMA ScalarFits ==
  ASSUME NEW f, NEW g, NEW h, NEW v \in Scalars8
  PROVE  Fits(DiscardWith(f, v), SizeWith(g, v), StatedWith(h, v))
<1>1. v.typ \in Nat /\ v.typ # String /\ v.typ # Array /\ v.typ \in OtherType
  BY DEF Scalars8, OtherType
<1> DEFINE s == ScalarSize(v.typ)
<1>2. s \in {-1, 1, 2, 4, 8}
  BY <1>1, ScalarSizeIs
<1>3. DiscardWith(f, v) = IF s > 0 THEN s ELSE Refused
  BY <1>1 DEF DiscardWith
<1>4. SizeWith(g, v) = Skipped(s)
  BY <1>1 DEF SizeWith, OtherType
<1>5. StatedWith(h, v) = (s > 0)
  BY <1>1 DEF StatedWith, OtherType
<1> HIDE DEF s
<1>6. (IF s > 0 THEN s ELSE Refused) \in Bytes /\ Skipped(s) \in Nat /\ (s > 0) \in BOOLEAN
  BY <1>2 DEF Bytes, Skipped, Refused
<1>7. s > 0 => (IF s > 0 THEN s ELSE Refused) = Skipped(s)
  BY <1>2 DEF Skipped
<1> QED BY ONLY <1>3, <1>4, <1>5, <1>6, <1>7 DEF Fits

\* Strings.
LEMMA TextFits ==
  ASSUME NEW f, NEW g, NEW h, NEW v \in Texts8
  PROVE  Fits(DiscardWith(f, v), SizeWith(g, v), StatedWith(h, v))
<1>1. v.typ = String /\ v.typ \notin OtherType /\ v.typ # Array /\ v.n \in Nat /\ v.len \in Nat
  BY DEF Texts8, OtherType, String, Array
<1> DEFINE k == Skipped(Signed(v.n))
<1>2. DiscardWith(f, v) = 8 + k
  BY <1>1, ScalarSizeIs DEF DiscardWith
<1>3. SizeWith(g, v) = 8 + v.len
  BY <1>1 DEF SizeWith
<1>4. StatedWith(h, v) = (v.n = v.len)
  BY <1>1 DEF StatedWith
<1>5. k \in Nat /\ (v.n < Int64Limit => k = v.n)
  BY <1>1, SignedIs
<1> HIDE DEF k
<1>6. 8 + k \in Bytes /\ 8 + v.len \in Nat /\ (v.n = v.len) \in BOOLEAN
  BY <1>1, <1>5 DEF Bytes
<1>7. v.n = v.len /\ 8 + v.len < Int64Limit => 8 + k = 8 + v.len
  BY <1>1, <1>5, LimitIs
<1> QED BY ONLY <1>2, <1>3, <1>4, <1>6, <1>7 DEF Fits

\* The bytes of a block of n elements of size s.
LEMMA BlockBytes ==
  ASSUME NEW n \in Nat, NEW s \in {1, 2, 4, 8}
  PROVE  /\ n * s \in Nat /\ n * s >= n
         /\ Skipped(Signed((n * s) % Word)) \in Nat
         /\ n * s < Int64Limit => Skipped(Signed((n * s) % Word)) = n * s
<1>1. n * s \in Nat /\ n * s >= n
  OBVIOUS
<1> DEFINE k == n * s
<1> HIDE DEF k
<1>2. k \in Nat
  BY <1>1 DEF k
<1>3. k % Word \in Nat /\ (k < Word => k % Word = k)
  BY <1>2, ModIs
<1>4. Skipped(Signed(k % Word)) \in Nat /\ (k % Word < Int64Limit => Skipped(Signed(k % Word)) = k % Word)
  BY <1>3, SignedIs
<1>5. k < Int64Limit => k < Word
  BY <1>2, LimitIs
<1> QED BY <1>1, <1>3, <1>4, <1>5 DEF k

\* Arrays of scalars.
LEMMA BlockFits ==
  ASSUME NEW f, NEW g, NEW h, NEW v \in Blocks
  PROVE  Fits(DiscardWith(f, v), SizeWith(g, v), StatedWith(h, v))
<1> DEFINE s == ScalarSize(v.elem)
<1>1. /\ v.typ = Array /\ v.typ \notin OtherType /\ v.typ # String /\ v.n \in Nat /\ v.len \in Nat
      /\ v.elem \in Nat /\ v.elem \in OtherType /\ v.elem \notin {String, Array}
  BY DEF Blocks, OtherType, String, Array
<1>2. s \in {-1, 1, 2, 4, 8}
  BY <1>1, ScalarSizeIs
<1>3. DiscardWith(f, v) = IF s > 0 THEN 12 + Skipped(Signed((v.n * s) % Word))
                          ELSE IF v.n = 0 THEN 12 ELSE Refused
  <2>1. DiscardWith(f, v) = DiscardArray(f, v)
    BY <1>1, ScalarSizeIs DEF DiscardWith
  <2> QED BY <1>1, <2>1 DEF DiscardArray
<1>4. SizeWith(g, v) = 12 + v.len * Skipped(s)
  BY <1>1 DEF SizeWith
<1>5. StatedWith(h, v) = (v.n = v.len /\ (s > 0 \/ v.n = 0))
  BY <1>1 DEF StatedWith
<1> HIDE DEF s
<1>6. CASE s > 0
  <2>1. s \in {1, 2, 4, 8}
    BY <1>2, <1>6
  <2>2. Skipped(s) = s
    BY <2>1 DEF Skipped
  <2> DEFINE k == Skipped(Signed((v.n * s) % Word))
             z == v.n * s
             y == v.len * s
  <2>3. z \in Nat /\ y \in Nat /\ k \in Nat /\ (z < Int64Limit => k = z) /\ (v.n = v.len => z = y)
    BY <1>1, <2>1, BlockBytes
  <2>4. DiscardWith(f, v) = 12 + k /\ SizeWith(g, v) = 12 + y /\ StatedWith(h, v) = (v.n = v.len)
    BY <1>3, <1>4, <1>5, <1>6, <2>2
  <2> HIDE DEF k, z, y
  <2>5. 12 + k \in Bytes /\ 12 + y \in Nat /\ (v.n = v.len) \in BOOLEAN
    BY <2>3 DEF Bytes
  <2>6. v.n = v.len /\ 12 + y < Int64Limit => 12 + k = 12 + y
    BY <2>3, LimitIs
  <2> QED BY ONLY <2>4, <2>5, <2>6 DEF Fits
<1>7. CASE ~ (s > 0)
  <2>1. Skipped(s) = 0 /\ v.len * 0 = 0
    BY <1>1, <1>2, <1>7 DEF Skipped
  <2>2. /\ DiscardWith(f, v) = IF v.n = 0 THEN 12 ELSE Refused
        /\ SizeWith(g, v) = 12 /\ StatedWith(h, v) = (v.n = v.len /\ v.n = 0)
    BY <1>3, <1>4, <1>5, <1>7, <2>1
  <2>3. (IF v.n = 0 THEN 12 ELSE Refused) \in Bytes /\ 12 \in Nat /\ (v.n = v.len /\ v.n = 0) \in BOOLEAN
    BY DEF Bytes
  <2> QED BY ONLY <2>2, <2>3 DEF Fits
<1> QED BY <1>6, <1>7

\* An array of strings or arrays, whose elements are known.
LEMMA ListFits ==
  ASSUME NEW f, NEW g, NEW h, NEW S, NEW v \in ArraysOver(S),
         \A x \in S : Fits(f[x], g[x], h[x])
  PROVE  Fits(DiscardWith(f, v), SizeWith(g, v), StatedWith(h, v))
<1> DEFINE n == Len(v.items)
           taken == [m \in 1..n |-> f[v.items[m]]]
           size == [m \in 1..n |-> g[v.items[m]]]
           stated == \A m \in 1..n : h[v.items[m]]
<1>1. /\ v.typ = Array /\ v.typ \notin OtherType /\ v.typ # String
      /\ v.elem \in {String, Array} /\ v.elem \notin OtherType
  BY DEF ArraysOver, OtherType, String, Array
<1>2. n \in Nat /\ \A m \in 1..n : v.items[m] \in S
  BY DEF ArraysOver
<1>3. DiscardWith(f, v) = Together(taken, n, 12)
  <2>1. DiscardWith(f, v) = DiscardArray(f, v)
    BY <1>1, ScalarSizeIs DEF DiscardWith
  <2>2. ~ (ScalarSize(v.elem) > 0)
    BY <1>1, ScalarSizeIs
  <2> QED BY <1>1, <2>1, <2>2 DEF DiscardArray
<1>4. SizeWith(g, v) = Together(size, n, 12)
  BY <1>1 DEF SizeWith
<1>5. StatedWith(h, v) = stated
  BY <1>1 DEF StatedWith
<1>6. \A m \in 1..n : Fits(taken[m], size[m], h[v.items[m]])
  BY <1>2
<1>7. taken = [m \in 1..n |-> taken[m]] /\ size = [m \in 1..n |-> size[m]]
  OBVIOUS
<1> HIDE DEF taken, size, n
<1>8. stated \in BOOLEAN
  OBVIOUS
<1>9. Together(taken, n, 12) \in Bytes
  <2>1. \A m \in 1..n : taken[m] \in Bytes
    BY <1>6 DEF Fits
  <2>2. 12 \in Bytes
    BY DEF Bytes
  <2>3. PICK x \in [0..n -> Bytes] : Together(taken, n, 12) = x[n]
    BY <1>2, <2>1, <2>2, TogetherIs
  <2> QED BY <1>2, <2>3
<1>10. \A m \in 1..n : size[m] \in Nat
  BY <1>6 DEF Fits
<1>11. /\ Together(size, n, 12) \in Nat
       /\ \A m \in 1..n : Together(size, n, 12) >= 12 + size[m]
  BY <1>2, <1>10, TogetherOfNats
<1>12. ASSUME stated, Together(size, n, 12) < Int64Limit
       PROVE  Together(taken, n, 12) = Together(size, n, 12)
  <2>1. ASSUME NEW m \in 1..n PROVE taken[m] = size[m]
    <3>1. size[m] < Int64Limit
      BY <1>10, <1>11, <1>12, LimitIs
    <3> QED BY <1>6, <1>12, <3>1 DEF Fits
  <2>2. taken = size
    BY <1>7, <2>1
  <2> QED BY <2>2
<1> HIDE DEF stated
<1> QED BY ONLY <1>3, <1>4, <1>5, <1>8, <1>9, <1>11, <1>12 DEF Fits

Sound(l) == \A v \in l.values : Fits(l.taken[v], l.size[v], l.stated[v])

\* A value is one of the four kinds.
LEMMA KindsAre ==
  ASSUME NEW S, NEW v \in NestedOver(S)
  PROVE  v \in Scalars8 \/ v \in Texts8 \/ v \in Blocks \/ v \in ArraysOver(S)
BY DEF NestedOver, Scalars8, Texts8, Blocks, ArraysOver

\* One level more is as sound as the one below it.
LEMMA DeeperSound ==
  ASSUME NEW l, Sound(l)
  PROVE  Sound(DeeperNest(l))
<1> DEFINE V == NestedOver(l.values)
           d == DeeperNest(l)
<1>1. /\ d.values = V
      /\ \A v \in V : /\ d.taken[v] = DiscardWith(l.taken, v)
                      /\ d.size[v] = SizeWith(l.size, v)
                      /\ d.stated[v] = StatedWith(l.stated, v)
  BY DEF DeeperNest
<1>2. ASSUME NEW v \in V
      PROVE  Fits(DiscardWith(l.taken, v), SizeWith(l.size, v), StatedWith(l.stated, v))
  <2>1. \A x \in l.values : Fits(l.taken[x], l.size[x], l.stated[x])
    BY DEF Sound
  <2> QED BY <2>1, KindsAre, ScalarFits, TextFits, BlockFits, ListFits
<1> HIDE DEF d, V
<1>3. Sound(d)
  BY <1>1, <1>2 DEF Sound
<1> QED BY <1>3 DEF d

\* On every level the bytes taken for a stated value are its size.
LEMMA NestsSound == \A n \in 0..Nesting : Sound(Nested[n])
<1> DEFINE I == {n \in Nat : n <= Nesting => Sound(Nested[n])}
<1>1. 0 \in I
  BY NestsAre DEF Sound, NoNest
<1>2. ASSUME NEW n \in Nat, n \in I PROVE n + 1 \in I
  <2> SUFFICES ASSUME n + 1 <= Nesting PROVE Sound(Nested[n + 1])
    OBVIOUS
  <2>1. Sound(Nested[n])
    BY <1>2, GgufAssumption
  <2>2. Nested[n + 1] = DeeperNest(Nested[n])
    <3>1. n + 1 \in 1..Nesting /\ (n + 1) - 1 = n
      BY GgufAssumption
    <3> QED BY <3>1, NestsAre
  <2> QED BY <2>1, <2>2, DeeperSound
<1> HIDE DEF I
<1>3. \A n \in Nat : n \in I
  BY <1>1, <1>2, Induction
<1> QED BY <1>3 DEF I

\* Discard takes the bytes of a value whose lengths are true.
LEMMA ValueIs ==
  ASSUME NEW v \in Value
  PROVE  Fits(Discard(v), SizeOf(v), TrueLengths(v))
<1>1. Sound(Nested[Nesting])
  BY NestsSound, GgufAssumption
<1> QED BY <1>1 DEF Sound, Value, Discard, SizeOf, TrueLengths

\* What a value is made of.
LEMMA ValueParts ==
  ASSUME NEW v \in Value
  PROVE  \E l : /\ v \in NestedOver(l.values)
                /\ Discard(v) = DiscardWith(l.taken, v)
                /\ SizeOf(v) = SizeWith(l.size, v)
                /\ TrueLengths(v) = StatedWith(l.stated, v)
<1>1. Nesting # 0
  BY NestsAre DEF Value, NoNest
<1> DEFINE l == Nested[Nesting - 1]
<1>2. Nested[Nesting] = DeeperNest(l)
  BY <1>1, NestsAre, GgufAssumption
<1> HIDE DEF l
<1>3. v \in NestedOver(l.values)
  BY <1>2 DEF Value, DeeperNest
<1> DEFINE V == NestedOver(l.values)
           d == DeeperNest(l)
<1>4. /\ d.taken[v] = DiscardWith(l.taken, v)
      /\ d.size[v] = SizeWith(l.size, v)
      /\ d.stated[v] = StatedWith(l.stated, v)
  BY <1>3 DEF DeeperNest
<1> HIDE DEF d
<1>5. /\ Discard(v) = DiscardWith(l.taken, v)
      /\ SizeOf(v) = SizeWith(l.size, v)
      /\ TrueLengths(v) = StatedWith(l.stated, v)
  BY <1>2, <1>4 DEF d, Discard, SizeOf, TrueLengths
<1> QED BY <1>3, <1>5

\* A string whose length is true.
LEMMA TrueText ==
  ASSUME NEW v \in Value, v.typ = String
  PROVE  /\ v.n \in Nat /\ v.len \in Nat /\ SizeOf(v) = 8 + v.len
         /\ TrueLengths(v) <=> v.n = v.len
<1>1. PICK l : /\ v \in NestedOver(l.values)
               /\ SizeOf(v) = SizeWith(l.size, v)
               /\ TrueLengths(v) = StatedWith(l.stated, v)
  BY ValueParts
<1>2. v \in Texts8
  <2>1. v \notin Scalars8 /\ v \notin Blocks /\ v \notin ArraysOver(l.values)
    BY DEF Scalars8, Blocks, ArraysOver, OtherType, String, Array
  <2> QED BY <1>1, <2>1, KindsAre
<1>3. v.n \in Nat /\ v.len \in Nat /\ v.typ \notin OtherType
  BY <1>2 DEF Texts8, OtherType
<1>4. SizeWith(l.size, v) = 8 + v.len
  BY <1>3 DEF SizeWith, Array, String
<1>5. StatedWith(l.stated, v) = (v.n = v.len)
  BY <1>3 DEF StatedWith, Array, String
<1> QED BY <1>1, <1>3, <1>4, <1>5

\* A length beyond the end, which an int64 holds: nothing, or too much, is taken.
LEMMA OverTakes ==
  ASSUME NEW v \in Value, NEW size \in Nat, v.typ \in {String, Array},
         NEW s, s = (IF v.typ = String THEN 1 ELSE ScalarSize(v.elem)), s > 0,
         v.n * s >= size, v.n * s < Int64Limit
  PROVE  /\ Discard(v) \in Nat /\ Discard(v) >= size
         /\ v.typ = String => v.n \in Nat /\ v.n >= size
<1>1. PICK l : v \in NestedOver(l.values) /\ Discard(v) = DiscardWith(l.taken, v)
  BY ValueParts
<1>2. v \notin Scalars8
  BY DEF Scalars8, OtherType
<1>3. v \notin ArraysOver(l.values)
  <2>1. ASSUME v \in ArraysOver(l.values) PROVE FALSE
    <3>1. v.typ = Array /\ v.elem \in {String, Array}
      BY <2>1 DEF ArraysOver
    <3>2. v.typ # String
      BY <3>1 DEF Array, String
    <3> QED BY <3>1, <3>2, ScalarSizeIs
  <2> QED BY <2>1
<1>4. CASE v \in Texts8
  <2>1. v.typ = String /\ v.typ # Array /\ v.n \in Nat
    BY <1>4 DEF Texts8, Array, String
  <2>2. s = 1
    BY <2>1
  <2>3. v.n >= size /\ v.n < Int64Limit
    BY <2>1, <2>2
  <2>4. DiscardWith(l.taken, v) = 8 + Skipped(Signed(v.n))
    BY <2>1, ScalarSizeIs DEF DiscardWith
  <2>5. Skipped(Signed(v.n)) = v.n
    BY <2>1, <2>3, SignedIs
  <2> QED BY <1>1, <2>1, <2>3, <2>4, <2>5
<1>5. CASE v \in Blocks
  <2>1. /\ v.typ = Array /\ v.typ # String /\ v.n \in Nat
        /\ v.elem \in Nat /\ v.elem \notin {String, Array}
    BY <1>5 DEF Blocks, OtherType, Array, String
  <2>2. s = ScalarSize(v.elem) /\ s \in {1, 2, 4, 8}
    <3>1. s = ScalarSize(v.elem)
      BY <2>1
    <3>2. ScalarSize(v.elem) \in {-1, 1, 2, 4, 8}
      BY <2>1, ScalarSizeIs
    <3> QED BY <3>1, <3>2
  <2>3. DiscardWith(l.taken, v) = 12 + Skipped(Signed((v.n * s) % Word))
    <3>1. DiscardWith(l.taken, v) = DiscardArray(l.taken, v)
      BY <2>1, ScalarSizeIs DEF DiscardWith
    <3> QED BY <2>1, <2>2, <3>1 DEF DiscardArray
  <2>4. v.n * s \in Nat /\ Skipped(Signed((v.n * s) % Word)) = v.n * s
    BY <2>1, <2>2, BlockBytes
  <2> DEFINE z == v.n * s
  <2> HIDE DEF z
  <2>5. z \in Nat /\ z >= size /\ DiscardWith(l.taken, v) = 12 + z
    BY <2>3, <2>4 DEF z
  <2> QED BY <1>1, <2>1, <2>5
<1> QED BY <1>1, <1>2, <1>3, <1>4, <1>5, KindsAre

-----------------------------------------------------------------------------
(***************************************************************************)
(* The loop of readGGUFMeta.                                               *)
(***************************************************************************)
LoopStart == [is |-> "reading", pos |-> HeaderSize, meta |-> Nothing]
LoopStep(r, file, n, cut) ==
  IF n > file.count THEN r ELSE ReadEntry(r, file.entries[n], cut)

\* The recursion over the entries is well defined.
LEMMA ReadsAre ==
  ASSUME NEW file, NEW cut, Len(file.entries) \in Nat
  PROVE  \E g : /\ g[0] = LoopStart
                /\ \A n \in 1..Len(file.entries) : g[n] = LoopStep(g[n - 1], file, n, cut)
                /\ ReadEntries(file, cut) = g[Len(file.entries)]
<1> DEFINE L == Len(file.entries)
           Is(g, n) == g = [i \in 0..n |-> IF i = 0 THEN LoopStart
                                           ELSE LoopStep(g[i - 1], file, i, cut)]
           I == {n \in Nat : \E g : Is(g, n)}
           after == CHOOSE g : Is(g, L)
<1>1. 0 \in I
  <2> DEFINE g == [i \in 0..0 |-> LoopStart]
  <2>1. g = [i \in 0..0 |-> IF i = 0 THEN LoopStart ELSE LoopStep(g[i - 1], file, i, cut)]
    OBVIOUS
  <2> HIDE DEF g
  <2> QED BY <2>1
<1>2. ASSUME NEW n \in Nat, n \in I PROVE n + 1 \in I
  <2>1. PICK g : Is(g, n)
    BY <1>2
  <2> DEFINE h == [i \in 0..(n + 1) |-> IF i = n + 1 THEN LoopStep(g[n], file, n + 1, cut) ELSE g[i]]
             v == [i \in 0..(n + 1) |-> IF i = 0 THEN LoopStart ELSE LoopStep(h[i - 1], file, i, cut)]
  <2>2. \A i \in 0..n : g[i] = IF i = 0 THEN LoopStart ELSE LoopStep(g[i - 1], file, i, cut)
    <3> DEFINE w == [i \in 0..n |-> IF i = 0 THEN LoopStart ELSE LoopStep(g[i - 1], file, i, cut)]
    <3>1. g = w
      BY <2>1
    <3>2. \A i \in 0..n : w[i] = IF i = 0 THEN LoopStart ELSE LoopStep(g[i - 1], file, i, cut)
      OBVIOUS
    <3> HIDE DEF w
    <3> QED BY <3>1, <3>2
  <2>3. ASSUME NEW i \in 0..(n + 1)
        PROVE  h[i] = IF i = 0 THEN LoopStart ELSE LoopStep(h[i - 1], file, i, cut)
    <3>1. CASE i = n + 1
      <4>1. h[i] = LoopStep(g[n], file, n + 1, cut) /\ i - 1 = n /\ h[i - 1] = g[n] /\ i # 0
        BY <3>1
      <4> QED BY <3>1, <4>1
    <3>2. CASE i # n + 1
      <4>1. i \in 0..n /\ h[i] = g[i]
        BY <3>2
      <4>2. i # 0 => i - 1 \in 0..n /\ h[i - 1] = g[i - 1]
        BY <4>1
      <4> HIDE DEF h
      <4> QED BY <2>2, <4>1, <4>2
    <3> QED BY <3>1, <3>2
  <2>4. h = v
    <3>1. h = [i \in 0..(n + 1) |-> h[i]]
      OBVIOUS
    <3>2. v = [i \in 0..(n + 1) |-> v[i]]
      OBVIOUS
    <3>3. \A i \in 0..(n + 1) : v[i] = IF i = 0 THEN LoopStart ELSE LoopStep(h[i - 1], file, i, cut)
      OBVIOUS
    <3> HIDE DEF h, v
    <3> QED BY <2>3, <3>1, <3>2, <3>3
  <2>5. Is(h, n + 1)
    BY <2>4
  <2> HIDE DEF h, Is
  <2> QED BY <2>5
<1>3. ReadEntries(file, cut) = after[L]
  BY DEF ReadEntries, LoopStart, LoopStep
<1>4. Is(after, L)
  <2>1. \E g : Is(g, L)
    <3> HIDE DEF I
    <3>1. L \in I
      BY <1>1, <1>2, Induction
    <3> QED BY <3>1 DEF I
  <2> HIDE DEF Is
  <2> QED BY <2>1
<1> HIDE DEF after
<1>5. ASSUME NEW n \in 0..L
      PROVE  after[n] = IF n = 0 THEN LoopStart ELSE LoopStep(after[n - 1], file, n, cut)
  <2> DEFINE w == [i \in 0..L |-> IF i = 0 THEN LoopStart ELSE LoopStep(after[i - 1], file, i, cut)]
  <2>1. after = w
    BY <1>4
  <2>2. w[n] = IF n = 0 THEN LoopStart ELSE LoopStep(after[n - 1], file, n, cut)
    OBVIOUS
  <2> HIDE DEF w
  <2> QED BY <2>1, <2>2
<1> HIDE DEF Is, I
<1>6. after[0] = LoopStart /\ \A n \in 1..L : after[n] = LoopStep(after[n - 1], file, n, cut)
  <2>1. 0 \in 0..L /\ \A n \in 1..L : n \in 0..L /\ n # 0
    OBVIOUS
  <2> QED BY <1>5, <2>1
<1> QED BY <1>3, <1>6

\* The value of an entry is not a text that is too long to be read.
Short(e) == IsArchitecture(e) \/ IsTemplate(e) => e.v.n <= MaxText

\* An entry whose lengths are true is read, or the reader refuses it.
LEMMA EntryRead ==
  ASSUME NEW T, NEW e \in KeyValue(T), TrueLengths(e.v), EntrySize(e) < Int64Limit,
         NEW p \in Nat, NEW m, NEW cut \in Nat,
         NEW r, r = [is |-> "reading", pos |-> p, meta |-> m]
  PROVE  /\ EntrySize(e) \in Nat
         /\ \/ /\ ReadEntry(r, e, cut)
                    = [is |-> "reading", pos |-> p + EntrySize(e), meta |-> Noted(m, e)]
               /\ p + EntrySize(e) <= cut /\ Short(e)
            \/ /\ ReadEntry(r, e, cut).is = Failed
               /\ p + EntrySize(e) > cut \/ ~Short(e)
<1>1. e.v \in Value
  BY DEF KeyValue
<1> DEFINE s == SizeOf(e.v)
<1>2. s \in Nat /\ (s < Int64Limit => Discard(e.v) = s)
  BY <1>1, ValueIs DEF Fits
<1>3. KeySize \in Nat
  BY GgufAssumption
<1>4. EntrySize(e) = KeySize + 4 + s /\ EntrySize(e) \in Nat
  BY <1>2, <1>3 DEF EntrySize
<1>5. Discard(e.v) = s
  <2>1. s < Int64Limit
    BY <1>2, <1>3, <1>4, LimitIs
  <2> QED BY <1>2, <2>1
<1>6. Takes(e) = IF Short(e) THEN s ELSE Refused
  <2>1. CASE IsArchitecture(e) \/ IsTemplate(e)
    <3>1. e.v.typ = String
      BY <2>1 DEF IsArchitecture, IsTemplate
    <3>2. e.v.n \in Nat /\ s = 8 + e.v.n
      BY <1>1, <3>1, TrueText
    <3>3. MaxText \in Nat
      BY GgufAssumption
    <3>4. Takes(e) = IF e.v.n > MaxText THEN Refused ELSE 8 + e.v.n
      BY <2>1 DEF Takes, ReadStr
    <3>5. Short(e) <=> ~(e.v.n > MaxText)
      BY <2>1, <3>2, <3>3 DEF Short
    <3> QED BY <3>2, <3>4, <3>5
  <2>2. CASE ~ (IsArchitecture(e) \/ IsTemplate(e))
    BY <1>5, <2>2 DEF Takes, Short
  <2> QED BY <2>1, <2>2
<1> DEFINE q == p + EntrySize(e)
<1> HIDE DEF s
<1>7. r.is = "reading" /\ r.pos = p /\ r.meta = m
  OBVIOUS
<1>8. CASE ~Short(e)
  <2>1. Takes(e) = Refused
    BY <1>6, <1>8
  <2>2. ReadEntry(r, e, cut) = [r EXCEPT !.is = Failed]
    BY <1>7, <2>1 DEF ReadEntry
  <2>3. ReadEntry(r, e, cut).is = Failed
    BY <2>2
  <2> QED BY <1>4, <1>8, <2>3
<1>9. CASE Short(e) /\ q > cut
  <2>1. r.pos + KeySize + 4 + Takes(e) = q
    BY <1>2, <1>3, <1>4, <1>6, <1>7, <1>9
  <2>2. ReadEntry(r, e, cut) = [r EXCEPT !.is = Failed]
    BY <1>7, <1>9, <2>1 DEF ReadEntry
  <2>3. ReadEntry(r, e, cut).is = Failed
    BY <2>2
  <2> QED BY <1>4, <1>9, <2>3
<1>10. CASE Short(e) /\ ~ (q > cut)
  <2>1. r.pos + KeySize + 4 + Takes(e) = q
    BY <1>2, <1>3, <1>4, <1>6, <1>7, <1>10
  <2>2. Takes(e) = SizeOf(e.v) /\ Takes(e) # Refused
    BY <1>2, <1>6, <1>10 DEF s, Refused
  <2>3. ReadEntry(r, e, cut) = [r EXCEPT !.pos = q, !.meta = Noted(@, e)]
    BY <1>7, <1>10, <2>1, <2>2 DEF ReadEntry
  <2>4. ReadEntry(r, e, cut) = [is |-> "reading", pos |-> q, meta |-> Noted(m, e)]
    BY <2>3
  <2>5. q <= cut
    BY <1>4, <1>10
  <2> QED BY <1>4, <1>10, <2>4, <2>5
<1> QED BY <1>8, <1>9, <1>10

\* An entry whose length goes beyond the end is refused.
LEMMA EntryOver ==
  ASSUME NEW T, NEW e \in KeyValue(T), NEW file, FileSize(file) \in Nat, Overstates(e.v, file),
         NEW p \in Nat, NEW m, NEW cut \in Nat, cut <= FileSize(file),
         NEW r, r = [is |-> "reading", pos |-> p, meta |-> m]
  PROVE  ReadEntry(r, e, cut).is = Failed
<1>1. e.v \in Value
  BY DEF KeyValue
<1> DEFINE s == IF e.v.typ = String THEN 1 ELSE ScalarSize(e.v.elem)
           F == FileSize(file)
<1>2. /\ e.v.typ \in {String, Array} /\ s > 0
      /\ e.v.n * s >= F /\ e.v.n * s < Int64Limit
  <2>1. e.v.n * s \in F..(Int64Limit - 1)
    BY DEF Overstates, Int64Limit
  <2>2. e.v.n * s >= F /\ e.v.n * s < Int64Limit
    BY <2>1, LimitIs
  <2>3. e.v.typ \in {String, Array} /\ s > 0
    BY DEF Overstates
  <2> QED BY <2>2, <2>3
<1> HIDE DEF F
<1>3. /\ Discard(e.v) \in Nat /\ Discard(e.v) >= F
      /\ e.v.typ = String => e.v.n \in Nat /\ e.v.n >= F
  <2>1. F \in Nat
    BY DEF F
  <2> DEFINE z == s
  <2>2. z = s
    OBVIOUS
  <2> HIDE DEF z
  <2> QED BY <1>1, <1>2, <2>1, <2>2, OverTakes
<1>4. Takes(e) = Refused \/ (Takes(e) \in Nat /\ Takes(e) >= F)
  <2>1. CASE IsArchitecture(e) \/ IsTemplate(e)
    <3>1. e.v.typ = String
      BY <2>1 DEF IsArchitecture, IsTemplate
    <3>2. Takes(e) = IF e.v.n > MaxText THEN Refused ELSE 8 + e.v.n
      BY <2>1 DEF Takes, ReadStr
    <3> QED BY <1>3, <3>1, <3>2 DEF F
  <2>2. CASE ~ (IsArchitecture(e) \/ IsTemplate(e))
    BY <1>3, <2>2 DEF Takes
  <2> QED BY <2>1, <2>2
<1>5. r.is = "reading" /\ r.pos = p
  OBVIOUS
<1>6. ReadEntry(r, e, cut) = [r EXCEPT !.is = Failed]
  <2>1. CASE Takes(e) = Refused
    BY <1>5, <2>1 DEF ReadEntry
  <2>2. CASE Takes(e) \in Nat /\ Takes(e) >= F
    <3>1. KeySize \in Nat /\ F \in Nat /\ cut <= F
      BY GgufAssumption DEF F
    <3>2. r.pos + KeySize + 4 + Takes(e) > cut
      BY <1>5, <2>2, <3>1
    <3> QED BY <1>5, <3>2 DEF ReadEntry
  <2> QED BY <1>4, <2>1, <2>2
<1> QED BY <1>6

\* Where the entries of a file start.
Offsets(off, file) ==
  /\ off[0] = HeaderSize /\ off[Len(file.entries)] = FileSize(file)
  /\ \A n \in 1..Len(file.entries) : off[n] = off[n - 1] + EntrySize(file.entries[n])
  /\ \A n \in 0..Len(file.entries) : off[n] \in Nat /\ off[n] <= FileSize(file)

\* The entries of a file have places to start at.
LEMMA OffsetsAre ==
  ASSUME NEW T, NEW file, IsFile(file, T)
  PROVE  /\ \E off : Offsets(off, file)
         /\ FileSize(file) \in Nat /\ FileSize(file) >= HeaderSize
         /\ \A n \in 1..Len(file.entries) : /\ file.entries[n] \in KeyValue(T)
                                            /\ EntrySize(file.entries[n]) \in Nat
                                            /\ EntrySize(file.entries[n]) < Int64Limit
<1> DEFINE L == Len(file.entries)
           es == file.entries
           parts == [n \in 1..L |-> EntrySize(es[n])]
           F == FileSize(file)
<1>1. es \in Seq(KeyValue(T)) /\ L \in Nat /\ F < Int64Limit
  BY DEF IsFile, Int64Limit
<1>2. F = Together(parts, L, HeaderSize)
  BY DEF FileSize
<1>3. ASSUME NEW n \in 1..L PROVE parts[n] \in Nat /\ parts[n] = EntrySize(es[n]) /\ es[n] \in KeyValue(T)
  <2>1. es[n] \in KeyValue(T)
    BY <1>1
  <2>2. es[n].v \in Value
    BY <2>1 DEF KeyValue
  <2>3. SizeOf(es[n].v) \in Nat
    BY <2>2, ValueIs DEF Fits
  <2>4. KeySize \in Nat
    BY GgufAssumption
  <2> QED BY <2>1, <2>3, <2>4 DEF EntrySize
<1> HIDE DEF parts, F, L
<1>4. HeaderSize \in Nat /\ HeaderSize \in Bytes
  BY DEF HeaderSize, Bytes
<1>5. F \in Nat /\ F >= HeaderSize /\ \A n \in 1..L : F >= HeaderSize + parts[n]
  BY <1>1, <1>2, <1>3, <1>4, TogetherOfNats
<1>6. PICK g \in [0..L -> Bytes] : Sums(g, parts, L, HeaderSize) /\ F = g[L]
  <2>1. \A n \in 1..L : parts[n] \in Bytes
    BY <1>3 DEF Bytes
  <2> QED BY <1>1, <1>2, <1>4, <2>1, TogetherIs
<1> DEFINE I == {m \in Nat : m <= L => g[m] \in Nat /\ \A n \in 0..m : g[n] \in Nat /\ g[n] <= g[m]}
<1>7. 0 \in I
  BY <1>4, <1>6 DEF Sums
<1>8. ASSUME NEW m \in Nat, m \in I PROVE m + 1 \in I
  <2> SUFFICES ASSUME m + 1 <= L
               PROVE g[m + 1] \in Nat /\ \A n \in 0..(m + 1) : g[n] \in Nat /\ g[n] <= g[m + 1]
    OBVIOUS
  <2>1. g[m] \in Nat /\ \A n \in 0..m : g[n] \in Nat /\ g[n] <= g[m]
    BY <1>1, <1>8
  <2>2. m + 1 \in 1..L /\ (m + 1) - 1 = m
    BY <1>1
  <2>3. g[m + 1] = Plus(g[m], parts[m + 1]) /\ parts[m + 1] \in Nat
    BY <1>3, <1>6, <2>2 DEF Sums
  <2>4. g[m + 1] = g[m] + parts[m + 1]
    BY <2>1, <2>3 DEF Plus, Refused
  <2>5. g[m + 1] \in Nat /\ g[m] <= g[m + 1]
    BY <2>1, <2>3, <2>4
  <2>6. ASSUME NEW n \in 0..(m + 1) PROVE g[n] \in Nat /\ g[n] <= g[m + 1]
    <3>1. CASE n = m + 1
      BY <2>5, <3>1
    <3>2. CASE n # m + 1
      <4>1. n \in 0..m
        BY <3>2
      <4> QED BY <2>1, <2>5, <4>1
    <3> QED BY <3>1, <3>2
  <2> QED BY <2>5, <2>6
<1> HIDE DEF I
<1>9. \A n \in 0..L : g[n] \in Nat /\ g[n] <= F
  <2>1. L \in I
    BY <1>1, <1>7, <1>8, Induction
  <2> QED BY <1>6, <2>1 DEF I
<1>10. \A n \in 1..L : g[n] = g[n - 1] + parts[n]
  <2>1. ASSUME NEW n \in 1..L PROVE g[n] = g[n - 1] + parts[n]
    <3>1. n - 1 \in 0..L
      BY <1>1
    <3>2. g[n - 1] \in Nat /\ parts[n] \in Nat
      BY <1>3, <1>9, <3>1
    <3>3. g[n] = Plus(g[n - 1], parts[n])
      BY <1>6 DEF Sums
    <3> QED BY <3>2, <3>3 DEF Plus, Refused
  <2> QED BY <2>1
<1>11. Offsets(g, file)
  BY <1>3, <1>6, <1>9, <1>10 DEF Offsets, Sums, L, F
<1>12. \A n \in 1..L : parts[n] < Int64Limit
  BY <1>1, <1>3, <1>4, <1>5, LimitIs
<1> QED BY <1>3, <1>5, <1>11, <1>12 DEF L, F

-----------------------------------------------------------------------------
(***************************************************************************)
(* What the reader knows after n entries.                                  *)
(***************************************************************************)
ArchAt(es, n) == {i \in 1..n : IsArchitecture(es[i])}
TemplateAt(es, n) == {i \in 1..n : IsTemplate(es[i])}
ContextAt(es, n, a) == {i \in 1..n : IsContext(es[i]) /\ es[i].arch = a}

Knows(m, es, n) ==
  /\ m.arch = LastOf(es, ArchAt(es, n)).text
  /\ m.template = LastOf(es, TemplateAt(es, n)).text
  /\ \A a : a \in DOMAIN m.context <=> ContextAt(es, n, a) # {}
  /\ \A a \in DOMAIN m.context :
       m.context[a] = LastOf(es, ContextAt(es, n, a)).number % Half

IsMeta(m) == m = [arch |-> m.arch, template |-> m.template, context |-> m.context]

\* The last of some places is the new one.
LEMMA LastNext ==
  ASSUME NEW es, NEW n \in Nat, NEW I \in SUBSET (1..n)
  PROVE  LastOf(es, I \union {n + 1}) = es[n + 1]
<1> DEFINE J == I \union {n + 1}
<1>1. J \in SUBSET Nat /\ n + 1 \in J /\ \A j \in J : n + 1 >= j
  OBVIOUS
<1> HIDE DEF J
<1>2. Max(J) = n + 1
  BY <1>1, MaxIs
<1>3. LastOf(es, J) = es[n + 1]
  BY <1>1, <1>2 DEF LastOf
<1> QED BY <1>3 DEF J

\* Before the first entry, nothing.
LEMMA KnowsNothing ==
  ASSUME NEW es
  PROVE  Knows(Nothing, es, 0) /\ IsMeta(Nothing)
<1>1. 1..0 = {}
  OBVIOUS
<1>2. ArchAt(es, 0) = {} /\ TemplateAt(es, 0) = {} /\ \A a : ContextAt(es, 0, a) = {}
  BY <1>1 DEF ArchAt, TemplateAt, ContextAt
<1>3. DOMAIN <<>> = {}
  OBVIOUS
<1> QED BY <1>2, <1>3 DEF Knows, IsMeta, Nothing, LastOf

\* What an entry adds.
LEMMA KnowsNext ==
  ASSUME NEW es, NEW n \in Nat, NEW m, Knows(m, es, n), IsMeta(m)
  PROVE  Knows(Noted(m, es[n + 1]), es, n + 1) /\ IsMeta(Noted(m, es[n + 1]))
<1> DEFINE e == es[n + 1]
           k == Noted(m, e)
<1>1. 1..(n + 1) = (1..n) \union {n + 1}
  OBVIOUS
<1>2. ArchAt(es, n + 1) = IF IsArchitecture(e) THEN ArchAt(es, n) \union {n + 1} ELSE ArchAt(es, n)
  BY <1>1 DEF ArchAt
<1>3. TemplateAt(es, n + 1) = IF IsTemplate(e) THEN TemplateAt(es, n) \union {n + 1} ELSE TemplateAt(es, n)
  BY <1>1 DEF TemplateAt
<1>4. \A a : ContextAt(es, n + 1, a) = IF IsContext(e) /\ e.arch = a THEN ContextAt(es, n, a) \union {n + 1}
                                       ELSE ContextAt(es, n, a)
  BY <1>1 DEF ContextAt
<1>5. /\ ArchAt(es, n) \in SUBSET (1..n) /\ TemplateAt(es, n) \in SUBSET (1..n)
      /\ \A a : ContextAt(es, n, a) \in SUBSET (1..n)
  BY DEF ArchAt, TemplateAt, ContextAt
<1>6. /\ LastOf(es, ArchAt(es, n) \union {n + 1}) = e
      /\ LastOf(es, TemplateAt(es, n) \union {n + 1}) = e
      /\ \A a : LastOf(es, ContextAt(es, n, a) \union {n + 1}) = e
  BY <1>5, LastNext
<1>7. /\ IsArchitecture(e) => ~IsTemplate(e) /\ ~IsContext(e)
      /\ IsTemplate(e) => ~IsArchitecture(e) /\ ~IsContext(e)
      /\ IsContext(e) => ~IsArchitecture(e) /\ ~IsTemplate(e)
  BY DEF IsArchitecture, IsTemplate, IsContext
<1>8. m = [arch |-> m.arch, template |-> m.template, context |-> m.context]
  BY DEF IsMeta
<1> HIDE DEF e
<1>9. /\ m.arch = LastOf(es, ArchAt(es, n)).text
      /\ m.template = LastOf(es, TemplateAt(es, n)).text
      /\ \A a : a \in DOMAIN m.context <=> ContextAt(es, n, a) # {}
      /\ \A a \in DOMAIN m.context : m.context[a] = LastOf(es, ContextAt(es, n, a)).number % Half
  BY DEF Knows
<1>10. IsMeta(k) /\ k.arch = LastOf(es, ArchAt(es, n + 1)).text
                 /\ k.template = LastOf(es, TemplateAt(es, n + 1)).text
                 /\ k.context = IF IsContext(e) THEN Set(m.context, e.arch, e.number % Half)
                                ELSE m.context
  <2>1. CASE IsArchitecture(e)
    <3>1. k = [arch |-> e.text, template |-> m.template, context |-> m.context]
      BY <1>7, <1>8, <2>1 DEF Noted
    <3>2. LastOf(es, ArchAt(es, n + 1)).text = e.text
      BY <1>2, <1>6, <2>1
    <3> HIDE DEF k
    <3> QED BY <1>3, <1>7, <1>9, <2>1, <3>1, <3>2 DEF IsMeta
  <2>2. CASE IsTemplate(e)
    <3>1. k = [arch |-> m.arch, template |-> e.text, context |-> m.context]
      BY <1>7, <1>8, <2>2 DEF Noted
    <3>2. LastOf(es, TemplateAt(es, n + 1)).text = e.text
      BY <1>3, <1>6, <2>2
    <3> HIDE DEF k
    <3> QED BY <1>2, <1>7, <1>9, <2>2, <3>1, <3>2 DEF IsMeta
  <2>3. CASE IsContext(e)
    <3>1. k = [arch |-> m.arch, template |-> m.template, context |-> Set(m.context, e.arch, e.number % Half)]
      BY <1>7, <1>8, <2>3 DEF Noted
    <3> HIDE DEF k
    <3> QED BY <1>2, <1>3, <1>7, <1>9, <2>3, <3>1 DEF IsMeta
  <2>4. CASE ~IsArchitecture(e) /\ ~IsTemplate(e) /\ ~IsContext(e)
    <3>1. k = m
      BY <2>4 DEF Noted
    <3> HIDE DEF k
    <3> QED BY <1>2, <1>3, <1>9, <2>4, <3>1
  <2> QED BY <2>1, <2>2, <2>3, <2>4
<1> HIDE DEF k
<1>11. /\ \A a : a \in DOMAIN k.context <=> ContextAt(es, n + 1, a) # {}
       /\ \A a \in DOMAIN k.context :
            k.context[a] = LastOf(es, ContextAt(es, n + 1, a)).number % Half
  <2>1. CASE IsContext(e)
    <3> DEFINE x == e.number % Half
               c == Set(m.context, e.arch, x)
    <3>1. k.context = c
      BY <1>10, <2>1
    <3> HIDE DEF x
    <3>2. /\ DOMAIN c = DOMAIN m.context \union {e.arch}
          /\ \A a \in DOMAIN c : c[a] = IF a = e.arch THEN x ELSE m.context[a]
      BY DEF Set
    <3> HIDE DEF c
    <3>3. \A a : a \in DOMAIN c <=> ContextAt(es, n + 1, a) # {}
      BY <1>4, <1>9, <2>1, <3>2
    <3>4. ASSUME NEW a \in DOMAIN c
          PROVE  c[a] = LastOf(es, ContextAt(es, n + 1, a)).number % Half
      <4>1. CASE a = e.arch
        <5>1. LastOf(es, ContextAt(es, n + 1, a)) = e
          BY <1>4, <1>6, <2>1, <4>1
        <5> QED BY <3>2, <4>1, <5>1 DEF x
      <4>2. CASE a # e.arch
        <5>1. ContextAt(es, n + 1, a) = ContextAt(es, n, a) /\ a \in DOMAIN m.context
          BY <1>4, <3>2, <4>2
        <5> QED BY <1>9, <3>2, <4>2, <5>1
      <4> QED BY <4>1, <4>2
    <3> QED BY <3>1, <3>3, <3>4
  <2>2. CASE ~IsContext(e)
    <3>1. \A a : ContextAt(es, n + 1, a) = ContextAt(es, n, a)
      BY <1>4, <2>2
    <3> QED BY <1>9, <1>10, <2>2, <3>1
  <2> QED BY <2>1, <2>2
<1>12. Knows(k, es, n + 1)
  BY <1>10, <1>11 DEF Knows
<1> QED BY <1>10, <1>12 DEF k, e

-----------------------------------------------------------------------------
(***************************************************************************)
(* The reader after n entries, of a file whose lengths are true or go      *)
(* beyond its end.                                                         *)
(***************************************************************************)
Reading(r, file, n, off, cut) ==
  LET es == file.entries IN
  /\ r = [is |-> "reading", pos |-> off[n], meta |-> r.meta]
  /\ Knows(r.meta, es, n) /\ IsMeta(r.meta)
  /\ n # 0 => off[n] <= cut
  /\ \A i \in 1..n : Short(es[i]) /\ TrueLengths(es[i].v)

Stopped(r, file, n, off, cut) ==
  /\ r.is = Failed
  /\ \E i \in 1..n : \/ off[i] > cut \/ ~Short(file.entries[i])
                     \/ ~TrueLengths(file.entries[i].v)

\* After n entries the reader is where the next one starts, or has failed for a reason.
LEMMA LoopGoes ==
  ASSUME NEW T, NEW file, IsFile(file, T), NEW cut \in 0..FileSize(file),
         file.count >= Len(file.entries),
         \A n \in 1..Len(file.entries) :
           TrueLengths(file.entries[n].v) \/ Overstates(file.entries[n].v, file),
         NEW off, Offsets(off, file)
  PROVE  LET r == ReadEntries(file, cut)
             n == Len(file.entries)
         IN Reading(r, file, n, off, cut) \/ Stopped(r, file, n, off, cut)
<1> DEFINE L == Len(file.entries)
           es == file.entries
           F == FileSize(file)
<1>1. L \in Nat /\ file.count \in Nat
  BY DEF IsFile
<1>2. F \in Nat /\ \A n \in 1..L : /\ es[n] \in KeyValue(T) /\ EntrySize(es[n]) < Int64Limit
  BY OffsetsAre
<1>3. cut \in Nat /\ cut <= F
  BY <1>2
<1>4. PICK g : /\ g[0] = LoopStart
               /\ \A n \in 1..L : g[n] = LoopStep(g[n - 1], file, n, cut)
               /\ ReadEntries(file, cut) = g[L]
  BY <1>1, ReadsAre
<1>5. \A n \in 1..L : g[n] = ReadEntry(g[n - 1], es[n], cut)
  <2>1. \A n \in 1..L : ~ (n > file.count)
    BY <1>1
  <2> QED BY <1>4, <2>1 DEF LoopStep
<1>6. /\ off[0] = HeaderSize
      /\ \A n \in 1..L : off[n] = off[n - 1] + EntrySize(es[n])
      /\ \A n \in 0..L : off[n] \in Nat
  BY DEF Offsets
<1>7. \A n \in 1..L : TrueLengths(es[n].v) \/ Overstates(es[n].v, file)
  OBVIOUS
<1> HIDE DEF L, F
<1> DEFINE Is(n) == Reading(g[n], file, n, off, cut) \/ Stopped(g[n], file, n, off, cut)
           I == {n \in Nat : n <= L => Is(n)}
<1>8. 0 \in I
  <2>1. g[0] = [is |-> "reading", pos |-> off[0], meta |-> Nothing]
    BY <1>4, <1>6 DEF LoopStart
  <2>2. g[0].meta = Nothing
    BY <2>1
  <2>3. Reading(g[0], file, 0, off, cut)
    BY <2>1, <2>2, KnowsNothing DEF Reading
  <2> QED BY <2>3
<1>9. ASSUME NEW n \in Nat, n \in I PROVE n + 1 \in I
  <2> SUFFICES ASSUME n + 1 <= L PROVE Is(n + 1)
    OBVIOUS
  <2> DEFINE e == es[n + 1]
             r == g[n]
             z == g[n + 1]
  <2>1. n + 1 \in 1..L /\ (n + 1) - 1 = n /\ n \in 0..L
    BY <1>1
  <2>2. z = ReadEntry(r, e, cut) /\ off[n + 1] = off[n] + EntrySize(e)
    BY <1>5, <1>6, <2>1
  <2>3. e \in KeyValue(T) /\ EntrySize(e) < Int64Limit /\ off[n] \in Nat
    BY <1>2, <1>6, <2>1
  <2>4. CASE Stopped(r, file, n, off, cut)
    <3>1. r.is = Failed /\ Failed # "reading"
      BY <2>4 DEF Stopped, Failed
    <3>2. z = r
      BY <2>2, <3>1 DEF ReadEntry
    <3>3. \A i \in 1..n : i \in 1..(n + 1)
      OBVIOUS
    <3>4. Stopped(z, file, n + 1, off, cut)
      BY <2>4, <3>2, <3>3 DEF Stopped
    <3> QED BY <3>4
  <2>5. CASE Reading(r, file, n, off, cut)
    <3> DEFINE m == r.meta
    <3>1. r = [is |-> "reading", pos |-> off[n], meta |-> m] /\ Knows(m, es, n) /\ IsMeta(m)
      BY <2>5 DEF Reading
    <3> HIDE DEF m, r, z, e
    <3>2. CASE TrueLengths(e.v)
      <4>1. \/ z = [is |-> "reading", pos |-> off[n + 1], meta |-> Noted(m, e)]
               /\ off[n + 1] <= cut /\ Short(e)
            \/ z.is = Failed /\ (off[n + 1] > cut \/ ~Short(e))
        BY <1>3, <2>2, <2>3, <3>1, <3>2, EntryRead
      <4>2. CASE z.is = Failed /\ (off[n + 1] > cut \/ ~Short(e))
        <5>1. n + 1 \in 1..(n + 1)
          OBVIOUS
        <5>2. Stopped(z, file, n + 1, off, cut)
          BY <4>2, <5>1 DEF Stopped, e
        <5> QED BY <5>2 DEF z
      <4>3. CASE z = [is |-> "reading", pos |-> off[n + 1], meta |-> Noted(m, e)]
                 /\ off[n + 1] <= cut /\ Short(e)
        <5>1. z.meta = Noted(m, e)
          BY <4>3
        <5>2. Knows(z.meta, es, n + 1) /\ IsMeta(z.meta)
          BY <3>1, <5>1, KnowsNext DEF e
        <5>3. \A i \in 1..n : Short(es[i]) /\ TrueLengths(es[i].v)
          BY <2>5 DEF Reading, r
        <5>4. \A i \in 1..(n + 1) : i \in 1..n \/ i = n + 1
          OBVIOUS
        <5>5. Reading(z, file, n + 1, off, cut)
          BY <3>2, <4>3, <5>1, <5>2, <5>3, <5>4 DEF Reading, e
        <5> QED BY <5>5 DEF z
      <4> QED BY <4>1, <4>2, <4>3
    <3>3. CASE ~TrueLengths(e.v)
      <4>1. Overstates(e.v, file)
        BY <1>7, <2>1, <3>3 DEF e
      <4>2. z.is = Failed
        BY <1>2, <1>3, <2>2, <2>3, <3>1, <4>1, EntryOver DEF F
      <4>3. n + 1 \in 1..(n + 1)
        OBVIOUS
      <4>4. Stopped(z, file, n + 1, off, cut)
        BY <3>3, <4>2, <4>3 DEF Stopped, e
      <4> QED BY <4>4 DEF z
    <3> QED BY <3>2, <3>3
  <2>6. Is(n)
    BY <1>1, <1>9
  <2> QED BY <2>4, <2>5, <2>6
<1> HIDE DEF I, Is
<1>10. L \in I
  BY <1>1, <1>8, <1>9, Induction
<1>11. Is(L)
  BY <1>1, <1>10 DEF I
<1> QED BY <1>4, <1>11 DEF Is, L

\* What a reader that knows all entries of a file reports.
LEMMA KnownIsMeta ==
  ASSUME NEW T, NEW file, IsFile(file, T), ContextsFit(file),
         NEW m, Knows(m, file.entries, Len(file.entries))
  PROVE  LET known == m.arch \in DOMAIN m.context /\ m.arch # ""
         IN MetaOf(file)
              = [is |-> Read, arch |-> m.arch, template |-> m.template,
                 context |-> IF known THEN m.context[m.arch] ELSE 0]
<1> DEFINE es == file.entries
           L == Len(es)
           own == {n \in 1..L : IsContext(es[n]) /\ es[n].arch = m.arch /\ m.arch # ""}
           known == m.arch \in DOMAIN m.context /\ m.arch # ""
<1>1. L \in Nat /\ \A n \in 1..L : es[n] \in KeyValue(T)
  BY DEF IsFile
<1>2. /\ m.arch = LastOf(es, {n \in 1..L : IsArchitecture(es[n])}).text
      /\ m.template = LastOf(es, {n \in 1..L : IsTemplate(es[n])}).text
  BY DEF Knows, ArchAt, TemplateAt
<1>3. MetaOf(file) = [is |-> Read, arch |-> m.arch, context |-> LastOf(es, own).number,
                      template |-> m.template]
  BY <1>2 DEF MetaOf
<1>4. LastOf(es, own).number = IF known THEN m.context[m.arch] ELSE 0
  <2>1. CASE m.arch = ""
    <3>1. own = {}
      BY <2>1
    <3> HIDE DEF own
    <3> QED BY <2>1, <3>1 DEF LastOf
  <2>2. CASE m.arch # ""
    <3>1. own = ContextAt(es, L, m.arch)
      BY <2>2 DEF ContextAt
    <3>2. own \in SUBSET (1..L) /\ \A n \in own : IsContext(es[n])
      OBVIOUS
    <3> HIDE DEF own
    <3>3. CASE own = {}
      <4>1. m.arch \notin DOMAIN m.context
        BY <3>1, <3>3 DEF Knows
      <4> QED BY <3>3, <4>1 DEF LastOf
    <3>4. CASE own # {}
      <4>1. m.arch \in DOMAIN m.context
            /\ m.context[m.arch] = LastOf(es, own).number % Half
        BY <3>1, <3>4 DEF Knows
      <4>2. Max(own) \in own
        BY <1>1, <3>2, <3>4, GreatestIsMax
      <4> DEFINE e == es[Max(own)]
                 x == e.number
      <4>3. LastOf(es, own) = e
        BY <3>4 DEF LastOf
      <4>4. x \in Nat /\ x < Half
        <5>1. Max(own) \in 1..L /\ IsContext(e)
          BY <3>2, <4>2
        <5>2. e \in KeyValue(T)
          BY <1>1, <5>1
        <5> QED BY <5>1, <5>2 DEF KeyValue, ContextsFit
      <4> HIDE DEF x
      <4>5. x % Half = x
        <5>1. Half \in Nat /\ Half # 0
          BY GgufAssumption
        <5> QED BY <4>4, <5>1
      <4> QED BY <2>2, <4>1, <4>3, <4>5 DEF x
    <3> QED BY <3>3, <3>4
  <2> QED BY <2>1, <2>2
<1> QED BY <1>3, <1>4

\* A file is read for what it says or refused.
LEMMA HeaderIs ==
  ASSUME NEW T, NEW file, IsFile(file, T), NEW cut \in 0..FileSize(file)
  PROVE  LET read == ReadMeta(file, cut)
             whole == cut = FileSize(file)
         IN /\ WellFormed(file) /\ (~whole \/ ~TextsFit(file)) => read.is = Failed
            /\ WellFormed(file) /\ whole /\ TextsFit(file) /\ ContextsFit(file) =>
                 read = MetaOf(file)
            /\ Overstated(file) => read.is = Failed
<1> DEFINE L == Len(file.entries)
           es == file.entries
           F == FileSize(file)
           r == ReadEntries(file, cut)
           read == ReadMeta(file, cut)
           whole == cut = FileSize(file)
<1>1. L \in Nat /\ file.count \in Nat /\ file.version \in Nat
  BY DEF IsFile
<1>2. F \in Nat /\ F >= HeaderSize /\ HeaderSize = 24 /\ cut \in Nat /\ cut <= F
  BY OffsetsAre DEF HeaderSize
<1>3. PICK off : Offsets(off, file)
  BY OffsetsAre
<1>4. off[L] = F /\ \A n \in 0..L : off[n] \in Nat /\ off[n] <= F
  BY <1>3 DEF Offsets
<1>5. TextsFit(file) <=> \A n \in 1..L : Short(es[n])
  BY DEF TextsFit, Short
<1>6. ASSUME Stopped(r, file, L, off, cut) PROVE read.is = Failed
  <2>1. r.is = Failed /\ Failed # "reading"
    BY <1>6 DEF Stopped, Failed
  <2>2. read = [is |-> Failed]
    BY <2>1 DEF ReadMeta
  <2> HIDE DEF read
  <2> QED BY <2>2
<1>7. ASSUME cut < HeaderSize PROVE read.is = Failed
  <2>1. read = [is |-> Failed]
    BY <1>7 DEF ReadMeta
  <2> HIDE DEF read
  <2> QED BY <2>1
<1>8. ASSUME WellFormed(file)
      PROVE  /\ file.version >= 2 /\ file.count = L /\ \A n \in 1..L : TrueLengths(es[n].v)
             /\ Reading(r, file, L, off, cut) \/ Stopped(r, file, L, off, cut)
  <2>1. file.version >= 2 /\ file.count = L /\ \A n \in 1..L : TrueLengths(es[n].v)
    BY <1>8 DEF WellFormed, AllTrue
  <2>2. file.count >= L
    BY <1>1, <2>1
  <2> QED BY <1>3, <2>1, <2>2, LoopGoes
<1> HIDE DEF r
<1>9. ASSUME WellFormed(file), ~whole \/ ~TextsFit(file) PROVE read.is = Failed
  <2>1. CASE Reading(r, file, L, off, cut)
    <3>1. TextsFit(file)
      BY <1>5, <2>1 DEF Reading
    <3>2. CASE L = 0
      BY <1>2, <1>3, <1>7, <1>9, <3>1, <3>2 DEF Offsets
    <3>3. CASE L # 0
      <4>1. F <= cut
        BY <1>4, <2>1, <3>3 DEF Reading
      <4> QED BY <1>2, <1>9, <3>1, <4>1
    <3> QED BY <3>2, <3>3
  <2> HIDE DEF read
  <2> QED BY <1>6, <1>8, <1>9, <2>1
<1>10. ASSUME WellFormed(file), whole, TextsFit(file), ContextsFit(file)
       PROVE  read = MetaOf(file)
  <2>1. ~Stopped(r, file, L, off, cut)
    <3>1. ASSUME NEW i \in 1..L PROVE ~ (off[i] > cut)
      <4>1. off[i] \in Nat /\ off[i] <= F
        BY <1>1, <1>4
      <4> QED BY <1>2, <1>10, <4>1
    <3> QED BY <1>5, <1>8, <1>10, <3>1 DEF Stopped
  <2>2. Reading(r, file, L, off, cut)
    BY <1>8, <1>10, <2>1
  <2> DEFINE m == r.meta
             known == m.arch \in DOMAIN m.context /\ m.arch # ""
  <2>3. r.is = "reading" /\ Knows(m, es, L)
    BY <2>2 DEF Reading
  <2>4. ~ (cut < HeaderSize \/ file.version < 2) /\ ~ (file.count > L)
    BY <1>1, <1>2, <1>8, <1>10
  <2>5. read = [is |-> Read, arch |-> m.arch, template |-> m.template,
                context |-> IF known THEN m.context[m.arch] ELSE 0]
    BY <2>3, <2>4 DEF ReadMeta, r
  <2>6. MetaOf(file) = [is |-> Read, arch |-> m.arch, template |-> m.template,
                        context |-> IF known THEN m.context[m.arch] ELSE 0]
    <3> HIDE DEF m
    <3> QED BY <1>10, <2>3, KnownIsMeta
  <2> HIDE DEF read, known, m
  <2> QED BY <2>5, <2>6
<1>11. ASSUME Overstated(file) PROVE read.is = Failed
  <2>1. /\ file.count >= L /\ ~ \A n \in 1..L : TrueLengths(es[n].v)
        /\ \A n \in 1..L : TrueLengths(es[n].v) \/ Overstates(es[n].v, file)
    BY <1>11 DEF Overstated, AllTrue
  <2>2. Reading(r, file, L, off, cut) \/ Stopped(r, file, L, off, cut)
    BY <1>3, <2>1, LoopGoes DEF r
  <2>3. ~Reading(r, file, L, off, cut)
    BY <2>1 DEF Reading
  <2> HIDE DEF read
  <2> QED BY <1>6, <2>2, <2>3
<1> QED BY <1>9, <1>10, <1>11

-----------------------------------------------------------------------------
(***************************************************************************)
(* Macros: joining texts, and substitutions in them.                       *)
(***************************************************************************)
\* h has what the first of the parts are together.
JoinedTexts(h, T, n, ps) ==
  h \in [0..n -> Seq(T)] /\ h[0] = <<>> /\ \A i \in 1..n : h[i] = h[i - 1] \o ps[i]

\* Joining is well defined.
LEMMA JoinsAre ==
  ASSUME NEW T, NEW n \in Nat, NEW ps, \A i \in 1..n : ps[i] \in Seq(T)
  PROVE  \E h : JoinedTexts(h, T, n, ps)
<1> DEFINE S == Seq(T)
           step == [i \in 1..n |-> [a \in S |-> a \o ps[i]]]
<1>1. step \in [1..n -> [S -> S]] /\ <<>> \in S
  OBVIOUS
<1>2. \A i \in 1..n : \A a \in S : step[i][a] = a \o ps[i]
  OBVIOUS
<1> HIDE DEF step, S
<1>3. PICK h : Runs(h, S, <<>>, n, step)
  BY <1>1, Recursion
<1>4. h \in [0..n -> S] /\ h[0] = <<>> /\ \A i \in 1..n : h[i] = step[i][h[i - 1]]
  BY <1>3 DEF Runs
<1>5. ASSUME NEW i \in 1..n PROVE h[i] = h[i - 1] \o ps[i]
  <2>1. i - 1 \in 0..n
    OBVIOUS
  <2> QED BY <1>2, <1>4, <2>1
<1>6. JoinedTexts(h, T, n, ps)
  BY <1>4, <1>5 DEF S, JoinedTexts
<1> QED BY <1>6

\* Joining is done from the left.
LEMMA FlattenIs ==
  ASSUME NEW T, NEW ps \in Seq(Seq(T))
  PROVE  \E g : /\ g[0] = <<>> /\ \A i \in 1..Len(ps) : g[i] = g[i - 1] \o ps[i]
                /\ \A i \in 0..Len(ps) : g[i] \in Seq(T)
                /\ FlattenSeq(ps) = g[Len(ps)]
<1> DEFINE n == Len(ps)
           Is(g) == g = [i \in 1..n |-> IF i = 1 THEN ps[i] ELSE g[i - 1] \o ps[i]]
           flatten == CHOOSE g : Is(g)
<1>1. n \in Nat /\ \A i \in 1..n : ps[i] \in Seq(T)
  OBVIOUS
<1>2. CASE n = 0
  <2>1. ps = <<>>
    BY <1>2
  <2>2. FlattenSeq(ps) = <<>>
    BY <1>2, <2>1 DEF FlattenSeq
  <2> DEFINE g == [i \in 0..0 |-> <<>>]
  <2>3. g[0] = <<>> /\ <<>> \in Seq(T)
    OBVIOUS
  <2> HIDE DEF g
  <2>4. (\A i \in 1..n : g[i] = g[i - 1] \o ps[i]) /\ (\A i \in 0..n : g[i] \in Seq(T))
    <3>1. 1..n = {} /\ 0..n = {0}
      BY <1>2
    <3> QED BY <2>3, <3>1
  <2>5. FlattenSeq(ps) = g[n]
    BY <1>2, <2>2, <2>3
  <2> HIDE DEF n
  <2> QED BY <2>3, <2>4, <2>5 DEF n
<1>3. CASE n # 0
  <2>1. PICK h : JoinedTexts(h, T, n, ps)
    <3> HIDE DEF n
    <3> QED BY <1>1, JoinsAre
  <2>3. h \in [0..n -> Seq(T)] /\ h[0] = <<>> /\ \A i \in 1..n : h[i] = h[i - 1] \o ps[i]
    BY <2>1 DEF JoinedTexts
  <2>4. \A i \in 1..n : h[i] = h[i - 1] \o ps[i] /\ h[i] \in Seq(T) /\ h[i - 1] \in Seq(T)
    <3>1. \A i \in 1..n : i \in 0..n /\ i - 1 \in 0..n
      OBVIOUS
    <3> HIDE DEF n
    <3> QED BY <2>3, <3>1
  <2> DEFINE w == [i \in 1..n |-> h[i]]
  <2>5. Is(w)
    <3> DEFINE v == [i \in 1..n |-> IF i = 1 THEN ps[i] ELSE w[i - 1] \o ps[i]]
    <3>1. ASSUME NEW i \in 1..n PROVE w[i] = v[i]
      <4>1. CASE i = 1
        <5>1. h[i - 1] = <<>>
          BY <2>3, <4>1
        <5>2. h[i] = <<>> \o ps[i]
          BY <2>4, <5>1
        <5>3. <<>> \o ps[i] = ps[i]
          BY <1>1
        <5> QED BY <4>1, <5>2, <5>3
      <4>2. CASE i # 1
        <5>1. i - 1 \in 1..n /\ w[i - 1] = h[i - 1]
          BY <4>2
        <5> QED BY <2>4, <4>2, <5>1
      <4> QED BY <4>1, <4>2
    <3>2. w = v
      BY <3>1
    <3> QED BY <3>2
  <2>6. Is(flatten)
    <3> HIDE DEF Is, w
    <3> QED BY <2>5
  <2>7. FlattenSeq(ps) = flatten[n]
    BY <1>3 DEF FlattenSeq
  <2> HIDE DEF flatten
  <2>8. ASSUME NEW i \in 1..n
        PROVE flatten[i] = IF i = 1 THEN ps[i] ELSE flatten[i - 1] \o ps[i]
    <3> DEFINE v == [j \in 1..n |-> IF j = 1 THEN ps[j] ELSE flatten[j - 1] \o ps[j]]
    <3>1. flatten = v
      BY <2>6
    <3>2. v[i] = IF i = 1 THEN ps[i] ELSE flatten[i - 1] \o ps[i]
      OBVIOUS
    <3> HIDE DEF v
    <3> QED BY <3>1, <3>2
  <2> HIDE DEF Is, w, n
  <2> DEFINE I == {m \in Nat : m + 1 <= n => flatten[m + 1] = h[m + 1]}
  <2>9. 0 \in I
    <3> SUFFICES ASSUME 1 <= n PROVE flatten[1] = h[1]
      OBVIOUS
    <3>1. 1 \in 1..n /\ 1 - 1 = 0
      BY <1>1
    <3>2. flatten[1] = ps[1]
      BY <2>8, <3>1
    <3>3. h[1] = <<>> \o ps[1]
      BY <2>3, <2>4, <3>1
    <3>4. <<>> \o ps[1] = ps[1]
      BY <1>1, <3>1
    <3> QED BY <3>2, <3>3, <3>4
  <2>10. ASSUME NEW m \in Nat, m \in I PROVE m + 1 \in I
    <3> SUFFICES ASSUME (m + 1) + 1 <= n PROVE flatten[(m + 1) + 1] = h[(m + 1) + 1]
      OBVIOUS
    <3>1. (m + 1) + 1 \in 1..n /\ (m + 1) + 1 # 1 /\ ((m + 1) + 1) - 1 = m + 1
      BY <1>1
    <3>2. flatten[m + 1] = h[m + 1]
      BY <1>1, <2>10
    <3> DEFINE k == (m + 1) + 1
    <3>3. h[k] = h[m + 1] \o ps[k]
      BY <2>4, <3>1
    <3>4. flatten[k] = flatten[m + 1] \o ps[k]
      BY <2>8, <3>1
    <3> QED BY <3>2, <3>3, <3>4
  <2> HIDE DEF I
  <2>11. n - 1 \in I
    <3>1. n - 1 \in Nat
      BY <1>1, <1>3
    <3> QED BY <2>9, <2>10, <3>1, Induction
  <2>12. flatten[n] = h[n]
    <3>1. n - 1 \in Nat /\ (n - 1) + 1 = n
      BY <1>1, <1>3
    <3> QED BY <1>1, <2>11, <3>1 DEF I
  <2> QED BY <2>3, <2>4, <2>7, <2>12 DEF n
<1> QED BY <1>2, <1>3

-----------------------------------------------------------------------------
(***************************************************************************)
(* Substitution, by the token that is appended.                            *)
(***************************************************************************)
Tok(x, f) == IF x \in DOMAIN f THEN f[x] ELSE <<x>>

\* The texts of f are texts over T.
Into(f, T) == \A x \in DOMAIN f : f[x] \in Seq(T)

\* What stands for a token is a text.
LEMMA TokIs ==
  ASSUME NEW T, NEW f, Into(f, T), NEW x \in T
  PROVE  Tok(x, f) \in Seq(T)
BY DEF Tok, Into

\* Nothing is substituted in nothing.
LEMMA SubstituteNothing ==
  ASSUME NEW f
  PROVE  Substitute(<<>>, f) = <<>>
<1> DEFINE ps == [i \in 1..Len(<<>>) |-> IF <<>>[i] \in DOMAIN f THEN f[<<>>[i]] ELSE <<(<<>>)[i]>>]
<1>1. Len(<<>>) = 0 /\ 1..0 = {}
  OBVIOUS
<1>2. DOMAIN ps = 1..0
  BY <1>1
<1>3. ps = <<>>
  BY <1>1
<1>4. Substitute(<<>>, f) = FlattenSeq(ps)
  BY DEF Substitute
<1> QED BY <1>1, <1>3, <1>4 DEF FlattenSeq

\* The parts that are joined by a substitution.
Expands(g, s, f, T) ==
  /\ g[0] = <<>> /\ \A i \in 1..Len(s) : g[i] = g[i - 1] \o Tok(s[i], f)
  /\ \A i \in 0..Len(s) : g[i] \in Seq(T)
  /\ Substitute(s, f) = g[Len(s)]

\* A substitution joins what stands for the tokens.
LEMMA SubstituteIs ==
  ASSUME NEW T, NEW s \in Seq(T), NEW f, Into(f, T)
  PROVE  \E g : Expands(g, s, f, T)
<1> DEFINE n == Len(s)
           ps == [i \in 1..n |-> Tok(s[i], f)]
<1>1. n \in Nat /\ \A i \in 1..n : s[i] \in T
  OBVIOUS
<1>2. \A i \in 1..n : Tok(s[i], f) \in Seq(T)
  BY <1>1, TokIs
<1>3. ps \in Seq(Seq(T)) /\ Len(ps) = n /\ \A i \in 1..n : ps[i] = Tok(s[i], f)
  BY <1>1, <1>2
<1>4. Substitute(s, f) = FlattenSeq(ps)
  BY DEF Substitute, Tok
<1> HIDE DEF ps, n
<1>5. PICK g : /\ g[0] = <<>> /\ \A i \in 1..n : g[i] = g[i - 1] \o ps[i]
               /\ \A i \in 0..n : g[i] \in Seq(T)
               /\ FlattenSeq(ps) = g[n]
  BY <1>3, FlattenIs
<1>6. \A i \in 1..n : g[i] = g[i - 1] \o Tok(s[i], f)
  BY <1>3, <1>5
<1>7. Expands(g, s, f, T)
  BY <1>4, <1>5, <1>6 DEF n, Expands
<1> QED BY <1>7

\* A substitution gives a text.
LEMMA SubstituteText ==
  ASSUME NEW T, NEW s \in Seq(T), NEW f, Into(f, T)
  PROVE  Substitute(s, f) \in Seq(T)
<1>1. PICK g : Expands(g, s, f, T)
  BY SubstituteIs
<1>2. Len(s) \in 0..Len(s)
  OBVIOUS
<1> QED BY <1>1, <1>2 DEF Expands

\* A substitution goes on with the next token.
LEMMA SubstituteAppend ==
  ASSUME NEW T, NEW s \in Seq(T), NEW x \in T, NEW f, Into(f, T)
  PROVE  Substitute(Append(s, x), f) = Substitute(s, f) \o Tok(x, f)
<1> DEFINE n == Len(s)
           r == Append(s, x)
<1>1. r \in Seq(T) /\ Len(r) = n + 1 /\ n \in Nat /\ r[n + 1] = x /\ \A i \in 1..n : r[i] = s[i]
  OBVIOUS
<1> HIDE DEF r
<1>9. PICK g : Expands(g, s, f, T)
  BY SubstituteIs
<1>2. g[0] = <<>> /\ (\A i \in 1..n : g[i] = g[i - 1] \o Tok(s[i], f)) /\ Substitute(s, f) = g[n]
  BY <1>9 DEF Expands
<1>10. PICK h : Expands(h, r, f, T)
  BY <1>1, SubstituteIs
<1> HIDE DEF n
<1>3. h[0] = <<>> /\ (\A i \in 1..(n + 1) : h[i] = h[i - 1] \o Tok(r[i], f))
      /\ Substitute(r, f) = h[n + 1]
  BY <1>1, <1>10 DEF Expands
<1> DEFINE I == {i \in Nat : i <= n => h[i] = g[i]}
<1>4. 0 \in I
  BY <1>2, <1>3
<1>5. ASSUME NEW i \in Nat, i \in I PROVE i + 1 \in I
  <2> SUFFICES ASSUME i + 1 <= n PROVE h[i + 1] = g[i + 1]
    OBVIOUS
  <2>1. i + 1 \in 1..n /\ i + 1 \in 1..(n + 1) /\ (i + 1) - 1 = i
    BY <1>1
  <2>2. h[i] = g[i]
    BY <1>1, <1>5
  <2>3. g[i + 1] = g[i] \o Tok(s[i + 1], f)
    BY <1>2, <2>1
  <2>4. h[i + 1] = h[i] \o Tok(r[i + 1], f) /\ r[i + 1] = s[i + 1]
    BY <1>1, <1>3, <2>1
  <2> QED BY <2>2, <2>3, <2>4
<1> HIDE DEF I
<1>6. n \in I
  BY <1>1, <1>4, <1>5, Induction
<1>7. h[n] = g[n]
  BY <1>1, <1>6 DEF I
<1>8. h[n + 1] = h[n] \o Tok(x, f)
  <2>1. n + 1 \in 1..(n + 1) /\ (n + 1) - 1 = n
    BY <1>1
  <2>2. h[n + 1] = h[(n + 1) - 1] \o Tok(r[n + 1], f)
    BY <1>3, <2>1
  <2> QED BY <1>1, <2>1, <2>2
<1> QED BY <1>2, <1>3, <1>7, <1>8 DEF r

\* The tokens of texts that are joined.
LEMMA ContainsAppend ==
  ASSUME NEW T, NEW s \in Seq(T), NEW x \in T, NEW y
  PROVE  Contains(Append(s, x), y) <=> Contains(s, y) \/ x = y
<1> DEFINE r == Append(s, x)
           n == Len(s)
<1>1. n \in Nat /\ Len(r) = n + 1 /\ r[n + 1] = x /\ \A i \in 1..n : r[i] = s[i]
  OBVIOUS
<1>2. \A i \in 1..(n + 1) : i \in 1..n \/ i = n + 1
  BY <1>1
<1>3. n + 1 \in 1..(n + 1) /\ \A i \in 1..n : i \in 1..(n + 1)
  BY <1>1
<1> HIDE DEF r, n
<1>4. Contains(r, y) <=> (\E i \in 1..n : s[i] = y) \/ x = y
  BY <1>1, <1>2, <1>3 DEF Contains
<1> QED BY <1>4 DEF r, n, Contains

\* A token of a joined text is one of a part.
LEMMA ContainsJoined ==
  ASSUME NEW T, NEW a \in Seq(T), NEW b \in Seq(T), NEW y
  PROVE  Contains(a \o b, y) <=> Contains(a, y) \/ Contains(b, y)
<1> DEFINE r == a \o b
           n == Len(a)
           m == Len(b)
<1>1. n \in Nat /\ m \in Nat /\ Len(r) = n + m
      /\ (\A i \in 1..n : r[i] = a[i]) /\ (\A i \in 1..m : r[n + i] = b[i])
  OBVIOUS
<1>2. \A i \in 1..(n + m) : i \in 1..n \/ \E j \in 1..m : i = n + j
  <2>1. ASSUME NEW i \in 1..(n + m), i \notin 1..n PROVE \E j \in 1..m : i = n + j
    <3>1. i - n \in 1..m /\ i = n + (i - n)
      BY <1>1, <2>1
    <3> QED BY <3>1
  <2> QED BY <2>1
<1>3. (\A i \in 1..n : i \in 1..(n + m)) /\ (\A i \in 1..m : n + i \in 1..(n + m))
  BY <1>1
<1> HIDE DEF r, n, m
<1>4. Contains(r, y) <=> (\E i \in 1..n : a[i] = y) \/ (\E i \in 1..m : b[i] = y)
  <2>1. Contains(r, y) <=> \E i \in 1..(n + m) : r[i] = y
    BY <1>1 DEF Contains
  <2>2. ASSUME NEW i \in 1..(n + m), r[i] = y
        PROVE  (\E j \in 1..n : a[j] = y) \/ (\E j \in 1..m : b[j] = y)
    <3>1. CASE i \in 1..n
      BY <1>1, <2>2, <3>1
    <3>2. CASE i \notin 1..n
      <4>1. PICK j \in 1..m : i = n + j
        BY <1>2, <3>2
      <4>2. b[j] = y
        BY <1>1, <2>2, <4>1
      <4> QED BY <4>2
    <3> QED BY <3>1, <3>2
  <2>3. ASSUME NEW i \in 1..n, a[i] = y PROVE \E j \in 1..(n + m) : r[j] = y
    BY <1>1, <1>3, <2>3
  <2>4. ASSUME NEW i \in 1..m, b[i] = y PROVE \E j \in 1..(n + m) : r[j] = y
    <3>1. n + i \in 1..(n + m) /\ r[n + i] = y
      BY <1>1, <1>3, <2>4
    <3> QED BY <3>1
  <2> QED BY <2>1, <2>2, <2>3, <2>4
<1> QED BY <1>4 DEF r, n, m, Contains

\* The empty text has no tokens.
LEMMA ContainsNothing ==
  ASSUME NEW y
  PROVE  ~Contains(<<>>, y)
BY DEF Contains

\* A text of one token has that token.
LEMMA ContainsOne ==
  ASSUME NEW x, NEW y
  PROVE  Contains(<<x>>, y) <=> x = y
<1>1. Len(<<x>>) = 1 /\ <<x>>[1] = x /\ 1..1 = {1}
  OBVIOUS
<1> QED BY <1>1 DEF Contains

\* The tokens of a text after a substitution.
LEMMA SubstituteContains ==
  ASSUME NEW T, NEW f, Into(f, T), NEW s \in Seq(T), NEW y
  PROVE  Contains(Substitute(s, f), y) <=> \E x : Contains(s, x) /\ Contains(Tok(x, f), y)
<1> DEFINE P(z) == Contains(Substitute(z, f), y) <=> \E x : Contains(z, x) /\ Contains(Tok(x, f), y)
           I == {z \in Seq(T) : P(z)}
<1>1. <<>> \in I
  BY SubstituteNothing, ContainsNothing
<1>2. ASSUME NEW z \in Seq(T), NEW x \in T, z \in I PROVE Append(z, x) \in I
  <2>1. Append(z, x) \in Seq(T)
    OBVIOUS
  <2>2. Substitute(Append(z, x), f) = Substitute(z, f) \o Tok(x, f)
    BY SubstituteAppend
  <2>3. Substitute(z, f) \in Seq(T) /\ Tok(x, f) \in Seq(T)
    BY SubstituteText, TokIs
  <2>4. Contains(Substitute(Append(z, x), f), y)
          <=> Contains(Substitute(z, f), y) \/ Contains(Tok(x, f), y)
    BY <2>2, <2>3, ContainsJoined
  <2>5. \A w : Contains(Append(z, x), w) <=> Contains(z, w) \/ x = w
    BY ContainsAppend
  <2>6. P(z)
    BY <1>2
  <2>7. P(Append(z, x))
    BY <2>4, <2>5, <2>6
  <2> QED BY <2>1, <2>7
<1> HIDE DEF I
<1>3. s \in I
  BY <1>1, <1>2, AppendInduction
<1> QED BY <1>3 DEF I

\* A text without tokens of f stays as it is.
LEMMA SubstituteSame ==
  ASSUME NEW T, NEW f, Into(f, T), NEW s \in Seq(T), \A x \in DOMAIN f : ~Contains(s, x)
  PROVE  Substitute(s, f) = s
<1> DEFINE P(z) == (\A x \in DOMAIN f : ~Contains(z, x)) => Substitute(z, f) = z
           I == {z \in Seq(T) : P(z)}
<1>1. <<>> \in I
  BY SubstituteNothing
<1>2. ASSUME NEW z \in Seq(T), NEW x \in T, z \in I PROVE Append(z, x) \in I
  <2>1. Append(z, x) \in Seq(T)
    OBVIOUS
  <2>2. ASSUME \A w \in DOMAIN f : ~Contains(Append(z, x), w)
        PROVE  Substitute(Append(z, x), f) = Append(z, x)
    <3>1. (\A w \in DOMAIN f : ~Contains(z, w)) /\ x \notin DOMAIN f
      BY <2>2, ContainsAppend
    <3>2. Substitute(z, f) = z /\ Tok(x, f) = <<x>>
      BY <1>2, <3>1 DEF Tok
    <3>3. Substitute(Append(z, x), f) = Substitute(z, f) \o Tok(x, f)
      BY SubstituteAppend
    <3>4. z \o <<x>> = Append(z, x)
      OBVIOUS
    <3> QED BY <3>2, <3>3, <3>4
  <2> QED BY <2>1, <2>2
<1> HIDE DEF I
<1>3. s \in I
  BY <1>1, <1>2, AppendInduction
<1> QED BY <1>3 DEF I

\* A substitution goes on after a text as it does alone.
LEMMA SubstituteJoined ==
  ASSUME NEW T, NEW f, Into(f, T), NEW a \in Seq(T), NEW b \in Seq(T)
  PROVE  Substitute(a \o b, f) = Substitute(a, f) \o Substitute(b, f)
<1> DEFINE P(z) == Substitute(a \o z, f) = Substitute(a, f) \o Substitute(z, f)
           I == {z \in Seq(T) : P(z)}
<1>0. Substitute(a, f) \in Seq(T)
  BY SubstituteText
<1>1. <<>> \in I
  <2>1. \A u \in Seq(T) : u \o <<>> = u
    OBVIOUS
  <2>2. a \o <<>> = a
    BY <2>1
  <2>3. Substitute(a, f) \o <<>> = Substitute(a, f)
    BY <1>0, <2>1
  <2>4. P(<<>>)
    BY <2>2, <2>3, SubstituteNothing
  <2>5. <<>> \in Seq(T)
    OBVIOUS
  <2> QED BY <2>4, <2>5
<1>2. ASSUME NEW z \in Seq(T), NEW x \in T, z \in I PROVE Append(z, x) \in I
  <2>1. Append(z, x) \in Seq(T) /\ a \o z \in Seq(T) /\ a \o Append(z, x) = Append(a \o z, x)
    OBVIOUS
  <2>2. /\ Substitute(Append(a \o z, x), f) = Substitute(a \o z, f) \o Tok(x, f)
        /\ Substitute(Append(z, x), f) = Substitute(z, f) \o Tok(x, f)
    <3> DEFINE q == a \o z
    <3> HIDE DEF q
    <3>1. q \in Seq(T)
      BY <2>1 DEF q
    <3>2. Substitute(Append(q, x), f) = Substitute(q, f) \o Tok(x, f)
      BY <3>1, SubstituteAppend
    <3>3. Substitute(Append(z, x), f) = Substitute(z, f) \o Tok(x, f)
      BY SubstituteAppend
    <3> QED BY <3>2, <3>3 DEF q
  <2>3. Substitute(z, f) \in Seq(T) /\ Tok(x, f) \in Seq(T)
    BY SubstituteText, TokIs
  <2>4. Substitute(a \o z, f) = Substitute(a, f) \o Substitute(z, f)
    BY <1>2
  <2> DEFINE u == Substitute(a, f)
             v == Substitute(z, f)
             w == Tok(x, f)
  <2>5. (u \o v) \o w = u \o (v \o w)
    <3> HIDE DEF u, v, w
    <3>1. u \in Seq(T) /\ v \in Seq(T) /\ w \in Seq(T)
      BY <1>0, <2>3 DEF u, v, w
    <3> QED BY <3>1
  <2>6. P(Append(z, x))
    BY <2>1, <2>2, <2>4, <2>5
  <2> QED BY <2>1, <2>6
<1> HIDE DEF I
<1>3. b \in I
  BY <1>1, <1>2, AppendInduction
<1> QED BY <1>3 DEF I

\* A text of one token.
LEMMA SubstituteOne ==
  ASSUME NEW T, NEW f, Into(f, T), NEW x \in T
  PROVE  Substitute(<<x>>, f) = Tok(x, f)
<1>1. <<>> \in Seq(T) /\ Append(<<>>, x) = <<x>>
  OBVIOUS
<1>2. Substitute(Append(<<>>, x), f) = Substitute(<<>>, f) \o Tok(x, f)
  BY <1>1, SubstituteAppend
<1>3. Tok(x, f) \in Seq(T)
  BY TokIs
<1>4. <<>> \o Tok(x, f) = Tok(x, f)
  BY <1>3
<1> QED BY <1>1, <1>2, <1>4, SubstituteNothing

-----------------------------------------------------------------------------
(***************************************************************************)
(* What a text stands for.                                                 *)
(***************************************************************************)
Chain(g, s, f, n, T) ==
  /\ g[0] = s /\ \A i \in 1..n : g[i] = Substitute(g[i - 1], f)
  /\ \A i \in 0..n : g[i] \in Seq(T)

\* The recursion of Meaning is well defined.
LEMMA MeaningIs ==
  ASSUME NEW T, NEW macros, Into(macros, T), NEW s \in Seq(T)
  PROVE  \E g : Chain(g, s, macros, Rounds, T) /\ Meaning(s, macros) = g[Rounds]
<1> DEFINE Is(g) == g = [n \in 0..Rounds |-> IF n = 0 THEN s ELSE Substitute(g[n - 1], macros)]
           after == CHOOSE g : Is(g)
           S == Seq(T)
           step == [i \in 1..Rounds |-> [a \in S |-> Substitute(a, macros)]]
<1>1. Rounds \in Nat
  BY RoundsAssumption
<1>2. step \in [1..Rounds -> [S -> S]]
  BY SubstituteText
<1>3. \A i \in 1..Rounds : \A a \in S : step[i][a] = Substitute(a, macros)
  OBVIOUS
<1>4. s \in S
  OBVIOUS
<1> HIDE DEF step, S
<1>5. PICK h : Runs(h, S, s, Rounds, step)
  BY <1>1, <1>2, <1>4, Recursion
<1>6. h \in [0..Rounds -> S] /\ h[0] = s /\ \A i \in 1..Rounds : h[i] = step[i][h[i - 1]]
  BY <1>5 DEF Runs
<1>7. \A i \in 1..Rounds : h[i] = Substitute(h[i - 1], macros)
  <2>1. \A i \in 1..Rounds : i - 1 \in 0..Rounds
    BY <1>1
  <2> QED BY <1>3, <1>6, <2>1
<1>8. Is(h)
  <2> DEFINE w == [n \in 0..Rounds |-> IF n = 0 THEN s ELSE Substitute(h[n - 1], macros)]
  <2>1. ASSUME NEW n \in 0..Rounds PROVE h[n] = w[n]
    <3>1. n # 0 => n \in 1..Rounds
      BY <1>1
    <3> QED BY <1>6, <1>7, <3>1
  <2>2. h = [n \in 0..Rounds |-> h[n]]
    BY <1>6
  <2>3. h = w
    BY <2>1, <2>2
  <2> QED BY <2>3
<1>9. Is(after)
  <2> HIDE DEF Is
  <2> QED BY <1>8
<1>10. Meaning(s, macros) = after[Rounds]
  BY DEF Meaning
<1> HIDE DEF after
<1>11. ASSUME NEW n \in 0..Rounds
       PROVE  after[n] = IF n = 0 THEN s ELSE Substitute(after[n - 1], macros)
  <2> DEFINE w == [i \in 0..Rounds |-> IF i = 0 THEN s ELSE Substitute(after[i - 1], macros)]
  <2>1. after = w
    BY <1>9
  <2>2. w[n] = IF n = 0 THEN s ELSE Substitute(after[n - 1], macros)
    OBVIOUS
  <2> HIDE DEF w
  <2> QED BY <2>1, <2>2
<1> HIDE DEF Is
<1>12. after[0] = s /\ \A i \in 1..Rounds : after[i] = Substitute(after[i - 1], macros)
  <2>1. 0 \in 0..Rounds /\ \A i \in 1..Rounds : i \in 0..Rounds /\ i # 0
    BY <1>1
  <2> QED BY <1>11, <2>1
<1> DEFINE I == {i \in Nat : i <= Rounds => after[i] \in Seq(T)}
<1>13. 0 \in I
  BY <1>12
<1>14. ASSUME NEW i \in Nat, i \in I PROVE i + 1 \in I
  <2> SUFFICES ASSUME i + 1 <= Rounds PROVE after[i + 1] \in Seq(T)
    OBVIOUS
  <2>1. i + 1 \in 1..Rounds /\ (i + 1) - 1 = i /\ after[i] \in Seq(T)
    BY <1>1, <1>14
  <2>2. after[i + 1] = Substitute(after[i], macros)
    BY <1>12, <2>1
  <2> QED BY <2>1, <2>2, SubstituteText
<1> HIDE DEF I
<1>15. \A i \in Nat : i \in I
  BY <1>13, <1>14, Induction
<1>16. \A i \in 0..Rounds : after[i] \in Seq(T)
  BY <1>15 DEF I
<1>17. Chain(after, s, macros, Rounds, T)
  BY <1>12, <1>16 DEF Chain
<1> QED BY <1>10, <1>17

\* A meaning is a text.
LEMMA MeaningText ==
  ASSUME NEW T, NEW macros, Into(macros, T), NEW s \in Seq(T)
  PROVE  Meaning(s, macros) \in Seq(T)
<1>1. PICK g : Chain(g, s, macros, Rounds, T) /\ Meaning(s, macros) = g[Rounds]
  BY MeaningIs
<1>2. Rounds \in 0..Rounds
  BY RoundsAssumption
<1> QED BY <1>1, <1>2 DEF Chain

\* A joined text means the joined meanings.
LEMMA MeaningJoined ==
  ASSUME NEW T, NEW macros, Into(macros, T), NEW a \in Seq(T), NEW b \in Seq(T)
  PROVE  Meaning(a \o b, macros) = Meaning(a, macros) \o Meaning(b, macros)
<1> DEFINE c == a \o b
<1>0. c \in Seq(T) /\ Rounds \in Nat
  BY RoundsAssumption
<1>1. PICK g : Chain(g, a, macros, Rounds, T) /\ Meaning(a, macros) = g[Rounds]
  BY MeaningIs
<1>2. PICK h : Chain(h, b, macros, Rounds, T) /\ Meaning(b, macros) = h[Rounds]
  BY MeaningIs
<1> HIDE DEF c
<1>3. PICK k : Chain(k, c, macros, Rounds, T) /\ Meaning(c, macros) = k[Rounds]
  BY <1>0, MeaningIs
<1> DEFINE Is(i) == k[i] = g[i] \o h[i]
           I == {i \in Nat : i <= Rounds => Is(i)}
<1>4. Is(0)
  BY <1>1, <1>2, <1>3 DEF Chain, c
<1>5. ASSUME NEW i \in Nat, i + 1 <= Rounds, Is(i) PROVE Is(i + 1)
  <2>1. i + 1 \in 1..Rounds /\ (i + 1) - 1 = i /\ i \in 0..Rounds
    BY <1>0, <1>5
  <2>2. /\ g[i + 1] = Substitute(g[i], macros) /\ g[i] \in Seq(T)
        /\ h[i + 1] = Substitute(h[i], macros) /\ h[i] \in Seq(T)
        /\ k[i + 1] = Substitute(k[i], macros)
    BY <1>1, <1>2, <1>3, <2>1 DEF Chain
  <2>3. Substitute(g[i] \o h[i], macros) = Substitute(g[i], macros) \o Substitute(h[i], macros)
    BY <2>2, SubstituteJoined
  <2> QED BY <1>5, <2>2, <2>3
<1>6. Is(Rounds)
  <2> HIDE DEF Is
  <2>1. 0 \in I
    BY <1>4
  <2>2. ASSUME NEW i \in Nat, i \in I PROVE i + 1 \in I
    BY <1>0, <1>5, <2>2
  <2> HIDE DEF I
  <2>3. Rounds \in I
    BY <1>0, <2>1, <2>2, Induction
  <2> QED BY <1>0, <2>3 DEF I
<1> QED BY <1>1, <1>2, <1>3, <1>6 DEF c

\* The macros of s have ranks up to k.
Low(s, rank, k) == \A x \in DOMAIN rank : Contains(s, x) => rank[x] <= k

Ranked(macros, rank, T) ==
  Into(macros, T) /\ rank \in [DOMAIN macros -> 1..(Rounds - 1)] /\ Ranks(rank, macros)

\* A substitution of all macros lowers the ranks.
LEMMA LowerTexts ==
  ASSUME NEW T, NEW macros, NEW rank, Ranked(macros, rank, T),
         NEW s \in Seq(T), NEW k \in Int, Low(s, rank, k)
  PROVE  Low(Substitute(s, macros), rank, k - 1)
<1> SUFFICES ASSUME NEW x \in DOMAIN macros, Contains(Substitute(s, macros), x)
             PROVE  rank[x] <= k - 1
  BY DEF Low, Ranked
<1>1. PICK y : Contains(s, y) /\ Contains(Tok(y, macros), x)
  BY SubstituteContains DEF Ranked
<1>2. y \in DOMAIN macros
  BY <1>1, ContainsOne DEF Tok
<1>3. Contains(macros[y], x)
  BY <1>1, <1>2 DEF Tok
<1>4. rank[x] < rank[y] /\ rank[y] <= k /\ rank[x] \in Int /\ rank[y] \in Int
  BY <1>1, <1>2, <1>3 DEF Ranked, Ranks, Low
<1> QED BY <1>4

\* There are no ranks below one.
LEMMA LowestText ==
  ASSUME NEW T, NEW macros, NEW rank, Ranked(macros, rank, T), NEW s, NEW k \in Int, k <= 0,
         Low(s, rank, k)
  PROVE  \A x \in DOMAIN macros : ~Contains(s, x)
<1> SUFFICES ASSUME NEW x \in DOMAIN macros, Contains(s, x) PROVE FALSE
  OBVIOUS
<1>1. rank[x] \in Int /\ rank[x] >= 1 /\ rank[x] <= k
  BY RoundsAssumption DEF Ranked, Low
<1> QED BY <1>1

\* Ranks are below the number of rounds.
LEMMA HighestText ==
  ASSUME NEW T, NEW macros, NEW rank, Ranked(macros, rank, T), NEW s
  PROVE  Low(s, rank, Rounds - 1)
BY RoundsAssumption DEF Ranked, Low

\* After as many rounds no macro is left.
LEMMA ChainLow ==
  ASSUME NEW T, NEW macros, NEW rank, Ranked(macros, rank, T), NEW s \in Seq(T),
         NEW g, Chain(g, s, macros, Rounds, T)
  PROVE  \A i \in 0..Rounds : Low(g[i], rank, (Rounds - 1) - i)
<1> DEFINE I == {i \in Nat : i <= Rounds => Low(g[i], rank, (Rounds - 1) - i)}
<1>0. Rounds \in Nat
  BY RoundsAssumption
<1>1. 0 \in I
  <2>1. (Rounds - 1) - 0 = Rounds - 1
    BY <1>0
  <2> QED BY <2>1, HighestText
<1>2. ASSUME NEW i \in Nat, i \in I PROVE i + 1 \in I
  <2> SUFFICES ASSUME i + 1 <= Rounds PROVE Low(g[i + 1], rank, (Rounds - 1) - (i + 1))
    OBVIOUS
  <2>1. i + 1 \in 1..Rounds /\ (i + 1) - 1 = i /\ i \in 0..Rounds /\ i <= Rounds
    BY <1>0
  <2>2. Low(g[i], rank, (Rounds - 1) - i)
    BY <1>2, <2>1
  <2>3. g[i + 1] = Substitute(g[i], macros) /\ g[i] \in Seq(T)
    BY <2>1 DEF Chain
  <2> DEFINE k == (Rounds - 1) - i
  <2>4. k \in Int /\ k - 1 = (Rounds - 1) - (i + 1)
    BY <1>0
  <2> HIDE DEF k
  <2>5. Low(g[i + 1], rank, k - 1)
    BY <2>2, <2>3, <2>4, LowerTexts DEF k
  <2> QED BY <2>4, <2>5
<1> HIDE DEF I
<1>3. \A i \in Nat : i \in I
  BY <1>1, <1>2, Induction
<1> QED BY <1>3 DEF I

\* No macro is left in a meaning.
LEMMA MeaningBare ==
  ASSUME NEW T, NEW macros, NEW rank, Ranked(macros, rank, T), NEW s \in Seq(T)
  PROVE  \A x \in DOMAIN macros : ~Contains(Meaning(s, macros), x)
<1>1. PICK g : Chain(g, s, macros, Rounds, T) /\ Meaning(s, macros) = g[Rounds]
  BY MeaningIs DEF Ranked
<1>2. Rounds \in 0..Rounds /\ (Rounds - 1) - Rounds = -1 /\ -1 \in Int /\ -1 <= 0
  BY RoundsAssumption
<1>3. Low(g[Rounds], rank, (Rounds - 1) - Rounds)
  BY <1>1, <1>2, ChainLow
<1>4. Low(g[Rounds], rank, -1)
  BY <1>2, <1>3
<1> QED BY <1>1, <1>2, <1>4, LowestText

\* One substitution more or less does not matter.
LEMMA MeaningNext ==
  ASSUME NEW T, NEW macros, NEW rank, Ranked(macros, rank, T), NEW s \in Seq(T)
  PROVE  Meaning(Substitute(s, macros), macros) = Meaning(s, macros)
<1> DEFINE z == Substitute(s, macros)
<1>0. Rounds \in Nat /\ Rounds # 0 /\ Into(macros, T)
  BY RoundsAssumption DEF Ranked
<1>1. z \in Seq(T)
  BY <1>0, SubstituteText
<1>2. PICK g : Chain(g, s, macros, Rounds, T) /\ Meaning(s, macros) = g[Rounds]
  BY <1>0, MeaningIs
<1>3. g[1] = z
  <2>1. 1 \in 1..Rounds /\ 1 - 1 = 0
    BY <1>0
  <2> QED BY <1>2, <2>1 DEF Chain
<1> HIDE DEF z
<1>4. PICK h : Chain(h, z, macros, Rounds, T) /\ Meaning(z, macros) = h[Rounds]
  BY <1>0, <1>1, MeaningIs
<1> DEFINE I == {i \in Nat : i + 1 <= Rounds => h[i] = g[i + 1]}
<1>5. 0 \in I
  BY <1>3, <1>4 DEF Chain
<1>6. ASSUME NEW i \in Nat, i \in I PROVE i + 1 \in I
  <2> SUFFICES ASSUME (i + 1) + 1 <= Rounds PROVE h[i + 1] = g[(i + 1) + 1]
    OBVIOUS
  <2>1. i + 1 \in 1..Rounds /\ (i + 1) - 1 = i /\ (i + 1) + 1 \in 1..Rounds /\ ((i + 1) + 1) - 1 = i + 1
    BY <1>0
  <2>2. h[i] = g[i + 1]
    BY <1>0, <1>6
  <2>3. h[i + 1] = Substitute(h[i], macros) /\ g[(i + 1) + 1] = Substitute(g[i + 1], macros)
    BY <1>2, <1>4, <2>1 DEF Chain
  <2> QED BY <2>2, <2>3
<1> HIDE DEF I
<1>7. Rounds - 1 \in I /\ Rounds - 1 \in Nat /\ (Rounds - 1) + 1 = Rounds
  <2>1. Rounds - 1 \in Nat /\ (Rounds - 1) + 1 = Rounds
    BY <1>0
  <2> QED BY <1>5, <1>6, <2>1, Induction
<1>8. h[Rounds - 1] = g[Rounds]
  BY <1>0, <1>7 DEF I
<1>9. h[Rounds] = Substitute(h[Rounds - 1], macros)
  <2>1. Rounds \in 1..Rounds
    BY <1>0
  <2> QED BY <1>4, <2>1 DEF Chain
<1> DEFINE m == Meaning(s, macros)
<1>10. m \in Seq(T) /\ \A x \in DOMAIN macros : ~Contains(m, x)
  BY <1>0, MeaningText, MeaningBare
<1> HIDE DEF m
<1>11. Substitute(m, macros) = m
  BY <1>0, <1>10, SubstituteSame
<1> QED BY <1>2, <1>4, <1>8, <1>9, <1>11 DEF m, z

\* A text without macros means itself.
LEMMA MeaningSame ==
  ASSUME NEW T, NEW macros, Into(macros, T), NEW s \in Seq(T),
         \A x \in DOMAIN macros : ~Contains(s, x)
  PROVE  Meaning(s, macros) = s
<1>0. Rounds \in Nat
  BY RoundsAssumption
<1>1. PICK g : Chain(g, s, macros, Rounds, T) /\ Meaning(s, macros) = g[Rounds]
  BY MeaningIs
<1>2. Substitute(s, macros) = s
  BY SubstituteSame
<1> DEFINE I == {i \in Nat : i <= Rounds => g[i] = s}
<1>3. 0 \in I
  BY <1>1 DEF Chain
<1>4. ASSUME NEW i \in Nat, i \in I PROVE i + 1 \in I
  <2> SUFFICES ASSUME i + 1 <= Rounds PROVE g[i + 1] = s
    OBVIOUS
  <2>1. i + 1 \in 1..Rounds /\ (i + 1) - 1 = i /\ g[i] = s
    BY <1>0, <1>4
  <2> QED BY <1>1, <1>2, <2>1 DEF Chain
<1> HIDE DEF I
<1>5. Rounds \in I
  BY <1>0, <1>3, <1>4, Induction
<1> QED BY <1>0, <1>1, <1>5 DEF I

\* A token that is no macro stays.
LEMMA MeaningKeeps ==
  ASSUME NEW T, NEW macros, Into(macros, T), NEW s \in Seq(T),
         NEW x, x \notin DOMAIN macros, Contains(s, x)
  PROVE  Contains(Meaning(s, macros), x)
<1>0. Rounds \in Nat
  BY RoundsAssumption
<1>1. PICK g : Chain(g, s, macros, Rounds, T) /\ Meaning(s, macros) = g[Rounds]
  BY MeaningIs
<1> DEFINE I == {i \in Nat : i <= Rounds => Contains(g[i], x)}
<1>2. 0 \in I
  BY <1>1 DEF Chain
<1>3. ASSUME NEW i \in Nat, i \in I PROVE i + 1 \in I
  <2> SUFFICES ASSUME i + 1 <= Rounds PROVE Contains(g[i + 1], x)
    OBVIOUS
  <2>1. i + 1 \in 1..Rounds /\ (i + 1) - 1 = i /\ i \in 0..Rounds /\ Contains(g[i], x)
    BY <1>0, <1>3
  <2>2. g[i + 1] = Substitute(g[i], macros) /\ g[i] \in Seq(T)
    BY <1>1, <2>1 DEF Chain
  <2>3. Contains(Tok(x, macros), x)
    BY ContainsOne DEF Tok
  <2> QED BY <2>1, <2>2, <2>3, SubstituteContains
<1> HIDE DEF I
<1>4. Rounds \in I
  BY <1>0, <1>2, <1>3, Induction
<1> QED BY <1>0, <1>1, <1>4 DEF I

-----------------------------------------------------------------------------
(***************************************************************************)
(* What a text stands for, with the values of the variables.               *)
(***************************************************************************)
Full(s, macros, env) == Substitute(Meaning(s, macros), env)

Terms(macros, rank, env, T) ==
  /\ Ranked(macros, rank, T) /\ Into(env, T) /\ Literal(env, macros)
  /\ DOMAIN env \subseteq EnvName /\ DOMAIN macros \subseteq T \ EnvName
  /\ EnvName \subseteq T /\ IsFiniteSet(DOMAIN macros)

\* What a text stands for is a text.
LEMMA FullText ==
  ASSUME NEW T, NEW macros, NEW rank, NEW env, Terms(macros, rank, env, T), NEW s \in Seq(T)
  PROVE  Full(s, macros, env) \in Seq(T)
<1>1. Meaning(s, macros) \in Seq(T)
  BY MeaningText DEF Terms, Ranked
<1> QED BY <1>1, SubstituteText DEF Full, Terms

\* A joined text stands for the joined texts.
LEMMA FullJoined ==
  ASSUME NEW T, NEW macros, NEW rank, NEW env, Terms(macros, rank, env, T),
         NEW a \in Seq(T), NEW b \in Seq(T)
  PROVE  Full(a \o b, macros, env) = Full(a, macros, env) \o Full(b, macros, env)
<1>1. Into(macros, T) /\ Into(env, T)
  BY DEF Terms, Ranked
<1>2. Meaning(a \o b, macros) = Meaning(a, macros) \o Meaning(b, macros)
  BY <1>1, MeaningJoined
<1>3. Meaning(a, macros) \in Seq(T) /\ Meaning(b, macros) \in Seq(T)
  BY <1>1, MeaningText
<1> DEFINE x == Meaning(a, macros)
           y == Meaning(b, macros)
<1>4. Substitute(x \o y, env) = Substitute(x, env) \o Substitute(y, env)
  <2> HIDE DEF x, y
  <2>1. x \in Seq(T) /\ y \in Seq(T)
    BY <1>3 DEF x, y
  <2> QED BY <1>1, <2>1, SubstituteJoined
<1> QED BY <1>2, <1>4 DEF Full

\* A text without macros and variables stands for itself.
LEMMA FullSame ==
  ASSUME NEW T, NEW macros, NEW rank, NEW env, Terms(macros, rank, env, T), NEW s \in Seq(T),
         \A x \in DOMAIN macros : ~Contains(s, x), \A x \in DOMAIN env : ~Contains(s, x)
  PROVE  Full(s, macros, env) = s
<1>1. Into(macros, T) /\ Into(env, T)
  BY DEF Terms, Ranked
<1>2. Meaning(s, macros) = s
  BY <1>1, MeaningSame
<1> QED BY <1>1, <1>2, SubstituteSame DEF Full

\* Macros and variables stand for what their texts stand for.
LEMMA FullMacro ==
  ASSUME NEW T, NEW macros, NEW rank, NEW env, Terms(macros, rank, env, T),
         NEW m \in DOMAIN macros
  PROVE  macros[m] \in Seq(T) /\ Full(macros[m], macros, env) = Full(<<m>>, macros, env)
<1>1. Into(macros, T) /\ Ranked(macros, rank, T) /\ m \in T
  BY DEF Terms, Ranked
<1>2. <<m>> \in Seq(T)
  BY <1>1
<1>3. Substitute(<<m>>, macros) = macros[m]
  BY <1>1, SubstituteOne DEF Tok
<1>4. Meaning(Substitute(<<m>>, macros), macros) = Meaning(<<m>>, macros)
  BY <1>1, <1>2, MeaningNext
<1> QED BY <1>1, <1>3, <1>4 DEF Full, Into

\* A variable stands for its value.
LEMMA FullEnv ==
  ASSUME NEW T, NEW macros, NEW rank, NEW env, Terms(macros, rank, env, T), NEW e \in DOMAIN env
  PROVE  env[e] \in Seq(T) /\ Full(env[e], macros, env) = Full(<<e>>, macros, env)
<1>1. Into(macros, T) /\ Into(env, T) /\ e \in T /\ e \notin DOMAIN macros
      /\ DOMAIN env \subseteq EnvName
  BY DEF Terms, Ranked
<1>2. env[e] \in Seq(T) /\ <<e>> \in Seq(T)
  BY <1>1 DEF Into
<1>3. (\A x \in DOMAIN macros : ~Contains(env[e], x)) /\ \A x \in DOMAIN env : ~Contains(env[e], x)
  BY <1>1 DEF Terms, Literal
<1>4. Full(env[e], macros, env) = env[e]
  BY <1>2, <1>3, FullSame
<1>5. Meaning(<<e>>, macros) = <<e>>
  <2>1. \A x \in DOMAIN macros : ~Contains(<<e>>, x)
    BY <1>1, ContainsOne
  <2> QED BY <1>1, <1>2, <2>1, MeaningSame
<1>6. Substitute(<<e>>, env) = env[e]
  BY <1>1, SubstituteOne DEF Tok
<1> QED BY <1>2, <1>4, <1>5, <1>6 DEF Full

\* Replacing tokens by texts that stand for the same leaves that as it is.
LEMMA FullKept ==
  ASSUME NEW T, NEW macros, NEW rank, NEW env, Terms(macros, rank, env, T), NEW f, Into(f, T),
         \A x \in DOMAIN f : Full(f[x], macros, env) = Full(<<x>>, macros, env),
         NEW s \in Seq(T)
  PROVE  Full(Substitute(s, f), macros, env) = Full(s, macros, env)
<1> DEFINE F(z) == Full(z, macros, env)
           P(z) == F(Substitute(z, f)) = F(z)
           I == {z \in Seq(T) : P(z)}
<1>1. <<>> \in I
  BY SubstituteNothing
<1>2. ASSUME NEW z \in Seq(T), NEW x \in T, z \in I PROVE Append(z, x) \in I
  <2>1. Append(z, x) \in Seq(T) /\ <<x>> \in Seq(T) /\ Append(z, x) = z \o <<x>>
    OBVIOUS
  <2>2. Substitute(Append(z, x), f) = Substitute(z, f) \o Tok(x, f)
    BY SubstituteAppend
  <2>3. Substitute(z, f) \in Seq(T) /\ Tok(x, f) \in Seq(T)
    BY SubstituteText, TokIs
  <2> DEFINE u == Substitute(z, f)
             v == Tok(x, f)
             w == <<x>>
  <2>4. F(v) = F(w)
    <3>1. CASE x \in DOMAIN f
      BY <3>1 DEF Tok
    <3>2. CASE x \notin DOMAIN f
      BY <3>2 DEF Tok
    <3> QED BY <3>1, <3>2
  <2>5. F(u) = F(z)
    BY <1>2
  <2> HIDE DEF u, v, w
  <2>6. Full(u \o v, macros, env) = Full(u, macros, env) \o Full(v, macros, env)
    BY <2>3, FullJoined DEF u, v
  <2>7. Full(z \o w, macros, env) = Full(z, macros, env) \o Full(w, macros, env)
    <3>1. w \in Seq(T)
      BY <2>1 DEF w
    <3> QED BY <3>1, FullJoined
  <2>8. P(Append(z, x))
    BY <2>1, <2>2, <2>4, <2>5, <2>6, <2>7 DEF u, v, w
  <2> QED BY <2>1, <2>8
<1> HIDE DEF I
<1>3. s \in I
  BY <1>1, <1>2, AppendInduction
<1> QED BY <1>3 DEF I

\* A missing variable is in the text that stands for s if it is in s, and
\* what is there is in the meaning of s.
LEMMA FullMissing ==
  ASSUME NEW T, NEW macros, NEW rank, NEW env, Terms(macros, rank, env, T), NEW s \in Seq(T),
         NEW x \in EnvName, x \notin DOMAIN env
  PROVE  /\ Contains(s, x) => Contains(Full(s, macros, env), x)
         /\ Contains(Full(s, macros, env), x) <=> Contains(Meaning(s, macros), x)
<1>1. Into(macros, T) /\ Into(env, T) /\ x \notin DOMAIN macros
  BY DEF Terms, Ranked
<1> DEFINE m == Meaning(s, macros)
<1>2. m \in Seq(T)
  BY <1>1, MeaningText
<1>3. Contains(s, x) => Contains(m, x)
  BY <1>1, MeaningKeeps
<1> HIDE DEF m
<1>4. Contains(Substitute(m, env), x) <=> \E y : Contains(m, y) /\ Contains(Tok(y, env), x)
  BY <1>1, <1>2, SubstituteContains
<1>5. \A y : Contains(Tok(y, env), x) <=> x = y
  <2>1. ASSUME NEW y, y \in DOMAIN env PROVE ~Contains(Tok(y, env), x)
    BY <2>1 DEF Tok, Terms, Literal
  <2>2. ASSUME NEW y, y \notin DOMAIN env PROVE Contains(Tok(y, env), x) <=> x = y
    BY <2>2, ContainsOne DEF Tok
  <2> QED BY <2>1, <2>2
<1> QED BY <1>3, <1>4, <1>5 DEF Full, m

-----------------------------------------------------------------------------
(***************************************************************************)
(* Applying the macros in some order.                                      *)
(***************************************************************************)
\* An order of a finite set names each of its elements once.
LEMMA OrderIsOnto ==
  ASSUME NEW S, IsFiniteSet(S), NEW names \in SetToSeqs(S)
  PROVE  /\ Len(names) \in Nat /\ \A i \in 1..Len(names) : names[i] \in S
         /\ \A i, j \in 1..Len(names) : i # j => names[i] # names[j]
         /\ \A x \in S : \E i \in 1..Len(names) : names[i] = x
<1> DEFINE k == Cardinality(S)
<1>1. k \in Nat
  BY FS_CardinalityType
<1>2. names \in [1..k -> S] /\ \A i, j \in 1..k : i # j => names[i] # names[j]
  BY DEF SetToSeqs
<1> HIDE DEF k
<1>3. IsFiniteSet(1..k) /\ Cardinality(1..k) = k
  BY <1>1, FS_Interval
<1>4. names \in Injection(1..k, S)
  BY <1>2 DEF Injection, IsInjective
<1>5. names \in Surjection(1..k, S)
  BY <1>3, <1>4, FS_Injection DEF k
<1>6. Len(names) = k
  <2>1. names \in Seq(S)
    BY <1>1, <1>2
  <2> QED BY <1>1, <1>2, <2>1
<1> QED BY <1>1, <1>2, <1>5, <1>6 DEF Surjection

\* A finite set has an order.
LEMMA OrderExists ==
  ASSUME NEW S, IsFiniteSet(S)
  PROVE  SetToSeqs(S) # {}
<1>1. ExistsBijection(1..Cardinality(S), S)
  BY FS_CardinalityType
<1>2. PICK f : f \in Bijection(1..Cardinality(S), S)
  BY <1>1 DEF ExistsBijection
<1>3. f \in SetToSeqs(S)
  BY <1>2 DEF SetToSeqs, Bijection, Injection, IsInjective
<1> QED BY <1>3

One(m, macros) == [x \in {m} |-> macros[x]]

Applied(g, s, macros, names, n, T) ==
  /\ g[0] = s /\ \A i \in 1..n : g[i] = Substitute(g[i - 1], One(names[i], macros))
  /\ \A i \in 0..n : g[i] \in Seq(T)

\* One of the macros has a text, as all have.
LEMMA OneInto ==
  ASSUME NEW T, NEW macros, Into(macros, T), NEW m \in DOMAIN macros
  PROVE  Into(One(m, macros), T)
BY DEF Into, One

\* The recursion of ApplyMacros is well defined.
LEMMA AppliedIs ==
  ASSUME NEW T, NEW macros, Into(macros, T), NEW s \in Seq(T),
         NEW names, Len(names) \in Nat, \A i \in 1..Len(names) : names[i] \in DOMAIN macros
  PROVE  \E g : /\ Applied(g, s, macros, names, Len(names), T)
                /\ ApplyMacros(s, macros, names) = g[Len(names)]
<1> DEFINE k == Len(names)
           Is(g) == g = [n \in 0..k |-> IF n = 0 THEN s
                                        ELSE Substitute(g[n - 1], One(names[n], macros))]
           after == CHOOSE g : Is(g)
           S == Seq(T)
           step == [i \in 1..k |-> [a \in S |-> Substitute(a, One(names[i], macros))]]
<1>1. k \in Nat
  OBVIOUS
<1>2. step \in [1..k -> [S -> S]]
  <2>1. ASSUME NEW i \in 1..k, NEW a \in S PROVE Substitute(a, One(names[i], macros)) \in S
    BY OneInto, SubstituteText
  <2> QED BY <2>1
<1>3. \A i \in 1..k : \A a \in S : step[i][a] = Substitute(a, One(names[i], macros))
  OBVIOUS
<1>4. s \in S
  OBVIOUS
<1>5. ApplyMacros(s, macros, names) = after[k]
  BY DEF ApplyMacros, One
<1>6. \A i \in 1..k : Into(One(names[i], macros), T)
  BY OneInto
<1> HIDE DEF step, S, k
<1>7. PICK h : Runs(h, S, s, k, step)
  BY <1>1, <1>2, <1>4, Recursion
<1>8. h \in [0..k -> S] /\ h[0] = s /\ \A i \in 1..k : h[i] = step[i][h[i - 1]]
  BY <1>7 DEF Runs
<1>9. \A i \in 1..k : h[i] = Substitute(h[i - 1], One(names[i], macros))
  <2>1. \A i \in 1..k : i - 1 \in 0..k
    BY <1>1
  <2> QED BY <1>3, <1>8, <2>1
<1>10. Is(h)
  <2> DEFINE w == [n \in 0..k |-> IF n = 0 THEN s ELSE Substitute(h[n - 1], One(names[n], macros))]
  <2>1. ASSUME NEW n \in 0..k PROVE h[n] = w[n]
    <3>1. n # 0 => n \in 1..k
      BY <1>1
    <3> QED BY <1>8, <1>9, <3>1
  <2>2. h = [n \in 0..k |-> h[n]]
    BY <1>8
  <2>3. h = w
    BY <2>1, <2>2
  <2> QED BY <2>3
<1>11. Is(after)
  <2> HIDE DEF Is
  <2> QED BY <1>10
<1> HIDE DEF after
<1>12. ASSUME NEW n \in 0..k
       PROVE  after[n] = IF n = 0 THEN s ELSE Substitute(after[n - 1], One(names[n], macros))
  <2> DEFINE w == [i \in 0..k |-> IF i = 0 THEN s ELSE Substitute(after[i - 1], One(names[i], macros))]
  <2>1. after = w
    BY <1>11
  <2>2. w[n] = IF n = 0 THEN s ELSE Substitute(after[n - 1], One(names[n], macros))
    OBVIOUS
  <2> HIDE DEF w
  <2> QED BY <2>1, <2>2
<1> HIDE DEF Is
<1>13. after[0] = s /\ \A i \in 1..k : after[i] = Substitute(after[i - 1], One(names[i], macros))
  <2>1. 0 \in 0..k /\ \A i \in 1..k : i \in 0..k /\ i # 0
    BY <1>1
  <2> QED BY <1>12, <2>1
<1> DEFINE I == {i \in Nat : i <= k => after[i] \in Seq(T)}
<1>14. 0 \in I
  BY <1>13
<1>15. ASSUME NEW i \in Nat, i \in I PROVE i + 1 \in I
  <2> SUFFICES ASSUME i + 1 <= k PROVE after[i + 1] \in Seq(T)
    OBVIOUS
  <2>1. i + 1 \in 1..k /\ (i + 1) - 1 = i /\ after[i] \in Seq(T)
    BY <1>1, <1>15
  <2>2. after[i + 1] = Substitute(after[i], One(names[i + 1], macros))
    BY <1>13, <2>1
  <2> QED BY <1>6, <2>1, <2>2, SubstituteText
<1> HIDE DEF I
<1>16. \A i \in Nat : i \in I
  BY <1>14, <1>15, Induction
<1>17. \A i \in 0..k : after[i] \in Seq(T)
  BY <1>16 DEF I
<1>18. Applied(after, s, macros, names, k, T)
  BY <1>13, <1>17 DEF Applied
<1> QED BY <1>5, <1>18 DEF k

\* Macros in any order: the text stands for the same; no macro of the highest
\* rank is left; and what changes nothing has no macros.
LEMMA AppliedKeeps ==
  ASSUME NEW T, NEW macros, NEW rank, NEW env, Terms(macros, rank, env, T), NEW s \in Seq(T),
         NEW names \in SetToSeqs(DOMAIN macros)
  PROVE  LET t == ApplyMacros(s, macros, names) IN
         /\ t \in Seq(T) /\ Full(t, macros, env) = Full(s, macros, env)
         /\ \A k \in Int : Low(s, rank, k) => Low(t, rank, k - 1)
         /\ (\A x \in DOMAIN macros : ~Contains(s, x)) => t = s
<1> DEFINE n == Len(names)
           t == ApplyMacros(s, macros, names)
<1>1. /\ n \in Nat /\ \A i \in 1..n : names[i] \in DOMAIN macros
      /\ \A x \in DOMAIN macros : \E i \in 1..n : names[i] = x
  BY OrderIsOnto DEF Terms
<1>2. Into(macros, T) /\ Ranked(macros, rank, T) /\ rank \in [DOMAIN macros -> 1..(Rounds - 1)]
      /\ Ranks(rank, macros) /\ Rounds \in Nat
  BY RoundsAssumption DEF Terms, Ranked
<1>3. PICK g : Applied(g, s, macros, names, n, T) /\ t = g[n]
  BY <1>1, <1>2, AppliedIs
<1> HIDE DEF n, t
<1>4. /\ g[0] = s /\ \A i \in 1..n : g[i] = Substitute(g[i - 1], One(names[i], macros))
      /\ \A i \in 0..n : g[i] \in Seq(T)
  BY <1>3 DEF Applied
<1>5. \A i \in 1..n : /\ Into(One(names[i], macros), T)
                      /\ DOMAIN One(names[i], macros) = {names[i]}
                      /\ One(names[i], macros)[names[i]] = macros[names[i]]
  BY <1>1, <1>2, OneInto DEF One
<1>6. t \in Seq(T)
  BY <1>1, <1>3, <1>4
<1>7. Full(t, macros, env) = Full(s, macros, env)
  <2> DEFINE I == {i \in Nat : i <= n => Full(g[i], macros, env) = Full(s, macros, env)}
  <2>1. 0 \in I
    BY <1>4
  <2>2. ASSUME NEW i \in Nat, i \in I PROVE i + 1 \in I
    <3> SUFFICES ASSUME i + 1 <= n PROVE Full(g[i + 1], macros, env) = Full(s, macros, env)
      OBVIOUS
    <3> DEFINE f == One(names[i + 1], macros)
    <3>1. i + 1 \in 1..n /\ (i + 1) - 1 = i /\ i \in 0..n
          /\ Full(g[i], macros, env) = Full(s, macros, env)
      BY <1>1, <2>2
    <3>2. g[i + 1] = Substitute(g[i], f) /\ g[i] \in Seq(T) /\ Into(f, T)
      BY <1>4, <1>5, <3>1
    <3>3. \A x \in DOMAIN f : Full(f[x], macros, env) = Full(<<x>>, macros, env)
      <4> DEFINE m == names[i + 1]
      <4>1. DOMAIN f = {m} /\ f[m] = macros[m] /\ m \in DOMAIN macros
        BY <1>1, <1>5, <3>1
      <4> HIDE DEF f, m
      <4>2. Full(macros[m], macros, env) = Full(<<m>>, macros, env)
        BY <4>1, FullMacro
      <4> QED BY <4>1, <4>2
    <3> HIDE DEF f
    <3>4. Full(Substitute(g[i], f), macros, env) = Full(g[i], macros, env)
      BY <3>2, <3>3, FullKept
    <3> QED BY <3>1, <3>2, <3>4
  <2> HIDE DEF I
  <2>3. n \in I
    BY <1>1, <2>1, <2>2, Induction
  <2> QED BY <1>1, <1>3, <2>3 DEF I
<1>8. ASSUME NEW k \in Int, Low(s, rank, k) PROVE Low(t, rank, k - 1)
  <2> DEFINE Gone(i) == \A j \in 1..i : rank[names[j]] = k => ~Contains(g[i], names[j])
             I == {i \in Nat : i <= n => Low(g[i], rank, k) /\ Gone(i)}
  <2>1. 0 \in I
    BY <1>4, <1>8
  <2>2. ASSUME NEW i \in Nat, i \in I PROVE i + 1 \in I
    <3> SUFFICES ASSUME i + 1 <= n PROVE Low(g[i + 1], rank, k) /\ Gone(i + 1)
      OBVIOUS
    <3> DEFINE m == names[i + 1]
               f == One(m, macros)
    <3>1. i + 1 \in 1..n /\ (i + 1) - 1 = i /\ i \in 0..n
      BY <1>1
    <3>2. Low(g[i], rank, k) /\ Gone(i)
      BY <1>1, <2>2
    <3>3. g[i + 1] = Substitute(g[i], f) /\ g[i] \in Seq(T) /\ Into(f, T)
          /\ DOMAIN f = {m} /\ f[m] = macros[m] /\ m \in DOMAIN macros
      BY <1>1, <1>4, <1>5, <3>1
    <3> HIDE DEF m, f
    <3>4. ASSUME NEW x \in DOMAIN macros, Contains(g[i + 1], x)
          PROVE  rank[x] <= k /\ (rank[x] = k => Contains(g[i], x) /\ x # m)
      <4>1. PICK y : Contains(g[i], y) /\ Contains(Tok(y, f), x)
        BY <3>3, <3>4, SubstituteContains
      <4>2. CASE y # m
        <5>1. y = x
          BY <3>3, <4>1, <4>2, ContainsOne DEF Tok
        <5> QED BY <1>2, <3>2, <4>1, <4>2, <5>1 DEF Low
      <4>3. CASE y = m
        <5>1. Contains(macros[m], x)
          BY <3>3, <4>1, <4>3 DEF Tok
        <5>2. rank[x] < rank[m]
          BY <1>2, <3>3, <5>1 DEF Ranks
        <5>3. rank[m] <= k
          BY <1>2, <3>2, <3>3, <4>1, <4>3 DEF Low
        <5>4. rank[x] \in Int /\ rank[m] \in Int
          BY <1>2, <3>3
        <5> QED BY <5>2, <5>3, <5>4
      <4> QED BY <4>2, <4>3
    <3>5. Low(g[i + 1], rank, k)
      BY <1>2, <3>4 DEF Low
    <3>6. ASSUME NEW j \in 1..(i + 1), rank[names[j]] = k, Contains(g[i + 1], names[j])
          PROVE  FALSE
      <4>1. j \in 1..n
        BY <3>1, <1>1
      <4>2. Contains(g[i], names[j]) /\ names[j] # m
        BY <1>1, <3>4, <3>6, <4>1
      <4>3. j \in 1..i
        BY <4>2 DEF m
      <4> QED BY <3>2, <3>6, <4>2, <4>3
    <3> QED BY <3>5, <3>6
  <2> HIDE DEF I
  <2>3. n \in I
    BY <1>1, <2>1, <2>2, Induction
  <2>4. Low(g[n], rank, k) /\ Gone(n)
    BY <1>1, <2>3 DEF I
  <2>5. ASSUME NEW x \in DOMAIN rank, Contains(t, x) PROVE rank[x] <= k - 1
    <3>1. rank[x] \in Int /\ rank[x] <= k
      BY <1>2, <1>3, <2>4, <2>5 DEF Low
    <3>2. PICK j \in 1..n : names[j] = x
      BY <1>1, <1>2
    <3>3. rank[x] # k
      BY <1>3, <2>4, <2>5, <3>2
    <3> QED BY <3>1, <3>3
  <2> QED BY <2>5 DEF Low
<1>9. ASSUME \A x \in DOMAIN macros : ~Contains(s, x) PROVE t = s
  <2> DEFINE I == {i \in Nat : i <= n => g[i] = s}
  <2>1. 0 \in I
    BY <1>4
  <2>2. ASSUME NEW i \in Nat, i \in I PROVE i + 1 \in I
    <3> SUFFICES ASSUME i + 1 <= n PROVE g[i + 1] = s
      OBVIOUS
    <3> DEFINE f == One(names[i + 1], macros)
    <3>1. i + 1 \in 1..n /\ (i + 1) - 1 = i /\ g[i] = s
      BY <1>1, <2>2
    <3>2. g[i + 1] = Substitute(s, f) /\ Into(f, T)
      BY <1>4, <1>5, <3>1
    <3>3. \A x \in DOMAIN f : ~Contains(s, x)
      <4> DEFINE m == names[i + 1]
      <4>1. DOMAIN f = {m} /\ m \in DOMAIN macros
        BY <1>1, <1>5, <3>1
      <4> HIDE DEF f, m
      <4> QED BY <1>9, <4>1
    <3> HIDE DEF f
    <3> QED BY <3>2, <3>3, SubstituteSame
  <2> HIDE DEF I
  <2>3. n \in I
    BY <1>1, <2>1, <2>2, Induction
  <2> QED BY <1>1, <1>3, <2>3 DEF I
<1> QED BY <1>6, <1>7, <1>8, <1>9 DEF t

-----------------------------------------------------------------------------
(***************************************************************************)
(* The rounds of expandMacros.                                             *)
(***************************************************************************)
NextRound(C, macros, env) == UNION {Round(c, macros, env) : c \in C}

AllRounds(g, s, macros, env) ==
  /\ g[0] = {[text |-> s, runs |-> TRUE]}
  /\ \A n \in 1..Rounds : g[n] = NextRound(g[n - 1], macros, env)

\* The recursion over the rounds is well defined.
LEMMA AllRoundsAre ==
  ASSUME NEW s, NEW macros, NEW env
  PROVE  \E g : /\ AllRounds(g, s, macros, env)
                /\ Expansions(s, macros, env) = {c.text : c \in g[Rounds]}
<1> DEFINE First1 == {[text |-> s, runs |-> TRUE]}
           Is(g, n) == g = [i \in 0..n |-> IF i = 0 THEN First1
                                           ELSE NextRound(g[i - 1], macros, env)]
           I == {n \in Nat : \E g : Is(g, n)}
           after == CHOOSE g : Is(g, Rounds)
<1>0. Rounds \in Nat
  BY RoundsAssumption
<1>1. 0 \in I
  <2> DEFINE g == [i \in 0..0 |-> First1]
  <2>1. g = [i \in 0..0 |-> IF i = 0 THEN First1 ELSE NextRound(g[i - 1], macros, env)]
    OBVIOUS
  <2> HIDE DEF g
  <2> QED BY <2>1
<1>2. ASSUME NEW n \in Nat, n \in I PROVE n + 1 \in I
  <2>1. PICK g : Is(g, n)
    BY <1>2
  <2> DEFINE h == [i \in 0..(n + 1) |-> IF i = n + 1 THEN NextRound(g[n], macros, env) ELSE g[i]]
             v == [i \in 0..(n + 1) |-> IF i = 0 THEN First1 ELSE NextRound(h[i - 1], macros, env)]
  <2> HIDE DEF First1
  <2>2. \A i \in 0..n : g[i] = IF i = 0 THEN First1 ELSE NextRound(g[i - 1], macros, env)
    <3> DEFINE w == [i \in 0..n |-> IF i = 0 THEN First1 ELSE NextRound(g[i - 1], macros, env)]
    <3>1. g = w
      BY <2>1
    <3>2. \A i \in 0..n : w[i] = IF i = 0 THEN First1 ELSE NextRound(g[i - 1], macros, env)
      OBVIOUS
    <3> HIDE DEF w
    <3> QED BY <3>1, <3>2
  <2>3. ASSUME NEW i \in 0..(n + 1)
        PROVE  h[i] = IF i = 0 THEN First1 ELSE NextRound(h[i - 1], macros, env)
    <3>1. CASE i = n + 1
      <4>1. h[i] = NextRound(g[n], macros, env) /\ i - 1 = n /\ h[i - 1] = g[n] /\ i # 0
        BY <3>1
      <4> QED BY <4>1
    <3>2. CASE i # n + 1
      <4>1. i \in 0..n /\ h[i] = g[i]
        BY <3>2
      <4>2. i # 0 => i - 1 \in 0..n /\ h[i - 1] = g[i - 1]
        BY <4>1
      <4> HIDE DEF h
      <4> QED BY <2>2, <4>1, <4>2
    <3> QED BY <3>1, <3>2
  <2>4. h = v
    <3>1. h = [i \in 0..(n + 1) |-> h[i]]
      OBVIOUS
    <3>2. v = [i \in 0..(n + 1) |-> v[i]]
      OBVIOUS
    <3>3. \A i \in 0..(n + 1) : v[i] = IF i = 0 THEN First1 ELSE NextRound(h[i - 1], macros, env)
      OBVIOUS
    <3> HIDE DEF h, v
    <3> QED BY <2>3, <3>1, <3>2, <3>3
  <2>5. Is(h, n + 1)
    BY <2>4
  <2> HIDE DEF h, Is
  <2> QED BY <2>5
<1>3. Expansions(s, macros, env) = {c.text : c \in after[Rounds]}
  BY DEF Expansions, NextRound
<1>4. Is(after, Rounds)
  <2>1. \E g : Is(g, Rounds)
    <3> HIDE DEF I
    <3>1. Rounds \in I
      BY <1>0, <1>1, <1>2, Induction
    <3> QED BY <3>1 DEF I
  <2> HIDE DEF Is
  <2> QED BY <2>1
<1> HIDE DEF after, First1
<1>5. ASSUME NEW n \in 0..Rounds
      PROVE  after[n] = IF n = 0 THEN First1 ELSE NextRound(after[n - 1], macros, env)
  <2> DEFINE w == [i \in 0..Rounds |-> IF i = 0 THEN First1 ELSE NextRound(after[i - 1], macros, env)]
  <2>1. after = w
    BY <1>4
  <2>2. w[n] = IF n = 0 THEN First1 ELSE NextRound(after[n - 1], macros, env)
    OBVIOUS
  <2> HIDE DEF w
  <2> QED BY <2>1, <2>2
<1> HIDE DEF Is, I
<1>6. AllRounds(after, s, macros, env)
  <2>1. 0 \in 0..Rounds /\ \A n \in 1..Rounds : n \in 0..Rounds /\ n # 0
    BY <1>0
  <2> QED BY <1>5, <2>1 DEF AllRounds, First1
<1> QED BY <1>3, <1>6

\* A command after i rounds: it waits for the next, is done, or has failed.
Waits(c, s, macros, rank, env, T, i) ==
  /\ c.runs /\ c.text \in Seq(T) /\ Full(c.text, macros, env) = Full(s, macros, env)
  /\ i < Rounds /\ Low(c.text, rank, (Rounds - 1) - i)

Done(c, s, macros, env, T) ==
  /\ ~c.runs /\ c.text \in Seq(T) /\ Full(c.text, macros, env) = Full(s, macros, env)
  /\ \A x \in DOMAIN macros \union EnvName : ~Contains(c.text, x)

Lacks(c, s, macros, env) ==
  ~c.runs /\ c.text = MissingEnv /\ Misses(Meaning(s, macros), env)

Goes(c, s, macros, rank, env, T, i) ==
  \/ Waits(c, s, macros, rank, env, T, i)
  \/ Done(c, s, macros, env, T)
  \/ Lacks(c, s, macros, env)

\* A variable is missing if the text has it and it is not set.
LEMMA MissesIs ==
  ASSUME NEW s, NEW env
  PROVE  Misses(s, env) <=> \E x \in EnvName : x \notin DOMAIN env /\ Contains(s, x)
BY DEF Misses, ToSet, Contains

\* Only a text without macros can be lowered for ever.
LEMMA UnchangedIsBare ==
  ASSUME NEW T, NEW macros, NEW rank, Ranked(macros, rank, T), NEW s \in Seq(T),
         \A k \in Int : Low(s, rank, k) => Low(s, rank, k - 1)
  PROVE  \A x \in DOMAIN macros : ~Contains(s, x)
<1> DEFINE I == {j \in Nat : Low(s, rank, (Rounds - 1) - j)}
<1>0. Rounds \in Nat /\ Rounds - 1 \in Nat
  BY RoundsAssumption
<1>1. 0 \in I
  BY <1>0, HighestText
<1>2. ASSUME NEW j \in Nat, j \in I PROVE j + 1 \in I
  <2> DEFINE k == (Rounds - 1) - j
  <2>1. k \in Int /\ k - 1 = (Rounds - 1) - (j + 1) /\ Low(s, rank, k)
    BY <1>0, <1>2
  <2> HIDE DEF k
  <2>2. Low(s, rank, k - 1)
    BY <2>1
  <2> QED BY <2>1, <2>2
<1> HIDE DEF I
<1>3. Rounds - 1 \in I
  BY <1>0, <1>1, <1>2, Induction
<1>4. Low(s, rank, 0)
  BY <1>0, <1>3 DEF I
<1> QED BY <1>4, LowestText

\* A round leaves some command, and each goes on as it should.
LEMMA RoundGoes ==
  ASSUME NEW T, NEW macros, NEW rank, NEW env, Terms(macros, rank, env, T), NEW s \in Seq(T),
         NEW i \in Nat, NEW c, Goes(c, s, macros, rank, env, T, i)
  PROVE  /\ Round(c, macros, env) # {}
         /\ \A d \in Round(c, macros, env) : Goes(d, s, macros, rank, env, T, i + 1)
<1>0. Rounds \in Nat
  BY RoundsAssumption
<1>1. CASE ~c.runs
  <2>1. Round(c, macros, env) = {c}
    BY <1>1 DEF Round
  <2>2. Goes(c, s, macros, rank, env, T, i + 1)
    BY <1>1 DEF Goes, Waits
  <2> QED BY <2>1, <2>2
<1>2. CASE c.runs
  <2>1. /\ c.text \in Seq(T) /\ Full(c.text, macros, env) = Full(s, macros, env)
        /\ i < Rounds /\ Low(c.text, rank, (Rounds - 1) - i)
    BY <1>2 DEF Goes, Waits, Done, Lacks
  <2>2. CASE Misses(c.text, env)
    <3> DEFINE d == [text |-> MissingEnv, runs |-> FALSE]
    <3>1. Round(c, macros, env) = {d}
      BY <1>2, <2>2 DEF Round
    <3>2. PICK x \in EnvName : x \notin DOMAIN env /\ Contains(c.text, x)
      BY <2>2, MissesIs
    <3>3. Contains(Full(c.text, macros, env), x)
      BY <2>1, <3>2, FullMissing
    <3>4. Contains(Full(s, macros, env), x)
      BY <2>1, <3>3
    <3>5. Contains(Meaning(s, macros), x)
      BY <3>2, <3>4, FullMissing
    <3>6. Misses(Meaning(s, macros), env)
      BY <3>2, <3>5, MissesIs
    <3>7. Lacks(d, s, macros, env)
      BY <3>6 DEF Lacks
    <3> HIDE DEF d
    <3> QED BY <3>1, <3>7 DEF Goes
  <2>3. CASE ~Misses(c.text, env)
    <3> DEFINE e == Substitute(c.text, env)
    <3>1. Into(env, T) /\ Into(macros, T) /\ DOMAIN macros \subseteq T \ EnvName
          /\ DOMAIN env \subseteq EnvName /\ IsFiniteSet(DOMAIN macros)
      BY DEF Terms, Ranked
    <3>2. e \in Seq(T)
      BY <2>1, <3>1, SubstituteText
    <3>3. Full(e, macros, env) = Full(s, macros, env)
      <4>1. \A x \in DOMAIN env : Full(env[x], macros, env) = Full(<<x>>, macros, env)
        BY FullEnv
      <4>2. Full(e, macros, env) = Full(c.text, macros, env)
        BY <2>1, <3>1, <4>1, FullKept
      <4> QED BY <2>1, <4>2
    <3>4. ASSUME NEW x, Contains(e, x), x \in DOMAIN macros \union EnvName
          PROVE  x \in DOMAIN macros /\ Contains(c.text, x)
      <4>1. PICK y : Contains(c.text, y) /\ Contains(Tok(y, env), x)
        BY <2>1, <3>1, <3>4, SubstituteContains
      <4>2. y \notin DOMAIN env
        BY <3>4, <4>1 DEF Tok, Terms, Literal
      <4>3. y = x
        BY <4>1, <4>2, ContainsOne DEF Tok
      <4>4. x \notin EnvName
        BY <2>3, <4>1, <4>2, <4>3, MissesIs
      <4> QED BY <3>4, <4>1, <4>3, <4>4
    <3>5. Low(e, rank, (Rounds - 1) - i)
      <4>1. DOMAIN rank = DOMAIN macros
        BY DEF Terms, Ranked
      <4> QED BY <2>1, <3>4, <4>1 DEF Low
    <3> DEFINE Ts == {ApplyMacros(e, macros, names) : names \in SetToSeqs(DOMAIN macros)}
    <3>6. Round(c, macros, env) = {[text |-> t, runs |-> t # e] : t \in Ts}
      BY <1>2, <2>3 DEF Round
    <3>7. SetToSeqs(DOMAIN macros) # {}
      BY <3>1, OrderExists
    <3>8. \A names \in SetToSeqs(DOMAIN macros) :
            LET t == ApplyMacros(e, macros, names) IN
            /\ t \in Seq(T) /\ Full(t, macros, env) = Full(e, macros, env)
            /\ \A k \in Int : Low(e, rank, k) => Low(t, rank, k - 1)
            /\ (\A x \in DOMAIN macros : ~Contains(e, x)) => t = e
      BY <3>2, AppliedKeeps
    <3> HIDE DEF e
    <3>9. ASSUME NEW t \in Ts
          PROVE  /\ t \in Seq(T) /\ Full(t, macros, env) = Full(e, macros, env)
                 /\ \A k \in Int : Low(e, rank, k) => Low(t, rank, k - 1)
                 /\ (\A x \in DOMAIN macros : ~Contains(e, x)) => t = e
      BY <3>8
    <3>10. Ts # {}
      BY <3>7
    <3> HIDE DEF Ts
    <3>11. Round(c, macros, env) # {}
      BY <3>6, <3>10
    <3>12. ASSUME NEW t \in Ts
           PROVE  Goes([text |-> t, runs |-> t # e], s, macros, rank, env, T, i + 1)
      <4> DEFINE d == [text |-> t, runs |-> t # e]
                 k == (Rounds - 1) - i
      <4>1. d.text = t /\ d.runs = (t # e)
        OBVIOUS
      <4>2. k \in Int /\ k - 1 = (Rounds - 1) - (i + 1)
        BY <1>0
      <4>3. t \in Seq(T) /\ Full(t, macros, env) = Full(s, macros, env)
        BY <3>3, <3>9
      <4> HIDE DEF d, k
      <4>4. Low(t, rank, k - 1)
        BY <3>5, <3>9, <4>2 DEF k
      <4>5. Ranked(macros, rank, T) /\ rank \in [DOMAIN macros -> 1..(Rounds - 1)]
        BY DEF Terms, Ranked
      <4>6. CASE t = e
        <5>1. ASSUME NEW x \in DOMAIN macros \union EnvName, Contains(t, x) PROVE FALSE
          <6>1. x \in DOMAIN macros
            BY <3>4, <4>6, <5>1
          <6>2. \A j \in Int : Low(e, rank, j) => Low(e, rank, j - 1)
            BY <3>9, <4>6
          <6> QED BY <3>2, <4>5, <4>6, <5>1, <6>1, <6>2, UnchangedIsBare
        <5> QED BY <4>1, <4>3, <4>6, <5>1 DEF Goes, Done, d
      <4>7. CASE t # e
        <5>1. i + 1 < Rounds
          <6>1. SUFFICES ASSUME ~ (i + 1 < Rounds) PROVE FALSE
            OBVIOUS
          <6>2. k <= 0
            BY <1>0, <2>1, <6>1 DEF k
          <6>3. \A x \in DOMAIN macros : ~Contains(e, x)
            BY <3>5, <4>2, <4>5, <6>2, LowestText DEF k
          <6> QED BY <3>9, <4>7, <6>3
        <5>2. Waits(d, s, macros, rank, env, T, i + 1)
          BY <4>1, <4>2, <4>3, <4>4, <4>7, <5>1 DEF Waits
        <5> QED BY <5>2 DEF Goes, d
      <4> QED BY <4>6, <4>7
    <3> QED BY <3>6, <3>11, <3>12
  <2> QED BY <2>2, <2>3
<1> QED BY <1>1, <1>2

\* After every round some command is left, and each has gone as it should.
AllGo(C, s, macros, rank, env, T, i) ==
  C # {} /\ \A c \in C : Goes(c, s, macros, rank, env, T, i)

\* So do all rounds.
LEMMA RoundsGo ==
  ASSUME NEW T, NEW macros, NEW rank, NEW env, Terms(macros, rank, env, T), NEW s \in Seq(T),
         NEW g, AllRounds(g, s, macros, env)
  PROVE  AllGo(g[Rounds], s, macros, rank, env, T, Rounds)
<1> DEFINE I == {i \in Nat : i <= Rounds => AllGo(g[i], s, macros, rank, env, T, i)}
<1>0. Rounds \in Nat /\ 0 < Rounds
  BY RoundsAssumption
<1>1. 0 \in I
  <2> DEFINE c == [text |-> s, runs |-> TRUE]
  <2>1. g[0] = {c}
    BY DEF AllRounds
  <2>2. c.text = s /\ c.runs
    OBVIOUS
  <2> HIDE DEF c
  <2>3. Low(s, rank, (Rounds - 1) - 0)
    <3>1. Low(s, rank, Rounds - 1) /\ (Rounds - 1) - 0 = Rounds - 1
      BY <1>0, HighestText DEF Terms
    <3> QED BY <3>1
  <2>4. Goes(c, s, macros, rank, env, T, 0)
    BY <1>0, <2>2, <2>3 DEF Goes, Waits
  <2> QED BY <2>1, <2>4 DEF AllGo
<1>2. ASSUME NEW i \in Nat, i \in I PROVE i + 1 \in I
  <2> SUFFICES ASSUME i + 1 <= Rounds PROVE AllGo(g[i + 1], s, macros, rank, env, T, i + 1)
    OBVIOUS
  <2>1. AllGo(g[i], s, macros, rank, env, T, i)
    BY <1>0, <1>2
  <2>2. i + 1 \in 1..Rounds /\ (i + 1) - 1 = i
    BY <1>0
  <2>3. g[i + 1] = NextRound(g[i], macros, env)
    BY <2>2 DEF AllRounds
  <2>4. ASSUME NEW c \in g[i]
        PROVE  /\ Round(c, macros, env) # {}
               /\ \A d \in Round(c, macros, env) : Goes(d, s, macros, rank, env, T, i + 1)
    BY <2>1, <2>4, RoundGoes DEF AllGo
  <2>5. NextRound(g[i], macros, env) # {}
    BY <2>1, <2>4 DEF AllGo, NextRound
  <2>6. ASSUME NEW d \in NextRound(g[i], macros, env)
        PROVE  Goes(d, s, macros, rank, env, T, i + 1)
    <3>1. PICK c \in g[i] : d \in Round(c, macros, env)
      BY <2>6 DEF NextRound
    <3> QED BY <2>4, <3>1
  <2> QED BY <2>3, <2>5, <2>6 DEF AllGo
<1> HIDE DEF I
<1>3. Rounds \in I
  BY <1>0, <1>1, <1>2, Induction
<1> QED BY <1>0, <1>3 DEF I

\* Whatever the order of the macros in each round, the outcome is the meaning.
LEMMA ExpansionIs ==
  ASSUME NEW T, NEW macros, NEW rank, NEW env, Terms(macros, rank, env, T), NEW s \in Seq(T)
  PROVE  Expansions(s, macros, env) = {Expanded(s, macros, env)}
<1>1. PICK g : /\ AllRounds(g, s, macros, env)
               /\ Expansions(s, macros, env) = {c.text : c \in g[Rounds]}
  BY AllRoundsAre
<1>2. AllGo(g[Rounds], s, macros, rank, env, T, Rounds)
  BY <1>1, RoundsGo
<1>3. ASSUME NEW c \in g[Rounds] PROVE c.text = Expanded(s, macros, env)
  <2>1. Goes(c, s, macros, rank, env, T, Rounds) /\ ~ (Rounds < Rounds)
    BY <1>2, RoundsAssumption DEF AllGo
  <2>2. CASE Lacks(c, s, macros, env)
    BY <2>2 DEF Lacks, Expanded
  <2>3. CASE Done(c, s, macros, env, T)
    <3>1. /\ c.text \in Seq(T) /\ Full(c.text, macros, env) = Full(s, macros, env)
          /\ \A x \in DOMAIN macros \union EnvName : ~Contains(c.text, x)
      BY <2>3 DEF Done
    <3>2. Full(c.text, macros, env) = c.text
      BY <3>1, FullSame DEF Terms
    <3>3. ASSUME Misses(Meaning(s, macros), env) PROVE FALSE
      <4>1. PICK x \in EnvName : x \notin DOMAIN env /\ Contains(Meaning(s, macros), x)
        BY <3>3, MissesIs
      <4>2. Contains(Full(s, macros, env), x)
        BY <4>1, FullMissing
      <4> QED BY <3>1, <3>2, <4>2
    <3> QED BY <3>1, <3>2, <3>3 DEF Expanded, Full
  <2> QED BY <2>1, <2>2, <2>3 DEF Goes, Waits
<1> QED BY <1>1, <1>2, <1>3 DEF AllGo
=============================================================================
