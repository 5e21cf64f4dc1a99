----------------------------- MODULE DataLemmas -----------------------------
(***************************************************************************)
(* Lemmas about data: the least element of a set of naturals, and with it, *)
(* as the induction theorems of the library take an operator, induction on *)
(* sets of numbers and of trees, functions that are recursive on trees,    *)
(* what FlattenSeq computes, and a few facts about sequences and division. *)
(***************************************************************************)
EXTENDS Integers, SequencesExt, FiniteSetTheorems, SequenceTheorems, TLAPS

-----------------------------------------------------------------------------
(* Least elements *)

\* The least-number principle of the library takes an operator; this uses that the
\* strict subsets of a finite set are well-founded instead.
IsMinimal(U, T) == \A V \in T : V \subseteq U => V = U

\* A nonempty family of subsets of a finite set has a minimal member.
LEMMA MinimalSubset ==
  ASSUME NEW S, IsFiniteSet(S), NEW T, T \subseteq SUBSET S, T # {}
  PROVE  \E U \in T : IsMinimal(U, T)
<1>1. IsWellFoundedOn(StrictSubsetOrdering(S), SUBSET S)
  BY FS_FiniteSubsetsOfFinite, FS_StrictSubsetOrderingWellFounded, Zenon
<1>2. PICK U \in T : \A V \in T : ~ (<<V, U>> \in StrictSubsetOrdering(S))
  BY <1>1, WFMin, Zenon
<1> QED
  BY <1>2 DEF StrictSubsetOrdering, IsMinimal

\* A nonempty finite set of naturals has a least element.
LEMMA LeastElement ==
  ASSUME NEW S \in SUBSET Nat, IsFiniteSet(S), S # {}
  PROVE  \E b \in S : \A c \in S : b <= c
<1> DEFINE T == {S \cap (0 .. x) : x \in S}
<1>1. T \subseteq SUBSET S /\ T # {}
  OBVIOUS
<1>2. PICK U \in T : IsMinimal(U, T)
  <2> HIDE DEF T
  <2> QED BY <1>1, MinimalSubset, Zenon
<1>3. PICK b \in S : U = S \cap (0 .. b)
  OBVIOUS
<1>4. ASSUME NEW c \in S, c < b
      PROVE  FALSE
  <2>1. S \cap (0 .. c) \subseteq U /\ S \cap (0 .. c) # U
    BY <1>3, <1>4
  <2> QED BY <1>2, <2>1 DEF IsMinimal
<1> QED
  BY <1>4
\* and so has any nonempty set of naturals:
LEMMA LeastNatural ==
  ASSUME NEW S \in SUBSET Nat, S # {}
  PROVE  \E b \in S : \A c \in S : b <= c
<1>1. PICK x \in S : TRUE
  OBVIOUS
<1> DEFINE T == S \cap (0 .. x)
<1>2. T \in SUBSET Nat /\ IsFiniteSet(T) /\ T # {}
  <2>1. IsFiniteSet(0 .. x)
    BY FS_Interval
  <2>2. IsFiniteSet(T)
    BY <2>1, FS_Subset
  <2>3. x \in T
    OBVIOUS
  <2> QED
    BY <2>2, <2>3
<1>3. PICK b \in T : \A c \in T : b <= c
  <2> HIDE DEF T
  <2> QED BY <1>2, LeastElement
<1> QED
  BY <1>3

\* What holds of 0, and of the next number with every number below n, holds up to n.
LEMMA Upwards ==
  ASSUME NEW n \in Nat, NEW S, 0 \in S, \A m \in 0 .. n - 1 : m \in S => m + 1 \in S
  PROVE  0 .. n \subseteq S
<1> DEFINE T == {m \in 0 .. n : m \notin S}
<1>1. ASSUME NEW m \in T
      PROVE  FALSE
  <2>1. T \in SUBSET Nat /\ m \in T
    OBVIOUS
  <2>2. PICK b \in T : \A c \in T : b <= c
    <3> HIDE DEF T
    <3> QED BY <2>1, LeastNatural
  <2>3. b \in 0 .. n /\ b # 0 /\ b - 1 \in 0 .. n - 1 /\ ~(b <= b - 1) /\ b - 1 \in 0 .. n /\ (b - 1) + 1 = b
    OBVIOUS
  <2>4. b - 1 \in S
    BY <2>2, <2>3
  <2> QED
    BY <2>2, <2>3, <2>4
<1> QED
  BY <1>1

-----------------------------------------------------------------------------
(* Functions on trees *)

\* A function on trees may be defined by what it is for a tree when it is known for the
\* children.  V are the trees, D says how deep each is, I has its children, and B[v]
\* makes the result for v of those for its children.
Trees(V, D, I) ==
  /\ D \in [V -> Nat] /\ I \in [V -> Seq(V)]
  /\ \A v \in V : \A k \in 1 .. Len(I[v]) : D[I[v][k]] < D[v]

\* The results of g for the children.
Results(g, children) == [k \in 1 .. Len(children) |-> g[children[k]]]

\* g is the function that B computes from the results for the items I.
Recursive(g, V, I, B) == \A v \in V : g[v] = B[v][Results(g, I[v])]

\* There is such a function on trees.
LEMMA TreeRecursion ==
  ASSUME NEW V, NEW D, NEW I, Trees(V, D, I),
         NEW R, NEW B, \A v \in V : B[v] \in [Seq(R) -> R]
  PROVE  \E g \in [V -> R] : Recursive(g, V, I, B)
<1> DEFINE Below(n) == {v \in V : D[v] < n}
           Made(g, v) == Results(g, I[v])
           Is(g, v) == g[v] = B[v][Made(g, v)]
           Approx(g, n) == g \in [Below(n) -> R] /\ \A v \in Below(n) : Is(g, v)
<1>0. \A v \in V : D[v] \in Nat
  BY DEF Trees
<1>1. ASSUME NEW v \in V, NEW k \in 1 .. Len(I[v])
      PROVE  I[v][k] \in V /\ D[I[v][k]] \in Nat /\ D[v] \in Nat /\ D[I[v][k]] < D[v]
  BY DEF Trees
<1>2. ASSUME NEW v \in V, NEW g, NEW h, \A k \in 1 .. Len(I[v]) : g[I[v][k]] = h[I[v][k]]
      PROVE  Made(g, v) = Made(h, v)
  BY <1>2 DEF Results
<1>3. ASSUME NEW v \in V, NEW g, \A k \in 1 .. Len(I[v]) : g[I[v][k]] \in R
      PROVE  Made(g, v) \in Seq(R) /\ B[v][Made(g, v)] \in R
  <2>1. Len(I[v]) \in Nat
    BY DEF Trees
  <2>2. Made(g, v) \in Seq(R)
    BY <1>3, <2>1 DEF Results
  <2> HIDE DEF Made
  <2> QED
    BY <2>2
<1>4. ASSUME NEW m \in Nat, NEW n \in Nat, NEW g, NEW h, Approx(g, m), Approx(h, n),
             NEW v \in Below(m), v \in Below(n), g[v] # h[v]
      PROVE  FALSE
  <2> DEFINE S == {u \in Below(m) : u \in Below(n) /\ g[u] # h[u]}
             E == {D[u] : u \in S}
  <2>1. E \in SUBSET Nat /\ D[v] \in E
    BY <1>0, <1>4
  <2>2. PICK b \in E : \A c \in E : b <= c
    <3> HIDE DEF E
    <3> QED BY <2>1, LeastNatural
  <2>3. PICK u \in S : D[u] = b
    OBVIOUS
  <2>4. ASSUME NEW k \in 1 .. Len(I[u])
        PROVE  g[I[u][k]] = h[I[u][k]]
    <3>1. u \in V /\ D[u] < m /\ D[u] < n
      BY <2>3
    <3>2. I[u][k] \in V /\ D[I[u][k]] \in Nat /\ D[u] \in Nat /\ D[I[u][k]] < D[u]
      BY <1>1, <3>1
    <3>3. I[u][k] \in Below(m) /\ I[u][k] \in Below(n)
      BY <3>1, <3>2
    <3>4. D[I[u][k]] \notin E
      <4>1. ~(b <= D[I[u][k]])
        BY <2>3, <3>2
      <4> HIDE DEF E
      <4> QED
        BY <2>2, <4>1
    <3> QED
      BY <3>3, <3>4
  <2>5. Made(g, u) = Made(h, u)
    BY <1>2, <2>3, <2>4
  <2>6. Is(g, u) /\ Is(h, u) /\ g[u] # h[u]
    <3> HIDE DEF Is
    <3> QED BY <1>4, <2>3
  <2> HIDE DEF Made
  <2> QED
    BY <2>5, <2>6
<1>5. ASSUME NEW n \in Nat
      PROVE  \E g : Approx(g, n)
  <2> DEFINE S == {m \in Nat : ~ \E g : Approx(g, m)}
  <2>1. ASSUME n \in S
        PROVE  FALSE
    <3>1. PICK b \in S : \A c \in S : b <= c
      <4>1. S \in SUBSET Nat
        OBVIOUS
      <4> HIDE DEF S
      <4> QED BY <2>1, <4>1, LeastNatural
    <3>2. CASE b = 0
      <4> DEFINE h == [v \in {} |-> v]
      <4>1. Below(0) = {}
        BY <1>0
      <4>2. h \in [Below(0) -> R]
        BY <4>1
      <4>3. Approx(h, 0)
        BY <4>1, <4>2
      <4> HIDE DEF h, Approx
      <4> QED
        BY <3>1, <3>2, <4>3
    <3>3. CASE b # 0
      <4>1. b \in Nat /\ b - 1 \in Nat /\ b - 1 \notin S
        <5>1. b \in Nat
          <6> HIDE DEF Approx
          <6> QED BY <3>1
        <5>2. b - 1 \in Nat /\ ~(b <= b - 1)
          BY <3>3, <5>1
        <5> HIDE DEF S
        <5> QED
          BY <3>1, <5>1, <5>2
      <4>2. PICK g : Approx(g, b - 1)
        <5> HIDE DEF Approx
        <5> QED BY <4>1
      <4> DEFINE h == [v \in Below(b) |-> B[v][Made(g, v)]]
      <4>3. ASSUME NEW v \in Below(b), NEW k \in 1 .. Len(I[v])
            PROVE  /\ I[v][k] \in Below(b - 1) /\ I[v][k] \in Below(b)
                   /\ g[I[v][k]] \in R
                   /\ h[I[v][k]] = g[I[v][k]]
        <5>1. v \in V /\ D[v] < b /\ b \in Nat
          BY <4>1, <4>3
        <5>2. I[v][k] \in V /\ D[I[v][k]] \in Nat /\ D[v] \in Nat /\ D[I[v][k]] < D[v]
          BY <1>1, <4>3, <5>1
        <5>3. I[v][k] \in Below(b - 1) /\ I[v][k] \in Below(b)
          BY <5>1, <5>2
        <5>4. g[I[v][k]] \in R /\ Is(g, I[v][k])
          <6> HIDE DEF Is, Below
          <6> QED BY <4>2, <5>3
        <5>5. h[I[v][k]] = B[I[v][k]][Made(g, I[v][k])]
          <6> HIDE DEF Below, Made
          <6> QED BY <5>3
        <5>6. h[I[v][k]] = g[I[v][k]]
          <6> HIDE DEF Made, h
          <6> QED BY <5>4, <5>5
        <5> QED
          BY <5>3, <5>4, <5>6
      <4>4. ASSUME NEW v \in Below(b)
            PROVE  h[v] \in R /\ Is(h, v)
        <5>1. v \in V
          OBVIOUS
        <5>2. B[v][Made(g, v)] \in R
          <6> HIDE DEF Made, h
          <6> QED BY <1>3, <4>3, <5>1
        <5>3. Made(h, v) = Made(g, v)
          <6> HIDE DEF Made, h, Below
          <6> QED BY <1>2, <4>3, <5>1
        <5>4. h[v] = B[v][Made(g, v)]
          <6> HIDE DEF Made, Below
          <6> QED OBVIOUS
        <5> HIDE DEF Made, h
        <5> QED
          BY <5>2, <5>3, <5>4
      <4>5. h \in [Below(b) -> R]
        <5>1. h = [v \in Below(b) |-> h[v]]
          BY Zenon
        <5> HIDE DEF h, Below
        <5> QED
          BY <4>4, <5>1
      <4>6. Approx(h, b)
        <5> HIDE DEF h, Below, Is
        <5> QED BY <4>4, <4>5
      <4> HIDE DEF Approx, h
      <4> QED
        BY <3>1, <4>6
    <3> QED
      BY <3>2, <3>3
  <2> HIDE DEF Approx
  <2> QED
    BY <2>1
<1> DEFINE G(n) == CHOOSE g : Approx(g, n)
           f == [v \in V |-> G(D[v] + 1)[v]]
<1>6. ASSUME NEW n \in Nat
      PROVE  Approx(G(n), n)
  <2> HIDE DEF Approx
  <2> QED
    BY <1>5
<1>7. ASSUME NEW v \in V
      PROVE  f[v] \in R /\ Is(f, v)
  <2> DEFINE n == D[v] + 1
             g == G(n)
  <2>1. n \in Nat /\ v \in Below(n) /\ Approx(g, n)
    <3>1. n \in Nat /\ v \in Below(n)
      BY <1>0
    <3> HIDE DEF Below, Approx, n, G
    <3> QED BY <1>6, <3>1
  <2>2. f[v] = g[v]
    <3> HIDE DEF G
    <3> QED OBVIOUS
  <2>3. ASSUME NEW k \in 1 .. Len(I[v])
        PROVE  f[I[v][k]] = g[I[v][k]]
    <3> DEFINE c == I[v][k]
               m == D[c] + 1
    <3>1. c \in V /\ D[c] \in Nat /\ D[v] \in Nat /\ D[c] < D[v]
      BY <1>1
    <3>2. m \in Nat /\ c \in Below(m) /\ c \in Below(n)
      BY <3>1
    <3>3. Approx(G(m), m)
      <4> HIDE DEF Approx, m, G
      <4> QED BY <1>6, <3>2
    <3>4. G(m)[c] = g[c]
      <4> HIDE DEF Approx, Below, G, m, n, c, g
      <4> QED BY <1>4, <2>1, <3>2, <3>3
    <3>5. f[c] = G(m)[c]
      <4> HIDE DEF G
      <4> QED BY <3>1
    <3> HIDE DEF G, m, n, g, f
    <3> QED
      BY <3>4, <3>5
  <2>4. Made(f, v) = Made(g, v)
    <3> HIDE DEF Made, f, g
    <3> QED BY <1>2, <2>3
  <2>5. g[v] \in R /\ Is(g, v)
    <3> HIDE DEF Is, Below, g, n
    <3> QED BY <2>1
  <2> HIDE DEF Made, f, g
  <2> QED
    BY <2>2, <2>4, <2>5
<1>8. f \in [V -> R]
  <2>1. f = [v \in V |-> f[v]]
    <3> HIDE DEF G
    <3> QED OBVIOUS
  <2> HIDE DEF f
  <2> QED
    BY <1>7, <2>1
<1>9. \A v \in V : Is(f, v)
  <2> HIDE DEF f, Is
  <2> QED BY <1>7
<1> HIDE DEF f
<1> QED
  BY <1>8, <1>9 DEF Recursive

\* What holds of a tree when it holds of its children holds of every tree.
LEMMA TreeInduction ==
  ASSUME NEW V, NEW D, NEW I, Trees(V, D, I), NEW S,
         \A v \in V : (\A k \in 1 .. Len(I[v]) : I[v][k] \in S) => v \in S
  PROVE  V \subseteq S
<1> DEFINE T == {D[v] : v \in V \ S}
<1>1. ASSUME NEW v \in V, v \notin S
      PROVE  FALSE
  <2>1. T \in SUBSET Nat /\ D[v] \in T
    BY <1>1 DEF Trees
  <2>2. PICK b \in T : \A c \in T : b <= c
    <3> HIDE DEF T
    <3> QED BY <2>1, LeastNatural
  <2>3. PICK u \in V : u \notin S /\ D[u] = b
    OBVIOUS
  <2>4. ASSUME NEW k \in 1 .. Len(I[u])
        PROVE  I[u][k] \in S
    <3>1. I[u][k] \in V /\ D[I[u][k]] \in Nat /\ D[u] \in Nat /\ D[I[u][k]] < D[u]
      BY SMTT(30) DEF Trees
    <3>2. ~(b <= D[I[u][k]])
      BY <2>3, <3>1
    <3>3. D[I[u][k]] \notin T
      <4> HIDE DEF T
      <4> QED BY <2>2, <3>2
    <3> QED
      BY <3>1, <3>3
  <2> QED
    BY <2>3, <2>4
<1> QED
  BY <1>1

-----------------------------------------------------------------------------
(* Sequences one behind the other *)

\* Whatever adds one sequence after the other computes FlattenSeq.
LEMMA FlattenIs ==
  ASSUME NEW n \in Nat \ {0}, NEW seqs, Len(seqs) = n,
         NEW w, \A i \in 1 .. n : w[i] = IF i = 1 THEN seqs[i] ELSE w[i - 1] \o seqs[i]
  PROVE  FlattenSeq(seqs) = w[n]
<1> DEFINE P(g) == g = [i \in 1 .. Len(seqs) |-> IF i = 1 THEN seqs[i] ELSE g[i - 1] \o seqs[i]]
           x == [i \in 1 .. n |-> w[i]]
<1>1. P(x)
  <2>1. ASSUME NEW i \in 1 .. n
        PROVE  x[i] = IF i = 1 THEN seqs[i] ELSE x[i - 1] \o seqs[i]
    <3>1. CASE i = 1
      BY <3>1
    <3>2. CASE i # 1
      <4>1. i - 1 \in 1 .. n
        BY <3>2
      <4>2. x[i] = w[i] /\ x[i - 1] = w[i - 1]
        BY <4>1
      <4> QED
        BY <3>2, <4>2, Zenon
    <3> QED
      BY <3>1, <3>2
  <2> QED
    BY <2>1, Zenon
<1>2. ASSUME NEW g, P(g)
      PROVE  g = x
  <2>1. ASSUME NEW i \in 1 .. n, g[i] # x[i]
        PROVE  FALSE
    <3> DEFINE S == {j \in 1 .. n : g[j] # x[j]}
    <3>1. S \in SUBSET Nat /\ i \in S
      BY <2>1
    <3>2. PICK j \in S : \A k \in S : j <= k
      <4> HIDE DEF S
      <4> QED BY <3>1, LeastNatural
    <3>3. j # 1
      BY <1>1, <1>2, <3>2
    <3>4. j \in 1 .. n /\ j - 1 \in 1 .. n /\ ~ j <= j - 1
      BY <3>2, <3>3
    <3>5. g[j - 1] = x[j - 1]
      BY <3>2, <3>4
    <3>6. g[j] = g[j - 1] \o seqs[j] /\ x[j] = x[j - 1] \o seqs[j]
      BY <1>1, <1>2, <3>3, <3>4, Zenon
    <3> QED
      BY <3>2, <3>5, <3>6, Zenon
  <2>2. DOMAIN g = 1 .. n /\ g = [i \in DOMAIN g |-> g[i]]
    BY <1>2, Zenon
  <2>3. DOMAIN x = 1 .. n /\ x = [i \in DOMAIN x |-> x[i]]
    BY <1>1, Zenon
  <2> QED
    BY <2>1, <2>2, <2>3, Zenon
<1>3. (CHOOSE g : P(g)) = x
  <2> HIDE DEF P
  <2> QED
    BY <1>1, <1>2
<1>4. FlattenSeq(seqs) = x[n]
  BY <1>3 DEF FlattenSeq
<1> QED
  BY <1>4

\* One sequence behind another.
Joined(u, v, w) ==
  /\ Len(w) = Len(u) + Len(v)
  /\ \A k \in 1 .. Len(u) : w[k] = u[k]
  /\ \A k \in 1 .. Len(v) : w[Len(u) + k] = v[k]

\* The concatenation of two sequences is that.
LEMMA Behind ==
  ASSUME NEW S, NEW u \in Seq(S), NEW v \in Seq(S)
  PROVE  u \o v \in Seq(S) /\ Joined(u, v, u \o v)
<1> DEFINE w == u \o v
<1>1. /\ w \in Seq(S)
      /\ Len(w) = Len(u) + Len(v)
      /\ \A i \in 1 .. Len(u) + Len(v) : w[i] = IF i <= Len(u) THEN u[i] ELSE v[i - Len(u)]
  BY ConcatProperties, Zenon
<1> HIDE DEF w
<1>2. Len(u) \in Nat /\ Len(v) \in Nat
  OBVIOUS
<1>3. \A k \in 1 .. Len(u) : w[k] = u[k]
  BY <1>1, <1>2
<1>4. ASSUME NEW k \in 1 .. Len(v)
      PROVE  w[Len(u) + k] = v[k]
  <2>1. Len(u) + k \in 1 .. Len(u) + Len(v) /\ ~(Len(u) + k <= Len(u)) /\ (Len(u) + k) - Len(u) = k
    BY <1>2
  <2> QED
    BY <1>1, <2>1, Zenon
<1> QED
  BY <1>1, <1>3, <1>4, Zenon DEF w, Joined

\* Ends of parts, and parts that are put behind what is there: they stay where they are.
LEMMA EndsGrow ==
  ASSUME NEW n \in Nat, NEW ends \in [0 .. n -> Nat], NEW lens \in [1 .. n -> Nat],
         \A k \in 1 .. n : ends[k] = ends[k - 1] + lens[k],
         NEW k \in 0 .. n
  PROVE  \A m \in k .. n : ends[k] <= ends[m]
<1> DEFINE S == {i \in 0 .. n : k <= i => ends[k] <= ends[i]}
<1>1. 0 \in S
  OBVIOUS
<1>2. ASSUME NEW i \in 0 .. n - 1, i \in S
      PROVE  i + 1 \in S
  <2>1. i + 1 \in 1 .. n /\ (i + 1) - 1 = i /\ i \in 0 .. n /\ i + 1 \in 0 .. n
    OBVIOUS
  <2>2. ends[i + 1] = ends[i] + lens[i + 1] /\ ends[i] \in Nat /\ lens[i + 1] \in Nat
        /\ ends[k] \in Nat /\ ends[i + 1] \in Nat
    BY <2>1
  <2>3. k <= i + 1 => ends[k] <= ends[i + 1]
    BY <1>2, <2>2
  <2> QED
    BY <2>1, <2>3
<1>3. 0 .. n \subseteq S
  <2> HIDE DEF S
  <2> QED BY <1>1, <1>2, Upwards
<1> QED
  BY <1>3

\* A place in a part is a place in the whole.
LEMMA WithinPart ==
  ASSUME NEW start \in Nat, NEW len \in Nat, NEW end \in Nat, NEW all \in Nat,
         end = start + len, end <= all, NEW j \in 1 .. len
  PROVE  start + j \in 1 .. all
OBVIOUS

\* w[m + 1] is w[m] with the next part behind it.
Stays(m, ends, lens, w, parts) ==
  /\ \A i \in 1 .. ends[m] : w[m + 1][i] = w[m][i]
  /\ \A j \in 1 .. lens[m + 1] : w[m + 1][ends[m] + j] = parts[m + 1][j]

\* Each part is in its place.
InPlace(n, ends, lens, whole, parts) ==
  \A k \in 1 .. n : \A j \in 1 .. lens[k] : whole[ends[k - 1] + j] = parts[k][j]

\* Put one behind the other, they all end up there.
LEMMA PartsStay ==
  ASSUME NEW n \in Nat, NEW ends \in [0 .. n -> Nat], NEW lens \in [1 .. n -> Nat],
         \A k \in 1 .. n : ends[k] = ends[k - 1] + lens[k],
         NEW w, NEW parts,
         \A m \in 0 .. n - 1 : Stays(m, ends, lens, w, parts)
  PROVE  InPlace(n, ends, lens, w[n], parts)
<1> DEFINE S == {m \in 0 .. n :
                   \A k \in 1 .. m : \A j \in 1 .. lens[k] : w[m][ends[k - 1] + j] = parts[k][j]}
<1>1. 0 \in S
  OBVIOUS
<1>2. ASSUME NEW m \in 0 .. n - 1, m \in S
      PROVE  m + 1 \in S
  <2>1. ASSUME NEW k \in 1 .. m + 1, NEW j \in 1 .. lens[k]
        PROVE  w[m + 1][ends[k - 1] + j] = parts[k][j]
    <3>1. CASE k = m + 1
      <4>1. k - 1 = m
        BY <3>1
      <4> QED
        BY <3>1, <4>1 DEF Stays
    <3>2. CASE k # m + 1
      <4>1. k \in 1 .. m /\ k \in 1 .. n /\ k - 1 \in 0 .. n /\ k \in 0 .. n /\ m \in k .. n
        BY <3>2
      <4>2. ends[k] <= ends[m]
        <5>1. \A i \in k .. n : ends[k] <= ends[i]
          BY <4>1, EndsGrow
        <5> QED
          BY <4>1, <5>1
      <4>3. ends[k] = ends[k - 1] + lens[k] /\ ends[k - 1] \in Nat /\ lens[k] \in Nat /\ ends[m] \in Nat
        BY <4>1
      <4>4. ends[k - 1] + j \in 1 .. ends[m]
        <5>1. ends[k] \in Nat
          BY <4>1
        <5> QED
          BY <4>2, <4>3, <5>1, WithinPart, Zenon
      <4>5. w[m][ends[k - 1] + j] = parts[k][j]
        BY <1>2, <4>1
      <4> QED
        BY <4>4, <4>5 DEF Stays
    <3> QED
      BY <3>1, <3>2
  <2> QED
    BY <2>1
<1>3. 0 .. n \subseteq S
  <2> HIDE DEF S
  <2> QED BY <1>1, <1>2, Upwards
<1> QED
  BY <1>3 DEF InPlace

\* Where the parts of FlattenSeq(seqs) are: the k-th behind the first ends[k - 1] elements.
Parts(seqs, whole, ends) ==
  /\ ends \in [0 .. Len(seqs) -> Nat]
  /\ ends[0] = 0 /\ Len(whole) = ends[Len(seqs)]
  /\ \A k \in 1 .. Len(seqs) :
       /\ ends[k] = ends[k - 1] + Len(seqs[k])
       /\ \A j \in 1 .. Len(seqs[k]) : whole[ends[k - 1] + j] = seqs[k][j]

\* FlattenSeq is a sequence of the elements with its parts in place.
LEMMA FlattenParts ==
  ASSUME NEW S, NEW seqs \in Seq(Seq(S))
  PROVE  FlattenSeq(seqs) \in Seq(S) /\ \E ends : Parts(seqs, FlattenSeq(seqs), ends)
<1> DEFINE n == Len(seqs)
<1>0. n \in Nat /\ \A k \in 1 .. n : seqs[k] \in Seq(S) /\ Len(seqs[k]) \in Nat
  OBVIOUS
<1>1. CASE n = 0
  <2>1. FlattenSeq(seqs) = seqs /\ seqs = <<>>
    BY <1>1 DEF FlattenSeq
  <2> DEFINE ends == [i \in 0 .. 0 |-> 0]
  <2>2. ends \in [0 .. n -> Nat] /\ ends[0] = 0
    BY <1>1
  <2>3. <<>> \in Seq(S) /\ Len(<<>>) = 0
    OBVIOUS
  <2> HIDE DEF ends
  <2> QED
    BY <1>1, <2>1, <2>2, <2>3 DEF Parts
<1>2. CASE n # 0
  <2>1. PICK w : /\ w \in [1 .. n -> Seq(S)]
                 /\ w[1] = seqs[1]
                 /\ \A i \in 2 .. n : w[i] = w[i - 1] \o seqs[i]
    <3> DEFINE D == [i \in 1 .. n |-> i]
               I == [i \in 1 .. n |-> IF i = 1 THEN <<>> ELSE <<i - 1>>]
               B == [i \in 1 .. n |-> [s \in Seq(Seq(S)) |-> IF i = 1 THEN seqs[1] ELSE IF s = <<>> THEN <<>> ELSE s[1] \o seqs[i]]]
               Back(w, i) == Results(w, I[i])
    <3>1. D \in [1 .. n -> Nat] /\ I \in [1 .. n -> Seq(1 .. n)]
      <4>1. ASSUME NEW i \in 1 .. n
            PROVE  i \in Nat /\ (IF i = 1 THEN <<>> ELSE <<i - 1>>) \in Seq(1 .. n)
        <5>1. i \in Nat /\ (i = 1 \/ i - 1 \in 1 .. n)
          BY <1>0
        <5>2. <<>> \in Seq(1 .. n) /\ \A j \in 1 .. n : <<j>> \in Seq(1 .. n)
          <6> HIDE DEF n
          <6> QED OBVIOUS
        <5> HIDE DEF n
        <5> QED
          BY <5>1, <5>2, Zenon
      <4> QED
        BY <4>1
    <3>2. ASSUME NEW i \in 1 .. n, NEW k \in 1 .. Len(I[i])
          PROVE  D[I[i][k]] < D[i]
      <4>1. i # 1 /\ I[i] = <<i - 1>> /\ k = 1
        OBVIOUS
      <4>2. I[i][k] = i - 1 /\ i - 1 \in 1 .. n
        BY <4>1
      <4> HIDE DEF I
      <4> QED
        BY <4>2
    <3>3. ASSUME NEW i \in 1 .. n
          PROVE  B[i] \in [Seq(Seq(S)) -> Seq(S)]
      <4>1. ASSUME NEW s \in Seq(Seq(S)), s # <<>>
            PROVE  s[1] \o seqs[i] \in Seq(S)
        <5>1. s[1] \in Seq(S) /\ seqs[i] \in Seq(S)
          BY <1>0, <4>1
        <5> QED
          BY <5>1, ConcatProperties
      <4>2. seqs[1] \in Seq(S) /\ <<>> \in Seq(S)
        BY <1>0, <1>2
      <4> DEFINE J(a, b) == a \o b
      <4>3. \A s \in Seq(Seq(S)) : (IF i = 1 THEN seqs[1] ELSE IF s = <<>> THEN <<>> ELSE J(s[1], seqs[i])) \in Seq(S)
        <5>1. \A s \in Seq(Seq(S)) : s # <<>> => J(s[1], seqs[i]) \in Seq(S)
          BY <4>1
        <5> HIDE DEF J
        <5> QED BY <4>2, <5>1
      <4>4. B[i] = [s \in Seq(Seq(S)) |-> IF i = 1 THEN seqs[1] ELSE IF s = <<>> THEN <<>> ELSE J(s[1], seqs[i])]
        BY Zenon
      <4> HIDE DEF J, B
      <4> QED
        BY <4>3, <4>4
    <3>4. PICK w \in [1 .. n -> Seq(S)] : Recursive(w, 1 .. n, I, B)
      <4>1. Trees(1 .. n, D, I)
        <5> HIDE DEF D, I, n
        <5> QED BY <3>1, <3>2 DEF Trees
      <4>2. \A i \in 1 .. n : B[i] \in [Seq(Seq(S)) -> Seq(S)]
        BY <3>3, Zenon
      <4> HIDE DEF D, I, B, n
      <4> QED
        BY <4>1, <4>2, TreeRecursion, Zenon
    <3>5. \A i \in 1 .. n : w[i] = B[i][Back(w, i)]
      <4> HIDE DEF B, I, n
      <4> QED BY <3>4, Zenon DEF Recursive
    <3>6. w[1] = seqs[1]
      <4>1. I[1] = <<>> /\ Back(w, 1) = <<>>
        BY <1>0, <1>2 DEF Results
      <4>2. B[1][<<>>] = seqs[1]
        BY <1>0, <1>2
      <4> HIDE DEF B, Back
      <4> QED
        BY <1>0, <1>2, <3>5, <4>1, <4>2
    <3>7. ASSUME NEW i \in 2 .. n
          PROVE  w[i] = w[i - 1] \o seqs[i]
      <4>1. I[i] = <<i - 1>> /\ i - 1 \in 1 .. n /\ i \in 1 .. n
        BY <1>0
      <4>2. Back(w, i) = <<w[i - 1]>>
        BY <4>1 DEF Results
      <4>3. <<w[i - 1]>> \in Seq(Seq(S)) /\ <<w[i - 1]>> # <<>> /\ <<w[i - 1]>>[1] = w[i - 1]
        <5>1. w[i - 1] \in Seq(S)
          <6> HIDE DEF n
          <6> QED BY <3>4, <4>1, Zenon
        <5> DEFINE x == w[i - 1]
        <5> HIDE DEF x, n
        <5>2. <<x>> \in Seq(Seq(S)) /\ <<x>> # <<>> /\ <<x>>[1] = x
          BY <5>1 DEF x
        <5> QED
          BY <5>2, Zenon DEF x
      <4>4. \A s \in Seq(Seq(S)) : s # <<>> => B[i][s] = s[1] \o seqs[i]
        BY <4>1, Zenon
      <4> HIDE DEF Back, B
      <4> QED
        BY <3>5, <4>1, <4>2, <4>3, <4>4, Zenon
    <3> HIDE DEF n
    <3> QED
      BY <3>6, <3>7, Zenon
  <2>2. FlattenSeq(seqs) = w[n] /\ w[n] \in Seq(S)
    <3>1. n \in Nat \ {0} /\ Len(seqs) = n /\ n \in 1 .. n
      BY <1>0, <1>2
    <3>2. ASSUME NEW i \in 1 .. n
          PROVE  w[i] = IF i = 1 THEN seqs[i] ELSE w[i - 1] \o seqs[i]
      <4>1. i = 1 \/ i \in 2 .. n
        OBVIOUS
      <4> HIDE DEF n
      <4> QED
        BY <2>1, <4>1, Zenon
    <3>3. FlattenSeq(seqs) = w[n]
      <4> HIDE DEF n
      <4> QED BY <3>1, <3>2, FlattenIs
    <3> HIDE DEF n
    <3> QED
      BY <2>1, <3>1, <3>3
  <2> DEFINE lens == [k \in 1 .. n |-> Len(seqs[k])]
             ends == [i \in 0 .. n |-> IF i = 0 THEN 0 ELSE Len(w[i])]
  <2>3. ends \in [0 .. n -> Nat] /\ ends[0] = 0 /\ \A k \in 1 .. n : ends[k] = Len(w[k])
    <3>1. \A i \in 0 .. n : (IF i = 0 THEN 0 ELSE Len(w[i])) \in Nat
      BY <2>1
    <3> QED
      BY <1>0, <3>1
  <2>4. lens \in [1 .. n -> Nat] /\ \A k \in 1 .. n : lens[k] = Len(seqs[k])
    BY <1>0
  <2>5. ASSUME NEW m \in 0 .. n - 1
        PROVE  /\ ends[m + 1] = ends[m] + lens[m + 1]
               /\ \A i \in 1 .. ends[m] : w[m + 1][i] = w[m][i]
               /\ \A j \in 1 .. lens[m + 1] : w[m + 1][ends[m] + j] = seqs[m + 1][j]
    <3>1. m + 1 \in 1 .. n /\ (m + 1) - 1 = m
      BY <1>0
    <3>2. CASE m = 0
      <4>1. ends[1] = lens[1] /\ ends[0] = 0 /\ lens[1] = Len(seqs[1]) /\ lens[1] \in Nat
        <5> HIDE DEF ends, lens, n
        <5> QED BY <2>1, <2>3, <2>4, <3>1, <3>2
      <4> HIDE DEF ends, lens, n
      <4> QED
        BY <2>1, <3>2, <4>1
    <3>3. CASE m # 0
      <4>1. m + 1 \in 2 .. n /\ m \in 1 .. n
        BY <3>1, <3>3
      <4>2. w[m + 1] = w[m] \o seqs[m + 1]
        <5> HIDE DEF n
        <5> QED BY <2>1, <3>1, <4>1, Zenon
      <4>3. w[m] \in Seq(S) /\ seqs[m + 1] \in Seq(S)
        <5> HIDE DEF n
        <5> QED BY <1>0, <2>1, <3>1, <4>1
      <4>4. Joined(w[m], seqs[m + 1], w[m + 1])
        <5> HIDE DEF n
        <5> QED BY <4>2, <4>3, Behind, Zenon
      <4>5. ends[m] = Len(w[m]) /\ ends[m + 1] = Len(w[m + 1]) /\ lens[m + 1] = Len(seqs[m + 1])
        <5> HIDE DEF ends, lens, n
        <5> QED BY <2>3, <2>4, <3>1, <4>1, Zenon
      <4> HIDE DEF ends, lens, n
      <4> QED
        BY <4>4, <4>5, Zenon DEF Joined
    <3> QED
      BY <3>2, <3>3
  <2>6. \A k \in 1 .. n : ends[k] = ends[k - 1] + lens[k]
    <3>1. ASSUME NEW k \in 1 .. n
          PROVE  k - 1 \in 0 .. n - 1 /\ (k - 1) + 1 = k
      BY <1>0
    <3> HIDE DEF ends, lens, n
    <3> QED
      BY <2>5, <3>1, Zenon
  <2>7. InPlace(n, ends, lens, w[n], seqs)
    <3>1. \A m \in 0 .. n - 1 : Stays(m, ends, lens, w, seqs)
      <4> HIDE DEF ends, lens, n
      <4> QED BY <2>5, Zenon DEF Stays
    <3> HIDE DEF ends, lens, n
    <3> QED
      BY <1>0, <2>3, <2>4, <2>6, <3>1, PartsStay, Zenon
  <2>8. Len(w[n]) = ends[n]
    <3>1. n \in 1 .. n
      BY <1>0, <1>2
    <3> HIDE DEF ends, n
    <3> QED
      BY <2>3, <3>1, Zenon
  <2>9. Parts(seqs, w[n], ends)
    <3> HIDE DEF ends, lens
    <3> QED
      BY <2>3, <2>4, <2>6, <2>7, <2>8, Zenon DEF Parts, InPlace
  <2> HIDE DEF ends
  <2> QED
    BY <2>2, <2>9
<1> QED
  BY <1>1, <1>2

-----------------------------------------------------------------------------
(* Sequences of anything, and their parts *)

\* A sequence, of whatever elements.
IsSeq(s) == \E S : s \in Seq(S)

\* t is s with another element at m.
IsReplaced(s, m, e, t) ==
  IsSeq(t) /\ Len(t) = Len(s) /\ \A i \in 1 .. Len(s) : t[i] = IF i = m THEN e ELSE s[i]

\* EXCEPT gives that.
LEMMA Replaced ==
  ASSUME NEW s, IsSeq(s), NEW m \in 1 .. Len(s), NEW e
  PROVE  IsReplaced(s, m, e, [s EXCEPT ![m] = e])
<1>1. PICK S : s \in Seq(S)
  BY DEF IsSeq
<1> DEFINE T == S \cup {e}
<1>2. s \in Seq(T) /\ e \in T
  BY <1>1
<1> HIDE DEF T
<1>3. [s EXCEPT ![m] = e] \in Seq(T)
  BY <1>2
<1> QED
  BY <1>2, <1>3 DEF IsSeq, IsReplaced

\* t is s with one element more.
IsPushed(s, e, t) ==
  /\ IsSeq(t) /\ Len(t) = Len(s) + 1
  /\ \A i \in 1 .. Len(s) : t[i] = s[i]
  /\ t[Len(s) + 1] = e

\* Append gives that.
LEMMA Pushed ==
  ASSUME NEW s, IsSeq(s), NEW e
  PROVE  IsPushed(s, e, Append(s, e))
<1>1. PICK S : s \in Seq(S)
  BY DEF IsSeq
<1> DEFINE T == S \cup {e}
<1>2. s \in Seq(T) /\ e \in T
  BY <1>1
<1> HIDE DEF T
<1> QED
  BY <1>2 DEF IsSeq, IsPushed

\* t is s without its last element.
IsPopped(s, t) ==
  IsSeq(t) /\ Len(t) = Len(s) - 1 /\ \A i \in 1 .. Len(t) : t[i] = s[i]

\* Front gives that.
LEMMA Popped ==
  ASSUME NEW s, IsSeq(s), s # <<>>
  PROVE  IsPopped(s, Front(s))
<1>1. PICK S : s \in Seq(S)
  BY DEF IsSeq
<1>2. Len(s) \in Nat \ {0}
  BY <1>1
<1>3. Front(s) \in Seq(S) /\ Len(Front(s)) = Len(s) - 1 /\ \A i \in 1 .. Len(s) - 1 : Front(s)[i] = s[i]
  <2> DEFINE n == Len(s) - 1
  <2>1. n \in Nat /\ \A i \in 1 .. n : s[i] \in S
    BY <1>1, <1>2
  <2>2. Front(s) = SubSeq(s, 1, n)
    BY DEF Front
  <2> HIDE DEF n
  <2>3. SubSeq(s, 1, n) \in Seq(S) /\ Len(SubSeq(s, 1, n)) = n /\ \A i \in 1 .. n : SubSeq(s, 1, n)[i] = s[i]
    BY <2>1
  <2> QED
    BY <2>2, <2>3 DEF n
<1> QED
  BY <1>3 DEF IsSeq, IsPopped

\* Sequences have a length, and only the empty one has none.
LEMMA SeqLen ==
  ASSUME NEW s, IsSeq(s)
  PROVE  Len(s) \in Nat /\ (s = <<>> <=> Len(s) = 0)
BY DEF IsSeq

\* A part that is one element long.
LEMMA OneChar ==
  ASSUME NEW S, NEW text \in Seq(S), NEW k \in 1 .. Len(text)
  PROVE  SubSeq(text, k, k) = <<text[k]>>
<1> DEFINE t == SubSeq(text, k, k)
<1>1. t \in Seq(S) /\ Len(t) = 1 /\ t[1] = text[k]
  BY SMTT(30)
<1> HIDE DEF t
<1>2. t = <<text[k]>>
  BY <1>1
<1> QED
  BY <1>2 DEF t

\* A part of a text, from what its characters are.
LEMMA PartIs ==
  ASSUME NEW S, NEW text \in Seq(S), NEW s \in Seq(S), NEW a \in Nat, a + Len(s) <= Len(text),
         \A j \in 1 .. Len(s) : text[a + j] = s[j]
  PROVE  SubSeq(text, a + 1, a + Len(s)) = s
<1> DEFINE n == Len(s)
           t == SubSeq(text, a + 1, a + n)
<1>1. n \in Nat /\ Len(text) \in Nat
  OBVIOUS
<1> HIDE DEF n
<1>2. t \in Seq(S) /\ Len(t) = n /\ \A j \in 1 .. n : t[j] = text[a + j]
  BY <1>1, SMTT(30) DEF n
<1> HIDE DEF t
<1>3. \A j \in 1 .. Len(t) : t[j] = s[j]
  BY <1>2 DEF n
<1>4. Len(t) = Len(s)
  BY <1>2 DEF n
<1> QED
  BY <1>2, <1>3, <1>4, SeqEqual, Zenon DEF t, n

\* The part of length part, behind a elements of a whole that is behind o others, lies
\* before the end.
Fits(o, whole, a, part, end) ==
  /\ o + a \in Nat /\ (o + a) + part <= end
  /\ \A j \in 1 .. part : a + j \in 1 .. whole /\ o + (a + j) = (o + a) + j

\* A part of a part is a part.
LEMMA Nested ==
  ASSUME NEW o \in Nat, NEW whole \in Nat, NEW a \in Nat, NEW part \in Nat, NEW end \in Nat,
         o + whole <= end, a + part <= whole
  PROVE  Fits(o, whole, a, part, end)
BY DEF Fits

\* The high and the low byte of a number make the number.
LEMMA Bytewise ==
  ASSUME NEW n \in Nat
  PROVE  (n \div 256) * 256 + (n % 256) = n
OBVIOUS

-----------------------------------------------------------------------------
(* Division *)

\* Facts about division that the provers know but do not find among others.
LEMMA Division ==
  ASSUME NEW a \in Nat, NEW d \in Nat \ {0}
  PROVE  /\ a \div d \in Nat
         /\ (a \div d) * d <= a
         /\ a < (a \div d) * d + d
  OBVIOUS

\* A multiple of d, divided by it.
LEMMA Multiple ==
  ASSUME NEW q \in Nat, NEW d \in Nat \ {0}
  PROVE  (q * d) \div d = q
  OBVIOUS
=============================================================================
