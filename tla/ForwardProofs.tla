---------------------------- MODULE ForwardProofs ----------------------------
(***************************************************************************)
(* The passes of Forward, for every pool, number of layers and heads, set  *)
(* of sequences and model: layer by layer they do what PagedKV says of a   *)
(* pass, and every sequence is answered as if it were alone.               *)
(***************************************************************************)
EXTENDS Forward, BlocksProofs, WellFoundedInduction

KVP == INSTANCE PagedKVProofs WITH
        Prompts <- {Prompt[r] : r \in Owner},
        kv <- Contents

-----------------------------------------------------------------------------
(* Numbers, one after the other. *)

\* A function on a..b that has values in S, starts with c and goes on as G says.
Recurs(f, S, c, a, b, G) ==
    /\ f \in [a..b -> S]
    /\ f[a] = c
    /\ \A n \in a..b : n # a => f[n] = G[<<f[n - 1], n>>]

\* A function may be defined by its first value and how one value follows from
\* the one before it.
LEMMA Recursion ==
  ASSUME NEW S, NEW c \in S, NEW a \in Nat, NEW b \in Nat, a <= b,
         NEW G \in [S \X Nat -> S]
  PROVE  \E f : Recurs(f, S, c, a, b, G)
<1> DEFINE Solves(f, m) ==
             f[a] = c /\ \A n \in a..m : n # a => f[n] = G[<<f[n - 1], n>>]
           P == {m \in Nat : a <= m => \E f \in [a..m -> S] : Solves(f, m)}
<1>1. a \in P
  <2>1. [i \in a..a |-> c] \in [a..a -> S] /\ Solves([i \in a..a |-> c], a)
    OBVIOUS
  <2> QED BY <2>1
<1>2. ASSUME NEW m \in Nat, a <= m, m \in P PROVE m + 1 \in P
  <2>1. PICK f \in [a..m -> S] : Solves(f, m)
    BY <1>2
  <2> DEFINE g == [i \in a..(m + 1) |-> IF i = m + 1 THEN G[<<f[m], m + 1>>] ELSE f[i]]
  <2>2. f[m] \in S /\ G[<<f[m], m + 1>>] \in S
    BY <1>2
  <2>3. g \in [a..(m + 1) -> S]
    BY <1>2, <2>2
  <2>4. g[a] = c
    BY <1>2, <2>1
  <2>5. ASSUME NEW n \in a..(m + 1), n # a PROVE g[n] = G[<<g[n - 1], n>>]
    <3>1. CASE n = m + 1
      <4>1. n - 1 = m /\ m \in a..(m + 1) /\ m # m + 1
        BY <1>2, <2>5, <3>1
      <4>2. g[n - 1] = f[m] /\ g[n] = G[<<f[m], m + 1>>]
        BY <4>1, <3>1
      <4> QED BY <3>1, <4>2
    <3>2. CASE n # m + 1
      <4>1. n \in a..m /\ n - 1 \in a..m /\ n - 1 # m + 1
        BY <1>2, <2>5, <3>2
      <4>2. g[n] = f[n] /\ g[n - 1] = f[n - 1]
        BY <4>1, <3>2
      <4> QED BY <2>1, <2>5, <4>1, <4>2
    <3> QED BY <3>1, <3>2
  <2> HIDE DEF g
  <2>6. Solves(g, m + 1)
    BY <2>4, <2>5
  <2> QED BY <1>2, <2>3, <2>6
<1>3. b \in P
  <2>1. P \in SUBSET Nat
    OBVIOUS
  <2> HIDE DEF P
  <2> QED BY <1>1, <1>2, <2>1, Inductive
<1> QED BY <1>3 DEF Recurs

\* The numbers from one on are counted by the last.
LEMMA UpTo ==
  ASSUME NEW n \in Nat
  PROVE  IsFiniteSet(1..n) /\ Cardinality(1..n) = n
<1>1. 1 \in Int /\ n \in Int
  OBVIOUS
<1>2. IsFiniteSet(1..n) /\ Cardinality(1..n) = IF 1 > n THEN 0 ELSE n - 1 + 1
  BY <1>1, FS_Interval
<1> QED BY <1>2

-----------------------------------------------------------------------------
(* The sampler gives tokens of the vocabulary. *)

\* The mass of a set of tokens is a sum over the vocabulary.
LEMMA MassType ==
  ASSUME NEW w \in Seq(Nat), NEW S
  PROVE  Mass(w, S) \in Nat
<1> DEFINE L == Len(w)
           term(n) == IF n \in S THEN w[n] ELSE 0
           G == [x \in Nat \X Nat |->
                   x[1] + (IF x[2] \in 1..L THEN term(x[2]) ELSE 0)]
           Sum(f) == f = [n \in 0..L |-> IF n = 0 THEN 0 ELSE f[n - 1] + term(n)]
<1>1. L \in Nat /\ \A n \in 1..L : term(n) \in Nat
  OBVIOUS
<1>2. \E f : Recurs(f, Nat, 0, 0, L, G)
  <2>1. G \in [Nat \X Nat -> Nat]
    BY <1>1
  <2>2. 0 \in Nat /\ L \in Nat /\ 0 <= L
    BY <1>1
  <2> HIDE DEF G, L
  <2> QED BY <2>1, <2>2, Recursion
<1>3. PICK f \in [0..L -> Nat] : f[0] = 0 /\ \A n \in 1..L : f[n] = f[n - 1] + term(n)
  <2>1. PICK f : Recurs(f, Nat, 0, 0, L, G)
    BY <1>2
  <2> USE DEF Recurs
  <2>2. ASSUME NEW n \in 1..L PROVE f[n] = f[n - 1] + term(n)
    <3>1. n \in 0..L /\ n # 0 /\ n - 1 \in 0..L /\ n \in Nat
      BY <1>1
    <3>2. <<f[n - 1], n>> \in Nat \X Nat
      BY <2>1, <3>1
    <3>3. G[<<f[n - 1], n>>] = f[n - 1] + term(n)
      BY <3>2
    <3> QED BY <2>1, <3>1, <3>3
  <2> QED BY <2>1, <2>2
<1>4. Sum(f)
  <2> HIDE DEF term
  <2> QED BY <1>1, <1>3
<1>5. ASSUME NEW g, Sum(g) PROVE g[L] \in Nat
  <2> DEFINE P == {n \in Nat : n <= L => g[n] \in Nat}
  <2>1. 0 \in P
    BY <1>1, <1>5
  <2>2. ASSUME NEW n \in Nat, 0 <= n, n \in P PROVE n + 1 \in P
    <3> SUFFICES ASSUME n + 1 <= L PROVE g[n + 1] \in Nat
      OBVIOUS
    <3>1. n \in 0..L /\ n + 1 \in 0..L /\ n + 1 # 0 /\ (n + 1) - 1 = n /\ n + 1 \in 1..L
      BY <1>1
    <3>2. g[n] \in Nat
      BY <1>1, <2>2, <3>1
    <3> HIDE DEF term, P
    <3>3. g[n + 1] = g[n] + term(n + 1)
      BY <1>5, <3>1
    <3> QED BY <1>1, <3>1, <3>2, <3>3
  <2>3. P \in SUBSET Nat /\ 0 \in Nat /\ L \in Nat /\ 0 <= L
    BY <1>1
  <2> HIDE DEF P
  <2>4. L \in P
    BY <2>1, <2>2, <2>3, Inductive
  <2> QED BY <1>1, <2>4, SMTT(40) DEF P
<1> DEFINE sum == CHOOSE g : Sum(g)
<1>6. Sum(sum)
  <2> HIDE DEF Sum
  <2> QED BY <1>4
<1>7. Mass(w, S) = sum[L]
  BY DEF Mass
<1> QED BY <1>5, <1>6, <1>7

\* Of some tokens one is the heaviest.
LEMMA HeaviestOf ==
  ASSUME NEW w \in Seq(Nat), NEW U \in SUBSET (1..Len(w)), U # {}
  PROVE  \E t \in U : \A u \in U : w[u] <= w[t]
<1> DEFINE Best(t, m) == t \in U /\ \A u \in U : u <= m => w[u] <= w[t]
           P == {m \in Nat : (\E u \in U : u <= m) => \E t \in 1..Len(w) : Best(t, m)}
<1>1. \A u \in U : u \in Nat /\ u > 0 /\ u <= Len(w) /\ w[u] \in Nat
  OBVIOUS
<1>2. 0 \in P
  BY <1>1
<1>3. ASSUME NEW m \in Nat, 0 <= m, m \in P PROVE m + 1 \in P
  <2> SUFFICES ASSUME \E u \in U : u <= m + 1 PROVE \E t \in 1..Len(w) : Best(t, m + 1)
    OBVIOUS
  <2>1. CASE \E u \in U : u <= m
    <3>1. PICK t \in 1..Len(w) : Best(t, m)
      BY <1>3, <2>1
    <3>a. ASSUME NEW u \in U, u <= m + 1 PROVE u <= m \/ u = m + 1
      <4>1. u \in Nat /\ m \in Nat
        BY <1>1, <1>3
      <4> QED BY <3>a, <4>1
    <3>b. w[t] \in Nat /\ \A u \in U : w[u] \in Nat
      BY <1>1
    <3>2. CASE m + 1 \in U /\ w[m + 1] > w[t]
      <4>1. Best(m + 1, m + 1)
        BY <3>1, <3>2, <3>a, <3>b, SMTT(60)
      <4> QED BY <3>2, <4>1
    <3>3. CASE ~ (m + 1 \in U /\ w[m + 1] > w[t])
      <4>1. Best(t, m + 1)
        BY <3>1, <3>3, <3>a, <3>b
      <4> QED BY <4>1
    <3> QED BY <3>2, <3>3
  <2>2. CASE ~ \E u \in U : u <= m
    BY <1>1, <2>2, SMTT(60)
  <2> QED BY <2>1, <2>2
<1>4. Len(w) \in P
  <2>1. P \in SUBSET Nat /\ Len(w) \in Nat
    OBVIOUS
  <2> HIDE DEF P
  <2> QED BY <1>2, <1>3, <2>1, Inductive, SMTT(60)
<1> QED BY <1>1, <1>4

\* argmax gives a token.
LEMMA ArgMaxInVocabulary ==
  ASSUME NEW w \in Seq(Nat), Len(w) > 0
  PROVE  ArgMax(w) \in Vocabulary(w)
<1> DEFINE Best == {t \in 1..Len(w) : \A u \in 1..Len(w) : w[u] <= w[t]}
<1>1. Best # {} /\ Best \in SUBSET Nat
  <2>0. Len(w) \in Nat /\ 1 \in 1..Len(w)
    OBVIOUS
  <2>1. 1..Len(w) # {} /\ 1..Len(w) \in SUBSET (1..Len(w))
    BY <2>0
  <2>2. \E t \in 1..Len(w) : \A u \in 1..Len(w) : w[u] <= w[t]
    BY <2>1, HeaviestOf
  <2> QED BY <2>2
<1>2. PICK t \in Best : \A u \in Best : t <= u
  <2> HIDE DEF Best
  <2> QED BY <1>1, Least
<1>3. \A u \in 1..Len(w) : w[u] <= w[t] /\ (u < t => w[u] < w[t])
  <2> SUFFICES ASSUME NEW u \in 1..Len(w), u < t PROVE w[u] < w[t]
    BY <1>2
  <2>1. u \notin Best /\ w[u] \in Nat /\ w[t] \in Nat
    BY <1>2
  <2>2. PICK v \in 1..Len(w) : ~ (w[v] <= w[u])
    BY <2>1
  <2>3. w[v] <= w[t] /\ w[v] \in Nat
    BY <1>2
  <2> QED BY <2>1, <2>2, <2>3
<1> QED BY <1>2, <1>3 DEF ArgMax, Vocabulary

\* There are k tokens heavier than the others.
LEMMA HeaviestExist ==
  ASSUME NEW w \in Seq(Nat), NEW k \in Nat, k <= Len(w)
  PROVE  \E H \in SUBSET (1..Len(w)) :
            /\ Cardinality(H) = k
            /\ \A t \in H, u \in (1..Len(w)) \ H : w[t] >= w[u]
<1> DEFINE All == 1..Len(w)
           Heavy(H, j) == /\ Cardinality(H) = j
                          /\ \A t \in H, u \in All \ H : w[t] >= w[u]
           P == {j \in Nat : j <= Len(w) => \E H \in SUBSET All : Heavy(H, j)}
<1>1. Len(w) \in Nat /\ \A t \in All : w[t] \in Nat
  OBVIOUS
<1>2. IsFiniteSet(All) /\ Cardinality(All) = Len(w)
  BY <1>1, UpTo
<1>3. 0 \in P
  <2>1. Heavy({}, 0)
    BY FS_EmptySet
  <2> QED BY <2>1
<1>4. ASSUME NEW j \in Nat, 0 <= j, j \in P PROVE j + 1 \in P
  <2> SUFFICES ASSUME j + 1 <= Len(w) PROVE \E H \in SUBSET All : Heavy(H, j + 1)
    OBVIOUS
  <2>1. PICK H \in SUBSET All : Heavy(H, j)
    BY <1>1, <1>4
  <2>2. IsFiniteSet(H)
    BY <1>2, FS_Subset
  <2>3. All \ H # {}
    <3>1. H # All
      BY <1>1, <1>2, <2>1
    <3> QED BY <3>1
  <2>4. PICK t \in All \ H : \A u \in All \ H : w[u] <= w[t]
    <3>1. All \ H \in SUBSET (1..Len(w))
      OBVIOUS
    <3> QED BY <2>3, <3>1, HeaviestOf
  <2>5. Cardinality(H \cup {t}) = j + 1
    BY <2>1, <2>2, <2>4, FS_AddElement
  <2>6. ASSUME NEW v \in H \cup {t}, NEW u \in All \ (H \cup {t}) PROVE w[v] >= w[u]
    <3>1. w[v] \in Nat /\ w[u] \in Nat
      BY <1>1, <2>1, <2>4
    <3> QED BY <2>1, <2>4, <3>1
  <2> QED BY <2>4, <2>5, <2>6
<1>5. k \in P
  <2>1. P \in SUBSET Nat /\ 0 \in Nat /\ 0 <= k
    OBVIOUS
  <2> HIDE DEF P
  <2> QED BY <1>3, <1>4, <2>1, Inductive
<1> QED BY <1>5

\* top_k leaves some tokens of the vocabulary.
LEMMA HeaviestType ==
  ASSUME NEW w \in Seq(Nat), Len(w) > 0, NEW k \in Nat
  PROVE  /\ Heaviest(w, k) \in SUBSET Vocabulary(w)
         /\ IsFiniteSet(Heaviest(w, k))
         /\ Cardinality(Heaviest(w, k)) \in Nat \ {0}
<1>1. /\ Len(w) \in Nat /\ Vocabulary(w) = 1..Len(w)
      /\ IsFiniteSet(1..Len(w)) /\ Cardinality(1..Len(w)) = Len(w)
  <2>1. Len(w) \in Nat
    OBVIOUS
  <2> QED BY <2>1, UpTo DEF Vocabulary
<1>2. CASE k = 0 \/ k >= Len(w)
  BY <1>1, <1>2 DEF Heaviest
<1>3. CASE ~ (k = 0 \/ k >= Len(w))
  <2> DEFINE Heavy(H) == /\ Cardinality(H) = k
                         /\ \A t \in H, u \in Vocabulary(w) \ H : w[t] >= w[u]
  <2>1. \E H \in SUBSET Vocabulary(w) : Heavy(H)
    <3>1. k <= Len(w)
      BY <1>1, <1>3
    <3>2. PICK H \in SUBSET (1..Len(w)) :
            /\ Cardinality(H) = k
            /\ \A t \in H, u \in (1..Len(w)) \ H : w[t] >= w[u]
      BY <3>1, HeaviestExist
    <3> QED BY <1>1, <3>2
  <2>2. Heaviest(w, k) = CHOOSE H \in SUBSET Vocabulary(w) : Heavy(H)
    BY <1>3 DEF Heaviest
  <2> HIDE DEF Heavy
  <2>3. Heaviest(w, k) \in SUBSET Vocabulary(w) /\ Heavy(Heaviest(w, k))
    BY <2>1, <2>2
  <2>4. Cardinality(Heaviest(w, k)) = k
    BY <2>3 DEF Heavy
  <2> QED BY <1>1, <1>3, <2>3, <2>4, FS_Subset
<1> QED BY <1>2, <1>3

\* Tokens can be put in falling order.
LEMMA SortedExists ==
  ASSUME NEW w \in Seq(Nat), NEW C \in SUBSET (1..Len(w)), IsFiniteSet(C),
         NEW k \in Nat, k <= Cardinality(C)
  PROVE  \E order \in [1..k -> C] : \A i, j \in 1..k :
            i < j => order[i] # order[j] /\ w[order[i]] >= w[order[j]]
<1> DEFINE Falls(f, m) == \A i, j \in 1..m : i < j => f[i] # f[j] /\ w[f[i]] >= w[f[j]]
           Ahead(f, m) == \A i \in 1..m, u \in C \ {f[j] : j \in 1..m} : w[f[i]] >= w[u]
           P == {m \in Nat : m <= Cardinality(C) =>
                    \E f \in [1..m -> C] : Falls(f, m) /\ Ahead(f, m)}
<1>1. Cardinality(C) \in Nat /\ \A t \in C : t \in 1..Len(w) /\ w[t] \in Nat
  BY FS_CardinalityType
<1>2. 0 \in P
  <2>1. PICK f : f = [i \in 1..0 |-> i]
    OBVIOUS
  <2>2. f \in [1..0 -> C] /\ Falls(f, 0) /\ Ahead(f, 0)
    BY <2>1
  <2> QED BY <2>2
<1>3. ASSUME NEW m \in Nat, 0 <= m, m \in P PROVE m + 1 \in P
  <2> SUFFICES ASSUME m + 1 <= Cardinality(C)
               PROVE  \E f \in [1..(m + 1) -> C] : Falls(f, m + 1) /\ Ahead(f, m + 1)
    BY SMTT(60)
  <2>1. PICK f \in [1..m -> C] : Falls(f, m) /\ Ahead(f, m)
    <3>1. m <= Cardinality(C)
      BY <1>1
    <3>2. m \in P
      BY <1>3
    <3> HIDE DEF Falls, Ahead
    <3> QED BY <3>1, <3>2
  <2> DEFINE R == {f[j] : j \in 1..m}
  <2>2. C \ R # {} /\ R \subseteq C
    <3>1. R \subseteq C
      BY <2>1
    <3>2. CASE R = C
      <4>1. f \in Surjection(1..m, C)
        BY <2>1, <3>2 DEF Surjection, Range
      <4>2. Cardinality(C) <= Cardinality(1..m) /\ Cardinality(1..m) = m
        BY <4>1, FS_Surjection, UpTo
      <4> QED BY <1>1, <4>2
    <3> QED BY <3>1, <3>2
  <2>3. PICK t \in C \ R : \A u \in C \ R : w[u] <= w[t]
    <3>1. C \ R \in SUBSET (1..Len(w))
      OBVIOUS
    <3> HIDE DEF R
    <3> QED BY <2>2, <3>1, HeaviestOf
  <2> DEFINE g == [i \in 1..(m + 1) |-> IF i = m + 1 THEN t ELSE f[i]]
  <2>4. /\ g \in [1..(m + 1) -> C] /\ g[m + 1] = t
        /\ \A i \in 1..m : g[i] = f[i] /\ f[i] \in R /\ f[i] \in C
    <3>1. t \in C /\ \A i \in 1..m : f[i] \in C /\ f[i] \in R
      BY <2>3
    <3>2. m + 1 \in 1..(m + 1) /\ \A i \in 1..(m + 1) : i \in 1..m \/ i = m + 1
      BY <1>3
    <3>3. \A i \in 1..m : i \in 1..(m + 1) /\ i # m + 1
      BY <1>3
    <3> HIDE DEF R
    <3> QED BY <3>1, <3>2, <3>3
  <2>5. \A i \in 1..(m + 1) : i \in 1..m \/ i = m + 1
    BY <1>3
  <2> HIDE DEF g
  <2>6. \A i \in 1..m : f[i] # t /\ w[f[i]] >= w[t]
    BY <2>1, <2>3, <2>4
  <2>7. Falls(g, m + 1)
    <3> SUFFICES ASSUME NEW i \in 1..(m + 1), NEW j \in 1..(m + 1), i < j
                 PROVE  g[i] # g[j] /\ w[g[i]] >= w[g[j]]
      OBVIOUS
    <3>1. i \in 1..m
      BY <1>3, <2>5
    <3>2. CASE j \in 1..m
      BY <2>1, <2>4, <3>1, <3>2
    <3>3. CASE j = m + 1
      BY <2>4, <2>6, <3>1, <3>3
    <3> QED BY <2>5, <3>2, <3>3
  <2>8. Ahead(g, m + 1)
    <3> SUFFICES ASSUME NEW i \in 1..(m + 1), NEW u \in C \ {g[j] : j \in 1..(m + 1)}
                 PROVE  w[g[i]] >= w[u]
      OBVIOUS
    <3>1. u \in C \ R /\ u # t
      <4>1. \A j \in 1..m : j \in 1..(m + 1)
        BY <1>3
      <4>2. m + 1 \in 1..(m + 1)
        BY <1>3
      <4> QED BY <2>4, <4>1, <4>2
    <3>2. w[u] \in Nat /\ w[t] \in Nat /\ w[u] <= w[t]
      BY <1>1, <2>3, <3>1
    <3>3. CASE i \in 1..m
      BY <2>1, <2>4, <3>1, <3>3
    <3>4. CASE i = m + 1
      BY <2>4, <3>2, <3>4
    <3> QED BY <2>5, <3>3, <3>4
  <2> QED BY <2>4, <2>7, <2>8
<1>4. k \in P
  <2>1. P \in SUBSET Nat
    OBVIOUS
  <2> HIDE DEF P
  <2> QED BY <1>2, <1>3, <2>1, Inductive
<1> QED BY <1>4

\* The sort gives a sequence of the candidates.
LEMMA SortedType ==
  ASSUME NEW w \in Seq(Nat), NEW C \in SUBSET (1..Len(w)), IsFiniteSet(C)
  PROVE  Sorted(w, C) \in [1..Cardinality(C) -> C]
<1> DEFINE Falls(f) == \A i, j \in 1..Cardinality(C) :
             i < j => f[i] # f[j] /\ w[f[i]] >= w[f[j]]
<1>1. Cardinality(C) \in Nat
  BY FS_CardinalityType
<1>2. \E f \in [1..Cardinality(C) -> C] : Falls(f)
  <2>1. Cardinality(C) <= Cardinality(C)
    BY <1>1
  <2>2. \E f \in [1..Cardinality(C) -> C] : \A i, j \in 1..Cardinality(C) :
            i < j => f[i] # f[j] /\ w[f[i]] >= w[f[j]]
    BY <1>1, <2>1, SortedExists
  <2> QED BY <2>2
<1>3. Sorted(w, C) = CHOOSE f \in [1..Cardinality(C) -> C] : Falls(f)
  BY DEF Sorted
<1> HIDE DEF Falls
<1> QED BY <1>2, <1>3

\* A number times a smaller one is at most the number times a larger one.
LEMMA TimesMono ==
  ASSUME NEW a \in Nat, NEW b \in Nat, NEW c \in Nat, a <= b
  PROVE  a * c \in Nat /\ b * c \in Nat /\ a * c <= b * c
<1>1. (b - a) \in Nat
  OBVIOUS
<1>2. (b - a) * c \in Nat
  BY <1>1
<1>3. a * c \in Nat /\ b * c \in Nat
  OBVIOUS
<1>4. (b - a) * c = b * c - a * c
  OBVIOUS
<1> QED BY <1>2, <1>3, <1>4

\* A search over 1..m that its last number answers has a first answer.
LEMMA FirstOf ==
  ASSUME NEW m \in Nat, NEW P, P \in SUBSET (1..m), m \in P
  PROVE  \E i \in 1..m : i \in P /\ \A j \in 1..(i - 1) : j \in 1..m /\ j \notin P
<1>1. P \in SUBSET Nat /\ P # {}
  OBVIOUS
<1>2. PICK i \in P : \A j \in P : i <= j
  BY <1>1, Least
<1>3. i \in 1..m /\ \A j \in 1..(i - 1) : j \in 1..m /\ ~ (i <= j)
  BY <1>1
<1> QED BY <1>2, <1>3

\* What top_p keeps of the candidates is at least one of them.
LEMMA KeptInOrder ==
  ASSUME NEW w \in Seq(Nat), NEW order, Len(order) \in Nat \ {0}, NEW p \in 1..100
  PROVE  Kept(w, order, p) \in 1..Len(order)
<1> DEFINE n == Len(order)
           total == Running(w, order, n)
           Reached == {i \in 1..n : Running(w, order, i) * 100 >= p * total}
           First(keep) == /\ Running(w, order, keep) * 100 >= p * total
                          /\ \A i \in 1..(keep - 1) : Running(w, order, i) * 100 < p * total
<1>1. \A i : Running(w, order, i) \in Nat
  BY MassType DEF Running
<1>2. n \in Reached
  <2>1. n \in 1..n
    OBVIOUS
  <2>2. p * total <= 100 * total
    BY <1>1, TimesMono, SMTT(60)
  <2>3. total * 100 >= p * total
    BY <1>1, <2>2
  <2> QED BY <2>1, <2>3
<1>3. PICK keep \in 1..n : keep \in Reached /\ \A i \in 1..(keep - 1) : i \in 1..n /\ i \notin Reached
  <2>1. n \in Nat /\ Reached \in SUBSET (1..n)
    OBVIOUS
  <2> HIDE DEF Reached, n
  <2> QED BY <1>2, <2>1, FirstOf
<1>4. First(keep)
  <2>1. ASSUME NEW i \in 1..(keep - 1) PROVE Running(w, order, i) * 100 < p * total
    <3>1. ~ (Running(w, order, i) * 100 >= p * total)
      BY <1>3
    <3>2. Running(w, order, i) * 100 \in Int /\ p * total \in Int
      BY <1>1
    <3> QED BY <3>1, <3>2
  <2> QED BY <1>3, <2>1
<1>5. Kept(w, order, p) = CHOOSE k \in 1..n : First(k)
  BY DEF Kept
<1> HIDE DEF First, n
<1> QED BY <1>4, <1>5 DEF n

\* A draw falls on one of the candidates.
LEMMA DrawnInOrder ==
  ASSUME NEW w \in Seq(Nat), NEW order, Len(order) \in Nat \ {0}, NEW draw \in 0..(Draws - 1)
  PROVE  \E i \in 1..Len(order) : Drawn(w, order, draw) = order[i]
<1> DEFINE n == Len(order)
           point == draw * Running(w, order, n)
           Passed == {i \in 1..n : Running(w, order, i) * Draws >= point}
           First(i) == /\ Running(w, order, i) * Draws >= point
                       /\ \A j \in 1..(i - 1) : Running(w, order, j) * Draws < point
<1>1. /\ Draws \in Nat /\ draw \in Nat /\ draw <= Draws
      /\ \A i : Running(w, order, i) \in Nat
  BY MassType, SamplerAssumption DEF Running
<1>2. n \in Passed
  <2>1. n \in 1..n
    OBVIOUS
  <2>2. point <= Draws * Running(w, order, n)
    BY <1>1, TimesMono
  <2>3. Running(w, order, n) * Draws >= point
    BY <1>1, <2>2
  <2> QED BY <2>1, <2>3
<1>3. PICK i \in 1..n : i \in Passed /\ \A j \in 1..(i - 1) : j \in 1..n /\ j \notin Passed
  <2>1. n \in Nat /\ Passed \in SUBSET (1..n)
    OBVIOUS
  <2> HIDE DEF Passed, n
  <2> QED BY <1>2, <2>1, FirstOf
<1>4. First(i)
  <2>1. ASSUME NEW j \in 1..(i - 1) PROVE Running(w, order, j) * Draws < point
    <3>1. ~ (Running(w, order, j) * Draws >= point)
      BY <1>3
    <3>2. Running(w, order, j) * Draws \in Int /\ point \in Int
      BY <1>1
    <3> QED BY <3>1, <3>2
  <2> QED BY <1>3, <2>1
<1>5. Drawn(w, order, draw) = order[CHOOSE j \in 1..n : First(j)]
  BY DEF Drawn
<1> HIDE DEF First, n
<1> QED BY <1>4, <1>5 DEF n

\* The candidates of a draw are tokens of the vocabulary, at least one.
LEMMA CandidateType ==
  ASSUME NEW w \in Seq(Nat), Len(w) > 0, NEW s \in Sampling
  PROVE  /\ Candidate(w, s) \in Seq(Vocabulary(w))
         /\ Len(Candidate(w, s)) \in Nat \ {0}
<1> DEFINE H == Heaviest(w, s.top_k)
           order == Sorted(w, H)
<1>1. s.top_k \in Nat /\ s.top_p \in 1..100
  BY DEF Sampling
<1>2. /\ H \in SUBSET Vocabulary(w) /\ IsFiniteSet(H)
      /\ Cardinality(H) \in Nat \ {0}
  BY <1>1, HeaviestType
<1> HIDE DEF H
<1>3. order \in [1..Cardinality(H) -> H]
  BY <1>2, SortedType DEF Vocabulary
<1> HIDE DEF order
<1>4. order \in Seq(Vocabulary(w)) /\ Len(order) \in Nat \ {0}
  BY <1>2, <1>3
<1>5. Candidate(w, s) = IF s.top_p = 100 THEN order ELSE SubSeq(order, 1, Kept(w, order, s.top_p))
  BY DEF Candidate, order, H
<1>6. Kept(w, order, s.top_p) \in 1..Len(order)
  BY <1>1, <1>4, KeptInOrder
<1>7. /\ SubSeq(order, 1, Kept(w, order, s.top_p)) \in Seq(Vocabulary(w))
      /\ Len(SubSeq(order, 1, Kept(w, order, s.top_p))) \in Nat \ {0}
  BY <1>4, <1>6
<1> QED BY <1>4, <1>5, <1>7

\* Whatever the weights and the settings, and whatever number is drawn, the
\* answer goes on with a token of the vocabulary: top_k and top_p leave a
\* candidate, and the walk over them stops at one (sampler.rs sample, argmax).
THEOREM DrawInVocabulary ==
  ASSUME NEW w \in Seq(Nat), Len(w) > 0, NEW s \in Sampling, NEW draw \in 0..(Draws - 1)
  PROVE  Draw(w, s, draw) \in Vocabulary(w)
<1>1. CASE s.greedy
  BY <1>1, ArgMaxInVocabulary DEF Draw
<1>2. CASE ~ s.greedy
  <2> DEFINE order == Candidate(w, s)
  <2>1. order \in Seq(Vocabulary(w)) /\ Len(order) \in Nat \ {0}
    BY CandidateType
  <2>2. Draw(w, s, draw) = Drawn(w, order, draw)
    BY <1>2 DEF Draw
  <2> HIDE DEF order
  <2>3. PICK i \in 1..Len(order) : Drawn(w, order, draw) = order[i]
    BY <2>1, DrawnInOrder
  <2> QED BY <2>1, <2>2, <2>3
<1> QED BY <1>1, <1>2

-----------------------------------------------------------------------------
(* PagedKV under the mapping.  KV, the instance a run checks, and KVP, the *)
(* one with the proofs, are the same specification.                        *)

\* The mapped constants satisfy what PagedKV assumes of its own.
LEMMA MappedAssumptions == KVP!BlocksAssumption /\ KVP!OwnerAssumption
<1>1. \A S : IsFiniteSet(S) <=> KVP!IsFiniteSet(S)
  BY DEF IsFiniteSet, KVP!IsFiniteSet
<1>2. {Prompt[r] : r \in Owner} \subseteq Seq(Token) \ {<<>>}
  BY ForwardAssumption
<1> QED
  BY <1>1, <1>2, BlocksAssumption, ForwardAssumption
  DEF KVP!BlocksAssumption, KVP!OwnerAssumption

\* Slots and tables are the same.
LEMMA SameSlots ==
  /\ KVP!Offset = Offset /\ KVP!Garbage = Garbage /\ KVP!Table = Table
  /\ \A t : KVP!Capacity(t) = Capacity(t)
  /\ \A t : KVP!WellFormed(t) <=> WellFormed(t)
  /\ \A t, q : KVP!SlotBlock(t, q) = SlotBlock(t, q)
  /\ \A a, b : KVP!AtMost(a, b) = AtMost(a, b)
BY DEF Offset, KVP!Offset, Garbage, KVP!Garbage, Table, KVP!Table, Name, KVP!Name,
       Capacity, KVP!Capacity, WellFormed, KVP!WellFormed, SlotBlock, KVP!SlotBlock,
       AtMost, KVP!AtMost

\* Both instances start alike.
LEMMA SameInit == KVP!Init <=> KV!Init
BY DEF KVP!Init, KV!Init, KVP!NewPool, KV!NewPool, KVP!NoName, KV!NoName,
       KVP!NewTable, KV!NewTable, KVP!Offset, KV!Offset, KVP!Garbage, KV!Garbage

\* Both instances take blocks, give them back and share them alike.
LEMMA SameBlockSteps ==
  ASSUME NEW r \in Owner
  PROVE  /\ KVP!Grow(r) <=> KV!Grow(r)
         /\ KVP!Free(r) <=> KV!Free(r)
         /\ KVP!Sample(r) <=> KV!Sample(r)
         /\ KVP!Claim(r) <=> KV!Claim(r)
<1>1. KVP!Grow(r) <=> KV!Grow(r)
  <2>1. \A p : KVP!Allocatable(p) = KV!Allocatable(p)
    BY DEF KVP!Allocatable, KV!Allocatable, KVP!Anonymous, KV!Anonymous,
           KVP!LeastRecent, KV!LeastRecent, KVP!NoName, KV!NoName
  <2>2. \A p, b : KVP!Allocate(p, b) = KV!Allocate(p, b)
    BY DEF KVP!Allocate, KV!Allocate, KVP!Unindexed, KV!Unindexed, KVP!NoName, KV!NoName
  <2>3. \A t, b : KVP!Push(t, b) = KV!Push(t, b)
    BY DEF KVP!Push, KV!Push
  <2> QED BY <2>1, <2>2, <2>3 DEF KVP!Grow, KV!Grow
<1>2. KVP!Free(r) <=> KV!Free(r)
  <2>1. \A p, blocks : KVP!ReleaseAll(p, blocks) = KV!ReleaseAll(p, blocks)
    BY DEF KVP!ReleaseAll, KV!ReleaseAll, KVP!AtLeast, KV!AtLeast, KVP!Cardinality,
           KV!Cardinality
  <2> QED BY <2>1 DEF KVP!Free, KV!Free, KVP!NewTable, KV!NewTable
<1>3. KVP!Sample(r) <=> KV!Sample(r)
  BY DEF KVP!Sample, KV!Sample
<1>4. KVP!Claim(r) <=> KV!Claim(r)
  <2>1. \A h : KVP!Candidates(h) = KV!Candidates(h)
    BY DEF KVP!Candidates, KV!Candidates, KVP!AtLeast, KV!AtLeast, KVP!CeilDiv, KV!CeilDiv
  <2>2. \A p, h, k : KVP!Claims(p, h, k) <=> KV!Claims(p, h, k)
    BY <2>1 DEF KVP!Claims, KV!Claims, KVP!Resident, KV!Resident, KVP!PrefixName,
                KV!PrefixName
  <2>3. \A p, h, k : KVP!ClaimPool(p, h, k) = KV!ClaimPool(p, h, k)
    BY DEF KVP!ClaimPool, KV!ClaimPool, KVP!AcquireCached, KV!AcquireCached,
           KVP!PrefixName, KV!PrefixName
  <2>4. \A p, t, h, k : KVP!ClaimTable(p, t, h, k) = KV!ClaimTable(p, t, h, k)
    BY DEF KVP!ClaimTable, KV!ClaimTable, KVP!PrefixName, KV!PrefixName
  <2> QED BY <2>1, <2>2, <2>3, <2>4 DEF KVP!Claim, KV!Claim
<1> QED BY <1>1, <1>2, <1>3, <1>4

\* Both instances commit alike.
LEMMA SameCommit == ASSUME NEW r \in Owner PROVE KVP!Commit(r) <=> KV!Commit(r)
<1>1. \A t, n : KVP!Advance(t, n) = KV!Advance(t, n)
  BY DEF KVP!Advance, KV!Advance, KVP!Capacity, KV!Capacity
<1>2. \A t, h : KVP!NameFull(t, h) = KV!NameFull(t, h)
  BY DEF KVP!NameFull, KV!NameFull, KVP!Full, KV!Full, KVP!FullName, KV!FullName,
         KVP!AtLeast, KV!AtLeast, KVP!AtMost, KV!AtMost, KVP!LastHash, KV!LastHash,
         KVP!BlockHash, KV!BlockHash, KVP!NoName, KV!NoName
<1>3. \A p, t, h : KVP!PublishFull(p, t, h) = KV!PublishFull(p, t, h)
  BY DEF KVP!PublishFull, KV!PublishFull, KVP!Published, KV!Published,
         KVP!Publishable, KV!Publishable, KVP!Full, KV!Full, KVP!FullName,
         KV!FullName, KVP!AtLeast, KV!AtLeast, KVP!AtMost, KV!AtMost, KVP!LastHash,
         KV!LastHash, KVP!BlockHash, KV!BlockHash, KVP!NoName, KV!NoName
<1> QED BY <1>1, <1>2, <1>3 DEF KVP!Commit, KV!Commit

\* Both instances run the same passes.
LEMMA SamePasses ==
  /\ KVP!Passes = KV!Passes
  /\ \A r : KVP!Runnable(r) = KV!Runnable(r)
  /\ \A n : (KVP!Run(n) <=> KV!Run(n)) /\ (KVP!Spoil(n) <=> KV!Spoil(n))
<1>1. \A r : KVP!Runnable(r) = KV!Runnable(r)
  BY DEF KVP!Runnable, KV!Runnable, KVP!AtMost, KV!AtMost, KVP!Capacity, KV!Capacity
<1>2. KVP!Passes = KV!Passes
  BY <1>1 DEF KVP!Passes, KV!Passes
<1>3. \A n : KVP!Rows(n) = KV!Rows(n)
  BY DEF KVP!Rows, KV!Rows, KVP!Row, KV!Row
<1>4. \A w, b, o : KVP!Writes(w, b, o) <=> KV!Writes(w, b, o)
  BY DEF KVP!Writes, KV!Writes, KVP!SlotBlock, KV!SlotBlock
<1>5. \A c, t, p : KVP!Holds(c, t, p) <=> KV!Holds(c, t, p)
  BY DEF KVP!Holds, KV!Holds, KVP!HasSlot, KV!HasSlot, KVP!Content, KV!Content,
         KVP!SlotBlock, KV!SlotBlock
<1>6. \A c, w : KVP!Context(c, w) = KV!Context(c, w)
  BY DEF KVP!Context, KV!Context, KVP!Content, KV!Content, KVP!SlotBlock, KV!SlotBlock
<1>7. \A c, w, b, o : KVP!Written(c, w, b, o) = KV!Written(c, w, b, o)
  BY <1>5, <1>6 DEF KVP!Written, KV!Written, KVP!ReadsPrefix, KV!ReadsPrefix,
     KVP!WrittenAt, KV!WrittenAt, KVP!SlotBlock, KV!SlotBlock, KVP!Garbage, KV!Garbage
<1>8. \A c, rows : KVP!RunPass(c, rows) = KV!RunPass(c, rows)
  BY <1>4, <1>7, ZenonT(60) DEF KVP!RunPass, KV!RunPass, KVP!Offset, KV!Offset
<1>9. \A c, rows : KVP!SpoilPass(c, rows) = KV!SpoilPass(c, rows)
  BY <1>4 DEF KVP!SpoilPass, KV!SpoilPass, KVP!Offset, KV!Offset, KVP!Garbage, KV!Garbage
<1> QED
  BY <1>1, <1>2, <1>3, <1>8, <1>9 DEF KVP!Run, KV!Run, KVP!Spoil, KV!Spoil

\* Both instances have the same steps.
LEMMA SameNext == [KVP!Next]_(KVP!vars) => [KV!Next]_(KV!vars)
<1>1. KVP!vars = KV!vars
  BY DEF KVP!vars, KV!vars
<1>2. UNCHANGED KVP!vars => UNCHANGED KV!vars
  BY DEF KVP!vars, KV!vars
<1>3. \A e : KVP!SetPrefixCache(e) <=> KV!SetPrefixCache(e)
  BY DEF KVP!SetPrefixCache, KV!SetPrefixCache, KVP!ClearCache, KV!ClearCache,
         KVP!NoName, KV!NoName
<1>4. KVP!Next => KV!Next
  BY <1>3, SameBlockSteps, SameCommit, SamePasses DEF KVP!Next, KV!Next
<1> QED BY <1>2, <1>4

-----------------------------------------------------------------------------
(* What the slots hold. *)

\* What PagedKV's invariants say of the cache.
CacheInv == KVP!IInv /\ KVP!ContentInv

\* The vector of a head of a layer for the last token of a prefix.
Vector(l, h, prefix) ==
    [at |-> Len(prefix) - 1, head |-> h, of |-> IF l = 1 THEN <<Last(prefix)>> ELSE prefix]

\* Every layer holds the vectors of a prefix in a slot.
Spelled(k, b, o, prefix) ==
    \A l \in 1..Layers, h \in KvHead : k[l][b][o][h] = Vector(l, h, prefix)

\* Contents as an operator on the tensors and the torn slots.
ContentAt(k, t, b, o) ==
    IF /\ <<b, o>> \notin t /\ k[Layers][b][o][1].of # Garbage
       /\ Spelled(k, b, o, k[Layers][b][o][1].of)
    THEN k[Layers][b][o][1].of ELSE Garbage
ContentsOf(k, t) == [b \in Block |-> [o \in Offset |-> ContentAt(k, t, b, o)]]

\* The contents PagedKV speaks of are a function of the tensors, in either state.
LEMMA ContentsMapped ==
  Contents = ContentsOf(keys, torn) /\ Contents' = ContentsOf(keys', torn')
<1>1. Contents = ContentsOf(keys, torn)
  BY DEF Contents, ContentsOf, ContentAt, Spelled, Vector
<1>2. Contents' = ContentsOf(keys', torn')
  BY DEF Contents, ContentsOf, ContentAt, Spelled, Vector
<1> QED BY <1>1, <1>2

\* A slot has one block and one offset.
LEMMA ContentsAt ==
  ASSUME NEW k, NEW t, NEW b \in Block, NEW o \in Offset
  PROVE  ContentsOf(k, t)[b][o] = ContentAt(k, t, b, o)
BY DEF ContentsOf

\* A slot with a content has its vectors in every layer.
LEMMA ContentsSpelled ==
  ASSUME NEW k, NEW t, NEW b \in Block, NEW o \in Offset,
         ContentsOf(k, t)[b][o] # Garbage
  PROVE  Spelled(k, b, o, ContentsOf(k, t)[b][o])
BY ContentsAt DEF ContentAt

\* A slot that has the vectors of a prefix in every layer has that content.
LEMMA SpelledContents ==
  ASSUME NEW k, NEW t, NEW b \in Block, NEW o \in Offset, <<b, o>> \notin t,
         NEW prefix, prefix # Garbage, Spelled(k, b, o, prefix)
  PROVE  ContentsOf(k, t)[b][o] = prefix
<1>1. Layers \in 1..Layers /\ Layers # 1 /\ 1 \in KvHead
  BY ForwardAssumption DEF KvHead
<1>2. k[Layers][b][o][1] = Vector(Layers, 1, prefix)
  BY <1>1 DEF Spelled
<1>3. k[Layers][b][o][1].of = prefix
  BY <1>1, <1>2 DEF Vector
<1> QED BY <1>3, ContentsAt DEF ContentAt

\* The content of a torn slot is lost.
LEMMA TornContents ==
  ASSUME NEW k, NEW t, NEW b \in Block, NEW o \in Offset, <<b, o>> \in t
  PROVE  ContentsOf(k, t)[b][o] = Garbage
BY ContentsAt DEF ContentAt

-----------------------------------------------------------------------------
(* The slots of a pass. *)

\* The positions a pass runs of a sequence.
Due(r, n) == table[r].tokens..(table[r].tokens + n[r] - 1)
SlotOf(r, p) == <<SlotBlock(table[r], p), p % BlockSize>>
Prefix(r, p) == SubSeq(history[r], 1, p + 1)

\* What a pass may carry.
CarriesOnly(n) ==
    n \in KVP!Passes /\ \A r \in DOMAIN n : n[r] \in KVP!Runnable(r)

\* What the invariants say of one sequence.
LEMMA OwnerTyped ==
  ASSUME CacheInv, NEW r \in Owner
  PROVE  /\ table[r] \in Table /\ table[r].tokens \in Nat
         /\ history[r] \in Seq(Token) /\ Len(history[r]) \in Nat
         /\ Capacity(table[r]) \in Nat
         /\ inflight[r] \in Nat
<1>1. /\ table[r] \in KVP!Table /\ table[r].tokens \in Nat
      /\ history[r] \in Seq(Token) /\ Len(history[r]) \in Nat
      /\ KVP!Capacity(table[r]) \in Nat /\ inflight[r] \in Nat
  BY MappedAssumptions, KVP!OwnerTyped DEF CacheInv, KVP!IInv
<1> QED BY <1>1, SameSlots

\* What may be run of a sequence is in its history and in its blocks.
LEMMA DueBounds ==
  ASSUME CacheInv, NEW n, CarriesOnly(n), NEW r \in DOMAIN n
  PROVE  /\ r \in Owner /\ n[r] \in Nat \ {0}
         /\ table[r].tokens + n[r] <= Len(history[r])
         /\ \A p \in Due(r, n) :
              p \in Nat /\ p < Len(history[r]) /\ p < Capacity(table[r])
<1>1. r \in Owner
  BY DEF CarriesOnly, KVP!Passes
<1>2. n[r] \in 1..(AtMost(Capacity(table[r]), Len(history[r])) - table[r].tokens)
  BY SameSlots DEF CarriesOnly, KVP!Runnable
<1> QED BY <1>1, <1>2, OwnerTyped, SMTT(60) DEF AtMost, Due

\* A position of a table has a slot.
LEMMA SlotIn ==
  ASSUME CacheInv, NEW r \in Owner, NEW q \in Nat, q < Capacity(table[r])
  PROVE  SlotBlock(table[r], q) \in Block /\ q % BlockSize \in Offset
<1>1. table[r] \in KVP!Table /\ q < KVP!Capacity(table[r])
  BY OwnerTyped, SameSlots
<1> QED BY <1>1, MappedAssumptions, KVP!SlotInTable, SameSlots

\* The slots of a pass are those its rows write.
LEMMA DueAreWritten ==
  ASSUME CacheInv, NEW n, CarriesOnly(n), NEW r \in DOMAIN n, NEW p \in Due(r, n)
  PROVE  KVP!Writes(KVP!Row(r, n[r]), SlotBlock(table[r], p), p % BlockSize)
<1>1. r \in Owner /\ n[r] \in KVP!Runnable(r)
  BY DueBounds DEF CarriesOnly
<1> QED BY <1>1, MappedAssumptions, KVP!OwnRowWrites, SameSlots DEF CacheInv, KVP!IInv, Due

\* And only those are.
LEMMA WrittenAreDue ==
  ASSUME CacheInv, NEW n, CarriesOnly(n), NEW row \in KVP!Rows(n), NEW b, NEW o,
         KVP!Writes(row, b, o)
  PROVE  \E r \in DOMAIN n : \E p \in Due(r, n) : SlotOf(r, p) = <<b, o>>
<1>1. PICK s \in DOMAIN n :
         /\ KVP!WrittenAt(row, b, o) \in table[s].tokens..(table[s].tokens + n[s] - 1)
         /\ KVP!SlotBlock(table[s], KVP!WrittenAt(row, b, o)) = b
         /\ KVP!WrittenAt(row, b, o) % BlockSize = o
  BY MappedAssumptions, KVP!RowWritesUnnamed DEF CacheInv, KVP!IInv, CarriesOnly
<1> QED BY <1>1, SameSlots DEF Due, SlotOf

\* Nobody else has the slot of a position a pass runs, and no other position.
LEMMA SlotsApart ==
  ASSUME CacheInv, NEW n, CarriesOnly(n), NEW s \in DOMAIN n, NEW p \in Due(s, n),
         NEW r \in Owner, NEW q \in Nat, q < Capacity(table[r]), SlotOf(s, p) = SlotOf(r, q)
  PROVE  s = r /\ p = q
<1> DEFINE row == KVP!Row(s, n[s])
           b == SlotBlock(table[r], q)
           o == q % BlockSize
<1>1. row \in KVP!Rows(n) /\ s \in Owner /\ p \in Nat /\ p < Capacity(table[s])
  BY DueBounds DEF KVP!Rows
<1>2. b = SlotBlock(table[s], p) /\ o = p % BlockSize
  BY DEF SlotOf
<1>3. KVP!Writes(row, b, o)
  BY <1>2, DueAreWritten
<1>4. KVP!WrittenAt(row, b, o) = q
  <2>1. q < KVP!Capacity(table[r]) /\ b = KVP!SlotBlock(table[r], q)
    BY SameSlots
  <2> HIDE DEF row, b, o
  <2>2. KVP!Writes(row, KVP!SlotBlock(table[r], q), q % BlockSize)
    BY <1>3, <2>1 DEF o
  <2> QED
    BY <1>1, <2>1, <2>2, MappedAssumptions, KVP!WriterIsOwner DEF CacheInv, KVP!IInv, CarriesOnly, o
<1>5. KVP!WrittenAt(row, b, o) = p
  <2>1. p < KVP!Capacity(table[s]) /\ b = KVP!SlotBlock(table[s], p)
    BY <1>1, <1>2, SameSlots
  <2> HIDE DEF row, b, o
  <2>2. KVP!Writes(row, KVP!SlotBlock(table[s], p), p % BlockSize)
    BY <1>2, <1>3, <2>1
  <2> QED
    BY <1>1, <1>2, <2>1, <2>2, MappedAssumptions, KVP!WriterIsOwner DEF CacheInv, KVP!IInv, CarriesOnly
<1>6. s = r
  <2> SUFFICES ASSUME s # r PROVE FALSE
    OBVIOUS
  <2> DEFINE i == p \div BlockSize + 1
             j == q \div BlockSize + 1
  <2>1. /\ i \in DOMAIN table[s].blocks /\ b = table[s].blocks[i]
        /\ j \in DOMAIN table[r].blocks /\ b = table[r].blocks[j]
    <3>1. /\ table[s] \in KVP!Table /\ p < KVP!Capacity(table[s])
          /\ table[r] \in KVP!Table /\ q < KVP!Capacity(table[r])
      BY <1>1, OwnerTyped, SameSlots
    <3>2. i \in DOMAIN table[s].blocks /\ KVP!SlotBlock(table[s], p) = table[s].blocks[i]
      BY <1>1, <3>1, MappedAssumptions, KVP!SlotInTable
    <3>3. j \in DOMAIN table[r].blocks /\ KVP!SlotBlock(table[r], q) = table[r].blocks[j]
      BY <3>1, MappedAssumptions, KVP!SlotInTable
    <3> QED BY <1>2, <3>2, <3>3, SameSlots
  <2>2. i > Len(table[s].hashes)
    <3>1. /\ Len(table[s].hashes) \in Nat /\ Len(table[s].hashes) * BlockSize <= table[s].tokens
          /\ table[s].tokens \in Nat
      BY <1>1, MappedAssumptions, KVP!OwnerTyped DEF CacheInv, KVP!IInv
    <3>2. Len(table[s].hashes) * BlockSize <= p
      BY <1>1, <3>1, BlocksAssumption DEF Due
    <3>3. Len(table[s].hashes) <= p \div BlockSize /\ p \div BlockSize \in Nat
      BY <1>1, <3>1, <3>2, MappedAssumptions, KVP!DivAbove, DivMul
    <3> QED BY <3>1, <3>3
  <2>3. b \notin KVP!Holding(r)
    BY <1>1, <2>1, <2>2 DEF CacheInv, KVP!IInv, KVP!PoolInv, KVP!UnnamedBlocksAreOwn
  <2> QED BY <2>1, <2>3 DEF KVP!Holding
<1> QED BY <1>4, <1>5, <1>6

-----------------------------------------------------------------------------
(* The batch. *)

\* A token of the batch that stands at its place: it is the next of a sequence
\* the pass runs, is written where that sequence's table says, and its row
\* reads that sequence's slots, up to its own position.
Carries(batch, n, i, r) ==
    LET p == Position(batch, i) IN
    /\ r \in DOMAIN n /\ p \in Due(r, n)
    /\ batch.tokens[i] = history[r][p + 1]
    /\ batch.write_slots[i] = SlotOf(r, p)
    /\ Visible(batch, i) = 0..p
    /\ \A q \in 0..p :
         batch.read_blocks[RowOf(batch, i)][q \div BlockSize + 1] = SlotBlock(table[r], q)

\* A batch that carries what the pass runs, all of it and nothing else.
Aligned(batch, n) ==
    /\ Len(batch.tokens) \in Nat
    /\ DOMAIN batch.tokens = 1..Len(batch.tokens)
    /\ DOMAIN batch.write_slots = 1..Len(batch.tokens)
    /\ Len(batch.write_slots) = Len(batch.tokens)
    /\ \A i \in DOMAIN batch.tokens : \E r \in DOMAIN n : Carries(batch, n, i, r)
    /\ \A r \in DOMAIN n : \A p \in Due(r, n) :
         \E i \in DOMAIN batch.tokens : Carries(batch, n, i, r) /\ Position(batch, i) = p

\* The rows whose logits are wanted are the last tokens of their sequences.
Wanted(batch, n, ids) ==
    /\ Len(ids) \in Nat /\ DOMAIN ids = 1..Len(ids)
    /\ \A k \in DOMAIN ids :
         /\ ids[k] \in DOMAIN n
         /\ batch.logit_rows[k] \in DOMAIN batch.tokens
         /\ Carries(batch, n, batch.logit_rows[k], ids[k])
         /\ Position(batch, batch.logit_rows[k]) = Len(history[ids[k]]) - 1

\* What is put in a batch for one position of a sequence.
EntryOf(r, p) == [table |-> table[r], pos |-> p, token |-> history[r][p + 1]]

\* Entries of a pass: the next tokens of its sequences, one per row or all in
\* one row.
Fits(entries, seq, n) ==
    /\ Len(entries) \in Nat \ {0} /\ DOMAIN entries = 1..Len(entries)
    /\ \A i \in DOMAIN entries : \E r \in DOMAIN n : \E p \in Due(r, n) :
         entries[i] = EntryOf(r, p)
    /\ \A r \in DOMAIN n : \A p \in Due(r, n) : \E i \in DOMAIN entries :
         entries[i] = EntryOf(r, p)
    /\ \/ seq = 1
       \/ /\ seq = Len(entries)
          /\ \A i \in DOMAIN entries :
               entries[i].table = entries[1].table /\ entries[i].pos = entries[1].pos + (i - 1)

\* The longest row ends behind every token.
LEMMA LongestBounds ==
  ASSUME NEW entries, Len(entries) \in Nat \ {0}, DOMAIN entries = 1..Len(entries),
         \A i \in DOMAIN entries : entries[i].pos \in Nat, NEW seq
  PROVE  /\ Longest(entries, seq) \in Nat
         /\ \A i \in DOMAIN entries : entries[i].pos + 1 <= Longest(entries, seq)
<1> DEFINE E == Entries(entries)
           ends == [i \in 1..Len(entries) |-> entries[i].pos + 1]
           Longer(m) == \A e \in E : e.pos + 1 <= m
<1>1. ends \in Seq(Nat) /\ Len(ends) = Len(entries)
  OBVIOUS
<1>2. PICK i \in 1..Len(entries) : \A j \in 1..Len(entries) : ends[j] <= ends[i]
  <2>1. 1..Len(ends) \in SUBSET (1..Len(ends)) /\ 1..Len(ends) # {}
    BY <1>1
  <2> HIDE DEF ends
  <2>2. \E i \in 1..Len(ends) : \A j \in 1..Len(ends) : ends[j] <= ends[i]
    BY <1>1, <2>1, HeaviestOf
  <2> QED BY <1>1, <2>2
<1>3. Longer(entries[i].pos + 1)
  BY <1>2 DEF Entries
<1>4. entries[i].pos + 1 \in {e.pos + 1 : e \in E}
  BY DEF Entries
<1>5. Longest(entries, seq) = CHOOSE m \in {e.pos + 1 : e \in E} : Longer(m)
  BY DEF Longest
<1> HIDE DEF Longer
<1>6. Longest(entries, seq) \in {e.pos + 1 : e \in E} /\ Longer(Longest(entries, seq))
  BY <1>3, <1>4, <1>5
<1>7. Longest(entries, seq) \in Nat
  BY <1>6 DEF Entries
<1>8. \A j \in DOMAIN entries : entries[j].pos + 1 <= Longest(entries, seq)
  BY <1>6 DEF Longer, Entries
<1> QED BY <1>7, <1>8

\* The blocks of the longest row are as many as any position needs.
LEMMA WidthEnough ==
  ASSUME NEW q \in Nat, NEW m \in Nat, q + 1 <= m
  PROVE  q \div BlockSize + 1 \in 1..CeilDiv(m, BlockSize)
<1>1. (q + BlockSize) \div BlockSize = q \div BlockSize + 1 /\ q \div BlockSize \in Nat
  BY BlocksAssumption
<1>2. (q + BlockSize) \div BlockSize <= (m + BlockSize - 1) \div BlockSize
  BY BlocksAssumption
<1>3. CeilDiv(m, BlockSize) = (m + BlockSize - 1) \div BlockSize
  BY DEF CeilDiv
<1>4. CeilDiv(m, BlockSize) \in Nat
  BY <1>3, BlocksAssumption
<1> QED BY <1>1, <1>2, <1>3, <1>4

\* Dividing by one.
LEMMA DivOne == \A a \in Nat : a \div 1 = a /\ a % 1 = 0
OBVIOUS
\* Dividing what is less than a row.
LEMMA DivMore ==
  ASSUME NEW k \in Nat \ {0}, NEW a \in 0..(k - 1)
  PROVE  a \div k = 0 /\ a % k = a /\ k \div k = 1
OBVIOUS

\* Where the entries of a batch end up in its rows.
LEMMA RowsOfEntries ==
  ASSUME NEW entries, NEW seq, NEW n, Fits(entries, seq, n), NEW i \in DOMAIN entries,
         \A j \in DOMAIN entries : entries[j].pos \in Nat,
         NEW logit_rows, NEW batch, batch = BatchOf(entries, seq, logit_rows)
  PROVE  /\ RowOf(batch, i) \in 1..(Len(entries) \div seq)
         /\ batch.starts[RowOf(batch, i)] + OffsetOf(batch, i) = entries[i].pos
         /\ seq = 1 => RowOf(batch, i) = i /\ batch.starts[i] = entries[i].pos
         /\ entries[(RowOf(batch, i) - 1) * seq + 1].table = entries[i].table
<1>1. /\ batch.seq = seq
      /\ batch.starts = [row \in 1..(Len(entries) \div seq) |-> Start(entries, seq, row)]
      /\ i \in 1..Len(entries) /\ Len(entries) \in Nat \ {0}
  BY DEF BatchOf, Fits
<1>2. CASE seq = 1
  <2>1. RowOf(batch, i) = i /\ OffsetOf(batch, i) = 0 /\ Len(entries) \div seq = Len(entries)
    BY <1>1, <1>2, DivOne DEF RowOf, OffsetOf
  <2>2. (i - 1) * seq + 1 = i
    BY <1>1, <1>2
  <2>3. batch.starts[i] = entries[i].pos
    BY <1>1, <2>1, <2>2 DEF Start
  <2> QED BY <1>1, <2>1, <2>2, <2>3
<1>3. CASE /\ seq = Len(entries)
           /\ \A j \in DOMAIN entries :
                entries[j].table = entries[1].table /\ entries[j].pos = entries[1].pos + (j - 1)
  <2>1. i - 1 \in 0..(seq - 1) /\ seq \in Nat \ {0}
    BY <1>1, <1>3
  <2>2. RowOf(batch, i) = 1 /\ OffsetOf(batch, i) = i - 1 /\ Len(entries) \div seq = 1
    <3>1. (i - 1) \div seq = 0 /\ (i - 1) % seq = i - 1 /\ seq \div seq = 1
      BY <2>1, DivMore
    <3> QED BY <1>1, <1>3, <3>1 DEF RowOf, OffsetOf
  <2>3. (1 - 1) * seq + 1 = 1
    BY <2>1
  <2>4. batch.starts[1] = entries[1].pos
    BY <1>1, <2>2, <2>3 DEF Start
  <2>5. seq = 1 => i = 1
    BY <2>1
  <2> QED BY <1>1, <1>3, <2>2, <2>3, <2>4, <2>5
<1> QED BY <1>2, <1>3 DEF Fits

\* Every entry of a batch stands at its place.
LEMMA EntryCarried ==
  ASSUME CacheInv, NEW n, CarriesOnly(n), NEW entries, NEW seq, Fits(entries, seq, n),
         NEW logit_rows, NEW batch, batch = BatchOf(entries, seq, logit_rows),
         NEW i \in DOMAIN entries, NEW r \in DOMAIN n, NEW p \in Due(r, n),
         entries[i] = EntryOf(r, p)
  PROVE  Carries(batch, n, i, r) /\ Position(batch, i) = p
<1> DEFINE width == CeilDiv(Longest(entries, seq), BlockSize)
           row == RowOf(batch, i)
<1>1. \A j \in DOMAIN entries : entries[j].pos \in Nat
  BY DueBounds DEF Fits, EntryOf
<1>2. /\ row \in 1..(Len(entries) \div seq)
      /\ batch.starts[row] + OffsetOf(batch, i) = p
      /\ seq = 1 => row = i /\ batch.starts[i] = p
      /\ entries[(row - 1) * seq + 1].table = table[r]
  BY <1>1, RowsOfEntries DEF EntryOf
<1>3. /\ r \in Owner /\ p \in Nat /\ p < Capacity(table[r])
      /\ table[r] \in Table
  BY DueBounds, OwnerTyped
<1>4. Longest(entries, seq) \in Nat /\ p + 1 <= Longest(entries, seq)
  <2>1. Len(entries) \in Nat \ {0} /\ DOMAIN entries = 1..Len(entries)
    BY DEF Fits
  <2>2. entries[i].pos = p
    BY DEF EntryOf
  <2> QED BY <1>1, <2>1, <2>2, LongestBounds
<1>5. Position(batch, i) = p
  BY <1>2 DEF Position
<1>6. /\ batch.tokens[i] = history[r][p + 1]
      /\ batch.write_slots[i] = SlotOf(r, p)
      /\ batch.longest = Longest(entries, seq) /\ batch.seq = seq
      /\ batch.read_blocks[row] = ReadRow(entries[(row - 1) * seq + 1].table, width)
  <2>1. i \in 1..Len(entries)
    BY DEF Fits
  <2> HIDE DEF row
  <2> QED BY <1>2, <2>1 DEF BatchOf, EntryOf, SlotOf
<1>7. Visible(batch, i) = 0..p
  <2>1. CASE attention = "kernel" /\ batch.seq = 1
    BY <1>2, <1>6, <2>1 DEF Visible, Walked
  <2>2. CASE ~ (attention = "kernel" /\ batch.seq = 1)
    <3>1. Visible(batch, i) = {q \in 0..(Longest(entries, seq) - 1) : q <= p}
      BY <1>5, <1>6, <2>2 DEF Visible, Unmasked
    <3> QED BY <1>3, <1>4, <3>1
  <2> QED BY <2>1, <2>2
<1>8. ASSUME NEW q \in 0..p
      PROVE  batch.read_blocks[row][q \div BlockSize + 1] = SlotBlock(table[r], q)
  <2> DEFINE j == q \div BlockSize + 1
  <2>1. q \in Nat /\ q < Capacity(table[r]) /\ q + 1 <= Longest(entries, seq)
    <3>1. Capacity(table[r]) \in Nat
      BY <1>3, OwnerTyped
    <3> QED BY <1>3, <1>4, <3>1
  <2>2. j \in 1..width
    BY <1>4, <2>1, WidthEnough
  <2>3. j \in DOMAIN table[r].blocks /\ SlotBlock(table[r], q) = table[r].blocks[j]
    <3>1. table[r] \in KVP!Table /\ q < KVP!Capacity(table[r])
      BY <1>3, <2>1, SameSlots
    <3> QED BY <2>1, <3>1, MappedAssumptions, KVP!SlotInTable, SameSlots
  <2>4. j \in 1..Len(table[r].blocks) /\ Len(table[r].blocks) \in Nat
    BY <1>3, <2>3 DEF Table
  <2>5. j <= Len(table[r].blocks)
    BY <2>4
  <2> HIDE DEF j, width
  <2>6. ReadRow(table[r], width)[j] = table[r].blocks[j]
    BY <2>2, <2>5 DEF ReadRow
  <2> QED BY <1>2, <1>6, <2>3, <2>6 DEF j
<1> QED BY <1>5, <1>6, <1>7, <1>8 DEF Carries

\* A batch of entries that fit carries what the pass runs.
LEMMA FitsAligned ==
  ASSUME CacheInv, NEW n, CarriesOnly(n), NEW entries, NEW seq, Fits(entries, seq, n),
         NEW logit_rows, NEW batch, batch = BatchOf(entries, seq, logit_rows)
  PROVE  Aligned(batch, n) /\ DOMAIN batch.tokens = DOMAIN entries
<1>1. /\ batch.tokens = [i \in 1..Len(entries) |-> entries[i].token]
      /\ DOMAIN batch.write_slots = 1..Len(entries)
      /\ batch.write_slots = [i \in 1..Len(entries) |->
             <<SlotBlock(entries[i].table, entries[i].pos), entries[i].pos % BlockSize>>]
      /\ Len(entries) \in Nat /\ DOMAIN entries = 1..Len(entries)
  BY DEF BatchOf, Fits
<1>2. /\ Len(batch.tokens) = Len(entries) /\ Len(batch.write_slots) = Len(entries)
      /\ DOMAIN batch.tokens = 1..Len(entries)
  BY <1>1
<1>3. ASSUME NEW i \in DOMAIN entries PROVE \E r \in DOMAIN n : Carries(batch, n, i, r)
  <2>1. PICK r \in DOMAIN n : \E p \in Due(r, n) : entries[i] = EntryOf(r, p)
    BY DEF Fits
  <2> QED BY <2>1, EntryCarried
<1>4. ASSUME NEW r \in DOMAIN n, NEW p \in Due(r, n)
      PROVE  \E i \in DOMAIN entries : Carries(batch, n, i, r) /\ Position(batch, i) = p
  <2>1. PICK i \in DOMAIN entries : entries[i] = EntryOf(r, p)
    BY DEF Fits
  <2> QED BY <2>1, EntryCarried, SMTT(60)
<1> QED BY <1>1, <1>2, <1>3, <1>4 DEF Aligned

\* A pass of some owners, of each what it may run.
LEMMA PassOf ==
  ASSUME NEW S \in SUBSET Owner, NEW n, n = [r \in S |-> n[r]],
         \A r \in S : n[r] \in KVP!Runnable(r)
  PROVE  CarriesOnly(n)
<1>1. n \in [S -> UNION {KVP!Runnable(r) : r \in S}]
  BY Zenon
<1>2. n \in KVP!Passes /\ DOMAIN n = S
  BY <1>1 DEF KVP!Passes
<1> QED BY <1>2 DEF CarriesOnly

\* A prefill of a whole sequence is one row.
LEMMA PrefillFits ==
  ASSUME CacheInv, NEW r \in Owner, NEW k, k = Left(r), k \in KVP!Runnable(r),
         NEW n, n = [o \in {r} |-> k], NEW entries, entries = Rectangle(<<r>>, k)
  PROVE  /\ CarriesOnly(n) /\ Fits(entries, k, n)
         /\ k \in DOMAIN entries
         /\ Len(history[r]) - 1 \in Due(r, n)
         /\ entries[k] = EntryOf(r, Len(history[r]) - 1)
<1>1. CarriesOnly(n)
  <2>1. {r} \in SUBSET Owner /\ n = [o \in {r} |-> n[o]] /\ n[r] \in KVP!Runnable(r)
    OBVIOUS
  <2> QED BY <2>1, PassOf
<1>2. /\ k \in Nat \ {0} /\ table[r].tokens \in Nat /\ Len(history[r]) \in Nat
      /\ table[r].tokens + k = Len(history[r])
  BY <1>1, DueBounds, OwnerTyped DEF Left
<1>3. DOMAIN entries = 1..k /\ Len(entries) = k
  BY <1>2, SMTT(60) DEF Rectangle
<1>4. ASSUME NEW i \in 1..k PROVE entries[i] = EntryOf(r, table[r].tokens + (i - 1))
  <2>1. (i - 1) \div k = 0 /\ (i - 1) % k = i - 1
    <3>1. i - 1 \in 0..(k - 1)
      BY <1>2
    <3> QED BY <1>2, <3>1, DivMore
  <2>2. <<r>>[(i - 1) \div k + 1] = r
    BY <2>1
  <2>3. i \in 1..(Len(<<r>>) * k)
    BY <1>2
  <2> QED BY <2>1, <2>2, <2>3 DEF Rectangle, EntryOf
<1>5. DOMAIN n = {r} /\ Due(r, n) = table[r].tokens..(table[r].tokens + k - 1)
  BY DEF Due
<1>6. ASSUME NEW i \in 1..k
      PROVE  table[r].tokens + (i - 1) \in Due(r, n)
  BY <1>2, <1>5
<1>7. ASSUME NEW p \in Due(r, n) PROVE \E i \in 1..k : entries[i] = EntryOf(r, p)
  <2>1. p - table[r].tokens + 1 \in 1..k
    BY <1>2, <1>5
  <2>2. table[r].tokens + ((p - table[r].tokens + 1) - 1) = p
    BY <1>2, <1>5
  <2> QED BY <1>4, <2>1, <2>2
<1>8. ASSUME NEW i \in 1..k
      PROVE  entries[i].table = entries[1].table /\ entries[i].pos = entries[1].pos + (i - 1)
  <2>1. 1 \in 1..k /\ table[r].tokens + (1 - 1) = table[r].tokens
    BY <1>2
  <2>2. entries[1] = EntryOf(r, table[r].tokens)
    BY <1>4, <2>1
  <2>3. entries[1].table = table[r] /\ entries[1].pos = table[r].tokens
    BY <2>2 DEF EntryOf
  <2>4. entries[i].table = table[r] /\ entries[i].pos = table[r].tokens + (i - 1)
    <3>1. entries[i] = EntryOf(r, table[r].tokens + (i - 1))
      BY <1>4
    <3> DEFINE p == table[r].tokens + (i - 1)
    <3> HIDE DEF p
    <3>2. entries[i] = EntryOf(r, p)
      BY <3>1 DEF p
    <3>3. entries[i].table = table[r] /\ entries[i].pos = p
      BY <3>2 DEF EntryOf
    <3> QED BY <3>3 DEF p
  <2> QED BY <2>3, <2>4
<1>9. Fits(entries, k, n)
  <2>1. \A i \in DOMAIN entries : \E o \in DOMAIN n : \E p \in Due(o, n) :
          entries[i] = EntryOf(o, p)
    BY <1>3, <1>4, <1>5, <1>6
  <2>2. \A o \in DOMAIN n : \A p \in Due(o, n) : \E i \in DOMAIN entries :
          entries[i] = EntryOf(o, p)
    <3>1. TAKE o \in DOMAIN n
    <3>2. TAKE p \in Due(o, n)
    <3>3. o = r
      BY <3>1, <1>5
    <3>4. PICK i \in 1..k : entries[i] = EntryOf(r, p)
      BY <3>2, <3>3, <1>7
    <3> QED BY <3>3, <3>4, <1>3
  <2>3. /\ k = Len(entries)
        /\ \A i \in DOMAIN entries :
             entries[i].table = entries[1].table /\ entries[i].pos = entries[1].pos + (i - 1)
    BY <1>3, <1>8
  <2>4. Len(entries) \in Nat \ {0} /\ DOMAIN entries = 1..Len(entries)
    BY <1>2, <1>3
  <2> QED BY <2>1, <2>2, <2>3, <2>4 DEF Fits
<1>10. k \in 1..k /\ table[r].tokens + (k - 1) = Len(history[r]) - 1
  BY <1>2
<1> QED BY <1>1, <1>3, <1>4, <1>6, <1>9, <1>10

\* The sequences of a decode step, as a sequence without doubles.
LEMMA DecodersType ==
  ASSUME NEW rs \in Decoders
  PROVE  /\ Len(rs) \in Nat /\ DOMAIN rs = 1..Len(rs)
         /\ rs # <<>> => Len(rs) # 0
         /\ \A i, j \in DOMAIN rs : i # j => rs[i] # rs[j]
         /\ \A i \in DOMAIN rs :
              /\ rs[i] \in Owner /\ Runs(rs[i]) /\ Left(rs[i]) = 1
              /\ 1 \in KVP!Runnable(rs[i])
<1>1. PICK k \in 0..Cardinality(Owner) : rs \in [1..k -> Owner]
  BY DEF Decoders
<1>2. k \in Nat
  BY FS_CardinalityType, ForwardAssumption
<1>3. Len(rs) = k /\ DOMAIN rs = 1..k
  BY <1>1, <1>2
<1>4. k = 0 => rs = <<>>
  BY <1>1, <1>2
<1> QED BY <1>1, <1>2, <1>3, <1>4, SamePasses DEF Decoders

\* A rectangle of one token of each has a row for each.
LEMMA RectangleOfOne ==
  ASSUME CacheInv, NEW rs \in Decoders
  PROVE  /\ DOMAIN Rectangle(rs, 1) = 1..Len(rs) /\ Len(Rectangle(rs, 1)) = Len(rs)
         /\ \A i \in 1..Len(rs) : Rectangle(rs, 1)[i] = EntryOf(rs[i], table[rs[i]].tokens)
         /\ \A i \in 1..Len(rs) : table[rs[i]].tokens = Len(history[rs[i]]) - 1
<1>1. Len(rs) \in Nat /\ Len(rs) * 1 = Len(rs)
  BY DecodersType
<1>2. DOMAIN Rectangle(rs, 1) = 1..Len(rs) /\ Len(Rectangle(rs, 1)) = Len(rs)
  BY <1>1 DEF Rectangle
<1>3. ASSUME NEW i \in 1..Len(rs)
      PROVE  /\ Rectangle(rs, 1)[i] = EntryOf(rs[i], table[rs[i]].tokens)
             /\ table[rs[i]].tokens = Len(history[rs[i]]) - 1
  <2>1. rs[i] \in Owner /\ Left(rs[i]) = 1
    BY DecodersType
  <2>2. table[rs[i]].tokens \in Nat /\ Len(history[rs[i]]) \in Nat
    BY <2>1, OwnerTyped
  <2>3. (i - 1) \div 1 + 1 = i /\ (i - 1) % 1 = 0
    BY <1>1, DivOne
  <2>4. Rectangle(rs, 1)[i] = EntryOf(rs[i], table[rs[i]].tokens + 0)
    BY <1>1, <2>3 DEF Rectangle, EntryOf
  <2> QED BY <2>1, <2>2, <2>4 DEF Left
<1> QED BY <1>2, <1>3

\* A decode step is one row for each of its sequences.
LEMMA DecodeFits ==
  ASSUME CacheInv, NEW rs \in Decoders, rs # <<>>,
         NEW n, n = [r \in Entries(rs) |-> 1], NEW entries, entries = Rectangle(rs, 1)
  PROVE  /\ CarriesOnly(n) /\ Fits(entries, 1, n) /\ DOMAIN entries = DOMAIN rs
         /\ \A i \in DOMAIN rs :
              /\ rs[i] \in DOMAIN n
              /\ Len(history[rs[i]]) - 1 \in Due(rs[i], n)
              /\ entries[i] = EntryOf(rs[i], Len(history[rs[i]]) - 1)
<1>1. /\ Len(rs) \in Nat \ {0} /\ DOMAIN rs = 1..Len(rs)
      /\ \A i \in 1..Len(rs) : rs[i] \in Owner /\ 1 \in KVP!Runnable(rs[i])
  BY DecodersType
<1>2. CarriesOnly(n)
  <2>1. Entries(rs) \in SUBSET Owner /\ \A r \in Entries(rs) : n[r] \in KVP!Runnable(r)
    BY <1>1 DEF Entries
  <2> QED BY <2>1, PassOf
<1>3. ASSUME NEW r \in Entries(rs) PROVE Due(r, n) = {table[r].tokens}
  <2>1. r \in Owner /\ table[r].tokens \in Nat /\ n[r] = 1
    BY <1>1, OwnerTyped DEF Entries
  <2> QED BY <2>1 DEF Due
<1>4. /\ DOMAIN entries = 1..Len(rs) /\ Len(entries) = Len(rs)
      /\ \A i \in 1..Len(rs) : /\ entries[i] = EntryOf(rs[i], table[rs[i]].tokens)
                               /\ table[rs[i]].tokens = Len(history[rs[i]]) - 1
  BY RectangleOfOne
<1>5. \A i \in 1..Len(rs) : rs[i] \in DOMAIN n
  BY DEF Entries
<1>6. \A r \in DOMAIN n : \E i \in 1..Len(rs) : r = rs[i]
  BY DEF Entries
<1>7. DOMAIN n = Entries(rs)
  OBVIOUS
<1>8. Fits(entries, 1, n)
  BY <1>1, <1>3, <1>4, <1>5, <1>6, <1>7, SMTT(60) DEF Fits
<1> QED BY <1>1, <1>2, <1>3, <1>4, <1>5, <1>7, <1>8

\* What a mixed step runs of its sequences.
MixedOf(rs, s, take) == [r \in Entries(rs) \cup {s} |-> IF r = s THEN take ELSE 1]

\* Where a mixed step lays its tokens out: one row for each decoding sequence,
\* then the rows of the slice.
LaidOut(rs, s, take, n, entries) ==
    /\ CarriesOnly(n) /\ Fits(entries, 1, n)
    /\ s \in DOMAIN n /\ take \in Nat \ {0} /\ Len(rs) \in Nat
    /\ DOMAIN entries = 1..(Len(rs) + take)
    /\ \A i \in 1..Len(rs) :
         /\ rs[i] \in DOMAIN n
         /\ Len(history[rs[i]]) - 1 \in Due(rs[i], n)
         /\ entries[i] = EntryOf(rs[i], Len(history[rs[i]]) - 1)
    /\ entries[Len(rs) + take] = EntryOf(s, table[s].tokens + (take - 1))
    /\ table[s].tokens + (take - 1) \in Due(s, n)

\* A mixed step is a decode step and the slice of a prompt behind it.
LEMMA MixedFits ==
  ASSUME CacheInv, NEW rs \in Decoders, NEW s \in Owner, s \notin Entries(rs),
         NEW take \in KVP!Runnable(s)
  PROVE  LaidOut(rs, s, take, MixedOf(rs, s, take), Unfolded(rs, s, take))
<1> DEFINE n == MixedOf(rs, s, take)
           entries == Unfolded(rs, s, take)
<1>1. /\ Len(rs) \in Nat /\ DOMAIN rs = 1..Len(rs)
      /\ \A i \in 1..Len(rs) : rs[i] \in Owner /\ 1 \in KVP!Runnable(rs[i])
  BY DecodersType
<1>2. CarriesOnly(n)
  <2>1. /\ Entries(rs) \cup {s} \in SUBSET Owner
        /\ \A r \in Entries(rs) \cup {s} : n[r] \in KVP!Runnable(r)
    BY <1>1 DEF Entries, MixedOf
  <2>2. n = [r \in Entries(rs) \cup {s} |-> n[r]]
    BY DEF MixedOf
  <2> QED BY <2>1, <2>2, PassOf
<1>3. /\ DOMAIN n = Entries(rs) \cup {s} /\ n[s] = take
      /\ \A r \in Entries(rs) : n[r] = 1
  BY DEF MixedOf
<1> HIDE DEF n
<1>4. take \in Nat \ {0} /\ table[s].tokens \in Nat
  BY <1>2, <1>3, DueBounds, OwnerTyped
<1>5. ASSUME NEW r \in Entries(rs) PROVE Due(r, n) = {table[r].tokens}
  <2>1. r \in Owner /\ table[r].tokens \in Nat /\ n[r] = 1
    BY <1>1, <1>3, OwnerTyped DEF Entries
  <2> QED BY <2>1 DEF Due
<1> DEFINE slice == [i \in 1..take |-> LET pos == table[s].tokens + i - 1 IN
              [table |-> table[s], pos |-> pos, token |-> history[s][pos + 1]]]
<1>6. /\ DOMAIN Rectangle(rs, 1) = 1..Len(rs) /\ Len(Rectangle(rs, 1)) = Len(rs)
      /\ \A i \in 1..Len(rs) :
           /\ Rectangle(rs, 1)[i] = EntryOf(rs[i], table[rs[i]].tokens)
           /\ table[rs[i]].tokens = Len(history[rs[i]]) - 1
  BY RectangleOfOne
<1>7. entries = Rectangle(rs, 1) \o slice
  BY DEF Unfolded
<1>8. Len(slice) = take
  BY <1>4
<1>9. \A i \in 1..take : slice[i] = EntryOf(s, table[s].tokens + (i - 1))
  <2> SUFFICES ASSUME NEW i \in 1..take PROVE slice[i] = EntryOf(s, table[s].tokens + (i - 1))
    OBVIOUS
  <2>1. table[s].tokens + i - 1 = table[s].tokens + (i - 1)
    BY <1>4
  <2> QED BY <2>1 DEF EntryOf
<1> DEFINE T == {EntryOf(r, p) : r \in Owner, p \in Nat}
<1>a. \A r \in Owner : \A p \in Nat : EntryOf(r, p) \in T
  OBVIOUS
<1> HIDE DEF T
<1>b. Rectangle(rs, 1) \in Seq(T)
  <2>1. Len(rs) \in Nat
    BY DecodersType
  <2>2. Len(rs) * 1 = Len(rs)
    BY <2>1
  <2>3. \A i \in 1..Len(rs) : Rectangle(rs, 1)[i] \in T
    BY <1>1, <1>6, <1>a, OwnerTyped
  <2>4. Rectangle(rs, 1) = [i \in 1..Len(rs) |-> Rectangle(rs, 1)[i]]
    BY <2>2 DEF Rectangle
  <2> QED BY <2>1, <2>3, <2>4
<1>c. slice \in Seq(T)
  <2>1. \A i \in 1..take : table[s].tokens + (i - 1) \in Nat
    BY <1>4
  <2>2. slice = [i \in 1..take |-> slice[i]]
    OBVIOUS
  <2> HIDE DEF slice
  <2>3. \A i \in 1..take : slice[i] \in T
    BY <1>9, <1>a, <2>1
  <2> QED BY <1>4, <2>2, <2>3
<1> HIDE DEF slice
<1>10. /\ DOMAIN entries = 1..(Len(rs) + take) /\ Len(entries) = Len(rs) + take
       /\ \A i \in 1..Len(rs) : entries[i] = EntryOf(rs[i], table[rs[i]].tokens)
       /\ \A i \in 1..take : entries[Len(rs) + i] = EntryOf(s, table[s].tokens + (i - 1))
  <2>1. \A i \in 1..(Len(rs) + take) :
          entries[i] = IF i <= Len(rs) THEN Rectangle(rs, 1)[i] ELSE slice[i - Len(rs)]
    BY <1>6, <1>7, <1>8, <1>b, <1>c, ConcatProperties
  <2>2. DOMAIN entries = 1..(Len(rs) + take) /\ Len(entries) = Len(rs) + take
    <3>1. entries \in Seq(T) /\ Len(entries) = Len(rs) + take
      BY <1>6, <1>7, <1>8, <1>b, <1>c, ConcatProperties
    <3> QED BY <3>1
  <2>3. ASSUME NEW i \in 1..Len(rs) PROVE entries[i] = Rectangle(rs, 1)[i]
    <3>1. i \in 1..(Len(rs) + take) /\ i <= Len(rs)
      BY <1>1, <1>4
    <3> QED BY <2>1, <3>1
  <2>4. ASSUME NEW i \in 1..take PROVE entries[Len(rs) + i] = slice[i]
    <3>1. Len(rs) + i \in 1..(Len(rs) + take) /\ ~ (Len(rs) + i <= Len(rs))
          /\ (Len(rs) + i) - Len(rs) = i
      BY <1>1, <1>4
    <3> QED BY <2>1, <3>1
  <2> QED BY <1>6, <1>9, <2>2, <2>3, <2>4
<1>11. Due(s, n) = table[s].tokens..(table[s].tokens + take - 1)
  BY <1>3 DEF Due
<1>12. ASSUME NEW i \in 1..take PROVE table[s].tokens + (i - 1) \in Due(s, n)
  BY <1>4, <1>11
<1>13. ASSUME NEW p \in Due(s, n)
       PROVE  \E i \in 1..take : p = table[s].tokens + (i - 1)
  <2>1. p - table[s].tokens + 1 \in 1..take
        /\ table[s].tokens + ((p - table[s].tokens + 1) - 1) = p
    BY <1>4, <1>11
  <2> QED BY <2>1
<1>14. \A i \in 1..Len(rs) : rs[i] \in Entries(rs) /\ rs[i] \in DOMAIN n
  BY <1>3 DEF Entries
<1>15. Fits(entries, 1, n)
  <2>0. DOMAIN entries = 1..(Len(rs) + take)
    BY <1>10
  <2>1. ASSUME NEW i \in DOMAIN entries
        PROVE  \E r \in DOMAIN n : \E p \in Due(r, n) : entries[i] = EntryOf(r, p)
    <3>1. CASE i \in 1..Len(rs)
      BY <1>5, <1>10, <1>14, <3>1
    <3>2. CASE i \notin 1..Len(rs)
      <4>1. i - Len(rs) \in 1..take /\ Len(rs) + (i - Len(rs)) = i
        BY <1>1, <1>4, <2>0, <3>2
      <4>2. entries[i] = EntryOf(s, table[s].tokens + ((i - Len(rs)) - 1))
        BY <1>10, <4>1
      <4> QED BY <1>3, <1>12, <4>1, <4>2
    <3> QED BY <3>1, <3>2
  <2>2. ASSUME NEW r \in DOMAIN n, NEW p \in Due(r, n)
        PROVE  \E i \in DOMAIN entries : entries[i] = EntryOf(r, p)
    <3>1. CASE r \in Entries(rs)
      <4>1. PICK i \in 1..Len(rs) : r = rs[i]
        BY <3>1 DEF Entries
      <4>2. p = table[r].tokens
        BY <1>5, <2>2, <3>1
      <4>3. i \in DOMAIN entries
        BY <1>1, <1>4, <2>0
      <4> QED BY <1>10, <4>1, <4>2, <4>3
    <3>2. CASE r = s
      <4>1. PICK i \in 1..take : p = table[s].tokens + (i - 1)
        BY <1>13, <2>2, <3>2
      <4>2. Len(rs) + i \in DOMAIN entries
        BY <1>1, <1>4, <2>0
      <4> QED BY <1>10, <3>2, <4>1, <4>2
    <3> QED BY <1>3, <3>1, <3>2
  <2>3. Len(entries) \in Nat \ {0} /\ DOMAIN entries = 1..Len(entries)
    BY <1>1, <1>4, <1>10
  <2> QED BY <2>1, <2>2, <2>3 DEF Fits
<1>16. take \in 1..take
  BY <1>4
<1> HIDE DEF entries
<1>17. LaidOut(rs, s, take, n, entries)
  BY <1>1, <1>2, <1>3, <1>4, <1>5, <1>6, <1>10, <1>12, <1>14, <1>15, <1>16 DEF LaidOut
<1> QED BY <1>17 DEF n, entries

-----------------------------------------------------------------------------
(* What a layer computes. *)

\* A prefix of a history, its length, its last token and its prefixes.
LEMMA PrefixFacts ==
  ASSUME NEW H \in Seq(Token), NEW q \in Nat, q < Len(H)
  PROVE  /\ SubSeq(H, 1, q + 1) \in Seq(Token)
         /\ Len(SubSeq(H, 1, q + 1)) = q + 1
         /\ SubSeq(H, 1, q + 1) # Garbage
         /\ Last(SubSeq(H, 1, q + 1)) = H[q + 1]
         /\ \A m \in 0..q : SubSeq(SubSeq(H, 1, q + 1), 1, m + 1) = SubSeq(H, 1, m + 1)
<1>1. Len(H) \in Nat /\ q + 1 \in 0..Len(H)
  OBVIOUS
<1>2. SubSeq(H, 1, q + 1) \in Seq(Token) /\ Len(SubSeq(H, 1, q + 1)) = q + 1
  BY <1>1, MappedAssumptions, KVP!PrefixType
<1>3. Last(SubSeq(H, 1, q + 1)) = H[q + 1]
  BY <1>1, <1>2 DEF Last
<1>4. SubSeq(H, 1, q + 1) # Garbage
  BY <1>2 DEF Garbage
<1>5. ASSUME NEW m \in 0..q
      PROVE  SubSeq(SubSeq(H, 1, q + 1), 1, m + 1) = SubSeq(H, 1, m + 1)
  <2>1. m + 1 \in 0..(q + 1)
    BY <1>1
  <2> QED BY <1>1, <2>1, MappedAssumptions, KVP!PrefixOfPrefix
<1> QED BY <1>2, <1>3, <1>4, <1>5

\* Attention over the vectors of one history gives its prefix.
LEMMA AttendedOwn ==
  ASSUME NEW H \in Seq(Token), NEW p \in Nat, p < Len(H), NEW l, NEW h,
         NEW read, read = [q \in 0..p |-> Vector(l, h, SubSeq(H, 1, q + 1))]
  PROVE  Attended(read, l, h) = SubSeq(H, 1, p + 1)
<1> DEFINE n == Cardinality(DOMAIN read)
           at(q) == CHOOSE m \in DOMAIN read : read[m].at = q
           of(q) == read[at(q)].of
           prefix == [m \in 1..n |-> Last(of(m - 1))]
<1>1. DOMAIN read = 0..p /\ n = p + 1
  <2>1. 0 \in Int /\ p \in Int
    OBVIOUS
  <2>2. Cardinality(0..p) = p + 1
    BY <2>1, FS_Interval
  <2> QED BY <2>2
<1>2. ASSUME NEW q \in 0..p
      PROVE  /\ q \in Nat /\ q < Len(H)
             /\ read[q] = Vector(l, h, SubSeq(H, 1, q + 1))
             /\ read[q].at = q /\ read[q].head = h
             /\ read[q].of = IF l = 1 THEN <<H[q + 1]>> ELSE SubSeq(H, 1, q + 1)
  <2>1. q \in Nat /\ q < Len(H)
    OBVIOUS
  <2>2. Len(SubSeq(H, 1, q + 1)) - 1 = q /\ Last(SubSeq(H, 1, q + 1)) = H[q + 1]
    BY <2>1, PrefixFacts
  <2> QED BY <2>1, <2>2 DEF Vector
<1>3. ASSUME NEW q \in 0..p PROVE at(q) = q
  <2>1. q \in DOMAIN read /\ read[q].at = q /\ \A m \in DOMAIN read : read[m].at = m
    BY <1>1, <1>2
  <2> QED BY <2>1
<1>4. ASSUME NEW q \in 0..p
      PROVE  of(q) = IF l = 1 THEN <<H[q + 1]>> ELSE SubSeq(H, 1, q + 1)
  <2> HIDE DEF at
  <2> QED BY <1>2, <1>3
<1>5. ASSUME NEW q \in 0..p PROVE Last(of(q)) = H[q + 1]
  <2>1. Last(<<H[q + 1]>>) = H[q + 1]
    BY DEF Last
  <2>2. Last(SubSeq(H, 1, q + 1)) = H[q + 1]
    BY <1>2, PrefixFacts
  <2> HIDE DEF of
  <2> QED BY <1>4, <2>1, <2>2
<1> HIDE DEF of
<1>6. prefix = SubSeq(H, 1, p + 1)
  <2>1. prefix = [m \in 1..(p + 1) |-> H[m]]
    <3>1. \A m \in 1..(p + 1) : m - 1 \in 0..p /\ (m - 1) + 1 = m
      OBVIOUS
    <3>2. \A m \in 1..(p + 1) : Last(of(m - 1)) = H[m]
      BY <1>5, <3>1
    <3> HIDE DEF n
    <3> QED BY <1>1, <3>2
  <2>2. SubSeq(H, 1, p + 1) = [m \in 1..(p + 1) |-> H[m]]
    OBVIOUS
  <2> QED BY <2>1, <2>2
<1>7. {read[q].at : q \in DOMAIN read} = 0..(n - 1)
  <2>1. {read[q].at : q \in 0..p} = 0..p
    <3>1. \A q \in 0..p : read[q].at = q
      BY <1>2
    <3> QED BY <3>1
  <2>2. n - 1 = p
    BY <1>1
  <2> HIDE DEF n
  <2> QED BY <1>1, <2>1, <2>2
<1>8. \A q \in DOMAIN read : read[q].head = h /\ read[q].of # Garbage
  <2> SUFFICES ASSUME NEW q \in 0..p PROVE read[q].head = h /\ read[q].of # Garbage
    BY <1>1
  <2>1. SubSeq(H, 1, q + 1) # Garbage /\ <<H[q + 1]>> # Garbage
    BY <1>2, PrefixFacts DEF Garbage
  <2> QED BY <1>2, <2>1
<1>9. ASSUME NEW m \in 1..n
      PROVE  of(m - 1) = IF l = 1 THEN <<prefix[m]>> ELSE SubSeq(prefix, 1, m)
  <2>1. m - 1 \in 0..p /\ m \in Nat /\ (m - 1) + 1 = m
    BY <1>1
  <2>2. of(m - 1) = IF l = 1 THEN <<H[m]>> ELSE SubSeq(H, 1, m)
    BY <1>4, <2>1
  <2>3. prefix[m] = H[m]
    BY <1>5, <2>1
  <2>4. SubSeq(SubSeq(H, 1, p + 1), 1, m) = SubSeq(H, 1, m)
    <3>1. SubSeq(SubSeq(H, 1, p + 1), 1, (m - 1) + 1) = SubSeq(H, 1, (m - 1) + 1)
      BY <2>1, PrefixFacts
    <3> QED BY <2>1, <3>1
  <2> HIDE DEF prefix
  <2> QED BY <1>6, <2>2, <2>3, <2>4
<1>10. Attended(read, l, h) =
         IF /\ {read[q].at : q \in DOMAIN read} = 0..(n - 1)
            /\ \A q \in DOMAIN read : read[q].head = h /\ read[q].of # Garbage
            /\ \A m \in 1..n :
                 of(m - 1) = IF l = 1 THEN <<prefix[m]>> ELSE SubSeq(prefix, 1, m)
         THEN prefix ELSE Garbage
  BY DEF Attended, of
<1> HIDE DEF prefix, n
<1> QED BY <1>6, <1>7, <1>8, <1>9, <1>10

\* The hidden state of a token after a layer whose reads are all its own.
LEMMA HiddenOwn ==
  ASSUME NEW written, NEW l, NEW batch, NEW x, NEW i, NEW H \in Seq(Token),
         NEW p \in Nat, p < Len(H),
         Position(batch, i) = p, Visible(batch, i) = 0..p,
         \A q \in 0..p, h \in KvHead :
           ReadAt(written, batch, RowOf(batch, i), q)[h] = Vector(l, h, SubSeq(H, 1, q + 1)),
         x[i] # Garbage, Last(x[i]) = H[p + 1]
  PROVE  Hidden(written, l, batch, x, i) = SubSeq(H, 1, p + 1)
<1> DEFINE read(h) == [q \in Visible(batch, i) |->
                         ReadAt(written, batch, RowOf(batch, i), q)[h]]
           results == {Attended(read(h), l, h) : h \in KvHead}
           prefix == CHOOSE s \in results : TRUE
<1>1. ASSUME NEW h \in KvHead PROVE Attended(read(h), l, h) = SubSeq(H, 1, p + 1)
  <2>1. read(h) = [q \in 0..p |-> Vector(l, h, SubSeq(H, 1, q + 1))]
    OBVIOUS
  <2> HIDE DEF read
  <2> QED BY <2>1, AttendedOwn
<1>2. 1 \in KvHead
  BY ForwardAssumption DEF KvHead
<1> HIDE DEF read
<1>3. results = {SubSeq(H, 1, p + 1)}
  BY <1>1, <1>2
<1> HIDE DEF results
<1>4. prefix = SubSeq(H, 1, p + 1)
  BY <1>3
<1>5. Len(SubSeq(H, 1, p + 1)) = p + 1 /\ Last(SubSeq(H, 1, p + 1)) = H[p + 1]
  BY PrefixFacts
<1>6. Hidden(written, l, batch, x, i) =
        IF /\ results = {prefix} /\ Len(prefix) = Position(batch, i) + 1
           /\ x[i] # Garbage /\ Last(prefix) = Last(x[i])
        THEN prefix ELSE Garbage
  BY DEF Hidden, results, read
<1> HIDE DEF prefix
<1> QED BY <1>3, <1>4, <1>5, <1>6

-----------------------------------------------------------------------------
(* What a layer writes. *)

\* The slots of a batch are the slots of its pass.
LEMMA SlotsAreDue ==
  ASSUME NEW batch, NEW n, Aligned(batch, n), NEW slot
  PROVE  slot \in Entries(batch.write_slots) <=>
           \E r \in DOMAIN n : \E p \in Due(r, n) : SlotOf(r, p) = slot
<1>1. ASSUME slot \in Entries(batch.write_slots)
      PROVE  \E r \in DOMAIN n : \E p \in Due(r, n) : SlotOf(r, p) = slot
  <2>1. PICK i \in DOMAIN batch.tokens : batch.write_slots[i] = slot
    BY <1>1 DEF Entries, Aligned
  <2>2. PICK r \in DOMAIN n : Carries(batch, n, i, r)
    BY DEF Aligned
  <2> QED BY <2>1, <2>2 DEF Carries
<1>2. ASSUME NEW r \in DOMAIN n, NEW p \in Due(r, n), SlotOf(r, p) = slot
      PROVE  slot \in Entries(batch.write_slots)
  <2>1. PICK i \in DOMAIN batch.tokens : Carries(batch, n, i, r) /\ Position(batch, i) = p
    BY DEF Aligned
  <2>2. batch.write_slots[i] = slot /\ i \in 1..Len(batch.write_slots)
    BY <1>2, <2>1 DEF Carries, Aligned
  <2> QED BY <2>2 DEF Entries
<1> QED BY <1>1, <1>2

\* A slot the batch does not write keeps its vectors.
LEMMA WriteLeaves ==
  ASSUME NEW k, NEW batch, NEW x, Len(x) = Len(batch.write_slots)
  PROVE  \A b \in Block, o \in Offset : <<b, o>> \notin Entries(batch.write_slots) =>
           Write(k, batch, x)[b][o] = k[b][o]
<1> SUFFICES ASSUME NEW b \in Block, NEW o \in Offset, <<b, o>> \notin Entries(batch.write_slots)
             PROVE  Write(k, batch, x)[b][o] = k[b][o]
  OBVIOUS
<1>1. <<b, o>> \notin {batch.write_slots[i] : i \in 1..Len(x)}
  BY DEF Entries
<1> QED BY <1>1 DEF Write

\* A slot holds the vectors of a token of the batch.
Landed(k, batch, x, b, o, i) ==
    /\ batch.write_slots[i] = <<b, o>>
    /\ \A h \in KvHead : k[b][o][h] = [at |-> Position(batch, i), head |-> h, of |-> x[i]]

\* A slot the batch writes gets the vectors of one of the tokens that have it.
LEMMA WriteGives ==
  ASSUME NEW k, NEW batch, NEW x, Len(x) = Len(batch.write_slots)
  PROVE  \A b \in Block, o \in Offset : <<b, o>> \in Entries(batch.write_slots) =>
           \E i \in 1..Len(x) : Landed(Write(k, batch, x), batch, x, b, o, i)
<1> SUFFICES ASSUME NEW b \in Block, NEW o \in Offset, <<b, o>> \in Entries(batch.write_slots)
             PROVE  \E i \in 1..Len(x) : Landed(Write(k, batch, x), batch, x, b, o, i)
  OBVIOUS
<1> DEFINE written == 1..Len(x)
           Lands(j) == batch.write_slots[j] = <<b, o>>
           i == CHOOSE j \in written : Lands(j)
<1>1. <<b, o>> \in {batch.write_slots[j] : j \in written}
  BY DEF Entries
<1>2. \E j \in written : Lands(j)
  BY <1>1
<1>3. i \in written /\ Lands(i)
  BY <1>2
<1>4. Write(k, batch, x)[b][o] =
        [h \in KvHead |-> [at |-> Position(batch, Landing(batch, i, h)[1]),
                           head |-> Landing(batch, i, h)[2],
                           of |-> x[Landing(batch, i, h)[1]]]]
  BY <1>1 DEF Write
<1> HIDE DEF i
<1>5. \A h \in KvHead : Landing(batch, i, h)[1] = i /\ Landing(batch, i, h)[2] = h
  BY DEF Landing
<1>6. \A h \in KvHead :
        Write(k, batch, x)[b][o][h] = [at |-> Position(batch, i), head |-> h, of |-> x[i]]
  BY <1>4, <1>5
<1> QED BY <1>3, <1>6 DEF Landed

\* What the tokens of the batch bring to a layer.
Brings(batch, n, layer, x) ==
    /\ DOMAIN x = DOMAIN batch.tokens /\ Len(x) = Len(batch.tokens)
    /\ \A i \in DOMAIN batch.tokens, r \in DOMAIN n : Carries(batch, n, i, r) =>
         x[i] = IF layer = 0 THEN <<batch.tokens[i]>> ELSE Prefix(r, Position(batch, i))

\* A layer writes at every position the vectors of its sequence's prefix.
LEMMA LayerWrites ==
  ASSUME CacheInv, NEW n, CarriesOnly(n), NEW batch, Aligned(batch, n),
         NEW l \in Nat \ {0}, NEW x, Brings(batch, n, l - 1, x), NEW k,
         NEW r \in DOMAIN n, NEW p \in Due(r, n), NEW h \in KvHead
  PROVE  Write(k, batch, x)[SlotBlock(table[r], p)][p % BlockSize][h]
           = Vector(l, h, Prefix(r, p))
<1> DEFINE b == SlotBlock(table[r], p)
           o == p % BlockSize
<1>1. r \in Owner /\ p \in Nat /\ p < Len(history[r]) /\ p < Capacity(table[r])
  BY DueBounds
<1>2. b \in Block /\ o \in Offset
  BY <1>1, SlotIn
<1>3. <<b, o>> \in Entries(batch.write_slots)
  BY SlotsAreDue DEF SlotOf
<1>4. PICK i \in 1..Len(x) : Landed(Write(k, batch, x), batch, x, b, o, i)
  <2>1. Len(x) = Len(batch.write_slots)
    BY DEF Brings, Aligned
  <2> HIDE DEF b, o
  <2> QED BY <1>2, <1>3, <2>1, WriteGives
<1>a. i \in DOMAIN batch.tokens
  BY <1>4 DEF Brings, Aligned
<1>5. PICK s \in DOMAIN n : Carries(batch, n, i, s)
  BY <1>a DEF Aligned
<1>6. s = r /\ Position(batch, i) = p
  <2>1. Position(batch, i) \in Due(s, n) /\ SlotOf(s, Position(batch, i)) = SlotOf(r, p)
    BY <1>4, <1>5 DEF Carries, SlotOf, Landed
  <2> QED BY <1>1, <2>1, SlotsApart
<1>7. batch.tokens[i] = history[r][p + 1]
  BY <1>5, <1>6 DEF Carries
<1>8. history[r] \in Seq(Token)
  BY <1>1, OwnerTyped
<1>9. Len(Prefix(r, p)) - 1 = p /\ Last(Prefix(r, p)) = history[r][p + 1]
  BY <1>1, <1>8, PrefixFacts DEF Prefix
<1>10. x[i] = IF l = 1 THEN <<history[r][p + 1]>> ELSE Prefix(r, p)
  <2>1. l - 1 = 0 <=> l = 1
    OBVIOUS
  <2> QED BY <1>a, <1>5, <1>6, <1>7, <2>1 DEF Brings
<1> QED BY <1>4, <1>6, <1>9, <1>10 DEF Vector, Landed

\* A layer leaves every other position of every sequence alone.
LEMMA LayerLeaves ==
  ASSUME CacheInv, NEW n, CarriesOnly(n), NEW batch, Aligned(batch, n),
         NEW x, Len(x) = Len(batch.tokens), NEW k,
         NEW r \in Owner, NEW q \in Nat, q < Capacity(table[r]),
         r \in DOMAIN n => q \notin Due(r, n)
  PROVE  Write(k, batch, x)[SlotBlock(table[r], q)][q % BlockSize]
           = k[SlotBlock(table[r], q)][q % BlockSize]
<1>1. SlotBlock(table[r], q) \in Block /\ q % BlockSize \in Offset
  BY SlotIn
<1>2. ASSUME SlotOf(r, q) \in Entries(batch.write_slots) PROVE FALSE
  <2>1. PICK s \in DOMAIN n : \E p \in Due(s, n) : SlotOf(s, p) = SlotOf(r, q)
    BY <1>2, SlotsAreDue
  <2>2. PICK p \in Due(s, n) : SlotOf(s, p) = SlotOf(r, q)
    BY <2>1
  <2>3. s = r /\ p = q
    BY <2>2, SlotsApart
  <2> QED BY <2>2, <2>3
<1> DEFINE b == SlotBlock(table[r], q)
           o == q % BlockSize
<1>3. b \in Block /\ o \in Offset /\ <<b, o>> \notin Entries(batch.write_slots)
  BY <1>1, <1>2 DEF SlotOf
<1> HIDE DEF b, o
<1>4. Write(k, batch, x)[b][o] = k[b][o]
  <2>1. Len(x) = Len(batch.write_slots)
    BY DEF Aligned
  <2> QED BY <1>3, <2>1, WriteLeaves
<1> QED BY <1>4 DEF b, o

-----------------------------------------------------------------------------
(* The inductive invariant. *)

\* The layers a pass has run have written its prefixes, into slots that are whole
\* again once the last one has.
Computing(k, t, batch, n, layer, x) ==
    /\ Brings(batch, n, layer, x)
    /\ \A l \in 1..layer, r \in DOMAIN n : \A p \in Due(r, n), h \in KvHead :
         k[l][SlotBlock(table[r], p)][p % BlockSize][h] = Vector(l, h, Prefix(r, p))
    /\ layer = Layers => \A r \in DOMAIN n : \A p \in Due(r, n) : SlotOf(r, p) \notin t

\* A pass under way carries what it may, in order, and nothing else goes on.
PassHolds ==
    pass # NoPass =>
      /\ pass = [batch |-> pass.batch, n |-> pass.n, ids |-> pass.ids,
                 layer |-> pass.layer, x |-> pass.x]
      /\ pass.layer \in 0..Layers
      /\ \A r \in Owner : inflight[r] = 0
      /\ DOMAIN sampled = {}
      /\ CarriesOnly(pass.n)
      /\ \A r \in DOMAIN pass.n : Len(history[r]) < MostTokens[r]
      /\ Aligned(pass.batch, pass.n)
      /\ Wanted(pass.batch, pass.n, pass.ids)
      /\ Computing(keys, torn, pass.batch, pass.n, pass.layer, pass.x)

\* A token keeps its place as long as tables and histories stay.
LEMMA CarriesStays ==
  ASSUME UNCHANGED <<table, history, attention>>, NEW batch, NEW n, NEW i, NEW r
  PROVE  Carries(batch, n, i, r)' <=> Carries(batch, n, i, r)
<1>1. Due(r, n)' = Due(r, n)
  BY DEF Due
<1>2. \A p : SlotOf(r, p)' = SlotOf(r, p)
  BY DEF SlotOf
<1>3. Visible(batch, i)' = Visible(batch, i)
  BY DEF Visible, Walked, Unmasked, Position, RowOf, OffsetOf
<1> QED BY <1>1, <1>2, <1>3 DEF Carries, Position, RowOf, OffsetOf

\* So do the batch and what it may carry.
LEMMA BatchStays ==
  ASSUME UNCHANGED <<table, history, attention>>, NEW batch, NEW n, NEW ids, NEW layer, NEW x
  PROVE  /\ CarriesOnly(n)' <=> CarriesOnly(n)
         /\ Aligned(batch, n)' <=> Aligned(batch, n)
         /\ Wanted(batch, n, ids)' <=> Wanted(batch, n, ids)
         /\ Brings(batch, n, layer, x)' <=> Brings(batch, n, layer, x)
<1>1. \A r : Due(r, n)' = Due(r, n)
  BY DEF Due
<1>2. \A r, p : Prefix(r, p)' = Prefix(r, p)
  BY DEF Prefix
<1>3. CarriesOnly(n)' <=> CarriesOnly(n)
  <2>1. \A r : KVP!Runnable(r)' = KVP!Runnable(r)
    BY DEF KVP!Runnable
  <2> QED BY <2>1 DEF CarriesOnly, KVP!Passes
<1>4. \A i, r : Carries(batch, n, i, r)' <=> Carries(batch, n, i, r)
  BY CarriesStays
<1>5. Aligned(batch, n)' <=> Aligned(batch, n)
  BY <1>1, <1>4 DEF Aligned, Position, RowOf, OffsetOf
<1>6. Wanted(batch, n, ids)' <=> Wanted(batch, n, ids)
  BY <1>4, CarriesStays DEF Wanted, Position, RowOf, OffsetOf
<1>7. Brings(batch, n, layer, x)' <=> Brings(batch, n, layer, x)
  BY <1>2, <1>4 DEF Brings, Position, RowOf, OffsetOf
<1> QED BY <1>3, <1>5, <1>6, <1>7

\* A pass that goes on like this goes on.
LEMMA PassKept ==
  ASSUME UNCHANGED <<table, history, attention>>,
         NEW batch, NEW n, NEW ids, NEW layer, NEW x,
         pass' = [batch |-> batch, n |-> n, ids |-> ids, layer |-> layer, x |-> x],
         layer \in 0..Layers, CarriesOnly(n), Aligned(batch, n), Wanted(batch, n, ids),
         \A r \in Owner : inflight'[r] = 0, DOMAIN sampled' = {},
         \A r \in DOMAIN n : Len(history[r]) < MostTokens[r],
         Computing(keys', torn', batch, n, layer, x)
  PROVE  PassHolds'
<1>1. /\ pass'.batch = batch /\ pass'.n = n /\ pass'.ids = ids
      /\ pass'.layer = layer /\ pass'.x = x
  OBVIOUS
<1>2. /\ CarriesOnly(pass.n)' /\ Aligned(pass.batch, pass.n)'
      /\ Wanted(pass.batch, pass.n, pass.ids)'
      /\ Brings(pass.batch, pass.n, pass.layer, pass.x)'
  BY <1>1, BatchStays DEF Computing
<1>3. Computing(keys, torn, pass.batch, pass.n, pass.layer, pass.x)'
  <2>1. \A r : Due(r, pass.n)' = Due(r, n)
    BY <1>1 DEF Due
  <2>2. \A r, p : Prefix(r, p)' = Prefix(r, p) /\ SlotOf(r, p)' = SlotOf(r, p)
    BY DEF Prefix, SlotOf
  <2> QED BY <1>1, <1>2, <2>1, <2>2 DEF Computing
<1> QED BY <1>1, <1>2, <1>3 DEF PassHolds

\* A pass begins with nothing computed.
LEMMA BeginKeeps ==
  ASSUME NEW batch, NEW n, NEW ids, Begin(batch, n, ids),
         CarriesOnly(n), Aligned(batch, n), Wanted(batch, n, ids),
         \A r \in DOMAIN n : Len(history[r]) < MostTokens[r]
  PROVE  PassHolds'
<1> DEFINE x == [i \in DOMAIN batch.tokens |-> <<batch.tokens[i]>>]
<1>1. pass' = [batch |-> batch, n |-> n, ids |-> ids, layer |-> 0, x |-> x]
  BY DEF Begin
<1>2. Brings(batch, n, 0, x)
  BY DEF Brings, Aligned
<1>3. Computing(keys', torn', batch, n, 0, x)
  BY <1>2, ForwardAssumption DEF Computing
<1>4. /\ UNCHANGED <<table, history, attention>>
      /\ \A r \in Owner : inflight'[r] = 0
      /\ DOMAIN sampled' = {}
  BY DEF Begin, Between
<1>5. 0 \in 0..Layers
  BY ForwardAssumption
<1> HIDE DEF x
<1> QED BY <1>1, <1>3, <1>4, <1>5, PassKept

\* So does a prefill.
LEMMA PrefillKeeps ==
  ASSUME CacheInv, NEW r \in Owner, Prefill(r)
  PROVE  PassHolds'
<1> DEFINE k == Left(r)
           n == [o \in {r} |-> k]
           entries == Rectangle(<<r>>, k)
           batch == BatchOf(entries, k, <<k>>)
<1>1. Runs(r) /\ k \in KVP!Runnable(r) /\ Begin(batch, n, <<r>>)
  BY SamePasses DEF Prefill
<1>2. /\ CarriesOnly(n) /\ Fits(entries, k, n) /\ k \in DOMAIN entries
      /\ Len(history[r]) - 1 \in Due(r, n)
      /\ entries[k] = EntryOf(r, Len(history[r]) - 1)
  BY <1>1, PrefillFits
<1>3. DOMAIN n = {r} /\ Len(history[r]) < MostTokens[r]
  BY <1>1 DEF Runs
<1>4. batch.logit_rows = <<k>>
  BY DEF BatchOf
<1> HIDE DEF entries, n, k
<1>5. Aligned(batch, n) /\ DOMAIN batch.tokens = DOMAIN entries
  BY <1>2, FitsAligned
<1>6. Carries(batch, n, k, r) /\ Position(batch, k) = Len(history[r]) - 1
  BY <1>2, <1>3, EntryCarried
<1> HIDE DEF batch
<1>7. Wanted(batch, n, <<r>>)
  <2>1. Len(<<r>>) = 1 /\ DOMAIN <<r>> = 1..1
    OBVIOUS
  <2> QED BY <1>2, <1>3, <1>4, <1>5, <1>6, <2>1 DEF Wanted
<1> QED BY <1>1, <1>2, <1>3, <1>5, <1>7, BeginKeeps

\* A decode step.
LEMMA DecodeKeeps ==
  ASSUME CacheInv, NEW rs \in Decoders, Decode(rs)
  PROVE  PassHolds'
<1> DEFINE n == [r \in Entries(rs) |-> 1]
           entries == Rectangle(rs, 1)
           batch == BatchOf(entries, 1, [i \in DOMAIN rs |-> i])
<1>1. rs # <<>> /\ Begin(batch, n, rs)
  BY DEF Decode
<1>2. /\ CarriesOnly(n) /\ Fits(entries, 1, n) /\ DOMAIN entries = DOMAIN rs
      /\ \A i \in DOMAIN rs :
           /\ rs[i] \in DOMAIN n
           /\ Len(history[rs[i]]) - 1 \in Due(rs[i], n)
           /\ entries[i] = EntryOf(rs[i], Len(history[rs[i]]) - 1)
  BY <1>1, DecodeFits
<1>3. \A r \in DOMAIN n : Len(history[r]) < MostTokens[r]
  BY DecodersType DEF Entries, Runs
<1>4. batch.logit_rows = [i \in DOMAIN rs |-> i]
  BY DEF BatchOf
<1> HIDE DEF entries, n
<1>5. Aligned(batch, n) /\ DOMAIN batch.tokens = DOMAIN entries
  BY <1>2, FitsAligned
<1>6. ASSUME NEW i \in DOMAIN rs
      PROVE  Carries(batch, n, i, rs[i]) /\ Position(batch, i) = Len(history[rs[i]]) - 1
  BY <1>2, EntryCarried
<1> HIDE DEF batch
<1>7. Wanted(batch, n, rs)
  BY <1>2, <1>4, <1>5, <1>6, DecodersType DEF Wanted
<1> QED BY <1>1, <1>2, <1>3, <1>5, <1>7, BeginKeeps

\* What is appended to a sequence goes last.
LEMMA AppendLast ==
  ASSUME NEW S, NEW seq \in Seq(S), NEW e \in S, NEW n, n = Len(seq)
  PROVE  /\ Len(Append(seq, e)) = n + 1 /\ DOMAIN Append(seq, e) = 1..(n + 1)
         /\ Append(seq, e)[n + 1] = e
         /\ \A k \in 1..n : Append(seq, e)[k] = seq[k]
OBVIOUS

\* A decode step with the slice of a prompt.
LEMMA MixedKeeps ==
  ASSUME CacheInv, NEW rs \in Decoders, NEW s \in Owner, NEW take \in KV!Runnable(s),
         Mixed(rs, s, take)
  PROVE  PassHolds'
<1> DEFINE n == MixedOf(rs, s, take)
           entries == Unfolded(rs, s, take)
           decodes == [i \in DOMAIN rs |-> i]
           last == take = Left(s)
           rows == IF last THEN Append(decodes, SliceRow(Len(rs), take)) ELSE decodes
           ids == IF last THEN Append(rs, s) ELSE rs
           batch == BatchOf(entries, 1, rows)
<1>1. Runs(s) /\ s \notin Entries(rs) /\ take \in KVP!Runnable(s) /\ Begin(batch, n, ids)
  BY SamePasses DEF Mixed, MixedOf
<1>2. /\ CarriesOnly(n) /\ Fits(entries, 1, n)
      /\ s \in DOMAIN n /\ take \in Nat \ {0} /\ Len(rs) \in Nat
      /\ DOMAIN entries = 1..(Len(rs) + take)
      /\ \A i \in 1..Len(rs) :
           /\ rs[i] \in DOMAIN n
           /\ Len(history[rs[i]]) - 1 \in Due(rs[i], n)
           /\ entries[i] = EntryOf(rs[i], Len(history[rs[i]]) - 1)
      /\ entries[Len(rs) + take] = EntryOf(s, table[s].tokens + (take - 1))
      /\ table[s].tokens + (take - 1) \in Due(s, n)
  BY <1>1, MixedFits DEF LaidOut
<1>3. \A r \in DOMAIN n : Len(history[r]) < MostTokens[r]
  BY <1>1, DecodersType DEF Entries, Runs, MixedOf
<1>4. batch.logit_rows = rows
  BY DEF BatchOf
<1>a. /\ DOMAIN rs = 1..Len(rs) /\ rs \in Seq(Owner)
      /\ decodes \in Seq(Nat) /\ Len(decodes) = Len(rs)
  <2>1. DOMAIN rs = 1..Len(rs) /\ \A i \in 1..Len(rs) : rs[i] \in Owner
    BY DecodersType
  <2>2. \E k \in 0..Cardinality(Owner) : rs \in [1..k -> Owner]
    BY DEF Decoders
  <2>3. rs = [i \in 1..Len(rs) |-> rs[i]]
    BY <2>1, <2>2
  <2>4. rs \in Seq(Owner)
    BY <1>2, <2>1, <2>3, SMTT(60)
  <2> QED BY <1>2, <2>1, <2>4
<1> HIDE DEF entries, n
<1>5. Aligned(batch, n) /\ DOMAIN batch.tokens = DOMAIN entries
  BY <1>2, FitsAligned
<1>6. ASSUME NEW i \in 1..Len(rs)
      PROVE  /\ Carries(batch, n, i, rs[i]) /\ Position(batch, i) = Len(history[rs[i]]) - 1
             /\ i \in DOMAIN batch.tokens
  <2>1. i \in DOMAIN entries
    BY <1>2
  <2> QED BY <1>2, <1>5, <2>1, EntryCarried
<1>7. /\ Carries(batch, n, Len(rs) + take, s)
      /\ Position(batch, Len(rs) + take) = table[s].tokens + (take - 1)
      /\ Len(rs) + take \in DOMAIN batch.tokens
  <2>1. Len(rs) + take \in DOMAIN entries
    BY <1>2
  <2> QED BY <1>2, <1>5, <2>1, EntryCarried
<1>8. last => table[s].tokens + (take - 1) = Len(history[s]) - 1
  BY <1>2, OwnerTyped DEF Left
<1> HIDE DEF batch, decodes
<1>9. Wanted(batch, n, ids)
  <2>1. CASE last
    <3>1. /\ ids = Append(rs, s) /\ batch.logit_rows = Append(decodes, Len(rs) + take)
      BY <1>4, <2>1 DEF SliceRow
    <3>a. Len(rs) + take \in Nat
      BY <1>2
    <3> HIDE DEF ids
    <3>2. /\ Len(ids) = Len(rs) + 1 /\ DOMAIN ids = 1..(Len(rs) + 1)
          /\ ids[Len(rs) + 1] = s /\ \A k \in 1..Len(rs) : ids[k] = rs[k]
      BY <1>a, <3>1, AppendLast
    <3>3. ASSUME NEW k \in 1..Len(rs) PROVE ids[k] = rs[k] /\ batch.logit_rows[k] = k
      <4>1. decodes[k] = k
        BY <1>a DEF decodes
      <4>2. \A j \in 1..Len(rs) : batch.logit_rows[j] = decodes[j]
        BY <1>a, <3>1, <3>a, AppendLast
      <4> QED BY <3>2, <4>1, <4>2
    <3>4. ids[Len(rs) + 1] = s /\ batch.logit_rows[Len(rs) + 1] = Len(rs) + take
      <4>1. batch.logit_rows[Len(rs) + 1] = Len(rs) + take
        BY <1>a, <3>1, <3>a, AppendLast
      <4> QED BY <3>2, <4>1
    <3>5. \A k \in 1..(Len(rs) + 1) : k \in 1..Len(rs) \/ k = Len(rs) + 1
      BY <1>2
    <3> QED BY <1>2, <1>6, <1>7, <1>8, <2>1, <3>2, <3>3, <3>4, <3>5, SMTT(60) DEF Wanted
  <2>2. CASE ~ last
    <3>1. ids = rs /\ batch.logit_rows = decodes
      BY <1>4, <2>2
    <3>2. \A k \in 1..Len(rs) : decodes[k] = k
      BY <1>a DEF decodes
    <3> HIDE DEF ids
    <3> QED BY <1>2, <1>6, <1>a, <3>1, <3>2 DEF Wanted
  <2> QED BY <2>1, <2>2
<1> HIDE DEF ids
<1> QED BY <1>1, <1>2, <1>3, <1>5, <1>9, BeginKeeps

-----------------------------------------------------------------------------
(* A layer of a pass. *)

\* A position that is committed holds its prefix in every layer.
LEMMA CommittedSpelled ==
  ASSUME CacheInv, NEW r \in Owner, inflight[r] = 0, NEW q \in Nat, q < table[r].tokens
  PROVE  /\ q < Capacity(table[r])
         /\ Spelled(keys, SlotBlock(table[r], q), q % BlockSize, Prefix(r, q))
<1>1. /\ table[r].tokens \in Nat /\ history[r] \in Seq(Token)
      /\ KVP!Computed(r) = table[r].tokens
  BY OwnerTyped DEF KVP!Computed
<1>2. /\ table[r].tokens <= Len(history[r])
      /\ table[r].tokens <= Capacity(table[r])
      /\ KVP!Content(Contents, table[r], q) = SubSeq(history[r], 1, q + 1)
  <2>1. q \in 0..(table[r].tokens - 1)
    BY <1>1
  <2> QED BY <1>1, <2>1, SameSlots DEF CacheInv, KVP!ContentInv, KVP!OwnContent, KVP!ReadsOwn
<1>3. Capacity(table[r]) \in Nat /\ Len(history[r]) \in Nat
  BY OwnerTyped
<1>4. q < Len(history[r]) /\ q < Capacity(table[r])
  BY <1>1, <1>2, <1>3
<1>5. Prefix(r, q) # Garbage
  BY <1>1, <1>4, PrefixFacts DEF Prefix
<1> DEFINE b == SlotBlock(table[r], q)
           o == q % BlockSize
<1>6. ContentsOf(keys, torn)[b][o] = Prefix(r, q)
  <2>1. KVP!Content(Contents, table[r], q) = Contents[b][o]
    BY SameSlots DEF KVP!Content
  <2> HIDE DEF b, o
  <2> QED BY <1>2, <2>1, ContentsMapped DEF Prefix
<1>7. b \in Block /\ o \in Offset
  BY <1>4, SlotIn
<1> HIDE DEF b, o
<1>8. Spelled(keys, b, o, Prefix(r, q))
  BY <1>5, <1>6, <1>7, ContentsSpelled
<1> QED BY <1>4, <1>8 DEF b, o

\* Once a layer is written, a row reads in it the vectors of its own sequence.
LEMMA LayerReads ==
  ASSUME CacheInv, NEW n, CarriesOnly(n), NEW batch, Aligned(batch, n),
         \A r \in Owner : inflight[r] = 0,
         NEW l \in 1..Layers, NEW x, Brings(batch, n, l - 1, x),
         NEW i \in DOMAIN batch.tokens, NEW r \in DOMAIN n, Carries(batch, n, i, r),
         NEW q \in 0..Position(batch, i), NEW h \in KvHead
  PROVE  ReadAt(Write(keys[l], batch, x), batch, RowOf(batch, i), q)[h]
           = Vector(l, h, Prefix(r, q))
<1> DEFINE p == Position(batch, i)
           w == Write(keys[l], batch, x)
<1>1. r \in Owner /\ p \in Due(r, n) /\ p \in Nat /\ q \in Nat /\ table[r].tokens \in Nat
      /\ p < Capacity(table[r])
  BY DueBounds, OwnerTyped DEF Carries
<1>2. ReadAt(w, batch, RowOf(batch, i), q) = w[SlotBlock(table[r], q)][q % BlockSize]
  BY DEF ReadAt, Carries
<1>3. ASSUME q < table[r].tokens
      PROVE  w[SlotBlock(table[r], q)][q % BlockSize][h] = Vector(l, h, Prefix(r, q))
  <2>1. q < Capacity(table[r]) /\ Spelled(keys, SlotBlock(table[r], q), q % BlockSize, Prefix(r, q))
    BY <1>1, <1>3, CommittedSpelled
  <2>2. q \notin Due(r, n)
    BY <1>1, <1>3 DEF Due
  <2>3. Len(x) = Len(batch.tokens)
    BY DEF Brings
  <2>4. w[SlotBlock(table[r], q)][q % BlockSize] = keys[l][SlotBlock(table[r], q)][q % BlockSize]
    BY <1>1, <2>1, <2>2, <2>3, LayerLeaves
  <2>5. keys[l][SlotBlock(table[r], q)][q % BlockSize][h] = Vector(l, h, Prefix(r, q))
    BY <2>1 DEF Spelled
  <2> QED BY <2>4, <2>5
<1>4. ASSUME q >= table[r].tokens
      PROVE  w[SlotBlock(table[r], q)][q % BlockSize][h] = Vector(l, h, Prefix(r, q))
  <2>1. q \in Due(r, n)
    <3>1. n[r] \in Nat
      BY DueBounds
    <3> QED BY <1>1, <1>4, <3>1 DEF Due
  <2>2. l \in Nat \ {0}
    BY ForwardAssumption
  <2> QED BY <2>1, <2>2, LayerWrites
<1> HIDE DEF w
<1>5. w[SlotBlock(table[r], q)][q % BlockSize][h] = Vector(l, h, Prefix(r, q))
  BY <1>1, <1>3, <1>4
<1>6. ReadAt(w, batch, RowOf(batch, i), q)[h] = Vector(l, h, Prefix(r, q))
  BY <1>2, <1>5
<1> QED BY <1>6 DEF w

\* The hidden states a layer makes are the prefixes of the sequences.
LEMMA LayerBrings ==
  ASSUME CacheInv, NEW n, CarriesOnly(n), NEW batch, Aligned(batch, n),
         \A r \in Owner : inflight[r] = 0,
         NEW l \in 1..Layers, NEW x, Brings(batch, n, l - 1, x),
         NEW y, y = [i \in DOMAIN x |-> Hidden(Write(keys[l], batch, x), l, batch, x, i)]
  PROVE  Brings(batch, n, l, y)
<1>1. /\ DOMAIN x = DOMAIN batch.tokens /\ DOMAIN batch.tokens = 1..Len(batch.tokens)
      /\ Len(batch.tokens) \in Nat
  BY DEF Brings, Aligned
<1>2. DOMAIN y = DOMAIN batch.tokens /\ Len(y) = Len(batch.tokens)
  <2>1. y = [i \in 1..Len(batch.tokens) |-> Hidden(Write(keys[l], batch, x), l, batch, x, i)]
    BY <1>1
  <2> QED BY <1>1, <2>1
<1>3. ASSUME NEW i \in DOMAIN batch.tokens, NEW r \in DOMAIN n, Carries(batch, n, i, r)
      PROVE  y[i] = Prefix(r, Position(batch, i))
  <2> DEFINE p == Position(batch, i)
             H == history[r]
  <2>1. r \in Owner /\ p \in Nat /\ p < Len(H) /\ H \in Seq(Token)
    BY <1>3, DueBounds, OwnerTyped DEF Carries
  <2>2. Visible(batch, i) = 0..p /\ batch.tokens[i] = H[p + 1]
    BY <1>3 DEF Carries
  <2>3. x[i] # Garbage /\ Last(x[i]) = H[p + 1]
    <3>1. x[i] = IF l - 1 = 0 THEN <<H[p + 1]>> ELSE SubSeq(H, 1, p + 1)
      BY <1>3, <2>2 DEF Brings, Prefix
    <3>2. Last(<<H[p + 1]>>) = H[p + 1] /\ <<H[p + 1]>> # Garbage
      BY DEF Last, Garbage
    <3>3. Last(SubSeq(H, 1, p + 1)) = H[p + 1] /\ SubSeq(H, 1, p + 1) # Garbage
      BY <2>1, PrefixFacts
    <3> HIDE DEF p, H
    <3> QED BY <3>1, <3>2, <3>3
  <2>4. \A q \in 0..p, h \in KvHead :
          ReadAt(Write(keys[l], batch, x), batch, RowOf(batch, i), q)[h]
            = Vector(l, h, SubSeq(H, 1, q + 1))
    BY <1>3, LayerReads DEF Prefix
  <2>5. Hidden(Write(keys[l], batch, x), l, batch, x, i) = SubSeq(H, 1, p + 1)
    <3>1. p = Position(batch, i)
      OBVIOUS
    <3> HIDE DEF p, H
    <3> QED BY <2>1, <2>2, <2>3, <2>4, <3>1, HiddenOwn
  <2> QED BY <1>1, <1>3, <2>5 DEF Prefix
<1>4. l # 0
  OBVIOUS
<1> QED BY <1>1, <1>2, <1>3, <1>4 DEF Brings

\* After a layer the pass has computed one layer more.
LEMMA LayerComputes ==
  ASSUME CacheInv, DOMAIN keys = 1..Layers, PassHolds, Layer
  PROVE  Computing(keys', torn', pass.batch, pass.n, pass'.layer, pass'.x)
<1> DEFINE l == pass.layer + 1
           n == pass.n
           batch == pass.batch
           x == pass.x
           written == Write(keys[l], batch, x)
<1>1. /\ pass.layer \in 0..Layers /\ pass.layer < Layers
      /\ pass'.layer = l
      /\ pass'.x = [i \in DOMAIN x |-> Hidden(written, l, batch, x, i)]
      /\ keys' = [keys EXCEPT ![l] = written]
      /\ torn' = IF l = Layers THEN torn \ Entries(batch.write_slots)
                 ELSE torn \cup Entries(batch.write_slots)
  <2>1. pass = [batch |-> pass.batch, n |-> pass.n, ids |-> pass.ids,
                layer |-> pass.layer, x |-> pass.x]
        /\ pass.layer \in 0..Layers
    BY DEF PassHolds, Layer
  <2>2. pass' = [pass EXCEPT !.layer = l,
                    !.x = [i \in DOMAIN @ |-> Hidden(written, l, batch, @, i)]]
    BY DEF Layer
  <2>3. pass'.layer = l /\ pass'.x = [i \in DOMAIN x |-> Hidden(written, l, batch, x, i)]
    BY <2>1, <2>2
  <2> QED BY <2>1, <2>3 DEF Layer
<1>2. /\ CarriesOnly(n) /\ Aligned(batch, n) /\ \A r \in Owner : inflight[r] = 0
      /\ Computing(keys, torn, batch, n, l - 1, x)
  <2>1. l - 1 = pass.layer
    BY <1>1
  <2> QED BY <2>1 DEF PassHolds, Layer
<1>3. l \in 1..Layers /\ l \in Nat \ {0}
  BY <1>1, ForwardAssumption
<1> HIDE DEF n, batch, x, l
<1>4. Brings(batch, n, l - 1, x)
  BY <1>2 DEF Computing
<1>5. Brings(batch, n, l, pass'.x)
  BY <1>1, <1>2, <1>3, <1>4, LayerBrings
<1>6. ASSUME NEW m \in 1..l, NEW r \in DOMAIN n, NEW p \in Due(r, n), NEW h \in KvHead
      PROVE  keys'[m][SlotBlock(table[r], p)][p % BlockSize][h] = Vector(m, h, Prefix(r, p))
  <2>1. CASE m = l
    <3>1. keys'[m] = written
      BY <1>1, <1>3, <2>1
    <3>2. written[SlotBlock(table[r], p)][p % BlockSize][h] = Vector(l, h, Prefix(r, p))
      BY <1>2, <1>3, <1>4, LayerWrites
    <3> HIDE DEF written
    <3> QED BY <2>1, <3>1, <3>2
  <2>2. CASE m # l
    <3>1. m \in 1..(l - 1) /\ m \in 1..Layers
      BY <1>3, <2>2, ForwardAssumption
    <3>2. keys'[m] = keys[m]
      BY <1>1, <2>2, <3>1
    <3> QED BY <1>2, <3>1, <3>2 DEF Computing
  <2> QED BY <2>1, <2>2
<1>7. ASSUME l = Layers, NEW r \in DOMAIN n, NEW p \in Due(r, n) PROVE SlotOf(r, p) \notin torn'
  <2>1. SlotOf(r, p) \in Entries(batch.write_slots)
    BY <1>2, SlotsAreDue
  <2> QED BY <1>1, <1>7, <2>1
<1>8. Computing(keys', torn', batch, n, l, pass'.x)
  BY <1>5, <1>6, <1>7 DEF Computing
<1> QED BY <1>1, <1>8 DEF batch, n

\* The pass goes on.
LEMMA LayerKeeps ==
  ASSUME CacheInv, DOMAIN keys = 1..Layers, PassHolds, Layer
  PROVE  PassHolds' /\ DOMAIN keys' = 1..Layers
<1>1. /\ pass = [batch |-> pass.batch, n |-> pass.n, ids |-> pass.ids,
                 layer |-> pass.layer, x |-> pass.x]
      /\ pass.layer \in 0..Layers /\ pass.layer < Layers
      /\ CarriesOnly(pass.n) /\ Aligned(pass.batch, pass.n)
      /\ Wanted(pass.batch, pass.n, pass.ids)
      /\ \A r \in Owner : inflight[r] = 0
      /\ DOMAIN sampled = {}
      /\ \A r \in DOMAIN pass.n : Len(history[r]) < MostTokens[r]
  BY DEF PassHolds, Layer
<1>2. /\ UNCHANGED <<table, history, attention, inflight, sampled>>
      /\ pass' = [pass EXCEPT !.layer = pass'.layer, !.x = pass'.x]
      /\ pass'.layer = pass.layer + 1
  BY <1>1 DEF Layer
<1>3. pass'.layer \in 0..Layers
  BY <1>1, <1>2, ForwardAssumption
<1>4. Computing(keys', torn', pass.batch, pass.n, pass'.layer, pass'.x)
  BY LayerComputes
<1>5. pass' = [batch |-> pass.batch, n |-> pass.n, ids |-> pass.ids,
               layer |-> pass'.layer, x |-> pass'.x]
  BY <1>1, <1>2
<1>6. /\ \A r \in Owner : inflight'[r] = 0
      /\ DOMAIN sampled' = {}
  BY <1>1, <1>2
<1>7. PassHolds'
  BY <1>1, <1>2, <1>3, <1>4, <1>5, <1>6, PassKept
<1>8. DOMAIN keys' = 1..Layers
  BY DEF Layer
<1> QED BY <1>7, <1>8

-----------------------------------------------------------------------------
(* What the layers add up to. *)

\* What PagedKV's pass leaves in the slot of a position it runs.
LEMMA RunAtDue ==
  ASSUME CacheInv, NEW n, CarriesOnly(n), NEW r \in DOMAIN n, inflight[r] = 0,
         NEW p \in Due(r, n)
  PROVE  KVP!RunPass(Contents, KVP!Rows(n))[SlotBlock(table[r], p)][p % BlockSize]
           = Prefix(r, p)
<1> DEFINE b == SlotBlock(table[r], p)
           o == p % BlockSize
           row == CHOOSE w \in KVP!Rows(n) : KVP!Writes(w, b, o)
<1>1. /\ r \in Owner /\ p \in Nat /\ p < Capacity(table[r])
      /\ n \in KVP!Passes /\ \A s \in DOMAIN n : n[s] \in KVP!Runnable(s)
      /\ n[r] \in KVP!Runnable(r)
      /\ p \in table[r].tokens..(table[r].tokens + n[r] - 1)
  BY DueBounds DEF CarriesOnly, Due
<1>2. b \in Block /\ o \in KVP!Offset
  BY <1>1, SlotIn, SameSlots
<1>3. b = KVP!SlotBlock(table[r], p) /\ p < KVP!Capacity(table[r])
  BY <1>1, SameSlots
<1>4. KVP!Row(r, n[r]) \in KVP!Rows(n) /\ KVP!Writes(KVP!Row(r, n[r]), b, o)
  BY DueAreWritten DEF KVP!Rows
<1>5. row \in KVP!Rows(n) /\ KVP!Writes(row, b, o)
  BY <1>4
<1>6. KVP!RunPass(Contents, KVP!Rows(n))[b][o] = KVP!Written(Contents, row, b, o)
  BY <1>2, <1>4 DEF KVP!RunPass
<1> HIDE DEF row
<1>7. row = KVP!Row(r, n[r]) /\ KVP!WrittenAt(row, b, o) = p
  <2>1. KVP!Writes(row, KVP!SlotBlock(table[r], p), p % BlockSize)
    BY <1>3, <1>5
  <2> QED
    BY <1>1, <1>3, <1>5, <2>1, MappedAssumptions, KVP!WriterIsOwner DEF CacheInv, KVP!IInv
<1> HIDE DEF b, o
<1>8. KVP!Written(Contents, row, b, o) = SubSeq(history[r], 1, p + 1)
  BY <1>1, <1>7, MappedAssumptions, KVP!OwnRowWritten
     DEF CacheInv, KVP!IInv, KVP!ContentInv
<1> QED BY <1>6, <1>8 DEF Prefix, b, o

\* A slot is one a pass runs exactly when one of its rows writes it.
LEMMA WrittenMeansDue ==
  ASSUME CacheInv, NEW n, CarriesOnly(n), NEW b, NEW o
  PROVE  (\E row \in KVP!Rows(n) : KVP!Writes(row, b, o)) <=>
           (\E r \in DOMAIN n : \E p \in Due(r, n) : SlotOf(r, p) = <<b, o>>)
<1>1. ASSUME NEW row \in KVP!Rows(n), KVP!Writes(row, b, o)
      PROVE  \E r \in DOMAIN n : \E p \in Due(r, n) : SlotOf(r, p) = <<b, o>>
  BY <1>1, WrittenAreDue
<1>2. ASSUME NEW r \in DOMAIN n, NEW p \in Due(r, n), SlotOf(r, p) = <<b, o>>
      PROVE  \E row \in KVP!Rows(n) : KVP!Writes(row, b, o)
  <2>1. b = SlotBlock(table[r], p) /\ o = p % BlockSize
    BY <1>2 DEF SlotOf
  <2> QED BY <2>1, DueAreWritten DEF KVP!Rows
<1> QED BY <1>1, <1>2

\* A cache in which a pass did what PagedKV says of it is the one PagedKV has.
LEMMA PassIsRun ==
  ASSUME CacheInv, NEW n, CarriesOnly(n), \A r \in Owner : inflight[r] = 0,
         NEW k, NEW t,
         \A r \in DOMAIN n : \A p \in Due(r, n) :
           ContentsOf(k, t)[SlotBlock(table[r], p)][p % BlockSize] = Prefix(r, p),
         \A b \in Block, o \in Offset :
           ~ (\E r \in DOMAIN n : \E p \in Due(r, n) : SlotOf(r, p) = <<b, o>>)
             => ContentsOf(k, t)[b][o] = Contents[b][o]
  PROVE  ContentsOf(k, t) = KVP!RunPass(Contents, KVP!Rows(n))
<1>1. ASSUME NEW b \in Block, NEW o \in Offset
      PROVE  ContentsOf(k, t)[b][o] = KVP!RunPass(Contents, KVP!Rows(n))[b][o]
  <2>1. CASE \E r \in DOMAIN n : \E p \in Due(r, n) : SlotOf(r, p) = <<b, o>>
    <3>1. PICK r \in DOMAIN n : \E p \in Due(r, n) : SlotOf(r, p) = <<b, o>>
      BY <2>1
    <3>2. PICK p \in Due(r, n) : SlotOf(r, p) = <<b, o>>
      BY <3>1
    <3>3. b = SlotBlock(table[r], p) /\ o = p % BlockSize /\ r \in Owner
      BY <3>2, DueBounds DEF SlotOf
    <3>4. KVP!RunPass(Contents, KVP!Rows(n))[b][o] = Prefix(r, p)
      BY <3>3, RunAtDue
    <3> QED BY <3>3, <3>4
  <2>2. CASE ~ (\E r \in DOMAIN n : \E p \in Due(r, n) : SlotOf(r, p) = <<b, o>>)
    <3>1. \A row \in KVP!Rows(n) : ~ KVP!Writes(row, b, o)
      BY <2>2, WrittenMeansDue
    <3>2. b \in Block /\ o \in KVP!Offset
      BY SameSlots
    <3>3. KVP!RunPass(Contents, KVP!Rows(n))[b][o] = Contents[b][o]
      BY <3>1, <3>2 DEF KVP!RunPass
    <3> QED BY <2>2, <3>3
  <2> QED BY <2>1, <2>2
<1> DEFINE R == KVP!RunPass(Contents, KVP!Rows(n))
<1>2. R = [b \in Block |-> [o \in Offset |-> R[b][o]]]
  BY SameSlots DEF KVP!RunPass
<1> HIDE DEF R
<1>3. ContentsOf(k, t) = [b \in Block |-> [o \in Offset |-> ContentsOf(k, t)[b][o]]]
  BY DEF ContentsOf
<1>4. ContentsOf(k, t) = R
  <2>1. \A b \in Block, o \in Offset : ContentsOf(k, t)[b][o] = R[b][o]
    BY <1>1 DEF R
  <2> DEFINE C == ContentsOf(k, t)
  <2>2. C = [b \in Block |-> [o \in Offset |-> C[b][o]]] /\ \A b \in Block, o \in Offset : C[b][o] = R[b][o]
    BY <1>3, <2>1
  <2> HIDE DEF C
  <2>3. C = [b \in Block |-> [o \in Offset |-> R[b][o]]]
    BY <2>2, Zenon
  <2> QED BY <1>2, <2>3 DEF C
<1> QED BY <1>4 DEF R

\* So is one in which the slots of a pass were lost.
LEMMA PassIsSpoilt ==
  ASSUME CacheInv, NEW n, CarriesOnly(n), NEW k, NEW t,
         \A r \in DOMAIN n : \A p \in Due(r, n) :
           ContentsOf(k, t)[SlotBlock(table[r], p)][p % BlockSize] = Garbage,
         \A b \in Block, o \in Offset :
           ~ (\E r \in DOMAIN n : \E p \in Due(r, n) : SlotOf(r, p) = <<b, o>>)
             => ContentsOf(k, t)[b][o] = Contents[b][o]
  PROVE  ContentsOf(k, t) = KVP!SpoilPass(Contents, KVP!Rows(n))
<1>1. ASSUME NEW b \in Block, NEW o \in Offset
      PROVE  ContentsOf(k, t)[b][o] =
               IF \E row \in KVP!Rows(n) : KVP!Writes(row, b, o) THEN Garbage ELSE Contents[b][o]
  <2>1. CASE \E r \in DOMAIN n : \E p \in Due(r, n) : SlotOf(r, p) = <<b, o>>
    <3>1. PICK r \in DOMAIN n : \E p \in Due(r, n) : SlotOf(r, p) = <<b, o>>
      BY <2>1
    <3>2. PICK p \in Due(r, n) : SlotOf(r, p) = <<b, o>>
      BY <3>1
    <3>3. b = SlotBlock(table[r], p) /\ o = p % BlockSize
      BY <3>2 DEF SlotOf
    <3> QED BY <2>1, <3>3, WrittenMeansDue
  <2>2. CASE ~ (\E r \in DOMAIN n : \E p \in Due(r, n) : SlotOf(r, p) = <<b, o>>)
    BY <2>2, WrittenMeansDue
  <2> QED BY <2>1, <2>2
<1> DEFINE F(b, o) == IF \E row \in KVP!Rows(n) : KVP!Writes(row, b, o)
                      THEN Garbage ELSE Contents[b][o]
           C == ContentsOf(k, t)
<1>2. KVP!SpoilPass(Contents, KVP!Rows(n)) = [b \in Block |-> [o \in Offset |-> F(b, o)]]
  BY SameSlots DEF KVP!SpoilPass
<1>3. C = [b \in Block |-> [o \in Offset |-> C[b][o]]]
  BY DEF ContentsOf
<1>4. \A b \in Block, o \in Offset : C[b][o] = F(b, o)
  BY <1>1
<1> HIDE DEF F, C
<1>5. C = [b \in Block |-> [o \in Offset |-> F(b, o)]]
  BY <1>3, <1>4, Zenon
<1> QED BY <1>2, <1>5 DEF C

\* A layer leaves the content of every other slot.
LEMMA LayerLeavesContent ==
  ASSUME DOMAIN keys = 1..Layers, PassHolds, Layer, NEW b \in Block, NEW o \in Offset,
         ~ (\E r \in DOMAIN pass.n : \E p \in Due(r, pass.n) : SlotOf(r, p) = <<b, o>>)
  PROVE  ContentsOf(keys', torn')[b][o] = Contents[b][o]
<1> DEFINE l == pass.layer + 1
           batch == pass.batch
           written == Write(keys[l], batch, pass.x)
<1>1. /\ Aligned(batch, pass.n) /\ Len(pass.x) = Len(batch.write_slots)
      /\ keys' = [keys EXCEPT ![l] = written]
      /\ torn' = IF l = Layers THEN torn \ Entries(batch.write_slots)
                 ELSE torn \cup Entries(batch.write_slots)
  BY DEF PassHolds, Layer, Computing, Brings, Aligned
<1>2. <<b, o>> \notin Entries(batch.write_slots)
  BY <1>1, SlotsAreDue, SMTT(60)
<1>3. written[b][o] = keys[l][b][o]
  BY <1>1, <1>2, WriteLeaves
<1> HIDE DEF written, l, batch
<1>4. ASSUME NEW m \in 1..Layers PROVE keys'[m][b][o] = keys[m][b][o]
  BY <1>1, <1>3
<1>5. <<b, o>> \in torn' <=> <<b, o>> \in torn
  BY <1>1, <1>2
<1>6. keys'[Layers][b][o] = keys[Layers][b][o]
  BY <1>4, ForwardAssumption
<1>7. \A prefix : Spelled(keys', b, o, prefix) <=> Spelled(keys, b, o, prefix)
  BY <1>4 DEF Spelled
<1>8. ContentAt(keys', torn', b, o) = ContentAt(keys, torn, b, o)
  BY <1>5, <1>6, <1>7 DEF ContentAt
<1> QED BY <1>8, ContentsAt, ContentsMapped

\* Once every layer is written a slot of the pass has the prefix it should.
LEMMA ComputedContent ==
  ASSUME CacheInv, NEW n, CarriesOnly(n), NEW k, NEW t, NEW batch, NEW x,
         Computing(k, t, batch, n, Layers, x), NEW r \in DOMAIN n, NEW p \in Due(r, n)
  PROVE  ContentsOf(k, t)[SlotBlock(table[r], p)][p % BlockSize] = Prefix(r, p)
<1> DEFINE b == SlotBlock(table[r], p)
           o == p % BlockSize
<1>1. r \in Owner /\ p \in Nat /\ p < Len(history[r]) /\ p < Capacity(table[r])
      /\ history[r] \in Seq(Token)
  BY DueBounds, OwnerTyped
<1>2. b \in Block /\ o \in Offset
  BY <1>1, SlotIn
<1>3. Prefix(r, p) # Garbage
  BY <1>1, PrefixFacts DEF Prefix
<1>4. <<b, o>> \notin t /\ Spelled(k, b, o, Prefix(r, p))
  BY DEF Computing, SlotOf, Spelled
<1> HIDE DEF b, o
<1>5. ContentsOf(k, t)[b][o] = Prefix(r, p)
  BY <1>2, <1>3, <1>4, SpelledContents
<1> QED BY <1>5 DEF b, o

\* A layer is a pass that stopped part way, until the last one makes it whole:
\* then it is a pass whose result nobody has taken yet.
LEMMA LayerSpoils ==
  ASSUME CacheInv, DOMAIN keys = 1..Layers, PassHolds, Layer
  PROVE  pass.n \in KVP!Passes /\ KVP!Spoil(pass.n)
<1> DEFINE n == pass.n
           batch == pass.batch
<1>1. /\ CarriesOnly(n) /\ Aligned(batch, n) /\ \A r \in Owner : inflight[r] = 0
      /\ pass.layer \in 0..Layers /\ pass.layer < Layers
  BY DEF PassHolds, Layer
<1>2. \A b \in Block, o \in Offset :
        ~ (\E r \in DOMAIN n : \E p \in Due(r, n) : SlotOf(r, p) = <<b, o>>)
          => ContentsOf(keys', torn')[b][o] = Contents[b][o]
  BY LayerLeavesContent
<1> HIDE DEF n, batch
<1>3. CASE pass.layer + 1 = Layers
  <2>1. pass'.layer = Layers
    BY <1>3 DEF Layer, PassHolds
  <2>2. Computing(keys', torn', batch, n, Layers, pass'.x)
    BY <2>1, LayerComputes DEF n, batch
  <2>3. \A r \in DOMAIN n : \A p \in Due(r, n) :
          ContentsOf(keys', torn')[SlotBlock(table[r], p)][p % BlockSize] = Prefix(r, p)
    BY <1>1, <2>2, ComputedContent
  <2>4. ContentsOf(keys', torn') = KVP!RunPass(Contents, KVP!Rows(n))
    BY <1>1, <1>2, <2>3, PassIsRun
  <2> QED BY <1>1, <2>4, ContentsMapped DEF KVP!Spoil, CarriesOnly, Layer, n
<1>4. CASE pass.layer + 1 # Layers
  <2>1. torn' = torn \cup Entries(batch.write_slots)
    BY <1>4 DEF Layer, batch
  <2>2. ASSUME NEW r \in DOMAIN n, NEW p \in Due(r, n)
        PROVE  ContentsOf(keys', torn')[SlotBlock(table[r], p)][p % BlockSize] = Garbage
    <3>1. SlotOf(r, p) \in torn'
      BY <1>1, <2>1, SlotsAreDue
    <3>2. SlotBlock(table[r], p) \in Block /\ p % BlockSize \in Offset
      BY <1>1, DueBounds, SlotIn
    <3> QED BY <3>1, <3>2, TornContents DEF SlotOf
  <2>3. ContentsOf(keys', torn') = KVP!SpoilPass(Contents, KVP!Rows(n))
    BY <1>1, <1>2, <2>2, PassIsSpoilt
  <2> QED BY <1>1, <2>3, ContentsMapped DEF KVP!Spoil, CarriesOnly, Layer, n
<1> QED BY <1>3, <1>4

\* The last of a pass: what its sequences ran counts from now on.
LEMMA FinishRuns ==
  ASSUME CacheInv, PassHolds, Finish
  PROVE  pass.n \in KVP!Passes /\ KVP!Run(pass.n)
<1> DEFINE n == pass.n
<1>1. /\ CarriesOnly(n) /\ \A r \in Owner : inflight[r] = 0
      /\ Computing(keys, torn, pass.batch, n, Layers, pass.x)
  BY DEF PassHolds, Finish
<1>2. /\ UNCHANGED <<pool, table, history, prefix_cache, keys, torn>>
      /\ inflight' = [r \in Owner |-> IF r \in DOMAIN n THEN n[r] ELSE 0]
  BY DEF Finish
<1> HIDE DEF n
<1>3. \A r \in DOMAIN n : \A p \in Due(r, n) :
        ContentsOf(keys, torn)[SlotBlock(table[r], p)][p % BlockSize] = Prefix(r, p)
  BY <1>1, ComputedContent
<1>4. ContentsOf(keys, torn) = KVP!RunPass(Contents, KVP!Rows(n))
  BY <1>1, <1>3, PassIsRun, ContentsMapped
<1>5. Contents' = KVP!RunPass(Contents, KVP!Rows(n))
  BY <1>2, <1>4, ContentsMapped
<1> QED BY <1>1, <1>2, <1>5 DEF KVP!Run, CarriesOnly, n

-----------------------------------------------------------------------------
(* The answer of a sequence on its own. *)

\* The token a history goes on with.
Following(r, H) ==
    Draw(Logits(H), Settings[r], Stream[r][Len(H) - Len(Prompt[r]) + 1])

\* It is one of the vocabulary, as long as there is one to come.
LEMMA FollowingType ==
  ASSUME NEW r \in Owner, NEW H \in Seq(Token),
         Len(Prompt[r]) <= Len(H), Len(H) < MostTokens[r]
  PROVE  Following(r, H) \in Token
<1>1. /\ Len(Prompt[r]) \in Nat \ {0} /\ Len(H) \in Nat /\ MostTokens[r] \in Nat
      /\ Prompt[r] \in Seq(Token)
  <2>1. Prompt[r] \in Seq(Token) /\ Prompt[r] # <<>>
    BY ForwardAssumption
  <2> QED BY <2>1, ModelAssumption
<1>2. H \in [1..Len(H) -> Token] /\ Len(H) \in 1..MostTokens[r]
  BY <1>1
<1>3. Logits(H) \in Seq(Nat) /\ DOMAIN Logits(H) = Token /\ Token # {}
  BY <1>2, ModelAssumption
<1>4. Len(Logits(H)) \in Nat /\ Vocabulary(Logits(H)) = Token /\ Len(Logits(H)) > 0
  <2>1. Len(Logits(H)) \in Nat /\ DOMAIN Logits(H) = 1..Len(Logits(H))
    BY <1>3
  <2> QED BY <1>3, <2>1 DEF Vocabulary
<1>5. Stream[r][Len(H) - Len(Prompt[r]) + 1] \in 0..(Draws - 1)
  <2>1. \A h, a, b \in Nat : a <= h /\ h < b => h - a + 1 \in 1..(b - a)
    OBVIOUS
  <2>2. Len(H) - Len(Prompt[r]) + 1 \in 1..(MostTokens[r] - Len(Prompt[r]))
    BY <1>1, <2>1
  <2> QED BY <2>2, ModelAssumption
<1>6. Settings[r] \in Sampling
  BY ForwardAssumption
<1> QED BY <1>3, <1>4, <1>5, <1>6, DrawInVocabulary DEF Following

\* What Alone means: it begins with the prompt and goes on token by token.
AloneIs(r, f) ==
    /\ f[Len(Prompt[r])] = Prompt[r]
    /\ \A n \in Len(Prompt[r])..MostTokens[r] : n # Len(Prompt[r]) =>
         f[n] = Append(f[n - 1], Draw(Logits(f[n - 1]), Settings[r],
                                      Stream[r][n - Len(Prompt[r])]))

\* The function Alone chooses is there, and has that meaning.
LEMMA AloneDefined ==
  ASSUME NEW r \in Owner
  PROVE  AloneIs(r, Alone(r))
<1> DEFINE a == Len(Prompt[r])
           b == MostTokens[r]
           S == Seq(Token)
           Longer(h, n) == Append(h, Draw(Logits(h), Settings[r], Stream[r][n - a]))
           G == [x \in S \X Nat |->
                   IF Longer(x[1], x[2]) \in S THEN Longer(x[1], x[2]) ELSE x[1]]
           Answers(f) == f = [n \in a..b |-> IF n = a THEN Prompt[r] ELSE Longer(f[n - 1], n)]
<1>1. a \in Nat /\ b \in Nat /\ a <= b /\ Prompt[r] \in S
  <2>1. Prompt[r] \in Seq(Token)
    BY ForwardAssumption
  <2> QED BY <2>1, ModelAssumption
<1>2. \E f : Recurs(f, S, Prompt[r], a, b, G)
  <2>1. G \in [S \X Nat -> S]
    OBVIOUS
  <2> HIDE DEF G, a, b, S
  <2> QED BY <1>1, <2>1, Recursion
<1>3. PICK f : Recurs(f, S, Prompt[r], a, b, G)
  BY <1>2
<1>4. f \in [a..b -> S] /\ f[a] = Prompt[r]
  BY <1>3 DEF Recurs
<1>5. ASSUME NEW n \in a..b, n # a, Len(f[n - 1]) = n - 1
      PROVE  f[n] = Longer(f[n - 1], n) /\ Len(f[n]) = n
  <2>1. n - 1 \in a..b /\ n \in Nat /\ n - 1 < b
    BY <1>1, <1>5
  <2>2. f[n - 1] \in S /\ <<f[n - 1], n>> \in S \X Nat
    BY <1>4, <2>1
  <2>3. Longer(f[n - 1], n) = Append(f[n - 1], Following(r, f[n - 1]))
    <3>1. n - a = (n - 1) - a + 1
      BY <1>1
    <3> QED BY <1>5, <3>1 DEF Following
  <2>4. Following(r, f[n - 1]) \in Token
    BY <1>5, <2>1, <2>2, FollowingType
  <2>5. Longer(f[n - 1], n) \in S /\ Len(Longer(f[n - 1], n)) = n
    BY <1>1, <1>5, <2>2, <2>3, <2>4
  <2>6. f[n] = G[<<f[n - 1], n>>]
    BY <1>3, <1>5 DEF Recurs
  <2>7. G[<<f[n - 1], n>>] = Longer(f[n - 1], n)
    <3> HIDE DEF Longer
    <3> QED BY <2>2, <2>5
  <2> HIDE DEF Longer, G
  <2> QED BY <2>5, <2>6, <2>7
<1>6. \A n \in Nat : a <= n => (n <= b => Len(f[n]) = n)
  <2> DEFINE P == {n \in Nat : n <= b => Len(f[n]) = n}
  <2>1. a \in P
    BY <1>1, <1>4
  <2>2. ASSUME NEW n \in Nat, a <= n /\ n \in P PROVE n + 1 \in P
    <3> SUFFICES ASSUME n + 1 <= b PROVE Len(f[n + 1]) = n + 1
      OBVIOUS
    <3>1. n + 1 \in a..b /\ n + 1 # a /\ (n + 1) - 1 = n
      BY <1>1, <2>2
    <3>2. Len(f[n]) = n
      BY <1>1, <2>2
    <3> HIDE DEF a, b, P, Longer
    <3> QED BY <1>5, <3>1, <3>2
  <2>3. P \in SUBSET Nat
    OBVIOUS
  <2> HIDE DEF P, a
  <2>4. \A n \in Nat : a <= n => n \in P
    BY <1>1, <2>1, <2>2, <2>3, Inductive
  <2> QED BY <2>4 DEF P
<1>7. ASSUME NEW n \in a..b, n # a PROVE f[n] = Longer(f[n - 1], n)
  <2>1. n - 1 \in Nat /\ a <= n - 1 /\ n - 1 <= b
    BY <1>1, <1>7
  <2> HIDE DEF Longer, a, b
  <2> QED BY <1>5, <1>6, <1>7, <2>1
<1>8. Answers(f)
  <2> HIDE DEF Longer
  <2>1. f = [n \in a..b |-> f[n]]
    BY <1>4
  <2>2. \A n \in a..b : f[n] = IF n = a THEN Prompt[r] ELSE Longer(f[n - 1], n)
    BY <1>4, <1>7
  <2> HIDE DEF a, b
  <2> QED BY <2>1, <2>2
<1>9. Answers(Alone(r))
  <2>1. Alone(r) = CHOOSE g : Answers(g)
    BY DEF Alone
  <2> HIDE DEF Answers
  <2> QED BY <1>8, <2>1
<1> HIDE DEF Longer
<1>10. /\ Alone(r)[a] = Prompt[r]
       /\ \A n \in a..b : n # a => Alone(r)[n] = Longer(Alone(r)[n - 1], n)
  <2> DEFINE A == Alone(r)
  <2>1. A = [n \in a..b |-> IF n = a THEN Prompt[r] ELSE Longer(A[n - 1], n)]
    BY <1>9
  <2>2. a \in a..b
    BY <1>1
  <2> HIDE DEF A, a, b
  <2>3. A[a] = Prompt[r] /\ \A n \in a..b : n # a => A[n] = Longer(A[n - 1], n)
    BY <2>1, <2>2
  <2> QED BY <2>3 DEF A
<1> QED BY <1>10 DEF AloneIs, Longer

\* It goes on with the token that follows.
LEMMA AloneGoesOn ==
  ASSUME NEW r \in Owner, NEW H \in Seq(Token), H = Alone(r)[Len(H)],
         Len(Prompt[r]) <= Len(H), Len(H) < MostTokens[r]
  PROVE  Alone(r)[Len(H) + 1] = Append(H, Following(r, H))
<1>1. Len(H) \in Nat /\ MostTokens[r] \in Nat /\ Len(Prompt[r]) \in Nat
  <2>1. Prompt[r] \in Seq(Token)
    BY ForwardAssumption
  <2> QED BY <2>1, ModelAssumption
<1>2. /\ Len(H) + 1 \in Len(Prompt[r])..MostTokens[r] /\ Len(H) + 1 # Len(Prompt[r])
      /\ (Len(H) + 1) - 1 = Len(H)
      /\ (Len(H) + 1) - Len(Prompt[r]) = Len(H) - Len(Prompt[r]) + 1
  BY <1>1
<1>3. Alone(r)[Len(H) + 1]
        = Append(Alone(r)[(Len(H) + 1) - 1],
                 Draw(Logits(Alone(r)[(Len(H) + 1) - 1]), Settings[r],
                      Stream[r][(Len(H) + 1) - Len(Prompt[r])]))
  BY <1>2, AloneDefined DEF AloneIs
<1> QED BY <1>2, <1>3 DEF Following

\* A history is what its sequence would have alone, and a token drawn for it is
\* the one that follows, from the draw that is next.
AnswersOwnSoFar(r) ==
    /\ Len(Prompt[r]) <= Len(history[r]) /\ Len(history[r]) <= MostTokens[r]
    /\ history[r] = Alone(r)[Len(history[r])]
    /\ r \in DOMAIN sampled =>
         /\ Len(history[r]) < MostTokens[r]
         /\ sampled[r] = Following(r, history[r])
    /\ ~ Settings[r].greedy =>
         draws[r] = IF r \in DOMAIN sampled THEN Len(history[r]) - Len(Prompt[r]) + 1
                    ELSE Len(history[r]) - Len(Prompt[r])
AnswerInv == \A r \in Owner : AnswersOwnSoFar(r)

\* A sequence that a step leaves alone is answered as before.
LEMMA AnswerStays ==
  ASSUME NEW r \in Owner, AnswersOwnSoFar(r), history'[r] = history[r],
         r \in DOMAIN sampled' <=> r \in DOMAIN sampled,
         r \in DOMAIN sampled => sampled'[r] = sampled[r], draws'[r] = draws[r]
  PROVE  AnswersOwnSoFar(r)'
<1>1. Alone(r)' = Alone(r)
  BY DEF Alone
<1>2. \A H : Following(r, H)' = Following(r, H)
  BY DEF Following
<1> QED BY <1>1, <1>2 DEF AnswersOwnSoFar, Following

\* The tokens a pass draws are those that follow.
LEMMA FinishAnswers ==
  ASSUME CacheInv, PassHolds, AnswerInv, Finish
  PROVE  AnswerInv'
<1> DEFINE ids == pass.ids
           weights(k) == Logits(pass.x[pass.batch.logit_rows[k]])
           token(k) == Draw(weights(k), Settings[ids[k]],
                            Stream[ids[k]][draws[ids[k]] + 1])
           place(r) == CHOOSE k \in DOMAIN ids : ids[k] = r
<1>1. /\ sampled' = [r \in Entries(ids) |-> token(place(r))]
      /\ draws' = [r \in Owner |->
           IF r \in Entries(ids) /\ ~ Settings[r].greedy THEN draws[r] + 1 ELSE draws[r]]
      /\ history' = history
  BY DEF Finish
<1>2. /\ CarriesOnly(pass.n) /\ DOMAIN sampled = {}
      /\ \A r \in DOMAIN pass.n : Len(history[r]) < MostTokens[r]
      /\ Wanted(pass.batch, pass.n, ids)
      /\ Brings(pass.batch, pass.n, Layers, pass.x)
      /\ Layers # 0
  BY ForwardAssumption DEF PassHolds, Finish, Computing
<1>3. ASSUME NEW k \in DOMAIN ids
      PROVE  /\ ids[k] \in DOMAIN pass.n /\ ids[k] \in Owner
             /\ weights(k) = Logits(history[ids[k]])
  <2>1. /\ ids[k] \in DOMAIN pass.n
        /\ pass.batch.logit_rows[k] \in DOMAIN pass.batch.tokens
        /\ Carries(pass.batch, pass.n, pass.batch.logit_rows[k], ids[k])
        /\ Position(pass.batch, pass.batch.logit_rows[k]) = Len(history[ids[k]]) - 1
    BY <1>2 DEF Wanted
  <2>2. ids[k] \in Owner
    BY <1>2, <2>1, DueBounds
  <2>3. history[ids[k]] \in Seq(Token) /\ Len(history[ids[k]]) \in Nat
    BY <2>2, OwnerTyped
  <2>4. pass.x[pass.batch.logit_rows[k]] = Prefix(ids[k], Len(history[ids[k]]) - 1)
    BY <1>2, <2>1 DEF Brings
  <2>5. Prefix(ids[k], Len(history[ids[k]]) - 1) = history[ids[k]]
    <3>1. \A H \in Seq(Token) : SubSeq(H, 1, (Len(H) - 1) + 1) = H
      OBVIOUS
    <3> QED BY <2>3, <3>1 DEF Prefix
  <2> QED BY <2>1, <2>2, <2>4, <2>5
<1>4. ASSUME NEW r \in Entries(ids)
      PROVE  /\ r \in DOMAIN pass.n /\ r \in Owner
             /\ token(place(r)) = Draw(Logits(history[r]), Settings[r], Stream[r][draws[r] + 1])
  <2>1. \E k \in DOMAIN ids : ids[k] = r
    BY <1>2 DEF Entries, Wanted
  <2>2. place(r) \in DOMAIN ids /\ ids[place(r)] = r
    BY <2>1
  <2> HIDE DEF place, weights
  <2> QED BY <1>3, <2>2
<1> HIDE DEF ids, token, place, weights
<1> SUFFICES ASSUME NEW r \in Owner PROVE AnswersOwnSoFar(r)'
  BY DEF AnswerInv
<1>5. /\ Len(Prompt[r]) <= Len(history[r]) /\ Len(history[r]) <= MostTokens[r]
      /\ history[r] = Alone(r)[Len(history[r])]
      /\ ~ Settings[r].greedy => draws[r] = Len(history[r]) - Len(Prompt[r])
  <2>1. r \notin DOMAIN sampled
    BY <1>2
  <2> QED BY <2>1, Zenon DEF AnswerInv, AnswersOwnSoFar
<1>6. ASSUME r \in DOMAIN sampled'
      PROVE  Len(history[r]) < MostTokens[r] /\ sampled'[r] = Following(r, history[r])
  <2>1. r \in Entries(ids) /\ sampled'[r] = token(place(r))
    BY <1>1, <1>6
  <2>2. sampled'[r] = Draw(Logits(history[r]), Settings[r], Stream[r][draws[r] + 1])
    BY <1>4, <2>1
  <2>3. CASE Settings[r].greedy
    BY <1>2, <1>4, <2>1, <2>2, <2>3 DEF Following, Draw
  <2>4. CASE ~ Settings[r].greedy
    BY <1>2, <1>4, <1>5, <2>1, <2>2, <2>4 DEF Following
  <2> QED BY <2>3, <2>4
<1>7. ~ Settings[r].greedy =>
        draws'[r] = IF r \in DOMAIN sampled' THEN Len(history[r]) - Len(Prompt[r]) + 1
                    ELSE Len(history[r]) - Len(Prompt[r])
  <2>1. r \in DOMAIN sampled' <=> r \in Entries(ids)
    BY <1>1
  <2>2. draws'[r] = IF r \in Entries(ids) /\ ~ Settings[r].greedy
                    THEN draws[r] + 1 ELSE draws[r]
    BY <1>1
  <2> QED BY <1>5, <2>1, <2>2, Zenon
<1>8. Alone(r)' = Alone(r) /\ \A H : Following(r, H)' = Following(r, H)
  BY DEF Alone, Following
<1> QED BY <1>1, <1>5, <1>6, <1>7, <1>8 DEF AnswersOwnSoFar, Following

\* A token joins the history it was drawn for.
LEMMA ExtendAnswers ==
  ASSUME CacheInv, AnswerInv, NEW s \in Owner, Extend(s)
  PROVE  AnswerInv' /\ KVP!Sample(s)
<1>1. /\ s \in DOMAIN sampled
      /\ history' = [history EXCEPT ![s] = Append(@, sampled[s])]
      /\ sampled' = [o \in DOMAIN sampled \ {s} |-> sampled[o]]
      /\ draws' = draws
      /\ UNCHANGED <<pool, table, inflight, prefix_cache, keys, torn>>
  BY DEF Extend, modelvars
<1>2. /\ history \in [Owner -> Seq(Token)] /\ history[s] \in Seq(Token)
      /\ Len(history[s]) \in Nat /\ Len(Prompt[s]) \in Nat /\ MostTokens[s] \in Nat
  <2>1. history \in [Owner -> Seq(Token)]
    BY DEF CacheInv, KVP!IInv, KVP!TypeInv
  <2>2. Prompt[s] \in Seq(Token)
    BY ForwardAssumption
  <2> QED BY <2>1, <2>2, ModelAssumption
<1>3. /\ Len(Prompt[s]) <= Len(history[s]) /\ Len(history[s]) < MostTokens[s]
      /\ history[s] = Alone(s)[Len(history[s])]
      /\ sampled[s] = Following(s, history[s])
      /\ ~ Settings[s].greedy => draws[s] = Len(history[s]) - Len(Prompt[s]) + 1
  BY <1>1, Zenon DEF AnswerInv, AnswersOwnSoFar
<1>4. sampled[s] \in Token
  BY <1>2, <1>3, FollowingType
<1>5. /\ history'[s] = Append(history[s], sampled[s])
      /\ Len(history'[s]) = Len(history[s]) + 1
  BY <1>1, <1>2, <1>4
<1>6. Alone(s)[Len(history[s]) + 1] = history'[s]
  BY <1>2, <1>3, <1>5, AloneGoesOn
<1>7. AnswersOwnSoFar(s)'
  <2>1. Alone(s)' = Alone(s)
    BY DEF Alone
  <2>2. s \notin DOMAIN sampled'
    BY <1>1
  <2>3. Len(Prompt[s]) <= Len(history'[s]) /\ Len(history'[s]) <= MostTokens[s]
    BY <1>2, <1>3, <1>5
  <2>4. history'[s] = Alone(s)[Len(history'[s])]
    BY <1>5, <1>6
  <2>5. ~ Settings[s].greedy => draws'[s] = Len(history'[s]) - Len(Prompt[s])
    <3>1. Len(history'[s]) - Len(Prompt[s]) = Len(history[s]) - Len(Prompt[s]) + 1
      BY <1>2, <1>5
    <3> QED BY <1>1, <1>3, <3>1, Zenon
  <2> QED BY <2>1, <2>2, <2>3, <2>4, <2>5 DEF AnswersOwnSoFar
<1>8. ASSUME NEW r \in Owner, r # s PROVE AnswersOwnSoFar(r)'
  <2>1. history'[r] = history[r] /\ draws'[r] = draws[r]
        /\ (r \in DOMAIN sampled' <=> r \in DOMAIN sampled)
        /\ (r \in DOMAIN sampled => sampled'[r] = sampled[r])
    BY <1>1, <1>2, <1>8
  <2> QED BY <2>1, AnswerStays DEF AnswerInv
<1>9. AnswerInv'
  BY <1>7, <1>8 DEF AnswerInv
<1>10. KVP!Sample(s)
  <2>1. Contents' = Contents
    BY <1>1, ContentsMapped
  <2> QED BY <1>1, <1>4, <2>1 DEF KVP!Sample
<1> QED BY <1>9, <1>10

-----------------------------------------------------------------------------
(* Every step is a step of PagedKV and keeps the invariant. *)

\* The cache and the tables are PagedKV's, a pass under way computes what it
\* should, and the answers are the sequences' own.
Inv ==
    /\ CacheInv
    /\ DOMAIN keys = 1..Layers
    /\ PassHolds
    /\ AnswerInv

\* A step that leaves the tensors, the pass and the answers alone.
LEMMA TablesMove ==
  ASSUME Inv, pass = NoPass, UNCHANGED <<modelvars, sampled, history>>
  PROVE  DOMAIN keys' = 1..Layers /\ PassHolds' /\ AnswerInv' /\ Contents' = Contents
<1>1. /\ pass' = NoPass /\ keys' = keys /\ torn' = torn /\ draws' = draws
      /\ sampled' = sampled /\ history' = history
  BY DEF modelvars
<1>2. ASSUME NEW r \in Owner PROVE AnswersOwnSoFar(r)'
  BY <1>1, AnswerStays DEF Inv, AnswerInv
<1>3. PassHolds'
  BY <1>1 DEF PassHolds
<1>4. Contents' = Contents
  BY <1>1, ContentsMapped
<1> QED BY <1>1, <1>2, <1>3, <1>4 DEF Inv, AnswerInv

\* A step of the scheduler, between two passes.
LEMMA TableStep ==
  ASSUME Inv, NEW r \in Owner, Claim(r) \/ Grow(r) \/ Free(r) \/ Commit(r)
  PROVE  KVP!Next /\ DOMAIN keys' = 1..Layers /\ PassHolds' /\ AnswerInv'
<1>1. pass = NoPass
  <2>1. CASE Commit(r)
    <3>1. inflight[r] > 0 /\ inflight[r] \in Nat
      BY <2>1, OwnerTyped DEF Commit, KV!Commit, Inv
    <3>2. inflight[r] # 0
      BY <3>1
    <3> QED BY <3>2 DEF Inv, PassHolds
  <2>2. CASE ~ Commit(r)
    BY <2>2 DEF Claim, Grow, Free, Between
  <2> QED BY <2>1, <2>2
<1>2. UNCHANGED <<modelvars, sampled, history>>
  BY DEF Claim, Grow, Free, Commit, KV!Claim, KV!Grow, KV!Free, KV!Commit
<1>3. KVP!Claim(r) \/ KVP!Grow(r) \/ KVP!Free(r) \/ KVP!Commit(r)
  BY SameBlockSteps, SameCommit DEF Claim, Grow, Free, Commit
<1> QED BY <1>1, <1>2, <1>3, TablesMove DEF KVP!Next

\* A pass begins or is given up: PagedKV sees nothing of it.
LEMMA QuietStep ==
  ASSUME Inv, UNCHANGED <<pool, table, history, inflight, prefix_cache, keys, torn,
                          sampled, draws>>
  PROVE  UNCHANGED KVP!vars /\ DOMAIN keys' = 1..Layers /\ AnswerInv'
<1>1. Contents' = Contents
  BY ContentsMapped
<1>2. ASSUME NEW r \in Owner PROVE AnswersOwnSoFar(r)'
  BY AnswerStays DEF Inv, AnswerInv
<1> QED BY <1>1, <1>2 DEF KVP!vars, Inv, AnswerInv

\* A step of the pass.
LEMMA PassStep ==
  ASSUME Inv, Layer \/ Finish \/ Fail
  PROVE  [KVP!Next]_(KVP!vars) /\ DOMAIN keys' = 1..Layers /\ PassHolds' /\ AnswerInv'
<1> USE DEF Inv
<1>1. CASE Layer
  <2>1. PassHolds' /\ DOMAIN keys' = 1..Layers
    BY <1>1, LayerKeeps
  <2>2. KVP!Next
    BY <1>1, LayerSpoils DEF KVP!Next
  <2>3. UNCHANGED <<history, sampled, draws>>
    BY <1>1 DEF Layer
  <2>4. AnswerInv'
    BY <2>3, AnswerStays DEF AnswerInv
  <2> QED BY <2>1, <2>2, <2>4
<1>2. CASE Finish
  <2>1. KVP!Next
    BY <1>2, FinishRuns DEF KVP!Next
  <2>2. AnswerInv'
    BY <1>2, FinishAnswers
  <2>3. PassHolds' /\ DOMAIN keys' = 1..Layers
    BY <1>2 DEF Finish, PassHolds
  <2> QED BY <2>1, <2>2, <2>3
<1>3. CASE Fail
  <2>1. UNCHANGED KVP!vars /\ DOMAIN keys' = 1..Layers /\ AnswerInv'
    BY <1>3, QuietStep DEF Fail
  <2>2. PassHolds'
    BY <1>3 DEF Fail, PassHolds
  <2> QED BY <2>1, <2>2
<1> QED BY <1>1, <1>2, <1>3

\* A pass that begins.
LEMMA BeginStep ==
  ASSUME Inv, NEW batch, NEW n, NEW ids, Begin(batch, n, ids)
  PROVE  UNCHANGED KVP!vars /\ DOMAIN keys' = 1..Layers /\ AnswerInv'
BY QuietStep DEF Begin

\* Nothing happens.
LEMMA Stutter ==
  ASSUME Inv, UNCHANGED vars
  PROVE  UNCHANGED KVP!vars /\ DOMAIN keys' = 1..Layers /\ PassHolds' /\ AnswerInv'
<1>1. UNCHANGED KVP!vars /\ DOMAIN keys' = 1..Layers /\ AnswerInv'
  BY QuietStep DEF vars
<1>2. CASE pass = NoPass
  <2>1. pass' = NoPass
    BY <1>2 DEF vars
  <2> QED BY <1>1, <2>1 DEF PassHolds
<1>3. CASE pass # NoPass
  <2>1. /\ pass = [batch |-> pass.batch, n |-> pass.n, ids |-> pass.ids,
                   layer |-> pass.layer, x |-> pass.x]
        /\ pass.layer \in 0..Layers
        /\ CarriesOnly(pass.n) /\ Aligned(pass.batch, pass.n)
        /\ Wanted(pass.batch, pass.n, pass.ids)
        /\ \A r \in Owner : inflight[r] = 0
        /\ DOMAIN sampled = {}
        /\ \A r \in DOMAIN pass.n : Len(history[r]) < MostTokens[r]
        /\ Computing(keys, torn, pass.batch, pass.n, pass.layer, pass.x)
    BY <1>3 DEF Inv, PassHolds
  <2>2. UNCHANGED <<table, history, attention>> /\ keys' = keys /\ torn' = torn
        /\ pass' = pass /\ inflight' = inflight /\ sampled' = sampled
    BY DEF vars
  <2>3. PassHolds'
    BY <2>1, <2>2, PassKept
  <2> QED BY <1>1, <2>3
<1> QED BY <1>2, <1>3

\* Every step does in the cache what PagedKV allows and keeps the rest.
LEMMA StepMaps ==
  ASSUME Inv, [Next]_vars
  PROVE  [KVP!Next]_(KVP!vars) /\ DOMAIN keys' = 1..Layers /\ PassHolds' /\ AnswerInv'
<1>1. CASE \E r \in Owner : Claim(r) \/ Grow(r) \/ Free(r) \/ Commit(r)
  BY <1>1, TableStep
<1>2. ASSUME NEW r \in Owner, Extend(r)
      PROVE  [KVP!Next]_(KVP!vars) /\ DOMAIN keys' = 1..Layers /\ PassHolds' /\ AnswerInv'
  <2>1. AnswerInv' /\ KVP!Sample(r)
    BY <1>2, ExtendAnswers DEF Inv
  <2>2. KVP!Next
    BY <2>1 DEF KVP!Next
  <2>3. pass = NoPass
    BY <1>2 DEF Extend, Inv, PassHolds
  <2>4. pass' = pass /\ keys' = keys
    BY <1>2 DEF Extend, modelvars
  <2> QED BY <2>1, <2>2, <2>3, <2>4 DEF Inv, PassHolds
<1>3. ASSUME NEW r \in Owner, Prefill(r)
      PROVE  [KVP!Next]_(KVP!vars) /\ DOMAIN keys' = 1..Layers /\ PassHolds' /\ AnswerInv'
  <2>1. PassHolds'
    BY <1>3, PrefillKeeps DEF Inv
  <2>2. UNCHANGED KVP!vars /\ DOMAIN keys' = 1..Layers /\ AnswerInv'
    BY <1>3, BeginStep DEF Prefill
  <2> QED BY <2>1, <2>2
<1>4. ASSUME NEW rs \in Decoders, Decode(rs)
      PROVE  [KVP!Next]_(KVP!vars) /\ DOMAIN keys' = 1..Layers /\ PassHolds' /\ AnswerInv'
  <2>1. PassHolds'
    BY <1>4, DecodeKeeps DEF Inv
  <2>2. UNCHANGED KVP!vars /\ DOMAIN keys' = 1..Layers /\ AnswerInv'
    BY <1>4, BeginStep DEF Decode
  <2> QED BY <2>1, <2>2
<1>5. ASSUME NEW rs \in Decoders, NEW s \in Owner, NEW take \in KV!Runnable(s),
             Mixed(rs, s, take)
      PROVE  [KVP!Next]_(KVP!vars) /\ DOMAIN keys' = 1..Layers /\ PassHolds' /\ AnswerInv'
  <2>1. PassHolds'
    BY <1>5, MixedKeeps DEF Inv
  <2>2. UNCHANGED KVP!vars /\ DOMAIN keys' = 1..Layers /\ AnswerInv'
    BY <1>5, BeginStep DEF Mixed
  <2> QED BY <2>1, <2>2
<1>6. CASE Layer \/ Finish \/ Fail
  BY <1>6, PassStep
<1>7. CASE UNCHANGED vars
  BY <1>7, Stutter
<1> QED BY <1>1, <1>2, <1>3, <1>4, <1>5, <1>6, <1>7 DEF Next

\* It begins as PagedKV does.
LEMMA InitMaps == Init => KVP!Init /\ Inv
<1> SUFFICES ASSUME Init PROVE KVP!Init /\ Inv
  OBVIOUS
<1>1. Contents = [b \in Block |-> [o \in Offset |-> Garbage]]
  <2>1. ASSUME NEW b \in Block, NEW o \in Offset PROVE ContentAt(keys, torn, b, o) = Garbage
    <3>1. Layers \in 1..Layers /\ 1 \in KvHead
      BY ForwardAssumption DEF KvHead
    <3>2. keys[Layers][b][o][1] = Zero(1)
      BY <3>1 DEF Init
    <3>3. keys[Layers][b][o][1].of = Garbage
      BY <3>2 DEF Zero
    <3> QED BY <3>3 DEF ContentAt
  <2> QED BY <2>1, ContentsMapped DEF ContentsOf
<1>2. history \in [Owner -> {Prompt[r] : r \in Owner}]
  BY ForwardAssumption DEF Init
<1>3. KV!Init
  <2>1. KV!NewPool = NewPool /\ KV!NewTable = NewTable /\ KV!Offset = Offset /\ KV!Garbage = Garbage
    BY DEF KV!NewPool, NewPool, KV!NoName, NoName, KV!NewTable, NewTable, KV!Offset,
           Offset, KV!Garbage, Garbage
  <2> QED BY <1>1, <1>2, <2>1 DEF KV!Init, Init
<1>4. KVP!Init
  BY <1>3, SameInit
<1>5. CacheInv
  <2>1. KVP!TypeInv
    BY <1>4, MappedAssumptions, KVP!TypeInvInit
  <2>2. KVP!PoolInv
    BY <1>4, MappedAssumptions, KVP!PoolInvInit
  <2>3. KVP!ContentInv
    BY <1>4, MappedAssumptions, KVP!ContentInvInit
  <2> QED BY <2>1, <2>2, <2>3 DEF CacheInv, KVP!IInv
<1>6. DOMAIN keys = 1..Layers /\ PassHolds
  BY DEF Init, PassHolds
<1>7. ASSUME NEW r \in Owner PROVE AnswersOwnSoFar(r)
  <2>1. history[r] = Prompt[r] /\ r \notin DOMAIN sampled /\ draws[r] = 0
    BY DEF Init
  <2>2. Prompt[r] = Alone(r)[Len(Prompt[r])]
    BY AloneDefined DEF AloneIs
  <2>3. Len(Prompt[r]) \in Nat /\ Len(Prompt[r]) <= MostTokens[r]
        /\ Len(Prompt[r]) - Len(Prompt[r]) = 0
    <3>1. Prompt[r] \in Seq(Token)
      BY ForwardAssumption
    <3> QED BY <3>1, ModelAssumption
  <2>4. Len(Prompt[r]) <= Len(Prompt[r])
    BY <2>3
  <2> QED BY <2>1, <2>2, <2>3, <2>4, Zenon DEF AnswersOwnSoFar
<1> QED BY <1>4, <1>5, <1>6, <1>7 DEF Inv, AnswerInv

\* The invariant is inductive.
LEMMA InvNext == Inv /\ [Next]_vars => Inv'
<1> SUFFICES ASSUME Inv, [Next]_vars PROVE Inv'
  OBVIOUS
<1>1. [KVP!Next]_(KVP!vars) /\ DOMAIN keys' = 1..Layers /\ PassHolds' /\ AnswerInv'
  BY StepMaps
<1>2. KVP!IInv /\ KVP!ContentInv
  BY DEF Inv, CacheInv
<1>3. KVP!IInv'
  BY <1>1, <1>2, MappedAssumptions, KVP!IInvNext
<1>4. KVP!ContentInv'
  BY <1>1, <1>2, MappedAssumptions, KVP!ContentInvNext
<1> QED BY <1>1, <1>3, <1>4 DEF Inv, CacheInv

\* The invariant holds throughout.
LEMMA InvAlways == Spec => []Inv
<1>1. Init => Inv
  BY InitMaps
<1>2. Inv /\ [Next]_vars => Inv'
  BY InvNext
<1> QED BY <1>1, <1>2, PTL DEF Spec

\* Whatever the number of layers and heads, the sequences, the model and the
\* batches: the tensors a pass writes layer by layer, rectangle or one row per
\* token, by the mask or by the kernel's walk, interrupted or not, are the cache
\* of PagedKV (batch.rs, model/attention.rs forward_batch).
THEOREM ForwardUsesPagedKV == Spec => ImplementsPagedKV
<1>1. Init => KV!Init
  BY InitMaps, SameInit
<1>2. Inv /\ [Next]_vars => [KV!Next]_(KV!vars)
  BY StepMaps, SameNext
<1> QED BY <1>1, <1>2, InvAlways, PTL DEF Spec, ImplementsPagedKV, KV!Spec

\* Every sequence is answered as if it were alone, whatever it shares its passes
\* with and whatever is evicted, lent or lost in between (engine.rs sample).
THEOREM AnswersOwn == Spec => []AnswersAreTheirOwn
<1>1. Inv => AnswersAreTheirOwn
  BY DEF Inv, AnswerInv, AnswersOwnSoFar, AnswersAreTheirOwn
<1> QED BY <1>1, InvAlways, PTL

=============================================================================
