--------------------------- MODULE SchedulerProofs ---------------------------
(***************************************************************************)
(* The scheduler's queues, plans and answers, for every pool, vocabulary,  *)
(* set of requests, batch size and chunk: no sequence is lost or doubled,  *)
(* every planned row continues its own history, and what is reported is    *)
(* what was sampled.  The pool and the tables are those of PagedKV, whose  *)
(* proofs are used through the refinement mapping.                         *)
(***************************************************************************)
EXTENDS Scheduler, BlocksProofs, WellFoundedInduction

KVP == INSTANCE PagedKVProofs WITH
        Owner <- Request,
        history <- [r \in Request |-> seq[r].history],
        inflight <- [r \in Request |-> Inflight(r)],
        prefix_cache <- PrefixCache

-----------------------------------------------------------------------------
(* First and last, and what the queues are made of. *)

\* A set of numbers with a bound that is not empty has a last element.
LEMMA Greatest ==
  ASSUME NEW n \in Nat, NEW P \in SUBSET (0..n), P # {}
  PROVE  \E i \in P : \A j \in P : j <= i
<1> DEFINE Q == {n - i : i \in P}
<1>1. \A i \in P : i \in 0..n /\ n - i \in Nat
  OBVIOUS
<1>2. Q \in SUBSET Nat /\ Q # {}
  BY <1>1
<1>3. PICK q \in Q : \A p \in Q : q <= p
  <2> HIDE DEF Q
  <2> QED BY <1>2, Least
<1>4. PICK i \in P : q = n - i
  BY <1>3
<1>5. ASSUME NEW j \in P PROVE j <= i
  <2>1. q <= n - j
    BY <1>3
  <2> QED BY <2>1, <1>1, <1>4
<1> QED BY <1>4, <1>5

\* The members of a sequence are the values at its positions.
LEMMA ToSetMeans ==
  ASSUME NEW S, NEW s \in Seq(S), NEW x
  PROVE  /\ x \in ToSet(s) <=> \E i \in 1..Len(s) : s[i] = x
         /\ ToSet(s) \subseteq S
BY DEF ToSet

\* A sequence grows at its end by a member it did not have.
LEMMA AppendNew ==
  ASSUME NEW S, NEW s \in Seq(S), NEW x \in S
  PROVE  /\ Append(s, x) \in Seq(S)
         /\ ToSet(Append(s, x)) = ToSet(s) \cup {x}
         /\ IsInjective(s) /\ x \notin ToSet(s) => IsInjective(Append(s, x))
<1> DEFINE t == Append(s, x)
<1>1. /\ t \in Seq(S) /\ Len(t) = Len(s) + 1 /\ Len(s) \in Nat
      /\ t[Len(s) + 1] = x /\ \A i \in 1..Len(s) : t[i] = s[i]
  OBVIOUS
<1> HIDE DEF t
<1>2. ToSet(t) = ToSet(s) \cup {x}
  <2>1. ASSUME NEW y PROVE y \in ToSet(t) <=> y \in ToSet(s) \cup {x}
    BY <1>1, ToSetMeans
  <2> QED BY <2>1
<1>3. ASSUME IsInjective(s), x \notin ToSet(s) PROVE IsInjective(t)
  <2>1. \A i \in 1..Len(s) : s[i] # x
    BY <1>3, ToSetMeans
  <2>2. DOMAIN s = 1..Len(s) /\ DOMAIN t = 1..(Len(s) + 1)
    BY <1>1
  <2>3. ASSUME NEW i \in 1..(Len(s) + 1), NEW j \in 1..(Len(s) + 1), t[i] = t[j]
        PROVE  i = j
    <3>1. CASE i = Len(s) + 1
      BY <1>1, <2>1, <2>3, <3>1
    <3>2. CASE j = Len(s) + 1
      BY <1>1, <2>1, <2>3, <3>2
    <3>3. CASE i \in 1..Len(s) /\ j \in 1..Len(s)
      BY <1>1, <1>3, <2>2, <2>3, <3>3 DEF IsInjective
    <3> QED BY <1>1, <3>1, <3>2, <3>3
  <2> QED BY <2>2, <2>3 DEF IsInjective
<1> QED BY <1>1, <1>2, <1>3 DEF t

\* A sequence grows at its front by a member it did not have.
LEMMA ConsNew ==
  ASSUME NEW S, NEW s \in Seq(S), NEW x \in S
  PROVE  /\ <<x>> \o s \in Seq(S)
         /\ Len(<<x>> \o s) = Len(s) + 1
         /\ (<<x>> \o s)[1] = x
         /\ \A i \in 1..Len(s) : (<<x>> \o s)[i + 1] = s[i]
         /\ ToSet(<<x>> \o s) = ToSet(s) \cup {x}
         /\ IsInjective(s) /\ x \notin ToSet(s) => IsInjective(<<x>> \o s)
<1> DEFINE t == <<x>> \o s
<1>1. /\ t \in Seq(S) /\ Len(t) = Len(s) + 1 /\ Len(s) \in Nat
      /\ t[1] = x /\ \A i \in 2..(Len(s) + 1) : t[i] = s[i - 1]
  OBVIOUS
<1>2. \A i \in 1..Len(s) : t[i + 1] = s[i]
  OBVIOUS
<1> HIDE DEF t
<1>3. ToSet(t) = ToSet(s) \cup {x}
  <2>1. ASSUME NEW y PROVE y \in ToSet(t) <=> y \in ToSet(s) \cup {x}
    <3>1. CASE y \in ToSet(t)
      <4>1. PICK i \in 1..(Len(s) + 1) : t[i] = y
        BY <1>1, <3>1, ToSetMeans
      <4>2. i = 1 \/ (i - 1 \in 1..Len(s) /\ s[i - 1] = y)
        BY <4>1, <1>1
      <4> QED BY <4>1, <4>2, <1>1, ToSetMeans
    <3>2. CASE y = x
      <4>1. 1 \in 1..Len(t) /\ t[1] = y
        BY <1>1, <3>2
      <4> QED BY <4>1, <1>1, <3>2, ToSetMeans
    <3>3. CASE y \in ToSet(s)
      <4>1. PICK i \in 1..Len(s) : s[i] = y
        BY <3>3, ToSetMeans
      <4>2. i + 1 \in 1..Len(t) /\ t[i + 1] = y
        BY <1>1, <1>2, <4>1
      <4> QED BY <4>2, <1>1, <3>3, ToSetMeans
    <3> QED BY <3>1, <3>2, <3>3
  <2> QED BY <2>1
<1>4. ASSUME IsInjective(s), x \notin ToSet(s) PROVE IsInjective(t)
  <2>1. \A i \in 1..Len(s) : s[i] # x
    BY <1>4, ToSetMeans
  <2>2. DOMAIN s = 1..Len(s) /\ DOMAIN t = 1..(Len(s) + 1)
    BY <1>1
  <2>3. ASSUME NEW i \in 1..(Len(s) + 1), NEW j \in 1..(Len(s) + 1), t[i] = t[j]
        PROVE  i = j
    <3>1. i = 1 \/ (i - 1 \in 1..Len(s) /\ t[i] = s[i - 1])
      BY <1>1
    <3>2. j = 1 \/ (j - 1 \in 1..Len(s) /\ t[j] = s[j - 1])
      BY <1>1
    <3>3. CASE i # 1 /\ j # 1
      <4>1. i - 1 = j - 1
        BY <1>4, <2>2, <2>3, <3>1, <3>2, <3>3 DEF IsInjective
      <4> QED BY <4>1
    <3> QED BY <1>1, <2>1, <2>3, <3>1, <3>2, <3>3
  <2> QED BY <2>2, <2>3 DEF IsInjective
<1> QED BY <1>1, <1>2, <1>3, <1>4 DEF t

\* What is left when the first of a sequence is taken.
LEMMA TailOnce ==
  ASSUME NEW S, NEW s \in Seq(S), s # <<>>
  PROVE  /\ Head(s) \in S /\ Head(s) \in ToSet(s) /\ Head(s) = s[1]
         /\ Tail(s) \in Seq(S) /\ Len(Tail(s)) = Len(s) - 1 /\ Len(s) > 0
         /\ \A i \in 1..(Len(s) - 1) : Tail(s)[i] = s[i + 1]
         /\ IsInjective(s) =>
              IsInjective(Tail(s)) /\ ToSet(Tail(s)) = ToSet(s) \ {Head(s)}
<1> DEFINE t == Tail(s)
<1>1. /\ t \in Seq(S) /\ Len(t) = Len(s) - 1 /\ Len(s) \in Nat \ {0}
      /\ \A i \in 1..(Len(s) - 1) : t[i] = s[i + 1]
      /\ Head(s) = s[1] /\ s[1] \in S
  OBVIOUS
<1>2. Head(s) \in ToSet(s)
  <2>1. 1 \in 1..Len(s)
    BY <1>1
  <2> QED BY <1>1, <2>1, ToSetMeans
<1> HIDE DEF t
<1>3. ASSUME IsInjective(s)
      PROVE  IsInjective(t) /\ ToSet(t) = ToSet(s) \ {s[1]}
  <2>1. DOMAIN s = 1..Len(s) /\ DOMAIN t = 1..(Len(s) - 1)
    BY <1>1
  <2>2. \A i, j \in 1..Len(s) : s[i] = s[j] => i = j
    BY <1>3, <2>1 DEF IsInjective
  <2>3. ASSUME NEW i \in 1..(Len(s) - 1), NEW j \in 1..(Len(s) - 1), t[i] = t[j]
        PROVE  i = j
    <3>1. i + 1 \in 1..Len(s) /\ j + 1 \in 1..Len(s) /\ s[i + 1] = s[j + 1]
      BY <1>1, <2>3
    <3>2. i + 1 = j + 1
      BY <2>2, <3>1
    <3> QED BY <3>2
  <2>4. ASSUME NEW y PROVE y \in ToSet(t) <=> y \in ToSet(s) \ {s[1]}
    <3>1. CASE y \in ToSet(t)
      <4>1. PICK i \in 1..(Len(s) - 1) : t[i] = y
        BY <1>1, <3>1, ToSetMeans
      <4>2. i + 1 \in 1..Len(s) /\ s[i + 1] = y /\ i + 1 # 1 /\ 1 \in 1..Len(s)
        BY <1>1, <4>1
      <4>3. y # s[1]
        BY <2>2, <4>2
      <4> QED BY <3>1, <4>2, <4>3, ToSetMeans
    <3>2. CASE y \in ToSet(s) \ {s[1]}
      <4>1. PICK i \in 1..Len(s) : s[i] = y
        BY <3>2, ToSetMeans
      <4>2. i # 1
        BY <3>2, <4>1
      <4>3. i - 1 \in 1..Len(t) /\ t[i - 1] = y
        BY <1>1, <4>1, <4>2
      <4> QED BY <1>1, <3>2, <4>3, ToSetMeans
    <3> QED BY <3>1, <3>2
  <2> QED BY <2>1, <2>3, <2>4 DEF IsInjective
<1> QED BY <1>1, <1>2, <1>3 DEF t

\* What RemoveAt leaves is at the same position, or one further down.
LEMMA RemoveAtFields ==
  ASSUME NEW S, NEW s \in Seq(S), NEW n \in 1..Len(s)
  PROVE  /\ RemoveAt(s, n) \in Seq(S)
         /\ Len(RemoveAt(s, n)) = Len(s) - 1
         /\ \A i \in 1..(Len(s) - 1) :
              RemoveAt(s, n)[i] = IF i < n THEN s[i] ELSE s[i + 1]
<1> DEFINE a == SubSeq(s, 1, n - 1)
           b == SubSeq(s, n + 1, Len(s))
<1>1. Len(s) \in Nat
  OBVIOUS
<1>2. a \in Seq(S) /\ Len(a) = n - 1 /\ \A i \in 1..(n - 1) : a[i] = s[i]
  OBVIOUS
<1>3. b \in Seq(S) /\ Len(b) = Len(s) - n /\ \A i \in 1..(Len(s) - n) : b[i] = s[n + i]
  BY <1>1
<1> HIDE DEF a, b
<1>4. /\ a \o b \in Seq(S) /\ Len(a \o b) = Len(s) - 1
      /\ \A i \in 1..(Len(s) - 1) :
           (a \o b)[i] = IF i <= n - 1 THEN a[i] ELSE b[i - (n - 1)]
  <2>1. n - 1 \in Nat /\ (n - 1) + (Len(s) - n) = Len(s) - 1
    BY <1>1
  <2>2. /\ a \o b \in Seq(S) /\ Len(a \o b) = Len(a) + Len(b)
        /\ \A i \in 1..(Len(a) + Len(b)) :
             (a \o b)[i] = IF i <= Len(a) THEN a[i] ELSE b[i - Len(a)]
    BY <1>2, <1>3, ConcatProperties
  <2>3. Len(a) + Len(b) = Len(s) - 1
    BY <1>2, <1>3, <2>1
  <2> QED BY <1>2, <2>2, <2>3
<1>5. ASSUME NEW i \in 1..(Len(s) - 1)
      PROVE  (a \o b)[i] = IF i < n THEN s[i] ELSE s[i + 1]
  <2>1. CASE i < n
    BY <1>1, <1>2, <1>4, <2>1
  <2>2. CASE ~ (i < n)
    <3>1. i - (n - 1) \in 1..(Len(s) - n) /\ n + (i - (n - 1)) = i + 1
      BY <1>1, <2>2
    <3> QED BY <1>1, <1>3, <1>4, <2>2, <3>1
  <2> QED BY <2>1, <2>2
<1>6. RemoveAt(s, n) = a \o b
  BY DEF RemoveAt, a, b
<1> QED BY <1>4, <1>5, <1>6

\* RemoveAt takes one member out of a sequence without repetitions.
LEMMA RemoveAtOnce ==
  ASSUME NEW S, NEW s \in Seq(S), NEW n \in 1..Len(s), IsInjective(s)
  PROVE  /\ IsInjective(RemoveAt(s, n))
         /\ ToSet(RemoveAt(s, n)) = ToSet(s) \ {s[n]}
<1> DEFINE t == RemoveAt(s, n)
<1>1. /\ t \in Seq(S) /\ Len(t) = Len(s) - 1 /\ Len(s) \in Nat
      /\ \A i \in 1..(Len(s) - 1) : t[i] = IF i < n THEN s[i] ELSE s[i + 1]
  BY RemoveAtFields
<1> HIDE DEF t
<1>2. DOMAIN s = 1..Len(s) /\ DOMAIN t = 1..(Len(s) - 1)
  BY <1>1
<1>3. \A i, j \in 1..Len(s) : s[i] = s[j] => i = j
  BY <1>2 DEF IsInjective
<1>4. ASSUME NEW i \in 1..(Len(s) - 1)
      PROVE  \E k \in 1..Len(s) : /\ k = IF i < n THEN i ELSE i + 1
                                  /\ s[k] = t[i] /\ k # n
  BY <1>1
<1>5. ASSUME NEW i \in 1..(Len(s) - 1), NEW j \in 1..(Len(s) - 1), t[i] = t[j]
      PROVE  i = j
  <2>1. PICK k \in 1..Len(s) : k = (IF i < n THEN i ELSE i + 1) /\ s[k] = t[i]
    BY <1>4
  <2>2. PICK l \in 1..Len(s) : l = (IF j < n THEN j ELSE j + 1) /\ s[l] = t[j]
    BY <1>4
  <2>3. k = l
    BY <1>3, <1>5, <2>1, <2>2
  <2> QED BY <2>1, <2>2, <2>3
<1>6. ASSUME NEW y PROVE y \in ToSet(t) <=> y \in ToSet(s) \ {s[n]}
  <2>1. CASE y \in ToSet(t)
    <3>1. PICK i \in 1..(Len(s) - 1) : t[i] = y
      BY <1>1, <2>1, ToSetMeans
    <3>2. PICK k \in 1..Len(s) : s[k] = t[i] /\ k # n
      BY <1>4
    <3>3. y # s[n]
      BY <1>3, <3>1, <3>2
    <3> QED BY <2>1, <3>1, <3>2, <3>3, ToSetMeans
  <2>2. CASE y \in ToSet(s) \ {s[n]}
    <3>1. PICK k \in 1..Len(s) : s[k] = y
      BY <2>2, ToSetMeans
    <3>2. k # n
      BY <2>2, <3>1
    <3>3. \E i \in 1..(Len(s) - 1) : t[i] = y
      <4>1. CASE k < n
        <5>1. k \in 1..(Len(s) - 1)
          BY <1>1, <4>1
        <5> QED BY <1>1, <3>1, <4>1, <5>1
      <4>2. CASE ~ (k < n)
        <5>1. k - 1 \in 1..(Len(s) - 1) /\ ~ (k - 1 < n) /\ (k - 1) + 1 = k
          BY <1>1, <3>2, <4>2
        <5> QED BY <1>1, <3>1, <5>1
      <4> QED BY <4>1, <4>2
    <3> QED BY <1>1, <2>2, <3>3, ToSetMeans
  <2> QED BY <2>1, <2>2
<1> QED BY <1>2, <1>5, <1>6 DEF IsInjective, t

\* Without takes a member out, if it is there, and leaves the rest in order.
LEMMA WithoutOnce ==
  ASSUME NEW S, NEW s \in Seq(S), NEW x, IsInjective(s)
  PROVE  /\ Without(s, x) \in Seq(S)
         /\ IsInjective(Without(s, x))
         /\ ToSet(Without(s, x)) = ToSet(s) \ {x}
         /\ x \notin ToSet(s) => Without(s, x) = s
         /\ x \in ToSet(s) =>
              \E n \in 1..Len(s) : s[n] = x /\ Without(s, x) = RemoveAt(s, n)
<1> DEFINE P == {i \in DOMAIN s : s[i] = x}
<1>1. DOMAIN s = 1..Len(s) /\ Len(s) \in Nat
  OBVIOUS
<1>2. CASE P = {}
  <2>1. x \notin ToSet(s)
    BY <1>1, <1>2, ToSetMeans
  <2> QED BY <1>2, <2>1 DEF Without
<1>3. CASE P # {}
  <2> DEFINE n == CHOOSE i \in P : \A j \in P : i <= j
  <2>1. P \in SUBSET Nat
    BY <1>1
  <2>2. n \in P
    <3> HIDE DEF P
    <3>1. \E i \in P : \A j \in P : i <= j
      BY <1>3, <2>1, Least
    <3> QED BY <3>1
  <2>3. n \in 1..Len(s) /\ s[n] = x /\ x \in ToSet(s)
    BY <1>1, <2>2, ToSetMeans
  <2>4. Without(s, x) = RemoveAt(s, n)
    BY <1>3 DEF Without
  <2> HIDE DEF n
  <2> QED BY <2>3, <2>4, RemoveAtFields, RemoveAtOnce
<1> QED BY <1>2, <1>3

-----------------------------------------------------------------------------
(* PagedKV under the mapping works on pools and tables with the same       *)
(* operators.                                                              *)

\* The mapped constants satisfy what PagedKV assumes of its own.
LEMMA MappedAssumptions == KVP!BlocksAssumption /\ KVP!OwnerAssumption
<1>1. \A S : IsFiniteSet(S) <=> KVP!IsFiniteSet(S)
  BY DEF IsFiniteSet, KVP!IsFiniteSet
<1> QED
  BY <1>1, BlocksAssumption, SchedulerAssumption
  DEF KVP!BlocksAssumption, KVP!OwnerAssumption

\* The types are the same.
LEMMA SameTypes ==
  /\ KVP!Pool = Pool /\ KVP!Table = Table /\ KVP!Offset = Offset
  /\ KVP!NewPool = NewPool /\ KVP!NewTable = NewTable /\ KVP!Garbage = Garbage
  /\ \A t : KVP!WellFormed(t) <=> WellFormed(t)
  /\ \A t : KVP!Capacity(t) = Capacity(t)
  /\ \A a, b : KVP!AtMost(a, b) = AtMost(a, b)
BY DEF Pool, KVP!Pool, Index, KVP!Index, Name, KVP!Name, Table, KVP!Table, Offset,
       KVP!Offset, NewPool, KVP!NewPool, NoName, KVP!NoName, NewTable, KVP!NewTable,
       Garbage, KVP!Garbage, WellFormed, KVP!WellFormed, Capacity, KVP!Capacity,
       AtMost, KVP!AtMost

\* The pool is taken from and given back to in the same way.
LEMMA SamePool ==
  /\ \A p : KVP!Allocatable(p) = Allocatable(p)
  /\ \A p, b : KVP!Allocate(p, b) = Allocate(p, b)
  /\ \A t, b : KVP!Push(t, b) = Push(t, b)
  /\ \A p, blocks : KVP!ReleaseAll(p, blocks) = ReleaseAll(p, blocks)
<1>1. \A p : KVP!Allocatable(p) = Allocatable(p)
  BY DEF Allocatable, KVP!Allocatable, Anonymous, KVP!Anonymous, LeastRecent,
         KVP!LeastRecent, NoName, KVP!NoName
<1>2. \A p, b : KVP!Allocate(p, b) = Allocate(p, b)
  BY DEF Allocate, KVP!Allocate, Unindexed, KVP!Unindexed, NoName, KVP!NoName
<1>3. \A t, b : KVP!Push(t, b) = Push(t, b)
  BY DEF Push, KVP!Push
<1>4. \A p, blocks : KVP!ReleaseAll(p, blocks) = ReleaseAll(p, blocks)
  BY DEF ReleaseAll, KVP!ReleaseAll, AtLeast, KVP!AtLeast, Cardinality,
         KVP!Cardinality
<1> QED BY <1>1, <1>2, <1>3, <1>4

\* Prefixes are claimed and published in the same way.
LEMMA SameNames ==
  /\ \A h : KVP!Candidates(h) = Candidates(h)
  /\ \A p, h, k : KVP!Claims(p, h, k) = Claims(p, h, k)
  /\ \A p, h, k : KVP!ClaimPool(p, h, k) = ClaimPool(p, h, k)
  /\ \A p, t, h, k : KVP!ClaimTable(p, t, h, k) = ClaimTable(p, t, h, k)
  /\ \A t, n : KVP!Advance(t, n) = Advance(t, n)
  /\ \A t, h : KVP!NameFull(t, h) = NameFull(t, h)
  /\ \A p, t, h : KVP!PublishFull(p, t, h) = PublishFull(p, t, h)
<1>1. \A h : KVP!Candidates(h) = Candidates(h)
  BY DEF Candidates, KVP!Candidates, AtLeast, KVP!AtLeast, CeilDiv, KVP!CeilDiv
<1>2. \A p, h, k : KVP!Claims(p, h, k) = Claims(p, h, k)
  BY DEF Claims, KVP!Claims, Resident, KVP!Resident, PrefixName, KVP!PrefixName,
         Candidates, KVP!Candidates, AtLeast, KVP!AtLeast, CeilDiv, KVP!CeilDiv
<1>3. \A p, h, k : KVP!ClaimPool(p, h, k) = ClaimPool(p, h, k)
  BY DEF ClaimPool, KVP!ClaimPool, AcquireCached, KVP!AcquireCached, PrefixName,
         KVP!PrefixName
<1>4. \A p, t, h, k : KVP!ClaimTable(p, t, h, k) = ClaimTable(p, t, h, k)
  BY DEF ClaimTable, KVP!ClaimTable, PrefixName, KVP!PrefixName
<1>5. \A t, n : KVP!Advance(t, n) = Advance(t, n)
  BY DEF Advance, KVP!Advance, Capacity, KVP!Capacity
<1>6. \A t, h : KVP!NameFull(t, h) = NameFull(t, h)
  BY DEF NameFull, KVP!NameFull, Full, KVP!Full, FullName, KVP!FullName, AtLeast,
         KVP!AtLeast, AtMost, KVP!AtMost, LastHash, KVP!LastHash, BlockHash,
         KVP!BlockHash, NoName, KVP!NoName
<1>7. \A p, t, h : KVP!PublishFull(p, t, h) = PublishFull(p, t, h)
  BY DEF PublishFull, KVP!PublishFull, Published, KVP!Published, Publishable,
         KVP!Publishable, Full, KVP!Full, FullName, KVP!FullName, AtLeast,
         KVP!AtLeast, AtMost, KVP!AtMost, LastHash, KVP!LastHash, BlockHash,
         KVP!BlockHash, NoName, KVP!NoName
<1> QED BY <1>1, <1>2, <1>3, <1>4, <1>5, <1>6, <1>7

\* A pass writes and reads in the same way.
LEMMA SamePass ==
  /\ \A c, rows : KVP!RunPass(c, rows) = RunPass(c, rows)
  /\ \A c, rows : KVP!SpoilPass(c, rows) = SpoilPass(c, rows)
  /\ \A c, t, h : KVP!Holds(c, t, h) <=> Holds(c, t, h)
<1>1. \A c, rows : KVP!RunPass(c, rows) = RunPass(c, rows)
  BY DEF RunPass, KVP!RunPass, Offset, KVP!Offset, Writes, KVP!Writes, SlotBlock,
         KVP!SlotBlock, Written, KVP!Written, ReadsPrefix, KVP!ReadsPrefix, Context,
         KVP!Context, Content, KVP!Content, Holds, KVP!Holds, HasSlot, KVP!HasSlot,
         WrittenAt, KVP!WrittenAt, Garbage, KVP!Garbage
<1>2. \A c, rows : KVP!SpoilPass(c, rows) = SpoilPass(c, rows)
  BY DEF SpoilPass, KVP!SpoilPass, Offset, KVP!Offset, Writes, KVP!Writes,
         SlotBlock, KVP!SlotBlock, Garbage, KVP!Garbage
<1>3. \A c, t, h : KVP!Holds(c, t, h) <=> Holds(c, t, h)
  BY DEF Holds, KVP!Holds, HasSlot, KVP!HasSlot, Content, KVP!Content, SlotBlock,
         KVP!SlotBlock
<1> QED BY <1>1, <1>2, <1>3

-----------------------------------------------------------------------------
(* The inductive invariant. *)

\* The types of what PagedKV does not know of.
Typed ==
    /\ chunk \in Nat
    /\ seq \in [Request -> Sequence]
    /\ waiting \in Seq(Request) /\ running \in Seq(Request)
    /\ joining \in Request \cup {Nobody}
    /\ pc \in PC /\ row \in Nat \ {0}
    /\ chosen \in Seq(Nat) /\ plan \in Seq(Row)
    /\ told \in [Request -> Report]

\* Every open request is in exactly one place, once.
InHand == ToSet(waiting) \cup ToSet(running) \cup ({joining} \ {Nobody})
Queues ==
    /\ IsInjective(waiting) /\ IsInjective(running)
    /\ ToSet(waiting) \cap ToSet(running) = {}
    /\ joining \notin ToSet(waiting) \cup ToSet(running)
    /\ joining # Nobody <=> pc \in {"joining", "admitting"}
    /\ \A r \in Request :
         /\ r \in InHand <=> told[r].submitted /\ told[r].end = "none"
         /\ ~ told[r].submitted => told[r].end = "none"

\* Only residents hold blocks.
OthersHoldNothing ==
    \A r \in Request : r \notin ToSet(running) \cup {joining} => table[r] = NewTable

\* A sequence no pass has touched: all of its history is still to run.
Fresh(r) ==
    seq[r].pending = seq[r].history /\ seq[r].prompt_left = 0 /\ seq[r].finish = "none"

\* A resident between two passes: the last token of its history is still to
\* run, or the end of its prompt is.
Decoding(r) ==
    /\ seq[r].prompt_left = 0 /\ Len(seq[r].pending) = 1
    /\ seq[r].pending[1] = seq[r].history[Len(seq[r].history)]
    /\ table[r].tokens + 1 = Len(seq[r].history)
Slicing(r) ==
    /\ seq[r].prompt_left > 0 /\ seq[r].pending = <<>>
    /\ table[r].tokens + seq[r].prompt_left = Len(seq[r].history)
Settled(r) == Decoding(r) \/ Slicing(r)

Sequences ==
    \A r \in Request :
        /\ seq[r].prompt_tokens > 0
        /\ Len(seq[r].history) = seq[r].prompt_tokens + seq[r].generated
        /\ r \in ToSet(waiting) \cup {joining} \/ ~ told[r].submitted => Fresh(r)
        /\ r \in ToSet(running) /\ pc \notin {"emit", "retire"} => seq[r].finish = "none"

\* The residents the pass carries, or has still to cancel.
Passing == {"planned", "advance", "emit", "abort"}
Aboard(r) ==
    /\ pc \in Passing
    /\ \E k \in DOMAIN plan : plan[k].id = r /\ (pc = "abort" => k >= row)

\* A row before the tables moved on: it runs what follows in the history.
Ahead(w) ==
    LET s == seq[w.id]
        to == w.pos + Len(w.tokens)
    IN  /\ Len(w.tokens) > 0
        /\ w.pos = table[w.id].tokens
        /\ to <= Capacity(table[w.id]) /\ to <= Len(s.history)
        /\ w.tokens = SubSeq(s.history, w.pos + 1, to)
        /\ w.predicts <=> to = Len(s.history)
        /\ \/ s.prompt_left = Len(s.history) - w.pos /\ s.pending = <<>>
           \/ s.prompt_left = 0 /\ w.predicts

\* A row after the tables moved on and before its token is kept.
Behind(w) ==
    /\ w.predicts =>
         seq[w.id].prompt_left = 0 /\ table[w.id].tokens = Len(seq[w.id].history)
    /\ ~ w.predicts => Slicing(w.id)

PlanHolds ==
    /\ pc \notin Passing \cup {"retire"} => plan = <<>>
    /\ pc \in Passing =>
         \A k \in DOMAIN plan :
           /\ \A j \in DOMAIN plan : plan[j].id = plan[k].id => j = k
           /\ (pc = "abort" => k >= row) => plan[k].id \in ToSet(running)
           /\ pc = "planned" \/ (pc = "advance" /\ k >= row) => Ahead(plan[k])
           /\ (pc = "advance" /\ k < row) \/ (pc = "emit" /\ k >= row) => Behind(plan[k])
           /\ pc = "emit" /\ k < row => Settled(plan[k].id)
           /\ pc = "emit" /\ k >= row => seq[plan[k].id].finish = "none"
    /\ \A r \in ToSet(running) : Aboard(r) \/ Settled(r)

\* The indexes kept while rows are chosen stay those of decoders with a slot, and
\* the chunk has room beside them when a slice is added.
ChosenHold ==
    /\ pc \in {"rows", "slice", "joining", "decode"} =>
         /\ IsInjective(chosen)
         /\ \A k \in DOMAIN chosen :
              /\ chosen[k] \in DOMAIN running
              /\ pc \in {"rows", "decode"} => chosen[k] < row
              /\ Len(seq[running[chosen[k]]].pending) = 1
              /\ table[running[chosen[k]]].tokens < Capacity(table[running[chosen[k]]])
    /\ pc \in {"slice", "joining"} => Room > 0

\* A prompt starts when no other is part-way, and with something left to run.
Starting ==
    /\ pc = "joining" => \A r \in ToSet(running) : seq[r].prompt_left = 0
    /\ joining # Nobody => table[joining].tokens < Len(seq[joining].history)

Inv ==
    /\ KVP!TypeInv
    /\ Typed /\ Queues /\ OthersHoldNothing /\ Sequences
    /\ PlanHolds /\ ChosenHold /\ Starting /\ OnePartialPrompt

\* What PagedKV's types say of the scheduler's variables.
LEMMA CacheTyped ==
  ASSUME KVP!TypeInv
  PROVE  /\ pool \in Pool
         /\ table \in [Request -> Table]
         /\ \A r \in Request : WellFormed(table[r])
         /\ kv \in [Block -> [Offset -> Seq(Token)]]
         /\ \A r \in Request : Inflight(r) \in Nat
BY SameTypes DEF KVP!TypeInv

\* Outside commit's first loop nothing is in flight.
LEMMA NothingInFlight == pc # "advance" => \A r \in Request : Inflight(r) = 0
BY DEF Inflight

\* The same of the next state.
LEMMA NothingInFlightNext == pc' # "advance" => \A r \in Request : Inflight(r)' = 0
BY DEF Inflight

\* The initial states are PagedKV's.
LEMMA InitMapped == Init => KVP!Init
<1> SUFFICES ASSUME Init PROVE KVP!Init
  OBVIOUS
<1>1. [r \in Request |-> Inflight(r)] = [r \in Request |-> 0]
  BY NothingInFlight DEF Init
<1>2. PICK prompt \in [Request -> Prompts], max \in [Request -> Outputs] :
        seq = [r \in Request |-> NewSequence(prompt[r], max[r])]
  BY DEF Init
<1>3. [r \in Request |-> seq[r].history] \in [Request -> Prompts]
  BY <1>2 DEF NewSequence
<1> QED
  BY <1>1, <1>3, SameTypes, SchedulerAssumption
  DEF Init, KVP!Init, NewPool, Garbage

\* The invariant holds initially.
LEMMA InvInit == Init => Inv
<1> SUFFICES ASSUME Init PROVE Inv
  OBVIOUS
<1>1. KVP!TypeInv
  BY InitMapped, KVP!TypeInvInit, MappedAssumptions
  DEF KVP!TypeInvInit, KVP!BlocksAssumption, KVP!OwnerAssumption
<1>2. PICK prompt \in [Request -> Prompts], max \in [Request -> Outputs] :
        seq = [r \in Request |-> NewSequence(prompt[r], max[r])]
  BY DEF Init
<1>3. ASSUME NEW r \in Request
      PROVE  /\ NewSequence(prompt[r], max[r]) \in Sequence
             /\ Len(prompt[r]) > 0
  <2>1. prompt[r] \in Seq(Token) /\ prompt[r] # <<>> /\ max[r] \in Nat
    BY SchedulerAssumption
  <2>2. Len(prompt[r]) \in Nat /\ Len(prompt[r]) > 0
    BY <2>1
  <2> QED BY <2>1, <2>2 DEF NewSequence, Sequence, Finish
<1>4. Typed
  <2>1. seq \in [Request -> Sequence]
    BY <1>2, <1>3
  <2>2. told \in [Request -> Report]
    BY DEF Init, Report, Ends, Finish
  <2> QED BY <2>1, <2>2, SchedulerAssumption DEF Init, Typed, PC
<1>5. ToSet(waiting) = {} /\ ToSet(running) = {}
  BY DEF Init, ToSet
<1>6. IsInjective(waiting) /\ IsInjective(running)
  BY DEF Init, IsInjective
<1>7. Queues
  BY <1>5, <1>6, SchedulerAssumption DEF Init, Queues, InHand
<1>8. OthersHoldNothing
  BY DEF Init, OthersHoldNothing
<1>9. Sequences
  BY <1>2, <1>3, <1>5 DEF Init, Sequences, Fresh, NewSequence, Sequence
<1>10. PlanHolds /\ ChosenHold /\ Starting /\ OnePartialPrompt
  BY <1>5 DEF Init, PlanHolds, ChosenHold, Starting, OnePartialPrompt, Passing
<1> QED BY <1>1, <1>4, <1>7, <1>8, <1>9, <1>10 DEF Inv

-----------------------------------------------------------------------------
(* The indexes the steps pick. *)

\* The prompt part-way through its slices is a resident, and the only one.
LEMMA PartialMeans ==
  ASSUME Typed, OnePartialPrompt, IsInjective(running)
  PROVE  /\ Partial # 0 =>
              /\ Partial \in DOMAIN running
              /\ running[Partial] \in Request /\ running[Partial] \in ToSet(running)
              /\ seq[running[Partial]].prompt_left > 0
         /\ Partial = 0 =>
              \A r \in ToSet(running) :
                seq[r].finish = "none" => seq[r].prompt_left = 0
<1> DEFINE P == {i \in DOMAIN running :
                   seq[running[i]].prompt_left > 0 /\ seq[running[i]].finish = "none"}
<1>1. DOMAIN running = 1..Len(running) /\ Len(running) \in Nat
      /\ \A i \in 1..Len(running) : running[i] \in Request
  BY DEF Typed
<1>2. CASE P = {}
  <2>1. Partial = 0
    BY <1>2 DEF Partial
  <2>2. ASSUME NEW r \in ToSet(running), seq[r].finish = "none"
        PROVE  seq[r].prompt_left = 0
    <3>1. PICK i \in 1..Len(running) : running[i] = r
      BY ToSetMeans DEF Typed
    <3>2. ~ (seq[r].prompt_left > 0)
      BY <1>1, <1>2, <2>2, <3>1
    <3>3. seq[r].prompt_left \in Nat
      BY <1>1, <3>1 DEF Typed, Sequence
    <3> QED BY <3>2, <3>3
  <2> QED BY <2>1, <2>2
<1>3. CASE P # {}
  <2>1. P \in SUBSET Nat
    BY <1>1
  <2>2. \E i \in P : \A j \in P : i <= j
    <3> HIDE DEF P
    <3> QED BY <1>3, <2>1, Least
  <2>3. Partial \in P
    BY <1>3, <2>2 DEF Partial
  <2>4. Partial \in 1..Len(running) /\ seq[running[Partial]].prompt_left > 0
    BY <1>1, <2>3
  <2>5. running[Partial] \in ToSet(running)
    BY <2>4, ToSetMeans DEF Typed
  <2> QED BY <1>1, <2>4, <2>5
<1> QED BY <1>2, <1>3

\* The resident evicted is another one than the one in need.
LEMMA NewestMeans ==
  ASSUME Typed, Evictable # {}
  PROVE  /\ Newest \in 1..Len(running) /\ Newest # row
         /\ running[Newest] \in Request /\ running[Newest] \in ToSet(running)
         /\ seq[running[Newest]].finish = "none"
<1>1. DOMAIN running = 1..Len(running) /\ Len(running) \in Nat
  BY DEF Typed
<1>2. Evictable \in SUBSET (0..Len(running))
  BY <1>1 DEF Evictable
<1>3. \E i \in Evictable : \A j \in Evictable : j <= i
  BY <1>1, <1>2, Greatest
<1>4. Newest \in Evictable
  BY <1>3 DEF Newest
<1>5. Newest \in 1..Len(running) /\ Newest # row
      /\ seq[running[Newest]].finish = "none"
  BY <1>1, <1>4 DEF Evictable
<1> QED BY <1>5, ToSetMeans DEF Typed

\* The resident retired is one that finished.
LEMMA FirstFinished ==
  ASSUME Typed, Finished # {}
  PROVE  LET i == CHOOSE i \in Finished : \A j \in Finished : i <= j
         IN  /\ i \in 1..Len(running) /\ running[i] \in Request
             /\ running[i] \in ToSet(running)
             /\ seq[running[i]].finish # "none"
<1> DEFINE i == CHOOSE i \in Finished : \A j \in Finished : i <= j
<1>1. Finished \in SUBSET Nat
  BY DEF Typed, Finished
<1>2. i \in Finished
  BY <1>1, Least
<1> HIDE DEF i
<1>3. i \in 1..Len(running) /\ seq[running[i]].finish # "none"
  BY <1>2 DEF Typed, Finished
<1>4. running[i] \in Request /\ running[i] \in ToSet(running)
  BY <1>3, ToSetMeans DEF Typed
<1> QED BY <1>3, <1>4 DEF i

-----------------------------------------------------------------------------
(* Every step is a step of PagedKV, or none at all.                        *)

\* What a step leaves alone of PagedKV's state besides the pool and the tables.
SameHistories == \A r \in Request : seq'[r].history = seq[r].history
SameInflight == \A r \in Request : Inflight(r)' = Inflight(r)

\* A step that changes nothing PagedKV has is none of its steps.
LEMMA MapsToNothing ==
  ASSUME SameHistories, SameInflight, UNCHANGED <<pool, table, kv>>
  PROVE  UNCHANGED KVP!vars
BY DEF SameHistories, SameInflight, KVP!vars

\* Taking one block is Grow.
LEMMA MapsToGrow ==
  ASSUME SameHistories, SameInflight, UNCHANGED kv, NEW r \in Request, TakeBlock(r)
  PROVE  KVP!Next
<1>1. KVP!Grow(r)
  BY SamePool DEF SameHistories, SameInflight, KVP!Grow, TakeBlock
<1> QED BY <1>1 DEF KVP!Next

\* Giving everything back is Free.
LEMMA MapsToFree ==
  ASSUME SameHistories, pc # "advance", pc' # "advance", UNCHANGED kv,
         NEW r \in Request, FreeTable(r)
  PROVE  KVP!Next
<1>1. \A q \in Request : Inflight(q) = 0 /\ Inflight(q)' = 0
  BY NothingInFlight, NothingInFlightNext
<1>2. [q \in Request |-> Inflight(q)'] = [[q \in Request |-> Inflight(q)] EXCEPT ![r] = 0]
  BY <1>1
<1>3. KVP!Free(r)
  BY <1>2, SamePool, SameTypes DEF SameHistories, KVP!Free, FreeTable
<1> QED BY <1>3 DEF KVP!Next

\* Leaving the queue with the resident part of the prompt is Claim.
LEMMA MapsToClaim ==
  ASSUME Inv, SameHistories, SameInflight, UNCHANGED kv,
         NEW r \in ToSet(waiting), PopAndClaim(r)
  PROVE  [KVP!Next]_(KVP!vars)
<1>1. r \in Request
  BY ToSetMeans DEF Inv, Typed
<1>2. r \notin ToSet(running) \cup {joining}
  BY DEF Inv, Queues
<1>3. table[r].blocks = <<>>
  BY <1>1, <1>2 DEF Inv, OthersHoldNothing, NewTable
<1>4. seq[r].pending = seq[r].history
  BY <1>1 DEF Inv, Sequences, Fresh
<1>5. CASE PrefixCache
  <2>1. KVP!Claim(r)
    BY <1>1, <1>3, <1>4, <1>5, SameNames
    DEF SameHistories, SameInflight, KVP!Claim, PopAndClaim
  <2> QED BY <1>1, <2>1 DEF KVP!Next
<1>6. CASE ~ PrefixCache
  BY <1>6, MapsToNothing DEF PopAndClaim
<1> QED BY <1>5, <1>6

\* The types of a planned row.
LEMMA PlanRowType ==
  ASSUME Typed, NEW k \in DOMAIN plan
  PROVE  /\ k \in 1..Len(plan) /\ Len(plan) \in Nat
         /\ plan[k] \in Row /\ plan[k].id \in Request /\ plan[k].pos \in Nat
         /\ plan[k].tokens \in Seq(Token) /\ Len(plan[k].tokens) \in Nat
         /\ plan[k].predicts \in BOOLEAN
<1>1. k \in 1..Len(plan) /\ Len(plan) \in Nat /\ plan[k] \in Row
  BY DEF Typed
<1>2. plan[k].id \in Request /\ plan[k].pos \in Nat /\ plan[k].tokens \in Seq(Token)
      /\ plan[k].predicts \in BOOLEAN
  BY <1>1 DEF Row
<1> QED BY <1>1, <1>2

\* What a planned row is to PagedKV.
LEMMA PlannedRow ==
  ASSUME Inv, pc = "planned", NEW k \in DOMAIN plan
  PROVE  LET r == plan[k].id
             n == Len(plan[k].tokens)
         IN  /\ r \in Request
             /\ n \in KVP!Runnable(r)
             /\ KVP!Row(r, n) = [table |-> table[r], pos |-> plan[k].pos,
                                 tokens |-> plan[k].tokens]
<1> DEFINE r == plan[k].id
           n == Len(plan[k].tokens)
           t == table[r]
           h == seq[r].history
<1>1. r \in Request /\ n \in Nat /\ plan[k].pos \in Nat
  BY PlanRowType DEF Inv
<1>2. t \in Table /\ WellFormed(t) /\ t.tokens \in Nat /\ Capacity(t) \in Nat
  BY <1>1, CacheTyped, BlocksAssumption DEF Inv, Table, Capacity
<1>3. h \in Seq(Token) /\ Len(h) \in Nat
  BY <1>1, SMTT(60) DEF Inv, Typed, Sequence
<1>4. /\ n > 0 /\ plan[k].pos = t.tokens
      /\ plan[k].pos + n <= Capacity(t) /\ plan[k].pos + n <= Len(h)
      /\ plan[k].tokens = SubSeq(h, plan[k].pos + 1, plan[k].pos + n)
  BY DEF Inv, PlanHolds, Passing, Ahead
<1> HIDE DEF t, h, n
<1>5. n \in 1..(AtMost(Capacity(t), Len(h)) - t.tokens)
  BY <1>1, <1>2, <1>3, <1>4 DEF AtMost
<1>6. KVP!Runnable(r) = 1..(AtMost(Capacity(t), Len(h)) - t.tokens)
  BY <1>1, SameTypes DEF KVP!Runnable, t, h
<1>7. KVP!Row(r, n) = [table |-> t, pos |-> t.tokens,
                       tokens |-> SubSeq(h, t.tokens + 1, t.tokens + n)]
  BY <1>1 DEF KVP!Row, t, h
<1> QED BY <1>1, <1>4, <1>5, <1>6, <1>7 DEF t, h, n

\* The owners a planned pass carries and how far it takes each.
Taken ==
    [r \in {plan[k].id : k \in DOMAIN plan} |->
        Len(plan[CHOOSE k \in DOMAIN plan : plan[k].id = r].tokens)]

\* A planned pass is one PagedKV may run.
LEMMA PlannedPass ==
  ASSUME Inv, pc = "planned"
  PROVE  /\ Taken \in KVP!Passes
         /\ \A r \in DOMAIN Taken : Taken[r] \in KVP!Runnable(r)
         /\ KVP!Rows(Taken) = PassRows
         /\ \A k \in DOMAIN plan : Taken[plan[k].id] = Len(plan[k].tokens)
<1>1. ASSUME NEW k \in DOMAIN plan
      PROVE  Taken[plan[k].id] = Len(plan[k].tokens) /\ plan[k].id \in DOMAIN Taken
  <2>1. \A j \in DOMAIN plan : plan[j].id = plan[k].id => j = k
    BY <1>1 DEF Inv, PlanHolds, Passing
  <2>2. (CHOOSE j \in DOMAIN plan : plan[j].id = plan[k].id) = k
    BY <1>1, <2>1
  <2> QED BY <2>2 DEF Taken
<1>2. DOMAIN Taken = {plan[k].id : k \in DOMAIN plan}
  BY DEF Taken
<1>3. ASSUME NEW r \in DOMAIN Taken
      PROVE  r \in Request /\ Taken[r] \in KVP!Runnable(r)
  <2>1. PICK k \in DOMAIN plan : plan[k].id = r
    BY <1>2
  <2> QED BY <1>1, <2>1, PlannedRow
<1>4. Taken \in KVP!Passes
  <2>1. DOMAIN Taken \in SUBSET Request
    BY <1>3
  <2>2. Taken \in [DOMAIN Taken -> UNION {KVP!Runnable(r) : r \in DOMAIN Taken}]
    <3>1. Taken = [r \in DOMAIN Taken |-> Taken[r]]
      BY DEF Taken
    <3> QED BY <1>3, <3>1
  <2> QED BY <2>1, <2>2 DEF KVP!Passes
<1>5. KVP!Rows(Taken) = PassRows
  <2>1. KVP!Rows(Taken) = {KVP!Row(r, Taken[r]) : r \in DOMAIN Taken}
    BY DEF KVP!Rows
  <2>2. \A k \in DOMAIN plan :
          KVP!Row(plan[k].id, Taken[plan[k].id]) =
            [table |-> table[plan[k].id], pos |-> plan[k].pos, tokens |-> plan[k].tokens]
    BY <1>1, PlannedRow
  <2>3. ASSUME NEW w PROVE w \in KVP!Rows(Taken) <=> w \in PassRows
    BY <1>2, <2>1, <2>2 DEF PassRows
  <2> QED BY <2>3
<1> QED BY <1>1, <1>3, <1>4, <1>5

\* A pass that succeeds is Run.
LEMMA MapsToRun == Inv /\ Pass => KVP!Next
<1> SUFFICES ASSUME Inv, Pass PROVE KVP!Next
  OBVIOUS
<1>1. pc = "planned" /\ kv' = RunPass(kv, PassRows) /\ pc' = "advance" /\ row' = 1
  BY DEF Pass
<1>2. UNCHANGED <<pool, table, seq, plan>>
  BY DEF Pass
<1>3. \A r \in Request : Inflight(r) = 0
  BY <1>1, NothingInFlight
<1>4. DOMAIN plan = 1..Len(plan) /\ Len(plan) \in Nat
  BY DEF Inv, Typed
<1>5. ASSUME NEW r \in Request
      PROVE  Inflight(r)' = IF r \in DOMAIN Taken THEN Taken[r] ELSE 0
  <2> DEFINE K == {k \in DOMAIN plan : plan[k].id = r}
             L == {k \in DOMAIN plan' : pc' = "advance" /\ k >= row' /\ plan'[k].id = r}
  <2>1. L = K
    BY <1>1, <1>2, <1>4
  <2>2. Inflight(r)' = IF K = {} THEN 0 ELSE Len(plan[CHOOSE k \in K : TRUE].tokens)
    <3>1. Inflight(r)' = IF L = {} THEN 0 ELSE Len(plan[CHOOSE k \in L : TRUE].tokens)
      BY <1>2 DEF Inflight
    <3> QED BY <2>1, <3>1
  <2>3. DOMAIN Taken = {plan[k].id : k \in DOMAIN plan}
    BY DEF Taken
  <2>4. CASE K = {}
    BY <2>2, <2>3, <2>4
  <2>5. CASE K # {}
    <3> DEFINE k == CHOOSE k \in K : TRUE
    <3>1. k \in K
      BY <2>5
    <3>2. Taken[r] = Len(plan[k].tokens) /\ r \in DOMAIN Taken
      BY <1>1, <2>3, <3>1, PlannedPass
    <3> QED BY <2>2, <2>5, <3>2
  <2> QED BY <2>4, <2>5
<1>6. KVP!Run(Taken)
  <2>1. \A r \in DOMAIN Taken : Taken[r] \in KVP!Runnable(r)
    BY <1>1, PlannedPass
  <2>2. kv' = KVP!RunPass(kv, KVP!Rows(Taken))
    BY <1>1, PlannedPass, SamePass
  <2> QED BY <1>2, <1>3, <1>5, <2>1, <2>2 DEF KVP!Run
<1> QED BY <1>1, <1>6, PlannedPass DEF KVP!Next

\* A pass that fails is Spoil, unless it failed before it wrote.
LEMMA MapsToSpoil == Inv /\ PassFails => [KVP!Next]_(KVP!vars)
<1> SUFFICES ASSUME Inv, PassFails PROVE [KVP!Next]_(KVP!vars)
  OBVIOUS
<1>1. /\ pc = "planned" /\ pc' = "abort"
      /\ kv' \in {kv, SpoilPass(kv, PassRows), RunPass(kv, PassRows)}
      /\ UNCHANGED <<pool, table, seq>>
  BY DEF PassFails
<1>2. \A r \in Request : Inflight(r) = 0 /\ Inflight(r)' = 0
  BY <1>1, NothingInFlight, NothingInFlightNext
<1>3. CASE kv' = kv
  BY <1>1, <1>2, <1>3, MapsToNothing DEF SameHistories, SameInflight
<1>4. CASE kv' \in {SpoilPass(kv, PassRows), RunPass(kv, PassRows)}
  <2>1. kv' \in {KVP!SpoilPass(kv, KVP!Rows(Taken)), KVP!RunPass(kv, KVP!Rows(Taken))}
    BY <1>1, <1>4, PlannedPass, SamePass
  <2>2. \A r \in DOMAIN Taken : Taken[r] \in KVP!Runnable(r)
    BY <1>1, PlannedPass
  <2>3. KVP!Spoil(Taken)
    BY <1>1, <1>2, <2>1, <2>2 DEF KVP!Spoil
  <2> QED BY <1>1, <2>3, PlannedPass DEF KVP!Next
<1> QED BY <1>1, <1>3, <1>4

\* Moving a table on is Commit.
LEMMA MapsToCommit == Inv /\ AdvanceRow => KVP!Next
<1> SUFFICES ASSUME Inv, AdvanceRow PROVE KVP!Next
  OBVIOUS
<1> DEFINE r == plan[row].id
           n == Len(plan[row].tokens)
<1>1. /\ pc = "advance" /\ pc' = "advance" /\ row' = row + 1 /\ row <= Len(plan)
      /\ UNCHANGED <<plan, kv>>
      /\ seq' = [seq EXCEPT ![r].prompt_left = LeftAfter(@, n)]
  BY DEF AdvanceRow, InPlanLoop, NextRow, settled
<1>2. DOMAIN plan = 1..Len(plan) /\ Len(plan) \in Nat /\ row \in DOMAIN plan
  BY <1>1 DEF Inv, Typed
<1>3. r \in Request /\ n \in Nat
  BY <1>2, PlanRowType DEF Inv
<1>4. /\ \A k \in DOMAIN plan : plan[k].id = r => k = row
      /\ n > 0
  BY <1>1, <1>2 DEF Inv, PlanHolds, Passing, Ahead
<1>5. SameHistories
  BY <1>1 DEF Inv, Typed, SameHistories, Sequence
<1>6. Inflight(r) = n
  <2>1. {k \in DOMAIN plan : pc = "advance" /\ k >= row /\ plan[k].id = r} = {row}
    BY <1>1, <1>2, <1>4
  <2> QED BY <2>1 DEF Inflight
<1>7. ASSUME NEW q \in Request
      PROVE  Inflight(q)' = IF q = r THEN 0 ELSE Inflight(q)
  <2> DEFINE K == {k \in DOMAIN plan : pc = "advance" /\ k >= row /\ plan[k].id = q}
             L == {k \in DOMAIN plan' : pc' = "advance" /\ k >= row' /\ plan'[k].id = q}
  <2>1. Inflight(q) = IF K = {} THEN 0 ELSE Len(plan[CHOOSE k \in K : TRUE].tokens)
    BY DEF Inflight
  <2>2. Inflight(q)' = IF L = {} THEN 0 ELSE Len(plan[CHOOSE k \in L : TRUE].tokens)
    BY <1>1 DEF Inflight
  <2>3. row \in Nat
    BY DEF Inv, Typed
  <2>4. CASE q = r
    <3>1. L = {}
      BY <1>1, <1>2, <1>4, <2>3, <2>4
    <3> QED BY <2>2, <2>4, <3>1
  <2>5. CASE q # r
    <3>1. L = K
      BY <1>1, <1>2, <2>3, <2>5
    <3> QED BY <2>1, <2>2, <2>5, <3>1
  <2> QED BY <2>4, <2>5
<1>8. [q \in Request |-> Inflight(q)'] = [[q \in Request |-> Inflight(q)] EXCEPT ![r] = 0]
  BY <1>3, <1>7
<1>9. IF PrefixCache
      THEN /\ table' = [table EXCEPT ![r] = NameFull(Advance(table[r], n), seq[r].history)]
           /\ pool' = PublishFull(pool, Advance(table[r], n), seq[r].history)
      ELSE table' = [table EXCEPT ![r] = Advance(table[r], n)] /\ UNCHANGED pool
  BY DEF AdvanceRow
<1> HIDE DEF r, n
<1>10. KVP!Commit(r)
  BY <1>1, <1>3, <1>4, <1>5, <1>6, <1>8, <1>9, SameNames
  DEF KVP!Commit, SameHistories
<1> QED BY <1>3, <1>10 DEF KVP!Next

\* While no pass is committed nothing is in flight, before the step or after.
LEMMA IdleStep ==
  ASSUME pc # "advance", pc' # "advance"
  PROVE  SameInflight
BY NothingInFlight, NothingInFlightNext DEF SameInflight

\* Keeping a sampled token is Sample.
LEMMA MapsToSample == Inv /\ EmitRow => [KVP!Next]_(KVP!vars)
<1> SUFFICES ASSUME Inv, EmitRow PROVE [KVP!Next]_(KVP!vars)
  OBVIOUS
<1>1. /\ pc = "emit" /\ pc' = "emit" /\ row <= Len(plan)
      /\ UNCHANGED <<pool, table, kv>>
  BY Zenon DEF EmitRow, InPlanLoop, NextRow
<1>2. row \in DOMAIN plan
  BY <1>1 DEF Inv, Typed
<1>3. PICK r \in Request : r = plan[row].id
  BY <1>2, PlanRowType DEF Inv
<1>4. SameInflight
  BY <1>1, IdleStep
<1>5. CASE plan[row].predicts
  <2>1. PICK token \in Token :
          seq' = [seq EXCEPT ![r].pending = <<token>>,
                             ![r].history = Append(@, token),
                             ![r].generated = @ + 1,
                             ![r].finish = FinishOf(seq[r], token)]
    BY <1>3, <1>5, ZenonT(60) DEF EmitRow
  <2>2. \A q \in Request : seq'[q].history = IF q = r THEN Append(seq[r].history, token)
                                                      ELSE seq[q].history
    BY <1>3, <2>1 DEF Inv, Typed, Sequence
  <2>3. [q \in Request |-> seq'[q].history] =
          [[q \in Request |-> seq[q].history] EXCEPT ![r] = Append(@, token)]
    BY <1>3, <2>2
  <2>4. KVP!Sample(r)
    BY <1>1, <1>4, <2>3 DEF KVP!Sample, SameInflight
  <2>5. \E q \in Request : KVP!Sample(q)
    BY <1>3, <2>4
  <2> QED BY <2>5 DEF KVP!Next
<1>6. CASE ~ plan[row].predicts
  <2>1. UNCHANGED seq
    BY <1>6 DEF EmitRow
  <2> QED BY <1>1, <1>4, <2>1, MapsToNothing DEF SameHistories
<1> QED BY <1>5, <1>6

\* Updates of a sequence's other fields keep its history.
LEMMA KeepsHistory ==
  ASSUME Typed, NEW r \in Request, NEW s \in Sequence,
         s.history = seq[r].history, seq' = [seq EXCEPT ![r] = s]
  PROVE  SameHistories
BY DEF Typed, SameHistories

\* Every step of the scheduler is a step of PagedKV or changes nothing it has.
LEMMA StepMapped == Inv /\ [Next]_vars => [KVP!Next]_(KVP!vars)
<1> SUFFICES ASSUME Inv, [Next]_vars PROVE [KVP!Next]_(KVP!vars)
  OBVIOUS
<1>1. ASSUME UNCHANGED <<pool, table, kv, seq>>, pc # "advance", pc' # "advance"
      PROVE  [KVP!Next]_(KVP!vars)
  BY <1>1, IdleStep, MapsToNothing DEF SameHistories
<1>2. joining \in Request \/ pc \notin {"joining", "admitting"}
  BY DEF Inv, Typed, Queues
<1>3. CASE UNCHANGED vars
  <2>1. SameHistories /\ SameInflight
    BY <1>3 DEF vars, SameHistories, SameInflight, Inflight
  <2> QED BY <1>3, <2>1, MapsToNothing DEF vars
<1>4. ASSUME NEW r \in Request, Submit(r) PROVE [KVP!Next]_(KVP!vars)
  BY <1>1, <1>4 DEF Submit
<1>5. ASSUME NEW r \in Request, Cancel(r) PROVE [KVP!Next]_(KVP!vars)
  <2>1. SameHistories
    BY <1>5 DEF Cancel, SameHistories, Inv, Typed, Sequence
  <2> QED BY <1>5, <2>1, MapsToFree DEF Cancel
<1>6. CASE SetChunk
  BY <1>1, <1>6 DEF SetChunk
<1>7. CASE Refuse
  <2>1. Head(waiting) \in Request
    BY <1>7, TailOnce DEF Refuse, Unservable, Inv, Typed
  <2>2. SameHistories
    BY <1>7, <2>1 DEF Refuse, SameHistories, Inv, Typed, Sequence
  <2> QED BY <1>7, <2>1, <2>2, MapsToFree DEF Refuse
<1>8. CASE Plan \/ SkipRow \/ GiveUpMixed \/ LeaveOut \/ PlanDecode \/ EndRows
           \/ NoPromptToStart \/ PlanMixed \/ CannotAdmit \/ EndCommit
  BY <1>1, <1>8
  DEF Plan, SkipRow, GiveUpMixed, LeaveOut, PlanDecode, EndRows, NoPromptToStart,
      PlanMixed, CannotAdmit, EndCommit, ToDecode, InRowLoop, settled
<1>9. CASE PutBack
  <2>1. SameHistories
    BY <1>9, <1>2 DEF PutBack, SameHistories, Inv, Typed, Sequence
  <2> QED BY <1>9, <1>2, <2>1, MapsToFree DEF PutBack, ToDecode, settled
<1>10. CASE ChooseRow
  <2>1. running[row] \in Request
    BY <1>10 DEF ChooseRow, InRowLoop, Inv, Typed
  <2>2. SameHistories /\ SameInflight /\ UNCHANGED kv
    BY <1>10, IdleStep DEF ChooseRow, InRowLoop, SameHistories, settled
  <2>3. TakeBlock(running[row]) \/ UNCHANGED <<pool, table>>
    BY <1>10 DEF ChooseRow
  <2> QED BY <2>1, <2>2, <2>3, MapsToGrow, MapsToNothing
<1>11. CASE Preempt
  <2>1. /\ running[Newest] \in Request /\ FreeTable(running[Newest])
        /\ seq' = [seq EXCEPT ![running[Newest]] = Preempted(@)]
    BY <1>11, NewestMeans DEF Preempt, Inv
  <2>2. SameHistories
    BY <2>1 DEF SameHistories, Inv, Typed, Sequence, Preempted
  <2> QED BY <1>11, <2>1, <2>2, MapsToFree DEF Preempt, settled
<1>12. CASE StartNextPrompt \/ Admit
  <2>1. Head(waiting) \in ToSet(waiting)
    BY <1>12, TailOnce DEF StartNextPrompt, Admit, Admissible, Inv, Typed
  <2>2. SameHistories /\ SameInflight /\ UNCHANGED kv /\ PopAndClaim(Head(waiting))
    BY <1>12, IdleStep DEF StartNextPrompt, Admit, SameHistories, settled
  <2> QED BY <2>1, <2>2, MapsToClaim
<1>13. CASE Join
  <2>1. SameHistories
    BY <1>13, <1>2 DEF Join, SameHistories, Inv, Typed, Sequence
  <2>2. SameInflight /\ UNCHANGED kv
    BY <1>13, IdleStep DEF Join, settled
  <2>3. TakeBlock(joining) \/ UNCHANGED <<pool, table>>
    BY <1>13 DEF Join
  <2> QED BY <1>13, <1>2, <2>1, <2>2, <2>3, MapsToGrow, MapsToNothing DEF Join
<1>14. CASE GrowSlice
  <2>1. running[Partial] \in Request
    BY <1>14, PartialMeans DEF GrowSlice, Inv, Queues
  <2>2. SameHistories /\ SameInflight /\ UNCHANGED kv /\ TakeBlock(running[Partial])
    BY <1>14, IdleStep DEF GrowSlice, SameHistories, settled
  <2> QED BY <2>1, <2>2, MapsToGrow
<1>15. CASE GrowPrompt
  <2>1. SameHistories /\ SameInflight /\ UNCHANGED kv /\ TakeBlock(joining)
    BY <1>15, IdleStep DEF GrowPrompt, SameHistories, settled
  <2> QED BY <1>15, <1>2, <2>1, MapsToGrow DEF GrowPrompt
<1>16. CASE PlanPrefill
  <2>1. SameHistories
    BY <1>16, <1>2 DEF PlanPrefill, SameHistories, Inv, Typed, Sequence
  <2>2. SameInflight
    BY <1>16, IdleStep DEF PlanPrefill
  <2> QED BY <1>16, <2>1, <2>2, MapsToNothing DEF PlanPrefill, settled
<1>17. CASE AbortRow
  <2>1. pc = "abort" /\ pc' = "abort" /\ row <= Len(plan) /\ UNCHANGED kv
        /\ FreeTable(plan[row].id)
        /\ seq' = [seq EXCEPT ![plan[row].id].finish = "stop"]
    BY <1>17 DEF AbortRow, InPlanLoop, NextRow
  <2>2. row \in DOMAIN plan
    BY <2>1 DEF Inv, Typed
  <2>3. plan[row].id \in Request
    BY <2>2, PlanRowType DEF Inv
  <2>4. SameHistories
    BY <2>1, <2>3 DEF SameHistories, Inv, Typed, Sequence
  <2> QED BY <2>1, <2>3, <2>4, MapsToFree
<1>18. CASE EndPlanLoop
  <2>1. ~ (row <= Len(plan)) /\ pc' # "advance" /\ UNCHANGED <<pool, table, kv, seq>>
    BY <1>18 DEF EndPlanLoop, InPlanLoop, settled
  <2>2. \A r \in Request : Inflight(r) = 0
    BY <2>1 DEF Inflight, Inv, Typed
  <2>3. SameInflight
    BY <2>1, <2>2, NothingInFlightNext DEF SameInflight
  <2> QED BY <2>1, <2>3, MapsToNothing DEF SameHistories
<1>19. CASE Retire
  <2>1. \E r \in Request : FreeTable(r)
    BY <1>19, FirstFinished DEF Retire, Inv
  <2>2. PICK r \in Request : FreeTable(r)
    BY <2>1
  <2>3. SameHistories
    BY <1>19 DEF Retire, SameHistories
  <2> QED BY <1>19, <2>2, <2>3, MapsToFree DEF Retire
<1> QED
  BY <1>3, <1>4, <1>5, <1>6, <1>7, <1>8, <1>9, <1>10, <1>11, <1>12, <1>13, <1>14,
     <1>15, <1>16, <1>17, <1>18, <1>19, MapsToRun, MapsToSpoil, MapsToCommit,
     MapsToSample
  DEF Next, Engine, Planning, Committing

-----------------------------------------------------------------------------
(* The invariant is kept: what the steps share.                            *)

\* A need for a block is a capacity that is too small.
LEMMA NeedsMeans ==
  ASSUME NEW t \in Table, WellFormed(t), NEW count \in Nat
  PROVE  /\ t.tokens \in Nat /\ Capacity(t) \in Nat /\ t.tokens <= Capacity(t)
         /\ BlocksNeeded(t, count) > 0 <=> t.tokens + count > Capacity(t)
<1>1. t.tokens \in Nat /\ Capacity(t) \in Nat /\ t.tokens <= Capacity(t)
  BY BlocksAssumption DEF Table, WellFormed, Capacity
<1> DEFINE a == AtLeast(t.tokens + count - Capacity(t), 0)
<1>2. a \in Nat /\ (a > 0 <=> t.tokens + count > Capacity(t))
  BY <1>1 DEF AtLeast
<1>3. BlocksNeeded(t, count) = (a + BlockSize - 1) \div BlockSize
  BY DEF BlocksNeeded, CeilDiv
<1> HIDE DEF a
<1>4. BlocksNeeded(t, count) > 0 <=> a > 0
  <2>1. CASE a = 0
    <3>1. (BlockSize - 1) \div BlockSize = 0
      BY BlocksAssumption
    <3> QED BY <1>3, <2>1, <3>1, BlocksAssumption
  <2>2. CASE a > 0
    <3>1. a + BlockSize - 1 \in Nat /\ a + BlockSize - 1 >= BlockSize
      BY <1>2, <2>2, BlocksAssumption
    <3>2. (a + BlockSize - 1) \div BlockSize > 0
      BY <3>1, BlocksAssumption
    <3> QED BY <1>3, <2>2, <3>2
  <2> QED BY <1>2, <2>1, <2>2
<1> QED BY <1>1, <1>2, <1>4

\* One more block: the same tokens in a larger capacity.
LEMMA PushGrows ==
  ASSUME NEW t \in Table, NEW b \in Block
  PROVE  /\ Push(t, b).tokens = t.tokens
         /\ Capacity(t) \in Nat
         /\ Capacity(Push(t, b)) = Capacity(t) + BlockSize
<1>1. /\ Push(t, b).tokens = t.tokens /\ Len(t.blocks) \in Nat
      /\ Len(Push(t, b).blocks) = Len(t.blocks) + 1
  BY DEF Push, Table
<1> QED BY <1>1, BlocksAssumption DEF Capacity

\* Taking a block changes the table of one sequence.
LEMMA TakeBlockFields ==
  ASSUME KVP!TypeInv, NEW r \in Request, TakeBlock(r)
  PROVE  /\ table'[r].tokens = table[r].tokens
         /\ Capacity(table'[r]) = Capacity(table[r]) + BlockSize
         /\ \A q \in Request : q # r => table'[q] = table[q]
<1>1. pool \in Pool /\ table \in [Request -> Table]
  BY CacheTyped
<1>2. PICK b \in Allocatable(pool) : table' = [table EXCEPT ![r] = Push(@, b)]
  BY DEF TakeBlock
<1>3. b \in Block
  BY <1>1, AllocatableFree DEF Pool
<1> QED BY <1>1, <1>2, <1>3, PushGrows

\* The numbers of a sequence and of its table.
LEMMA Numbers ==
  ASSUME KVP!TypeInv, Typed, NEW r \in Request
  PROVE  /\ table[r] \in Table /\ WellFormed(table[r])
         /\ table[r].tokens \in Nat /\ Capacity(table[r]) \in Nat
         /\ table[r].tokens <= Capacity(table[r])
         /\ seq[r] \in Sequence
         /\ seq[r].history \in Seq(Token) /\ Len(seq[r].history) \in Nat
         /\ seq[r].pending \in Seq(Token) /\ Len(seq[r].pending) \in Nat
         /\ seq[r].prompt_left \in Nat /\ seq[r].generated \in Nat
         /\ seq[r].prompt_tokens \in Nat /\ seq[r].max_tokens \in Nat
         /\ seq[r].preemptions \in Nat /\ seq[r].finish \in Finish
<1>1. table[r] \in Table /\ WellFormed(table[r])
  BY CacheTyped
<1>2. seq[r] \in Sequence
  BY DEF Typed
<1>3. /\ seq[r].history \in Seq(Token) /\ seq[r].pending \in Seq(Token)
      /\ seq[r].prompt_left \in Nat /\ seq[r].generated \in Nat
      /\ seq[r].prompt_tokens \in Nat /\ seq[r].max_tokens \in Nat
      /\ seq[r].preemptions \in Nat /\ seq[r].finish \in Finish
  BY <1>2 DEF Sequence
<1>4. table[r].tokens \in Nat /\ Capacity(table[r]) \in Nat
      /\ table[r].tokens <= Capacity(table[r])
  BY <1>1, NeedsMeans
<1> QED BY <1>1, <1>2, <1>3, <1>4

\* Outside a pass every resident is settled.
LEMMA AllSettled ==
  ASSUME Inv, pc \notin Passing
  PROVE  \A r \in ToSet(running) : Settled(r)
BY DEF Inv, PlanHolds, Aboard

\* Outside a pass that is all there is to plans.
LEMMA NoPlanHolds ==
  ASSUME pc' \notin Passing, pc' # "retire" => plan' = <<>>,
         \A r \in ToSet(running') : Settled(r)'
  PROVE  PlanHolds'
BY DEF PlanHolds

\* The types of PagedKV's variables are kept by every step.
LEMMA CacheTypesKept == Inv /\ [Next]_vars => KVP!TypeInv'
<1> SUFFICES ASSUME Inv, [Next]_vars PROVE KVP!TypeInv'
  OBVIOUS
<1>1. [KVP!Next]_(KVP!vars)
  BY StepMapped
<1> QED
  BY <1>1, KVP!TypeInvNext, MappedAssumptions
  DEF Inv, KVP!TypeInvNext, KVP!BlocksAssumption, KVP!OwnerAssumption

\* The steps that only move on in plan, or between passes.
LEMMA ControlKeeps ==
  ASSUME Inv, KVP!TypeInv',
         \/ SetChunk \/ Plan \/ SkipRow \/ GiveUpMixed \/ LeaveOut \/ EndRows
         \/ NoPromptToStart \/ CannotAdmit \/ EndCommit
  PROVE  Inv'
<1>1. UNCHANGED <<table, seq, waiting, running, joining, told>>
  BY DEF SetChunk, Plan, SkipRow, GiveUpMixed, LeaveOut, EndRows, NoPromptToStart,
         CannotAdmit, EndCommit, settled
<1>2. /\ pc \in {"idle", "parked", "rows", "slice", "admit", "decode", "retire"}
      /\ pc' \in {"idle", "rows", "slice", "admit", "decode"}
      /\ (plan' = plan \/ plan' = <<>>) /\ (pc = "retire" => plan' = <<>>)
  BY DEF SetChunk, Plan, SkipRow, GiveUpMixed, LeaveOut, EndRows, NoPromptToStart,
         CannotAdmit, EndCommit, ToDecode, InRowLoop, settled, Inv, Typed, PlanHolds
<1>3. Typed'
  <2>1. chunk' \in Nat
    BY SchedulerAssumption
    DEF SetChunk, Plan, SkipRow, GiveUpMixed, LeaveOut, EndRows, NoPromptToStart,
        CannotAdmit, EndCommit, settled, Inv, Typed
  <2>2. row' \in {row, row + 1, 1} /\ (chosen' = chosen \/ chosen' = <<>>)
    BY DEF SetChunk, Plan, SkipRow, GiveUpMixed, LeaveOut, EndRows, NoPromptToStart,
           CannotAdmit, EndCommit, ToDecode
  <2>3. row' \in Nat \ {0} /\ chosen' \in Seq(Nat) /\ plan' \in Seq(Row)
    <3>1. row \in Nat \ {0} /\ chosen \in Seq(Nat) /\ plan \in Seq(Row)
      BY DEF Inv, Typed
    <3>2. row' \in Nat \ {0}
      BY <2>2, <3>1
    <3>3. chosen' \in Seq(Nat)
      BY <2>2, <3>1, EmptySeq
    <3>4. plan' \in Seq(Row)
      BY <1>2, <3>1, EmptySeq
    <3> QED BY <3>2, <3>3, <3>4
  <2>4. pc' \in PC
    BY <1>2 DEF PC
  <2> QED BY <1>1, <2>1, <2>3, <2>4 DEF Inv, Typed
<1>4. Queues'
  BY <1>1, <1>2 DEF Inv, Queues, InHand
<1>5. OthersHoldNothing' /\ OnePartialPrompt'
  BY <1>1 DEF Inv, OthersHoldNothing, OnePartialPrompt
<1>6. Sequences'
  <2>1. ASSUME NEW r \in ToSet(running) PROVE seq[r].finish = "none"
    <3>1. r \in Request /\ \E i \in DOMAIN running : running[i] = r
      BY ToSetMeans DEF Inv, Typed
    <3>2. CASE EndCommit
      BY <3>1, <3>2 DEF EndCommit, Finished
    <3>3. CASE ~ EndCommit
      <4>1. pc \notin {"emit", "retire"}
        BY <3>3, <1>2
        DEF SetChunk, Plan, SkipRow, GiveUpMixed, LeaveOut, EndRows, NoPromptToStart,
            CannotAdmit, InRowLoop
      <4> QED BY <3>1, <4>1 DEF Inv, Sequences
    <3> QED BY <3>2, <3>3
  <2> QED BY <1>1, <2>1 DEF Inv, Sequences, Fresh
<1>7. PlanHolds'
  <2>1. \A r \in ToSet(running) : Settled(r)
    BY <1>2, AllSettled DEF Passing
  <2>2. \A r \in ToSet(running') : Settled(r)'
    BY <1>1, <2>1 DEF Settled, Decoding, Slicing
  <2>3. plan' = <<>>
    BY <1>2 DEF Inv, PlanHolds, Passing
  <2> QED BY <1>2, <2>2, <2>3, NoPlanHolds DEF Passing
<1>8. ChosenHold'
  <2>0. pc' \in {"slice", "joining"} => Room' > 0
    <3>1. pc' \in {"slice", "joining"} => EndRows /\ pc' = "slice"
      BY DEF SetChunk, Plan, SkipRow, GiveUpMixed, LeaveOut, EndRows, NoPromptToStart,
             CannotAdmit, EndCommit, ToDecode, InRowLoop
    <3>2. ASSUME EndRows, pc' = "slice" PROVE Room' > 0
      <4>1. chunk \in Nat /\ Len(chosen) \in Nat
        BY DEF Inv, Typed
      <4>2. ~ (Room <= 0) /\ chosen' = chosen /\ chunk' = chunk
        BY <3>2 DEF EndRows, ToDecode, settled
      <4> QED BY <4>1, <4>2 DEF Room
    <3> QED BY <3>1, <3>2
  <2>1. CASE chosen' = <<>>
    BY <2>0, <2>1 DEF ChosenHold, IsInjective
  <2>2. CASE chosen' = chosen
    <3>1. CASE pc \in {"rows", "slice", "joining", "decode"} /\ row' \in {row, row + 1}
               /\ (pc' \in {"rows", "decode"} => pc \in {"rows", "decode"})
      BY <1>1, <2>0, <2>2, <3>1 DEF Inv, Typed, ChosenHold
    <3> QED
      BY <2>0, <2>1, <2>2, <3>1
      DEF SetChunk, Plan, SkipRow, GiveUpMixed, LeaveOut, EndRows, NoPromptToStart,
          CannotAdmit, EndCommit, ToDecode, InRowLoop, ChosenHold
  <2> QED
    BY <2>1, <2>2
    DEF SetChunk, Plan, SkipRow, GiveUpMixed, LeaveOut, EndRows, NoPromptToStart,
        CannotAdmit, EndCommit, ToDecode
<1>9. Starting'
  BY <1>1, <1>2 DEF Inv, Starting
<1> QED BY <1>3, <1>4, <1>5, <1>6, <1>7, <1>8, <1>9 DEF Inv

-----------------------------------------------------------------------------
(* The invariant is kept: arrivals and departures.                         *)

\* A request that arrives is last in the queue.
LEMMA SubmitKeeps ==
  ASSUME Inv, KVP!TypeInv', NEW r \in Request, Submit(r)
  PROVE  Inv'
<1>1. /\ pc \in {"idle", "parked"} /\ pc' = "idle"
      /\ ~ told[r].submitted
      /\ waiting' = Append(waiting, r)
      /\ told' = [told EXCEPT ![r].submitted = TRUE]
      /\ UNCHANGED <<chunk, table, seq, running, joining, row, chosen, plan>>
  BY DEF Submit, PushBack
<1>2. /\ waiting \in Seq(Request) /\ running \in Seq(Request)
      /\ told \in [Request -> Report] /\ joining = Nobody
  BY <1>1 DEF Inv, Typed, Queues
<1>3. r \notin ToSet(waiting) \cup ToSet(running)
  BY <1>1 DEF Inv, Queues, InHand
<1>4. /\ waiting' \in Seq(Request) /\ IsInjective(waiting')
      /\ ToSet(waiting') = ToSet(waiting) \cup {r}
  BY <1>1, <1>2, <1>3, AppendNew DEF Inv, Queues
<1>5. /\ told' \in [Request -> Report] /\ told'[r].submitted
      /\ told'[r].end = told[r].end
      /\ \A q \in Request : q # r => told'[q] = told[q]
  BY <1>1, <1>2 DEF Report
<1>6. Typed'
  BY <1>1, <1>4, <1>5 DEF Inv, Typed, PC
<1>7. Queues'
  BY <1>1, <1>2, <1>3, <1>4, <1>5, SchedulerAssumption DEF Inv, Queues, InHand
<1>8. OthersHoldNothing' /\ OnePartialPrompt'
  BY <1>1 DEF Inv, OthersHoldNothing, OnePartialPrompt
<1>9. Sequences'
  BY <1>1, <1>4, <1>5 DEF Inv, Sequences, Fresh
<1>10. PlanHolds'
  <2>1. \A q \in ToSet(running') : Settled(q)'
    BY <1>1, AllSettled DEF Settled, Decoding, Slicing, Passing
  <2>2. plan' = <<>>
    BY <1>1 DEF Inv, PlanHolds, Passing
  <2> QED BY <1>1, <2>1, <2>2, NoPlanHolds DEF Passing
<1>11. ChosenHold' /\ Starting'
  BY <1>1, <1>2 DEF ChosenHold, Starting
<1> QED BY <1>6, <1>7, <1>8, <1>9, <1>10, <1>11 DEF Inv

\* What the ways to leave share: the request is in no queue any more, holds
\* nothing, and nothing else changes.
Leaving(r, end) ==
    /\ FreeTable(r)
    /\ waiting' \in Seq(Request) /\ running' \in Seq(Request)
    /\ IsInjective(waiting') /\ IsInjective(running')
    /\ ToSet(waiting') = ToSet(waiting) \ {r}
    /\ ToSet(running') = ToSet(running) \ {r}
    /\ \E finish \in Finish : seq' = [seq EXCEPT ![r].finish = finish]
    /\ told' = [told EXCEPT ![r].end = end]
    /\ UNCHANGED <<chunk, joining, pc>>

\* What leaving keeps of the invariant, whatever became of row, chosen and plan.
LEMMA LeavingKeeps ==
  ASSUME Inv, NEW r \in ToSet(waiting) \cup ToSet(running),
         NEW end \in Ends \ {"none"}, Leaving(r, end)
  PROVE  /\ seq' \in [Request -> Sequence] /\ told' \in [Request -> Report]
         /\ Queues' /\ OthersHoldNothing' /\ Sequences' /\ Starting'
         /\ OnePartialPrompt'
         /\ \A q \in Request : q # r => seq'[q] = seq[q] /\ table'[q] = table[q]
         /\ \A q \in ToSet(running') : Settled(q) => Settled(q)'
<1>1. r \in Request
  BY ToSetMeans DEF Inv, Typed
<1>2. PICK finish \in Finish : seq' = [seq EXCEPT ![r].finish = finish]
  BY DEF Leaving
<1>3. /\ told' = [told EXCEPT ![r].end = end]
      /\ table' = [table EXCEPT ![r] = NewTable]
      /\ ToSet(waiting') = ToSet(waiting) \ {r}
      /\ ToSet(running') = ToSet(running) \ {r}
      /\ UNCHANGED <<joining, pc>>
  BY DEF Leaving, FreeTable
<1>4. seq \in [Request -> Sequence] /\ told \in [Request -> Report]
      /\ table \in [Request -> Table]
  BY CacheTyped DEF Inv, Typed
<1>5. /\ seq' \in [Request -> Sequence]
      /\ seq'[r].history = seq[r].history
      /\ seq'[r].prompt_tokens = seq[r].prompt_tokens
      /\ seq'[r].generated = seq[r].generated
      /\ \A q \in Request : q # r => seq'[q] = seq[q]
  BY <1>1, <1>2, <1>4 DEF Sequence
<1>6. /\ told' \in [Request -> Report] /\ told'[r].end # "none"
      /\ told'[r].submitted = told[r].submitted
      /\ \A q \in Request : q # r => told'[q] = told[q]
  BY <1>1, <1>3, <1>4 DEF Report
<1>7. /\ table'[r] = NewTable
      /\ \A q \in Request : q # r => table'[q] = table[q]
  BY <1>1, <1>3, <1>4
<1>8. r # joining /\ r \in InHand /\ told[r].submitted
  BY <1>1, SchedulerAssumption DEF Inv, Queues, InHand
<1>9. Queues'
  <2>1. InHand' = InHand \ {r}
    BY <1>3, <1>8 DEF InHand
  <2>2. /\ IsInjective(waiting)' /\ IsInjective(running)'
        /\ ToSet(waiting') \cap ToSet(running') = {}
        /\ joining' \notin ToSet(waiting') \cup ToSet(running')
        /\ joining' # Nobody <=> pc' \in {"joining", "admitting"}
    BY <1>3 DEF Leaving, Inv, Queues
  <2>3. ASSUME NEW q \in Request
        PROVE  /\ q \in InHand' <=> told'[q].submitted /\ told'[q].end = "none"
               /\ ~ told'[q].submitted => told'[q].end = "none"
    BY <1>6, <1>8, <2>1 DEF Inv, Queues
  <2> QED BY <2>2, <2>3 DEF Queues
<1>10. OthersHoldNothing'
  BY <1>3, <1>7 DEF Inv, OthersHoldNothing
<1>11. Sequences'
  <2>1. ASSUME NEW q \in Request
        PROVE  /\ seq'[q].prompt_tokens > 0
               /\ Len(seq'[q].history) = seq'[q].prompt_tokens + seq'[q].generated
               /\ q \in ToSet(waiting') \cup {joining'} \/ ~ told'[q].submitted => Fresh(q)'
               /\ q \in ToSet(running') /\ pc' \notin {"emit", "retire"}
                    => seq'[q].finish = "none"
    <3>1. CASE q = r
      BY <1>3, <1>5, <1>6, <1>8, <3>1 DEF Inv, Sequences
    <3>2. CASE q # r
      BY <1>3, <1>5, <1>6, <3>2 DEF Inv, Sequences, Fresh
    <3> QED BY <3>1, <3>2
  <2> QED BY <2>1 DEF Sequences
<1>12. \A q \in ToSet(running') : q \in Request /\ q # r /\ q \in ToSet(running)
  BY <1>3, ToSetMeans DEF Inv, Typed
<1>13. Starting'
  <2>1. pc' = "joining" => \A q \in ToSet(running') : seq'[q].prompt_left = 0
    BY <1>3, <1>5, <1>12 DEF Inv, Starting
  <2>2. ASSUME joining' # Nobody
        PROVE  table'[joining'].tokens < Len(seq'[joining'].history)
    <3>1. joining \in Request
      BY <1>3, <2>2 DEF Inv, Typed
    <3> QED BY <1>3, <1>5, <1>7, <1>8, <2>2, <3>1 DEF Inv, Starting
  <2> QED BY <2>1, <2>2 DEF Starting
<1>14. OnePartialPrompt'
  BY <1>5, <1>12 DEF Inv, OnePartialPrompt
<1>15. \A q \in ToSet(running') : Settled(q) => Settled(q)'
  BY <1>5, <1>7, <1>12 DEF Settled, Decoding, Slicing
<1> QED BY <1>5, <1>6, <1>7, <1>9, <1>10, <1>11, <1>13, <1>14, <1>15

\* Leaving between passes.
LEMMA LeavingIdleKeeps ==
  ASSUME Inv, KVP!TypeInv', NEW r \in ToSet(waiting) \cup ToSet(running),
         NEW end \in Ends \ {"none"}, Leaving(r, end), pc \in {"idle", "retire"},
         UNCHANGED <<row, chosen, plan>>
  PROVE  Inv'
<1>1. UNCHANGED <<chunk, joining, pc>>
  BY DEF Leaving
<1>2. waiting' \in Seq(Request) /\ running' \in Seq(Request)
      /\ ToSet(running') \subseteq ToSet(running)
  BY DEF Leaving
<1>3. Typed'
  BY <1>1, <1>2, LeavingKeeps DEF Inv, Typed
<1>4. PlanHolds'
  <2>1. \A q \in ToSet(running') : Settled(q)'
    BY <1>2, AllSettled, LeavingKeeps DEF Passing
  <2>2. pc' # "retire" => plan' = <<>>
    BY <1>1 DEF Inv, PlanHolds, Passing
  <2> QED BY <1>1, <2>1, <2>2, NoPlanHolds DEF Passing
<1>5. ChosenHold'
  BY <1>1 DEF ChosenHold
<1> QED BY <1>3, <1>4, <1>5, LeavingKeeps DEF Inv

\* A request that is cancelled between passes.
LEMMA CancelKeeps ==
  ASSUME Inv, KVP!TypeInv', NEW r \in Request, Cancel(r)
  PROVE  Inv'
<1>1. /\ pc = "idle" /\ r \in ToSet(waiting) \cup ToSet(running) /\ FreeTable(r)
      /\ waiting' = Without(waiting, r) /\ running' = Without(running, r)
      /\ seq' = [seq EXCEPT ![r].finish = IF r \in ToSet(running) THEN "stop" ELSE @]
      /\ told' = [told EXCEPT ![r].end = "cancelled"]
      /\ UNCHANGED <<chunk, joining, pc, row, chosen, plan>>
  BY DEF Cancel, Live
<1>2. /\ waiting' \in Seq(Request) /\ IsInjective(waiting')
      /\ ToSet(waiting') = ToSet(waiting) \ {r}
      /\ running' \in Seq(Request) /\ IsInjective(running')
      /\ ToSet(running') = ToSet(running) \ {r}
  BY <1>1, WithoutOnce DEF Inv, Typed, Queues
<1>3. \E finish \in Finish : seq' = [seq EXCEPT ![r].finish = finish]
  <2>1. seq[r].finish \in Finish
    BY Numbers DEF Inv
  <2>2. CASE r \in ToSet(running)
    BY <1>1, <2>2 DEF Finish
  <2>3. CASE r \notin ToSet(running)
    BY <1>1, <2>1, <2>3
  <2> QED BY <2>2, <2>3
<1>4. Leaving(r, "cancelled")
  BY <1>1, <1>2, <1>3 DEF Leaving
<1> QED BY <1>1, <1>4, LeavingIdleKeeps DEF Ends, Finish

\* A request no pool could hold is turned away.
LEMMA RefuseKeeps == ASSUME Inv, KVP!TypeInv', Refuse PROVE Inv'
<1> DEFINE r == Head(waiting)
<1>1. /\ pc = "idle" /\ waiting # <<>> /\ FreeTable(r)
      /\ waiting' = Tail(waiting)
      /\ seq' = [seq EXCEPT ![r].finish = "length"]
      /\ told' = [told EXCEPT ![r].end = "length"]
      /\ UNCHANGED <<chunk, running, joining, pc, row, chosen, plan>>
  BY DEF Refuse, Unservable
<1>2. /\ r \in ToSet(waiting) /\ waiting' \in Seq(Request) /\ IsInjective(waiting')
      /\ ToSet(waiting') = ToSet(waiting) \ {r}
  BY <1>1, TailOnce DEF Inv, Typed, Queues
<1>3. /\ running' \in Seq(Request) /\ IsInjective(running')
      /\ ToSet(running') = ToSet(running) \ {r}
  BY <1>1, <1>2 DEF Inv, Typed, Queues
<1> HIDE DEF r
<1>4. Leaving(r, "length")
  BY <1>1, <1>2, <1>3 DEF Leaving, Finish
<1> QED BY <1>1, <1>2, <1>4, LeavingIdleKeeps DEF Ends, Finish

\* A resident that finished is retired.
LEMMA RetireKeeps == ASSUME Inv, KVP!TypeInv', Retire PROVE Inv'
<1> DEFINE i == CHOOSE i \in Finished : \A j \in Finished : i <= j
           r == running[i]
<1>1. /\ pc = "retire" /\ Finished # {} /\ FreeTable(r)
      /\ running' = RemoveAt(running, i)
      /\ told' = [told EXCEPT ![r].end = seq[r].finish]
      /\ UNCHANGED <<chunk, seq, waiting, joining, pc, row, chosen, plan>>
  BY DEF Retire
<1>2. /\ i \in 1..Len(running) /\ r \in Request /\ r \in ToSet(running)
      /\ seq[r].finish # "none"
  BY <1>1, FirstFinished DEF Inv
<1> HIDE DEF i
<1>3. /\ running' \in Seq(Request) /\ IsInjective(running')
      /\ ToSet(running') = ToSet(running) \ {r}
  BY <1>1, <1>2, RemoveAtFields, RemoveAtOnce DEF Inv, Typed, Queues
<1>4. /\ waiting' \in Seq(Request) /\ IsInjective(waiting')
      /\ ToSet(waiting') = ToSet(waiting) \ {r}
  BY <1>1, <1>2 DEF Inv, Typed, Queues
<1>5. seq[r] \in Sequence /\ seq[r].finish \in Finish /\ seq \in [Request -> Sequence]
  BY <1>2, Numbers DEF Inv, Typed
<1>6. seq' = [seq EXCEPT ![r].finish = seq[r].finish]
  BY <1>1, <1>2, <1>5 DEF Sequence
<1> HIDE DEF r
<1>7. Leaving(r, seq[r].finish)
  BY <1>1, <1>3, <1>4, <1>5, <1>6 DEF Leaving
<1>8. seq[r].finish \in Ends \ {"none"}
  BY <1>2, <1>5 DEF Ends
<1> QED BY <1>1, <1>2, <1>7, <1>8, LeavingIdleKeeps

\* A failed pass takes down the sequences it carried, one after the other.
LEMMA AbortRowKeeps == ASSUME Inv, KVP!TypeInv', AbortRow PROVE Inv'
<1> DEFINE r == plan[row].id
<1>1. /\ pc = "abort" /\ row <= Len(plan) /\ FreeTable(r)
      /\ running' = Without(running, r)
      /\ seq' = [seq EXCEPT ![r].finish = "stop"]
      /\ told' = [told EXCEPT ![r].end = "failed"]
      /\ row' = row + 1
      /\ UNCHANGED <<chunk, waiting, joining, pc, chosen, plan>>
  BY DEF AbortRow, InPlanLoop, NextRow
<1>2. row \in DOMAIN plan /\ DOMAIN plan = 1..Len(plan) /\ Len(plan) \in Nat /\ row \in Nat \ {0}
  BY <1>1 DEF Inv, Typed
<1>3. /\ r \in ToSet(running)
      /\ \A j \in DOMAIN plan : plan[j].id = r => j = row
  BY <1>1, <1>2 DEF Inv, PlanHolds, Passing
<1>4. /\ running' \in Seq(Request) /\ IsInjective(running')
      /\ ToSet(running') = ToSet(running) \ {r}
  BY <1>1, WithoutOnce DEF Inv, Typed, Queues
<1>5. /\ waiting' \in Seq(Request) /\ IsInjective(waiting')
      /\ ToSet(waiting') = ToSet(waiting) \ {r}
  BY <1>1, <1>3 DEF Inv, Typed, Queues
<1> HIDE DEF r
<1>6. Leaving(r, "failed")
  BY <1>1, <1>4, <1>5 DEF Leaving, Finish
<1>7. "failed" \in Ends \ {"none"}
  BY DEF Ends, Finish
<1>8. /\ seq' \in [Request -> Sequence] /\ told' \in [Request -> Report]
      /\ Queues' /\ OthersHoldNothing' /\ Sequences' /\ Starting' /\ OnePartialPrompt'
      /\ \A q \in ToSet(running') : Settled(q) => Settled(q)'
  BY <1>3, <1>6, <1>7, LeavingKeeps
<1>9. Typed'
  BY <1>1, <1>2, <1>4, <1>5, <1>8 DEF Inv, Typed
<1>10. PlanHolds'
  <2>1. ASSUME NEW k \in DOMAIN plan, k >= row + 1 PROVE plan[k].id \in ToSet(running')
    <3>1. plan[k].id \in ToSet(running) /\ plan[k].id # r
      BY <1>1, <1>2, <1>3, <2>1 DEF Inv, PlanHolds, Passing
    <3> QED BY <1>4, <3>1
  <2>2. ASSUME NEW q \in ToSet(running') PROVE Aboard(q)' \/ Settled(q)'
    <3>1. q \in ToSet(running) /\ q # r
      BY <1>4
    <3>2. CASE Aboard(q)
      <4>1. PICK k \in DOMAIN plan : plan[k].id = q /\ k >= row
        BY <1>1, <3>2 DEF Aboard
      <4>2. k >= row + 1
        BY <1>2, <3>1, <4>1 DEF r
      <4> QED BY <1>1, <4>1, <4>2 DEF Aboard, Passing
    <3>3. CASE Settled(q)
      BY <1>8, <3>3
    <3> QED BY <3>1, <3>2, <3>3 DEF Inv, PlanHolds
  <2> QED BY <1>1, <2>1, <2>2 DEF Inv, PlanHolds, Passing
<1>11. ChosenHold'
  BY <1>1 DEF ChosenHold
<1> QED BY <1>8, <1>9, <1>10, <1>11 DEF Inv

-----------------------------------------------------------------------------
(* The invariant is kept: the queues exchange a sequence.                  *)

\* A sequence that changes place is still in exactly one.
LEMMA MovedQueues ==
  ASSUME Inv, UNCHANGED told, InHand' = InHand,
         IsInjective(waiting'), IsInjective(running'),
         ToSet(waiting') \cap ToSet(running') = {},
         joining' \notin ToSet(waiting') \cup ToSet(running'),
         joining' # Nobody <=> pc' \in {"joining", "admitting"}
  PROVE  Queues'
BY DEF Inv, Queues

\* The repair keeps different indexes different.
LEMMA ShiftOnce ==
  ASSUME NEW a \in Nat, NEW b \in Nat, NEW gone \in Nat, a # gone, b # gone,
         Shifted(a, gone) = Shifted(b, gone)
  PROVE  a = b
BY DEF Shifted

\* The indexes decode keeps, repaired for the row at index gone leaving.
Repaired(picked, gone) ==
    LET kept == Without(picked, gone)
    IN  [i \in DOMAIN kept |-> Shifted(kept[i], gone)]

\* What an eviction does to the rows already chosen: none of them is the one
\* evicted, and each is found where the evicted one's leaving put it.
LEMMA ChosenShift ==
  ASSUME NEW S, NEW s \in Seq(S), NEW gone \in 1..Len(s), NEW at \in Nat \ {0},
         at # gone, NEW picked \in Seq(Nat), IsInjective(picked),
         \A k \in DOMAIN picked : picked[k] \in 1..Len(s) /\ picked[k] < at,
         NEW new, new = Repaired(picked, gone)
  PROVE  /\ new \in Seq(Nat) /\ IsInjective(new)
         /\ Shifted(at, gone) \in Nat \ {0}
         /\ \A k \in DOMAIN new :
              /\ new[k] \in 1..(Len(s) - 1) /\ new[k] < Shifted(at, gone)
              /\ \E j \in DOMAIN picked :
                   picked[j] # gone /\ RemoveAt(s, gone)[new[k]] = s[picked[j]]
<1> DEFINE kept == Without(picked, gone)
<1>0. new = [i \in DOMAIN kept |-> Shifted(kept[i], gone)]
  BY DEF Repaired
<1>1. /\ kept \in Seq(Nat) /\ IsInjective(kept) /\ ToSet(kept) = ToSet(picked) \ {gone}
      /\ DOMAIN kept = 1..Len(kept) /\ Len(kept) \in Nat /\ Len(s) \in Nat
      /\ DOMAIN picked = 1..Len(picked)
  BY WithoutOnce
<1> HIDE DEF kept
<1>2. ASSUME NEW i \in DOMAIN kept
      PROVE  \E j \in DOMAIN picked :
               /\ kept[i] = picked[j] /\ kept[i] # gone
               /\ kept[i] \in 1..Len(s) /\ kept[i] < at
  <2>1. kept[i] \in ToSet(kept)
    BY <1>1, ToSetMeans
  <2>2. PICK j \in 1..Len(picked) : picked[j] = kept[i]
    BY <1>1, <2>1, ToSetMeans
  <2> QED BY <1>1, <2>1, <2>2
<1>3. DOMAIN new = DOMAIN kept /\ \A i \in DOMAIN kept : new[i] = Shifted(kept[i], gone)
  BY <1>0
<1>4. ASSUME NEW i \in DOMAIN kept
      PROVE  /\ new[i] \in Nat /\ new[i] \in 1..(Len(s) - 1) /\ new[i] < Shifted(at, gone)
             /\ RemoveAt(s, gone)[new[i]] = s[kept[i]]
  <2>1. /\ kept[i] # gone /\ kept[i] \in 1..Len(s) /\ kept[i] < at
        /\ new[i] = IF kept[i] > gone THEN kept[i] - 1 ELSE kept[i]
    BY <1>2, <1>3 DEF Shifted
  <2>2. new[i] \in 1..(Len(s) - 1)
    BY <1>1, <2>1
  <2>3. RemoveAt(s, gone)[new[i]] = IF new[i] < gone THEN s[new[i]] ELSE s[new[i] + 1]
    <3>1. \A j \in 1..(Len(s) - 1) :
            RemoveAt(s, gone)[j] = IF j < gone THEN s[j] ELSE s[j + 1]
      BY RemoveAtFields
    <3> QED BY <2>2, <3>1
  <2>4. RemoveAt(s, gone)[new[i]] = s[kept[i]]
    <3>1. CASE kept[i] > gone
      <4>1. ~ (new[i] < gone) /\ new[i] + 1 = kept[i]
        BY <1>1, <2>1, <3>1
      <4> QED BY <2>3, <4>1
    <3>2. CASE ~ (kept[i] > gone)
      <4>1. new[i] < gone /\ new[i] = kept[i]
        BY <1>1, <2>1, <3>2
      <4> QED BY <2>3, <4>1
    <3> QED BY <3>1, <3>2
  <2>5. new[i] < Shifted(at, gone)
    BY <1>1, <2>1 DEF Shifted
  <2> QED BY <1>1, <2>2, <2>4, <2>5
<1>5. new \in Seq(Nat)
  <2>1. new = [i \in 1..Len(kept) |-> new[i]]
    BY <1>0, <1>1, <1>3
  <2>2. \A i \in 1..Len(kept) : new[i] \in Nat
    BY <1>1, <1>4
  <2> QED BY <1>1, <2>1, <2>2
<1>6. IsInjective(new)
  <2>1. ASSUME NEW i \in DOMAIN kept, NEW j \in DOMAIN kept, new[i] = new[j]
        PROVE  i = j
    <3>1. /\ kept[i] # gone /\ kept[i] \in Nat /\ kept[j] # gone /\ kept[j] \in Nat
          /\ Shifted(kept[i], gone) = Shifted(kept[j], gone) /\ gone \in Nat
      BY <1>1, <1>2, <1>3, <2>1, SMTT(60)
    <3>2. kept[i] = kept[j]
      BY <3>1, ShiftOnce
    <3> QED BY <1>1, <3>2 DEF IsInjective
  <2> QED BY <1>3, <2>1 DEF IsInjective
<1>7. Shifted(at, gone) \in Nat \ {0}
  BY DEF Shifted
<1>8. ASSUME NEW k \in DOMAIN new
      PROVE  \E j \in DOMAIN picked :
               picked[j] # gone /\ RemoveAt(s, gone)[new[k]] = s[picked[j]]
  BY <1>2, <1>3, <1>4, SMTT(60)
<1> QED BY <1>3, <1>4, <1>5, <1>6, <1>7, <1>8

\* A sequence that is left alone stays as settled, or as fresh, as it was.
LEMMA LeftAlone ==
  ASSUME NEW q, seq'[q] = seq[q], table'[q].tokens = table[q].tokens
  PROVE  (Settled(q) => Settled(q)') /\ (Fresh(q) => Fresh(q)')
BY DEF Settled, Decoding, Slicing, Fresh

\* What an eviction keeps of a sequence.
LEMMA PreemptedFields ==
  ASSUME NEW s \in Sequence
  PROVE  /\ Preempted(s) \in Sequence
         /\ Preempted(s).history = s.history /\ Preempted(s).pending = s.history
         /\ Preempted(s).prompt_left = 0 /\ Preempted(s).finish = s.finish
         /\ Preempted(s).prompt_tokens = s.prompt_tokens
         /\ Preempted(s).generated = s.generated
         /\ Preempted(s).max_tokens = s.max_tokens
         /\ Preempted(s).preemptions = s.preemptions + 1
<1> DEFINE t == [s EXCEPT !.pending = s.history]
           u == [t EXCEPT !.prompt_left = 0]
           v == [u EXCEPT !.preemptions = s.preemptions + 1]
<1>1. /\ t \in Sequence /\ t.history = s.history /\ t.pending = s.history
      /\ t.finish = s.finish /\ t.prompt_tokens = s.prompt_tokens
      /\ t.generated = s.generated /\ t.max_tokens = s.max_tokens
      /\ t.preemptions = s.preemptions /\ s.preemptions \in Nat
  BY DEF Sequence
<1> HIDE DEF t
<1>2. /\ u \in Sequence /\ u.history = s.history /\ u.pending = s.history
      /\ u.finish = s.finish /\ u.prompt_tokens = s.prompt_tokens
      /\ u.generated = s.generated /\ u.max_tokens = s.max_tokens
      /\ u.preemptions = s.preemptions /\ u.prompt_left = 0
  BY <1>1 DEF Sequence
<1> HIDE DEF u
<1>3. /\ v \in Sequence /\ v.history = s.history /\ v.pending = s.history
      /\ v.finish = s.finish /\ v.prompt_tokens = s.prompt_tokens
      /\ v.generated = s.generated /\ v.max_tokens = s.max_tokens
      /\ v.preemptions = s.preemptions + 1 /\ v.prompt_left = 0
  BY <1>1, <1>2, SMTT(60) DEF Sequence
<1>4. Preempted(s) = v
  BY <1>1, <1>2 DEF Preempted, t, u
<1> QED BY <1>3, <1>4

\* The newest resident is evicted: it is first in the queue, with everything it
\* has seen as its prompt.
LEMMA PreemptKeeps == ASSUME Inv, KVP!TypeInv', Preempt PROVE Inv'
<1> DEFINE gone == Newest
           r == running[gone]
<1>1. /\ pc = "decode" /\ pc' = "decode" /\ Evictable # {} /\ row <= Len(running)
      /\ running' = RemoveAt(running, gone)
      /\ FreeTable(r)
      /\ seq' = [seq EXCEPT ![r] = Preempted(@)]
      /\ waiting' = <<r>> \o waiting
      /\ chosen' = Repaired(chosen, gone)
      /\ row' = Shifted(row, gone)
      /\ UNCHANGED <<joining, plan, chunk, kv, told>>
  BY DEF Preempt, Starved, InRowLoop, settled, Repaired
<1>2. /\ gone \in 1..Len(running) /\ gone # row /\ r \in Request /\ r \in ToSet(running)
      /\ seq[r].finish = "none"
  BY <1>1, NewestMeans DEF Inv
<1> HIDE DEF gone
<1>3. /\ running \in Seq(Request) /\ waiting \in Seq(Request) /\ chosen \in Seq(Nat)
      /\ row \in Nat \ {0} /\ IsInjective(running) /\ IsInjective(waiting)
      /\ r \notin ToSet(waiting)
  BY <1>2 DEF Inv, Typed, Queues
<1>4. /\ running' \in Seq(Request) /\ IsInjective(running')
      /\ ToSet(running') = ToSet(running) \ {r} /\ Len(running') = Len(running) - 1
  BY <1>1, <1>2, <1>3, RemoveAtFields, RemoveAtOnce
<1>5. /\ waiting' \in Seq(Request) /\ IsInjective(waiting')
      /\ ToSet(waiting') = ToSet(waiting) \cup {r}
  BY <1>1, <1>2, <1>3, ConsNew
<1>6. /\ joining = Nobody /\ joining # r /\ plan = <<>>
  BY <1>1, <1>2, SchedulerAssumption DEF Inv, Queues, PlanHolds, Passing
<1>7. /\ table' = [table EXCEPT ![r] = NewTable] /\ table \in [Request -> Table]
      /\ seq \in [Request -> Sequence]
  BY <1>1, CacheTyped DEF FreeTable, Inv, Typed
<1>8. /\ Preempted(seq[r]) \in Sequence
      /\ Preempted(seq[r]).history = seq[r].history
      /\ Preempted(seq[r]).pending = seq[r].history
      /\ Preempted(seq[r]).prompt_left = 0
      /\ Preempted(seq[r]).finish = "none"
      /\ Preempted(seq[r]).prompt_tokens = seq[r].prompt_tokens
      /\ Preempted(seq[r]).generated = seq[r].generated
  <2>1. seq[r] \in Sequence
    BY <1>2, <1>7
  <2> QED BY <1>2, <2>1, PreemptedFields
<1> HIDE DEF r
<1>9. /\ seq' \in [Request -> Sequence] /\ seq'[r] = Preempted(seq[r])
      /\ table'[r] = NewTable
      /\ \A q \in Request : q # r => seq'[q] = seq[q] /\ table'[q] = table[q]
  BY <1>1, <1>2, <1>7, <1>8
<1>10. /\ chosen' \in Seq(Nat) /\ IsInjective(chosen')
       /\ row' \in Nat \ {0}
       /\ \A k \in DOMAIN chosen' :
            /\ chosen'[k] \in 1..(Len(running) - 1) /\ chosen'[k] < row'
            /\ \E j \in DOMAIN chosen :
                 chosen[j] # gone /\ running'[chosen'[k]] = running[chosen[j]]
  <2>1. \A k \in DOMAIN chosen : chosen[k] \in 1..Len(running) /\ chosen[k] < row
    BY <1>1, <1>3 DEF Inv, ChosenHold
  <2>2. IsInjective(chosen)
    BY <1>1 DEF Inv, ChosenHold
  <2>3. gone \in 1..Len(running) /\ gone # row
    BY <1>2
  <2>4. /\ Repaired(chosen, gone) \in Seq(Nat) /\ IsInjective(Repaired(chosen, gone))
        /\ Shifted(row, gone) \in Nat \ {0}
        /\ \A k \in DOMAIN Repaired(chosen, gone) :
             /\ Repaired(chosen, gone)[k] \in 1..(Len(running) - 1)
             /\ Repaired(chosen, gone)[k] < Shifted(row, gone)
             /\ \E j \in DOMAIN chosen :
                  /\ chosen[j] # gone
                  /\ RemoveAt(running, gone)[Repaired(chosen, gone)[k]] = running[chosen[j]]
    BY <1>3, <2>1, <2>2, <2>3, ChosenShift, SMTT(60)
  <2> QED BY <1>1, <2>4
<1>11. Typed'
  BY <1>1, <1>4, <1>5, <1>9, <1>10 DEF Inv, Typed
<1>12. Queues'
  <2>1. InHand' = InHand
    BY <1>1, <1>2, <1>4, <1>5 DEF InHand
  <2> QED BY <1>1, <1>3, <1>4, <1>5, <1>6, <2>1, MovedQueues DEF Inv, Queues
<1>13. OthersHoldNothing'
  BY <1>1, <1>4, <1>9 DEF Inv, OthersHoldNothing
<1>14. Sequences'
  <2>1. ASSUME NEW q \in Request
        PROVE  /\ seq'[q].prompt_tokens > 0
               /\ Len(seq'[q].history) = seq'[q].prompt_tokens + seq'[q].generated
               /\ q \in ToSet(waiting') \cup {joining'} \/ ~ told'[q].submitted => Fresh(q)'
               /\ q \in ToSet(running') /\ pc' \notin {"emit", "retire"}
                    => seq'[q].finish = "none"
    <3>1. CASE q = r
      BY <1>8, <1>9, <3>1 DEF Inv, Sequences, Fresh
    <3>2. CASE q # r
      BY <1>1, <1>4, <1>5, <1>9, <3>2 DEF Inv, Sequences, Fresh
    <3> QED BY <3>1, <3>2
  <2> QED BY <2>1 DEF Sequences
<1>15. \A q \in ToSet(running') : q \in Request /\ q # r /\ q \in ToSet(running)
  BY <1>3, <1>4, ToSetMeans
<1>16. PlanHolds'
  <2>1. \A q \in ToSet(running) : Settled(q)
    BY <1>1, AllSettled DEF Passing
  <2>2. \A q \in ToSet(running') : Settled(q)'
    BY <1>9, <1>15, <2>1, LeftAlone
  <2> QED BY <1>1, <1>6, <2>2, NoPlanHolds DEF Passing
<1>17. ChosenHold'
  <2>1. ASSUME NEW k \in DOMAIN chosen'
        PROVE  /\ chosen'[k] \in DOMAIN running' /\ chosen'[k] < row'
               /\ Len(seq'[running'[chosen'[k]]].pending) = 1
               /\ table'[running'[chosen'[k]]].tokens < Capacity(table'[running'[chosen'[k]]])
    <3>1. PICK j \in DOMAIN chosen :
            chosen[j] # gone /\ running'[chosen'[k]] = running[chosen[j]]
      BY <1>10
    <3>2. /\ chosen[j] \in DOMAIN running
          /\ Len(seq[running[chosen[j]]].pending) = 1
          /\ table[running[chosen[j]]].tokens < Capacity(table[running[chosen[j]]])
      BY <1>1 DEF Inv, ChosenHold
    <3>3. DOMAIN running = 1..Len(running) /\ DOMAIN running' = 1..(Len(running) - 1)
      BY <1>3, <1>4
    <3>4. running[chosen[j]] # r /\ running[chosen[j]] \in Request
      BY <1>2, <1>3, <3>1, <3>2, <3>3 DEF IsInjective, r
    <3> QED BY <1>9, <1>10, <3>1, <3>2, <3>3, <3>4
  <2> QED BY <1>1, <1>10, <2>1 DEF ChosenHold
<1>18. Starting' /\ OnePartialPrompt'
  BY <1>1, <1>6, <1>9, <1>15 DEF Inv, Starting, OnePartialPrompt
<1> QED BY <1>11, <1>12, <1>13, <1>14, <1>16, <1>17, <1>18 DEF Inv

\* A sequence whose prompt did not get its first block goes back to the front.
LEMMA PutBackKeeps == ASSUME Inv, KVP!TypeInv', PutBack PROVE Inv'
<1> DEFINE r == joining
<1>1. /\ pc \in {"joining", "admitting"} /\ pc' = "decode" /\ row' = 1 /\ chosen' = <<>>
      /\ FreeTable(r)
      /\ seq' = [seq EXCEPT ![r].pending = seq[r].history]
      /\ waiting' = <<r>> \o waiting
      /\ joining' = Nobody
      /\ UNCHANGED <<running, plan, chunk, kv, told>>
  BY DEF PutBack, ToDecode, settled
<1>2. /\ r \in Request /\ r # Nobody /\ r \notin ToSet(waiting) \cup ToSet(running)
      /\ waiting \in Seq(Request) /\ running \in Seq(Request)
      /\ table \in [Request -> Table] /\ seq \in [Request -> Sequence]
      /\ IsInjective(waiting) /\ IsInjective(running)
      /\ ToSet(waiting) \cap ToSet(running) = {}
  BY <1>1, CacheTyped DEF Inv, Typed, Queues
<1>3. seq' = seq
  <2>1. seq[r].pending = seq[r].history
    BY <1>2 DEF Inv, Sequences, Fresh
  <2> QED BY <1>1, <1>2, <2>1 DEF Sequence
<1>4. /\ table'[r] = NewTable
      /\ \A q \in Request : q # r => table'[q] = table[q]
  BY <1>1, <1>2 DEF FreeTable
<1>5. /\ waiting' \in Seq(Request) /\ IsInjective(waiting')
      /\ ToSet(waiting') = ToSet(waiting) \cup {r}
  <2>1. r \notin ToSet(waiting)
    BY <1>2
  <2> QED BY <1>1, <1>2, <2>1, ConsNew
<1> HIDE DEF r
<1>6. plan' = <<>>
  BY <1>1 DEF Inv, PlanHolds, Passing
<1>7. Typed'
  <2>1. chosen' \in Seq(Nat)
    BY <1>1, EmptySeq
  <2>2. /\ chunk' = chunk /\ seq' = seq /\ running' = running /\ told' = told
        /\ plan' = plan /\ joining' = Nobody /\ pc' = "decode" /\ row' = 1
    BY <1>1, <1>3
  <2> QED BY <1>5, <2>1, <2>2 DEF Inv, Typed, PC
<1>8. Queues'
  <2>1. InHand' = InHand
    BY <1>1, <1>2, <1>5 DEF InHand, r
  <2>2. joining' \notin ToSet(waiting') \cup ToSet(running')
    BY <1>1, <1>2, <1>5, SchedulerAssumption, ToSetMeans
  <2>3. ToSet(waiting') \cap ToSet(running') = {}
    BY <1>1, <1>2, <1>5
  <2> QED BY <1>1, <1>2, <1>5, <2>1, <2>2, <2>3, MovedQueues
<1>9. OthersHoldNothing'
  BY <1>1, <1>4 DEF Inv, OthersHoldNothing, r
<1>10. Sequences'
  <2>1. /\ seq' = seq /\ running' = running /\ told' = told /\ joining' \notin Request
        /\ pc \notin {"emit", "retire"} /\ ToSet(waiting') = ToSet(waiting) \cup {joining}
    BY <1>1, <1>3, <1>5, SchedulerAssumption DEF r
  <2> QED BY <2>1 DEF Inv, Sequences, Fresh
<1>11. \A q \in ToSet(running') : q \in Request /\ q # r /\ q \in ToSet(running)
  BY <1>1, <1>2, ToSetMeans
<1>12. PlanHolds'
  <2>1. \A q \in ToSet(running) : Settled(q)
    BY <1>1, AllSettled DEF Passing
  <2>2. \A q \in ToSet(running') : Settled(q)'
    BY <1>3, <1>4, <1>11, <2>1, LeftAlone
  <2> QED BY <1>1, <1>6, <2>2, NoPlanHolds DEF Passing
<1>13. ChosenHold' /\ Starting' /\ OnePartialPrompt'
  BY <1>1, <1>3 DEF Inv, ChosenHold, IsInjective, Starting, OnePartialPrompt
<1> QED BY <1>7, <1>8, <1>9, <1>10, <1>12, <1>13 DEF Inv

\* A block for one sequence, or none: no table lost a slot or took a token.
LEMMA GrewOrNot ==
  ASSUME KVP!TypeInv, NEW r \in Request, TakeBlock(r) \/ UNCHANGED <<pool, table>>
  PROVE  \A q \in Request : /\ table'[q].tokens = table[q].tokens
                            /\ Capacity(table'[q]) \in Nat
                            /\ Capacity(table'[q]) >= Capacity(table[q])
                            /\ q # r => table'[q] = table[q]
<1>1. \A q \in Request : Capacity(table[q]) \in Nat
  BY CacheTyped, NeedsMeans
<1>2. CASE TakeBlock(r)
  BY <1>1, <1>2, TakeBlockFields, BlocksAssumption
<1>3. CASE UNCHANGED <<pool, table>>
  BY <1>1, <1>3
<1> QED BY <1>2, <1>3

\* A block more for a resident, or for the one that joins, changes nothing else.
LEMMA GrownKeeps ==
  ASSUME Inv, KVP!TypeInv', NEW r \in ToSet(running) \cup {joining}, r \in Request,
         TakeBlock(r) \/ UNCHANGED <<pool, table>>, pc \notin Passing,
         UNCHANGED <<seq, waiting, running, joining, pc, plan, chunk, told>>
  PROVE  /\ Queues' /\ OthersHoldNothing' /\ Sequences' /\ PlanHolds' /\ Starting'
         /\ OnePartialPrompt'
<1>1. \A q \in Request : table'[q].tokens = table[q].tokens
                         /\ (q # r => table'[q] = table[q])
  BY GrewOrNot DEF Inv
<1>2. Queues' /\ OnePartialPrompt' /\ Sequences'
  BY DEF Inv, Queues, InHand, OnePartialPrompt, Sequences, Fresh
<1>3. OthersHoldNothing'
  BY <1>1 DEF Inv, OthersHoldNothing
<1>4. PlanHolds'
  <2>1. \A q \in ToSet(running) : q \in Request /\ Settled(q)
    BY AllSettled, ToSetMeans DEF Inv, Typed
  <2>2. \A q \in ToSet(running') : Settled(q)'
    BY <1>1, <2>1, LeftAlone
  <2>3. pc' \notin Passing /\ (pc' # "retire" => plan' = <<>>)
    BY DEF Inv, PlanHolds
  <2> QED BY <2>2, <2>3, NoPlanHolds
<1>5. Starting'
  <2>1. joining # Nobody => joining \in Request
    BY DEF Inv, Typed
  <2> QED BY <1>1, <2>1 DEF Inv, Starting
<1> QED BY <1>2, <1>3, <1>4, <1>5

\* The rows chosen keep their slots when tables grow.
LEMMA ChosenGrown ==
  ASSUME Inv, pc \in {"rows", "slice", "joining", "decode"},
         \A q \in Request : /\ table'[q].tokens = table[q].tokens
                            /\ Capacity(table'[q]) \in Nat
                            /\ Capacity(table'[q]) >= Capacity(table[q]),
         NEW k \in DOMAIN chosen
  PROVE  LET r == running[chosen[k]]
         IN  r \in Request /\ table'[r].tokens < Capacity(table'[r])
<1> DEFINE r == running[chosen[k]]
<1>1. /\ chosen[k] \in DOMAIN running /\ running \in Seq(Request)
      /\ table[r].tokens < Capacity(table[r])
  BY DEF Inv, Typed, ChosenHold
<1>2. r \in Request
  BY <1>1
<1>3. table[r].tokens \in Nat /\ Capacity(table[r]) \in Nat
  BY <1>2, Numbers DEF Inv
<1> HIDE DEF r
<1>4. table'[r].tokens < Capacity(table'[r])
  BY <1>1, <1>2, <1>3
<1> QED BY <1>2, <1>4 DEF r

\* A row that is chosen has a slot for its token.
LEMMA ChooseRowKeeps == ASSUME Inv, KVP!TypeInv', ChooseRow PROVE Inv'
<1> DEFINE r == running[row]
<1>1. /\ pc \in {"rows", "decode"} /\ row <= Len(running)
      /\ ~ Skips(r)
      /\ IF Needs(r, 1) THEN TakeBlock(r) ELSE UNCHANGED <<pool, table>>
      /\ chosen' = Append(chosen, row) /\ row' = row + 1
      /\ UNCHANGED <<seq, waiting, running, joining, pc, plan, chunk, kv, told>>
  BY DEF ChooseRow, InRowLoop, settled
<1>2. /\ running \in Seq(Request) /\ row \in Nat \ {0} /\ chosen \in Seq(Nat)
      /\ row \in 1..Len(running) /\ DOMAIN running = 1..Len(running)
  BY <1>1 DEF Inv, Typed
<1>3. r \in Request /\ r \in ToSet(running)
  BY <1>2, ToSetMeans
<1>4. Len(seq[r].pending) = 1
  BY <1>1 DEF Skips
<1> HIDE DEF r
<1>5. TakeBlock(r) \/ UNCHANGED <<pool, table>>
  BY <1>1
<1>6. /\ pc \notin Passing
      /\ UNCHANGED <<seq, waiting, running, joining, pc, plan, chunk, told>>
  BY <1>1 DEF Passing
<1>7. /\ Queues' /\ OthersHoldNothing' /\ Sequences' /\ PlanHolds' /\ Starting'
      /\ OnePartialPrompt'
  BY <1>3, <1>5, <1>6, GrownKeeps
<1>8. \A q \in Request : /\ table'[q].tokens = table[q].tokens
                         /\ Capacity(table'[q]) \in Nat
                         /\ Capacity(table'[q]) >= Capacity(table[q])
  BY <1>3, <1>5, GrewOrNot DEF Inv
<1>9. table'[r].tokens < Capacity(table'[r])
  <2>1. /\ table[r] \in Table /\ WellFormed(table[r]) /\ table[r].tokens \in Nat
        /\ Capacity(table[r]) \in Nat /\ table[r].tokens <= Capacity(table[r])
    BY <1>3, Numbers DEF Inv
  <2>2. CASE Needs(r, 1)
    <3>1. Capacity(table'[r]) = Capacity(table[r]) + BlockSize
      BY <1>1, <1>3, <2>2, TakeBlockFields DEF Inv
    <3> QED BY <1>3, <1>8, <2>1, <3>1, BlocksAssumption
  <2>3. CASE ~ Needs(r, 1)
    <3>1. table[r].tokens + 1 <= Capacity(table[r])
      BY <2>1, <2>3, NeedsMeans DEF Needs
    <3> QED BY <1>3, <1>8, <2>1, <3>1
  <2> QED BY <2>2, <2>3
<1>10. row \notin ToSet(chosen)
  BY <1>1, <1>2, ToSetMeans DEF Inv, ChosenHold
<1>11. chosen' \in Seq(Nat) /\ IsInjective(chosen')
  BY <1>1, <1>2, <1>10, AppendNew DEF Inv, ChosenHold
<1>12. Typed'
  BY <1>1, <1>2, <1>11 DEF Inv, Typed
<1>13. ChosenHold'
  <2>1. ASSUME NEW k \in DOMAIN chosen'
        PROVE  /\ chosen'[k] \in DOMAIN running /\ chosen'[k] < row + 1
               /\ Len(seq[running[chosen'[k]]].pending) = 1
               /\ table'[running[chosen'[k]]].tokens < Capacity(table'[running[chosen'[k]]])
    <3>1. k \in 1..(Len(chosen) + 1) /\ Len(chosen) \in Nat /\ DOMAIN chosen = 1..Len(chosen)
      BY <1>1, <1>2
    <3>2. CASE k \in 1..Len(chosen)
      <4>1. chosen'[k] = chosen[k]
        BY <1>1, <1>2, <3>2
      <4>2. /\ chosen[k] \in DOMAIN running /\ chosen[k] < row
            /\ Len(seq[running[chosen[k]]].pending) = 1
        BY <1>1, <3>1, <3>2 DEF Inv, ChosenHold
      <4>3. table'[running[chosen[k]]].tokens < Capacity(table'[running[chosen[k]]])
        BY <1>1, <1>8, <3>1, <3>2, ChosenGrown
      <4> QED BY <1>2, <4>1, <4>2, <4>3
    <3>3. CASE k = Len(chosen) + 1
      <4>1. chosen'[k] = row
        BY <1>1, <1>2, <3>3
      <4> QED BY <1>2, <1>4, <1>9, <4>1 DEF r
    <3> QED BY <3>1, <3>2, <3>3
  <2> QED BY <1>1, <1>11, <2>1 DEF ChosenHold
<1> QED BY <1>7, <1>12, <1>13 DEF Inv

\* A block for the slice or for the prompt that joins.
LEMMA GrowKeeps ==
  ASSUME Inv, KVP!TypeInv', GrowSlice \/ GrowPrompt
  PROVE  Inv'
<1>1. PICK r \in Request : r \in ToSet(running) \cup {joining} /\ TakeBlock(r)
  <2>1. CASE GrowSlice
    BY <2>1, PartialMeans DEF GrowSlice, Inv, Queues
  <2>2. CASE GrowPrompt
    <3>1. joining \in Request
      BY <2>2 DEF GrowPrompt, Inv, Typed, Queues
    <3> QED BY <2>2, <3>1 DEF GrowPrompt
  <2> QED BY <2>1, <2>2
<1>2. /\ pc \in {"slice", "admitting"}
      /\ UNCHANGED <<seq, waiting, running, joining, pc, row, chosen, plan, chunk, told>>
  BY DEF GrowSlice, GrowPrompt, settled
<1>3. pc \notin Passing
  BY <1>2 DEF Passing
<1>4. /\ Queues' /\ OthersHoldNothing' /\ Sequences' /\ PlanHolds' /\ Starting'
      /\ OnePartialPrompt'
  BY <1>1, <1>2, <1>3, GrownKeeps
<1>5. Typed'
  BY <1>2 DEF Inv, Typed
<1>6. ChosenHold'
  <2>1. CASE pc = "slice"
    <3>1. \A q \in Request : /\ table'[q].tokens = table[q].tokens
                             /\ Capacity(table'[q]) \in Nat
                             /\ Capacity(table'[q]) >= Capacity(table[q])
      BY <1>1, GrewOrNot DEF Inv
    <3>2. \A k \in DOMAIN chosen :
            table'[running[chosen[k]]].tokens < Capacity(table'[running[chosen[k]]])
      BY <2>1, <3>1, ChosenGrown
    <3> QED BY <1>2, <3>2 DEF Inv, ChosenHold, Room
  <2>2. CASE pc # "slice"
    BY <1>2, <2>2 DEF ChosenHold
  <2> QED BY <2>1, <2>2
<1> QED BY <1>4, <1>5, <1>6 DEF Inv

\* A claim leaves something of the prompt to run: the last block is not shared.
LEMMA ClaimShort ==
  ASSUME Inv, NEW r \in ToSet(waiting), PopAndClaim(r)
  PROVE  /\ r \in Request /\ table'[r].tokens < Len(seq[r].history)
         /\ \A q \in Request : q # r => table'[q] = table[q]
<1>1. r \in Request
  BY ToSetMeans DEF Inv, Typed
<1>2. table[r] = NewTable
  BY <1>1 DEF Inv, OthersHoldNothing, Queues
<1>3. seq[r].pending = seq[r].history /\ Len(seq[r].history) > 0
      /\ seq[r].history \in Seq(Token)
  <2>1. /\ seq[r].prompt_tokens > 0 /\ seq[r].pending = seq[r].history
        /\ Len(seq[r].history) = seq[r].prompt_tokens + seq[r].generated
    BY <1>1 DEF Inv, Sequences, Fresh
  <2>2. /\ seq[r].prompt_tokens \in Nat /\ seq[r].generated \in Nat
        /\ seq[r].history \in Seq(Token)
    BY <1>1, Numbers DEF Inv
  <2> QED BY <2>1, <2>2
<1>4. table \in [Request -> Table] /\ pool \in Pool
  BY CacheTyped DEF Inv
<1>5. CASE ~ PrefixCache
  <2>1. table' = table /\ NewTable.tokens = 0
    BY <1>5 DEF PopAndClaim, NewTable
  <2> QED BY <1>1, <1>2, <1>3, <2>1
<1>6. CASE PrefixCache
  <2>1. PICK k \in 0..Candidates(seq[r].pending) :
          /\ Claims(pool, seq[r].pending, k)
          /\ table' = [table EXCEPT
               ![r] = ClaimTable(pool, table[r], seq[r].pending, k)]
    BY <1>6 DEF PopAndClaim
  <2>3. k \in Nat /\ ClaimTable(pool, NewTable, seq[r].pending, k).tokens = k * BlockSize
    <3>1. k \in Nat
      BY <1>3, CandidatesNat
    <3> QED BY <3>1, BlocksAssumption DEF ClaimTable, NewTable
  <2>4. k <= Candidates(seq[r].pending)
    BY <1>3, <2>1, CandidatesNat
  <2>5. k = 0 \/ k * BlockSize < Len(seq[r].history)
    BY <1>3, <2>3, <2>4, CandidatesEndEarly
  <2>6. k * BlockSize < Len(seq[r].history)
    BY <1>3, <2>5, BlocksAssumption
  <2> QED BY <1>1, <1>2, <1>4, <2>1, <2>3, <2>6
<1> QED BY <1>5, <1>6

\* The sequence at the front of the queue leaves it, with what of its prompt is
\* resident.
LEMMA ClaimKeeps ==
  ASSUME Inv, KVP!TypeInv', StartNextPrompt \/ Admit
  PROVE  Inv'
<1> DEFINE r == Head(waiting)
<1>1. /\ waiting # <<>> /\ PopAndClaim(r)
      /\ waiting' = Tail(waiting) /\ joining' = r
      /\ UNCHANGED <<seq, running, row, chosen, plan, chunk, kv, told>>
      /\ \/ pc = "slice" /\ pc' = "joining" /\ Partial = 0
         \/ pc = "admit" /\ pc' = "admitting"
  BY DEF StartNextPrompt, Admit, Admissible, PopAndClaim, settled
<1>2. /\ r \in ToSet(waiting) /\ waiting' \in Seq(Request) /\ IsInjective(waiting')
      /\ ToSet(waiting') = ToSet(waiting) \ {r}
  BY <1>1, TailOnce DEF Inv, Typed, Queues
<1>3. /\ r \in Request /\ table'[r].tokens < Len(seq[r].history)
      /\ \A q \in Request : q # r => table'[q] = table[q]
  BY <1>1, <1>2, ClaimShort
<1> HIDE DEF r
<1>4. /\ r \notin ToSet(running) /\ joining = Nobody /\ r # Nobody
      /\ ToSet(waiting) \cap ToSet(running) = {} /\ IsInjective(running)
      /\ running \in Seq(Request)
  BY <1>1, <1>2, <1>3, SchedulerAssumption DEF Inv, Typed, Queues
<1>5. plan = <<>> /\ pc \notin Passing /\ pc' \notin Passing
  BY <1>1 DEF Inv, PlanHolds, Passing
<1>6. Typed'
  BY <1>1, <1>2, <1>3 DEF Inv, Typed, PC
<1>7. Queues'
  <2>1. InHand' = InHand
    BY <1>1, <1>2, <1>4 DEF InHand
  <2>2. joining' # Nobody <=> pc' \in {"joining", "admitting"}
    BY <1>1, <1>4
  <2>3. /\ joining' \notin ToSet(waiting') \cup ToSet(running')
        /\ ToSet(waiting') \cap ToSet(running') = {}
    BY <1>1, <1>2, <1>4
  <2> QED BY <1>1, <1>2, <1>4, <2>1, <2>2, <2>3, MovedQueues
<1>8. OthersHoldNothing'
  <2>1. ASSUME NEW q \in Request, q \notin ToSet(running) \cup {r} PROVE table'[q] = NewTable
    <3>1. q # joining
      BY <1>4, SchedulerAssumption
    <3> QED BY <1>3, <2>1, <3>1 DEF Inv, OthersHoldNothing
  <2> QED BY <1>1, <2>1 DEF OthersHoldNothing
<1>9. Sequences'
  BY <1>1, <1>2 DEF Inv, Sequences, Fresh
<1>10. \A q \in ToSet(running) : q \in Request /\ q # r /\ table'[q] = table[q]
  BY <1>3, <1>4, ToSetMeans
<1>11. PlanHolds'
  <2>1. \A q \in ToSet(running') : Settled(q)'
    BY <1>1, <1>5, <1>10, AllSettled, LeftAlone
  <2> QED BY <1>1, <1>5, <2>1, NoPlanHolds
<1>12. ChosenHold'
  <2>1. CASE pc' = "joining"
    <3>1. pc = "slice"
      BY <1>1, <2>1
    <3>2. ASSUME NEW k \in DOMAIN chosen
          PROVE  table'[running[chosen[k]]] = table[running[chosen[k]]]
      <4>1. running[chosen[k]] \in ToSet(running)
        BY <1>4, <3>1, ToSetMeans DEF Inv, ChosenHold
      <4> QED BY <1>10, <4>1
    <3> QED BY <1>1, <2>1, <3>1, <3>2 DEF Inv, ChosenHold, Room
  <2>2. CASE pc' # "joining"
    BY <1>1, <2>2 DEF ChosenHold
  <2> QED BY <2>1, <2>2
<1>13. Starting'
  <2>1. pc' = "joining" => \A q \in ToSet(running) : seq[q].prompt_left = 0
    <3> SUFFICES ASSUME pc' = "joining", NEW q \in ToSet(running)
                 PROVE  seq[q].prompt_left = 0
      OBVIOUS
    <3>1. pc = "slice" /\ Partial = 0
      BY <1>1
    <3>2. seq[q].finish = "none"
      BY <1>10, <3>1 DEF Inv, Sequences
    <3> QED BY <3>1, <3>2, PartialMeans DEF Inv, Queues
  <2> QED BY <1>1, <1>3, <2>1 DEF Starting
<1>14. OnePartialPrompt'
  BY <1>1 DEF Inv, OnePartialPrompt
<1> QED BY <1>6, <1>7, <1>8, <1>9, <1>11, <1>12, <1>13, <1>14 DEF Inv

\* What the one that joins is, before it does.
LEMMA JoinerMeans ==
  ASSUME Inv, joining # Nobody
  PROVE  /\ joining \in Request /\ joining \notin ToSet(waiting) \cup ToSet(running)
         /\ Fresh(joining) /\ told[joining].submitted /\ told[joining].end = "none"
         /\ seq[joining].pending = seq[joining].history
         /\ Unshared \in Nat /\ Unshared > 0
         /\ table[joining].tokens + Unshared = Len(seq[joining].history)
<1>1. joining \in Request
  BY DEF Inv, Typed
<1>2. /\ joining \notin ToSet(waiting) \cup ToSet(running)
      /\ told[joining].submitted /\ told[joining].end = "none"
  BY <1>1 DEF Inv, Queues, InHand
<1>3. Fresh(joining) /\ seq[joining].pending = seq[joining].history
  BY <1>1 DEF Inv, Sequences, Fresh
<1>4. /\ table[joining].tokens \in Nat /\ Len(seq[joining].history) \in Nat
  BY <1>1, Numbers DEF Inv
<1>5. table[joining].tokens < Len(seq[joining].history)
  BY DEF Inv, Starting
<1>6. Unshared = Len(seq[joining].history) - table[joining].tokens
  BY <1>3 DEF Unshared
<1> QED BY <1>1, <1>2, <1>3, <1>4, <1>5, <1>6, SMTT(60)

\* What taking a seat among the residents keeps, when no pass carries the others.
LEMMA SeatedKeeps ==
  ASSUME Inv, NEW r \in Request, r = joining, NEW s \in Sequence,
         s.history = seq[r].history, s.finish = "none",
         s.prompt_tokens = seq[r].prompt_tokens, s.generated = seq[r].generated,
         seq' = [seq EXCEPT ![r] = s],
         running' = Append(running, r), joining' = Nobody,
         pc' \notin {"joining", "admitting"},
         \A q \in Request : q # r => table'[q] = table[q],
         UNCHANGED <<waiting, told>>
  PROVE  /\ seq' \in [Request -> Sequence] /\ seq'[r] = s
         /\ running' \in Seq(Request)
         /\ Len(running') = Len(running) + 1 /\ Len(running) \in Nat
         /\ \A i \in 1..Len(running) : running'[i] = running[i]
         /\ ToSet(running') = ToSet(running) \cup {r} /\ r \notin ToSet(running)
         /\ \A q \in ToSet(running) : q \in Request /\ q # r /\ seq'[q] = seq[q]
                                      /\ table'[q] = table[q]
         /\ Queues' /\ OthersHoldNothing' /\ Sequences' /\ Starting'
<1>1. r # Nobody /\ Nobody \notin Request
  BY SchedulerAssumption
<1>2. /\ r \notin ToSet(waiting) \cup ToSet(running)
      /\ told[r].submitted /\ told[r].end = "none"
  BY <1>1, JoinerMeans
<1>3. /\ waiting \in Seq(Request) /\ running \in Seq(Request)
      /\ seq \in [Request -> Sequence] /\ IsInjective(running) /\ IsInjective(waiting)
      /\ ToSet(waiting) \cap ToSet(running) = {}
      /\ Len(running) \in Nat
  BY DEF Inv, Typed, Queues
<1>4. /\ running' \in Seq(Request) /\ IsInjective(running')
      /\ ToSet(running') = ToSet(running) \cup {r}
  BY <1>2, <1>3, AppendNew
<1>5. Len(running') = Len(running) + 1 /\ \A i \in 1..Len(running) : running'[i] = running[i]
  BY <1>3
<1>6. /\ seq' \in [Request -> Sequence] /\ seq'[r] = s
      /\ \A q \in Request : q # r => seq'[q] = seq[q]
  BY <1>3
<1>7. \A q \in ToSet(running) : q \in Request /\ q # r /\ seq'[q] = seq[q]
                                /\ table'[q] = table[q]
  BY <1>2, <1>3, <1>6, ToSetMeans
<1>8. Queues'
  <2>1. InHand' = InHand
    BY <1>1, <1>4 DEF InHand
  <2>2. /\ joining' \notin ToSet(waiting') \cup ToSet(running')
        /\ ToSet(waiting') \cap ToSet(running') = {}
    <3>1. ToSet(waiting) \subseteq Request /\ ToSet(running') \subseteq Request
      BY <1>3, <1>4, ToSetMeans
    <3> QED BY <1>1, <1>2, <1>3, <1>4, <3>1
  <2>3. joining' # Nobody <=> pc' \in {"joining", "admitting"}
    OBVIOUS
  <2>4. IsInjective(waiting') /\ UNCHANGED told
    BY <1>3
  <2> QED BY <1>4, <2>1, <2>2, <2>3, <2>4, MovedQueues
<1>9. OthersHoldNothing'
  <2>1. ASSUME NEW q \in Request, q \notin ToSet(running') PROVE table'[q] = NewTable
    <3>1. q # r /\ q \notin ToSet(running) \cup {joining}
      BY <1>4, <2>1
    <3> QED BY <3>1 DEF Inv, OthersHoldNothing
  <2> QED BY <2>1 DEF OthersHoldNothing
<1>10. Sequences'
  <2>1. ASSUME NEW q \in Request
        PROVE  /\ seq'[q].prompt_tokens > 0
               /\ Len(seq'[q].history) = seq'[q].prompt_tokens + seq'[q].generated
               /\ q \in ToSet(waiting') \cup {joining'} \/ ~ told'[q].submitted => Fresh(q)'
               /\ q \in ToSet(running') /\ pc' \notin {"emit", "retire"}
                    => seq'[q].finish = "none"
    <3>1. CASE q = r
      <4>1. /\ seq[r].prompt_tokens > 0
            /\ Len(seq[r].history) = seq[r].prompt_tokens + seq[r].generated
        BY DEF Inv, Sequences
      <4> QED BY <1>1, <1>2, <1>6, <3>1, <4>1
    <3>2. CASE q # r
      <4>1. seq'[q] = seq[q] /\ (Fresh(q) => Fresh(q)')
        BY <1>6, <3>2 DEF Fresh
      <4>2. q \in ToSet(running) => seq[q].finish = "none"
        BY <1>1 DEF Inv, Queues, Sequences
      <4>3. q \in ToSet(running') <=> q \in ToSet(running)
        BY <1>4, <3>2
      <4>4. /\ q \in ToSet(waiting) \cup {joining'} \/ ~ told[q].submitted => Fresh(q)
            /\ seq[q].prompt_tokens > 0
            /\ Len(seq[q].history) = seq[q].prompt_tokens + seq[q].generated
        BY <1>1, <3>2 DEF Inv, Sequences
      <4> QED BY <4>1, <4>2, <4>3, <4>4
    <3> QED BY <3>1, <3>2
  <2> QED BY <2>1 DEF Sequences
<1>11. Starting'
  BY DEF Starting
<1> QED BY <1>2, <1>3, <1>4, <1>5, <1>6, <1>7, <1>8, <1>9, <1>10, <1>11

\* A prompt that has its first block is a resident, with all that was not
\* resident of it still to run.
LEMMA JoinKeeps == ASSUME Inv, KVP!TypeInv', Join PROVE Inv'
<1>0. PICK r \in Request : r = joining
  BY DEF Join, Inv, Typed, Queues
<1> DEFINE left == AtLeast(Unshared, 1)
           t == [seq[r] EXCEPT !.prompt_left = left]
           s == [t EXCEPT !.pending = <<>>]
<1>1. /\ pc = "joining" /\ pc' = "slice"
      /\ IF Needs(r, 1) THEN TakeBlock(r) ELSE UNCHANGED <<pool, table>>
      /\ seq' = [seq EXCEPT ![r].prompt_left = left, ![r].pending = <<>>]
      /\ running' = Append(running, r) /\ joining' = Nobody
      /\ UNCHANGED <<waiting, row, chosen, plan, chunk, kv, told>>
  BY <1>0 DEF Join, settled
<1>2. joining # Nobody
  BY <1>1 DEF Inv, Queues
<1>3. /\ r \in Request /\ r \notin ToSet(running) /\ Fresh(r)
      /\ left = Unshared /\ left \in Nat /\ left > 0
      /\ table[r].tokens + left = Len(seq[r].history)
  BY <1>0, <1>2, JoinerMeans DEF AtLeast
<1>4. seq \in [Request -> Sequence] /\ seq[r] \in Sequence
  BY <1>3 DEF Inv, Typed
<1>5. TakeBlock(r) \/ UNCHANGED <<pool, table>>
  BY <1>1
<1> HIDE DEF left
<1>6. /\ t \in Sequence /\ t.history = seq[r].history /\ t.finish = seq[r].finish
      /\ t.prompt_tokens = seq[r].prompt_tokens /\ t.generated = seq[r].generated
      /\ t.prompt_left = left
  BY <1>3, <1>4 DEF Sequence
<1> HIDE DEF t
<1>7. /\ s \in Sequence /\ s.history = seq[r].history /\ s.finish = "none"
      /\ s.prompt_tokens = seq[r].prompt_tokens /\ s.generated = seq[r].generated
      /\ s.prompt_left = left /\ s.pending = <<>>
  <2>1. seq[r].finish = "none"
    BY <1>3 DEF Fresh
  <2>2. <<>> \in Seq(Token)
    BY EmptySeq
  <2> QED BY <1>6, <2>1, <2>2 DEF Sequence
<1>8. seq' = [seq EXCEPT ![r] = s]
  BY <1>1, <1>3, <1>4 DEF t
<1> HIDE DEF s
<1>9. \A q \in Request : /\ table'[q].tokens = table[q].tokens
                         /\ Capacity(table'[q]) \in Nat
                         /\ Capacity(table'[q]) >= Capacity(table[q])
                         /\ q # r => table'[q] = table[q]
  BY <1>3, <1>5, GrewOrNot DEF Inv
<1>10. /\ seq' \in [Request -> Sequence] /\ seq'[r] = s
       /\ running' \in Seq(Request)
       /\ Len(running') = Len(running) + 1 /\ Len(running) \in Nat
       /\ \A i \in 1..Len(running) : running'[i] = running[i]
       /\ ToSet(running') = ToSet(running) \cup {r}
       /\ \A q \in ToSet(running) : q \in Request /\ q # r /\ seq'[q] = seq[q]
                                    /\ table'[q] = table[q]
       /\ Queues' /\ OthersHoldNothing' /\ Sequences' /\ Starting'
  <2>1. \A q \in Request : q # r => table'[q] = table[q]
    BY <1>9
  <2>2. running' = Append(running, r) /\ joining' = Nobody /\ UNCHANGED <<waiting, told>>
        /\ pc' \notin {"joining", "admitting"}
    BY <1>1
  <2> QED BY <1>0, <1>3, <1>7, <1>8, <2>1, <2>2, SeatedKeeps
<1>11. Typed'
  BY <1>1, <1>10 DEF Inv, Typed, PC
<1>12. PlanHolds'
  <2>1. Slicing(r)'
    BY <1>3, <1>7, <1>9, <1>10 DEF Slicing
  <2>2. \A q \in ToSet(running) : Settled(q)
    BY <1>1, AllSettled DEF Passing
  <2>3. ASSUME NEW q \in ToSet(running') PROVE Settled(q)'
    <3>1. CASE q = r
      BY <2>1, <3>1 DEF Settled
    <3>2. CASE q # r
      <4>1. q \in ToSet(running)
        BY <1>10, <3>2
      <4> QED BY <1>10, <2>2, <4>1, LeftAlone
    <3> QED BY <3>1, <3>2
  <2>4. plan' = <<>>
    BY <1>1 DEF Inv, PlanHolds, Passing
  <2> QED BY <1>1, <2>3, <2>4, NoPlanHolds DEF Passing
<1>13. ChosenHold'
  <2>1. ASSUME NEW k \in DOMAIN chosen
        PROVE  /\ chosen[k] \in DOMAIN running'
               /\ Len(seq'[running'[chosen[k]]].pending) = 1
               /\ table'[running'[chosen[k]]].tokens < Capacity(table'[running'[chosen[k]]])
    <3>1. chosen[k] \in 1..Len(running) /\ Len(seq[running[chosen[k]]].pending) = 1
      BY <1>1 DEF Inv, ChosenHold, Typed
    <3>2. running'[chosen[k]] = running[chosen[k]] /\ chosen[k] \in DOMAIN running'
      BY <1>10, <3>1
    <3>3. table'[running[chosen[k]]].tokens < Capacity(table'[running[chosen[k]]])
      BY <1>1, <1>9, ChosenGrown
    <3>4. seq'[running[chosen[k]]] = seq[running[chosen[k]]]
      <4>1. running[chosen[k]] \in ToSet(running)
        BY <3>1, ToSetMeans DEF Inv, Typed
      <4> QED BY <1>10, <4>1
    <3> QED BY <3>1, <3>2, <3>3, <3>4
  <2>2. Room' > 0 /\ IsInjective(chosen)
    BY <1>1 DEF Inv, ChosenHold, Room
  <2> QED BY <1>1, <2>1, <2>2 DEF ChosenHold
<1>14. OnePartialPrompt'
  <2>1. \A q \in ToSet(running) : seq'[q].prompt_left = 0
    BY <1>1, <1>10 DEF Inv, Starting
  <2> QED BY <1>10, <2>1 DEF OnePartialPrompt
<1> QED BY <1>10, <1>11, <1>12, <1>13, <1>14 DEF Inv

\* A planned row is ahead when its value is.
LEMMA AheadNext ==
  ASSUME NEW w, NEW k, plan'[k] = w, Ahead(w)'
  PROVE  Ahead(plan[k])'
BY DEF Ahead

\* A whole prompt is planned as one row, from where the resident part ends.
LEMMA PlanPrefillKeeps == ASSUME Inv, KVP!TypeInv', PlanPrefill PROVE Inv'
<1>0. PICK r \in Request : r = joining
  BY DEF PlanPrefill, Inv, Typed, Queues
<1>a. PICK h, at : h = seq[r].history /\ at = table[r].tokens
  OBVIOUS
<1>b. PICK w : w = [id |-> r, pos |-> at, tokens |-> SubSeq(h, at + 1, Len(h)),
                      predicts |-> TRUE]
  OBVIOUS
<1> DEFINE s == [seq[r] EXCEPT !.pending = <<>>]
<1>1. /\ pc = "admitting" /\ pc' = "planned"
      /\ ~ Needs(r, Unshared)
      /\ plan' = <<[id |-> r, pos |-> at,
                    tokens |-> SubSeq(seq[r].pending, at + 1, Len(seq[r].pending)),
                    predicts |-> TRUE]>>
      /\ seq' = [seq EXCEPT ![r].pending = <<>>]
      /\ running' = Append(running, r) /\ joining' = Nobody
      /\ UNCHANGED <<pool, table, waiting, row, chosen, chunk, kv, told>>
  BY <1>0, <1>a DEF PlanPrefill, settled
<1>2. joining # Nobody
  BY <1>1 DEF Inv, Queues
<1>3. /\ r \in Request /\ r \notin ToSet(running) /\ Fresh(r)
      /\ seq[r].pending = h /\ Unshared \in Nat /\ Unshared > 0
      /\ at + Unshared = Len(h)
  BY <1>0, <1>a, <1>2, JoinerMeans
<1>4. /\ seq \in [Request -> Sequence] /\ seq[r] \in Sequence
      /\ at \in Nat /\ h \in Seq(Token) /\ Len(h) \in Nat
      /\ table[r] \in Table /\ WellFormed(table[r]) /\ Capacity(table[r]) \in Nat
  BY <1>a, <1>3, Numbers DEF Inv, Typed
<1>5. Len(h) <= Capacity(table[r])
  BY <1>a, <1>1, <1>3, <1>4, NeedsMeans DEF Needs
<1>6. plan' = <<w>>
  BY <1>b, <1>1, <1>3
<1>c. w.id = r /\ w.pos = at /\ w.tokens = SubSeq(h, at + 1, Len(h))
      /\ w.predicts = TRUE
  BY <1>b
<1>7. /\ s \in Sequence /\ s.history = h /\ s.finish = "none"
      /\ s.prompt_tokens = seq[r].prompt_tokens /\ s.generated = seq[r].generated
      /\ s.prompt_left = 0 /\ s.pending = <<>>
  <2>1. seq[r].finish = "none" /\ seq[r].prompt_left = 0
    BY <1>3 DEF Fresh
  <2>2. <<>> \in Seq(Token)
    BY EmptySeq
  <2> QED BY <1>a, <1>4, <2>1, <2>2 DEF Sequence
<1>8. seq' = [seq EXCEPT ![r] = s]
  BY <1>1, <1>3, <1>4
<1> HIDE DEF s
<1>9. /\ seq' \in [Request -> Sequence] /\ seq'[r] = s
      /\ running' \in Seq(Request)
      /\ ToSet(running') = ToSet(running) \cup {r}
      /\ \A q \in ToSet(running) : q \in Request /\ q # r /\ seq'[q] = seq[q]
                                   /\ table'[q] = table[q]
      /\ Queues' /\ OthersHoldNothing' /\ Sequences' /\ Starting'
  <2>1. \A q \in Request : q # r => table'[q] = table[q]
    BY <1>1
  <2>2. running' = Append(running, r) /\ joining' = Nobody /\ UNCHANGED <<waiting, told>>
        /\ pc' \notin {"joining", "admitting"}
    BY <1>1
  <2> QED BY <1>0, <1>a, <1>3, <1>7, <1>8, <2>1, <2>2, SeatedKeeps
<1>10. /\ w.tokens \in Seq(Token) /\ Len(w.tokens) = Unshared
       /\ at + Len(w.tokens) = Len(h)
  <2>1. SubSeq(h, at + 1, Len(h)) \in Seq(Token)
        /\ Len(SubSeq(h, at + 1, Len(h))) = Len(h) - at
    <3>1. at + 1 \in 1..(Len(h) + 1)
      BY <1>3, <1>4
    <3> QED BY <1>4, <3>1, SubSeqProperties
  <2> QED BY <1>3, <1>4, <1>c, <2>1
<1>11. w \in Row
  BY <1>b, <1>3, <1>4, <1>10 DEF Row
<1>12. Typed'
  <2>1. plan' \in Seq(Row)
    BY <1>6, <1>11
  <2> QED BY <1>1, <1>9, <2>1 DEF Inv, Typed, PC
<1>13. Ahead(w)'
  <2>1. table'[r] = table[r] /\ seq'[r].history = h /\ seq'[r].prompt_left = 0
    BY <1>1, <1>7, <1>9
  <2>2. /\ Len(w.tokens) > 0 /\ at + Len(w.tokens) <= Capacity(table[r])
        /\ at + Len(w.tokens) <= Len(h)
        /\ w.tokens = SubSeq(h, at + 1, at + Len(w.tokens))
    BY <1>3, <1>4, <1>5, <1>c, <1>10
  <2> QED BY <1>a, <1>c, <1>10, <2>1, <2>2 DEF Ahead
<1>14. /\ DOMAIN plan' = {1} /\ plan'[1] = w
  BY <1>6
<1>16. PlanHolds'
  <2>1. \A q \in ToSet(running) : Settled(q)
    BY <1>1, AllSettled DEF Passing
  <2>2. ASSUME NEW q \in ToSet(running') PROVE Aboard(q)' \/ Settled(q)'
    <3>1. CASE q = r
      BY <1>1, <1>14, <1>c, <3>1 DEF Aboard, Passing
    <3>2. CASE q # r
      <4>1. q \in ToSet(running)
        BY <1>9, <3>2
      <4> QED BY <1>9, <2>1, <4>1, LeftAlone
    <3> QED BY <3>1, <3>2
  <2>3. ASSUME NEW k \in DOMAIN plan'
        PROVE  /\ \A j \in DOMAIN plan' : plan'[j].id = plan'[k].id => j = k
               /\ plan'[k].id \in ToSet(running')
               /\ Ahead(plan[k])'
    <3>1. k = 1 /\ plan'[k] = w /\ \A j \in DOMAIN plan' : j = k
      BY <1>14
    <3> QED BY <1>9, <1>13, <1>c, <3>1, AheadNext
  <2>4. pc' = "planned"
    BY <1>1
  <2> QED BY <2>2, <2>3, <2>4 DEF PlanHolds, Passing
<1>17. ChosenHold'
  BY <1>1 DEF ChosenHold
<1>18. OnePartialPrompt'
  BY <1>7, <1>9 DEF Inv, OnePartialPrompt
<1> QED BY <1>9, <1>12, <1>16, <1>17, <1>18 DEF Inv

-----------------------------------------------------------------------------
(* The invariant is kept: the pass is planned.                             *)

\* A row that was chosen runs the last token its sequence knows, in a slot it has.
LEMMA DecodeRowAhead ==
  ASSUME Inv, pc \in {"slice", "decode"}, NEW k \in DOMAIN chosen,
         NEW w, w = DecodeRow(chosen[k])
  PROVE  /\ w \in Row /\ Ahead(w)
         /\ chosen[k] \in DOMAIN running /\ w.id = running[chosen[k]]
         /\ w.id \in Request /\ w.id \in ToSet(running) /\ seq[w.id].pending # <<>>
<1>1. PICK r : r = running[chosen[k]]
  OBVIOUS
<1>2. /\ chosen[k] \in DOMAIN running /\ Len(seq[r].pending) = 1
      /\ table[r].tokens < Capacity(table[r])
  BY <1>1 DEF Inv, ChosenHold
<1>3. r \in Request /\ r \in ToSet(running)
  BY <1>1, <1>2, ToSetMeans DEF Inv, Typed
<1>4. /\ table[r].tokens \in Nat /\ Capacity(table[r]) \in Nat
      /\ seq[r].history \in Seq(Token) /\ Len(seq[r].history) \in Nat
      /\ seq[r].pending \in Seq(Token)
  BY <1>3, Numbers DEF Inv
<1>5. Settled(r)
  BY <1>3, AllSettled DEF Passing
<1>6. Len(<<>>) = 0
  OBVIOUS
<1>7. /\ seq[r].prompt_left = 0
      /\ seq[r].pending[1] = seq[r].history[Len(seq[r].history)]
      /\ table[r].tokens + 1 = Len(seq[r].history)
  BY <1>2, <1>5, <1>6 DEF Settled, Decoding, Slicing
<1>8. w = [id |-> r, pos |-> table[r].tokens, tokens |-> seq[r].pending, predicts |-> TRUE]
  BY <1>1 DEF DecodeRow
<1>9. w.id = r /\ w.pos = table[r].tokens /\ w.tokens = seq[r].pending /\ w.predicts = TRUE
  BY <1>8
<1>10. w \in Row
  BY <1>3, <1>4, <1>8 DEF Row
<1>11. seq[r].pending = SubSeq(seq[r].history, table[r].tokens + 1, table[r].tokens + 1)
  <2>1. PICK n \in Nat : n = table[r].tokens
    BY <1>4
  <2>2. PICK h \in Seq(Token) : h = seq[r].history
    BY <1>4
  <2>3. PICK p \in Seq(Token) : p = seq[r].pending
    BY <1>4
  <2>4. Len(p) = 1 /\ p[1] = h[n + 1] /\ n + 1 = Len(h)
    BY <1>2, <1>7, <2>1, <2>2, <2>3
  <2>5. SubSeq(h, n + 1, n + 1) \in Seq(Token) /\ Len(SubSeq(h, n + 1, n + 1)) = 1
        /\ SubSeq(h, n + 1, n + 1)[1] = h[n + 1]
    BY <2>4
  <2>6. p = SubSeq(h, n + 1, n + 1)
    BY <2>4, <2>5
  <2> QED BY <2>1, <2>2, <2>3, <2>6
<1>12. Ahead(w)
  <2>1. Len(w.tokens) = 1
    BY <1>2, <1>9
  <2>2. table[r].tokens + 1 <= Capacity(table[r])
    BY <1>2, <1>4
  <2>3. /\ w.pos + Len(w.tokens) = Len(seq[w.id].history) /\ Len(w.tokens) > 0
        /\ w.pos = table[w.id].tokens
        /\ w.pos + Len(w.tokens) <= Capacity(table[w.id])
    BY <1>4, <1>7, <1>9, <2>1, <2>2
  <2>4. w.tokens = SubSeq(seq[w.id].history, w.pos + 1, w.pos + Len(w.tokens))
    BY <1>9, <1>11, <2>1
  <2>5. seq[w.id].prompt_left = 0 /\ Len(seq[w.id].history) \in Nat
    BY <1>4, <1>7, <1>9
  <2> QED BY <1>9, <2>3, <2>4, <2>5 DEF Ahead
<1>13. seq[r].pending # <<>>
  <2>1. 1 # 0
    OBVIOUS
  <2>2. Len(seq[r].pending) # Len(<<>>)
    BY <1>2, <1>6, <2>1, ZenonT(60)
  <2> QED BY <2>2, ZenonT(60)
<1> QED BY <1>1, <1>2, <1>3, <1>9, <1>10, <1>12, <1>13

\* The decode rows of a pass: one for each index chosen, of different sequences.
LEMMA DecodeRowsHold ==
  ASSUME Inv, pc \in {"slice", "decode"}
  PROVE  /\ DecodeRows \in Seq(Row)
         /\ DOMAIN DecodeRows = DOMAIN chosen
         /\ \A k \in DOMAIN chosen :
              /\ DecodeRows[k] = DecodeRow(chosen[k])
              /\ \A j \in DOMAIN chosen :
                   DecodeRows[j].id = DecodeRows[k].id => j = k
<1>1. DOMAIN chosen = 1..Len(chosen) /\ Len(chosen) \in Nat
  BY DEF Inv, Typed
<1>2. \A k \in DOMAIN chosen : DecodeRows[k] = DecodeRow(chosen[k]) /\ DecodeRow(chosen[k]) \in Row
  BY DecodeRowAhead DEF DecodeRows
<1>3. DecodeRows \in Seq(Row) /\ DOMAIN DecodeRows = DOMAIN chosen
  BY <1>1, <1>2 DEF DecodeRows
<1>4. ASSUME NEW k \in DOMAIN chosen, NEW j \in DOMAIN chosen,
             DecodeRows[j].id = DecodeRows[k].id
      PROVE  j = k
  <2>1. /\ running[chosen[j]] = running[chosen[k]]
        /\ chosen[j] \in DOMAIN running /\ chosen[k] \in DOMAIN running
    BY <1>2, <1>4, DecodeRowAhead
  <2>2. chosen[j] = chosen[k]
    BY <2>1 DEF Inv, Queues, IsInjective
  <2> QED BY <2>2 DEF Inv, ChosenHold, IsInjective
<1> QED BY <1>2, <1>3, <1>4

\* A pass that was planned from rows that are ahead, of different residents.
LEMMA PlannedHolds ==
  ASSUME Inv, pc \notin Passing, pc' = "planned",
         UNCHANGED <<table, seq, running>>,
         \A k \in DOMAIN plan' :
            /\ \A j \in DOMAIN plan' : plan'[j].id = plan'[k].id => j = k
            /\ plan'[k].id \in ToSet(running) /\ Ahead(plan'[k])
  PROVE  PlanHolds'
<1>1. \A r \in ToSet(running') : Settled(r)'
  BY AllSettled DEF Settled, Decoding, Slicing
<1>2. \A k \in DOMAIN plan' : Ahead(plan[k])'
  BY DEF Ahead
<1> QED BY <1>1, <1>2 DEF PlanHolds, Passing

\* decode plans a pass of decode rows, or none at all.
LEMMA PlanDecodeKeeps == ASSUME Inv, KVP!TypeInv', PlanDecode PROVE Inv'
<1>1. /\ pc = "decode" /\ pc' = (IF chosen = <<>> THEN "parked" ELSE "planned")
      /\ plan' = DecodeRows
      /\ UNCHANGED <<pool, table, seq, waiting, running, joining, row, chosen,
                     chunk, kv, told>>
  BY DEF PlanDecode, settled
<1>2. /\ plan' \in Seq(Row) /\ DOMAIN plan' = DOMAIN chosen
      /\ \A k \in DOMAIN chosen :
           /\ plan'[k] = DecodeRow(chosen[k])
           /\ \A j \in DOMAIN chosen : plan'[j].id = plan'[k].id => j = k
  BY <1>1, DecodeRowsHold
<1>3. Typed'
  BY <1>1, <1>2 DEF Inv, Typed, PC
<1>4. Queues' /\ OthersHoldNothing' /\ Sequences' /\ Starting' /\ OnePartialPrompt'
      /\ ChosenHold'
  BY <1>1 DEF Inv, Queues, InHand, OthersHoldNothing, Sequences, Fresh, Starting,
              OnePartialPrompt, ChosenHold
<1>5. PlanHolds'
  <2>1. CASE chosen = <<>>
    <3>1. plan' = <<>>
      <4>1. DOMAIN plan' = 1..Len(plan') /\ Len(plan') \in Nat
        BY <1>2
      <4>2. DOMAIN plan' = {}
        BY <1>2, <2>1
      <4>3. ~ (Len(plan') >= 1)
        BY <4>1, <4>2
      <4>4. Len(plan') = 0
        BY <4>1, <4>3
      <4> QED BY <1>2, <4>4
    <3>2. \A r \in ToSet(running') : Settled(r)'
      BY <1>1, AllSettled DEF Settled, Decoding, Slicing, Passing
    <3> QED BY <1>1, <2>1, <3>1, <3>2, NoPlanHolds DEF Passing
  <2>2. CASE chosen # <<>>
    <3>1. \A k \in DOMAIN plan' :
            /\ \A j \in DOMAIN plan' : plan'[j].id = plan'[k].id => j = k
            /\ plan'[k].id \in ToSet(running) /\ Ahead(plan'[k])
      BY <1>1, <1>2, DecodeRowAhead
    <3> QED BY <1>1, <2>2, <3>1, PlannedHolds DEF Passing
  <2> QED BY <2>1, <2>2
<1> QED BY <1>3, <1>4, <1>5 DEF Inv

\* The tokens of a sequence from one position on.
LEMMA TokensFrom ==
  ASSUME NEW h \in Seq(Token), NEW at \in Nat, NEW take \in Nat, take > 0,
         at + take <= Len(h)
  PROVE  /\ SubSeq(h, at + 1, at + take) \in Seq(Token)
         /\ Len(SubSeq(h, at + 1, at + take)) = take
<1>1. Len(h) \in Nat /\ \A i \in (at + 1)..(at + take) : h[i] \in Token
  OBVIOUS
<1>2. at + 1 \in Int /\ at + take \in Int
  OBVIOUS
<1> QED BY <1>1, <1>2, SubSeqProperties

\* A slice of the prompt part-way through: the next of its tokens that have slots.
LEMMA SliceMeans ==
  ASSUME Inv, pc = "slice", Partial # 0, NEW r \in Request, r = running[Partial],
         NEW take, take = AtMost(Want, Capacity(table[r]) - table[r].tokens), take # 0
  PROVE  /\ r \in ToSet(running) /\ seq[r].pending = <<>>
         /\ take \in Nat /\ take > 0
         /\ table[r].tokens \in Nat
         /\ seq[r].history \in Seq(Token) /\ Len(seq[r].history) \in Nat
         /\ seq[r].prompt_left \in Nat
         /\ table[r].tokens + seq[r].prompt_left = Len(seq[r].history)
         /\ table[r].tokens + take <= Capacity(table[r])
         /\ table[r].tokens + take <= Len(seq[r].history)
         /\ (table[r].tokens + take = Len(seq[r].history) <=> take = seq[r].prompt_left)
<1>1. /\ r \in ToSet(running) /\ seq[r].prompt_left > 0
  BY PartialMeans DEF Inv, Queues
<1>2. /\ table[r].tokens \in Nat /\ Capacity(table[r]) \in Nat
      /\ table[r].tokens <= Capacity(table[r])
      /\ seq[r].history \in Seq(Token) /\ Len(seq[r].history) \in Nat
      /\ seq[r].prompt_left \in Nat
  BY Numbers DEF Inv
<1>3. Settled(r)
  BY <1>1, AllSettled DEF Passing
<1>4. seq[r].pending = <<>> /\ table[r].tokens + seq[r].prompt_left = Len(seq[r].history)
  BY <1>1, <1>2, <1>3 DEF Settled, Decoding, Slicing
<1>5. Room \in Int /\ Room > 0
  BY DEF Inv, Typed, ChosenHold, Room
<1>6. Want = AtMost(Room, seq[r].prompt_left)
  BY DEF Want
<1>7. PICK at, cap, left, len :
        /\ at = table[r].tokens /\ cap = Capacity(table[r])
        /\ left = seq[r].prompt_left /\ len = Len(seq[r].history)
  OBVIOUS
<1>8. /\ at \in Nat /\ cap \in Nat /\ at <= cap /\ left \in Nat /\ left > 0
      /\ len \in Nat /\ at + left = len
  BY <1>1, <1>2, <1>4, <1>7
<1>9. Want = AtMost(Room, left) /\ take = AtMost(Want, cap - at)
  BY <1>6, <1>7
<1>10. /\ take \in Nat /\ take > 0 /\ take <= left /\ at + take <= cap
       /\ at + take <= len /\ (at + take = len <=> take = left)
  <2>1. Want \in Nat /\ Want > 0 /\ Want <= left
    BY <1>5, <1>8, <1>9 DEF AtMost
  <2>2. take \in Nat /\ take <= Want /\ take <= cap - at
    BY <1>8, <1>9, <2>1, SMTT(60) DEF AtMost
  <2> QED BY <1>8, <2>1, <2>2
<1> QED BY <1>1, <1>2, <1>4, <1>7, <1>10

\* As a row it continues its sequence, and predicts if it is the last.
LEMMA SliceAhead ==
  ASSUME Inv, pc = "slice", Partial # 0, NEW r \in Request, r = running[Partial],
         NEW done, done = Len(seq[r].history) - seq[r].prompt_left,
         NEW take, take = AtMost(Want, Capacity(table[r]) - table[r].tokens), take # 0,
         NEW w, w = [id |-> r, pos |-> done,
                     tokens |-> SubSeq(seq[r].history, done + 1, done + take),
                     predicts |-> take = seq[r].prompt_left]
  PROVE  w \in Row /\ Ahead(w) /\ r \in ToSet(running) /\ seq[r].pending = <<>>
<1>1. PICK h, at, left : h = seq[r].history /\ at = table[r].tokens
                        /\ left = seq[r].prompt_left
  OBVIOUS
<1>2. /\ r \in ToSet(running) /\ seq[r].pending = <<>>
      /\ take \in Nat /\ take > 0 /\ at \in Nat
      /\ h \in Seq(Token) /\ Len(h) \in Nat /\ left \in Nat /\ at + left = Len(h)
      /\ at + take <= Capacity(table[r]) /\ at + take <= Len(h)
      /\ (at + take = Len(h) <=> take = left)
  BY <1>1, SliceMeans
<1>3. done = at /\ left = Len(h) - at
  <2>1. PICK len \in Nat : len = Len(h)
    BY <1>2
  <2>2. done = len - left
    BY <1>1, <2>1
  <2>3. at + left = len /\ at \in Nat /\ left \in Nat
    BY <1>2, <2>1
  <2>4. len - left = at /\ left = len - at
    BY <2>3
  <2> QED BY <2>1, <2>2, <2>4
<1>4. /\ SubSeq(h, at + 1, at + take) \in Seq(Token)
      /\ Len(SubSeq(h, at + 1, at + take)) = take
  BY <1>2, TokensFrom, SMTT(60)
<1>5. /\ w.id = r /\ w.pos = at /\ w.tokens = SubSeq(h, at + 1, at + take)
      /\ (w.predicts <=> take = left) /\ w.predicts \in BOOLEAN
  BY <1>1, <1>3
<1>6. w \in Row
  BY <1>1, <1>2, <1>3, <1>4, ZenonT(30) DEF Row
<1>7. Ahead(w)
  <2>1. /\ Len(w.tokens) > 0 /\ w.pos = table[w.id].tokens
        /\ w.pos + Len(w.tokens) <= Capacity(table[w.id])
        /\ w.pos + Len(w.tokens) <= Len(seq[w.id].history)
        /\ w.tokens = SubSeq(seq[w.id].history, w.pos + 1, w.pos + Len(w.tokens))
        /\ (w.predicts <=> w.pos + Len(w.tokens) = Len(seq[w.id].history))
    BY <1>1, <1>2, <1>4, <1>5, ZenonT(60)
  <2>2. seq[w.id].prompt_left = Len(seq[w.id].history) - w.pos /\ seq[w.id].pending = <<>>
    BY <1>1, <1>2, <1>3, <1>5, Zenon
  <2> QED BY <2>1, <2>2, Zenon DEF Ahead
<1> QED BY <1>2, <1>6, <1>7

\* mixed adds its slice behind the decode rows, or goes on to decode.
LEMMA PlanMixedKeeps == ASSUME Inv, KVP!TypeInv', PlanMixed PROVE Inv'
<1>0. PICK r : r = running[Partial]
  OBVIOUS
<1>a. PICK done, take :
        /\ done = Len(seq[r].history) - seq[r].prompt_left
        /\ take = AtMost(Want, Capacity(table[r]) - table[r].tokens)
  OBVIOUS
<1>b. PICK w : w = [id |-> r, pos |-> done,
                    tokens |-> SubSeq(seq[r].history, done + 1, done + take),
                    predicts |-> take = seq[r].prompt_left]
  OBVIOUS
<1>1. /\ pc = "slice" /\ Partial # 0
      /\ UNCHANGED <<pool, table, seq, waiting, running, joining, chunk, kv, told>>
      /\ IF take = 0
         THEN ToDecode /\ UNCHANGED plan
         ELSE /\ plan' = Append(DecodeRows, w)
              /\ pc' = "planned" /\ UNCHANGED <<row, chosen>>
  BY <1>0, <1>a, <1>b DEF PlanMixed, settled
<1>2. r \in Request
  BY <1>0, <1>1, PartialMeans DEF Inv, Queues
<1>4. Queues' /\ OthersHoldNothing' /\ Sequences' /\ Starting' /\ OnePartialPrompt'
      /\ ChosenHold'
  BY <1>1 DEF ToDecode, Inv, Queues, InHand, OthersHoldNothing, Sequences, Fresh,
              Starting, OnePartialPrompt, ChosenHold, IsInjective
<1>5. CASE take = 0
  <2>1. ToDecode /\ UNCHANGED plan
    BY <1>1, <1>5
  <2>2. plan = <<>>
    BY <1>1 DEF Inv, PlanHolds, Passing
  <2>3. Typed'
    BY <1>1, <2>1, EmptySeq DEF ToDecode, Inv, Typed, PC
  <2>4. \A q \in ToSet(running') : Settled(q)'
    BY <1>1, AllSettled DEF Settled, Decoding, Slicing, Passing
  <2>5. PlanHolds'
    BY <2>1, <2>2, <2>4, NoPlanHolds DEF ToDecode, Passing
  <2> QED BY <1>4, <2>3, <2>5 DEF Inv
<1>6. CASE take # 0
  <2>1. plan' = Append(DecodeRows, w) /\ pc' = "planned" /\ UNCHANGED <<row, chosen>>
    BY <1>1, <1>6
  <2>2. w \in Row /\ Ahead(w) /\ r \in ToSet(running) /\ seq[r].pending = <<>> /\ w.id = r
    BY <1>0, <1>a, <1>b, <1>1, <1>2, <1>6, SliceAhead, ZenonT(60)
  <2>3. /\ DecodeRows \in Seq(Row) /\ DOMAIN DecodeRows = DOMAIN chosen
        /\ \A k \in DOMAIN chosen :
             /\ DecodeRows[k] = DecodeRow(chosen[k])
             /\ \A j \in DOMAIN chosen :
                  DecodeRows[j].id = DecodeRows[k].id => j = k
    BY <1>1, DecodeRowsHold
  <2>4. PICK n \in Nat : n = Len(DecodeRows) /\ DOMAIN chosen = 1..n
    BY <2>3
  <2>5. /\ plan' \in Seq(Row) /\ DOMAIN plan' = 1..(n + 1)
        /\ plan'[n + 1] = w /\ \A k \in 1..n : plan'[k] = DecodeRows[k]
    BY <2>1, <2>2, <2>3, <2>4
  <2>6. Typed'
    BY <1>1, <2>1, <2>5 DEF Inv, Typed, PC
  <2>7. \A k \in 1..n : /\ plan'[k].id \in ToSet(running) /\ Ahead(plan'[k])
                        /\ plan'[k].id # r
    BY <1>1, <2>2, <2>3, <2>4, <2>5, DecodeRowAhead
  <2>8. ASSUME NEW k \in DOMAIN plan'
        PROVE  /\ \A j \in DOMAIN plan' : plan'[j].id = plan'[k].id => j = k
               /\ plan'[k].id \in ToSet(running) /\ Ahead(plan'[k])
    <3>1. CASE k = n + 1
      BY <2>2, <2>5, <2>7, <3>1
    <3>2. CASE k \in 1..n
      <4>1. ASSUME NEW j \in DOMAIN plan', plan'[j].id = plan'[k].id PROVE j = k
        <5>1. j \in 1..n
          BY <2>2, <2>5, <2>7, <3>2, <4>1
        <5> QED BY <2>3, <2>4, <2>5, <3>2, <4>1, <5>1
      <4> QED BY <2>7, <3>2, <4>1
    <3> QED BY <2>5, <3>1, <3>2
  <2>9. PlanHolds'
    BY <1>1, <2>1, <2>8, PlannedHolds DEF Passing
  <2> QED BY <1>4, <2>6, <2>9 DEF Inv
<1> QED BY <1>5, <1>6

-----------------------------------------------------------------------------
(* The invariant is kept: the pass runs, or fails.                         *)

\* The model writes the cache and nothing else; then the loop starts.
LEMMA PassKeeps ==
  ASSUME Inv, KVP!TypeInv', Pass \/ PassFails
  PROVE  Inv'
<1>1. /\ pc = "planned" /\ pc' \in {"advance", "abort"} /\ row' = 1
      /\ UNCHANGED <<chunk, pool, table, seq, waiting, running, joining, chosen, plan, told>>
  BY DEF Pass, PassFails
<1>2. Typed'
  BY <1>1 DEF Inv, Typed, PC
<1>3. Queues' /\ OthersHoldNothing' /\ Sequences' /\ Starting' /\ OnePartialPrompt'
      /\ ChosenHold'
  BY <1>1 DEF Inv, Queues, InHand, OthersHoldNothing, Sequences, Fresh,
              Starting, OnePartialPrompt, ChosenHold
<1>4. PlanHolds'
  <2>1. \A k \in DOMAIN plan : k >= 1 /\ ~ (k < 1)
    BY DEF Inv, Typed
  <2>2. ASSUME NEW k \in DOMAIN plan'
        PROVE  /\ k \in DOMAIN plan /\ k >= row' /\ ~ (k < row')
               /\ \A j \in DOMAIN plan' : plan'[j].id = plan'[k].id => j = k
               /\ plan'[k].id \in ToSet(running') /\ Ahead(plan[k])'
    BY <1>1, <2>1 DEF Inv, PlanHolds, Passing, Ahead
  <2>3. ASSUME NEW q \in ToSet(running') PROVE Aboard(q)' \/ Settled(q)'
    <3>1. CASE Aboard(q)
      BY <1>1, <2>1, <3>1 DEF Aboard, Passing
    <3>2. CASE Settled(q)
      BY <1>1, <3>2 DEF Settled, Decoding, Slicing
    <3> QED BY <1>1, <3>1, <3>2 DEF Inv, PlanHolds
  <2> QED BY <1>1, <2>2, <2>3 DEF PlanHolds, Passing
<1> QED BY <1>2, <1>3, <1>4 DEF Inv

-----------------------------------------------------------------------------
(* The invariant is kept: the tables move on.                              *)

\* A table that moves on keeps its blocks, named or not.
LEMMA MovedOn ==
  ASSUME NEW t \in Table, NEW n \in Nat, t.tokens + n <= Capacity(t), NEW h
  PROVE  /\ Advance(t, n).tokens = t.tokens + n
         /\ Capacity(Advance(t, n)) = Capacity(t)
         /\ NameFull(Advance(t, n), h).tokens = t.tokens + n
         /\ Capacity(NameFull(Advance(t, n), h)) = Capacity(t)
<1>1. t.tokens \in Nat /\ Capacity(t) \in Nat
  BY BlocksAssumption DEF Table, Capacity
<1>2. ~ (t.tokens + n > Capacity(t))
  BY <1>1
<1>3. Advance(t, n) = [t EXCEPT !.tokens = @ + n]
  BY <1>2 DEF Advance
<1> DEFINE u == Advance(t, n)
<1>4. u \in [blocks : Seq(Block), tokens : Nat, hashes : Seq(Name)]
      /\ u.tokens = t.tokens + n /\ u.blocks = t.blocks
  BY <1>1, <1>3 DEF Table
<1> HIDE DEF u
<1>5. NameFull(u, h).tokens = u.tokens /\ NameFull(u, h).blocks = u.blocks
  BY <1>4 DEF NameFull
<1> QED BY <1>4, <1>5 DEF Capacity, u

\* What is left of a prompt of which so much was written.
LEMMA LeftNumbers ==
  ASSUME NEW at \in Nat, NEW n \in Nat, NEW len \in Nat, at + n <= len,
         NEW left, left = len - at \/ left = 0
  PROVE  /\ LeftAfter(left, n) \in Nat /\ LeftAfter(left, n) <= left
         /\ left = len - at => at + n + LeftAfter(left, n) = len
         /\ left = 0 => LeftAfter(left, n) = 0
<1>1. left \in Nat /\ LeftAfter(left, n) = (IF left - n >= 0 THEN left - n ELSE 0)
  BY DEF LeftAfter, AtLeast
<1>2. CASE left = len - at
  <2>1. left - n >= 0
    BY <1>2
  <2> QED BY <1>1, <1>2, <2>1
<1>3. CASE left = 0
  <2>1. LeftAfter(left, n) = 0
    BY <1>1, <1>3
  <2>2. left = len - at => at + n + 0 = len
    BY <1>3
  <2> QED BY <1>3, <2>1, <2>2
<1> QED BY <1>2, <1>3

\* A row whose table moved on is behind: its token is to be kept, or its prompt
\* is still part-way.
LEMMA AheadThenBehind ==
  ASSUME NEW w, Ahead(w), w.predicts \in BOOLEAN,
         Len(seq[w.id].history) \in Nat, table[w.id].tokens \in Nat,
         Len(w.tokens) \in Nat,
         seq'[w.id].history = seq[w.id].history,
         seq'[w.id].pending = seq[w.id].pending,
         seq'[w.id].prompt_left = LeftAfter(seq[w.id].prompt_left, Len(w.tokens)),
         table'[w.id].tokens = table[w.id].tokens + Len(w.tokens)
  PROVE  /\ Behind(w)'
         /\ seq'[w.id].prompt_left \in Nat
         /\ seq'[w.id].prompt_left <= seq[w.id].prompt_left
<1>1. PICK len, at, n, left, after :
        /\ len = Len(seq[w.id].history) /\ at = table[w.id].tokens
        /\ n = Len(w.tokens) /\ left = seq[w.id].prompt_left
        /\ after = LeftAfter(left, n)
  OBVIOUS
<1>2. /\ n > 0 /\ at + n <= len /\ (w.predicts <=> at + n = len)
      /\ \/ left = len - at /\ seq[w.id].pending = <<>>
         \/ left = 0 /\ w.predicts
  BY <1>1 DEF Ahead
<1>a. len \in Nat /\ at \in Nat /\ n \in Nat
  BY <1>1
<1>3. /\ after \in Nat /\ after <= left /\ (left = 0 => after = 0)
      /\ (left = len - at => at + n + after = len)
  <2>1. at + n <= len /\ (left = len - at \/ left = 0)
    BY <1>2
  <2>2. /\ LeftAfter(left, n) \in Nat /\ LeftAfter(left, n) <= left
        /\ left = len - at => at + n + LeftAfter(left, n) = len
        /\ left = 0 => LeftAfter(left, n) = 0
    BY <1>a, <2>1, LeftNumbers
  <2> QED BY <1>1, <2>2
<1>b. /\ seq'[w.id].prompt_left = after /\ table'[w.id].tokens = at + n
      /\ Len(seq'[w.id].history) = len
  BY <1>1
<1>4. ASSUME left = len - at, seq[w.id].pending = <<>>
      PROVE  Behind(w)'
  <2>2. at + n + after = len
        /\ (w.predicts => after = 0 /\ at + n = len)
        /\ (~ w.predicts => after > 0)
    <3>1. at + n + after = len
      BY <1>3, <1>4
    <3> QED BY <1>2, <1>3, <1>a, <3>1
  <2>3. w.predicts => seq'[w.id].prompt_left = 0
                      /\ table'[w.id].tokens = Len(seq'[w.id].history)
    BY <1>b, <2>2
  <2>4. ~ w.predicts => /\ seq'[w.id].prompt_left > 0 /\ seq'[w.id].pending = <<>>
                        /\ table'[w.id].tokens + seq'[w.id].prompt_left
                             = Len(seq'[w.id].history)
    BY <1>4, <1>b, <2>2
  <2> QED BY <2>3, <2>4 DEF Behind, Slicing
<1>5. ASSUME left = 0, w.predicts
      PROVE  Behind(w)'
  <2>1. after = 0 /\ at + n = len
    BY <1>2, <1>3, <1>5
  <2> QED BY <1>5, <1>b, <2>1 DEF Behind
<1>6. Behind(w)'
  BY <1>2, <1>4, <1>5
<1> QED BY <1>1, <1>3, <1>6

\* What was said of a row holds when neither its sequence nor its table changed.
LEMMA RowLeftAlone ==
  ASSUME NEW k, plan'[k] = plan[k], seq'[plan[k].id] = seq[plan[k].id],
         table'[plan[k].id] = table[plan[k].id]
  PROVE  /\ Ahead(plan[k]) => Ahead(plan[k])'
         /\ Behind(plan[k]) => Behind(plan[k])'
         /\ Settled(plan[k].id) => Settled(plan[k].id)'
BY DEF Ahead, Behind, Settled, Decoding, Slicing

\* Behind of a row that stays planned.
LEMMA BehindNext ==
  ASSUME NEW w, NEW k, plan'[k] = w, Behind(w)'
  PROVE  Behind(plan[k])'
BY DEF Behind, Slicing

\* The first loop of commit moves one sequence on.
LEMMA AdvanceRowKeeps == ASSUME Inv, KVP!TypeInv', AdvanceRow PROVE Inv'
<1>0. PICK w, r, n : w = plan[row] /\ r = w.id /\ n = Len(w.tokens)
  OBVIOUS
<1>1. /\ pc = "advance" /\ row <= Len(plan) /\ row' = row + 1
      /\ UNCHANGED <<pc, plan, waiting, running, joining, chosen, chunk, kv, told>>
      /\ seq' = [seq EXCEPT ![r].prompt_left = LeftAfter(@, n)]
  BY <1>0 DEF AdvanceRow, InPlanLoop, NextRow, settled
<1>2. \/ table' = [table EXCEPT ![r] = NameFull(Advance(table[r], n), seq[r].history)]
      \/ table' = [table EXCEPT ![r] = Advance(table[r], n)]
  BY <1>0 DEF AdvanceRow
<1>3. /\ DOMAIN plan = 1..Len(plan) /\ Len(plan) \in Nat /\ row \in DOMAIN plan
      /\ row \in Nat \ {0}
  BY <1>1 DEF Inv, Typed
<1>4. /\ r \in Request /\ n \in Nat /\ w.predicts \in BOOLEAN
  BY <1>0, <1>3, PlanRowType DEF Inv
<1>5. /\ Ahead(w) /\ r \in ToSet(running)
      /\ \A k \in DOMAIN plan : plan[k].id = r => k = row
  BY <1>0, <1>1, <1>3 DEF Inv, PlanHolds, Passing
<1>6. PICK h, at, left : h = seq[r].history /\ at = table[r].tokens
                        /\ left = seq[r].prompt_left
  OBVIOUS
<1>7. /\ table \in [Request -> Table] /\ table[r] \in Table /\ at \in Nat
      /\ Capacity(table[r]) \in Nat
      /\ seq \in [Request -> Sequence] /\ seq[r] \in Sequence
      /\ h \in Seq(Token) /\ Len(h) \in Nat /\ left \in Nat
  BY <1>4, <1>6, Numbers, CacheTyped, SMTT(60) DEF Inv, Typed
<1>8. at + n <= Capacity(table[r])
  BY <1>0, <1>5, <1>6 DEF Ahead
<1>9. /\ table'[r].tokens = at + n
      /\ \A q \in Request : q # r => table'[q] = table[q]
  BY <1>2, <1>4, <1>6, <1>7, <1>8, MovedOn, SMTT(60)
<1>10. /\ seq'[r].prompt_left = LeftAfter(left, n)
       /\ seq'[r].history = h /\ seq'[r].pending = seq[r].pending
       /\ seq'[r].finish = seq[r].finish /\ seq'[r].generated = seq[r].generated
       /\ seq'[r].prompt_tokens = seq[r].prompt_tokens
       /\ \A q \in Request : q # r => seq'[q] = seq[q]
  BY <1>1, <1>4, <1>6, <1>7 DEF Sequence
<1>11. Behind(w)' /\ LeftAfter(left, n) \in Nat /\ LeftAfter(left, n) <= left
  <2>1. /\ Len(seq[w.id].history) \in Nat /\ table[w.id].tokens \in Nat
        /\ Len(w.tokens) \in Nat
        /\ seq'[w.id].history = seq[w.id].history
        /\ seq'[w.id].pending = seq[w.id].pending
        /\ seq'[w.id].prompt_left = LeftAfter(seq[w.id].prompt_left, Len(w.tokens))
        /\ table'[w.id].tokens = table[w.id].tokens + Len(w.tokens)
    BY <1>0, <1>4, <1>6, <1>7, <1>9, <1>10
  <2>2. /\ Behind(w)' /\ seq'[w.id].prompt_left \in Nat
        /\ seq'[w.id].prompt_left <= seq[w.id].prompt_left
    BY <1>4, <1>5, <2>1, AheadThenBehind
  <2> QED BY <1>0, <1>6, <1>10, <2>2
<1>12. seq' \in [Request -> Sequence]
  BY <1>1, <1>4, <1>6, <1>7, <1>11 DEF Sequence
<1>13. Typed'
  BY <1>1, <1>3, <1>12 DEF Inv, Typed
<1>14. Queues' /\ ChosenHold'
  BY <1>1 DEF Inv, Queues, InHand, ChosenHold
<1>15. OthersHoldNothing'
  BY <1>1, <1>5, <1>9 DEF Inv, OthersHoldNothing
<1>16. r \notin ToSet(waiting) \cup {joining} /\ told[r].submitted
  BY <1>4, <1>5 DEF Inv, Queues, InHand
<1>17. Sequences'
  BY <1>1, <1>10, <1>16 DEF Inv, Sequences, Fresh
<1>18. Starting'
  <2>1. joining = Nobody
    BY <1>1 DEF Inv, Queues
  <2> QED BY <1>1, <2>1 DEF Starting
<1>19. OnePartialPrompt'
  <2>1. \A q \in ToSet(running) : q \in Request
    BY ToSetMeans DEF Inv, Typed
  <2>2. ASSUME NEW q \in ToSet(running), seq'[q].prompt_left > 0
        PROVE  seq[q].prompt_left > 0
    <3>1. CASE q = r
      BY <1>6, <1>7, <1>10, <1>11, <2>2, <3>1
    <3>2. CASE q # r
      BY <1>10, <2>1, <2>2, <3>2
    <3> QED BY <3>1, <3>2
  <2> QED BY <1>1, <2>2 DEF Inv, OnePartialPrompt
<1>20. PlanHolds'
  <2>1. ASSUME NEW k \in DOMAIN plan
        PROVE  /\ \A j \in DOMAIN plan : plan[j].id = plan[k].id => j = k
               /\ plan[k].id \in ToSet(running)
               /\ k >= row => Ahead(plan[k])
               /\ k < row => Behind(plan[k])
    BY <1>1 DEF Inv, PlanHolds, Passing
  <2>2. ASSUME NEW k \in DOMAIN plan
        PROVE  /\ k >= row + 1 => Ahead(plan[k])'
               /\ k < row + 1 => Behind(plan[k])'
    <3>1. k \in Nat /\ (k >= row + 1 => k >= row /\ k # row)
          /\ (k < row + 1 => k < row \/ k = row)
      BY <1>3
    <3>2. CASE k = row
      BY <1>0, <1>1, <1>3, <1>11, <3>1, <3>2, BehindNext
    <3>3. CASE k # row
      <4>1. plan[k].id \in Request /\ plan[k].id # r
        BY <1>5, <3>3, PlanRowType DEF Inv
      <4>2. /\ plan'[k] = plan[k] /\ seq'[plan[k].id] = seq[plan[k].id]
            /\ table'[plan[k].id] = table[plan[k].id]
        BY <1>1, <1>9, <1>10, <4>1
      <4> QED BY <2>1, <3>1, <3>3, <4>2, RowLeftAlone
    <3> QED BY <3>2, <3>3
  <2>3. ASSUME NEW q \in ToSet(running) PROVE Aboard(q)' \/ Settled(q)'
    <3>1. CASE q = r
      BY <1>0, <1>1, <1>3, <3>1 DEF Aboard, Passing
    <3>2. CASE q # r
      <4>1. q \in Request
        BY ToSetMeans DEF Inv, Typed
      <4>2. CASE Aboard(q)
        BY <1>1, <4>2 DEF Aboard, Passing
      <4>3. CASE Settled(q)
        BY <1>9, <1>10, <3>2, <4>1, <4>3, LeftAlone
      <4> QED BY <4>2, <4>3 DEF Inv, PlanHolds
    <3> QED BY <3>1, <3>2
  <2> QED BY <1>1, <2>1, <2>2, <2>3 DEF PlanHolds, Passing
<1> QED BY <1>13, <1>14, <1>15, <1>17, <1>18, <1>19, <1>20 DEF Inv

-----------------------------------------------------------------------------
(* The invariant is kept: the sampled tokens are kept and reported.        *)

\* What one sampled token makes of a sequence and of what is said of it.
Given(s, token) ==
    [s EXCEPT !.pending = <<token>>, !.history = Append(s.history, token),
              !.generated = s.generated + 1, !.finish = FinishOf(s, token)]

\* It stays a sequence, one token longer, with that token still to run.
LEMMA GivenFields ==
  ASSUME NEW s \in Sequence, NEW token \in Token
  PROVE  /\ Given(s, token) \in Sequence
         /\ Given(s, token).pending = <<token>>
         /\ Given(s, token).history = Append(s.history, token)
         /\ Given(s, token).generated = s.generated + 1
         /\ Given(s, token).finish = FinishOf(s, token)
         /\ Given(s, token).prompt_left = s.prompt_left
         /\ Given(s, token).prompt_tokens = s.prompt_tokens
         /\ Given(s, token).max_tokens = s.max_tokens
         /\ Given(s, token).preemptions = s.preemptions
<1>1. /\ s.history \in Seq(Token) /\ s.generated \in Nat /\ s.finish \in Finish
  BY DEF Sequence
<1>2. /\ <<token>> \in Seq(Token) /\ Append(s.history, token) \in Seq(Token)
      /\ s.generated + 1 \in Nat
  BY <1>1
<1>3. FinishOf(s, token) \in Finish
  BY <1>1 DEF FinishOf, Finish
<1>4. PICK h \in Seq(Token), p \in Seq(Token), n \in Nat, f \in Finish :
        /\ h = Append(s.history, token) /\ p = <<token>> /\ n = s.generated + 1
        /\ f = FinishOf(s, token)
  BY <1>2, <1>3
<1>5. Given(s, token) = [s EXCEPT !.pending = p, !.history = h, !.generated = n, !.finish = f]
  BY <1>4 DEF Given
<1>6. s \in [history : Seq(Token), prompt_tokens : Nat, max_tokens : Nat,
             pending : Seq(Token), generated : Nat, preemptions : Nat,
             prompt_left : Nat, finish : Finish]
  BY DEF Sequence
<1>7. /\ Given(s, token).pending = p /\ Given(s, token).history = h
      /\ Given(s, token).generated = n /\ Given(s, token).finish = f
      /\ Given(s, token).prompt_left = s.prompt_left
      /\ Given(s, token).prompt_tokens = s.prompt_tokens
      /\ Given(s, token).max_tokens = s.max_tokens
      /\ Given(s, token).preemptions = s.preemptions
      /\ Given(s, token) \in Sequence
  BY <1>5, <1>6 DEF Sequence
<1> QED BY <1>4, <1>7

\* What EmitRow does when its row predicts.
LEMMA EmitGives ==
  ASSUME Inv, EmitRow, NEW r \in Request, r = plan[row].id, plan[row].predicts
  PROVE  \E token \in Token :
           /\ seq' = [seq EXCEPT ![r] = Given(seq[r], token)]
           /\ told' = [told EXCEPT ![r].tokens = Reported(@, token)]
<1>1. PICK token \in Token :
        /\ seq' = [seq EXCEPT ![r].pending = <<token>>,
                              ![r].history = Append(@, token),
                              ![r].generated = @ + 1,
                              ![r].finish = FinishOf(seq[r], token)]
        /\ told' = [told EXCEPT ![r].tokens = Reported(@, token)]
  BY Zenon DEF EmitRow
<1>2. seq \in [Request -> Sequence] /\ seq[r] \in Sequence
  BY SMTT(60) DEF Inv, Typed
<1>3. seq' = [seq EXCEPT ![r] = Given(seq[r], token)]
  BY <1>1, <1>2 DEF Given, Sequence
<1> QED BY <1>1, <1>3

\* The second loop of commit keeps the token of one row, if it has one.
LEMMA EmitRowKeeps == ASSUME Inv, KVP!TypeInv', EmitRow PROVE Inv'
<1>0. PICK w, r : w = plan[row] /\ r = w.id
  OBVIOUS
<1>1. /\ pc = "emit" /\ row <= Len(plan) /\ row' = row + 1
      /\ UNCHANGED <<pc, plan, pool, table, waiting, running, joining, chosen, chunk, kv>>
  BY Zenon DEF EmitRow, InPlanLoop, NextRow
<1>2. /\ DOMAIN plan = 1..Len(plan) /\ Len(plan) \in Nat /\ row \in DOMAIN plan
      /\ row \in Nat \ {0}
  BY <1>1 DEF Inv, Typed
<1>3. r \in Request /\ w.predicts \in BOOLEAN
  BY <1>0, <1>2, PlanRowType DEF Inv
<1>4. row >= row
  BY <1>2
<1>5. /\ Behind(w) /\ r \in ToSet(running)
      /\ \A k \in DOMAIN plan : plan[k].id = r => k = row
  BY <1>0, <1>1, <1>2, <1>4 DEF Inv, PlanHolds, Passing
<1>6. /\ seq \in [Request -> Sequence] /\ seq[r] \in Sequence
      /\ told \in [Request -> Report] /\ told[r] \in Report
      /\ seq[r].history \in Seq(Token) /\ Len(seq[r].history) \in Nat
      /\ seq[r].prompt_left \in Nat /\ table[r].tokens \in Nat
      /\ seq[r].generated \in Nat /\ seq[r].prompt_tokens \in Nat
  BY <1>3, Numbers DEF Inv, Typed
<1>7. /\ seq' \in [Request -> Sequence] /\ told' \in [Request -> Report]
      /\ seq'[r].prompt_left = seq[r].prompt_left
      /\ seq'[r].prompt_tokens = seq[r].prompt_tokens
      /\ Len(seq'[r].history) = seq'[r].prompt_tokens + seq'[r].generated
      /\ Settled(r)'
      /\ \A q \in Request : q # r => seq'[q] = seq[q]
      /\ \A q \in Request : told'[q].submitted = told[q].submitted
                            /\ told'[q].end = told[q].end
  <2>1. CASE w.predicts
    <3>1. PICK token \in Token :
            /\ seq' = [seq EXCEPT ![r] = Given(seq[r], token)]
            /\ told' = [told EXCEPT ![r].tokens = Reported(@, token)]
      BY <1>0, <1>3, <2>1, EmitGives
    <3>2. seq' \in [Request -> Sequence] /\ seq'[r] = Given(seq[r], token)
          /\ \A q \in Request : q # r => seq'[q] = seq[q]
      BY <1>3, <1>6, <3>1, GivenFields
    <3>3. /\ seq'[r].pending = <<token>>
          /\ seq'[r].history = Append(seq[r].history, token)
          /\ seq'[r].generated = seq[r].generated + 1
          /\ seq'[r].prompt_left = seq[r].prompt_left
          /\ seq'[r].prompt_tokens = seq[r].prompt_tokens
      <4>1. PICK s \in Sequence : s = seq[r]
        BY <1>6
      <4>2. /\ Given(s, token).pending = <<token>>
            /\ Given(s, token).history = Append(s.history, token)
            /\ Given(s, token).generated = s.generated + 1
            /\ Given(s, token).prompt_left = s.prompt_left
            /\ Given(s, token).prompt_tokens = s.prompt_tokens
        BY GivenFields
      <4> QED BY <3>2, <4>1, <4>2
    <3>4. PICK h \in Seq(Token) : h = seq[r].history
      BY <1>6
    <3>5. /\ Len(Append(h, token)) = Len(h) + 1 /\ Append(h, token)[Len(h) + 1] = token
          /\ Len(<<token>>) = 1 /\ <<token>>[1] = token
      OBVIOUS
    <3>6. Len(seq'[r].history) = seq'[r].prompt_tokens + seq'[r].generated
      <4>1. Len(h) = seq[r].prompt_tokens + seq[r].generated
        BY <1>3, <3>4 DEF Inv, Sequences
      <4>2. Len(h) + 1 = seq[r].prompt_tokens + (seq[r].generated + 1)
        BY <1>6, <4>1, SMTT(60)
      <4> QED BY <3>3, <3>4, <3>5, <4>2
    <3>7. Settled(r)'
      <4>1. seq[r].prompt_left = 0 /\ table[r].tokens = Len(h)
        BY <1>0, <1>5, <2>1, <3>4 DEF Behind
      <4>2. /\ seq'[r].prompt_left = 0 /\ Len(seq'[r].pending) = 1
            /\ Len(seq'[r].history) = Len(h) + 1
            /\ seq'[r].pending[1] = seq'[r].history[Len(seq'[r].history)]
            /\ table'[r].tokens + 1 = Len(seq'[r].history)
        BY <1>1, <3>3, <3>4, <3>5, <4>1
      <4> QED BY <4>2 DEF Settled, Decoding
    <3>8. /\ told' \in [Request -> Report]
          /\ \A q \in Request : told'[q].submitted = told[q].submitted
                                /\ told'[q].end = told[q].end
      <4>1. told[r].tokens \in Seq(Token)
        BY <1>6 DEF Report
      <4>2. Reported(told[r].tokens, token) \in Seq(Token)
        BY <4>1 DEF Reported
      <4> QED BY <1>3, <1>6, <3>1, <4>2 DEF Report
    <3> QED BY <3>2, <3>3, <3>6, <3>7, <3>8
  <2>2. CASE ~ w.predicts
    <3>1. UNCHANGED <<seq, told>>
      BY <1>0, <2>2 DEF EmitRow
    <3>2. Settled(r)
      BY <1>0, <1>5, <2>2 DEF Behind, Settled
    <3>3. Settled(r)'
      BY <1>1, <3>1, <3>2 DEF Settled, Decoding, Slicing
    <3>4. Len(seq[r].history) = seq[r].prompt_tokens + seq[r].generated
      BY <1>3 DEF Inv, Sequences
    <3> QED BY <1>6, <3>1, <3>3, <3>4
  <2> QED BY <1>3, <2>1, <2>2
<1>8. Typed'
  BY <1>1, <1>2, <1>7 DEF Inv, Typed
<1>9. Queues' /\ ChosenHold'
  BY <1>1, <1>7 DEF Inv, Queues, InHand, ChosenHold
<1>10. OthersHoldNothing'
  BY <1>1 DEF Inv, OthersHoldNothing
<1>11. r \notin ToSet(waiting) \cup {joining} /\ told[r].submitted
  BY <1>3, <1>5 DEF Inv, Queues, InHand
<1>12. Sequences'
  <2>1. ASSUME NEW q \in Request
        PROVE  /\ seq'[q].prompt_tokens > 0
               /\ Len(seq'[q].history) = seq'[q].prompt_tokens + seq'[q].generated
               /\ q \in ToSet(waiting) \cup {joining} \/ ~ told[q].submitted => Fresh(q)'
    <3>1. CASE q = r
      BY <1>7, <1>11, <3>1 DEF Inv, Sequences
    <3>2. CASE q # r
      BY <1>7, <3>2 DEF Inv, Sequences, Fresh
    <3> QED BY <3>1, <3>2
  <2> QED BY <1>1, <1>7, <2>1 DEF Sequences
<1>13. Starting'
  <2>1. joining = Nobody
    BY <1>1 DEF Inv, Queues
  <2> QED BY <1>1, <2>1 DEF Starting
<1>14. OnePartialPrompt'
  <2>1. \A q \in ToSet(running) : q \in Request
    BY ToSetMeans DEF Inv, Typed
  <2>2. \A q \in ToSet(running) : seq'[q].prompt_left = seq[q].prompt_left
    BY <1>7, <2>1
  <2> QED BY <1>1, <2>2 DEF Inv, OnePartialPrompt
<1>15. PlanHolds'
  <2>1. ASSUME NEW k \in DOMAIN plan
        PROVE  /\ \A j \in DOMAIN plan : plan[j].id = plan[k].id => j = k
               /\ plan[k].id \in ToSet(running)
               /\ k >= row => Behind(plan[k]) /\ seq[plan[k].id].finish = "none"
               /\ k < row => Settled(plan[k].id)
    BY <1>1 DEF Inv, PlanHolds, Passing
  <2>2. ASSUME NEW k \in DOMAIN plan
        PROVE  /\ k >= row + 1 => Behind(plan[k])' /\ seq'[plan[k].id].finish = "none"
               /\ k < row + 1 => Settled(plan[k].id)'
    <3>1. k \in Nat /\ (k >= row + 1 => k >= row /\ k # row)
          /\ (k < row + 1 => k < row \/ k = row)
      BY <1>2
    <3>2. CASE k = row
      <4>1. Settled(plan[k].id)'
        BY <1>0, <1>1, <1>7, <3>2 DEF Settled, Decoding, Slicing
      <4> QED BY <3>1, <3>2, <4>1
    <3>3. CASE k # row
      <4>1. plan[k].id \in Request /\ plan[k].id # r
        BY <1>5, <3>3, PlanRowType DEF Inv
      <4>2. /\ plan'[k] = plan[k] /\ seq'[plan[k].id] = seq[plan[k].id]
            /\ table'[plan[k].id] = table[plan[k].id]
        BY <1>1, <1>7, <4>1
      <4> QED BY <2>1, <3>1, <3>3, <4>2, RowLeftAlone
    <3> QED BY <3>2, <3>3
  <2>3. ASSUME NEW q \in ToSet(running) PROVE Aboard(q)' \/ Settled(q)'
    <3>1. CASE q = r
      BY <1>0, <1>1, <1>2, <3>1 DEF Aboard, Passing
    <3>2. CASE q # r
      <4>1. q \in Request
        BY ToSetMeans DEF Inv, Typed
      <4>2. CASE Aboard(q)
        BY <1>1, <4>2 DEF Aboard, Passing
      <4>3. CASE Settled(q)
        BY <1>1, <1>7, <3>2, <4>1, <4>3, LeftAlone
      <4> QED BY <4>2, <4>3 DEF Inv, PlanHolds
    <3> QED BY <3>1, <3>2
  <2> QED BY <1>1, <2>1, <2>2, <2>3 DEF PlanHolds, Passing
<1> QED BY <1>8, <1>9, <1>10, <1>12, <1>13, <1>14, <1>15 DEF Inv

\* The loops over the plan end: the next one starts, or the plan is dropped.
LEMMA EndPlanLoopKeeps == ASSUME Inv, KVP!TypeInv', EndPlanLoop PROVE Inv'
<1>1. /\ pc \in {"advance", "emit", "abort"} /\ ~ (row <= Len(plan)) /\ row' = 1
      /\ pc' = (CASE pc = "advance" -> "emit" [] pc = "emit" -> "retire" [] OTHER -> "idle")
      /\ plan' = (IF pc = "abort" THEN <<>> ELSE plan)
      /\ chosen' = (IF pc = "abort" THEN <<>> ELSE chosen)
      /\ UNCHANGED <<pool, table, seq, waiting, running, joining, chunk, kv, told>>
  BY DEF EndPlanLoop, InPlanLoop, settled
<1>2. /\ DOMAIN plan = 1..Len(plan) /\ Len(plan) \in Nat /\ row \in Nat \ {0}
      /\ plan \in Seq(Row) /\ chosen \in Seq(Nat)
  BY DEF Inv, Typed
<1>3. \A k \in DOMAIN plan : k < row /\ ~ (k >= row) /\ k >= 1 /\ ~ (k < 1)
  BY <1>1, <1>2
<1>4. /\ pc = "advance" => pc' = "emit" /\ plan' = plan
      /\ pc = "emit" => pc' = "retire" /\ plan' = plan
      /\ pc = "abort" => pc' = "idle" /\ plan' = <<>>
  BY <1>1
<1>5. Typed'
  <2>1. plan' \in Seq(Row) /\ chosen' \in Seq(Nat) /\ pc' \in PC
    BY <1>1, <1>2, <1>4, EmptySeq DEF PC
  <2> QED BY <1>1, <2>1 DEF Inv, Typed
<1>6. Queues' /\ OthersHoldNothing' /\ Starting' /\ OnePartialPrompt' /\ ChosenHold'
  BY <1>1, <1>4 DEF Inv, Queues, InHand, OthersHoldNothing, Starting, OnePartialPrompt,
                    ChosenHold
<1>7. Sequences'
  <2>1. pc' \notin {"emit", "retire"} => pc = "abort"
    BY <1>1, <1>4
  <2> QED BY <1>1, <2>1 DEF Inv, Sequences, Fresh
<1>8. \A q : Settled(q) => Settled(q)'
  BY <1>1 DEF Settled, Decoding, Slicing
<1>9. PlanHolds'
  <2>1. CASE pc = "advance"
    <3>1. ASSUME NEW k \in DOMAIN plan
          PROVE  /\ \A j \in DOMAIN plan : plan[j].id = plan[k].id => j = k
                 /\ plan[k].id \in ToSet(running) /\ Behind(plan[k])'
                 /\ seq[plan[k].id].finish = "none"
      <4>1. /\ \A j \in DOMAIN plan : plan[j].id = plan[k].id => j = k
            /\ plan[k].id \in ToSet(running) /\ Behind(plan[k])
        BY <1>3, <2>1 DEF Inv, PlanHolds, Passing
      <4>2. plan[k].id \in Request
        BY PlanRowType DEF Inv
      <4>3. seq[plan[k].id].finish = "none"
        BY <2>1, <4>1, <4>2 DEF Inv, Sequences
      <4> QED BY <1>1, <1>4, <2>1, <4>1, <4>3, RowLeftAlone
    <3>2. ASSUME NEW q \in ToSet(running) PROVE Aboard(q)' \/ Settled(q)'
      <4>1. CASE Aboard(q)
        BY <1>4, <2>1, <4>1 DEF Aboard, Passing
      <4> QED BY <1>8, <4>1 DEF Inv, PlanHolds
    <3> QED BY <1>1, <1>3, <1>4, <2>1, <3>1, <3>2 DEF PlanHolds, Passing
  <2>2. CASE pc = "emit"
    <3>1. ASSUME NEW q \in ToSet(running) PROVE Settled(q)'
      <4>1. CASE Aboard(q)
        <5>1. PICK k \in DOMAIN plan : plan[k].id = q
          BY <4>1 DEF Aboard
        <5>2. Settled(q)
          BY <1>3, <2>2, <5>1 DEF Inv, PlanHolds, Passing
        <5> QED BY <1>8, <5>2
      <4> QED BY <1>8, <4>1 DEF Inv, PlanHolds
    <3> QED BY <1>1, <1>4, <2>2, <3>1 DEF PlanHolds, Passing
  <2>3. CASE pc = "abort"
    <3>1. \A q \in ToSet(running) : ~ Aboard(q)
      BY <1>3, <2>3 DEF Aboard
    <3>2. \A q \in ToSet(running') : Settled(q)'
      BY <1>1, <1>8, <3>1 DEF Inv, PlanHolds
    <3> QED BY <1>4, <2>3, <3>2, NoPlanHolds DEF Passing
  <2> QED BY <1>1, <2>1, <2>2, <2>3
<1> QED BY <1>5, <1>6, <1>7, <1>9 DEF Inv

-----------------------------------------------------------------------------
(* The invariant is kept.                                                  *)

\* Every step of the scheduler keeps the invariant.
LEMMA InvNext == Inv /\ [Next]_vars => Inv'
<1> SUFFICES ASSUME Inv, [Next]_vars PROVE Inv'
  OBVIOUS
<1>1. KVP!TypeInv'
  BY CacheTypesKept
<1>2. CASE UNCHANGED vars
  <2>1. Typed' /\ Queues' /\ OthersHoldNothing' /\ Sequences'
    BY <1>2, SMTT(60) DEF vars, Inv, Typed, Queues, InHand, OthersHoldNothing, Sequences, Fresh
  <2>2. PlanHolds'
    BY <1>2 DEF vars, Inv, PlanHolds, Aboard, Ahead, Behind, Settled, Decoding, Slicing
  <2>3. ChosenHold' /\ Starting' /\ OnePartialPrompt'
    BY <1>2 DEF vars, Inv, ChosenHold, Room, Starting, OnePartialPrompt
  <2> QED BY <1>1, <2>1, <2>2, <2>3 DEF Inv
<1>3. ASSUME NEW r \in Request, Submit(r) \/ Cancel(r) PROVE Inv'
  BY <1>1, <1>3, SubmitKeeps, CancelKeeps
<1>4. CASE SetChunk \/ Plan \/ SkipRow \/ GiveUpMixed \/ LeaveOut \/ EndRows
           \/ NoPromptToStart \/ CannotAdmit \/ EndCommit
  BY <1>1, <1>4, ControlKeeps
<1>5. CASE Refuse \/ PutBack \/ ChooseRow \/ Preempt \/ PlanDecode \/ Join \/ PlanMixed
           \/ PlanPrefill
  BY <1>1, <1>5, RefuseKeeps, PutBackKeeps, ChooseRowKeeps, PreemptKeeps,
     PlanDecodeKeeps, JoinKeeps, PlanMixedKeeps, PlanPrefillKeeps
<1>6. CASE StartNextPrompt \/ Admit \/ GrowSlice \/ GrowPrompt
  BY <1>1, <1>6, ClaimKeeps, GrowKeeps
<1>7. CASE Pass \/ PassFails
  BY <1>1, <1>7, PassKeeps
<1>8. CASE AbortRow \/ AdvanceRow \/ EmitRow \/ EndPlanLoop \/ Retire
  BY <1>1, <1>8, AbortRowKeeps, AdvanceRowKeeps, EmitRowKeeps, EndPlanLoopKeeps,
     RetireKeeps
<1> QED
  BY <1>2, <1>3, <1>4, <1>5, <1>6, <1>7, <1>8
  DEF Next, Engine, Planning, Committing

\* The invariant holds of every reachable state.
LEMMA InvAlways == Spec => []Inv
BY InvInit, InvNext, PTL DEF Spec

-----------------------------------------------------------------------------
(* The scheduler implements PagedKV.  KV, the instance a run checks, and   *)
(* KVP, the one with the proofs, are the same specification.               *)

\* Both instances start alike.
LEMMA SameInit == KVP!Init <=> KV!Init
BY DEF KVP!Init, KV!Init, KVP!NewPool, KV!NewPool, KVP!NoName, KV!NoName,
       KVP!NewTable, KV!NewTable, KVP!Offset, KV!Offset, KVP!Garbage, KV!Garbage

\* Both instances take blocks, give them back and share them alike.
LEMMA SameBlockSteps ==
  ASSUME NEW r \in Request
  PROVE  /\ KVP!Grow(r) <=> KV!Grow(r)
         /\ KVP!Free(r) <=> KV!Free(r)
         /\ KVP!Sample(r) <=> KV!Sample(r)
         /\ KVP!Claim(r) <=> KV!Claim(r)
<1>1. KVP!Grow(r) <=> KV!Grow(r)
  <2>1. \A p : KVP!Allocatable(p) = KV!Allocatable(p)
    BY DEF KVP!Allocatable, KV!Allocatable, KVP!Anonymous, KV!Anonymous,
           KVP!LeastRecent, KV!LeastRecent, KVP!NoName, KV!NoName
  <2>2. \A p, b : KVP!Allocate(p, b) = KV!Allocate(p, b)
    BY DEF KVP!Allocate, KV!Allocate, KVP!Unindexed, KV!Unindexed, KVP!NoName, KV!NoName
  <2>3. \A t, b : KVP!Push(t, b) = KV!Push(t, b)
    BY DEF KVP!Push, KV!Push
  <2> QED BY <2>1, <2>2, <2>3 DEF KVP!Grow, KV!Grow
<1>2. KVP!Free(r) <=> KV!Free(r)
  <2>1. \A p, blocks : KVP!ReleaseAll(p, blocks) = KV!ReleaseAll(p, blocks)
    BY DEF KVP!ReleaseAll, KV!ReleaseAll, KVP!AtLeast, KV!AtLeast, KVP!Cardinality,
           KV!Cardinality
  <2> QED BY <2>1 DEF KVP!Free, KV!Free, KVP!NewTable, KV!NewTable
<1>3. KVP!Sample(r) <=> KV!Sample(r)
  BY DEF KVP!Sample, KV!Sample
<1>4. KVP!Claim(r) <=> KV!Claim(r)
  <2>1. \A h : KVP!Candidates(h) = KV!Candidates(h)
    BY DEF KVP!Candidates, KV!Candidates, KVP!AtLeast, KV!AtLeast, KVP!CeilDiv, KV!CeilDiv
  <2>2. \A p, h, k : KVP!Claims(p, h, k) <=> KV!Claims(p, h, k)
    BY <2>1 DEF KVP!Claims, KV!Claims, KVP!Resident, KV!Resident, KVP!PrefixName,
                KV!PrefixName
  <2>3. \A p, h, k : KVP!ClaimPool(p, h, k) = KV!ClaimPool(p, h, k)
    BY DEF KVP!ClaimPool, KV!ClaimPool, KVP!AcquireCached, KV!AcquireCached,
           KVP!PrefixName, KV!PrefixName
  <2>4. \A p, t, h, k : KVP!ClaimTable(p, t, h, k) = KV!ClaimTable(p, t, h, k)
    BY DEF KVP!ClaimTable, KV!ClaimTable, KVP!PrefixName, KV!PrefixName
  <2> QED BY <2>1, <2>2, <2>3, <2>4 DEF KVP!Claim, KV!Claim
<1> QED BY <1>1, <1>2, <1>3, <1>4

\* Both instances commit alike.
LEMMA SameCommit == ASSUME NEW r \in Request PROVE KVP!Commit(r) <=> KV!Commit(r)
<1>1. \A t, n : KVP!Advance(t, n) = KV!Advance(t, n)
  BY DEF KVP!Advance, KV!Advance, KVP!Capacity, KV!Capacity
<1>2. \A t, h : KVP!NameFull(t, h) = KV!NameFull(t, h)
  BY DEF KVP!NameFull, KV!NameFull, KVP!Full, KV!Full, KVP!FullName, KV!FullName,
         KVP!AtLeast, KV!AtLeast, KVP!AtMost, KV!AtMost, KVP!LastHash, KV!LastHash,
         KVP!BlockHash, KV!BlockHash, KVP!NoName, KV!NoName
<1>3. \A p, t, h : KVP!PublishFull(p, t, h) = KV!PublishFull(p, t, h)
  BY DEF KVP!PublishFull, KV!PublishFull, KVP!Published, KV!Published,
         KVP!Publishable, KV!Publishable, KVP!Full, KV!Full, KVP!FullName,
         KV!FullName, KVP!AtLeast, KV!AtLeast, KVP!AtMost, KV!AtMost, KVP!LastHash,
         KV!LastHash, KVP!BlockHash, KV!BlockHash, KVP!NoName, KV!NoName
<1> QED BY <1>1, <1>2, <1>3 DEF KVP!Commit, KV!Commit

\* Both instances run the same passes.
LEMMA SamePasses ==
  /\ KVP!Passes = KV!Passes
  /\ \A n : (KVP!Run(n) <=> KV!Run(n)) /\ (KVP!Spoil(n) <=> KV!Spoil(n))
<1>1. \A r : KVP!Runnable(r) = KV!Runnable(r)
  BY DEF KVP!Runnable, KV!Runnable, KVP!AtMost, KV!AtMost, KVP!Capacity, KV!Capacity
<1>2. KVP!Passes = KV!Passes
  BY <1>1 DEF KVP!Passes, KV!Passes
<1>3. \A n : KVP!Rows(n) = KV!Rows(n)
  BY DEF KVP!Rows, KV!Rows, KVP!Row, KV!Row
<1>4. \A w, b, o : KVP!Writes(w, b, o) <=> KV!Writes(w, b, o)
  BY DEF KVP!Writes, KV!Writes, KVP!SlotBlock, KV!SlotBlock
<1>5. \A c, t, p : KVP!Holds(c, t, p) <=> KV!Holds(c, t, p)
  BY DEF KVP!Holds, KV!Holds, KVP!HasSlot, KV!HasSlot, KVP!Content, KV!Content,
         KVP!SlotBlock, KV!SlotBlock
<1>6. \A c, w : KVP!Context(c, w) = KV!Context(c, w)
  BY DEF KVP!Context, KV!Context, KVP!Content, KV!Content, KVP!SlotBlock, KV!SlotBlock
<1>7. \A c, w, b, o : KVP!Written(c, w, b, o) = KV!Written(c, w, b, o)
  BY <1>5, <1>6 DEF KVP!Written, KV!Written, KVP!ReadsPrefix, KV!ReadsPrefix,
     KVP!WrittenAt, KV!WrittenAt, KVP!SlotBlock, KV!SlotBlock, KVP!Garbage, KV!Garbage
<1>8. \A c, rows : KVP!RunPass(c, rows) = KV!RunPass(c, rows)
  BY <1>4, <1>7, ZenonT(60) DEF KVP!RunPass, KV!RunPass, KVP!Offset, KV!Offset
<1>9. \A c, rows : KVP!SpoilPass(c, rows) = KV!SpoilPass(c, rows)
  BY <1>4 DEF KVP!SpoilPass, KV!SpoilPass, KVP!Offset, KV!Offset, KVP!Garbage, KV!Garbage
<1> QED
  BY <1>1, <1>2, <1>3, <1>8, <1>9 DEF KVP!Run, KV!Run, KVP!Spoil, KV!Spoil

\* Both instances have the same steps.
LEMMA SameNext == [KVP!Next]_(KVP!vars) => [KV!Next]_(KV!vars)
<1>1. KVP!vars = KV!vars
  BY DEF KVP!vars, KV!vars
<1>2. UNCHANGED KVP!vars => UNCHANGED KV!vars
  BY DEF KVP!vars, KV!vars
<1>3. \A e : KVP!SetPrefixCache(e) <=> KV!SetPrefixCache(e)
  BY DEF KVP!SetPrefixCache, KV!SetPrefixCache, KVP!ClearCache, KV!ClearCache,
         KVP!NoName, KV!NoName
<1>4. KVP!Next => KV!Next
  BY <1>3, SameBlockSteps, SameCommit, SamePasses DEF KVP!Next, KV!Next
<1> QED BY <1>2, <1>4

\* The scheduler takes, shares, fills and gives back blocks only as PagedKV
\* allows: its plans are passes PagedKV may run, its commits move on exactly what
\* the pass wrote, and whatever it does between them leaves tables, names and
\* contents alone (scheduler.rs plan, commit, abort, cancel).
THEOREM SchedulerUsesPagedKV == Spec => ImplementsPagedKV
<1>1. Init => KV!Init
  BY InitMapped, SameInit
<1>2. Inv /\ [Next]_vars => [KV!Next]_(KV!vars)
  BY StepMapped, SameNext
<1> QED BY <1>1, <1>2, InvAlways, PTL DEF Spec, ImplementsPagedKV, KV!Spec

\* So it has PagedKV's guarantees, here under the instance with the proofs.
LEMMA SchedulerIsPagedKV == Spec => KVP!Spec
BY InitMapped, StepMapped, InvAlways, PTL DEF Spec, KVP!Spec

-----------------------------------------------------------------------------
(* What the invariant says to a reader.                                    *)

\* In every reachable state of the scheduler the variables have their types.
THEOREM TypeCorrect == Spec => []TypeOK
<1>1. Inv => TypeOK
  <2> SUFFICES ASSUME Inv PROVE TypeOK
    OBVIOUS
  <2>1. /\ pool \in Pool /\ table \in [Request -> Table]
        /\ kv \in [Block -> [Offset -> Seq(Token)]]
    BY CacheTyped DEF Inv
  <2>2. pool.free \subseteq Block /\ pool.holders \in [Block -> Nat]
    BY <2>1 DEF Pool
  <2> QED BY <2>1, <2>2 DEF Inv, Typed, TypeOK
<1> QED BY <1>1, InvAlways, PTL

\* In every reachable state at most one resident has a prompt part-way through
\* its slices, so the one slice a mixed pass has room for always belongs to the
\* prompt that started first (scheduler.rs mixed, start_next_prompt, preempt).
THEOREM OnePrompt == Spec => []OnePartialPrompt
<1>1. Inv => OnePartialPrompt
  BY DEF Inv
<1> QED BY <1>1, InvAlways, PTL

\* A sequence without repetitions holds a member in one place.
LEMMA PlacesOnce ==
  ASSUME NEW S, NEW s \in Seq(S), IsInjective(s), NEW x
  PROVE  Cardinality({i \in DOMAIN s : s[i] = x}) = IF x \in ToSet(s) THEN 1 ELSE 0
<1> DEFINE P == {i \in DOMAIN s : s[i] = x}
<1>1. DOMAIN s = 1..Len(s)
  OBVIOUS
<1>2. CASE x \in ToSet(s)
  <2>1. PICK i \in 1..Len(s) : s[i] = x
    BY <1>2, ToSetMeans
  <2>2. P = {i}
    BY <1>1, <2>1 DEF IsInjective
  <2> QED BY <1>2, <2>2, FS_Singleton
<1>3. CASE x \notin ToSet(s)
  <2>1. P = {}
    BY <1>1, <1>3, ToSetMeans
  <2> QED BY <1>3, <2>1, FS_EmptySet
<1> QED BY <1>2, <1>3

\* In every reachable state a request that was submitted and has no end yet is
\* in exactly one queue, once, any other is in none, and only residents hold
\* blocks: preemption, put-backs, cancels and failed passes neither lose nor
\* double a sequence (scheduler.rs preempt, start_next_prompt, cancel, abort,
\* retire).
THEOREM NothingLost == Spec => []QueuesHoldEverySequence
<1>1. Inv => QueuesHoldEverySequence
  <2> SUFFICES ASSUME Inv, NEW r \in Request
               PROVE  /\ Where(r) = IF told[r].submitted /\ told[r].end = "none"
                                    THEN 1 ELSE 0
                      /\ r \notin ToSet(running) \cup {joining} => table[r] = NewTable
    BY DEF QueuesHoldEverySequence
  <2>1. /\ Cardinality(Places(r).waiting) = IF r \in ToSet(waiting) THEN 1 ELSE 0
        /\ Cardinality(Places(r).running) = IF r \in ToSet(running) THEN 1 ELSE 0
    BY PlacesOnce DEF Inv, Typed, Queues, Places
  <2>2. Cardinality(Places(r).joining) = IF joining = r THEN 1 ELSE 0
    <3>1. CASE joining = r
      <4>1. Places(r).joining = {1}
        BY <3>1 DEF Places
      <4> QED BY <3>1, <4>1, FS_Singleton
    <3>2. CASE joining # r
      <4>1. Places(r).joining = {}
        BY <3>2 DEF Places
      <4> QED BY <3>2, <4>1, FS_EmptySet
    <3> QED BY <3>1, <3>2
  <2>3. r # Nobody
    BY SchedulerAssumption
  <2>4. Where(r) = IF r \in InHand THEN 1 ELSE 0
    <3>1. Where(r) = Cardinality(Places(r).waiting) + Cardinality(Places(r).running)
                       + Cardinality(Places(r).joining)
      BY DEF Where
    <3>2. /\ ~ (r \in ToSet(waiting) /\ r \in ToSet(running))
          /\ joining = r => r \notin ToSet(waiting) /\ r \notin ToSet(running)
      BY DEF Inv, Queues
    <3>3. r \in InHand <=> r \in ToSet(waiting) \/ r \in ToSet(running) \/ joining = r
      BY <2>3 DEF InHand
    <3> QED BY <2>1, <2>2, <3>1, <3>2, <3>3
  <2> QED BY <2>4 DEF Inv, Queues, OthersHoldNothing
<1> QED BY <1>1, InvAlways, PTL

\* In every reachable state with a planned pass each of its rows continues its
\* own sequence where the cache stops: the tokens that come next, at their
\* positions, in slots that exist, over blocks that hold exactly that sequence's
\* history; it asks for a token exactly when it reaches the end of what is known,
\* and no sequence is in the pass twice (scheduler.rs mixed, admit, decode).
THEOREM PlansAreSound == Spec => []PlansContinueHistories
<1>1. Inv /\ KVP!TablesHoldTheirHistory => PlansContinueHistories
  <2> SUFFICES ASSUME Inv, KVP!TablesHoldTheirHistory, pc = "planned"
               PROVE  PlansContinueHistories
    BY DEF PlansContinueHistories
  <2>1. ASSUME NEW k \in DOMAIN plan
        PROVE  /\ plan[k].id \in Request /\ Ahead(plan[k])
               /\ \A j \in DOMAIN plan : plan[j].id = plan[k].id => j = k
               /\ plan[k].id \in ToSet(running)
               /\ plan[k].tokens \in Seq(Token)
    BY PlanRowType DEF Inv, PlanHolds, Passing
  <2>2. ASSUME NEW k \in DOMAIN plan
        PROVE  /\ plan[k].tokens # <<>>
               /\ plan[k].pos = table[plan[k].id].tokens
               /\ plan[k].pos + Len(plan[k].tokens) <= Capacity(table[plan[k].id])
               /\ plan[k].tokens = SubSeq(seq[plan[k].id].history, plan[k].pos + 1,
                                          plan[k].pos + Len(plan[k].tokens))
               /\ plan[k].predicts <=>
                    plan[k].pos + Len(plan[k].tokens) = Len(seq[plan[k].id].history)
    <3>1. Len(plan[k].tokens) > 0 /\ Len(<<>>) = 0
      BY <2>1 DEF Ahead
    <3> QED BY <2>1, <3>1 DEF Ahead
  <2>3. ASSUME NEW k \in DOMAIN plan
        PROVE  Holds(kv, table[plan[k].id],
                     SubSeq(seq[plan[k].id].history, 1, plan[k].pos))
    <3>1. PICK r \in Request : r = plan[k].id
      BY <2>1
    <3>2. [q \in Request |-> seq[q].history][r] = seq[r].history
      BY <3>1
    <3>3. KVP!Holds(kv, table[r], SubSeq(seq[r].history, 1, table[r].tokens))
      BY <3>2 DEF KVP!TablesHoldTheirHistory
    <3> QED BY <2>2, <3>1, <3>3, SamePass
  <2> QED BY <2>1, <2>2, <2>3 DEF PlansContinueHistories
<1>2. Spec => []KVP!TablesHoldTheirHistory
  <2>1. KVP!Spec => []KVP!TablesHoldTheirHistory
    BY KVP!HistoriesHeld, MappedAssumptions
    DEF KVP!HistoriesHeld, KVP!BlocksAssumption, KVP!OwnerAssumption
  <2> QED BY <2>1, SchedulerIsPagedKV, PTL
<1> QED BY <1>1, <1>2, InvAlways, PTL
=============================================================================
