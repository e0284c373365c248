---------------------------- MODULE BlocksProofs ----------------------------
(***************************************************************************)
(* What the operations on a pool and on a table keep: lemmas the proofs    *)
(* about PagedKV cite.                                                     *)
(***************************************************************************)
EXTENDS Blocks, FiniteSetTheorems, SequenceTheorems, WellFoundedInduction, TLAPS

-----------------------------------------------------------------------------
(* Numbers, one after the other. *)

\* A set of numbers that is not empty has a first element.
LEMMA Least ==
  ASSUME NEW P \in SUBSET Nat, P # {}
  PROVE  \E i \in P : \A j \in P : i <= j
<1>1. \E x \in P : \A y \in P : ~ (<<y, x>> \in OpToRel(<, Nat))
  BY WFMin, NatLessThanWellFounded
<1>2. PICK x \in P : \A y \in P : ~ (<<y, x>> \in OpToRel(<, Nat))
  BY <1>1
<1>3. \A y \in P : ~ (y < x)
  BY <1>2 DEF OpToRel
<1>4. x \in Nat /\ \A y \in P : y \in Nat
  OBVIOUS
<1> QED BY <1>3, <1>4

\* Induction, over the set of the numbers with a property.
LEMMA Inductive ==
  ASSUME NEW a \in Nat, NEW P \in SUBSET Nat, a \in P,
         \A n \in Nat : a <= n /\ n \in P => n + 1 \in P
  PROVE  \A n \in Nat : a <= n => n \in P
<1> DEFINE Q == {n \in Nat : a <= n /\ n \notin P}
<1> SUFFICES ASSUME Q # {} PROVE FALSE
  OBVIOUS
<1>1. PICK m \in Q : \A j \in Q : m <= j
  <2>1. Q \in SUBSET Nat
    OBVIOUS
  <2> HIDE DEF Q
  <2> QED BY <2>1, Least
<1>2. m \in Nat /\ a <= m /\ m \notin P /\ m # a
  OBVIOUS
<1>3. m - 1 \in Nat /\ a <= m - 1 /\ m - 1 \notin Q
  BY <1>1, <1>2
<1> QED BY <1>2, <1>3

\* Two functions that start alike and go on alike are alike at every number.
LEMMA SameFrom ==
  ASSUME NEW n \in Nat, NEW f, NEW g, f[0] = g[0],
         \A k \in 1..n : f[k - 1] = g[k - 1] => f[k] = g[k]
  PROVE  f[n] = g[n]
<1> DEFINE P == {k \in Nat : k <= n => f[k] = g[k]}
<1>1. 0 \in P
  OBVIOUS
<1>2. ASSUME NEW k \in Nat, k \in P PROVE k + 1 \in P
  <2> SUFFICES ASSUME k + 1 <= n PROVE f[k + 1] = g[k + 1]
    OBVIOUS
  <2>1. k + 1 \in 1..n /\ (k + 1) - 1 = k /\ f[k] = g[k]
    BY <1>2
  <2> QED BY <2>1
<1>3. n \in P
  <2>1. P \in SUBSET Nat
    OBVIOUS
  <2> HIDE DEF P
  <2> QED BY <1>1, <1>2, <2>1, Inductive
<1> QED BY <1>3

-----------------------------------------------------------------------------
(* Arithmetic of block boundaries. *)

\* Multiplying by the block size keeps the order.
LEMMA MulMono ==
  ASSUME NEW a \in Nat, NEW b \in Nat, a <= b
  PROVE  a * BlockSize <= b * BlockSize
BY BlocksAssumption

\* How many whole blocks a number of tokens fills.
LEMMA DivMul ==
  ASSUME NEW a \in Nat
  PROVE  /\ a \div BlockSize \in Nat
         /\ (a \div BlockSize) * BlockSize <= a
         /\ a < (a \div BlockSize + 1) * BlockSize
BY BlocksAssumption

\* A position below the capacity of k blocks lies in one of them.
LEMMA DivBelow ==
  ASSUME NEW a \in Nat, NEW k \in Nat, a < k * BlockSize
  PROVE  a \div BlockSize \in 0..(k - 1)
BY BlocksAssumption

\* slot_of: the offset of a position is an offset of a block.
LEMMA ModInOffset ==
  ASSUME NEW a \in Nat
  PROVE  a % BlockSize \in Offset
BY BlocksAssumption DEF Offset

\* Every block a prompt may share ends before the prompt does.
LEMMA CandidatesEndEarly ==
  ASSUME NEW prompt \in Seq(Token), NEW k \in Nat, k <= Candidates(prompt)
  PROVE  k = 0 \/ k * BlockSize < Len(prompt)
BY BlocksAssumption DEF Candidates, CeilDiv, AtLeast

\* claim_prefix looks at a number of blocks.
LEMMA CandidatesNat ==
  ASSUME NEW prompt \in Seq(Token)
  PROVE  Candidates(prompt) \in Nat
BY BlocksAssumption DEF Candidates, CeilDiv, AtLeast

-----------------------------------------------------------------------------
(* The pool. *)

\* A member of Index is a partial function from names to blocks.
LEMMA IndexFunction ==
  ASSUME NEW f \in Index
  PROVE  DOMAIN f \subseteq Name /\ f \in [DOMAIN f -> Block]
BY DEF Index

\* A partial function from names to blocks is a member of Index.
LEMMA FunctionIndex ==
  ASSUME NEW N \in SUBSET Name, NEW f \in [N -> Block]
  PROVE  f \in Index
BY DEF Index

\* The absent name has the type of a name.
LEMMA NoNameType == NoName \in Name
BY DEF NoName, Name

\* BlockAllocator::new makes a pool.
LEMMA NewPoolType == NewPool \in Pool
<1>1. [n \in {} |-> n] \in Index
  <2>1. [n \in {} |-> n] \in [{} -> Block]
    OBVIOUS
  <2> QED BY <2>1, FunctionIndex
<1> QED BY <1>1, NoNameType DEF NewPool, Pool

\* forget leaves an index.
LEMMA UnindexedType ==
  ASSUME NEW p \in Pool, NEW b \in Block
  PROVE  Unindexed(p, b) \in Index
<1> DEFINE N == {m \in DOMAIN p.cached : ~ (m = p.hash[b] /\ p.cached[m] = b)}
<1>1. p.cached \in Index
  BY DEF Pool
<1>2. N \in SUBSET Name /\ \A n \in N : p.cached[n] \in Block
  BY <1>1, IndexFunction
<1>3. [n \in N |-> p.cached[n]] \in [N -> Block]
  BY <1>2
<1> QED BY <1>2, <1>3, FunctionIndex DEF Unindexed

\* allocate leaves a pool.
LEMMA AllocateType ==
  ASSUME NEW p \in Pool, NEW b \in Block
  PROVE  Allocate(p, b) \in Pool
BY UnindexedType, NoNameType DEF Allocate, Pool

\* allocate returns a block of the free list.
LEMMA AllocatableFree ==
  ASSUME NEW p \in Pool, NEW b \in Allocatable(p)
  PROVE  b \in p.free /\ b \in Block
BY DEF Allocatable, Anonymous, LeastRecent, Pool

\* acquire_cached leaves a pool.
LEMMA AcquireCachedType ==
  ASSUME NEW p \in Pool, NEW S \in SUBSET Block
  PROVE  AcquireCached(p, S) \in Pool
<1> DEFINE holders == [b \in Block |-> IF b \in S THEN p.holders[b] + 1 ELSE p.holders[b]]
<1>1. holders \in [Block -> Nat]
  BY DEF Pool
<1>2. AcquireCached(p, S) = [p EXCEPT !.holders = holders, !.free = p.free \ S]
  BY DEF AcquireCached
<1> HIDE DEF holders
<1> QED BY <1>1, <1>2 DEF Pool

\* clear_cache leaves a pool.
LEMMA ClearCacheType ==
  ASSUME NEW p \in Pool
  PROVE  ClearCache(p) \in Pool
<1>1. [n \in {} |-> n] \in Index
  <2>1. [n \in {} |-> n] \in [{} -> Block]
    OBVIOUS
  <2> QED BY <2>1, FunctionIndex
<1> QED BY <1>1, NoNameType DEF ClearCache, Pool

\* free_table leaves a pool: every stamp it gives is a number.
LEMMA ReleaseAllType ==
  ASSUME NEW p \in Pool, NEW blocks \in Seq(Block)
  PROVE  ReleaseAll(p, blocks) \in Pool
<1> DEFINE last == {i \in DOMAIN blocks : p.holders[blocks[i]] = 1}
           rank(b) == Cardinality({j \in last :
                         \E i \in last : blocks[i] = b /\ j <= i})
           freed == {blocks[i] : i \in last}
           taken == {blocks[i] : i \in DOMAIN blocks}
           holders == [b \in Block |->
               IF b \in taken THEN AtLeast(p.holders[b] - 1, 0) ELSE p.holders[b]]
           stamps == [b \in Block |->
               IF b \in freed THEN p.clock + rank(b) ELSE p.released_at[b]]
<1>1. IsFiniteSet(last)
  <2>1. DOMAIN blocks = 1..Len(blocks) /\ Len(blocks) \in Nat
    OBVIOUS
  <2>2. IsFiniteSet(1..Len(blocks))
    BY <2>1, FS_Interval
  <2> QED BY <2>1, <2>2, FS_Subset
<1>2. Cardinality(last) \in Nat
  BY <1>1, FS_CardinalityType
<1>3. \A b \in Block : rank(b) \in Nat
  BY <1>1, FS_Subset, FS_CardinalityType
<1>4. holders \in [Block -> Nat]
  BY DEF Pool, AtLeast
<1>5. freed \in SUBSET Block
  OBVIOUS
<1>6. ReleaseAll(p, blocks) =
        [p EXCEPT !.holders = holders, !.clock = p.clock + Cardinality(last),
                  !.released_at = stamps, !.free = p.free \cup freed]
  BY DEF ReleaseAll
<1> HIDE DEF rank, last, freed, holders
<1>7. stamps \in [Block -> Nat]
  BY <1>3 DEF Pool
<1>8. p.clock + Cardinality(last) \in Nat /\ p.free \cup freed \in SUBSET Block
  BY <1>2, <1>5 DEF Pool
<1> HIDE DEF stamps
<1> QED BY <1>4, <1>6, <1>7, <1>8 DEF Pool

-----------------------------------------------------------------------------
(* Tables. *)

\* A new table is well formed.
LEMMA NewTableType == NewTable \in Table /\ WellFormed(NewTable)
BY BlocksAssumption DEF NewTable, Table, WellFormed, Capacity

\* A table with one more block is well formed: only its capacity grew.
LEMMA PushType ==
  ASSUME NEW t \in Table, WellFormed(t), NEW b \in Block
  PROVE  Push(t, b) \in Table /\ WellFormed(Push(t, b))
<1>1. Append(t.blocks, b) \in Seq(Block) /\ Len(Append(t.blocks, b)) = Len(t.blocks) + 1
  BY DEF Table
<1>2. /\ Push(t, b).blocks = Append(t.blocks, b)
      /\ Push(t, b).tokens = t.tokens
      /\ Push(t, b).hashes = t.hashes
  BY DEF Push, Table
<1>3. Push(t, b) \in Table
  BY <1>1 DEF Push, Table
<1>4. Len(t.blocks) * BlockSize <= (Len(t.blocks) + 1) * BlockSize
  BY MulMono DEF Table
<1>5. WellFormed(Push(t, b))
  BY <1>1, <1>2, <1>4, BlocksAssumption DEF WellFormed, Capacity, Table
<1> QED BY <1>3, <1>5

\* advance moves only the token count, and never past the capacity.
LEMMA AdvanceType ==
  ASSUME NEW t \in Table, WellFormed(t), NEW count \in Nat
  PROVE  /\ Advance(t, count) \in Table
         /\ WellFormed(Advance(t, count))
         /\ Advance(t, count).blocks = t.blocks
         /\ Advance(t, count).hashes = t.hashes
BY BlocksAssumption, SMTT(60) DEF Advance, Table, WellFormed, Capacity

\* newly_full names whole blocks that hold tokens.
LEMMA FullBounds ==
  ASSUME NEW t \in Table, WellFormed(t), NEW history \in Seq(Token)
  PROVE  /\ Full(t, history) \in Nat
         /\ Len(t.hashes) <= Full(t, history)
         /\ Full(t, history) <= Len(t.blocks)
         /\ Full(t, history) * BlockSize <= t.tokens
         /\ Full(t, history) > Len(t.hashes) =>
              Full(t, history) * BlockSize <= Len(history)
<1> DEFINE a == t.tokens \div BlockSize
           c == Len(history) \div BlockSize
<1>1. /\ Len(t.blocks) \in Nat /\ Len(t.hashes) \in Nat /\ t.tokens \in Nat
      /\ Len(history) \in Nat /\ Len(t.hashes) <= Len(t.blocks)
      /\ Len(t.hashes) * BlockSize <= t.tokens
  BY DEF Table, WellFormed
<1>2. a \in Nat /\ a * BlockSize <= t.tokens
  BY <1>1, DivMul
<1>3. c \in Nat /\ c * BlockSize <= Len(history)
  BY <1>1, DivMul
<1>4. ASSUME NEW n \in Nat
      PROVE  /\ n <= a => n * BlockSize <= t.tokens
             /\ n <= c => n * BlockSize <= Len(history)
  <2>1. n <= a => n * BlockSize <= a * BlockSize
    BY <1>2, MulMono
  <2>2. n <= c => n * BlockSize <= c * BlockSize
    BY <1>3, MulMono
  <2> HIDE DEF a, c
  <2> QED BY <1>1, <1>2, <1>3, <2>1, <2>2, BlocksAssumption, SMTT(60)
<1>5. Full(t, history) = AtLeast(Len(t.hashes), AtMost(AtMost(a, Len(t.blocks)), c))
  BY DEF Full
<1> HIDE DEF a, c
<1> QED BY <1>1, <1>2, <1>3, <1>4, <1>5 DEF AtLeast, AtMost

\* newly_full gives names.
LEMMA FullNameType ==
  ASSUME NEW t \in Table, WellFormed(t), NEW history \in Seq(Token),
         NEW i \in 1..Full(t, history)
  PROVE  FullName(t, history, i) \in Name
<1>1. /\ Full(t, history) \in Nat /\ Len(t.hashes) \in Nat
      /\ t.hashes \in Seq(Name)
  BY FullBounds DEF Table
<1>2. CASE i <= Len(t.hashes)
  BY <1>1, <1>2 DEF FullName
<1>3. CASE i > Len(t.hashes)
  <2>1. LastHash(t) \in Seq(Token)
    BY <1>1 DEF LastHash, NoName, Name
  <2>2. i * BlockSize <= Len(history)
    <3>1. i * BlockSize <= Full(t, history) * BlockSize
      BY <1>1, MulMono
    <3>2. Full(t, history) * BlockSize <= Len(history)
      BY <1>1, <1>3, FullBounds
    <3> QED BY <1>1, <3>1, <3>2, BlocksAssumption
  <2>3. Len(t.hashes) * BlockSize \in Nat /\ i * BlockSize \in Nat
    BY <1>1, BlocksAssumption
  <2>4. SubSeq(history, Len(t.hashes) * BlockSize + 1, i * BlockSize) \in Seq(Token)
    BY <2>2, <2>3
  <2> QED BY <1>1, <1>3, <2>1, <2>4 DEF FullName, BlockHash, Name
<1> QED BY <1>1, <1>2, <1>3

\* newly_full leaves a well formed table whose blocks are the same.
LEMMA NameFullType ==
  ASSUME NEW t \in Table, WellFormed(t), NEW history \in Seq(Token)
  PROVE  /\ NameFull(t, history) \in Table
         /\ WellFormed(NameFull(t, history))
         /\ NameFull(t, history).blocks = t.blocks
         /\ Len(NameFull(t, history).hashes) = Full(t, history)
<1> DEFINE names == [i \in 1..Full(t, history) |-> FullName(t, history, i)]
<1>1. /\ Full(t, history) \in Nat
      /\ Full(t, history) <= Len(t.blocks)
      /\ Full(t, history) * BlockSize <= t.tokens
  BY FullBounds
<1>2. names \in [1..Full(t, history) -> Name]
  BY FullNameType
<1>3. names \in Seq(Name) /\ Len(names) = Full(t, history)
  BY <1>1, <1>2
<1>4. NameFull(t, history) = [t EXCEPT !.hashes = names]
  BY DEF NameFull
<1> HIDE DEF names
<1>5. /\ NameFull(t, history) \in Table
      /\ NameFull(t, history).blocks = t.blocks
      /\ NameFull(t, history).tokens = t.tokens
      /\ NameFull(t, history).hashes = names
  BY <1>3, <1>4 DEF Table
<1>6. WellFormed(NameFull(t, history))
  BY <1>1, <1>3, <1>5 DEF WellFormed, Capacity, Table
<1> QED BY <1>3, <1>5, <1>6

\* Names given to different blocks have different lengths, and none is empty.
LEMMA FullNameLength ==
  ASSUME NEW t \in Table, WellFormed(t), NEW history \in Seq(Token),
         NEW i \in (Len(t.hashes) + 1)..Full(t, history)
  PROVE  /\ FullName(t, history, i) \in Name
         /\ Len(FullName(t, history, i)) =
              Len(LastHash(t)) + (i * BlockSize - Len(t.hashes) * BlockSize)
         /\ i * BlockSize > Len(t.hashes) * BlockSize
         /\ Len(LastHash(t)) \in Nat
<1>1. /\ Full(t, history) \in Nat /\ Len(t.hashes) \in Nat /\ Len(history) \in Nat
      /\ t.hashes \in Seq(Name) /\ i \in Nat
  BY FullBounds DEF Table
<1>2. LastHash(t) \in Seq(Token) /\ Len(LastHash(t)) \in Nat
  BY <1>1 DEF LastHash, NoName, Name
<1>3. i * BlockSize <= Len(history)
  <2>1. i * BlockSize <= Full(t, history) * BlockSize
    BY <1>1, MulMono
  <2>2. Full(t, history) * BlockSize <= Len(history)
    BY <1>1, FullBounds
  <2> QED BY <1>1, <2>1, <2>2, BlocksAssumption
<1>4. i * BlockSize > Len(t.hashes) * BlockSize
  <2>1. (Len(t.hashes) + 1) * BlockSize <= i * BlockSize
    BY <1>1, MulMono
  <2> QED BY <1>1, <2>1, BlocksAssumption
<1>5. Len(t.hashes) * BlockSize \in Nat /\ i * BlockSize \in Nat
  BY <1>1, BlocksAssumption
<1> DEFINE lo == Len(t.hashes) * BlockSize
           hi == i * BlockSize
           tokens == SubSeq(history, lo + 1, hi)
<1>6. tokens \in Seq(Token) /\ Len(tokens) = hi - lo
  <2> HIDE DEF lo, hi
  <2>1. lo \in Nat /\ hi \in Nat /\ lo < hi /\ hi <= Len(history)
    BY <1>3, <1>4, <1>5 DEF lo, hi
  <2> QED BY <2>1, <1>1
<1>7. FullName(t, history, i) = LastHash(t) \o tokens
  <2>1. ~ (i <= Len(t.hashes))
    BY <1>1
  <2> QED BY <2>1 DEF FullName, BlockHash
<1> HIDE DEF tokens, lo, hi
<1>8. LastHash(t) \o tokens \in Seq(Token)
      /\ Len(LastHash(t) \o tokens) = Len(LastHash(t)) + Len(tokens)
  BY <1>2, <1>6, SMTT(60)
<1> QED BY <1>2, <1>4, <1>6, <1>7, <1>8 DEF Name, lo, hi

\* newly_full gives different blocks different names.
LEMMA FullNamesDiffer ==
  ASSUME NEW t \in Table, WellFormed(t), NEW history \in Seq(Token),
         NEW i \in (Len(t.hashes) + 1)..Full(t, history),
         NEW j \in (Len(t.hashes) + 1)..Full(t, history),
         FullName(t, history, i) = FullName(t, history, j)
  PROVE  i = j
<1>1. Len(t.hashes) \in Nat /\ Full(t, history) \in Nat /\ i \in Nat /\ j \in Nat
  BY FullBounds DEF Table
<1>2. i * BlockSize = j * BlockSize
  <2>1. i * BlockSize \in Nat /\ j * BlockSize \in Nat /\ Len(t.hashes) * BlockSize \in Nat
    BY <1>1, BlocksAssumption
  <2>2. Len(FullName(t, history, i)) = Len(LastHash(t)) + (i * BlockSize - Len(t.hashes) * BlockSize)
        /\ Len(LastHash(t)) \in Nat
    BY FullNameLength, ZenonT(60)
  <2>3. Len(FullName(t, history, j)) = Len(LastHash(t)) + (j * BlockSize - Len(t.hashes) * BlockSize)
    BY FullNameLength, ZenonT(60)
  <2> QED BY <2>1, <2>2, <2>3, SMTT(60)
<1> QED BY <1>1, <1>2, BlocksAssumption

\* The pool once the newly full blocks of a table up to the m-th are published.
NewTo(p, t, history, m) ==
    {i \in (Len(t.hashes) + 1)..m :
        Publishable(p, t.blocks[i], FullName(t, history, i))}
PublishedTo(p, t, history, m) ==
    LET new == NewTo(p, t, history, m)
        named == {FullName(t, history, i) : i \in new}
        at(b) == CHOOSE i \in new : t.blocks[i] = b
        of(n) == CHOOSE i \in new : FullName(t, history, i) = n
    IN  [p EXCEPT
           !.hash = [b \in Block |->
               IF b \in {t.blocks[i] : i \in new}
               THEN FullName(t, history, at(b)) ELSE @[b]],
           !.cached = [n \in DOMAIN @ \cup named |->
               IF n \in named THEN t.blocks[of(n)] ELSE @[n]]]

\* What a pool is in which the blocks at the positions in new were published.
Publishes(p, q, t, history, new) ==
    /\ q \in Pool
    /\ q.holders = p.holders /\ q.free = p.free
    /\ q.released_at = p.released_at /\ q.clock = p.clock
    /\ DOMAIN q.cached = DOMAIN p.cached \cup {FullName(t, history, i) : i \in new}
    /\ \A i \in new : /\ q.hash[t.blocks[i]] = FullName(t, history, i)
                      /\ q.cached[FullName(t, history, i)] = t.blocks[i]
    /\ \A b \in Block : (\A i \in new : b # t.blocks[i]) => q.hash[b] = p.hash[b]
    /\ \A n \in DOMAIN p.cached :
         (\A i \in new : n # FullName(t, history, i)) => q.cached[n] = p.cached[n]

\* That is what it is, when no block is in the unnamed part of the table twice.
LEMMA PublishedToFields ==
  ASSUME NEW p \in Pool, NEW t \in Table, WellFormed(t), NEW history \in Seq(Token),
         \A i, j \in (Len(t.hashes) + 1)..Full(t, history) :
            t.blocks[i] = t.blocks[j] => i = j,
         NEW m \in Len(t.hashes)..Full(t, history)
  PROVE  Publishes(p, PublishedTo(p, t, history, m), t, history, NewTo(p, t, history, m))
<1> DEFINE new == NewTo(p, t, history, m)
           q == PublishedTo(p, t, history, m)
           name(i) == FullName(t, history, i)
           named == {name(i) : i \in new}
           taken == {t.blocks[i] : i \in new}
           at(b) == CHOOSE i \in new : t.blocks[i] = b
           of(n) == CHOOSE i \in new : name(i) = n
           hash == [b \in Block |-> IF b \in taken THEN name(at(b)) ELSE p.hash[b]]
           cached == [n \in DOMAIN p.cached \cup named |->
                        IF n \in named THEN t.blocks[of(n)] ELSE p.cached[n]]
<1>1. q = [p EXCEPT !.hash = hash, !.cached = cached]
  BY DEF PublishedTo
<1>0. /\ Len(t.hashes) \in Nat /\ Full(t, history) \in Nat
      /\ Full(t, history) <= Len(t.blocks) /\ t.blocks \in Seq(Block)
  BY FullBounds DEF Table
<1>15. \A i \in new : i \in (Len(t.hashes) + 1)..Full(t, history)
  BY <1>0 DEF NewTo
<1>2. \A i \in new : i \in 1..Full(t, history) /\ t.blocks[i] \in Block /\ name(i) \in Name
  BY <1>0, <1>15, FullNameType
<1>3. \A i \in new : at(t.blocks[i]) = i
  BY <1>15
<1>4. \A i \in new : of(name(i)) = i
  BY <1>15, FullNamesDiffer
<1> HIDE DEF name, at, of, new, q
<1>5. hash \in [Block -> Name]
  BY <1>2, <1>3 DEF Pool
<1>6. /\ DOMAIN p.cached \subseteq Name /\ p.cached \in [DOMAIN p.cached -> Block]
  BY IndexFunction DEF Pool
<1>7. cached \in [DOMAIN p.cached \cup named -> Block]
  BY <1>2, <1>4, <1>6
<1>8. cached \in Index
  <2>1. DOMAIN p.cached \cup named \in SUBSET Name
    BY <1>2, <1>6
  <2> HIDE DEF cached, named
  <2> QED BY <1>7, <2>1, FunctionIndex
<1>9. \A i \in new : hash[t.blocks[i]] = name(i) /\ cached[name(i)] = t.blocks[i]
  BY <1>2, <1>3, <1>4
<1>10. \A b \in Block : (\A i \in new : b # t.blocks[i]) => hash[b] = p.hash[b]
  OBVIOUS
<1>11. \A n \in DOMAIN p.cached : (\A i \in new : n # name(i)) => cached[n] = p.cached[n]
  OBVIOUS
<1>12. DOMAIN cached = DOMAIN p.cached \cup named
  OBVIOUS
<1> HIDE DEF hash, cached
<1>13. q \in Pool
  BY <1>1, <1>5, <1>8 DEF Pool
<1>14. /\ q.hash = hash /\ q.cached = cached
       /\ q.holders = p.holders /\ q.free = p.free
       /\ q.released_at = p.released_at /\ q.clock = p.clock
  BY <1>1 DEF Pool
<1>16. /\ DOMAIN q.cached = DOMAIN p.cached \cup {name(i) : i \in new}
       /\ \A i \in new : q.hash[t.blocks[i]] = name(i) /\ q.cached[name(i)] = t.blocks[i]
       /\ \A b \in Block : (\A i \in new : b # t.blocks[i]) => q.hash[b] = p.hash[b]
       /\ \A n \in DOMAIN p.cached :
            (\A i \in new : n # name(i)) => q.cached[n] = p.cached[n]
  BY <1>9, <1>10, <1>11, <1>12, <1>14
<1> QED BY <1>13, <1>14, <1>16 DEF Publishes, name, new, q

\* All of them published is what PublishFull says.
LEMMA PublishFullIsAll ==
  ASSUME NEW p, NEW t, NEW history
  PROVE  PublishFull(p, t, history) = PublishedTo(p, t, history, Full(t, history))
BY DEF PublishFull, PublishedTo, Published, NewTo

\* What publishing the newly full blocks of a table does to the pool, when no
\* block is in the unnamed part of the table twice.
LEMMA PublishFullFields ==
  ASSUME NEW p \in Pool, NEW t \in Table, WellFormed(t), NEW history \in Seq(Token),
         \A i, j \in (Len(t.hashes) + 1)..Full(t, history) :
            t.blocks[i] = t.blocks[j] => i = j,
         NEW new, new = Published(p, t, history),
         NEW q, q = PublishFull(p, t, history)
  PROVE  /\ q \in Pool
         /\ q.holders = p.holders /\ q.free = p.free
         /\ DOMAIN q.cached = DOMAIN p.cached \cup {FullName(t, history, i) : i \in new}
         /\ \A i \in new : /\ q.hash[t.blocks[i]] = FullName(t, history, i)
                           /\ q.cached[FullName(t, history, i)] = t.blocks[i]
         /\ \A b \in Block : (\A i \in new : b # t.blocks[i]) => q.hash[b] = p.hash[b]
         /\ \A n \in DOMAIN p.cached :
              (\A i \in new : n # FullName(t, history, i)) => q.cached[n] = p.cached[n]
<1>1. Full(t, history) \in Len(t.hashes)..Full(t, history)
  BY FullBounds DEF Table
<1>2. new = NewTo(p, t, history, Full(t, history))
  BY DEF Published, NewTo
<1>3. q = PublishedTo(p, t, history, Full(t, history))
  BY PublishFullIsAll
<1>4. Publishes(p, PublishedTo(p, t, history, Full(t, history)), t, history,
                NewTo(p, t, history, Full(t, history)))
  BY <1>1, PublishedToFields
<1>5. Publishes(p, q, t, history, new)
  BY <1>2, <1>3, <1>4
<1> QED BY <1>5 DEF Publishes

\* Without the assumption that the blocks differ, its type.
LEMMA PublishFullType ==
  ASSUME NEW p \in Pool, NEW t \in Table, WellFormed(t), NEW history \in Seq(Token)
  PROVE  PublishFull(p, t, history) \in Pool
<1> DEFINE new == Published(p, t, history)
           name(i) == FullName(t, history, i)
           named == {name(i) : i \in new}
           taken == {t.blocks[i] : i \in new}
           at(b) == CHOOSE i \in new : t.blocks[i] = b
           of(n) == CHOOSE i \in new : name(i) = n
           hash == [b \in Block |-> IF b \in taken THEN name(at(b)) ELSE p.hash[b]]
           cached == [n \in DOMAIN p.cached \cup named |->
                        IF n \in named THEN t.blocks[of(n)] ELSE p.cached[n]]
<1>1. PublishFull(p, t, history) = [p EXCEPT !.hash = hash, !.cached = cached]
  BY DEF PublishFull
<1>2. \A i \in new : i \in 1..Full(t, history) /\ t.blocks[i] \in Block /\ name(i) \in Name
  <2>1. Len(t.hashes) \in Nat /\ Full(t, history) \in Nat /\ Full(t, history) <= Len(t.blocks)
        /\ t.blocks \in Seq(Block)
    BY FullBounds DEF Table
  <2> QED BY <2>1, FullNameType DEF Published
<1>3. \A b \in taken : at(b) \in new
  OBVIOUS
<1>4. \A n \in named : of(n) \in new
  OBVIOUS
<1> HIDE DEF name, at, of, new
<1>5. hash \in [Block -> Name]
  BY <1>2, <1>3 DEF Pool
<1>6. /\ DOMAIN p.cached \subseteq Name /\ p.cached \in [DOMAIN p.cached -> Block]
  BY IndexFunction DEF Pool
<1>7. cached \in [DOMAIN p.cached \cup named -> Block]
  BY <1>2, <1>4, <1>6
<1>8. DOMAIN p.cached \cup named \in SUBSET Name
  BY <1>2, <1>6
<1> HIDE DEF cached, named, hash
<1>9. cached \in Index
  BY <1>7, <1>8, FunctionIndex
<1> QED BY <1>1, <1>5, <1>9 DEF Pool

\* Giving a table back frees exactly the blocks it was the last to hold.
LEMMA ReleaseAllFields ==
  ASSUME NEW p \in Pool, NEW blocks \in Seq(Block),
         NEW taken, taken = {blocks[i] : i \in DOMAIN blocks},
         \A b \in taken : p.holders[b] > 0,
         NEW q, q = ReleaseAll(p, blocks)
  PROVE  /\ q \in Pool
         /\ q.hash = p.hash /\ q.cached = p.cached
         /\ \A b \in taken : q.holders[b] = p.holders[b] - 1
         /\ \A b \in Block \ taken : q.holders[b] = p.holders[b]
         /\ q.free = p.free \cup {b \in taken : p.holders[b] = 1}
<1> DEFINE last == {i \in DOMAIN blocks : p.holders[blocks[i]] = 1}
           holders == [b \in Block |->
               IF b \in taken THEN AtLeast(p.holders[b] - 1, 0) ELSE p.holders[b]]
           freed == {blocks[i] : i \in last}
<1>1. q \in Pool
  BY ReleaseAllType
<1>2. q.holders = holders /\ q.free = p.free \cup freed /\ q.hash = p.hash
      /\ q.cached = p.cached
  BY DEF ReleaseAll, Pool
<1>3. taken \subseteq Block
  OBVIOUS
<1>4. \A b \in taken : holders[b] = p.holders[b] - 1
  <2>1. \A b \in Block : p.holders[b] \in Nat
    BY DEF Pool
  <2> SUFFICES ASSUME NEW b \in taken PROVE holders[b] = p.holders[b] - 1
    OBVIOUS
  <2>2. p.holders[b] \in Nat /\ p.holders[b] > 0 /\ b \in Block
    BY <1>3, <2>1
  <2>3. holders[b] = AtLeast(p.holders[b] - 1, 0)
    BY <2>2
  <2> QED BY <2>2, <2>3 DEF AtLeast
<1>5. freed = {b \in taken : p.holders[b] = 1}
  OBVIOUS
<1> QED BY <1>1, <1>2, <1>4, <1>5

-----------------------------------------------------------------------------
(* The loop over a table that is given back. *)

\* A pool is its six fields.
LEMMA PoolFields ==
  ASSUME NEW p \in Pool, NEW q \in Pool,
         p.holders = q.holders, p.hash = q.hash, p.released_at = q.released_at,
         p.free = q.free, p.cached = q.cached, p.clock = q.clock
  PROVE  p = q
BY DEF Pool

\* The positions of the blocks a table is the last to hold, and the order in
\* which a block of it is freed.
LastHeld(p, blocks) == {i \in DOMAIN blocks : p.holders[blocks[i]] = 1}
Rank(p, blocks, b) ==
    {j \in LastHeld(p, blocks) :
        \E i \in LastHeld(p, blocks) : blocks[i] = b /\ j <= i}
Freed(p, blocks) == {blocks[i] : i \in LastHeld(p, blocks)}
TakenBlocks(blocks) == {blocks[i] : i \in DOMAIN blocks}

\* The fields of a pool a table was given back to.
LEMMA ReleaseAllIs ==
  ASSUME NEW p \in Pool, NEW blocks \in Seq(Block), NEW q, q = ReleaseAll(p, blocks)
  PROVE  /\ q \in Pool
         /\ q.holders = [b \in Block |-> IF b \in TakenBlocks(blocks)
                            THEN AtLeast(p.holders[b] - 1, 0) ELSE p.holders[b]]
         /\ q.released_at = [b \in Block |-> IF b \in Freed(p, blocks)
                                THEN p.clock + Cardinality(Rank(p, blocks, b))
                                ELSE p.released_at[b]]
         /\ q.clock = p.clock + Cardinality(LastHeld(p, blocks))
         /\ q.free = p.free \cup Freed(p, blocks)
         /\ q.hash = p.hash /\ q.cached = p.cached
<1>1. q \in Pool
  BY ReleaseAllType
<1> QED BY <1>1 DEF ReleaseAll, Pool, LastHeld, Rank, Freed, TakenBlocks

\* The positions of a table the pool alone counts are finitely many.
LEMMA LastHeldFinite ==
  ASSUME NEW p, NEW blocks \in Seq(Block)
  PROVE  /\ LastHeld(p, blocks) \subseteq 1..Len(blocks)
         /\ IsFiniteSet(LastHeld(p, blocks))
         /\ Cardinality(LastHeld(p, blocks)) \in Nat
<1>1. DOMAIN blocks = 1..Len(blocks) /\ Len(blocks) \in Nat
  OBVIOUS
<1>2. IsFiniteSet(1..Len(blocks))
  BY <1>1, FS_Interval
<1>3. LastHeld(p, blocks) \subseteq 1..Len(blocks)
  BY <1>1 DEF LastHeld
<1> QED BY <1>2, <1>3, FS_Subset, FS_CardinalityType

\* Giving back no blocks leaves the pool as it is.
LEMMA ReleaseNone ==
  ASSUME NEW p \in Pool
  PROVE  ReleaseAll(p, <<>>) = p
<1> DEFINE q == ReleaseAll(p, <<>>)
<1>1. <<>> \in Seq(Block) /\ DOMAIN <<>> = {}
  OBVIOUS
<1>2. LastHeld(p, <<>>) = {} /\ Freed(p, <<>>) = {} /\ TakenBlocks(<<>>) = {}
  BY <1>1 DEF LastHeld, Freed, TakenBlocks
<1>3. Cardinality({}) = 0
  BY FS_EmptySet
<1>4. /\ q \in Pool
      /\ q.holders = [b \in Block |-> p.holders[b]]
      /\ q.released_at = [b \in Block |-> p.released_at[b]]
      /\ q.clock = p.clock + 0
      /\ q.free = p.free /\ q.hash = p.hash /\ q.cached = p.cached
  <2> HIDE DEF q
  <2>1. /\ q \in Pool
        /\ q.holders = [b \in Block |-> IF b \in TakenBlocks(<<>>)
                           THEN AtLeast(p.holders[b] - 1, 0) ELSE p.holders[b]]
        /\ q.released_at = [b \in Block |-> IF b \in Freed(p, <<>>)
                               THEN p.clock + Cardinality(Rank(p, <<>>, b))
                               ELSE p.released_at[b]]
        /\ q.clock = p.clock + Cardinality(LastHeld(p, <<>>))
        /\ q.free = p.free \cup Freed(p, <<>>)
        /\ q.hash = p.hash /\ q.cached = p.cached
    BY <1>1, ReleaseAllIs DEF q
  <2> QED BY <1>2, <1>3, <2>1
<1>5. q.holders = p.holders /\ q.released_at = p.released_at /\ q.clock = p.clock
  BY <1>4 DEF Pool
<1> HIDE DEF q
<1>6. q = p
  BY <1>4, <1>5, PoolFields
<1> QED BY <1>6 DEF q

\* Giving back one block more is giving back the others and then that block.
LEMMA ReleaseOneMore ==
  ASSUME NEW p \in Pool, NEW s \in Seq(Block), NEW b \in Block,
         b \notin TakenBlocks(s), p.holders[b] > 0
  PROVE  ReleaseAll(p, Append(s, b)) = Release(ReleaseAll(p, s), b)
<1> DEFINE t == Append(s, b)
           n == Len(s) + 1
           q == ReleaseAll(p, s)
           w == ReleaseAll(p, t)
<1>1. /\ t \in Seq(Block) /\ DOMAIN s = 1..(n - 1) /\ DOMAIN t = 1..n /\ n \in Nat \ {0}
      /\ t[n] = b /\ \A i \in 1..(n - 1) : t[i] = s[i] /\ s[i] # b
  BY DEF TakenBlocks
<1>2. /\ p.holders \in [Block -> Nat] /\ p.clock \in Nat
      /\ p.released_at \in [Block -> Nat]
  BY DEF Pool
<1>3. /\ q \in Pool
      /\ q.holders = [c \in Block |-> IF c \in TakenBlocks(s)
                         THEN AtLeast(p.holders[c] - 1, 0) ELSE p.holders[c]]
      /\ q.released_at = [c \in Block |-> IF c \in Freed(p, s)
                             THEN p.clock + Cardinality(Rank(p, s, c))
                             ELSE p.released_at[c]]
      /\ q.clock = p.clock + Cardinality(LastHeld(p, s))
      /\ q.free = p.free \cup Freed(p, s)
      /\ q.hash = p.hash /\ q.cached = p.cached
  BY ReleaseAllIs
<1>4. /\ w \in Pool
      /\ w.holders = [c \in Block |-> IF c \in TakenBlocks(t)
                         THEN AtLeast(p.holders[c] - 1, 0) ELSE p.holders[c]]
      /\ w.released_at = [c \in Block |-> IF c \in Freed(p, t)
                             THEN p.clock + Cardinality(Rank(p, t, c))
                             ELSE p.released_at[c]]
      /\ w.clock = p.clock + Cardinality(LastHeld(p, t))
      /\ w.free = p.free \cup Freed(p, t)
      /\ w.hash = p.hash /\ w.cached = p.cached
  BY <1>1, ReleaseAllIs, ZenonT(60)
<1> HIDE DEF q, w, t, n
<1>5. TakenBlocks(t) = TakenBlocks(s) \cup {b}
  BY <1>1 DEF TakenBlocks
<1>6. LastHeld(p, s) \subseteq 1..(n - 1) /\ IsFiniteSet(LastHeld(p, s))
      /\ Cardinality(LastHeld(p, s)) \in Nat
  BY LastHeldFinite DEF n
<1>7. q.holders[b] = p.holders[b] /\ b \notin Freed(p, s)
  <2>1. Freed(p, s) \subseteq TakenBlocks(s)
    BY DEF Freed, TakenBlocks, LastHeld
  <2> QED BY <1>3, <2>1
<1>8. CASE p.holders[b] = 1
  <2>1. LastHeld(p, t) = LastHeld(p, s) \cup {n}
    BY <1>1, <1>8 DEF LastHeld
  <2>2. n \notin LastHeld(p, s)
    BY <1>1, <1>6
  <2>3. Cardinality(LastHeld(p, t)) = Cardinality(LastHeld(p, s)) + 1
    BY <1>6, <2>1, <2>2, FS_AddElement
  <2>4. Freed(p, t) = Freed(p, s) \cup {b}
    <3>1. \A i \in LastHeld(p, s) : t[i] = s[i]
      BY <1>1, <1>6
    <3> QED BY <1>1, <2>1, <3>1 DEF Freed
  <2>5. Rank(p, t, b) = LastHeld(p, t)
    <3>1. \A j \in LastHeld(p, t) : j <= n
      BY <1>1, <1>6, <2>1
    <3> QED BY <1>1, <2>1, <3>1 DEF Rank
  <2>6. ASSUME NEW c \in Freed(p, s) PROVE Rank(p, t, c) = Rank(p, s, c)
    <3>1. c # b
      BY <1>7, <2>6
    <3>2. \A i \in LastHeld(p, t) : t[i] = c <=> i \in LastHeld(p, s) /\ s[i] = c
      BY <1>1, <1>6, <2>1, <3>1
    <3>3. \A i \in LastHeld(p, s) : ~ (n <= i)
      BY <1>1, <1>6
    <3> QED BY <2>1, <3>2, <3>3 DEF Rank
  <2>7. Release(q, b) =
          [q EXCEPT !.holders = [@ EXCEPT ![b] = 0],
                    !.clock = @ + 1,
                    !.released_at = [@ EXCEPT ![b] = q.clock + 1],
                    !.free = @ \cup {b}]
    BY <1>7, <1>8 DEF Release
  <2>8. w.holders = [q.holders EXCEPT ![b] = 0]
    <3>1. \A c \in Block : w.holders[c] =
            IF c = b THEN 0 ELSE q.holders[c]
      BY <1>2, <1>3, <1>4, <1>5, <1>8 DEF AtLeast
    <3> QED BY <1>3, <1>4, <3>1 DEF Pool
  <2>9. w.clock = q.clock + 1
    <3>1. w.clock = p.clock + (Cardinality(LastHeld(p, s)) + 1)
      BY <1>4, <2>3
    <3>2. q.clock = p.clock + Cardinality(LastHeld(p, s))
      BY <1>3
    <3>3. p.clock \in Nat /\ Cardinality(LastHeld(p, s)) \in Nat
      BY <1>2, <1>6
    <3>4. \A x, y \in Nat : x + (y + 1) = (x + y) + 1
      OBVIOUS
    <3> QED BY <3>1, <3>2, <3>3, <3>4, Zenon
  <2>10. w.released_at = [q.released_at EXCEPT ![b] = q.clock + 1]
    <3>1. w.released_at[b] = q.clock + 1
      <4>1. w.released_at[b] = p.clock + Cardinality(LastHeld(p, t))
        BY <1>4, <2>4, <2>5
      <4> QED BY <1>4, <2>9, <4>1
    <3>2. \A c \in Block \ {b} : w.released_at[c] = q.released_at[c]
      BY <1>3, <1>4, <2>4, <2>6
    <3> QED BY <1>3, <1>4, <3>1, <3>2 DEF Pool
  <2>11. w.free = q.free \cup {b}
    BY <1>3, <1>4, <2>4
  <2> DEFINE v == [q EXCEPT !.holders = [@ EXCEPT ![b] = 0],
                            !.clock = @ + 1,
                            !.released_at = [@ EXCEPT ![b] = q.clock + 1],
                            !.free = @ \cup {b}]
  <2>12. /\ v.holders = [q.holders EXCEPT ![b] = 0]
         /\ v.clock = q.clock + 1
         /\ v.released_at = [q.released_at EXCEPT ![b] = q.clock + 1]
         /\ v.free = q.free \cup {b}
         /\ v.hash = q.hash /\ v.cached = q.cached
    BY <1>3, SMTT(60) DEF Pool
  <2>13. v \in Pool
    <3>1. v = [q EXCEPT !.holders = w.holders, !.clock = w.clock,
                        !.released_at = w.released_at, !.free = w.free]
      BY <2>8, <2>9, <2>10, <2>11
    <3> HIDE DEF v
    <3> QED BY <1>3, <1>4, <3>1 DEF Pool
  <2> HIDE DEF v
  <2>14. w = v
    <3>1. /\ w.holders = v.holders /\ w.clock = v.clock
          /\ w.released_at = v.released_at /\ w.free = v.free
      BY <2>8, <2>9, <2>10, <2>11, <2>12
    <3>2. w.hash = v.hash /\ w.cached = v.cached
      BY <1>3, <1>4, <2>12
    <3> QED BY <1>4, <2>13, <3>1, <3>2, PoolFields
  <2> QED BY <2>7, <2>14 DEF v, w, q, t
<1>9. CASE p.holders[b] # 1
  <2>1. p.holders[b] \in Nat /\ p.holders[b] > 1
    BY <1>2, <1>9
  <2>2. LastHeld(p, t) = LastHeld(p, s)
    BY <1>1, <1>9 DEF LastHeld
  <2>3. \A i \in LastHeld(p, s) : t[i] = s[i]
    BY <1>1, <1>6
  <2>4. Freed(p, t) = Freed(p, s) /\ \A c : Rank(p, t, c) = Rank(p, s, c)
    BY <2>2, <2>3 DEF Freed, Rank
  <2>5. w.holders = [q.holders EXCEPT ![b] = q.holders[b] - 1]
    <3>1. \A c \in Block : w.holders[c] =
            IF c = b THEN q.holders[b] - 1 ELSE q.holders[c]
      BY <1>3, <1>4, <1>5, <1>7, <2>1 DEF AtLeast
    <3> QED BY <1>3, <1>4, <3>1 DEF Pool
  <2>6. w.released_at = q.released_at /\ w.clock = q.clock /\ w.free = q.free
    BY <1>3, <1>4, <2>2, <2>4
  <2>7. w = [q EXCEPT !.holders = [q.holders EXCEPT ![b] = q.holders[b] - 1]]
    BY <1>3, <1>4, <2>5, <2>6, ZenonT(60) DEF Pool
  <2>8. Release(q, b) = [q EXCEPT !.holders = [q.holders EXCEPT ![b] = q.holders[b] - 1]]
    <3>1. ~ (q.holders[b] = 0) /\ ~ (q.holders[b] = 1)
      BY <1>7, <2>1
    <3> QED BY <3>1 DEF Release
  <2>9. w = Release(q, b)
    BY <2>7, <2>8
  <2> QED BY <2>9 DEF w, q, t
<1> QED BY <1>8, <1>9

\* The loop that gives a table back leaves what ReleaseAll says, as long as no
\* block is in the table twice and each of them is counted.
LEMMA FreeLoopIs ==
  ASSUME NEW p \in Pool, NEW blocks \in Seq(Block),
         \A i, j \in DOMAIN blocks : blocks[i] = blocks[j] => i = j,
         \A i \in DOMAIN blocks : p.holders[blocks[i]] > 0
  PROVE  FreeLoop(p, blocks) = ReleaseAll(p, blocks)
<1> DEFINE L == Len(blocks)
           Runs(f) == f = [n \in 0..Len(blocks) |->
                             IF n = 0 THEN p ELSE Release(f[n - 1], blocks[n])]
           upto(n) == ReleaseAll(p, SubSeq(blocks, 1, n))
           g == [n \in 0..Len(blocks) |-> upto(n)]
<1>1. L \in Nat /\ DOMAIN blocks = 1..L
  OBVIOUS
<1>2. upto(0) = p
  <2>1. SubSeq(blocks, 1, 0) = <<>>
    OBVIOUS
  <2> QED BY <2>1, ReleaseNone
<1>3. ASSUME NEW n \in 1..L PROVE upto(n) = Release(upto(n - 1), blocks[n])
  <2> DEFINE s == SubSeq(blocks, 1, n - 1)
  <2>1. s \in Seq(Block) /\ Len(s) = n - 1 /\ \A i \in 1..(n - 1) : s[i] = blocks[i]
    BY <1>1, <1>3
  <2>2. SubSeq(blocks, 1, n) = Append(s, blocks[n]) /\ blocks[n] \in Block
    BY <1>1, <1>3
  <2>3. blocks[n] \notin TakenBlocks(s)
    <3>1. DOMAIN s = 1..(n - 1)
      BY <2>1
    <3>2. \A i \in 1..(n - 1) : i \in 1..L /\ i # n
      BY <1>1, <1>3
    <3> QED BY <1>1, <1>3, <2>1, <3>1, <3>2 DEF TakenBlocks
  <2> HIDE DEF s
  <2>4. p.holders[blocks[n]] > 0
    BY <1>1, <1>3
  <2>5. ReleaseAll(p, Append(s, blocks[n])) = Release(ReleaseAll(p, s), blocks[n])
    BY <2>1, <2>2, <2>3, <2>4, ReleaseOneMore
  <2> QED BY <2>2, <2>5 DEF s
<1> HIDE DEF upto
<1>4. Runs(g)
  <2>1. \A n \in 0..L : g[n] = IF n = 0 THEN p ELSE Release(g[n - 1], blocks[n])
    BY <1>1, <1>2, <1>3
  <2>2. g = [n \in 0..L |-> g[n]]
    OBVIOUS
  <2> HIDE DEF g
  <2> QED BY <2>1, <2>2
<1>5. ASSUME NEW f, Runs(f) PROVE f[L] = g[L]
  <2>1. f[0] = g[0]
    <3>1. 0 \in 0..L
      BY <1>1
    <3>2. f[0] = p /\ g[0] = p
      <4> HIDE DEF g
      <4> QED BY <1>4, <1>5, <3>1
    <3> QED BY <3>2
  <2>2. ASSUME NEW k \in 1..L, f[k - 1] = g[k - 1] PROVE f[k] = g[k]
    <3>1. k \in 0..L /\ k # 0
      BY <1>1, <2>2
    <3>2. f[k] = Release(f[k - 1], blocks[k]) /\ g[k] = Release(g[k - 1], blocks[k])
      <4> HIDE DEF g
      <4> QED BY <1>4, <1>5, <3>1
    <3> QED BY <2>2, <3>2
  <2> HIDE DEF g, Runs
  <2> QED BY <1>1, <2>1, <2>2, SameFrom
<1>6. Runs(CHOOSE f : Runs(f))
  <2> HIDE DEF Runs, g
  <2> QED BY <1>4
<1>7. FreeLoop(p, blocks) = (CHOOSE f : Runs(f))[L]
  BY DEF FreeLoop
<1>8. g[L] = ReleaseAll(p, blocks)
  <2>1. SubSeq(blocks, 1, L) = blocks
    BY <1>1
  <2>2. g[L] = upto(L)
    BY <1>1
  <2> HIDE DEF g
  <2> QED BY <2>1, <2>2 DEF upto
<1> HIDE DEF Runs, g
<1> QED BY <1>5, <1>6, <1>7, <1>8

-----------------------------------------------------------------------------
(* The loops over a table whose blocks became full. *)

\* The index of a pool is a function on its domain.
LEMMA CachedFunction ==
  ASSUME NEW p \in Pool
  PROVE  /\ DOMAIN p.cached \subseteq Name
         /\ p.cached \in [DOMAIN p.cached -> Block]
BY IndexFunction DEF Pool

\* Publishing no block leaves the pool as it is.
LEMMA PublishedNone ==
  ASSUME NEW p \in Pool, NEW t \in Table, WellFormed(t), NEW history \in Seq(Token),
         \A i, j \in (Len(t.hashes) + 1)..Full(t, history) :
            t.blocks[i] = t.blocks[j] => i = j
  PROVE  PublishedTo(p, t, history, Len(t.hashes)) = p
<1> DEFINE L == Len(t.hashes)
           q == PublishedTo(p, t, history, L)
<1>1. L \in Nat /\ L \in L..Full(t, history)
  BY FullBounds DEF Table
<1>2. Publishes(p, q, t, history, NewTo(p, t, history, L))
  BY <1>1, PublishedToFields
<1>3. NewTo(p, t, history, L) = {}
  BY <1>1 DEF NewTo
<1> HIDE DEF q, L
<1>4. /\ q \in Pool /\ q.holders = p.holders /\ q.free = p.free
      /\ q.released_at = p.released_at /\ q.clock = p.clock
      /\ DOMAIN q.cached = DOMAIN p.cached
      /\ \A b \in Block : q.hash[b] = p.hash[b]
      /\ \A n \in DOMAIN p.cached : q.cached[n] = p.cached[n]
  BY <1>2, <1>3 DEF Publishes
<1>5. q.hash = p.hash
  BY <1>4 DEF Pool
<1>6. q.cached = p.cached
  <2>1. q.cached \in [DOMAIN q.cached -> Block] /\ p.cached \in [DOMAIN p.cached -> Block]
    BY <1>4, CachedFunction
  <2> QED BY <1>4, <2>1
<1>7. q = p
  BY <1>4, <1>5, <1>6, PoolFields
<1> QED BY <1>7 DEF q, L

\* Publishing one block more is publishing the others and then that block.
LEMMA PublishOneMore ==
  ASSUME NEW p \in Pool, NEW t \in Table, WellFormed(t), NEW history \in Seq(Token),
         \A i, j \in (Len(t.hashes) + 1)..Full(t, history) :
            t.blocks[i] = t.blocks[j] => i = j,
         NEW m \in Len(t.hashes)..(Full(t, history) - 1)
  PROVE  PublishedTo(p, t, history, m + 1) =
           Publish(PublishedTo(p, t, history, m), t.blocks[m + 1],
                   FullName(t, history, m + 1))
<1> DEFINE L == Len(t.hashes)
           F == Full(t, history)
           q == PublishedTo(p, t, history, m)
           w == PublishedTo(p, t, history, m + 1)
           old == NewTo(p, t, history, m)
           new == NewTo(p, t, history, m + 1)
           b == t.blocks[m + 1]
           name(i) == FullName(t, history, i)
           n == name(m + 1)
           v == Publish(q, b, n)
<1>1. /\ L \in Nat /\ F \in Nat /\ F <= Len(t.blocks) /\ t.blocks \in Seq(Block)
      /\ m \in Nat /\ m \in L..F /\ m + 1 \in L..F /\ m + 1 \in (L + 1)..F
      /\ m + 1 \in 1..F
  BY FullBounds DEF Table
<1>2. b \in Block /\ n \in Name
  BY <1>1, FullNameType
<1>3. Publishes(p, q, t, history, old) /\ Publishes(p, w, t, history, new)
  BY <1>1, PublishedToFields
<1>4. /\ \A i \in old : i \in (L + 1)..F /\ i # m + 1
      /\ \A i \in new : i \in (L + 1)..F
  BY <1>1 DEF NewTo
<1>5. \A i \in old : t.blocks[i] # b
  BY <1>1, <1>4
<1>6. \A i \in old : name(i) # n
  BY <1>1, <1>4, FullNamesDiffer
<1>7. new = IF Publishable(p, b, n) THEN old \cup {m + 1} ELSE old
  <2>1. \A i : i \in (L + 1)..(m + 1) <=> i \in (L + 1)..m \/ i = m + 1
    BY <1>1
  <2> QED BY <2>1 DEF NewTo
<1> HIDE DEF L, F, q, w, old, new, b, name, n, v
<1>8. /\ q \in Pool /\ q.holders = p.holders /\ q.free = p.free
      /\ q.released_at = p.released_at /\ q.clock = p.clock
      /\ DOMAIN q.cached = DOMAIN p.cached \cup {name(i) : i \in old}
      /\ \A i \in old : q.hash[t.blocks[i]] = name(i) /\ q.cached[name(i)] = t.blocks[i]
      /\ \A c \in Block : (\A i \in old : c # t.blocks[i]) => q.hash[c] = p.hash[c]
      /\ \A k \in DOMAIN p.cached :
           (\A i \in old : k # name(i)) => q.cached[k] = p.cached[k]
  BY <1>3 DEF Publishes, name
<1>9. /\ w \in Pool /\ w.holders = p.holders /\ w.free = p.free
      /\ w.released_at = p.released_at /\ w.clock = p.clock
      /\ DOMAIN w.cached = DOMAIN p.cached \cup {name(i) : i \in new}
      /\ \A i \in new : w.hash[t.blocks[i]] = name(i) /\ w.cached[name(i)] = t.blocks[i]
      /\ \A c \in Block : (\A i \in new : c # t.blocks[i]) => w.hash[c] = p.hash[c]
      /\ \A k \in DOMAIN p.cached :
           (\A i \in new : k # name(i)) => w.cached[k] = p.cached[k]
  BY <1>3 DEF Publishes, name
<1>10. Publishable(q, b, n) <=> Publishable(p, b, n)
  BY <1>6, <1>8 DEF Publishable
<1>11. /\ q.cached \in [DOMAIN q.cached -> Block] /\ w.cached \in [DOMAIN w.cached -> Block]
       /\ q.hash \in [Block -> Name] /\ w.hash \in [Block -> Name]
  BY <1>8, <1>9, CachedFunction DEF Pool
<1>12. CASE Publishable(p, b, n)
  <2>1. new = old \cup {m + 1}
    BY <1>7, <1>12
  <2>2. v = [q EXCEPT !.hash = [q.hash EXCEPT ![b] = n],
                      !.cached = [k \in DOMAIN q.cached \cup {n} |->
                                    IF k = n THEN b ELSE q.cached[k]]]
    BY <1>10, <1>12 DEF v, Publish
  <2>3. w.hash = [q.hash EXCEPT ![b] = n]
    <3>1. w.hash[b] = n
      BY <1>9, <2>1 DEF b, n
    <3>2. ASSUME NEW c \in Block, c # b PROVE w.hash[c] = q.hash[c]
      <4>1. CASE \E i \in old : c = t.blocks[i]
        BY <1>8, <1>9, <2>1, <4>1
      <4>2. CASE \A i \in old : c # t.blocks[i]
        <5>1. \A i \in new : c # t.blocks[i]
          BY <2>1, <3>2, <4>2 DEF b
        <5> QED BY <1>8, <1>9, <4>2, <5>1
      <4> QED BY <4>1, <4>2
    <3> QED BY <1>11, <3>1, <3>2
  <2>4. DOMAIN w.cached = DOMAIN q.cached \cup {n}
    BY <1>8, <1>9, <2>1 DEF n
  <2>5. w.cached = [k \in DOMAIN q.cached \cup {n} |->
                      IF k = n THEN b ELSE q.cached[k]]
    <3>1. w.cached[n] = b
      BY <1>9, <2>1 DEF b, n
    <3>2. ASSUME NEW k \in DOMAIN q.cached, k # n PROVE w.cached[k] = q.cached[k]
      <4>1. CASE \E i \in old : k = name(i)
        BY <1>8, <1>9, <2>1, <4>1
      <4>2. CASE \A i \in old : k # name(i)
        <5>1. \A i \in new : k # name(i)
          BY <2>1, <3>2, <4>2 DEF n
        <5>2. k \in DOMAIN p.cached
          BY <1>8, <3>2, <4>2
        <5> QED BY <1>8, <1>9, <4>2, <5>1, <5>2
      <4> QED BY <4>1, <4>2
    <3> QED BY <1>11, <2>4, <3>1, <3>2
  <2>6. v = [q EXCEPT !.hash = w.hash, !.cached = w.cached]
    BY <2>2, <2>3, <2>5
  <2>7. /\ v \in Pool /\ v.hash = w.hash /\ v.cached = w.cached
        /\ v.holders = q.holders /\ v.free = q.free
        /\ v.released_at = q.released_at /\ v.clock = q.clock
    BY <1>8, <1>9, <2>6 DEF Pool
  <2>8. w = v
    BY <1>8, <1>9, <2>7, PoolFields
  <2> QED BY <2>8 DEF v, w, q, b, n, name
<1>13. CASE ~ Publishable(p, b, n)
  <2>1. new = old
    BY <1>7, <1>13
  <2>2. v = q
    BY <1>10, <1>13 DEF v, Publish
  <2>3. w.hash = q.hash
    <3>1. ASSUME NEW c \in Block PROVE w.hash[c] = q.hash[c]
      <4>1. CASE \E i \in old : c = t.blocks[i]
        BY <1>8, <1>9, <2>1, <4>1
      <4>2. CASE \A i \in old : c # t.blocks[i]
        BY <1>8, <1>9, <2>1, <4>2
      <4> QED BY <4>1, <4>2
    <3> QED BY <1>11, <3>1
  <2>4. w.cached = q.cached
    <3>1. ASSUME NEW k \in DOMAIN q.cached PROVE w.cached[k] = q.cached[k]
      <4>1. CASE \E i \in old : k = name(i)
        BY <1>8, <1>9, <2>1, <4>1
      <4>2. CASE \A i \in old : k # name(i)
        <5>1. k \in DOMAIN p.cached
          BY <1>8, <3>1, <4>2
        <5> QED BY <1>8, <1>9, <2>1, <4>2, <5>1
      <4> QED BY <4>1, <4>2
    <3>2. DOMAIN w.cached = DOMAIN q.cached
      BY <1>8, <1>9, <2>1
    <3> QED BY <1>11, <3>1, <3>2
  <2>5. w = q
    BY <1>8, <1>9, <2>3, <2>4, PoolFields
  <2>6. w = v
    BY <2>2, <2>5
  <2> QED BY <2>6 DEF v, w, q, b, n, name
<1> QED BY <1>12, <1>13

\* The table once its full blocks up to the m-th are named.
NamedTo(t, history, m) ==
    [t EXCEPT !.hashes = [i \in 1..m |-> FullName(t, history, i)]]

\* Its fields.
LEMMA NamedToFields ==
  ASSUME NEW t \in Table, WellFormed(t), NEW history \in Seq(Token),
         NEW m \in Len(t.hashes)..Full(t, history)
  PROVE  /\ NamedTo(t, history, m).blocks = t.blocks
         /\ NamedTo(t, history, m).tokens = t.tokens
         /\ NamedTo(t, history, m).hashes = [i \in 1..m |-> FullName(t, history, i)]
         /\ NamedTo(t, history, m).hashes \in Seq(Name)
         /\ Len(NamedTo(t, history, m).hashes) = m
<1> DEFINE names == [i \in 1..m |-> FullName(t, history, i)]
<1>1. m \in Nat /\ m <= Full(t, history) /\ Full(t, history) \in Nat
  BY FullBounds DEF Table
<1>2. names \in [1..m -> Name]
  BY <1>1, FullNameType
<1>3. names \in Seq(Name) /\ Len(names) = m
  BY <1>1, <1>2
<1>4. NamedTo(t, history, m) = [t EXCEPT !.hashes = names]
  BY DEF NamedTo
<1> HIDE DEF names
<1>5. /\ NamedTo(t, history, m).blocks = t.blocks
      /\ NamedTo(t, history, m).tokens = t.tokens
      /\ NamedTo(t, history, m).hashes = names
  BY <1>4 DEF Table
<1> QED BY <1>3, <1>5 DEF names

\* The table as it was, and with every block named.
LEMMA NamedToEnds ==
  ASSUME NEW t \in Table, WellFormed(t), NEW history \in Seq(Token)
  PROVE  /\ NamedTo(t, history, Len(t.hashes)) = t
         /\ NamedTo(t, history, Full(t, history)) = NameFull(t, history)
<1>1. t.hashes \in Seq(Name) /\ Len(t.hashes) \in Nat
  BY DEF Table
<1>2. [i \in 1..Len(t.hashes) |-> FullName(t, history, i)] = t.hashes
  <2>1. \A i \in 1..Len(t.hashes) : FullName(t, history, i) = t.hashes[i]
    BY <1>1 DEF FullName
  <2> QED BY <1>1, <2>1, SMTT(60)
<1>3. NamedTo(t, history, Len(t.hashes)) = [t EXCEPT !.hashes = t.hashes]
  BY <1>2 DEF NamedTo
<1>4. NamedTo(t, history, Len(t.hashes)) = t
  BY <1>3 DEF Table
<1> QED BY <1>4 DEF NamedTo, NameFull

\* A part of a sequence and what follows it are a longer part.
LEMMA PartsJoined ==
  ASSUME NEW r \in Seq(Token), NEW s \in Seq(Token),
         NEW c \in 0..Len(s), NEW b \in 0..c, NEW a \in 0..b
  PROVE  (r \o SubSeq(s, a + 1, b)) \o SubSeq(s, b + 1, c) = r \o SubSeq(s, a + 1, c)
<1>1. SubSeq(s, a + 1, b) \o SubSeq(s, b + 1, c) = SubSeq(s, a + 1, c)
  OBVIOUS
<1>2. SubSeq(s, a + 1, b) \in Seq(Token) /\ SubSeq(s, b + 1, c) \in Seq(Token)
  OBVIOUS
<1> DEFINE x == SubSeq(s, a + 1, b)
           y == SubSeq(s, b + 1, c)
<1> HIDE DEF x, y
<1>3. (r \o x) \o y = r \o (x \o y)
  <2>1. x \in Seq(Token) /\ y \in Seq(Token)
    BY <1>2 DEF x, y
  <2> QED BY <2>1, ConcatAssociative, SMTT(60)
<1>4. x \o y = SubSeq(s, a + 1, c)
  BY <1>1 DEF x, y
<1>5. (r \o x) \o y = r \o SubSeq(s, a + 1, c)
  BY <1>3, <1>4
<1> QED BY <1>5 DEF x, y

\* The name the loop gives from the name before it is the one FullName gives
\* from the last name the table had.
LEMMA NextNameIs ==
  ASSUME NEW t \in Table, WellFormed(t), NEW history \in Seq(Token),
         NEW m \in Len(t.hashes)..(Full(t, history) - 1)
  PROVE  NextName(NamedTo(t, history, m), history) = FullName(t, history, m + 1)
<1> DEFINE L == Len(t.hashes)
           F == Full(t, history)
           u == NamedTo(t, history, m)
           part(i, j) == SubSeq(history, i * BlockSize + 1, j * BlockSize)
<1>1. /\ L \in Nat /\ F \in Nat /\ m \in Nat /\ m \in L..F /\ m + 1 <= F /\ L <= m
      /\ t.hashes \in Seq(Name)
  BY FullBounds DEF Table
<1>2. u.hashes = [i \in 1..m |-> FullName(t, history, i)] /\ Len(u.hashes) = m
      /\ u.hashes \in Seq(Name)
  BY <1>1, NamedToFields
<1> HIDE DEF u
<1>3. NextName(u, history) = LastHash(u) \o part(m, m + 1)
  BY <1>2 DEF NextName, BlockHash
<1>4. FullName(t, history, m + 1) = LastHash(t) \o part(L, m + 1)
  <2>1. ~ (m + 1 <= Len(t.hashes))
    BY <1>1
  <2> QED BY <2>1 DEF FullName, BlockHash
<1>5. CASE m = L
  <2>1. LastHash(u) = LastHash(t)
    <3>1. u.hashes = t.hashes
      BY <1>5, NamedToEnds DEF u
    <3> QED BY <3>1 DEF LastHash
  <2> QED BY <1>3, <1>4, <1>5, <2>1 DEF u
<1>6. CASE m # L
  <2>1. m \in 1..m /\ ~ (m <= L) /\ u.hashes # <<>>
    BY <1>1, <1>2, <1>6
  <2>2. LastHash(u) = FullName(t, history, m)
    BY <1>2, <2>1 DEF LastHash
  <2>3. FullName(t, history, m) = LastHash(t) \o part(L, m)
    BY <2>1 DEF FullName, BlockHash
  <2>4. LastHash(t) \in Seq(Token)
    BY <1>1 DEF LastHash, NoName, Name
  <2>5. /\ L * BlockSize \in Nat /\ m * BlockSize \in Nat /\ (m + 1) * BlockSize \in Nat
        /\ L * BlockSize <= m * BlockSize /\ m * BlockSize <= (m + 1) * BlockSize
    BY <1>1, MulMono, BlocksAssumption, SMTT(60)
  <2>6. (m + 1) * BlockSize <= Len(history)
    <3>1. (m + 1) * BlockSize <= F * BlockSize
      BY <1>1, MulMono
    <3>2. F * BlockSize <= Len(history)
      BY <1>1, FullBounds
    <3>3. F * BlockSize \in Nat /\ Len(history) \in Nat
      BY <1>1, BlocksAssumption
    <3> HIDE DEF F
    <3> QED BY <2>5, <3>1, <3>2, <3>3
  <2> DEFINE lo == L * BlockSize
             mid == m * BlockSize
             hi == (m + 1) * BlockSize
  <2>7. hi \in 0..Len(history) /\ mid \in 0..hi /\ lo \in 0..mid
    <3> HIDE DEF L
    <3> QED BY <2>5, <2>6
  <2> HIDE DEF lo, mid, hi, L
  <2>8. (LastHash(t) \o SubSeq(history, lo + 1, mid)) \o SubSeq(history, mid + 1, hi)
          = LastHash(t) \o SubSeq(history, lo + 1, hi)
    BY <2>4, <2>7, PartsJoined
  <2>9. NextName(u, history) = FullName(t, history, m + 1)
    BY <1>3, <1>4, <2>2, <2>3, <2>8 DEF lo, mid, hi
  <2> QED BY <2>9 DEF u
<1> QED BY <1>5, <1>6

\* The loop goes on exactly to the last block NameFull names.
LEMMA FillsNextIs ==
  ASSUME NEW t \in Table, WellFormed(t), NEW history \in Seq(Token),
         NEW m \in Len(t.hashes)..Full(t, history)
  PROVE  FillsNext(NamedTo(t, history, m), history) <=> m < Full(t, history)
<1> DEFINE L == Len(t.hashes)
           F == Full(t, history)
           B == Len(t.blocks)
           a == t.tokens \div BlockSize
           c == Len(history) \div BlockSize
           u == NamedTo(t, history, m)
<1>1. /\ L \in Nat /\ F \in Nat /\ m \in Nat /\ L <= m /\ m <= F /\ B \in Nat
      /\ t.tokens \in Nat /\ Len(history) \in Nat
  BY FullBounds DEF Table
<1>2. a \in Nat /\ c \in Nat
  BY <1>1, DivMul
<1>3. F = AtLeast(L, AtMost(AtMost(a, B), c))
  BY DEF Full
<1>4. u.blocks = t.blocks /\ u.tokens = t.tokens /\ Len(u.hashes) = m
  BY <1>1, NamedToFields
<1>5. (m + 1) * BlockSize <= Len(history) <=> m + 1 <= c
  <2>1. c * BlockSize <= Len(history) /\ Len(history) < (c + 1) * BlockSize
    BY <1>1, DivMul
  <2>2. m + 1 <= c => (m + 1) * BlockSize <= c * BlockSize
    BY <1>1, <1>2, MulMono
  <2>3. ~ (m + 1 <= c) => (c + 1) * BlockSize <= (m + 1) * BlockSize
    <3> SUFFICES ASSUME ~ (m + 1 <= c) PROVE (c + 1) * BlockSize <= (m + 1) * BlockSize
      OBVIOUS
    <3>1. c + 1 \in Nat /\ m + 1 \in Nat /\ c + 1 <= m + 1
      <4> HIDE DEF c
      <4> QED BY <1>1, <1>2
    <3> QED BY <3>1, MulMono
  <2>4. (m + 1) * BlockSize \in Nat /\ c * BlockSize \in Nat /\ (c + 1) * BlockSize \in Nat
    BY <1>1, <1>2, BlocksAssumption
  <2> HIDE DEF c
  <2> QED BY <1>1, <1>2, <2>1, <2>2, <2>3, <2>4
<1>6. FillsNext(u, history) <=> m < AtMost(a, B) /\ (m + 1) * BlockSize <= Len(history)
  BY <1>4 DEF FillsNext
<1> HIDE DEF a, c, u, B, L, F
<1>7. FillsNext(u, history) <=> m < F
  BY <1>1, <1>2, <1>3, <1>5, <1>6 DEF AtLeast, AtMost
<1> QED BY <1>7 DEF u, F

\* The loops name and publish what NameFull and PublishFull say, as long as no
\* block is in the unnamed part of the table twice.
LEMMA PublishLoopIs ==
  ASSUME NEW p \in Pool, NEW t \in Table, WellFormed(t), NEW history \in Seq(Token),
         \A i, j \in (Len(t.hashes) + 1)..Full(t, history) :
            t.blocks[i] = t.blocks[j] => i = j
  PROVE  PublishLoop(p, t, history) =
           [pool |-> PublishFull(p, t, history), table |-> NameFull(t, history)]
<1> DEFINE L == Len(t.hashes)
           F == Full(t, history)
           B == Len(t.blocks)
           at(m) == [pool |-> PublishedTo(p, t, history, m),
                     table |-> NamedTo(t, history, m)]
           Runs(f) == f = [n \in 0..Len(t.blocks) |->
                             IF n = 0 THEN [pool |-> p, table |-> t]
                             ELSE Turn(f[n - 1], history)]
           g == [n \in 0..Len(t.blocks) |-> at(AtMost(L + n, F))]
<1>1. L \in Nat /\ F \in Nat /\ B \in Nat /\ L <= F /\ F <= B
  BY FullBounds DEF Table
<1>2. ASSUME NEW m \in L..F
      PROVE  Turn(at(m), history) = IF m < F THEN at(m + 1) ELSE at(m)
  <2> DEFINE q == PublishedTo(p, t, history, m)
             u == NamedTo(t, history, m)
  <2>1. at(m).pool = q /\ at(m).table = u /\ m \in Nat
    BY <1>1
  <2>2. FillsNext(u, history) <=> m < F
    BY FillsNextIs
  <2>3. CASE m < F
    <3>1. m \in L..(F - 1)
      BY <1>1, <2>1, <2>3
    <3>2. NextName(u, history) = FullName(t, history, m + 1)
      BY <3>1, NextNameIs
    <3>3. u.blocks = t.blocks /\ Len(u.hashes) = m
          /\ u.hashes = [i \in 1..m |-> FullName(t, history, i)]
      BY NamedToFields
    <3>4. Publish(q, t.blocks[m + 1], FullName(t, history, m + 1))
            = PublishedTo(p, t, history, m + 1)
      BY <3>1, PublishOneMore
    <3>5. [u EXCEPT !.hashes = Append(@, FullName(t, history, m + 1))]
            = NamedTo(t, history, m + 1)
      <4> DEFINE names(k) == [i \in 1..k |-> FullName(t, history, i)]
      <4>1. Append(names(m), FullName(t, history, m + 1)) = names(m + 1)
        <5> DEFINE s == Append(names(m), FullName(t, history, m + 1))
        <5>1. names(m) \in Seq(Name) /\ Len(names(m)) = m
          BY <3>3, NamedToFields
        <5>2. FullName(t, history, m + 1) \in Name
          <6>1. m + 1 \in 1..F
            BY <1>1, <2>1, <2>3
          <6> QED BY <6>1, FullNameType
        <5> QED BY <2>1, <5>1, <5>2
      <4>2. u = [t EXCEPT !.hashes = names(m)]
            /\ NamedTo(t, history, m + 1) = [t EXCEPT !.hashes = names(m + 1)]
        BY DEF NamedTo
      <4> HIDE DEF names, u
      <4>3. u.hashes = names(m)
        BY <3>3 DEF names
      <4>4. [u EXCEPT !.hashes = Append(@, FullName(t, history, m + 1))]
              = [u EXCEPT !.hashes = names(m + 1)]
        BY <4>1, <4>3
      <4>5. [u EXCEPT !.hashes = names(m + 1)] = [t EXCEPT !.hashes = names(m + 1)]
        BY <4>2 DEF Table
      <4> QED BY <4>2, <4>4, <4>5
    <3> HIDE DEF q, u
    <3>6. Turn(at(m), history) =
            [pool |-> Publish(q, t.blocks[m + 1], FullName(t, history, m + 1)),
             table |-> [u EXCEPT !.hashes = Append(@, FullName(t, history, m + 1))]]
      <4> HIDE DEF at
      <4> QED BY <2>1, <2>2, <2>3, <3>2, <3>3 DEF Turn
    <3>7. Turn(at(m), history) = at(m + 1)
      BY <3>4, <3>5, <3>6
    <3> HIDE DEF at
    <3> QED BY <2>3, <3>7
  <2>4. CASE ~ (m < F)
    <3> HIDE DEF at
    <3> QED BY <2>1, <2>2, <2>4 DEF Turn
  <2> HIDE DEF at
  <2> QED BY <2>3, <2>4
<1>3. at(L) = [pool |-> p, table |-> t]
  BY PublishedNone, NamedToEnds
<1>4. at(F) = [pool |-> PublishFull(p, t, history), table |-> NameFull(t, history)]
  BY PublishFullIsAll, NamedToEnds
<1> HIDE DEF at
<1>5. Runs(g)
  <2>1. g[0] = [pool |-> p, table |-> t]
    <3>1. AtMost(L + 0, F) = L
      BY <1>1 DEF AtMost
    <3>2. g[0] = at(AtMost(L + 0, F))
      BY <1>1
    <3> HIDE DEF g
    <3> QED BY <1>3, <3>1, <3>2
  <2>2. ASSUME NEW n \in 1..B PROVE g[n] = Turn(g[n - 1], history)
    <3> DEFINE m == AtMost(L + (n - 1), F)
    <3>1. /\ m \in L..F /\ n \in 0..B /\ n - 1 \in 0..B
          /\ AtMost(L + n, F) = IF m < F THEN m + 1 ELSE m
      BY <1>1 DEF AtMost
    <3>2. g[n] = at(AtMost(L + n, F)) /\ g[n - 1] = at(m)
      BY <3>1
    <3> HIDE DEF g, m
    <3> QED BY <1>2, <3>1, <3>2
  <2>3. \A n \in 0..B : g[n] = IF n = 0 THEN [pool |-> p, table |-> t]
                               ELSE Turn(g[n - 1], history)
    <3> HIDE DEF g
    <3> QED BY <1>1, <2>1, <2>2
  <2>4. g = [n \in 0..B |-> g[n]]
    OBVIOUS
  <2> HIDE DEF g
  <2> QED BY <2>3, <2>4
<1>6. g[B] = at(F)
  <2>1. AtMost(L + B, F) = F
    <3>1. L + B >= F
      <4> HIDE DEF L, F, B
      <4> QED BY <1>1
    <3> HIDE DEF L, F, B
    <3> QED BY <1>1, <3>1 DEF AtMost
  <2>2. g[B] = at(AtMost(L + B, F))
    <3>1. B \in 0..B
      <4> HIDE DEF B
      <4> QED BY <1>1
    <3> QED BY <3>1
  <2> HIDE DEF g
  <2> QED BY <2>1, <2>2
<1>7. ASSUME NEW f, Runs(f) PROVE f[B] = g[B]
  <2> HIDE DEF g
  <2>1. f[0] = g[0]
    <3>1. 0 \in 0..B
      BY <1>1
    <3>2. f[0] = [pool |-> p, table |-> t] /\ g[0] = [pool |-> p, table |-> t]
      BY <1>5, <1>7, <3>1
    <3> QED BY <3>2
  <2>2. ASSUME NEW k \in 1..B, f[k - 1] = g[k - 1] PROVE f[k] = g[k]
    <3>1. k \in 0..B /\ k # 0
      BY <1>1, <2>2
    <3>2. f[k] = Turn(f[k - 1], history) /\ g[k] = Turn(g[k - 1], history)
      BY <1>5, <1>7, <3>1
    <3> QED BY <2>2, <3>2
  <2> HIDE DEF Runs
  <2> QED BY <1>1, <2>1, <2>2, SameFrom
<1>8. Runs(CHOOSE f : Runs(f))
  <2> HIDE DEF Runs, g
  <2> QED BY <1>5
<1>9. PublishLoop(p, t, history) = (CHOOSE f : Runs(f))[B]
  BY DEF PublishLoop
<1> HIDE DEF Runs, g
<1> QED BY <1>4, <1>6, <1>7, <1>8, <1>9

-----------------------------------------------------------------------------
(* Claims. *)

\* The prefixes claim_prefix looks up are names of whole blocks.
LEMMA PrefixNameType ==
  ASSUME NEW prompt \in Seq(Token), NEW i \in 1..Candidates(prompt)
  PROVE  /\ PrefixName(prompt, i) \in Name
         /\ Len(PrefixName(prompt, i)) = i * BlockSize
         /\ PrefixName(prompt, i) # NoName
<1>1. i \in Nat /\ i > 0 /\ Candidates(prompt) \in Nat /\ Len(prompt) \in Nat
  BY CandidatesNat
<1>2. i * BlockSize < Len(prompt)
  BY <1>1, CandidatesEndEarly
<1>3. i * BlockSize \in Nat /\ i * BlockSize > 0
  BY <1>1, BlocksAssumption
<1> DEFINE hi == i * BlockSize
<1>4. hi \in Nat /\ hi > 0 /\ hi < Len(prompt)
  BY <1>2, <1>3
<1> HIDE DEF hi
<1>5. SubSeq(prompt, 1, hi) \in Seq(Token) /\ Len(SubSeq(prompt, 1, hi)) = hi
  BY <1>1, <1>4
<1> QED BY <1>4, <1>5 DEF PrefixName, Name, NoName, hi

\* A table without blocks takes the resident blocks in order.
LEMMA ClaimFields ==
  ASSUME NEW p \in Pool, NEW t \in Table, WellFormed(t), t.blocks = <<>>,
         NEW prompt \in Seq(Token), NEW k, Claims(p, prompt, k)
  PROVE  /\ k \in Nat
         /\ \A i \in 1..k : /\ i \in 1..Candidates(prompt)
                            /\ PrefixName(prompt, i) \in DOMAIN p.cached
                            /\ p.cached[PrefixName(prompt, i)] \in Block
         /\ ClaimPool(p, prompt, k) \in Pool
         /\ ClaimTable(p, t, prompt, k) \in Table
         /\ WellFormed(ClaimTable(p, t, prompt, k))
         /\ ClaimTable(p, t, prompt, k).blocks =
              [i \in 1..k |-> p.cached[PrefixName(prompt, i)]]
         /\ Len(ClaimTable(p, t, prompt, k).hashes) = k
         /\ ClaimTable(p, t, prompt, k).tokens = k * BlockSize
<1> DEFINE blocks == [i \in 1..k |-> p.cached[PrefixName(prompt, i)]]
           names == [i \in 1..k |-> PrefixName(prompt, i)]
<1>1. k \in Nat /\ k <= Candidates(prompt)
  BY CandidatesNat DEF Claims
<1>2. p.cached \in [DOMAIN p.cached -> Block]
  BY IndexFunction DEF Pool
<1>3. \A i \in 1..k : /\ i \in 1..Candidates(prompt)
                      /\ PrefixName(prompt, i) \in DOMAIN p.cached
                      /\ p.cached[PrefixName(prompt, i)] \in Block
  BY <1>1, <1>2, CandidatesNat DEF Claims, Resident
<1>4. blocks \in Seq(Block) /\ Len(blocks) = k
  BY <1>1, <1>3
<1>5. names \in Seq(Name) /\ Len(names) = k
  BY <1>1, <1>3, PrefixNameType
<1>6. ClaimPool(p, prompt, k) \in Pool
  BY <1>3, AcquireCachedType DEF ClaimPool
<1>7. t.hashes = <<>> /\ t.tokens = 0
  BY BlocksAssumption DEF WellFormed, Capacity, Table
<1>8. ClaimTable(p, t, prompt, k) =
        [blocks |-> <<>> \o blocks, tokens |-> 0 + k * BlockSize, hashes |-> <<>> \o names]
  BY <1>7 DEF ClaimTable
<1> HIDE DEF blocks, names
<1>9. <<>> \o blocks = blocks /\ <<>> \o names = names
  BY <1>4, <1>5
<1>10. k * BlockSize \in Nat
  BY <1>1, BlocksAssumption
<1>11. ClaimTable(p, t, prompt, k) \in Table
  BY <1>4, <1>5, <1>8, <1>9, <1>10 DEF Table
<1>12. WellFormed(ClaimTable(p, t, prompt, k))
  BY <1>1, <1>4, <1>5, <1>8, <1>9, <1>10 DEF WellFormed, Capacity
<1> QED BY <1>1, <1>3, <1>4, <1>5, <1>6, <1>8, <1>9, <1>10, <1>11, <1>12 DEF blocks

-----------------------------------------------------------------------------
(* Passes. *)

\* A row a pass may carry.
IsRow(row) ==
    /\ row.table \in Table
    /\ row.pos \in Nat /\ row.pos <= Capacity(row.table)
    /\ row.tokens \in Seq(Token)

\* What a row reads before its first position is a token prefix.
LEMMA ContextType ==
  ASSUME NEW kv \in [Block -> [Offset -> Seq(Token)]], NEW row, IsRow(row)
  PROVE  Context(kv, row) \in Seq(Token)
<1>1. CASE row.pos = 0
  BY <1>1 DEF Context
<1>2. CASE row.pos # 0
  <2> DEFINE q == row.pos - 1
  <2>1. q \in Nat /\ q < Len(row.table.blocks) * BlockSize /\ Len(row.table.blocks) \in Nat
        /\ row.table.blocks \in Seq(Block)
    BY <1>2, BlocksAssumption DEF IsRow, Capacity, Table
  <2> HIDE DEF q
  <2>2. q \div BlockSize \in 0..(Len(row.table.blocks) - 1)
    BY <2>1, DivBelow
  <2>3. row.table.blocks[q \div BlockSize + 1] \in Block
    BY <2>1, <2>2
  <2>4. q % BlockSize \in Offset
    BY <2>1, ModInOffset
  <2>5. Context(kv, row) = kv[row.table.blocks[q \div BlockSize + 1]][q % BlockSize]
    BY <1>2 DEF Context, Content, SlotBlock, q
  <2> QED BY <2>3, <2>4, <2>5
<1> QED BY <1>1, <1>2

\* What a row writes into a slot is a token prefix.
LEMMA WrittenType ==
  ASSUME NEW kv \in [Block -> [Offset -> Seq(Token)]], NEW row, IsRow(row),
         NEW b, NEW o, Writes(row, b, o)
  PROVE  Written(kv, row, b, o) \in Seq(Token)
<1> DEFINE q == WrittenAt(row, b, o)
<1>1. q \in row.pos..(row.pos + Len(row.tokens) - 1)
  BY DEF Writes, WrittenAt
<1>2. row.pos \in Nat /\ Len(row.tokens) \in Nat /\ row.tokens \in Seq(Token)
  BY DEF IsRow
<1> HIDE DEF q
<1>3. SubSeq(row.tokens, 1, q - row.pos + 1) \in Seq(Token)
  BY <1>1, <1>2
<1>4. Context(kv, row) \in Seq(Token)
  BY ContextType
<1>5. Context(kv, row) \o SubSeq(row.tokens, 1, q - row.pos + 1) \in Seq(Token)
  BY <1>3, <1>4
<1> QED BY <1>5 DEF Written, Garbage, q

\* A pass over rows that have slots leaves a cache, failed or not.
LEMMA RunPassType ==
  ASSUME NEW kv \in [Block -> [Offset -> Seq(Token)]],
         NEW rows, \A row \in rows : IsRow(row)
  PROVE  /\ RunPass(kv, rows) \in [Block -> [Offset -> Seq(Token)]]
         /\ SpoilPass(kv, rows) \in [Block -> [Offset -> Seq(Token)]]
<1>1. ASSUME NEW b \in Block, NEW o \in Offset, \E row \in rows : Writes(row, b, o)
      PROVE  Written(kv, CHOOSE row \in rows : Writes(row, b, o), b, o) \in Seq(Token)
  BY <1>1, WrittenType
<1>2. Garbage \in Seq(Token)
  BY DEF Garbage
<1> QED BY <1>1, <1>2 DEF RunPass, SpoilPass
=============================================================================
