---------------------------- MODULE PagedKVProofs ----------------------------
(***************************************************************************)
(* Type correctness of PagedKV, that no block is lost, shared by mistake   *)
(* or misnamed, and that every table reads its own history and every name  *)
(* tells the truth, for every pool, block size, vocabulary and set of      *)
(* sequences.                                                              *)
(***************************************************************************)
EXTENDS PagedKV, BlocksProofs

-----------------------------------------------------------------------------
(* Type correctness. *)

\* TypeOK with the pool a record of its own type, which TLC cannot enumerate.
TypeInv ==
    /\ pool \in Pool
    /\ table \in [Owner -> Table]
    /\ \A r \in Owner : WellFormed(table[r])
    /\ history \in [Owner -> Seq(Token)]
    /\ inflight \in [Owner -> Nat]
    /\ kv \in [Block -> [Offset -> Seq(Token)]]
    /\ prefix_cache \in BOOLEAN

\* The typed invariant holds initially.
LEMMA TypeInvInit == Init => TypeInv
<1> SUFFICES ASSUME Init PROVE TypeInv
  OBVIOUS
<1>1. NewPool \in Pool
  BY NewPoolType
<1>2. NewTable \in Table /\ WellFormed(NewTable)
  BY NewTableType
<1>3. history \in [Owner -> Seq(Token)]
  BY OwnerAssumption DEF Init
<1> QED BY <1>1, <1>2, <1>3 DEF Init, TypeInv, Garbage

\* A pass over runnable owners consists of rows that stay in their owner's slots.
LEMMA RowsType ==
  ASSUME TypeInv, NEW n \in Passes, \A r \in DOMAIN n : n[r] \in Runnable(r)
  PROVE  /\ DOMAIN n \subseteq Owner
         /\ \A r \in DOMAIN n : n[r] \in Nat
         /\ \A row \in Rows(n) : IsRow(row)
<1>1. DOMAIN n \subseteq Owner
  BY DEF Passes
<1>2. ASSUME NEW r \in DOMAIN n
      PROVE  n[r] \in Nat /\ IsRow(Row(r, n[r]))
  <2> DEFINE t == table[r]
             h == history[r]
  <2>1. t \in Table /\ WellFormed(t) /\ h \in Seq(Token) /\ Len(h) \in Nat
    BY <1>1, <1>2 DEF TypeInv
  <2>2. t.tokens \in Nat /\ Capacity(t) \in Nat /\ t.tokens <= Capacity(t)
    BY <2>1, BlocksAssumption DEF WellFormed, Capacity, Table
  <2>3. n[r] \in 1..(AtMost(Capacity(t), Len(h)) - t.tokens)
    BY <1>2 DEF Runnable
  <2> HIDE DEF t, h
  <2>4. n[r] \in Nat /\ t.tokens + n[r] <= Len(h)
    BY <2>1, <2>2, <2>3 DEF AtMost
  <2>5. SubSeq(h, t.tokens + 1, t.tokens + n[r]) \in Seq(Token)
    BY <2>1, <2>2, <2>4
  <2>6. Row(r, n[r]) = [table |-> t, pos |-> t.tokens,
                        tokens |-> SubSeq(h, t.tokens + 1, t.tokens + n[r])]
    BY DEF Row, t, h
  <2> QED BY <2>1, <2>2, <2>4, <2>5, <2>6 DEF IsRow
<1> QED BY <1>1, <1>2 DEF Rows

\* One step per action.
LEMMA TypeInvNext == TypeInv /\ [Next]_vars => TypeInv'
<1> SUFFICES ASSUME TypeInv, [Next]_vars PROVE TypeInv'
  OBVIOUS
<1> USE DEF TypeInv
<1>1. ASSUME NEW r \in Owner, Claim(r) PROVE TypeInv'
  <2>1. PICK k \in 0..Candidates(history[r]) :
          /\ Claims(pool, history[r], k)
          /\ pool' = ClaimPool(pool, history[r], k)
          /\ table' = [table EXCEPT ![r] = ClaimTable(pool, @, history[r], k)]
    BY <1>1 DEF Claim
  <2> DEFINE t == ClaimTable(pool, table[r], history[r], k)
  <2>2. pool' \in Pool /\ t \in Table /\ WellFormed(t)
    BY <1>1, <2>1, ClaimFields DEF Claim
  <2>3. table' = [table EXCEPT ![r] = t]
    BY <2>1
  <2> HIDE DEF t
  <2> QED BY <1>1, <2>2, <2>3 DEF Claim
<1>2. ASSUME NEW r \in Owner, Grow(r) PROVE TypeInv'
  <2>1. PICK b \in Allocatable(pool) :
          /\ pool' = Allocate(pool, b)
          /\ table' = [table EXCEPT ![r] = Push(@, b)]
    BY <1>2 DEF Grow
  <2>2. pool' \in Pool /\ Push(table[r], b) \in Table /\ WellFormed(Push(table[r], b))
    BY <2>1, AllocatableFree, AllocateType, PushType
  <2> QED BY <1>2, <2>1, <2>2 DEF Grow
<1>3. ASSUME NEW r \in Owner, Commit(r) PROVE TypeInv'
  <2> DEFINE t == Advance(table[r], inflight[r])
  <2>1. t \in Table /\ WellFormed(t)
    BY AdvanceType
  <2>2. NameFull(t, history[r]) \in Table /\ WellFormed(NameFull(t, history[r]))
    BY <2>1, NameFullType
  <2>3. CASE prefix_cache
    <3>1. PublishFull(pool, t, history[r]) \in Pool
      BY <2>1, PublishFullType
    <3> QED BY <1>3, <2>2, <2>3, <3>1 DEF Commit
  <2>4. CASE ~ prefix_cache
    BY <1>3, <2>1, <2>4 DEF Commit
  <2> QED BY <2>3, <2>4
<1>4. ASSUME NEW r \in Owner, Sample(r) PROVE TypeInv'
  BY <1>4 DEF Sample
<1>5. ASSUME NEW r \in Owner, Free(r) PROVE TypeInv'
  <2>1. pool' \in Pool
    BY <1>5, ReleaseAllType DEF Free, Table
  <2> QED BY <1>5, <2>1, NewTableType DEF Free
<1>6. ASSUME NEW n \in Passes, Run(n) PROVE TypeInv'
  <2>1. /\ \A r \in DOMAIN n : n[r] \in Nat
        /\ \A row \in Rows(n) : IsRow(row)
    BY <1>6, RowsType DEF Run
  <2>2. kv' \in [Block -> [Offset -> Seq(Token)]]
    BY <1>6, <2>1, RunPassType DEF Run
  <2> QED BY <1>6, <2>1, <2>2 DEF Run
<1>7. ASSUME NEW n \in Passes, Spoil(n) PROVE TypeInv'
  <2>1. \A row \in Rows(n) : IsRow(row)
    BY <1>7, RowsType DEF Spoil
  <2>2. kv' \in [Block -> [Offset -> Seq(Token)]]
    BY <1>7, <2>1, RunPassType DEF Spoil
  <2> QED BY <1>7, <2>2 DEF Spoil
<1>8. ASSUME NEW enabled \in BOOLEAN, SetPrefixCache(enabled) PROVE TypeInv'
  BY <1>8, ClearCacheType DEF SetPrefixCache
<1>9. CASE UNCHANGED vars
  BY <1>9 DEF vars
<1> QED BY <1>1, <1>2, <1>3, <1>4, <1>5, <1>6, <1>7, <1>8, <1>9 DEF Next

\* The typed invariant is at least what TLC checks.
LEMMA TypeInvImplies == TypeInv => TypeOK
<1> SUFFICES ASSUME TypeInv PROVE TypeOK
  OBVIOUS
<1>1. pool.cached \in Index
  BY DEF TypeInv, Pool
<1>2. \A n \in DOMAIN pool.cached : n \in Name /\ pool.cached[n] \in Block
  BY <1>1, IndexFunction
<1> QED BY <1>2 DEF TypeInv, TypeOK, Pool

\* In every reachable state the variables have their types and every table is
\* well formed: its named blocks are full of committed tokens, and its tokens
\* have slots, so the errors commit ignores (advance past the capacity, a name
\* for a block that is not there) cannot occur.
THEOREM TypeCorrect == Spec => []TypeOK
<1>1. TypeInv => TypeOK
  BY TypeInvImplies
<1> QED BY <1>1, TypeInvInit, TypeInvNext, PTL DEF Spec

-----------------------------------------------------------------------------
(* No block is lost, shared by mistake or misnamed. *)

\* The three invariants hold each other up: a claim hands out distinct blocks
\* because the index matches the slots, the index survives a publish because
\* the blocks it names were unnamed and their owner's alone, and they are its
\* alone because only blocks nobody holds are handed out.
PoolInv ==
    /\ HoldersCountTables
    /\ IndexMatchesSlots
    /\ UnnamedBlocksAreOwn

IInv == TypeInv /\ PoolInv

\* The blocks of a table.
BlocksOf(t) == {t.blocks[i] : i \in DOMAIN t.blocks}

\* The holders of a block can be counted.
LEMMA HoldersFinite ==
  ASSUME NEW b
  PROVE  IsFiniteSet(Holders(b)) /\ Cardinality(Holders(b)) \in Nat
<1>1. Holders(b) \subseteq Owner
  BY DEF Holders
<1> QED BY <1>1, OwnerAssumption, FS_Subset, FS_CardinalityType

\* Who holds a block after one table changed.
LEMMA HoldersChange ==
  ASSUME table \in [Owner -> Table], NEW r \in Owner, NEW t,
         table' = [table EXCEPT ![r] = t]
  PROVE  /\ \A s \in Owner : Holding(s)' = IF s = r THEN BlocksOf(t) ELSE Holding(s)
         /\ \A b \in BlocksOf(t) \ Holding(r) :
              Cardinality(Holders(b)') = Cardinality(Holders(b)) + 1
         /\ \A b \in Holding(r) \ BlocksOf(t) :
              Cardinality(Holders(b)') = Cardinality(Holders(b)) - 1
         /\ \A b : (b \in Holding(r) <=> b \in BlocksOf(t)) => Holders(b)' = Holders(b)
<1>1. \A s \in Owner : Holding(s)' = IF s = r THEN BlocksOf(t) ELSE Holding(s)
  BY DEF Holding, BlocksOf
<1>2. ASSUME NEW b \in BlocksOf(t) \ Holding(r)
      PROVE  Cardinality(Holders(b)') = Cardinality(Holders(b)) + 1
  <2>1. Holders(b)' = Holders(b) \cup {r} /\ r \notin Holders(b)
    BY <1>1, <1>2 DEF Holders
  <2> QED BY <2>1, HoldersFinite, FS_AddElement
<1>3. ASSUME NEW b \in Holding(r) \ BlocksOf(t)
      PROVE  Cardinality(Holders(b)') = Cardinality(Holders(b)) - 1
  <2>1. Holders(b)' = Holders(b) \ {r} /\ r \in Holders(b)
    BY <1>1, <1>3 DEF Holders
  <2> QED BY <2>1, HoldersFinite, FS_RemoveElement
<1>4. ASSUME NEW b, b \in Holding(r) <=> b \in BlocksOf(t)
      PROVE  Holders(b)' = Holders(b)
  BY <1>1, <1>4 DEF Holders
<1> QED BY <1>1, <1>2, <1>3, <1>4

\* A block in a table is counted and not free.
LEMMA HeldIsCounted ==
  ASSUME TypeInv, HoldersCountTables, NEW r \in Owner, NEW b \in Holding(r)
  PROVE  b \in Block /\ pool.holders[b] > 0 /\ b \notin pool.free
<1>1. b \in Block
  BY DEF Holding, TypeInv, Table
<1>2. Holders(b) # {} /\ IsFiniteSet(Holders(b))
  BY HoldersFinite DEF Holders
<1>3. Cardinality(Holders(b)) # 0 /\ Cardinality(Holders(b)) \in Nat
  BY <1>2, HoldersFinite, FS_EmptySet
<1> QED BY <1>1, <1>3 DEF HoldersCountTables

\* Nobody holds anything initially, and nothing is named.
LEMMA PoolInvInit == Init => PoolInv
<1> SUFFICES ASSUME Init PROVE PoolInv
  OBVIOUS
<1>1. \A r \in Owner : table[r].blocks = <<>> /\ Holding(r) = {}
  BY DEF Init, NewTable, Holding
<1>2. \A b : Holders(b) = {}
  BY <1>1 DEF Holders
<1>3. \A b \in Block : pool.holders[b] = 0 /\ pool.hash[b] = NoName
  BY DEF Init, NewPool
<1>4. pool.free = Block /\ DOMAIN pool.cached = {}
  BY DEF Init, NewPool
<1>5. HoldersCountTables
  <2>1. \A b : Cardinality(Holders(b)) = 0
    BY <1>2, HoldersFinite, FS_EmptySet
  <2>2. \A r \in Owner : DOMAIN table[r].blocks = {}
    BY <1>1
  <2> QED BY <1>3, <1>4, <2>1, <2>2 DEF HoldersCountTables
<1>6. IndexMatchesSlots
  BY <1>3, <1>4 DEF IndexMatchesSlots
<1>7. UnnamedBlocksAreOwn
  BY <1>1 DEF UnnamedBlocksAreOwn
<1> QED BY <1>5, <1>6, <1>7 DEF PoolInv

\* A claim takes blocks that carry different names, hence different blocks,
\* none of which is in the unnamed part of any table.
LEMMA ClaimKeeps ==
  ASSUME IInv, NEW r \in Owner, Claim(r)
  PROVE  PoolInv'
<1>0. TypeInv /\ HoldersCountTables /\ IndexMatchesSlots /\ UnnamedBlocksAreOwn
  BY DEF IInv, PoolInv
<1>1. PICK k \in 0..Candidates(history[r]) :
        /\ Claims(pool, history[r], k)
        /\ pool' = ClaimPool(pool, history[r], k)
        /\ table' = [table EXCEPT ![r] = ClaimTable(pool, @, history[r], k)]
  BY DEF Claim
<1> DEFINE t == ClaimTable(pool, table[r], history[r], k)
           name(i) == PrefixName(history[r], i)
           S == {pool.cached[name(i)] : i \in 1..k}
<1>2. /\ pool \in Pool /\ history[r] \in Seq(Token) /\ table[r] \in Table
      /\ WellFormed(table[r]) /\ table[r].blocks = <<>> /\ table \in [Owner -> Table]
  BY <1>0 DEF Claim, TypeInv
<1>3. /\ k \in Nat
      /\ \A i \in 1..k : /\ i \in 1..Candidates(history[r])
                         /\ name(i) \in DOMAIN pool.cached
                         /\ pool.cached[name(i)] \in Block
      /\ t.blocks = [i \in 1..k |-> pool.cached[name(i)]]
      /\ Len(t.hashes) = k
  <2> DEFINE h == history[r]
             tb == table[r]
  <2>1. /\ pool \in Pool /\ tb \in Table /\ WellFormed(tb) /\ tb.blocks = <<>>
        /\ h \in Seq(Token) /\ Claims(pool, h, k)
    BY <1>1, <1>2
  <2> HIDE DEF h, tb
  <2>2. /\ k \in Nat
        /\ \A i \in 1..k : /\ i \in 1..Candidates(h)
                           /\ PrefixName(h, i) \in DOMAIN pool.cached
                           /\ pool.cached[PrefixName(h, i)] \in Block
        /\ ClaimTable(pool, tb, h, k).blocks = [i \in 1..k |-> pool.cached[PrefixName(h, i)]]
        /\ Len(ClaimTable(pool, tb, h, k).hashes) = k
    BY <2>1, ClaimFields
  <2> QED BY <2>2 DEF h, tb
<1>4. table' = [table EXCEPT ![r] = t]
  BY <1>1
<1>5. S \subseteq Block
  BY <1>3
<1>6. /\ pool'.hash = pool.hash /\ pool'.cached = pool.cached
      /\ pool'.free = pool.free \ S
      /\ \A b \in Block : pool'.holders[b] =
            IF b \in S THEN pool.holders[b] + 1 ELSE pool.holders[b]
  BY <1>1, <1>2 DEF ClaimPool, AcquireCached, Pool
<1>7. \A i \in 1..k : pool.hash[pool.cached[name(i)]] = name(i) /\ name(i) # NoName
  BY <1>2, <1>3, PrefixNameType, <1>0 DEF IndexMatchesSlots
<1>8. \A i, j \in 1..k : pool.cached[name(i)] = pool.cached[name(j)] => i = j
  <2> SUFFICES ASSUME NEW i \in 1..k, NEW j \in 1..k, name(i) = name(j) PROVE i = j
    BY <1>7
  <2>1. i * BlockSize = j * BlockSize
    BY <1>2, <1>3, PrefixNameType
  <2>2. i \in Nat /\ j \in Nat
    BY <1>3
  <2> HIDE DEF name
  <2> QED BY <2>1, <2>2, BlocksAssumption
<1> HIDE DEF t, name
<1>9. BlocksOf(t) = S /\ DOMAIN t.blocks = 1..k
  BY <1>3 DEF BlocksOf
<1>10. Holding(r) = {}
  BY <1>2 DEF Holding
<1>11. /\ \A s \in Owner : Holding(s)' = IF s = r THEN S ELSE Holding(s)
       /\ \A b \in S : Cardinality(Holders(b)') = Cardinality(Holders(b)) + 1
       /\ \A b : b \notin S => Holders(b)' = Holders(b)
  BY <1>2, <1>4, <1>9, <1>10, HoldersChange
<1>12. HoldersCountTables'
  <2>1. ASSUME NEW b \in Block
        PROVE  /\ pool'.holders[b] = Cardinality(Holders(b)')
               /\ b \in pool'.free <=> pool'.holders[b] = 0
    <3>1. pool.holders[b] \in Nat
      BY <1>2 DEF Pool
    <3> HIDE DEF S
    <3> QED BY <1>0, <1>6, <1>11, <3>1 DEF HoldersCountTables
  <2>2. ASSUME NEW s \in Owner, NEW i \in DOMAIN table'[s].blocks,
               NEW j \in DOMAIN table'[s].blocks,
               table'[s].blocks[i] = table'[s].blocks[j]
        PROVE  i = j
    BY <1>0, <1>2, <1>3, <1>4, <1>8, <2>2 DEF HoldersCountTables
  <2> QED BY <2>1, <2>2 DEF HoldersCountTables
<1>13. IndexMatchesSlots'
  BY <1>0, <1>6 DEF IndexMatchesSlots
<1>14. UnnamedBlocksAreOwn'
  <2> SUFFICES ASSUME NEW s \in Owner, NEW i \in DOMAIN table'[s].blocks,
                      i > Len(table'[s].hashes)
               PROVE  /\ pool'.hash[table'[s].blocks[i]] = NoName
                      /\ \A q \in Owner \ {s} : table'[s].blocks[i] \notin Holding(q)'
    BY DEF UnnamedBlocksAreOwn
  <2>1. s # r
    BY <1>2, <1>3, <1>4, <1>9
  <2>2. /\ pool.hash[table[s].blocks[i]] = NoName
        /\ \A q \in Owner \ {s} : table[s].blocks[i] \notin Holding(q)
        /\ table'[s] = table[s]
    BY <1>0, <1>2, <1>4, <2>1 DEF UnnamedBlocksAreOwn
  <2>3. table[s].blocks[i] \notin S
    BY <1>7, <2>2
  <2> QED BY <1>6, <1>11, <2>2, <2>3
<1> QED BY <1>12, <1>13, <1>14 DEF PoolInv

\* A free block is in no table, so it can be given to anybody.
LEMMA GrowKeeps ==
  ASSUME IInv, NEW r \in Owner, Grow(r)
  PROVE  PoolInv'
<1>0. TypeInv /\ HoldersCountTables /\ IndexMatchesSlots /\ UnnamedBlocksAreOwn
  BY DEF IInv, PoolInv
<1>1. PICK b \in Allocatable(pool) :
        /\ pool' = Allocate(pool, b)
        /\ table' = [table EXCEPT ![r] = Push(@, b)]
  BY DEF Grow
<1> DEFINE t == Push(table[r], b)
           n == Len(table[r].blocks)
<1>2. /\ pool \in Pool /\ table \in [Owner -> Table] /\ table[r] \in Table /\ n \in Nat
      /\ table[r].blocks \in Seq(Block) /\ DOMAIN table[r].blocks = 1..n
      /\ Len(table[r].hashes) \in Nat /\ Len(table[r].hashes) <= n
  BY <1>0 DEF TypeInv, Table, WellFormed
<1>3. b \in pool.free /\ b \in Block
  BY <1>1, <1>2, AllocatableFree
<1>4. /\ t.blocks = Append(table[r].blocks, b) /\ t.hashes = table[r].hashes
      /\ DOMAIN t.blocks = 1..(n + 1) /\ t.blocks[n + 1] = b
      /\ \A i \in 1..n : t.blocks[i] = table[r].blocks[i]
  BY <1>2, <1>3 DEF Push, Table
<1>5. table' = [table EXCEPT ![r] = t]
  BY <1>1
<1> HIDE DEF t
<1>6. \A s \in Owner : b \notin Holding(s)
  BY <1>0, <1>3, HeldIsCounted
<1>7. BlocksOf(t) = Holding(r) \cup {b}
  BY <1>2, <1>4 DEF BlocksOf, Holding
<1>8. /\ \A s \in Owner : Holding(s)' = IF s = r THEN Holding(r) \cup {b} ELSE Holding(s)
      /\ Cardinality(Holders(b)') = Cardinality(Holders(b)) + 1
      /\ \A c : c # b => Holders(c)' = Holders(c)
  BY <1>2, <1>5, <1>6, <1>7, HoldersChange
<1>9. /\ pool'.free = pool.free \ {b}
      /\ pool'.cached = Unindexed(pool, b)
      /\ pool'.hash[b] = NoName /\ pool'.holders[b] = 1
      /\ \A c \in Block \ {b} : /\ pool'.hash[c] = pool.hash[c]
                                /\ pool'.holders[c] = pool.holders[c]
  BY <1>1, <1>2, <1>3 DEF Allocate, Pool
<1>10. HoldersCountTables'
  <2>1. pool'.holders[b] = Cardinality(Holders(b)') /\ b \notin pool'.free
    BY <1>0, <1>3, <1>8, <1>9 DEF HoldersCountTables
  <2>2. ASSUME NEW c \in Block \ {b}
        PROVE  /\ pool'.holders[c] = Cardinality(Holders(c)')
               /\ c \in pool'.free <=> pool'.holders[c] = 0
    BY <1>0, <1>8, <1>9 DEF HoldersCountTables
  <2>3. ASSUME NEW i \in DOMAIN t.blocks, NEW j \in DOMAIN t.blocks,
               t.blocks[i] = t.blocks[j]
        PROVE  i = j
    <3>1. \A m \in 1..n : t.blocks[m] # b
      BY <1>2, <1>4, <1>6 DEF Holding
    <3>2. CASE i = n + 1 \/ j = n + 1
      BY <1>2, <1>4, <2>3, <3>1, <3>2
    <3>3. CASE i # n + 1 /\ j # n + 1
      <4>1. i \in 1..n /\ j \in 1..n
        BY <1>2, <1>4, <3>3
      <4> QED BY <1>0, <1>2, <1>4, <2>3, <4>1 DEF HoldersCountTables
    <3> QED BY <3>2, <3>3
  <2>4. ASSUME NEW s \in Owner, NEW i \in DOMAIN table'[s].blocks,
               NEW j \in DOMAIN table'[s].blocks,
               table'[s].blocks[i] = table'[s].blocks[j]
        PROVE  i = j
    BY <1>0, <1>2, <1>5, <2>3, <2>4 DEF HoldersCountTables
  <2> QED BY <1>9, <2>1, <2>2, <2>4 DEF HoldersCountTables
<1>11. IndexMatchesSlots'
  <2>1. ASSUME NEW m \in DOMAIN pool'.cached
        PROVE  m # NoName /\ pool'.hash[pool'.cached[m]] = m
    <3>1. /\ m \in DOMAIN pool.cached /\ pool'.cached[m] = pool.cached[m]
          /\ ~ (m = pool.hash[b] /\ pool.cached[m] = b)
      BY <1>9 DEF Unindexed
    <3>2. m # NoName /\ pool.hash[pool.cached[m]] = m
      BY <1>0, <3>1 DEF IndexMatchesSlots
    <3>3. pool.cached[m] # b /\ pool.cached[m] \in Block
      BY <1>2, <3>1, <3>2, IndexFunction DEF Pool
    <3> QED BY <1>9, <3>1, <3>2, <3>3
  <2>2. ASSUME NEW c \in Block, pool'.hash[c] # NoName
        PROVE  pool'.hash[c] \in DOMAIN pool'.cached /\ pool'.cached[pool'.hash[c]] = c
    <3>1. c # b /\ pool'.hash[c] = pool.hash[c]
      BY <1>9, <2>2
    <3>2. pool.hash[c] \in DOMAIN pool.cached /\ pool.cached[pool.hash[c]] = c
      BY <1>0, <2>2, <3>1 DEF IndexMatchesSlots
    <3> QED BY <1>9, <3>1, <3>2 DEF Unindexed
  <2> QED BY <2>1, <2>2 DEF IndexMatchesSlots
<1>12. UnnamedBlocksAreOwn'
  <2> SUFFICES ASSUME NEW s \in Owner, NEW i \in DOMAIN table'[s].blocks,
                      i > Len(table'[s].hashes)
               PROVE  /\ pool'.hash[table'[s].blocks[i]] = NoName
                      /\ \A q \in Owner \ {s} : table'[s].blocks[i] \notin Holding(q)'
    BY DEF UnnamedBlocksAreOwn
  <2>1. CASE s = r /\ i = n + 1
    BY <1>2, <1>4, <1>5, <1>6, <1>8, <1>9, <2>1
  <2>2. CASE ~ (s = r /\ i = n + 1)
    <3>1. /\ i \in DOMAIN table[s].blocks /\ i > Len(table[s].hashes)
          /\ table'[s].blocks[i] = table[s].blocks[i]
      <4>1. CASE s = r
        <5>1. table'[s] = t /\ i \in 1..n
          BY <1>2, <1>4, <1>5, <2>2, <4>1
        <5> QED BY <1>2, <1>4, <4>1, <5>1
      <4>2. CASE s # r
        <5>1. table'[s] = table[s]
          BY <1>2, <1>5, <4>2
        <5> QED BY <5>1
      <4> QED BY <4>1, <4>2
    <3>2. /\ pool.hash[table[s].blocks[i]] = NoName
          /\ \A q \in Owner \ {s} : table[s].blocks[i] \notin Holding(q)
          /\ table[s].blocks[i] \in Holding(s) /\ table[s].blocks[i] \in Block
      BY <1>0, <1>2, <3>1 DEF UnnamedBlocksAreOwn, Holding, Table
    <3> QED BY <1>6, <1>8, <1>9, <3>1, <3>2
  <2> QED BY <2>1, <2>2
<1> QED BY <1>10, <1>11, <1>12 DEF PoolInv

\* Publishing names only blocks without a name, and only names nobody has.
LEMMA CommitKeeps ==
  ASSUME IInv, NEW r \in Owner, Commit(r)
  PROVE  PoolInv'
<1>0. TypeInv /\ HoldersCountTables /\ IndexMatchesSlots /\ UnnamedBlocksAreOwn
  BY DEF IInv, PoolInv
<1> DEFINE t == Advance(table[r], inflight[r])
           h == history[r]
           new == Published(pool, t, h)
           lo == Len(table[r].hashes)
<1>1. /\ pool \in Pool /\ table \in [Owner -> Table] /\ table[r] \in Table
      /\ t \in Table /\ WellFormed(t) /\ h \in Seq(Token)
      /\ t.blocks = table[r].blocks /\ t.hashes = table[r].hashes
      /\ lo \in Nat
  <2>1. /\ pool \in Pool /\ table \in [Owner -> Table] /\ table[r] \in Table
        /\ WellFormed(table[r]) /\ h \in Seq(Token) /\ inflight[r] \in Nat
    BY <1>0 DEF TypeInv
  <2>2. /\ t \in Table /\ WellFormed(t)
        /\ t.blocks = table[r].blocks /\ t.hashes = table[r].hashes
    BY <2>1, AdvanceType
  <2>3. table[r].hashes \in Seq(Name)
    BY <2>1 DEF Table
  <2> QED BY <2>1, <2>2, <2>3
<1> HIDE DEF t, h
<1>2. \E u \in Table : /\ table' = [table EXCEPT ![r] = u]
                       /\ u.blocks = table[r].blocks
                       /\ prefix_cache => Len(u.hashes) = Full(t, h)
                       /\ ~ prefix_cache => u.hashes = table[r].hashes
  BY <1>1, NameFullType DEF Commit, t, h
<1>3. PICK u \in Table : /\ table' = [table EXCEPT ![r] = u]
                         /\ u.blocks = table[r].blocks
                         /\ prefix_cache => Len(u.hashes) = Full(t, h)
                         /\ ~ prefix_cache => u.hashes = table[r].hashes
  BY <1>2
<1>4. BlocksOf(u) = Holding(r)
  BY <1>3 DEF BlocksOf, Holding
<1>5. /\ \A s \in Owner : Holding(s)' = Holding(s)
      /\ \A b : Holders(b)' = Holders(b)
  BY <1>1, <1>3, <1>4, HoldersChange, ZenonT(60)
<1>6. \A s \in Owner : table'[s].blocks = table[s].blocks
  BY <1>1, <1>3
<1>7. \A s \in Owner \ {r} : table'[s] = table[s]
  BY <1>1, <1>3
<1>8. CASE ~ prefix_cache
  <2>1. pool' = pool
    BY <1>8 DEF Commit
  <2>2. \A s \in Owner : table'[s].hashes = table[s].hashes
    BY <1>1, <1>3, <1>8
  <2>3. HoldersCountTables'
    BY <1>0, <1>5, <1>6, <2>1 DEF HoldersCountTables
  <2>4. IndexMatchesSlots'
    BY <1>0, <2>1 DEF IndexMatchesSlots
  <2>5. UnnamedBlocksAreOwn'
    BY <1>0, <1>5, <1>6, <2>1, <2>2 DEF UnnamedBlocksAreOwn
  <2> QED BY <2>3, <2>4, <2>5 DEF PoolInv
<1>9. CASE prefix_cache
  <2>1. pool' = PublishFull(pool, t, h)
    BY <1>9 DEF Commit, t, h
  <2>2. /\ Full(t, h) \in Nat /\ lo <= Full(t, h) /\ Full(t, h) <= Len(t.blocks)
        /\ DOMAIN t.blocks = 1..Len(t.blocks)
    BY <1>1, FullBounds DEF Table
  <2>3. \A i \in new : /\ i \in (lo + 1)..Full(t, h)
                       /\ i \in DOMAIN t.blocks
                       /\ t.blocks[i] \in Block
                       /\ Publishable(pool, t.blocks[i], FullName(t, h, i))
    BY <1>1, <2>2 DEF Published, Table
  <2>4. \A i, j \in DOMAIN t.blocks : t.blocks[i] = t.blocks[j] => i = j
    BY <1>0, <1>1 DEF HoldersCountTables
  <2>5. /\ pool'.holders = pool.holders /\ pool'.free = pool.free
        /\ DOMAIN pool'.cached = DOMAIN pool.cached \cup {FullName(t, h, i) : i \in new}
        /\ \A i \in new : /\ pool'.hash[t.blocks[i]] = FullName(t, h, i)
                          /\ pool'.cached[FullName(t, h, i)] = t.blocks[i]
        /\ \A b \in Block : (\A i \in new : b # t.blocks[i]) => pool'.hash[b] = pool.hash[b]
        /\ \A n \in DOMAIN pool.cached :
             (\A i \in new : n # FullName(t, h, i)) => pool'.cached[n] = pool.cached[n]
    <3>1. \A i, j \in (Len(t.hashes) + 1)..Full(t, h) : t.blocks[i] = t.blocks[j] => i = j
      BY <1>1, <2>2, <2>4, SMTT(60)
    <3> QED BY <1>1, <2>1, <3>1, PublishFullFields, SMTT(60)
  <2>6. \A i \in new : FullName(t, h, i) # NoName
    <3> SUFFICES ASSUME NEW i \in new PROVE FullName(t, h, i) # NoName
      OBVIOUS
    <3>1. i \in (Len(t.hashes) + 1)..Full(t, h)
      BY <1>1, <2>3
    <3>2. Len(FullName(t, h, i)) > 0
      <4>1. /\ Len(FullName(t, h, i)) =
                 Len(LastHash(t)) + (i * BlockSize - Len(t.hashes) * BlockSize)
            /\ i * BlockSize > Len(t.hashes) * BlockSize
            /\ Len(LastHash(t)) \in Nat
        BY <1>1, <3>1, FullNameLength
      <4>2. i * BlockSize \in Nat /\ Len(t.hashes) * BlockSize \in Nat
        BY <1>1, <2>2, <3>1, BlocksAssumption
      <4> QED BY <4>1, <4>2
    <3> QED BY <3>2 DEF NoName
  <2>7. \A i \in new : /\ pool.hash[t.blocks[i]] = NoName
                       /\ \A s \in Owner \ {r} : t.blocks[i] \notin Holding(s)
    BY <1>0, <1>1, <2>2, <2>3 DEF UnnamedBlocksAreOwn
  <2> HIDE DEF new
  <2>8. HoldersCountTables'
    BY <1>0, <1>5, <1>6, <2>5 DEF HoldersCountTables
  <2>9. IndexMatchesSlots'
    <3>1. ASSUME NEW n \in DOMAIN pool'.cached
          PROVE  n # NoName /\ pool'.hash[pool'.cached[n]] = n
      <4>1. CASE \E i \in new : n = FullName(t, h, i)
        BY <2>5, <2>6, <4>1
      <4>2. CASE \A i \in new : n # FullName(t, h, i)
        <5>1. n \in DOMAIN pool.cached /\ pool'.cached[n] = pool.cached[n]
          BY <2>5, <4>2
        <5>2. n # NoName /\ pool.hash[pool.cached[n]] = n /\ pool.cached[n] \in Block
          BY <1>0, <1>1, <5>1, IndexFunction DEF IndexMatchesSlots, Pool
        <5>3. \A i \in new : pool.cached[n] # t.blocks[i]
          BY <2>7, <5>2
        <5> QED BY <2>5, <5>1, <5>2, <5>3
      <4> QED BY <4>1, <4>2
    <3>2. ASSUME NEW b \in Block, pool'.hash[b] # NoName
          PROVE  pool'.hash[b] \in DOMAIN pool'.cached /\ pool'.cached[pool'.hash[b]] = b
      <4>1. CASE \E i \in new : b = t.blocks[i]
        BY <2>5, <4>1
      <4>2. CASE \A i \in new : b # t.blocks[i]
        <5> DEFINE n == pool.hash[b]
        <5>1. pool'.hash[b] = n
          BY <2>5, <4>2
        <5>2. n \in DOMAIN pool.cached /\ pool.cached[n] = b
          BY <1>0, <3>2, <5>1 DEF IndexMatchesSlots
        <5>3. \A i \in new : n # FullName(t, h, i)
          BY <2>3, <4>2, <5>2 DEF Publishable
        <5> QED BY <2>5, <5>1, <5>2, <5>3
      <4> QED BY <4>1, <4>2
    <3> QED BY <3>1, <3>2 DEF IndexMatchesSlots
  <2>10. UnnamedBlocksAreOwn'
    <3> SUFFICES ASSUME NEW s \in Owner, NEW i \in DOMAIN table'[s].blocks,
                        i > Len(table'[s].hashes)
                 PROVE  /\ pool'.hash[table'[s].blocks[i]] = NoName
                        /\ \A q \in Owner \ {s} : table'[s].blocks[i] \notin Holding(q)'
      BY DEF UnnamedBlocksAreOwn
    <3> DEFINE b == table[s].blocks[i]
    <3>1. i \in DOMAIN table[s].blocks /\ i > Len(table[s].hashes) /\ table'[s].blocks[i] = b
      <4>1. CASE s = r
        <5>1. table'[s].hashes = u.hashes /\ Len(u.hashes) = Full(t, h)
          BY <1>1, <1>3, <1>9, <4>1
        <5>2. i \in 1..Len(t.blocks)
          BY <1>1, <1>6, <2>2, <4>1
        <5> QED BY <1>6, <2>2, <4>1, <5>1, <5>2
      <4>2. CASE s # r
        BY <1>7, <4>2
      <4> QED BY <4>1, <4>2
    <3>2. /\ pool.hash[b] = NoName /\ b \in Block /\ b \in Holding(s)
          /\ \A q \in Owner \ {s} : b \notin Holding(q)
      BY <1>0, <1>1, <3>1, SMTT(60) DEF UnnamedBlocksAreOwn, Holding, Table
    <3>3. \A j \in new : b # t.blocks[j]
      <4>1. CASE s = r
        <5>1. i > Full(t, h)
          BY <1>1, <1>3, <1>9, <4>1
        <5> QED BY <1>1, <2>2, <2>3, <2>4, <3>1, <4>1, <5>1, SMTT(60)
      <4>2. CASE s # r
        BY <2>7, <3>2, <4>2
      <4> QED BY <4>1, <4>2
    <3> QED BY <1>5, <2>5, <3>1, <3>2, <3>3
  <2> QED BY <2>8, <2>9, <2>10 DEF PoolInv
<1> QED BY <1>8, <1>9

\* Every holder of a block gives back one reference, and the block is free
\* when the last one did.
LEMMA FreeKeeps ==
  ASSUME IInv, NEW r \in Owner, Free(r)
  PROVE  PoolInv'
<1>0. TypeInv /\ HoldersCountTables /\ IndexMatchesSlots /\ UnnamedBlocksAreOwn
  BY DEF IInv, PoolInv
<1>1. /\ pool \in Pool /\ table \in [Owner -> Table]
      /\ table[r].blocks \in Seq(Block)
      /\ \A b \in Holding(r) : b \in Block /\ pool.holders[b] > 0 /\ b \notin pool.free
  BY <1>0, HeldIsCounted DEF TypeInv, Table
<1>2. table' = [table EXCEPT ![r] = NewTable]
  BY DEF Free
<1>3. /\ pool'.hash = pool.hash /\ pool'.cached = pool.cached
      /\ \A b \in Holding(r) : pool'.holders[b] = pool.holders[b] - 1
      /\ \A b \in Block \ Holding(r) : pool'.holders[b] = pool.holders[b]
      /\ pool'.free = pool.free \cup {b \in Holding(r) : pool.holders[b] = 1}
  <2>1. pool' = ReleaseAll(pool, table[r].blocks)
    BY DEF Free
  <2>2. Holding(r) = {table[r].blocks[i] : i \in DOMAIN table[r].blocks}
    BY DEF Holding
  <2> DEFINE taken == Holding(r)
             blocks == table[r].blocks
             q == ReleaseAll(pool, blocks)
  <2>3. /\ pool \in Pool /\ blocks \in Seq(Block)
        /\ taken = {blocks[i] : i \in DOMAIN blocks}
        /\ \A b \in taken : pool.holders[b] > 0
    BY <1>1, <2>2
  <2>4. q = ReleaseAll(pool, blocks)
    OBVIOUS
  <2> HIDE DEF taken, blocks, q
  <2>5. /\ q.hash = pool.hash /\ q.cached = pool.cached
        /\ \A b \in taken : q.holders[b] = pool.holders[b] - 1
        /\ \A b \in Block \ taken : q.holders[b] = pool.holders[b]
        /\ q.free = pool.free \cup {b \in taken : pool.holders[b] = 1}
    BY <2>3, <2>4, ReleaseAllFields, SMTT(60)
  <2> QED BY <2>1, <2>5 DEF taken, blocks, q
<1>4. BlocksOf(NewTable) = {} /\ DOMAIN NewTable.blocks = {}
  BY DEF BlocksOf, NewTable
<1>5. /\ \A s \in Owner : Holding(s)' = IF s = r THEN {} ELSE Holding(s)
      /\ \A b \in Holding(r) : Cardinality(Holders(b)') = Cardinality(Holders(b)) - 1
      /\ \A b : b \notin Holding(r) => Holders(b)' = Holders(b)
  BY <1>1, <1>2, <1>4, HoldersChange
<1>6. \A s \in Owner \ {r} : table'[s] = table[s]
  BY <1>1, <1>2
<1>7. table'[r] = NewTable
  BY <1>1, <1>2
<1>8. HoldersCountTables'
  <2>1. ASSUME NEW b \in Block
        PROVE  /\ pool'.holders[b] = Cardinality(Holders(b)')
               /\ b \in pool'.free <=> pool'.holders[b] = 0
    <3>1. pool.holders[b] \in Nat
      BY <1>1 DEF Pool
    <3>2. /\ pool.holders[b] = Cardinality(Holders(b))
          /\ b \in pool.free <=> pool.holders[b] = 0
      BY <1>0 DEF HoldersCountTables
    <3>3. CASE b \in Holding(r)
      BY <1>1, <1>3, <1>5, <3>1, <3>2, <3>3
    <3>4. CASE b \notin Holding(r)
      BY <1>3, <1>5, <3>2, <3>4
    <3> QED BY <3>3, <3>4
  <2>2. ASSUME NEW s \in Owner, NEW i \in DOMAIN table'[s].blocks,
               NEW j \in DOMAIN table'[s].blocks,
               table'[s].blocks[i] = table'[s].blocks[j]
        PROVE  i = j
    <3>1. s # r
      BY <1>4, <1>7
    <3> QED BY <1>0, <1>6, <2>2, <3>1 DEF HoldersCountTables
  <2> QED BY <2>1, <2>2 DEF HoldersCountTables
<1>9. IndexMatchesSlots'
  BY <1>0, <1>3 DEF IndexMatchesSlots
<1>10. UnnamedBlocksAreOwn'
  <2> SUFFICES ASSUME NEW s \in Owner, NEW i \in DOMAIN table'[s].blocks,
                      i > Len(table'[s].hashes)
               PROVE  /\ pool'.hash[table'[s].blocks[i]] = NoName
                      /\ \A q \in Owner \ {s} : table'[s].blocks[i] \notin Holding(q)'
    BY DEF UnnamedBlocksAreOwn
  <2>1. s # r
    BY <1>4, <1>7
  <2>2. table'[s] = table[s]
    BY <1>6, <2>1
  <2>3. /\ pool.hash[table[s].blocks[i]] = NoName
        /\ \A q \in Owner \ {s} : table[s].blocks[i] \notin Holding(q)
    BY <1>0, <2>2 DEF UnnamedBlocksAreOwn
  <2> QED BY <1>3, <1>5, <2>2, <2>3
<1> QED BY <1>8, <1>9, <1>10 DEF PoolInv

\* Forgetting every name leaves the index empty and no block named.
LEMMA SetPrefixCacheKeeps ==
  ASSUME IInv, NEW enabled \in BOOLEAN, SetPrefixCache(enabled)
  PROVE  PoolInv'
<1>0. TypeInv /\ HoldersCountTables /\ IndexMatchesSlots /\ UnnamedBlocksAreOwn
  BY DEF IInv, PoolInv
<1>1. table' = table
  BY DEF SetPrefixCache
<1>2. /\ \A s \in Owner : Holding(s)' = Holding(s)
      /\ \A b : Holders(b)' = Holders(b)
  BY <1>1 DEF Holding, Holders
<1>3. CASE enabled
  <2>1. pool' = pool
    BY <1>3 DEF SetPrefixCache
  <2> QED BY <1>0, <1>1, <1>2, <2>1
          DEF PoolInv, HoldersCountTables, IndexMatchesSlots, UnnamedBlocksAreOwn
<1>4. CASE ~ enabled
  <2>1. /\ pool'.holders = pool.holders /\ pool'.free = pool.free
        /\ \A b \in Block : pool'.hash[b] = NoName
        /\ DOMAIN pool'.cached = {}
    BY <1>0, <1>4 DEF SetPrefixCache, ClearCache, TypeInv, Pool
  <2>2. HoldersCountTables'
    BY <1>0, <1>1, <1>2, <2>1 DEF HoldersCountTables
  <2>3. IndexMatchesSlots'
    BY <2>1 DEF IndexMatchesSlots
  <2>4. UnnamedBlocksAreOwn'
    <3>1. \A s \in Owner : \A i \in DOMAIN table[s].blocks : table[s].blocks[i] \in Block
      BY <1>0 DEF TypeInv, Table
    <3> QED BY <1>0, <1>1, <1>2, <2>1, <3>1 DEF UnnamedBlocksAreOwn
  <2> QED BY <2>2, <2>3, <2>4 DEF PoolInv
<1> QED BY <1>3, <1>4

\* A step that leaves the pool and the tables alone keeps what is said of them.
LEMMA OthersKeep ==
  ASSUME IInv, UNCHANGED <<pool, table>>
  PROVE  PoolInv'
<1>1. pool' = pool /\ table' = table
  OBVIOUS
<1>2. /\ \A s \in Owner : Holding(s)' = Holding(s)
      /\ \A b : Holders(b)' = Holders(b)
  BY <1>1 DEF Holding, Holders
<1> QED BY <1>1, <1>2
        DEF IInv, PoolInv, HoldersCountTables, IndexMatchesSlots, UnnamedBlocksAreOwn

\* The invariant is inductive: one step per action.
LEMMA IInvNext == IInv /\ [Next]_vars => IInv'
<1> SUFFICES ASSUME IInv, [Next]_vars PROVE IInv'
  OBVIOUS
<1>1. TypeInv'
  BY TypeInvNext DEF IInv
<1>2. ASSUME NEW r \in Owner, Claim(r) PROVE PoolInv'
  BY <1>2, ClaimKeeps
<1>3. ASSUME NEW r \in Owner, Grow(r) PROVE PoolInv'
  BY <1>3, GrowKeeps
<1>4. ASSUME NEW r \in Owner, Commit(r) PROVE PoolInv'
  BY <1>4, CommitKeeps
<1>5. ASSUME NEW r \in Owner, Sample(r) PROVE PoolInv'
  BY <1>5, OthersKeep DEF Sample
<1>6. ASSUME NEW r \in Owner, Free(r) PROVE PoolInv'
  BY <1>6, FreeKeeps
<1>7. ASSUME NEW n \in Passes, Run(n) \/ Spoil(n) PROVE PoolInv'
  BY <1>7, OthersKeep DEF Run, Spoil
<1>8. ASSUME NEW enabled \in BOOLEAN, SetPrefixCache(enabled) PROVE PoolInv'
  BY <1>8, SetPrefixCacheKeeps
<1>9. ASSUME UNCHANGED vars PROVE PoolInv'
  BY <1>9, OthersKeep DEF vars
<1>10. PoolInv'
  BY <1>2, <1>3, <1>4, <1>5, <1>6, <1>7, <1>8, <1>9 DEF Next
<1> QED BY <1>1, <1>10 DEF IInv

\* The invariant holds from the start on.
LEMMA IInvAlways == Spec => []IInv
<1>1. Init => IInv
  BY TypeInvInit, PoolInvInit DEF IInv
<1> QED BY <1>1, IInvNext, PTL DEF Spec

\* In every reachable state the free list is exactly the blocks no table
\* holds, and every block is counted once per table that holds it: allocate
\* never hands out a block in use, release never loses one, whatever prefixes
\* were shared, evicted and claimed back (blocks.rs allocate, release).
THEOREM HoldersCounted == Spec => []HoldersCountTables
<1>1. IInv => HoldersCountTables
  BY DEF IInv, PoolInv
<1> QED BY <1>1, IInvAlways, PTL

\* In every reachable state the prefix index and the blocks agree, so a lookup
\* never returns a block that was reused for something else (blocks.rs
\* publish, forget, clear_cache).
THEOREM IndexSound == Spec => []IndexMatchesSlots
<1>1. IInv => IndexMatchesSlots
  BY DEF IInv, PoolInv
<1> QED BY <1>1, IInvAlways, PTL

\* In every reachable state the blocks a sequence may still write into belong
\* to it alone and cannot be found by anybody (blocks.rs newly_full,
\* scheduler.rs claim_prefix, which never takes a prompt's last block).
THEOREM UnnamedOwned == Spec => []UnnamedBlocksAreOwn
<1>1. IInv => UnnamedBlocksAreOwn
  BY DEF IInv, PoolInv
<1> QED BY <1>1, IInvAlways, PTL

\* In every reachable state giving a table back in one step is giving it back
\* block by block: the loop of free_table meets no block twice and none nobody
\* counts, so its debug assertion never fires and the stamps it leaves are in
\* the table's order (blocks.rs free_table, release).
THEOREM FreeingIsTheLoop == Spec => []FreeTableIsTheLoop
<1>1. IInv => FreeTableIsTheLoop
  <2> SUFFICES ASSUME IInv, NEW r \in Owner
               PROVE  ReleaseAll(pool, table[r].blocks) = FreeLoop(pool, table[r].blocks)
    BY DEF FreeTableIsTheLoop
  <2>1. TypeInv /\ HoldersCountTables
    BY DEF IInv, PoolInv
  <2> DEFINE blocks == table[r].blocks
  <2>2. pool \in Pool /\ blocks \in Seq(Block)
    BY <2>1 DEF TypeInv, Table
  <2>3. \A i, j \in DOMAIN blocks : blocks[i] = blocks[j] => i = j
    BY <2>1 DEF HoldersCountTables
  <2>4. ASSUME NEW i \in DOMAIN blocks PROVE pool.holders[blocks[i]] > 0
    <3>1. blocks[i] \in Holding(r)
      BY DEF Holding
    <3> HIDE DEF blocks
    <3> QED BY <2>1, <3>1, HeldIsCounted
  <2> HIDE DEF blocks
  <2>5. FreeLoop(pool, blocks) = ReleaseAll(pool, blocks)
    BY <2>2, <2>3, <2>4, FreeLoopIs
  <2> QED BY <2>5 DEF blocks
<1> QED BY <1>1, IInvAlways, PTL

\* In every reachable state naming and publishing what a pass filled in one
\* step is doing it block by block, each name from the one before it: the turns
\* of the loop do not disturb each other (blocks.rs newly_full, publish).
THEOREM PublishingIsTheLoop == Spec => []PublishFullIsTheLoop
<1>1. IInv => PublishFullIsTheLoop
  <2> SUFFICES ASSUME IInv, NEW r \in Owner
               PROVE  PublishLoop(pool, Advance(table[r], inflight[r]), history[r]) =
                        [pool |-> PublishFull(pool, Advance(table[r], inflight[r]), history[r]),
                         table |-> NameFull(Advance(table[r], inflight[r]), history[r])]
    BY DEF PublishFullIsTheLoop
  <2>1. TypeInv /\ HoldersCountTables
    BY DEF IInv, PoolInv
  <2> DEFINE t == Advance(table[r], inflight[r])
             h == history[r]
  <2>2. /\ pool \in Pool /\ table[r] \in Table /\ WellFormed(table[r])
        /\ inflight[r] \in Nat /\ h \in Seq(Token)
    BY <2>1 DEF TypeInv
  <2>3. t \in Table /\ WellFormed(t) /\ t.blocks = table[r].blocks
    BY <2>2, AdvanceType
  <2> HIDE DEF t, h
  <2>4. /\ Full(t, h) \in Nat /\ Len(t.hashes) \in Nat /\ Full(t, h) <= Len(t.blocks)
        /\ t.blocks \in Seq(Block)
    BY <2>2, <2>3, FullBounds DEF Table
  <2>5. \A i \in (Len(t.hashes) + 1)..Full(t, h) : i \in DOMAIN t.blocks
    BY <2>4
  <2>6. \A i, j \in DOMAIN t.blocks : t.blocks[i] = t.blocks[j] => i = j
    BY <2>1, <2>3 DEF HoldersCountTables
  <2>7. \A i, j \in (Len(t.hashes) + 1)..Full(t, h) : t.blocks[i] = t.blocks[j] => i = j
    BY <2>5, <2>6
  <2>8. PublishLoop(pool, t, h) = [pool |-> PublishFull(pool, t, h), table |-> NameFull(t, h)]
    BY <2>2, <2>3, <2>7, PublishLoopIs
  <2> QED BY <2>8 DEF t, h
<1> QED BY <1>1, IInvAlways, PTL

\* A block is free if and only if no table has it.
LEMMA FreeMeansUnheld ==
  HoldersCountTables =>
    \A b \in Block : b \in pool.free <=> \A r \in Owner : b \notin Holding(r)
<1> SUFFICES ASSUME HoldersCountTables, NEW b \in Block
             PROVE  b \in pool.free <=> \A r \in Owner : b \notin Holding(r)
  OBVIOUS
<1>1. b \in pool.free <=> Cardinality(Holders(b)) = 0
  BY DEF HoldersCountTables
<1>2. Cardinality(Holders(b)) = 0 <=> Holders(b) = {}
  BY HoldersFinite, FS_EmptySet
<1> QED BY <1>1, <1>2 DEF Holders

-----------------------------------------------------------------------------
(* Prefixes of a history. *)

\* A prefix of a sequence has the length asked for.
LEMMA PrefixType ==
  ASSUME NEW s \in Seq(Token), NEW a \in 0..Len(s)
  PROVE  SubSeq(s, 1, a) \in Seq(Token) /\ Len(SubSeq(s, 1, a)) = a
OBVIOUS

\* A prefix of a prefix is a prefix.
LEMMA PrefixOfPrefix ==
  ASSUME NEW s \in Seq(Token), NEW b \in 0..Len(s), NEW a \in 0..b
  PROVE  SubSeq(SubSeq(s, 1, b), 1, a) = SubSeq(s, 1, a)
OBVIOUS

\* A token at the end leaves the prefixes alone.
LEMMA PrefixOfAppend ==
  ASSUME NEW s \in Seq(Token), NEW x \in Token, NEW a \in 0..Len(s)
  PROVE  SubSeq(Append(s, x), 1, a) = SubSeq(s, 1, a)
OBVIOUS

\* A prefix and what follows it are a longer prefix.
LEMMA PrefixJoined ==
  ASSUME NEW s \in Seq(Token), NEW b \in 0..Len(s), NEW a \in 0..b
  PROVE  SubSeq(s, 1, a) \o SubSeq(s, a + 1, b) = SubSeq(s, 1, b)
OBVIOUS

\* The first tokens of a part of a history are a part of it.
LEMMA PrefixOfPart ==
  ASSUME NEW s \in Seq(Token), NEW b \in 0..Len(s), NEW a \in 0..b, NEW c \in a..b
  PROVE  SubSeq(SubSeq(s, a + 1, b), 1, c - a) = SubSeq(s, a + 1, c)
OBVIOUS

\* The length of a part of a history.
LEMMA PartLength ==
  ASSUME NEW s \in Seq(Token), NEW b \in 0..Len(s), NEW a \in 0..b
  PROVE  Len(SubSeq(s, a + 1, b)) = b - a
OBVIOUS

-----------------------------------------------------------------------------
(* Slots. *)

\* slot_of gives different positions different block indexes or offsets.
LEMMA SlotDetermines ==
  ASSUME NEW a \in Nat, NEW c \in Nat,
         a \div BlockSize = c \div BlockSize, a % BlockSize = c % BlockSize
  PROVE  a = c
BY BlocksAssumption

\* The position of an offset of a table's block.
LEMMA PositionOf ==
  ASSUME NEW i \in Nat \ {0}, NEW o \in Offset
  PROVE  /\ (i - 1) * BlockSize + o \in Nat
         /\ (i - 1) * BlockSize + o < i * BlockSize
         /\ ((i - 1) * BlockSize + o) \div BlockSize + 1 = i
         /\ ((i - 1) * BlockSize + o) % BlockSize = o
BY BlocksAssumption DEF Offset

\* A position past k blocks lies in a later one.
LEMMA DivAbove ==
  ASSUME NEW a \in Nat, NEW k \in Nat, k * BlockSize <= a
  PROVE  k <= a \div BlockSize
BY BlocksAssumption

\* A position below a table's capacity has a slot, in one of its blocks.
LEMMA SlotInTable ==
  ASSUME NEW t \in Table, NEW q \in Nat, q < Capacity(t)
  PROVE  /\ q \div BlockSize + 1 \in DOMAIN t.blocks
         /\ SlotBlock(t, q) = t.blocks[q \div BlockSize + 1]
         /\ SlotBlock(t, q) \in Block
         /\ q % BlockSize \in Offset
         /\ HasSlot(t, q)
<1>1. Len(t.blocks) \in Nat /\ t.blocks \in Seq(Block)
  BY DEF Table
<1>2. q \div BlockSize \in 0..(Len(t.blocks) - 1)
  BY <1>1, DivBelow DEF Capacity
<1> QED BY <1>1, <1>2, ModInOffset DEF SlotBlock, HasSlot

-----------------------------------------------------------------------------
(* The inductive invariant. *)

\* What a sequence's slots hold already: what is committed and what a pass
\* wrote that is not committed yet.
Computed(r) == table[r].tokens + inflight[r]

\* Finished passes have written the sequence's own history, all of it in slots.
ReadsOwn(r) ==
    /\ Computed(r) <= Len(history[r])
    /\ Computed(r) <= Capacity(table[r])
    /\ \A q \in 0..(Computed(r) - 1) :
         Content(kv, table[r], q) = SubSeq(history[r], 1, q + 1)
OwnContent == \A r \in Owner : ReadsOwn(r)

\* A table names its blocks for the prefixes of its history they end.
NamesOwn(r) ==
    \A i \in 1..Len(table[r].hashes) :
        table[r].hashes[i] = SubSeq(history[r], 1, i * BlockSize)
NamesAreHistory == \A r \in Owner : NamesOwn(r)

\* What the slots of a block with a name hold.
Truthful(c, b, n) ==
    /\ Len(n) % BlockSize = 0
    /\ \A o \in Offset : c[b][o] = SubSeq(n, 1, Len(n) - BlockSize + o + 1)

\* What the slots of a history's i-th block hold.
HoldsPart(c, b, h, i) ==
    \A o \in Offset : c[b][o] = SubSeq(h, 1, (i - 1) * BlockSize + o + 1)

\* The three hold each other up: a claim reads what a name promises, a name is
\* given for what a table holds, and the next name is built from the last.
ContentInv ==
    /\ OwnContent
    /\ NamesAreHistory
    /\ NamedBlocksHoldTheirName

\* What TypeInv says of one owner, and of the numbers of its table.
LEMMA OwnerTyped ==
  ASSUME TypeInv, NEW r \in Owner
  PROVE  /\ table[r] \in Table /\ WellFormed(table[r])
         /\ table[r].blocks \in Seq(Block) /\ DOMAIN table[r].blocks = 1..Len(table[r].blocks)
         /\ Len(table[r].blocks) \in Nat
         /\ table[r].hashes \in Seq(Name) /\ Len(table[r].hashes) \in Nat
         /\ table[r].tokens \in Nat /\ inflight[r] \in Nat /\ Computed(r) \in Nat
         /\ history[r] \in Seq(Token) /\ Len(history[r]) \in Nat
         /\ Capacity(table[r]) \in Nat
         /\ Len(table[r].hashes) * BlockSize \in Nat
         /\ Len(table[r].hashes) * BlockSize <= table[r].tokens
         /\ table[r].tokens <= Capacity(table[r])
<1>1. table[r] \in Table /\ WellFormed(table[r]) /\ history[r] \in Seq(Token)
      /\ inflight[r] \in Nat
  BY DEF TypeInv
<1>2. /\ table[r].blocks \in Seq(Block) /\ table[r].hashes \in Seq(Name)
      /\ table[r].tokens \in Nat
  BY <1>1 DEF Table
<1>3. Len(table[r].blocks) \in Nat /\ Len(table[r].hashes) \in Nat
      /\ DOMAIN table[r].blocks = 1..Len(table[r].blocks)
  BY <1>2
<1>4. Capacity(table[r]) \in Nat /\ Len(table[r].hashes) * BlockSize \in Nat
  BY <1>3, BlocksAssumption DEF Capacity
<1> QED BY <1>1, <1>2, <1>3, <1>4 DEF WellFormed, Computed

-----------------------------------------------------------------------------
(* What a pass may touch. *)

\* A row of a pass writes only positions past the committed ones of its owner,
\* in blocks the owner has not named.
LEMMA RowWritesUnnamed ==
  ASSUME TypeInv, NEW n \in Passes, \A r \in DOMAIN n : n[r] \in Runnable(r),
         NEW row \in Rows(n), NEW b, NEW o, Writes(row, b, o)
  PROVE  \E s \in DOMAIN n :
            /\ s \in Owner
            /\ row = Row(s, n[s])
            /\ n[s] \in Nat
            /\ \E i \in DOMAIN table[s].blocks :
                 i > Len(table[s].hashes) /\ table[s].blocks[i] = b
            /\ WrittenAt(row, b, o) \in table[s].tokens..(table[s].tokens + n[s] - 1)
            /\ SlotBlock(table[s], WrittenAt(row, b, o)) = b
            /\ WrittenAt(row, b, o) % BlockSize = o
            /\ WrittenAt(row, b, o) \in Nat
            /\ WrittenAt(row, b, o) < Capacity(table[s])
<1>1. PICK s \in DOMAIN n : row = Row(s, n[s])
  BY DEF Rows
<1> DEFINE t == table[s]
           h == history[s]
           p == WrittenAt(row, b, o)
<1>2. s \in Owner /\ n[s] \in Nat /\ n[s] \in Runnable(s)
  BY RowsType
<1>3. /\ t \in Table /\ t.tokens \in Nat /\ Capacity(t) \in Nat /\ h \in Seq(Token)
      /\ Len(h) \in Nat /\ Len(t.hashes) \in Nat /\ Len(t.hashes) * BlockSize <= t.tokens
      /\ Len(t.hashes) * BlockSize \in Nat
  BY <1>2, OwnerTyped
<1>4. n[s] <= AtMost(Capacity(t), Len(h)) - t.tokens
  BY <1>2 DEF Runnable
<1>5. row = [table |-> t, pos |-> t.tokens,
             tokens |-> SubSeq(h, t.tokens + 1, t.tokens + n[s])]
  BY <1>1 DEF Row
<1>6. p \in row.pos..(row.pos + Len(row.tokens) - 1)
      /\ SlotBlock(row.table, p) = b /\ p % BlockSize = o
  BY DEF Writes, WrittenAt
<1> HIDE DEF t, h, p
<1>7. t.tokens + n[s] <= Len(h) /\ t.tokens + n[s] <= Capacity(t)
  BY <1>2, <1>3, <1>4 DEF AtMost
<1>8. Len(SubSeq(h, t.tokens + 1, t.tokens + n[s])) = n[s]
  BY <1>2, <1>3, <1>7, SMTT(60)
<1>9. row.pos = t.tokens /\ Len(row.tokens) = n[s] /\ row.table = t
  BY <1>5, <1>8
<1>10. p \in t.tokens..(t.tokens + n[s] - 1) /\ SlotBlock(t, p) = b /\ p % BlockSize = o
  BY <1>6, <1>9
<1>11. p \in Nat /\ p < Capacity(t) /\ Len(t.hashes) * BlockSize <= p
  BY <1>2, <1>3, <1>7, <1>10
<1>12. p \div BlockSize + 1 \in DOMAIN t.blocks /\ t.blocks[p \div BlockSize + 1] = b
  BY <1>3, <1>10, <1>11, SlotInTable
<1>13. p \div BlockSize + 1 > Len(t.hashes)
  <2>1. Len(t.hashes) <= p \div BlockSize
    BY <1>3, <1>11, DivAbove
  <2>2. p \div BlockSize \in Nat
    BY <1>11, DivMul
  <2> QED BY <1>3, <2>1, <2>2
<1> QED BY <1>1, <1>2, <1>10, <1>11, <1>12, <1>13 DEF t, p

\* No row of a pass writes a named block.
LEMMA NamedUntouched ==
  ASSUME TypeInv, PoolInv, NEW n \in Passes, \A r \in DOMAIN n : n[r] \in Runnable(r),
         NEW row \in Rows(n), NEW b \in Block, NEW o, pool.hash[b] # NoName
  PROVE  ~ Writes(row, b, o)
<1> SUFFICES ASSUME Writes(row, b, o) PROVE FALSE
  OBVIOUS
<1>1. PICK s \in Owner : \E i \in DOMAIN table[s].blocks :
         i > Len(table[s].hashes) /\ table[s].blocks[i] = b
  BY RowWritesUnnamed
<1> QED BY <1>1 DEF PoolInv, UnnamedBlocksAreOwn

\* A row that writes the slot of one of an owner's positions is that owner's,
\* and the position is one it runs.
LEMMA WriterIsOwner ==
  ASSUME TypeInv, PoolInv, NEW n \in Passes, \A r \in DOMAIN n : n[r] \in Runnable(r),
         NEW r \in Owner, NEW q \in Nat, q < Capacity(table[r]),
         NEW row \in Rows(n), Writes(row, SlotBlock(table[r], q), q % BlockSize)
  PROVE  /\ r \in DOMAIN n /\ n[r] \in Nat
         /\ row = Row(r, n[r])
         /\ WrittenAt(row, SlotBlock(table[r], q), q % BlockSize) = q
         /\ q \in table[r].tokens..(table[r].tokens + n[r] - 1)
<1> DEFINE b == SlotBlock(table[r], q)
           o == q % BlockSize
           p == WrittenAt(row, b, o)
           j == q \div BlockSize + 1
           i == p \div BlockSize + 1
<1>1. PICK s \in DOMAIN n :
            /\ s \in Owner
            /\ row = Row(s, n[s])
            /\ n[s] \in Nat
            /\ \E m \in DOMAIN table[s].blocks :
                 m > Len(table[s].hashes) /\ table[s].blocks[m] = b
            /\ p \in table[s].tokens..(table[s].tokens + n[s] - 1)
            /\ SlotBlock(table[s], p) = b
            /\ p % BlockSize = o
            /\ p \in Nat
            /\ p < Capacity(table[s])
  BY RowWritesUnnamed
<1>2. table[r] \in Table /\ table[s] \in Table
  BY <1>1, OwnerTyped
<1>3. j \in DOMAIN table[r].blocks /\ table[r].blocks[j] = b
  BY <1>2, SlotInTable
<1> HIDE DEF p
<1>4. i \in DOMAIN table[s].blocks /\ table[s].blocks[i] = b
  BY <1>1, <1>2, SlotInTable
<1> HIDE DEF b, o
<1>5. s = r
  <2>1. b \in Holding(r)
    BY <1>3 DEF Holding
  <2> QED BY <1>1, <2>1 DEF PoolInv, UnnamedBlocksAreOwn
<1>6. i = j
  <2> HIDE DEF i, j
  <2> QED BY <1>3, <1>4, <1>5 DEF PoolInv, HoldersCountTables
<1>7. p \div BlockSize = q \div BlockSize
  <2>1. p \div BlockSize \in Nat /\ q \div BlockSize \in Nat
    BY <1>1, DivMul
  <2> QED BY <1>6, <2>1
<1>8. p = q
  BY <1>1, <1>7, SlotDetermines DEF o
<1> QED BY <1>1, <1>5, <1>8 DEF b, o, p

\* A pass leaves every slot alone that no row writes.
LEMMA PassUntouched ==
  ASSUME NEW rows, NEW b \in Block, NEW o \in Offset, NEW c,
         \A row \in rows : ~ Writes(row, b, o)
  PROVE  /\ RunPass(c, rows)[b][o] = c[b][o]
         /\ SpoilPass(c, rows)[b][o] = c[b][o]
BY DEF RunPass, SpoilPass

-----------------------------------------------------------------------------
(* What a pass writes. *)

\* A row reads its owner's whole history up to its first position, so what it
\* writes at a position is the history up to that position.
LEMMA OwnRowWritten ==
  ASSUME TypeInv, OwnContent, NEW r \in Owner, inflight[r] = 0,
         NEW k \in Runnable(r), NEW q \in table[r].tokens..(table[r].tokens + k - 1),
         NEW b, NEW o, WrittenAt(Row(r, k), b, o) = q
  PROVE  Written(kv, Row(r, k), b, o) = SubSeq(history[r], 1, q + 1)
<1> DEFINE t == table[r]
           h == history[r]
           row == Row(r, k)
           c == Context(kv, row)
<1>1. /\ t \in Table /\ t.tokens \in Nat /\ Capacity(t) \in Nat /\ h \in Seq(Token)
      /\ Len(h) \in Nat /\ t.tokens <= Capacity(t)
  BY OwnerTyped
<1>2. k \in 1..(AtMost(Capacity(t), Len(h)) - t.tokens)
  BY DEF Runnable
<1>3. row = [table |-> t, pos |-> t.tokens,
             tokens |-> SubSeq(h, t.tokens + 1, t.tokens + k)]
  BY DEF Row
<1>4. \A p \in 0..(t.tokens - 1) : Content(kv, t, p) = SubSeq(h, 1, p + 1)
  <2>1. Computed(r) = t.tokens
    BY <1>1 DEF Computed
  <2> QED BY <2>1 DEF OwnContent, ReadsOwn
<1>5. q \in t.tokens..(t.tokens + k - 1)
  OBVIOUS
<1>6. WrittenAt(row, b, o) = q
  OBVIOUS
<1> HIDE DEF t, h, row
<1>7. k \in Nat /\ t.tokens + k <= Len(h) /\ t.tokens + k <= Capacity(t)
  BY <1>1, <1>2 DEF AtMost
<1>8. q \in Nat /\ q + 1 \in t.tokens..(t.tokens + k) /\ q + 1 \in 0..Len(h)
  BY <1>1, <1>5, <1>7
<1>9. c = SubSeq(h, 1, t.tokens)
  <2>1. CASE t.tokens = 0
    BY <1>3, <2>1 DEF Context
  <2>2. CASE t.tokens # 0
    <3>1. c = Content(kv, t, t.tokens - 1)
      BY <1>3, <2>2 DEF Context
    <3>2. Content(kv, t, t.tokens - 1) = SubSeq(h, 1, (t.tokens - 1) + 1)
      BY <1>1, <1>4, <2>2
    <3> QED BY <1>1, <3>1, <3>2
  <2> QED BY <2>1, <2>2
<1>10. c \in Seq(Token) /\ Len(c) = t.tokens
  BY <1>1, <1>7, <1>9, PrefixType
<1>11. ReadsPrefix(kv, row)
  <2>1. ASSUME NEW p \in 0..(Len(c) - 1)
        PROVE  HasSlot(t, p) /\ Content(kv, t, p) = SubSeq(c, 1, p + 1)
    <3>1. p \in Nat /\ p < t.tokens /\ p < Capacity(t)
      BY <1>1, <1>10
    <3>2. HasSlot(t, p)
      BY <1>1, <3>1, SlotInTable
    <3>3. Content(kv, t, p) = SubSeq(h, 1, p + 1)
      BY <1>1, <1>4, <3>1
    <3>4. SubSeq(c, 1, p + 1) = SubSeq(h, 1, p + 1)
      BY <1>1, <1>7, <1>9, <3>1, PrefixOfPrefix, SMTT(60)
    <3> QED BY <3>2, <3>3, <3>4
  <2> HIDE DEF c
  <2>2. Holds(kv, t, c)
    BY <2>1 DEF Holds
  <2>3. row.table = t /\ row.pos = t.tokens
    BY <1>3
  <2> QED BY <1>10, <2>2, <2>3 DEF ReadsPrefix, c
<1> HIDE DEF c
<1>12. SubSeq(row.tokens, 1, q - row.pos + 1) = SubSeq(h, t.tokens + 1, q + 1)
  <2>1. q - row.pos + 1 = (q + 1) - t.tokens
    BY <1>1, <1>3, <1>8
  <2>2. SubSeq(SubSeq(h, t.tokens + 1, t.tokens + k), 1, (q + 1) - t.tokens)
          = SubSeq(h, t.tokens + 1, q + 1)
    <3>1. t.tokens + k \in 0..Len(h) /\ t.tokens \in 0..(t.tokens + k)
      BY <1>1, <1>7
    <3> QED BY <1>1, <1>8, <3>1, PrefixOfPart, ZenonT(60)
  <2> QED BY <1>3, <2>1, <2>2
<1>13. Written(kv, row, b, o) = c \o SubSeq(row.tokens, 1, q - row.pos + 1)
  BY <1>6, <1>11 DEF Written, c
<1>14. SubSeq(h, 1, t.tokens) \o SubSeq(h, t.tokens + 1, q + 1) = SubSeq(h, 1, q + 1)
  <2>1. t.tokens \in 0..(q + 1)
    BY <1>1, <1>8
  <2> QED BY <1>1, <1>8, <2>1, PrefixJoined
<1> QED BY <1>9, <1>12, <1>13, <1>14 DEF row, h

\* A row writes every position it runs.
LEMMA OwnRowWrites ==
  ASSUME TypeInv, NEW r \in Owner, NEW k \in Runnable(r),
         NEW q \in table[r].tokens..(table[r].tokens + k - 1)
  PROVE  Writes(Row(r, k), SlotBlock(table[r], q), q % BlockSize)
<1> DEFINE t == table[r]
           h == history[r]
           row == Row(r, k)
<1>1. t.tokens \in Nat /\ Capacity(t) \in Nat /\ h \in Seq(Token) /\ Len(h) \in Nat
      /\ t.tokens <= Capacity(t)
  BY OwnerTyped
<1>2. k \in 1..(AtMost(Capacity(t), Len(h)) - t.tokens)
  BY DEF Runnable
<1>3. row = [table |-> t, pos |-> t.tokens,
             tokens |-> SubSeq(h, t.tokens + 1, t.tokens + k)]
  BY DEF Row
<1>4. q \in t.tokens..(t.tokens + k - 1)
  OBVIOUS
<1> HIDE DEF t, h, row
<1>5. k \in Nat /\ t.tokens + k <= Len(h)
  BY <1>1, <1>2 DEF AtMost
<1>6. Len(SubSeq(h, t.tokens + 1, t.tokens + k)) = k
  <2>1. t.tokens + k \in 0..Len(h) /\ t.tokens \in 0..(t.tokens + k)
    BY <1>1, <1>5
  <2>2. Len(SubSeq(h, t.tokens + 1, t.tokens + k)) = (t.tokens + k) - t.tokens
    BY <1>1, <2>1, PartLength
  <2> QED BY <1>1, <1>5, <2>2
<1>7. row.pos = t.tokens /\ row.table = t /\ Len(row.tokens) = k
  <2>1. row.pos = t.tokens /\ row.table = t
        /\ row.tokens = SubSeq(h, t.tokens + 1, t.tokens + k)
    BY <1>3
  <2> QED BY <1>6, <2>1
<1>8. q \in row.pos..(row.pos + Len(row.tokens) - 1)
  BY <1>4, <1>7
<1>9. Writes(row, SlotBlock(t, q), q % BlockSize)
  BY <1>7, <1>8 DEF Writes
<1> QED BY <1>9 DEF row, t

\* After a pass an owner's slots hold its history as far as it has run.
LEMMA RunContent ==
  ASSUME TypeInv, PoolInv, OwnContent, NEW n \in Passes, Run(n), NEW r \in Owner,
         NEW q \in 0..(table[r].tokens + inflight'[r] - 1)
  PROVE  /\ q \in Nat /\ q < Capacity(table[r])
         /\ RunPass(kv, Rows(n))[SlotBlock(table[r], q)][q % BlockSize]
              = SubSeq(history[r], 1, q + 1)
<1> DEFINE b == SlotBlock(table[r], q)
           o == q % BlockSize
<1>1. /\ \A s \in Owner : inflight[s] = 0
      /\ \A s \in DOMAIN n : n[s] \in Runnable(s)
      /\ inflight'[r] = IF r \in DOMAIN n THEN n[r] ELSE 0
  BY DEF Run
<1>2. /\ table[r] \in Table /\ table[r].tokens \in Nat /\ Capacity(table[r]) \in Nat
      /\ Len(history[r]) \in Nat /\ table[r].tokens <= Capacity(table[r])
  BY OwnerTyped
<1>3. q \in Nat /\ q < Capacity(table[r])
  <2>1. CASE r \in DOMAIN n
    <3>1. n[r] \in 1..(AtMost(Capacity(table[r]), Len(history[r])) - table[r].tokens)
      BY <1>1, <2>1 DEF Runnable
    <3> QED BY <1>1, <1>2, <2>1, <3>1 DEF AtMost
  <2>2. CASE r \notin DOMAIN n
    BY <1>1, <1>2, <2>2
  <2> QED BY <2>1, <2>2
<1>4. b \in Block /\ o \in Offset
  BY <1>2, <1>3, SlotInTable
<1>5. CASE q < table[r].tokens
  <2>1. ASSUME NEW row \in Rows(n), Writes(row, b, o) PROVE FALSE
    <3>1. q \in table[r].tokens..(table[r].tokens + n[r] - 1) /\ n[r] \in Nat
      BY <1>1, <1>3, <2>1, WriterIsOwner
    <3> QED BY <1>2, <1>3, <1>5, <3>1
  <2>2. RunPass(kv, Rows(n))[b][o] = kv[b][o]
    BY <1>4, <2>1, PassUntouched
  <2>3. Computed(r) = table[r].tokens
    BY <1>1, <1>2 DEF Computed
  <2>4. Content(kv, table[r], q) = SubSeq(history[r], 1, q + 1)
    BY <1>2, <1>3, <1>5, <2>3 DEF OwnContent, ReadsOwn
  <2> QED BY <1>3, <2>2, <2>4 DEF Content
<1>6. CASE q >= table[r].tokens
  <2>1. r \in DOMAIN n /\ n[r] \in Nat
    <3>1. r \in DOMAIN n
      BY <1>1, <1>2, <1>3, <1>6
    <3> QED BY <1>1, <3>1, RowsType
  <2>2. q \in table[r].tokens..(table[r].tokens + n[r] - 1)
    BY <1>1, <1>2, <1>3, <1>6, <2>1
  <2>3. Row(r, n[r]) \in Rows(n) /\ Writes(Row(r, n[r]), b, o)
    BY <1>1, <2>1, <2>2, OwnRowWrites DEF Rows
  <2> DEFINE row == CHOOSE w \in Rows(n) : Writes(w, b, o)
  <2>4. row \in Rows(n) /\ Writes(row, b, o)
    BY <2>3
  <2> HIDE DEF row
  <2>5. row = Row(r, n[r]) /\ WrittenAt(row, b, o) = q
    BY <1>1, <1>3, <2>4, WriterIsOwner
  <2>6. Written(kv, row, b, o) = SubSeq(history[r], 1, q + 1)
    BY <1>1, <2>1, <2>2, <2>5, OwnRowWritten
  <2>7. RunPass(kv, Rows(n))[b][o] = Written(kv, row, b, o)
    BY <1>4, <2>3 DEF RunPass, row
  <2> QED BY <1>3, <2>6, <2>7
<1> QED BY <1>2, <1>3, <1>5, <1>6

-----------------------------------------------------------------------------
(* The invariant is inductive. *)

\* NamedBlocksHoldTheirName, one block at a time.
LEMMA NamedMeans ==
  NamedBlocksHoldTheirName <=>
    \A b \in Block : pool.hash[b] # NoName => Truthful(kv, b, pool.hash[b])
BY SMTT(60) DEF NamedBlocksHoldTheirName, Truthful

\* An owner that a step leaves alone keeps what is said of it.
LEMMA OwnerKeeps ==
  ASSUME NEW s \in Owner, ReadsOwn(s), NamesOwn(s),
         table'[s] = table[s], history'[s] = history[s],
         inflight'[s] = inflight[s], kv' = kv
  PROVE  ReadsOwn(s)' /\ NamesOwn(s)'
BY DEF ReadsOwn, NamesOwn, Computed, Content, SlotBlock

\* Initially nothing is computed and nothing is named.
LEMMA ContentInvInit == Init => ContentInv
<1> SUFFICES ASSUME Init PROVE ContentInv
  OBVIOUS
<1>0. TypeInv
  BY TypeInvInit
<1>1. ASSUME NEW r \in Owner PROVE ReadsOwn(r) /\ NamesOwn(r)
  <2>1. /\ table[r] = NewTable /\ inflight[r] = 0 /\ Len(history[r]) \in Nat
        /\ Capacity(table[r]) \in Nat
    BY <1>0, OwnerTyped DEF Init
  <2>2. Computed(r) = 0 /\ Len(table[r].hashes) = 0
    BY <2>1 DEF Computed, NewTable
  <2> QED BY <2>1, <2>2 DEF ReadsOwn, NamesOwn
<1>2. \A b \in Block : pool.hash[b] = NoName
  BY DEF Init, NewPool
<1> QED BY <1>1, <1>2, NamedMeans DEF ContentInv, OwnContent, NamesAreHistory

\* A pass writes every sequence's own history and no named block.
LEMMA RunKeepsContent ==
  ASSUME IInv, ContentInv, NEW n \in Passes, Run(n)
  PROVE  ContentInv'
<1>0. TypeInv /\ PoolInv /\ OwnContent /\ NamesAreHistory /\ NamedBlocksHoldTheirName
  BY DEF IInv, ContentInv
<1>1. /\ \A s \in DOMAIN n : n[s] \in Runnable(s)
      /\ \A s \in Owner : inflight[s] = 0
      /\ \A s \in Owner : inflight'[s] = IF s \in DOMAIN n THEN n[s] ELSE 0
      /\ kv' = RunPass(kv, Rows(n))
      /\ pool' = pool /\ table' = table /\ history' = history
  BY DEF Run
<1>2. ASSUME NEW r \in Owner PROVE ReadsOwn(r)' /\ NamesOwn(r)'
  <2>1. /\ table[r].tokens \in Nat /\ Capacity(table[r]) \in Nat
        /\ Len(history[r]) \in Nat /\ table[r].tokens <= Capacity(table[r])
    BY <1>0, OwnerTyped
  <2>2. table[r].tokens <= Len(history[r])
    BY <1>0, <1>1, <2>1 DEF OwnContent, ReadsOwn, Computed
  <2>3. Computed(r)' = table[r].tokens + inflight'[r]
    BY <1>1 DEF Computed
  <2>4. Computed(r)' <= Len(history[r]) /\ Computed(r)' <= Capacity(table[r])
    <3>1. CASE r \in DOMAIN n
      <4>1. n[r] \in 1..(AtMost(Capacity(table[r]), Len(history[r])) - table[r].tokens)
        BY <1>1, <3>1 DEF Runnable
      <4> QED BY <1>1, <2>1, <2>3, <3>1, <4>1 DEF AtMost
    <3>2. CASE r \notin DOMAIN n
      BY <1>1, <2>1, <2>2, <2>3, <3>2
    <3> QED BY <3>1, <3>2
  <2>5. ASSUME NEW q \in 0..(Computed(r)' - 1)
        PROVE  Content(kv', table[r], q) = SubSeq(history[r], 1, q + 1)
    <3>1. q \in 0..(table[r].tokens + inflight'[r] - 1)
      <4>1. inflight'[r] \in Nat
        BY <1>0, <1>1, RowsType
      <4> QED BY <2>1, <2>3, <4>1, SMTT(60)
    <3> QED BY <1>0, <1>1, <3>1, RunContent DEF Content
  <2>6. ReadsOwn(r)'
    BY <1>1, <2>4, <2>5 DEF ReadsOwn, Content, SlotBlock
  <2>7. NamesOwn(r)'
    BY <1>0, <1>1 DEF NamesAreHistory, NamesOwn
  <2> QED BY <2>6, <2>7
<1>3. ASSUME NEW b \in Block, pool'.hash[b] # NoName
      PROVE  Truthful(kv', b, pool'.hash[b])
  <2>1. ASSUME NEW o \in Offset PROVE kv'[b][o] = kv[b][o]
    BY <1>0, <1>1, <1>3, NamedUntouched, PassUntouched
  <2> QED BY <1>0, <1>1, <1>3, <2>1, NamedMeans DEF Truthful
<1>4. NamedBlocksHoldTheirName'
  BY <1>3 DEF NamedBlocksHoldTheirName, Truthful
<1> QED BY <1>2, <1>4 DEF ContentInv, OwnContent, NamesAreHistory

\* A pass that fails spoils only slots nobody counts as computed.
LEMMA SpoilKeepsContent ==
  ASSUME IInv, ContentInv, NEW n \in Passes, Spoil(n)
  PROVE  ContentInv'
<1>0. TypeInv /\ PoolInv /\ OwnContent /\ NamesAreHistory /\ NamedBlocksHoldTheirName
  BY DEF IInv, ContentInv
<1>1. /\ \A s \in DOMAIN n : n[s] \in Runnable(s)
      /\ \A s \in Owner : inflight[s] = 0
      /\ kv' = SpoilPass(kv, Rows(n)) \/ kv' = RunPass(kv, Rows(n))
      /\ pool' = pool /\ table' = table /\ history' = history /\ inflight' = inflight
  BY DEF Spoil
<1>2. ASSUME NEW r \in Owner PROVE ReadsOwn(r)' /\ NamesOwn(r)'
  <2>1. /\ table[r] \in Table /\ table[r].tokens \in Nat /\ Capacity(table[r]) \in Nat
        /\ table[r].tokens <= Capacity(table[r])
    BY <1>0, OwnerTyped
  <2>2. Computed(r) = table[r].tokens /\ Computed(r)' = Computed(r)
    BY <1>1, <2>1 DEF Computed
  <2>3. ASSUME NEW q \in 0..(Computed(r) - 1)
        PROVE  Content(kv', table[r], q) = Content(kv, table[r], q)
    <3> DEFINE b == SlotBlock(table[r], q)
               o == q % BlockSize
    <3>1. q \in Nat /\ q < table[r].tokens /\ q < Capacity(table[r])
      BY <2>1, <2>2
    <3>2. b \in Block /\ o \in Offset
      BY <2>1, <3>1, SlotInTable
    <3>3. ASSUME NEW row \in Rows(n), Writes(row, b, o) PROVE FALSE
      <4>1. q \in table[r].tokens..(table[r].tokens + n[r] - 1) /\ n[r] \in Nat
        BY <1>0, <1>1, <3>1, <3>3, WriterIsOwner
      <4> QED BY <2>1, <3>1, <4>1
    <3>4. kv'[b][o] = kv[b][o]
      BY <1>1, <3>2, <3>3, PassUntouched, SMTT(60)
    <3> QED BY <3>4 DEF Content
  <2>4. ReadsOwn(r)'
    <3>1. ReadsOwn(r)
      BY <1>0 DEF OwnContent
    <3> QED BY <1>1, <2>2, <2>3, <3>1 DEF ReadsOwn, Content, SlotBlock
  <2>5. NamesOwn(r)'
    BY <1>0, <1>1 DEF NamesAreHistory, NamesOwn
  <2> QED BY <2>4, <2>5
<1>3. ASSUME NEW b \in Block, pool'.hash[b] # NoName
      PROVE  Truthful(kv', b, pool'.hash[b])
  <2>1. ASSUME NEW o \in Offset PROVE kv'[b][o] = kv[b][o]
    BY <1>0, <1>1, <1>3, NamedUntouched, PassUntouched
  <2> QED BY <1>0, <1>1, <1>3, <2>1, NamedMeans DEF Truthful
<1>4. NamedBlocksHoldTheirName'
  BY <1>3 DEF NamedBlocksHoldTheirName, Truthful
<1> QED BY <1>2, <1>4 DEF ContentInv, OwnContent, NamesAreHistory

\* What a name promises, read at a position of the table it stands in.
LEMMA TruthfulAt ==
  ASSUME NEW h \in Seq(Token), NEW i \in Nat \ {0}, i * BlockSize <= Len(h),
         NEW n, n = SubSeq(h, 1, i * BlockSize), NEW c, NEW b
  PROVE  Truthful(c, b, n) <=> HoldsPart(c, b, h, i)
<1> DEFINE k == i * BlockSize
<1>1. k \in Nat /\ k % BlockSize = 0 /\ k - BlockSize = (i - 1) * BlockSize
  BY BlocksAssumption
<1>2. \A o \in Offset : /\ o \in Nat
                        /\ k - BlockSize + o + 1 = (i - 1) * BlockSize + o + 1
                        /\ k - BlockSize + o + 1 \in 0..k
  <2> SUFFICES ASSUME NEW o \in Offset
               PROVE  /\ o \in Nat
                      /\ k - BlockSize + o + 1 = (i - 1) * BlockSize + o + 1
                      /\ k - BlockSize + o + 1 \in 0..k
    OBVIOUS
  <2>1. o \in Nat /\ o < BlockSize /\ BlockSize \in Nat
    BY BlocksAssumption DEF Offset
  <2>2. (i - 1) * BlockSize \in Nat
    BY BlocksAssumption
  <2> HIDE DEF k
  <2> QED BY <1>1, <2>1, <2>2
<1>3. k \in 0..Len(h)
  BY <1>1
<1> HIDE DEF k
<1>4. Len(SubSeq(h, 1, k)) = k
  BY <1>3, PrefixType
<1>5. \A o \in Offset : SubSeq(SubSeq(h, 1, k), 1, k - BlockSize + o + 1)
                          = SubSeq(h, 1, (i - 1) * BlockSize + o + 1)
  <2> SUFFICES ASSUME NEW o \in Offset
               PROVE  SubSeq(SubSeq(h, 1, k), 1, k - BlockSize + o + 1)
                          = SubSeq(h, 1, (i - 1) * BlockSize + o + 1)
    OBVIOUS
  <2> DEFINE a == k - BlockSize + o + 1
  <2>1. a \in 0..k /\ a = (i - 1) * BlockSize + o + 1
    BY <1>2
  <2> HIDE DEF a
  <2>2. SubSeq(SubSeq(h, 1, k), 1, a) = SubSeq(h, 1, a)
    BY <1>3, <2>1, PrefixOfPrefix
  <2> QED BY <2>1, <2>2 DEF a
<1>6. Truthful(c, b, SubSeq(h, 1, k)) <=> HoldsPart(c, b, h, i)
  BY <1>1, <1>4, <1>5 DEF Truthful, HoldsPart
<1> QED BY <1>6 DEF k

\* A claimed block holds what its name says, which is the claimer's history.
LEMMA ClaimKeepsContent ==
  ASSUME IInv, ContentInv, NEW r \in Owner, Claim(r)
  PROVE  ContentInv'
<1>0. /\ TypeInv /\ PoolInv /\ OwnContent /\ NamesAreHistory
      /\ NamedBlocksHoldTheirName /\ IndexMatchesSlots
  BY DEF IInv, ContentInv, PoolInv
<1>1. PICK k \in 0..Candidates(history[r]) :
        /\ Claims(pool, history[r], k)
        /\ pool' = ClaimPool(pool, history[r], k)
        /\ table' = [table EXCEPT ![r] = ClaimTable(pool, @, history[r], k)]
  BY DEF Claim
<1> DEFINE h == history[r]
           t == table[r]
           u == ClaimTable(pool, t, h, k)
<1>2. /\ pool \in Pool /\ table \in [Owner -> Table] /\ t \in Table /\ WellFormed(t)
      /\ t.blocks = <<>> /\ h \in Seq(Token) /\ Len(h) \in Nat /\ inflight[r] \in Nat
      /\ t.tokens \in Nat
  BY <1>0, OwnerTyped DEF Claim, TypeInv
<1>3. inflight[r] = 0
  <2>1. Capacity(t) = 0
    BY <1>2, BlocksAssumption DEF Capacity
  <2>2. t.tokens + inflight[r] <= 0
    BY <1>0, <2>1 DEF OwnContent, ReadsOwn, Computed
  <2> HIDE DEF t
  <2> QED BY <1>2, <2>2
<1>4. /\ k \in Nat
      /\ \A i \in 1..k : /\ i \in 1..Candidates(h)
                         /\ PrefixName(h, i) \in DOMAIN pool.cached
                         /\ pool.cached[PrefixName(h, i)] \in Block
      /\ u \in Table
      /\ WellFormed(u)
      /\ u.blocks = [i \in 1..k |-> pool.cached[PrefixName(h, i)]]
      /\ Len(u.hashes) = k
      /\ u.tokens = k * BlockSize
  <2>1. Claims(pool, h, k)
    BY <1>1
  <2> HIDE DEF h, t, u
  <2>2. PICK p, s, g : p = pool /\ s = t /\ g = h
    OBVIOUS
  <2>3. /\ p \in Pool /\ s \in Table /\ WellFormed(s) /\ s.blocks = <<>>
        /\ g \in Seq(Token) /\ Claims(p, g, k)
    BY <1>2, <2>1, <2>2
  <2>4. PICK w : w = ClaimTable(p, s, g, k)
    OBVIOUS
  <2>5. /\ k \in Nat
        /\ \A i \in 1..k : /\ i \in 1..Candidates(g)
                           /\ PrefixName(g, i) \in DOMAIN p.cached
                           /\ p.cached[PrefixName(g, i)] \in Block
        /\ w \in Table
        /\ WellFormed(w)
        /\ w.blocks = [i \in 1..k |-> p.cached[PrefixName(g, i)]]
        /\ Len(w.hashes) = k
        /\ w.tokens = k * BlockSize
    BY <2>3, <2>4, ClaimFields
  <2>6. u = w
    BY <2>2, <2>4 DEF u
  <2> QED BY <2>2, <2>5, <2>6
<1>5. u.hashes = [i \in 1..k |-> PrefixName(h, i)]
  <2>1. t.hashes = <<>>
    BY <1>2, BlocksAssumption DEF WellFormed, Capacity, Table
  <2>2. u.hashes = <<>> \o [i \in 1..k |-> PrefixName(h, i)]
    BY <2>1 DEF ClaimTable
  <2>3. [i \in 1..k |-> PrefixName(h, i)] \in Seq(Name)
    <3>1. k \in Nat /\ h \in Seq(Token)
      BY <1>2, <1>4
    <3> HIDE DEF h
    <3>2. PICK f : f = [i \in 1..k |-> PrefixName(h, i)]
      OBVIOUS
    <3>3. ASSUME NEW i \in 1..k PROVE PrefixName(h, i) \in Name
      <4>1. i \in 1..Candidates(h)
        BY <1>4
      <4> QED BY <3>1, <4>1, PrefixNameType
    <3>4. \A i \in 1..k : f[i] \in Name
      BY <3>2, <3>3
    <3>5. f \in [1..k -> Name]
      BY <3>2, <3>4
    <3> QED BY <3>1, <3>2, <3>5
  <2> QED BY <2>2, <2>3
<1>6. /\ pool'.hash = pool.hash /\ table'[r] = u
      /\ \A s \in Owner \ {r} : table'[s] = table[s]
      /\ history' = history /\ inflight' = inflight /\ kv' = kv
  BY <1>1, <1>2 DEF ClaimPool, AcquireCached, Pool, Claim
<1>7. k * BlockSize \in Nat /\ k * BlockSize <= Len(h)
  <2>1. Candidates(h) \in Nat /\ k <= Candidates(h)
    BY <1>2, CandidatesNat
  <2>2. k = 0 \/ k * BlockSize < Len(h)
    BY <1>2, <1>4, <2>1, CandidatesEndEarly
  <2>3. k * BlockSize \in Nat
    BY <1>4, BlocksAssumption
  <2> HIDE DEF h
  <2> QED BY <1>2, <2>2, <2>3, BlocksAssumption
<1> HIDE DEF t, u, h
<1>8. ASSUME NEW i \in 1..k
      PROVE  /\ i \in Nat \ {0} /\ i * BlockSize <= Len(h)
             /\ HoldsPart(kv, u.blocks[i], h, i)
  <2> DEFINE b == u.blocks[i]
  <2>1. i \in Nat \ {0} /\ i <= k
    BY <1>4
  <2>2. i * BlockSize <= Len(h)
    <3>1. i * BlockSize <= k * BlockSize /\ i * BlockSize \in Nat
      BY <1>4, <2>1, MulMono, BlocksAssumption
    <3> QED BY <1>2, <1>7, <3>1
  <2>3. b = pool.cached[PrefixName(h, i)] /\ b \in Block
    BY <1>4
  <2>4. pool.hash[b] = PrefixName(h, i) /\ pool.hash[b] # NoName
    BY <1>0, <1>4, <2>3 DEF IndexMatchesSlots
  <2>5. Truthful(kv, b, PrefixName(h, i))
    BY <1>0, <2>3, <2>4, NamedMeans
  <2> HIDE DEF b
  <2>6. HoldsPart(kv, b, h, i)
    <3>1. PrefixName(h, i) = SubSeq(h, 1, i * BlockSize)
      BY DEF PrefixName
    <3> QED BY <1>2, <2>1, <2>2, <2>5, <3>1, TruthfulAt
  <2> QED BY <2>1, <2>2, <2>6 DEF b
<1>9. ReadsOwn(r)'
  <2>1. Computed(r)' = k * BlockSize
    <3>1. k * BlockSize + 0 = k * BlockSize
      BY <1>7
    <3> QED BY <1>3, <1>4, <1>6, <3>1 DEF Computed
  <2>2. Capacity(u) = k * BlockSize
    BY <1>4 DEF Capacity
  <2>3. ASSUME NEW q \in 0..(k * BlockSize - 1)
        PROVE  Content(kv, u, q) = SubSeq(h, 1, q + 1)
    <3> DEFINE i == q \div BlockSize + 1
               o == q % BlockSize
    <3>1. q \in Nat /\ q < k * BlockSize
      BY <1>7
    <3>2. i \in 1..k /\ o \in Offset
      <4>1. q \div BlockSize \in 0..(k - 1)
        BY <1>4, <3>1, DivBelow
      <4> QED BY <1>4, <3>1, <4>1, ModInOffset
    <3>3. (i - 1) * BlockSize + o + 1 = q + 1
      BY <3>1, BlocksAssumption
    <3>4. Content(kv, u, q) = kv[u.blocks[i]][o]
      BY DEF Content, SlotBlock
    <3> HIDE DEF i, o
    <3>5. kv[u.blocks[i]][o] = SubSeq(h, 1, (i - 1) * BlockSize + o + 1)
      BY <1>8, <3>2 DEF HoldsPart
    <3> QED BY <3>3, <3>4, <3>5
  <2> QED BY <1>6, <1>7, <2>1, <2>2, <2>3 DEF ReadsOwn, Content, SlotBlock, h
<1>10. NamesOwn(r)'
  BY <1>4, <1>5, <1>6 DEF NamesOwn, PrefixName, h
<1>11. ASSUME NEW s \in Owner PROVE ReadsOwn(s)' /\ NamesOwn(s)'
  <2>1. CASE s = r
    BY <1>9, <1>10, <2>1
  <2>2. CASE s # r
    BY <1>0, <1>6, <2>2, OwnerKeeps DEF OwnContent, NamesAreHistory
  <2> QED BY <2>1, <2>2
<1>12. NamedBlocksHoldTheirName'
  BY <1>0, <1>6 DEF NamedBlocksHoldTheirName
<1> QED BY <1>11, <1>12 DEF ContentInv, OwnContent, NamesAreHistory

\* The block a sequence takes lost its name and lies behind what it computed.
LEMMA GrowKeepsContent ==
  ASSUME IInv, ContentInv, NEW r \in Owner, Grow(r)
  PROVE  ContentInv'
<1>0. TypeInv /\ PoolInv /\ OwnContent /\ NamesAreHistory /\ NamedBlocksHoldTheirName
  BY DEF IInv, ContentInv
<1>1. PICK b \in Allocatable(pool) :
        /\ pool' = Allocate(pool, b)
        /\ table' = [table EXCEPT ![r] = Push(@, b)]
  BY DEF Grow
<1> DEFINE t == table[r]
           u == Push(t, b)
<1>2. /\ pool \in Pool /\ table \in [Owner -> Table] /\ t \in Table /\ WellFormed(t)
      /\ t.blocks \in Seq(Block) /\ Len(t.blocks) \in Nat /\ t.tokens \in Nat
      /\ Capacity(t) \in Nat /\ Computed(r) \in Nat /\ Len(history[r]) \in Nat
  BY <1>0, OwnerTyped DEF TypeInv
<1>3. b \in Block
  BY <1>1, <1>2, AllocatableFree
<1>4. /\ pool'.hash[b] = NoName
      /\ \A c \in Block \ {b} : pool'.hash[c] = pool.hash[c]
      /\ table'[r] = u /\ \A s \in Owner \ {r} : table'[s] = table[s]
      /\ history' = history /\ inflight' = inflight /\ kv' = kv
  BY <1>1, <1>2, <1>3 DEF Allocate, Pool, Grow
<1>5. /\ u.blocks = Append(t.blocks, b) /\ u.tokens = t.tokens /\ u.hashes = t.hashes
      /\ Len(u.blocks) = Len(t.blocks) + 1
      /\ \A i \in 1..Len(t.blocks) : u.blocks[i] = t.blocks[i]
  BY <1>2, <1>3 DEF Push, Table
<1>6. ReadsOwn(r) /\ NamesOwn(r)
  BY <1>0 DEF OwnContent, NamesAreHistory
<1> HIDE DEF u
<1>7. Capacity(t) <= Capacity(u) /\ Capacity(u) \in Nat
  BY <1>2, <1>5, MulMono, BlocksAssumption DEF Capacity
<1>8. Computed(r)' = Computed(r)
  BY <1>4, <1>5 DEF Computed
<1>9. ASSUME NEW q \in 0..(Computed(r) - 1)
      PROVE  Content(kv, u, q) = Content(kv, t, q)
  <2>1. q \in Nat /\ q < Capacity(t)
    BY <1>2, <1>6 DEF ReadsOwn
  <2>2. q \div BlockSize + 1 \in 1..Len(t.blocks)
    BY <1>2, <2>1, SlotInTable
  <2> QED BY <1>5, <2>2 DEF Content, SlotBlock
<1>10. ReadsOwn(r)'
  <2>1. Computed(r) <= Capacity(u)
    BY <1>2, <1>6, <1>7 DEF ReadsOwn
  <2> QED BY <1>4, <1>6, <1>8, <1>9, <2>1 DEF ReadsOwn, Content, SlotBlock
<1>11. NamesOwn(r)'
  BY <1>4, <1>5, <1>6 DEF NamesOwn
<1>12. ASSUME NEW s \in Owner PROVE ReadsOwn(s)' /\ NamesOwn(s)'
  <2>1. CASE s = r
    BY <1>10, <1>11, <2>1
  <2>2. CASE s # r
    BY <1>0, <1>4, <2>2, OwnerKeeps DEF OwnContent, NamesAreHistory
  <2> QED BY <2>1, <2>2
<1>13. NamedBlocksHoldTheirName'
  BY <1>0, <1>4 DEF NamedBlocksHoldTheirName
<1> QED BY <1>12, <1>13 DEF ContentInv, OwnContent, NamesAreHistory

\* newly_full's chain of names spells out the history: the last name and the
\* tokens behind it are the longer prefix.
LEMMA FullNameIsPrefix ==
  ASSUME NEW t \in Table, WellFormed(t), NEW h \in Seq(Token), t.tokens <= Len(h),
         \A i \in 1..Len(t.hashes) : t.hashes[i] = SubSeq(h, 1, i * BlockSize),
         NEW i \in 1..Full(t, h)
  PROVE  /\ FullName(t, h, i) = SubSeq(h, 1, i * BlockSize)
         /\ i \in Nat \ {0} /\ i * BlockSize \in Nat
         /\ i * BlockSize <= t.tokens /\ i * BlockSize <= Len(h)
<1> DEFINE L == Len(t.hashes)
           lo == L * BlockSize
           hi == i * BlockSize
<1>1. /\ L \in Nat /\ t.hashes \in Seq(Name) /\ t.tokens \in Nat /\ Len(h) \in Nat
      /\ Full(t, h) \in Nat /\ Full(t, h) * BlockSize <= t.tokens
  BY FullBounds DEF Table
<1>2. i \in Nat \ {0} /\ i <= Full(t, h)
  BY <1>1
<1>3. hi \in Nat /\ hi <= t.tokens /\ hi <= Len(h)
  <2>1. hi \in Nat /\ Full(t, h) * BlockSize \in Nat
    BY <1>1, <1>2, BlocksAssumption
  <2>2. hi <= Full(t, h) * BlockSize
    BY <1>1, <1>2, MulMono
  <2> HIDE DEF hi
  <2> QED BY <1>1, <2>1, <2>2
<1>4. CASE i <= L
  <2>1. i \in 1..L
    BY <1>1, <1>2, <1>4
  <2>2. FullName(t, h, i) = t.hashes[i]
    BY <1>4 DEF FullName
  <2>3. FullName(t, h, i) = SubSeq(h, 1, i * BlockSize)
    BY <2>1, <2>2
  <2> QED BY <1>2, <1>3, <2>3
<1>5. CASE i > L
  <2>1. lo \in Nat /\ lo <= hi
    <3>1. i \in Nat /\ L <= i
      BY <1>1, <1>2, <1>5
    <3>2. lo \in Nat
      BY <1>1, BlocksAssumption
    <3>3. lo <= hi
      BY <1>1, <3>1, MulMono
    <3> QED BY <3>2, <3>3
  <2>2. LastHash(t) = SubSeq(h, 1, lo)
    <3>1. CASE L = 0
      <4>1. t.hashes = <<>> /\ lo = 0
        BY <1>1, <3>1, BlocksAssumption
      <4> QED BY <4>1 DEF LastHash, NoName
    <3>2. CASE L # 0
      <4>1. L \in 1..L /\ t.hashes # <<>>
        BY <1>1, <3>2
      <4> QED BY <4>1 DEF LastHash
    <3> QED BY <3>1, <3>2
  <2>3. FullName(t, h, i) = LastHash(t) \o SubSeq(h, lo + 1, hi)
    <3>1. ~ (i <= Len(t.hashes))
      BY <1>1, <1>2, <1>5
    <3> QED BY <3>1 DEF FullName, BlockHash
  <2> HIDE DEF lo, hi
  <2>4. SubSeq(h, 1, lo) \o SubSeq(h, lo + 1, hi) = SubSeq(h, 1, hi)
    <3>1. hi \in 0..Len(h) /\ lo \in 0..hi
      BY <1>1, <1>3, <2>1
    <3> QED BY <3>1, PrefixJoined
  <2>5. FullName(t, h, i) = SubSeq(h, 1, hi)
    BY <2>2, <2>3, <2>4
  <2> QED BY <1>2, <1>3, <2>5 DEF hi
<1> QED BY <1>1, <1>2, <1>3, <1>4, <1>5

\* What a table has computed of one of its blocks is that block's part.
LEMMA ReadsPart ==
  ASSUME TypeInv, NEW r \in Owner, ReadsOwn(r),
         NEW i \in Nat \ {0}, i * BlockSize \in Nat, i * BlockSize <= Computed(r)
  PROVE  HoldsPart(kv, table[r].blocks[i], history[r], i)
<1> SUFFICES ASSUME NEW o \in Offset
             PROVE  kv[table[r].blocks[i]][o]
                      = SubSeq(history[r], 1, (i - 1) * BlockSize + o + 1)
  BY DEF HoldsPart
<1> DEFINE q == (i - 1) * BlockSize + o
<1>1. /\ q \in Nat /\ q < i * BlockSize
      /\ q \div BlockSize + 1 = i /\ q % BlockSize = o
  BY PositionOf
<1> HIDE DEF q
<1>2. q \in 0..(Computed(r) - 1)
  BY <1>1, OwnerTyped
<1>3. Content(kv, table[r], q) = SubSeq(history[r], 1, q + 1)
  BY <1>2 DEF ReadsOwn
<1>4. Content(kv, table[r], q) = kv[table[r].blocks[i]][o]
  BY <1>1 DEF Content, SlotBlock
<1> QED BY <1>3, <1>4 DEF q

\* A committed pass is the sequence's own history, and so are the names.
LEMMA CommitKeepsContent ==
  ASSUME IInv, ContentInv, NEW r \in Owner, Commit(r)
  PROVE  ContentInv'
<1>0. /\ TypeInv /\ PoolInv /\ OwnContent /\ NamesAreHistory
      /\ NamedBlocksHoldTheirName /\ HoldersCountTables
  BY DEF IInv, ContentInv, PoolInv
<1> DEFINE tb == table[r]
           t == Advance(tb, inflight[r])
           h == history[r]
           u == IF prefix_cache THEN NameFull(t, h) ELSE t
<1>1. /\ pool \in Pool /\ table \in [Owner -> Table] /\ tb \in Table /\ WellFormed(tb)
      /\ tb.tokens \in Nat /\ inflight[r] \in Nat /\ Computed(r) \in Nat
      /\ Capacity(tb) \in Nat /\ h \in Seq(Token) /\ Len(h) \in Nat
      /\ ReadsOwn(r) /\ NamesOwn(r) /\ Computed(r) = tb.tokens + inflight[r]
      /\ Computed(r) <= Len(h) /\ Computed(r) <= Capacity(tb)
      /\ DOMAIN tb.blocks = 1..Len(tb.blocks) /\ Len(tb.blocks) \in Nat
      /\ tb.blocks \in Seq(Block)
  BY <1>0, OwnerTyped DEF TypeInv, OwnContent, NamesAreHistory, ReadsOwn, Computed
<1>2. /\ t \in Table /\ WellFormed(t) /\ t.blocks = tb.blocks /\ t.hashes = tb.hashes
  BY <1>1, AdvanceType
<1>3. t.tokens = Computed(r)
  BY <1>1 DEF Advance, Table
<1>4. /\ table' = [table EXCEPT ![r] = u]
      /\ pool' = IF prefix_cache THEN PublishFull(pool, t, h) ELSE pool
      /\ inflight' = [inflight EXCEPT ![r] = 0]
      /\ history' = history /\ kv' = kv
  BY DEF Commit
<1>5. /\ table'[r] = u
      /\ \A s \in Owner \ {r} : table'[s] = table[s] /\ inflight'[s] = inflight[s]
      /\ inflight'[r] = 0
  BY <1>0, <1>1, <1>4 DEF TypeInv
<1> HIDE DEF t, h, tb
<1>6. u.blocks = tb.blocks /\ u.tokens = Computed(r)
  BY <1>1, <1>2, <1>3 DEF NameFull, Table
<1>7. \A i \in 1..Len(t.hashes) : t.hashes[i] = SubSeq(h, 1, i * BlockSize)
  BY <1>1, <1>2 DEF NamesOwn, tb, h
<1>8. \A i \in 1..Full(t, h) :
         /\ FullName(t, h, i) = SubSeq(h, 1, i * BlockSize)
         /\ i \in Nat \ {0} /\ i * BlockSize \in Nat
         /\ i * BlockSize <= t.tokens /\ i * BlockSize <= Len(h)
  BY <1>1, <1>2, <1>3, <1>7, FullNameIsPrefix
<1>9. \A i \in 1..Len(u.hashes) : u.hashes[i] = SubSeq(h, 1, i * BlockSize)
  <2>1. CASE prefix_cache
    <3>1. u.hashes = [i \in 1..Full(t, h) |-> FullName(t, h, i)]
      BY <1>2, <2>1 DEF NameFull, Table
    <3>2. Len(u.hashes) = Full(t, h)
      BY <1>1, <1>2, <2>1, NameFullType
    <3> HIDE DEF u
    <3> QED BY <1>8, <3>1, <3>2
  <2>2. CASE ~ prefix_cache
    BY <1>7, <2>2
  <2> QED BY <2>1, <2>2
<1> HIDE DEF u
<1>10. ReadsOwn(r)'
  <2>1. Computed(r)' = Computed(r)
    <3>1. Computed(r)' = Computed(r) + 0
      BY <1>5, <1>6 DEF Computed
    <3> QED BY <1>1, <3>1
  <2>2. Capacity(u) = Capacity(tb)
    BY <1>6 DEF Capacity
  <2>3. \A q : Content(kv, u, q) = Content(kv, tb, q)
    BY <1>6 DEF Content, SlotBlock
  <2> QED BY <1>1, <1>4, <1>5, <2>1, <2>2, <2>3 DEF ReadsOwn, tb, h
<1>11. NamesOwn(r)'
  BY <1>4, <1>5, <1>9 DEF NamesOwn, h
<1>12. ASSUME NEW s \in Owner PROVE ReadsOwn(s)' /\ NamesOwn(s)'
  <2>1. CASE s = r
    BY <1>10, <1>11, <2>1
  <2>2. CASE s # r
    BY <1>0, <1>4, <1>5, <2>2, OwnerKeeps DEF OwnContent, NamesAreHistory
  <2> QED BY <2>1, <2>2
<1>13. ASSUME NEW b \in Block, pool'.hash[b] # NoName
       PROVE  Truthful(kv, b, pool'.hash[b])
  <2>1. CASE ~ prefix_cache
    BY <1>0, <1>4, <1>13, <2>1, NamedMeans
  <2>2. CASE prefix_cache
    <3> DEFINE new == Published(pool, t, h)
    <3>1. \A i \in new : /\ i \in (Len(t.hashes) + 1)..Full(t, h)
                         /\ i \in 1..Full(t, h)
      <4>1. Len(t.hashes) \in Nat /\ Full(t, h) \in Nat
        BY <1>1, <1>2, FullBounds DEF Table
      <4> QED BY <4>1 DEF Published
    <3>2. \A i, j \in (Len(t.hashes) + 1)..Full(t, h) : t.blocks[i] = t.blocks[j] => i = j
      <4>1. \A i, j \in DOMAIN tb.blocks : tb.blocks[i] = tb.blocks[j] => i = j
        BY <1>0 DEF HoldersCountTables, tb
      <4>2. /\ Full(t, h) \in Nat /\ Full(t, h) <= Len(tb.blocks) /\ Len(t.hashes) \in Nat
        BY <1>1, <1>2, FullBounds DEF Table
      <4>3. \A i \in (Len(t.hashes) + 1)..Full(t, h) : i \in DOMAIN tb.blocks
        BY <1>1, <4>2
      <4> QED BY <1>2, <4>1, <4>3
    <3>3. /\ \A i \in new : pool'.hash[t.blocks[i]] = FullName(t, h, i)
          /\ (\A i \in new : b # t.blocks[i]) => pool'.hash[b] = pool.hash[b]
      <4>1. pool' = PublishFull(pool, t, h)
        BY <1>4, <2>2
      <4> HIDE DEF new
      <4>2. new = Published(pool, t, h)
        BY DEF new
      <4>3. \A q : q = PublishFull(pool, t, h) =>
              /\ \A i \in new : q.hash[t.blocks[i]] = FullName(t, h, i)
              /\ \A c \in Block : (\A i \in new : c # t.blocks[i]) => q.hash[c] = pool.hash[c]
        <5>1. pool \in Pool /\ t \in Table /\ WellFormed(t) /\ h \in Seq(Token)
          BY <1>1, <1>2
        <5> QED BY <3>2, <4>2, <5>1, PublishFullFields
      <4> QED BY <4>1, <4>3
    <3>4. CASE \A i \in new : b # t.blocks[i]
      BY <1>0, <1>13, <3>3, <3>4, NamedMeans
    <3>5. CASE \E i \in new : b = t.blocks[i]
      <4>1. PICK i \in new : b = t.blocks[i]
        BY <3>5
      <4>2. /\ pool'.hash[b] = SubSeq(h, 1, i * BlockSize)
            /\ i \in Nat \ {0} /\ i * BlockSize \in Nat
            /\ i * BlockSize <= Computed(r) /\ i * BlockSize <= Len(h)
        BY <1>3, <1>8, <3>1, <3>3, <4>1
      <4>3. HoldsPart(kv, b, h, i)
        <5>1. HoldsPart(kv, table[r].blocks[i], history[r], i)
          BY <1>0, <1>1, <4>2, ReadsPart
        <5> QED BY <1>2, <4>1, <5>1 DEF tb, h
      <4> QED BY <1>1, <4>2, <4>3, TruthfulAt
    <3> QED BY <3>4, <3>5
  <2> QED BY <2>1, <2>2
<1>14. NamedBlocksHoldTheirName'
  BY <1>4, <1>13 DEF NamedBlocksHoldTheirName, Truthful
<1> QED BY <1>12, <1>14 DEF ContentInv, OwnContent, NamesAreHistory

\* A sampled token lies behind everything that was computed or named.
LEMMA SampleKeepsContent ==
  ASSUME IInv, ContentInv, NEW r \in Owner, Sample(r)
  PROVE  ContentInv'
<1>0. TypeInv /\ OwnContent /\ NamesAreHistory /\ NamedBlocksHoldTheirName
  BY DEF IInv, ContentInv
<1>1. PICK token \in Token : history' = [history EXCEPT ![r] = Append(@, token)]
  BY DEF Sample
<1> DEFINE h == history[r]
           g == Append(h, token)
<1>2. /\ pool' = pool /\ table' = table /\ inflight' = inflight /\ kv' = kv
      /\ history'[r] = g /\ \A s \in Owner \ {r} : history'[s] = history[s]
  BY <1>0, <1>1 DEF Sample, TypeInv
<1>3. /\ h \in Seq(Token) /\ Len(h) \in Nat /\ Computed(r) \in Nat
      /\ Len(table[r].hashes) \in Nat /\ Len(table[r].hashes) * BlockSize \in Nat
      /\ Len(table[r].hashes) * BlockSize <= table[r].tokens
      /\ table[r].tokens \in Nat /\ inflight[r] \in Nat
      /\ ReadsOwn(r) /\ NamesOwn(r)
  BY <1>0, OwnerTyped DEF OwnContent, NamesAreHistory
<1> HIDE DEF h, g
<1>4. Len(g) = Len(h) + 1 /\ \A a \in 0..Len(h) : SubSeq(g, 1, a) = SubSeq(h, 1, a)
  BY <1>3, PrefixOfAppend DEF g
<1>5. Computed(r)' = Computed(r) /\ Computed(r) <= Len(h)
  BY <1>2, <1>3 DEF Computed, ReadsOwn, h
<1>6. ReadsOwn(r)'
  <2>1. ASSUME NEW q \in 0..(Computed(r) - 1)
        PROVE  Content(kv, table[r], q) = SubSeq(g, 1, q + 1)
    <3>1. Content(kv, table[r], q) = SubSeq(h, 1, q + 1)
      BY <1>3 DEF ReadsOwn, h
    <3>2. q + 1 \in 0..Len(h)
      BY <1>3, <1>5
    <3> QED BY <1>4, <3>1, <3>2
  <2>2. Computed(r) <= Len(g) /\ Computed(r) <= Capacity(table[r])
    BY <1>3, <1>4, <1>5 DEF ReadsOwn
  <2> QED BY <1>2, <1>5, <2>1, <2>2 DEF ReadsOwn, Content, SlotBlock
<1>7. NamesOwn(r)'
  <2>1. ASSUME NEW i \in 1..Len(table[r].hashes)
        PROVE  table[r].hashes[i] = SubSeq(g, 1, i * BlockSize)
    <3>1. i \in Nat /\ i <= Len(table[r].hashes) /\ i * BlockSize \in Nat
      BY <1>3, BlocksAssumption
    <3>2. i * BlockSize <= Len(table[r].hashes) * BlockSize
      BY <1>3, <3>1, MulMono
    <3>3. table[r].tokens <= Len(h)
      BY <1>3, <1>5 DEF Computed
    <3>4. i * BlockSize \in 0..Len(h)
      BY <1>3, <3>1, <3>2, <3>3
    <3>5. table[r].hashes[i] = SubSeq(h, 1, i * BlockSize)
      BY <1>3 DEF NamesOwn, h
    <3> QED BY <1>4, <3>4, <3>5
  <2> QED BY <1>2, <2>1 DEF NamesOwn
<1>8. ASSUME NEW s \in Owner PROVE ReadsOwn(s)' /\ NamesOwn(s)'
  <2>1. CASE s = r
    BY <1>6, <1>7, <2>1
  <2>2. CASE s # r
    BY <1>0, <1>2, <2>2, OwnerKeeps DEF OwnContent, NamesAreHistory
  <2> QED BY <2>1, <2>2
<1>9. NamedBlocksHoldTheirName'
  BY <1>0, <1>2 DEF NamedBlocksHoldTheirName
<1> QED BY <1>8, <1>9 DEF ContentInv, OwnContent, NamesAreHistory

\* A table without blocks has computed nothing; what was named stays true.
LEMMA FreeKeepsContent ==
  ASSUME IInv, ContentInv, NEW r \in Owner, Free(r)
  PROVE  ContentInv'
<1>0. TypeInv /\ OwnContent /\ NamesAreHistory /\ NamedBlocksHoldTheirName
  BY DEF IInv, ContentInv
<1>1. /\ pool'.hash = pool.hash
      /\ table'[r] = NewTable /\ \A s \in Owner \ {r} : table'[s] = table[s]
      /\ inflight'[r] = 0 /\ \A s \in Owner \ {r} : inflight'[s] = inflight[s]
      /\ history' = history /\ kv' = kv
  BY <1>0 DEF Free, TypeInv, ReleaseAll, Pool
<1>2. ReadsOwn(r)' /\ NamesOwn(r)'
  <2>1. Len(history[r]) \in Nat
    BY <1>0, OwnerTyped
  <2>2. Computed(r)' = 0 /\ Capacity(NewTable) = 0 /\ Len(NewTable.hashes) = 0
    BY <1>1, BlocksAssumption DEF Computed, Capacity, NewTable
  <2> QED BY <1>1, <2>1, <2>2 DEF ReadsOwn, NamesOwn
<1>3. ASSUME NEW s \in Owner PROVE ReadsOwn(s)' /\ NamesOwn(s)'
  <2>1. CASE s = r
    BY <1>2, <2>1
  <2>2. CASE s # r
    BY <1>0, <1>1, <2>2, OwnerKeeps DEF OwnContent, NamesAreHistory
  <2> QED BY <2>1, <2>2
<1>4. NamedBlocksHoldTheirName'
  BY <1>0, <1>1 DEF NamedBlocksHoldTheirName
<1> QED BY <1>3, <1>4 DEF ContentInv, OwnContent, NamesAreHistory

\* Clearing the cache takes names off the blocks; tables and slots stay.
LEMMA SetPrefixCacheKeepsContent ==
  ASSUME IInv, ContentInv, NEW enabled \in BOOLEAN, SetPrefixCache(enabled)
  PROVE  ContentInv'
<1>0. TypeInv /\ OwnContent /\ NamesAreHistory /\ NamedBlocksHoldTheirName
  BY DEF IInv, ContentInv
<1>1. /\ table' = table /\ history' = history /\ inflight' = inflight /\ kv' = kv
      /\ \A b \in Block : pool'.hash[b] = NoName \/ pool'.hash[b] = pool.hash[b]
  BY <1>0 DEF SetPrefixCache, ClearCache, TypeInv, Pool
<1>2. \A s \in Owner : ReadsOwn(s)' /\ NamesOwn(s)'
  BY <1>0, <1>1, OwnerKeeps DEF OwnContent, NamesAreHistory
<1>3. NamedBlocksHoldTheirName'
  BY <1>0, <1>1 DEF NamedBlocksHoldTheirName
<1> QED BY <1>2, <1>3 DEF ContentInv, OwnContent, NamesAreHistory

\* The invariant is inductive: one step per action.
LEMMA ContentInvNext == IInv /\ ContentInv /\ [Next]_vars => ContentInv'
<1> SUFFICES ASSUME IInv, ContentInv, [Next]_vars PROVE ContentInv'
  OBVIOUS
<1>1. ASSUME NEW r \in Owner, Claim(r) PROVE ContentInv'
  BY <1>1, ClaimKeepsContent
<1>2. ASSUME NEW r \in Owner, Grow(r) PROVE ContentInv'
  BY <1>2, GrowKeepsContent
<1>3. ASSUME NEW r \in Owner, Commit(r) PROVE ContentInv'
  BY <1>3, CommitKeepsContent
<1>4. ASSUME NEW r \in Owner, Sample(r) PROVE ContentInv'
  BY <1>4, SampleKeepsContent
<1>5. ASSUME NEW r \in Owner, Free(r) PROVE ContentInv'
  BY <1>5, FreeKeepsContent
<1>6. ASSUME NEW n \in Passes, Run(n) PROVE ContentInv'
  BY <1>6, RunKeepsContent
<1>7. ASSUME NEW n \in Passes, Spoil(n) PROVE ContentInv'
  BY <1>7, SpoilKeepsContent
<1>8. ASSUME NEW enabled \in BOOLEAN, SetPrefixCache(enabled) PROVE ContentInv'
  BY <1>8, SetPrefixCacheKeepsContent
<1>9. CASE UNCHANGED vars
  <2>1. /\ pool' = pool /\ table' = table /\ history' = history
        /\ inflight' = inflight /\ kv' = kv
    BY <1>9 DEF vars
  <2>2. \A s \in Owner : ReadsOwn(s)' /\ NamesOwn(s)'
    BY <2>1, OwnerKeeps DEF ContentInv, OwnContent, NamesAreHistory
  <2>3. NamedBlocksHoldTheirName'
    BY <2>1 DEF ContentInv, NamedBlocksHoldTheirName
  <2> QED BY <2>2, <2>3 DEF ContentInv, OwnContent, NamesAreHistory
<1> QED BY <1>1, <1>2, <1>3, <1>4, <1>5, <1>6, <1>7, <1>8, <1>9 DEF Next

\* Both invariants hold from the start on.
LEMMA ContentAlways == Spec => [](IInv /\ ContentInv)
<1>1. Init => IInv /\ ContentInv
  BY TypeInvInit, PoolInvInit, ContentInvInit DEF IInv
<1>2. (IInv /\ ContentInv) /\ [Next]_vars => (IInv /\ ContentInv)'
  BY IInvNext, ContentInvNext
<1> QED BY <1>1, <1>2, PTL DEF Spec

-----------------------------------------------------------------------------
(* What follows. *)

\* What a sequence computed includes what its table counts as computed.
LEMMA ReadsHistory == TypeInv /\ OwnContent => TablesHoldTheirHistory
<1> SUFFICES ASSUME TypeInv, OwnContent, NEW r \in Owner
             PROVE  /\ table[r].tokens <= Len(history[r])
                    /\ Holds(kv, table[r], SubSeq(history[r], 1, table[r].tokens))
  BY DEF TablesHoldTheirHistory
<1> DEFINE t == table[r]
           h == history[r]
           n == table[r].tokens
<1>1. /\ t \in Table /\ n \in Nat /\ inflight[r] \in Nat /\ h \in Seq(Token)
      /\ Len(h) \in Nat /\ Capacity(t) \in Nat /\ n <= Capacity(t)
      /\ Computed(r) = n + inflight[r]
      /\ ReadsOwn(r)
  BY OwnerTyped DEF Computed, OwnContent
<1>2. n <= Computed(r) /\ n <= Len(h)
  BY <1>1 DEF ReadsOwn
<1>3. \A q \in 0..(n - 1) : Content(kv, t, q) = SubSeq(h, 1, q + 1)
  BY <1>1, <1>2 DEF ReadsOwn
<1> HIDE DEF t, h, n
<1>4. n \in 0..Len(h) /\ Len(SubSeq(h, 1, n)) = n
  BY <1>1, <1>2, PrefixType
<1>5. ASSUME NEW q \in 0..(n - 1)
      PROVE  HasSlot(t, q) /\ Content(kv, t, q) = SubSeq(SubSeq(h, 1, n), 1, q + 1)
  <2>1. q \in Nat /\ q < Capacity(t) /\ q + 1 \in 0..n
    BY <1>1
  <2>2. HasSlot(t, q)
    BY <1>1, <2>1, SlotInTable
  <2>3. SubSeq(SubSeq(h, 1, n), 1, q + 1) = SubSeq(h, 1, q + 1)
    BY <1>1, <1>4, <2>1, PrefixOfPrefix
  <2> QED BY <1>3, <2>2, <2>3
<1>6. Holds(kv, t, SubSeq(h, 1, n))
  BY <1>4, <1>5 DEF Holds
<1> QED BY <1>2, <1>6 DEF t, h, n

\* In every reachable state every committed position of every sequence carries
\* the keys and values of that sequence's own history, through sharing,
\* eviction, reuse and failed passes (scheduler.rs commit, claim_prefix;
\* model/mod.rs step).
THEOREM HistoriesHeld == Spec => []TablesHoldTheirHistory
<1>1. IInv /\ ContentInv => TablesHoldTheirHistory
  BY ReadsHistory DEF IInv, ContentInv
<1> QED BY <1>1, ContentAlways, PTL

\* In every reachable state a named block holds the prefix its name says, also
\* when it lies in the free list, so a sequence that claims it reads what it
\* looked for (blocks.rs newly_full, publish, lookup).
THEOREM NamesTrue == Spec => []NamedBlocksHoldTheirName
<1>1. IInv /\ ContentInv => NamedBlocksHoldTheirName
  BY DEF ContentInv
<1> QED BY <1>1, ContentAlways, PTL

\* A pass leaves every slot of a full block that somebody holds as it is.
LEMMA FullBlocksUntouched ==
  ASSUME IInv, NEW n \in Passes, \A s \in DOMAIN n : n[s] \in Runnable(s),
         kv' = SpoilPass(kv, Rows(n)) \/ kv' = RunPass(kv, Rows(n)),
         TypeInv',
         NEW r \in Owner, NEW i \in DOMAIN table[r].blocks,
         i * BlockSize <= table[r].tokens
  PROVE  kv'[table[r].blocks[i]] = kv[table[r].blocks[i]]
<1>0. TypeInv /\ PoolInv
  BY DEF IInv
<1> DEFINE b == table[r].blocks[i]
<1>1. /\ i \in Nat \ {0} /\ table[r] \in Table /\ table[r].tokens \in Nat
      /\ Capacity(table[r]) \in Nat /\ table[r].tokens <= Capacity(table[r])
      /\ b \in Block /\ i * BlockSize \in Nat
  BY <1>0, OwnerTyped, BlocksAssumption, SMTT(60)
<1>2. ASSUME NEW o \in Offset PROVE kv'[b][o] = kv[b][o]
  <2> DEFINE q == (i - 1) * BlockSize + o
  <2>1. /\ q \in Nat /\ q < i * BlockSize
        /\ q \div BlockSize + 1 = i /\ q % BlockSize = o
    BY <1>1, PositionOf
  <2> HIDE DEF q
  <2>2. q < table[r].tokens /\ q < Capacity(table[r])
    BY <1>1, <2>1
  <2>3. SlotBlock(table[r], q) = b
    BY <2>1 DEF SlotBlock
  <2>4. ASSUME NEW row \in Rows(n), Writes(row, b, o) PROVE FALSE
    <3>1. q \in table[r].tokens..(table[r].tokens + n[r] - 1) /\ n[r] \in Nat
      BY <1>0, <2>1, <2>2, <2>3, <2>4, WriterIsOwner
    <3> QED BY <1>1, <2>1, <2>2, <3>1
  <2> QED BY <1>1, <2>4, PassUntouched
<1>3. kv[b] \in [Offset -> Seq(Token)] /\ kv'[b] \in [Offset -> Seq(Token)]
  BY <1>0, <1>1 DEF TypeInv
<1> QED BY <1>2, <1>3, SMTT(60)

\* No step changes a full block somebody holds: a pass writes behind what is
\* committed, and nothing else writes at all (batch.rs write,
\* scheduler.rs claim_prefix).
THEOREM HeldContentStable == Spec => HeldContentIsStable
<1> DEFINE Stable == \A r \in Owner : \A i \in DOMAIN table[r].blocks :
              i * BlockSize <= table[r].tokens /\ table'[r].blocks # <<>>
                 => kv'[table[r].blocks[i]] = kv[table[r].blocks[i]]
<1>1. IInv /\ [Next]_vars => [Stable]_vars
  <2> SUFFICES ASSUME IInv, Next PROVE Stable
    BY DEF vars
  <2>0. TypeInv'
    BY TypeInvNext DEF IInv
  <2>1. CASE kv' = kv
    BY <2>1
  <2>2. ASSUME NEW n \in Passes, Run(n) \/ Spoil(n) PROVE Stable
    <3>1. /\ \A s \in DOMAIN n : n[s] \in Runnable(s)
          /\ kv' = SpoilPass(kv, Rows(n)) \/ kv' = RunPass(kv, Rows(n))
      BY <2>2 DEF Run, Spoil
    <3> QED BY <2>0, <3>1, FullBlocksUntouched
  <2> QED BY <2>1, <2>2 DEF Next, Claim, Grow, Commit, Sample, Free, SetPrefixCache
<1> QED BY <1>1, IInvAlways, PTL DEF Spec, HeldContentIsStable
=============================================================================
