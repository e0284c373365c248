------------------------------- MODULE PagedKV -------------------------------
(***************************************************************************)
(* The paged cache under any schedule.  Every owner is a sequence with a   *)
(* block table; owners claim prefixes, take blocks, are carried by passes, *)
(* commit what a pass wrote, grow by a sampled token and give everything   *)
(* back, in any order and without asking whose turn it is.  Each action is *)
(* one call the scheduler makes on the pool, a table or the model; the     *)
(* module Scheduler says when the calls are really made and implements     *)
(* this one.                                                               *)
(***************************************************************************)
EXTENDS Blocks

CONSTANTS
    Owner,      \* the sequences
    Prompts     \* the prompts a sequence may start from

ASSUME OwnerAssumption ==
    /\ IsFiniteSet(Owner)
    /\ Prompts \subseteq Seq(Token) \ {<<>>}

VARIABLES
    pool,          \* the block allocator
    table,         \* owner -> its block table
    history,       \* owner -> prompt and output so far
    inflight,      \* owner -> tokens a finished pass wrote, not yet committed
    kv,            \* block -> offset -> the prefix the slot was computed from
    prefix_cache   \* whether blocks are published and claimed

vars == <<pool, table, history, inflight, kv, prefix_cache>>

Init ==
    /\ pool = NewPool
    /\ table = [r \in Owner |-> NewTable]
    /\ history \in [Owner -> Prompts]
    /\ inflight = [r \in Owner |-> 0]
    /\ kv = [b \in Block |-> [o \in Offset |-> Garbage]]
    /\ prefix_cache \in BOOLEAN

\* A sequence without blocks takes the resident part of its prefix.
Claim(r) ==
    /\ prefix_cache
    /\ table[r].blocks = <<>>
    /\ \E k \in 0..Candidates(history[r]) :
         /\ Claims(pool, history[r], k)
         /\ pool' = ClaimPool(pool, history[r], k)
         /\ table' = [table EXCEPT ![r] = ClaimTable(pool, @, history[r], k)]
    /\ UNCHANGED <<history, inflight, kv, prefix_cache>>

\* A sequence takes one more block, evicting a cached one if it must.
Grow(r) ==
    /\ \E b \in Allocatable(pool) :
         /\ pool' = Allocate(pool, b)
         /\ table' = [table EXCEPT ![r] = Push(@, b)]
    /\ UNCHANGED <<history, inflight, kv, prefix_cache>>

\* The rows of a pass that runs the next n[r] tokens of every owner in its domain.
Row(r, n) == [table |-> table[r], pos |-> table[r].tokens,
              tokens |-> SubSeq(history[r], table[r].tokens + 1, table[r].tokens + n)]
Rows(n) == {Row(r, n[r]) : r \in DOMAIN n}

\* What a pass may carry of an owner: tokens it has, in blocks it holds.
Runnable(r) ==
    1..(AtMost(Capacity(table[r]), Len(history[r])) - table[r].tokens)
Passes ==
    UNION {[S -> UNION {Runnable(r) : r \in S}] : S \in SUBSET Owner}

\* One pass of the model over some of the owners.
Run(n) ==
    /\ \A r \in Owner : inflight[r] = 0
    /\ \A r \in DOMAIN n : n[r] \in Runnable(r)
    /\ kv' = RunPass(kv, Rows(n))
    /\ inflight' = [r \in Owner |-> IF r \in DOMAIN n THEN n[r] ELSE 0]
    /\ UNCHANGED <<pool, table, history, prefix_cache>>

\* A pass that fails part way, or whose result is thrown away.
Spoil(n) ==
    /\ \A r \in Owner : inflight[r] = 0
    /\ \A r \in DOMAIN n : n[r] \in Runnable(r)
    /\ kv' \in {SpoilPass(kv, Rows(n)), RunPass(kv, Rows(n))}
    /\ UNCHANGED <<pool, table, history, inflight, prefix_cache>>

\* The pass succeeded: the table moves on and what it filled is published.
Commit(r) ==
    /\ inflight[r] > 0
    /\ LET t == Advance(table[r], inflight[r]) IN
         IF prefix_cache
         THEN /\ table' = [table EXCEPT ![r] = NameFull(t, history[r])]
              /\ pool' = PublishFull(pool, t, history[r])
         ELSE /\ table' = [table EXCEPT ![r] = t]
              /\ UNCHANGED pool
    /\ inflight' = [inflight EXCEPT ![r] = 0]
    /\ UNCHANGED <<history, kv, prefix_cache>>

\* A sampled token joins the history.
Sample(r) ==
    /\ \E token \in Token : history' = [history EXCEPT ![r] = Append(@, token)]
    /\ UNCHANGED <<pool, table, inflight, kv, prefix_cache>>

\* Preempted, cancelled or finished: every block goes back.
Free(r) ==
    /\ pool' = ReleaseAll(pool, table[r].blocks)
    /\ table' = [table EXCEPT ![r] = NewTable]
    /\ inflight' = [inflight EXCEPT ![r] = 0]
    /\ UNCHANGED <<history, kv, prefix_cache>>

\* Turning prefix sharing off forgets every name; blocks keep their holders.
SetPrefixCache(enabled) ==
    /\ prefix_cache' = enabled
    /\ pool' = IF enabled THEN pool ELSE ClearCache(pool)
    /\ UNCHANGED <<table, history, inflight, kv>>

Next ==
    \/ \E r \in Owner : Claim(r) \/ Grow(r) \/ Commit(r) \/ Sample(r) \/ Free(r)
    \/ \E n \in Passes : Run(n) \/ Spoil(n)
    \/ \E enabled \in BOOLEAN : SetPrefixCache(enabled)

Spec == Init /\ [][Next]_vars

-----------------------------------------------------------------------------
(* Type invariant. *)

\* The types of the variables; every table is well formed.
TypeOK ==
    /\ pool.holders \in [Block -> Nat]
    /\ pool.hash \in [Block -> Name]
    /\ pool.released_at \in [Block -> Nat]
    /\ pool.free \subseteq Block
    /\ \A n \in DOMAIN pool.cached : n \in Name /\ pool.cached[n] \in Block
    /\ pool.clock \in Nat
    /\ table \in [Owner -> Table]
    /\ \A r \in Owner : WellFormed(table[r])
    /\ history \in [Owner -> Seq(Token)]
    /\ inflight \in [Owner -> Nat]
    /\ kv \in [Block -> [Offset -> Seq(Token)]]
    /\ prefix_cache \in BOOLEAN

-----------------------------------------------------------------------------
(* Safety. *)

Holding(r) == {table[r].blocks[i] : i \in DOMAIN table[r].blocks}
Holders(b) == {r \in Owner : b \in Holding(r)}

\* The free list is exactly the blocks nobody holds, and a block is held as
\* often as it is in tables, in none of them twice: none is leaked and none is
\* handed out twice, whatever was shared, released or claimed back in between
\* (blocks.rs allocate, acquire_cached, release).
HoldersCountTables ==
    /\ \A b \in Block :
         /\ pool.holders[b] = Cardinality(Holders(b))
         /\ b \in pool.free <=> pool.holders[b] = 0
    /\ \A r \in Owner : \A i, j \in DOMAIN table[r].blocks :
         table[r].blocks[i] = table[r].blocks[j] => i = j

\* The index and the slots agree: a name leads to the block that carries it
\* and a named block is the one its name leads to, so forget never drops
\* another block's entry and publish never leaves a stale one (blocks.rs
\* publish, forget).
IndexMatchesSlots ==
    /\ \A n \in DOMAIN pool.cached : n # NoName /\ pool.hash[pool.cached[n]] = n
    /\ \A b \in Block : pool.hash[b] # NoName =>
          pool.hash[b] \in DOMAIN pool.cached /\ pool.cached[pool.hash[b]] = b

\* What a table says it has computed, its blocks really hold: every committed
\* position of every sequence carries the keys and values of that sequence's
\* own history, although blocks are shared, evicted, reused and spoiled by
\* failed passes all the time.
TablesHoldTheirHistory ==
    \A r \in Owner :
        /\ table[r].tokens <= Len(history[r])
        /\ Holds(kv, table[r], SubSeq(history[r], 1, table[r].tokens))

\* A named block holds what its name says, so a sequence that claims it reads
\* the prefix it was looking for, whoever computed it and however long ago.
NamedBlocksHoldTheirName ==
    \A b \in Block : pool.hash[b] # NoName =>
        LET n == pool.hash[b] IN
        /\ Len(n) % BlockSize = 0
        /\ \A o \in Offset :
             kv[b][o] = SubSeq(n, 1, Len(n) - BlockSize + o + 1)

\* The blocks a table has not named yet are its alone and carry no name.  A
\* sequence writes only into those, so no pass can change what another
\* sequence, or a later one, reads.
UnnamedBlocksAreOwn ==
    \A r \in Owner : \A i \in DOMAIN table[r].blocks :
        i > Len(table[r].hashes) =>
            /\ pool.hash[table[r].blocks[i]] = NoName
            /\ \A s \in Owner \ {r} : table[r].blocks[i] \notin Holding(s)

\* free_table gives a table back block by block, and what it leaves is one
\* step: no block is in the table twice and somebody counts each of them, so no
\* release disturbs the next (blocks.rs free_table, release).
FreeTableIsTheLoop ==
    \A r \in Owner :
        ReleaseAll(pool, table[r].blocks) = FreeLoop(pool, table[r].blocks)

\* newly_full names one block after the other, each from the name before it,
\* and commit publishes them in that order.  What they leave is one step: no
\* name of the chain comes twice and no block does, so a publish that finds its
\* name taken never meets one of its own (blocks.rs newly_full, publish).
PublishFullIsTheLoop ==
    \A r \in Owner :
        LET t == Advance(table[r], inflight[r]) IN
        PublishLoop(pool, t, history[r]) =
            [pool |-> PublishFull(pool, t, history[r]),
             table |-> NameFull(t, history[r])]

-----------------------------------------------------------------------------
(* Action properties. *)

\* While anybody holds a full block its content stays what it is: only a
\* block that went through the free list is ever written again.
HeldContentIsStable ==
    [][\A r \in Owner : \A i \in DOMAIN table[r].blocks :
          i * BlockSize <= table[r].tokens /\ table'[r].blocks # <<>>
             => kv'[table[r].blocks[i]] = kv[table[r].blocks[i]]]_vars
=============================================================================
