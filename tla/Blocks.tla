------------------------------- MODULE Blocks -------------------------------
(***************************************************************************)
(* The pool of key/value blocks and the block table of one sequence        *)
(* (crates/pagedllm/src/blocks.rs), as operators on two records.           *)
(*                                                                         *)
(* A block's name is the whole token prefix it ends: block_hash mixes the  *)
(* parent's name with the block's tokens, and the code relies on different *)
(* prefixes having different names.  NoName is the code's None.            *)
(*                                                                         *)
(* The free list is kept as a set.  Its order decides only which of the    *)
(* anonymous blocks is handed out, and they are interchangeable; eviction  *)
(* goes by released_at, which is kept.  The counters that only feed        *)
(* metrics are left out.                                                   *)
(*                                                                         *)
(* Definitions named Slip... say what a plausible slip would make of the   *)
(* definition that follows them; each is caught by a property.             *)
(***************************************************************************)
EXTENDS Integers, Sequences, FiniteSets

CONSTANTS
    Block,      \* the identifiers of the pool's blocks
    BlockSize,  \* tokens per block
    Token       \* the vocabulary

ASSUME BlocksAssumption ==
    /\ IsFiniteSet(Block)
    /\ BlockSize \in Nat \ {0}

Name == Seq(Token)
NoName == <<>>
BlockHash(parent, tokens) == parent \o tokens

CeilDiv(a, b) == (a + b - 1) \div b
AtMost(a, b) == IF a <= b THEN a ELSE b
AtLeast(a, b) == IF a >= b THEN a ELSE b

-----------------------------------------------------------------------------
(* The pool: BlockAllocator and its slots. *)

Index == UNION {[N -> Block] : N \in SUBSET Name}
Pool == [holders : [Block -> Nat], hash : [Block -> Name],
         released_at : [Block -> Nat], free : SUBSET Block,
         cached : Index, clock : Nat]

NewPool == [holders |-> [b \in Block |-> 0],
            hash |-> [b \in Block |-> NoName],
            released_at |-> [b \in Block |-> 0],
            free |-> Block,
            cached |-> [n \in {} |-> n],
            clock |-> 0]

Anonymous(p) == {b \in p.free : p.hash[b] = NoName}
LeastRecent(p) ==
    {b \in p.free : \A c \in p.free : p.released_at[b] <= p.released_at[c]}

\* The blocks allocate may return: an anonymous free block if there is one,
\* otherwise the free block released longest ago.  Empty when the pool is dry.
Allocatable(p) == IF Anonymous(p) # {} THEN Anonymous(p) ELSE LeastRecent(p)

\* The index without the entry of block b, if the entry is still b's.
Unindexed(p, b) ==
    [n \in {m \in DOMAIN p.cached : ~ (m = p.hash[b] /\ p.cached[m] = b)}
       |-> p.cached[n]]

SlipStaysFree(p, b) ==
    [p EXCEPT !.hash = [@ EXCEPT ![b] = NoName],
              !.cached = Unindexed(p, b),
              !.holders = [@ EXCEPT ![b] = 1]]
Allocate(p, b) ==
    [p EXCEPT !.free = @ \ {b},
              !.hash = [@ EXCEPT ![b] = NoName],
              !.cached = Unindexed(p, b),
              !.holders = [@ EXCEPT ![b] = 1]]

\* acquire_cached on every block of the set S.
SlipUncounted(p, S) == [p EXCEPT !.free = @ \ S]
SlipEvictable(p, S) ==
    [p EXCEPT !.holders = [b \in Block |-> IF b \in S THEN @[b] + 1 ELSE @[b]]]
AcquireCached(p, S) ==
    [p EXCEPT !.holders = [b \in Block |-> IF b \in S THEN @[b] + 1 ELSE @[b]],
              !.free = @ \ S]

Release(p, b) ==
    CASE p.holders[b] = 0 -> p
      [] p.holders[b] = 1 ->
           [p EXCEPT !.holders = [@ EXCEPT ![b] = 0],
                     !.clock = @ + 1,
                     !.released_at = [@ EXCEPT ![b] = p.clock + 1],
                     !.free = @ \cup {b}]
      [] OTHER -> [p EXCEPT !.holders = [@ EXCEPT ![b] = p.holders[b] - 1]]

\* release on each block of a table, in the table's order: the blocks nobody
\* else holds are freed, each with a later stamp than the one before it.
SlipTakenAlong(p, blocks) ==
    LET taken == {blocks[i] : i \in DOMAIN blocks}
    IN  [p EXCEPT !.holders = [b \in Block |-> IF b \in taken THEN 0 ELSE @[b]],
                  !.free = @ \cup taken]
SlipNamedNotFreed(p, blocks) ==
    LET taken == {blocks[i] : i \in DOMAIN blocks}
    IN  [p EXCEPT !.holders = [b \in Block |->
                      IF b \in taken THEN AtLeast(@[b] - 1, 0) ELSE @[b]],
                  !.free = @ \cup {b \in taken :
                      p.holders[b] = 1 /\ p.hash[b] = NoName}]
SlipOneStamp(p, blocks) ==
    LET last == {i \in DOMAIN blocks : p.holders[blocks[i]] = 1}
        freed == {blocks[i] : i \in last}
        taken == {blocks[i] : i \in DOMAIN blocks}
    IN  [p EXCEPT
           !.holders = [b \in Block |->
               IF b \in taken THEN AtLeast(@[b] - 1, 0) ELSE @[b]],
           !.clock = @ + Cardinality(last),
           !.released_at = [b \in Block |->
               IF b \in freed THEN p.clock + Cardinality(last) ELSE @[b]],
           !.free = @ \cup freed]
ReleaseAll(p, blocks) ==
    LET last == {i \in DOMAIN blocks : p.holders[blocks[i]] = 1}
        rank(b) == Cardinality({j \in last :
                      \E i \in last : blocks[i] = b /\ j <= i})
        freed == {blocks[i] : i \in last}
        taken == {blocks[i] : i \in DOMAIN blocks}
    IN  [p EXCEPT
           !.holders = [b \in Block |->
               IF b \in taken THEN AtLeast(@[b] - 1, 0) ELSE @[b]],
           !.clock = @ + Cardinality(last),
           !.released_at = [b \in Block |->
               IF b \in freed THEN p.clock + rank(b) ELSE @[b]],
           !.free = @ \cup freed]

\* The loop itself: one release after the other.
FreeLoop(p, blocks) ==
    LET after[n \in 0..Len(blocks)] ==
          IF n = 0 THEN p ELSE Release(after[n - 1], blocks[n])
    IN  after[Len(blocks)]

\* publish of one block: a name another block already carries stays with it.
SlipSteals(p, b, n) == TRUE
Publishable(p, b, n) == n \in DOMAIN p.cached => p.cached[n] = b
Publish(p, b, n) ==
    IF Publishable(p, b, n)
    THEN [p EXCEPT !.hash = [@ EXCEPT ![b] = n],
                   !.cached = [m \in DOMAIN @ \cup {n} |->
                                 IF m = n THEN b ELSE @[m]]]
    ELSE p

ClearCache(p) ==
    [p EXCEPT !.hash = [b \in Block |-> NoName], !.cached = [n \in {} |-> n]]

-----------------------------------------------------------------------------
(* The block table of one sequence: BlockTable. *)

Table == [blocks : Seq(Block), tokens : Nat, hashes : Seq(Name)]
NewTable == [blocks |-> <<>>, tokens |-> 0, hashes |-> <<>>]

Capacity(t) == Len(t.blocks) * BlockSize
\* A table whose named blocks are full and whose tokens have slots.
WellFormed(t) ==
    /\ Len(t.hashes) <= Len(t.blocks)
    /\ Len(t.hashes) * BlockSize <= t.tokens
    /\ t.tokens <= Capacity(t)

BlocksNeeded(t, count) ==
    CeilDiv(AtLeast(t.tokens + count - Capacity(t), 0), BlockSize)
Push(t, b) == [t EXCEPT !.blocks = Append(@, b)]
LastHash(t) == IF t.hashes = <<>> THEN NoName ELSE t.hashes[Len(t.hashes)]

\* commit discards the error advance returns when the table is too small.
Advance(t, count) ==
    IF t.tokens + count > Capacity(t) THEN t
    ELSE [t EXCEPT !.tokens = @ + count]

\* How many of the table's blocks newly_full leaves named.
SlipRoundsUp(t, history) ==
    AtLeast(Len(t.hashes),
            AtMost(AtMost(CeilDiv(t.tokens, BlockSize), Len(t.blocks)),
                   Len(history) \div BlockSize))
Full(t, history) ==
    AtLeast(Len(t.hashes),
            AtMost(AtMost(t.tokens \div BlockSize, Len(t.blocks)),
                   Len(history) \div BlockSize))

\* The name newly_full gives block i: the chain from the last name on.
SlipNoParent(t, history, i) ==
    IF i <= Len(t.hashes) THEN t.hashes[i]
    ELSE SubSeq(history, (i - 1) * BlockSize + 1, i * BlockSize)
FullName(t, history, i) ==
    IF i <= Len(t.hashes) THEN t.hashes[i]
    ELSE BlockHash(LastHash(t),
                   SubSeq(history, Len(t.hashes) * BlockSize + 1, i * BlockSize))

NameFull(t, history) ==
    [t EXCEPT !.hashes =
        [i \in 1..Full(t, history) |-> FullName(t, history, i)]]

\* publish on each (block, name) pair newly_full returns.  The names are of
\* different lengths, so no publish of the list is affected by another.
Published(p, t, history) ==
    {i \in (Len(t.hashes) + 1)..Full(t, history) :
        Publishable(p, t.blocks[i], FullName(t, history, i))}
PublishFull(p, t, history) ==
    LET new == Published(p, t, history)
        named == {FullName(t, history, i) : i \in new}
        at(b) == CHOOSE i \in new : t.blocks[i] = b
        of(n) == CHOOSE i \in new : FullName(t, history, i) = n
    IN  [p EXCEPT
           !.hash = [b \in Block |->
               IF b \in {t.blocks[i] : i \in new}
               THEN FullName(t, history, at(b)) ELSE @[b]],
           !.cached = [n \in DOMAIN @ \cup named |->
               IF n \in named THEN t.blocks[of(n)] ELSE @[n]]]

\* The two loops themselves.  Every turn names the first unnamed block from the
\* name before it and publishes it, as long as the block is full and the history
\* has its tokens.
FillsNext(t, history) ==
    /\ Len(t.hashes) < AtMost(t.tokens \div BlockSize, Len(t.blocks))
    /\ (Len(t.hashes) + 1) * BlockSize <= Len(history)
NextName(t, history) ==
    BlockHash(LastHash(t), SubSeq(history, Len(t.hashes) * BlockSize + 1,
                                  (Len(t.hashes) + 1) * BlockSize))
Turn(u, history) ==
    IF FillsNext(u.table, history)
    THEN [pool |-> Publish(u.pool, u.table.blocks[Len(u.table.hashes) + 1],
                           NextName(u.table, history)),
          table |-> [u.table EXCEPT !.hashes = Append(@, NextName(u.table, history))]]
    ELSE u
PublishLoop(p, t, history) ==
    LET after[n \in 0..Len(t.blocks)] ==
          IF n = 0 THEN [pool |-> p, table |-> t] ELSE Turn(after[n - 1], history)
    IN  after[Len(t.blocks)]

-----------------------------------------------------------------------------
(* Claiming a prefix another sequence left behind (Scheduler::claim_prefix). *)

\* Never the last block of the prompt, even when it is full.
SlipWholePrompt(prompt) == Len(prompt) \div BlockSize
Candidates(prompt) == AtLeast(CeilDiv(Len(prompt), BlockSize) - 1, 0)
PrefixName(prompt, i) == SubSeq(prompt, 1, i * BlockSize)
Resident(p, prompt, i) == PrefixName(prompt, i) \in DOMAIN p.cached

\* The walk over the prompt's blocks takes k of them and stops at a miss.
Claims(p, prompt, k) ==
    /\ k \in 0..Candidates(prompt)
    /\ \A i \in 1..k : Resident(p, prompt, i)
    /\ k < Candidates(prompt) => ~ Resident(p, prompt, k + 1)

ClaimPool(p, prompt, k) ==
    AcquireCached(p, {p.cached[PrefixName(prompt, i)] : i \in 1..k})
SlipUnadvanced(p, t, prompt, k) ==
    [blocks |-> t.blocks \o [i \in 1..k |-> p.cached[PrefixName(prompt, i)]],
     tokens |-> t.tokens,
     hashes |-> t.hashes \o [i \in 1..k |-> PrefixName(prompt, i)]]
ClaimTable(p, t, prompt, k) ==
    [blocks |-> t.blocks \o [i \in 1..k |-> p.cached[PrefixName(prompt, i)]],
     tokens |-> t.tokens + k * BlockSize,
     hashes |-> t.hashes \o [i \in 1..k |-> PrefixName(prompt, i)]]

-----------------------------------------------------------------------------
(* What the blocks hold.  The keys and values of a position depend on every *)
(* token up to it, so the content of a slot is that token prefix, and       *)
(* Garbage when the slot is unwritten or was computed from anything else.   *)

Offset == 0..(BlockSize - 1)
Garbage == <<>>

\* The slot of a position (slot_of), defined for positions below the capacity.
HasSlot(t, pos) == pos \div BlockSize < Len(t.blocks)
SlotBlock(t, pos) == t.blocks[pos \div BlockSize + 1]
Content(kv, t, pos) == kv[SlotBlock(t, pos)][pos % BlockSize]

\* Positions 0..Len(prefix)-1 of the table hold exactly this prefix.
Holds(kv, t, prefix) ==
    \A q \in 0..(Len(prefix) - 1) :
        HasSlot(t, q) /\ Content(kv, t, q) = SubSeq(prefix, 1, q + 1)

\* A row of a pass: tokens to run from a position on, through a block table.
\* What its attention reads below that position.
Context(kv, row) ==
    IF row.pos = 0 THEN <<>> ELSE Content(kv, row.table, row.pos - 1)
ReadsPrefix(kv, row) ==
    /\ Len(Context(kv, row)) = row.pos
    /\ Holds(kv, row.table, Context(kv, row))

Writes(row, b, o) ==
    \E q \in row.pos..(row.pos + Len(row.tokens) - 1) :
        SlotBlock(row.table, q) = b /\ q % BlockSize = o
WrittenAt(row, b, o) ==
    CHOOSE q \in row.pos..(row.pos + Len(row.tokens) - 1) :
        SlotBlock(row.table, q) = b /\ q % BlockSize = o
Written(kv, row, b, o) ==
    IF ReadsPrefix(kv, row)
    THEN Context(kv, row)
           \o SubSeq(row.tokens, 1, WrittenAt(row, b, o) - row.pos + 1)
    ELSE Garbage

\* The pool after a pass over a set of rows.
RunPass(kv, rows) ==
    [b \in Block |-> [o \in Offset |->
        IF \E row \in rows : Writes(row, b, o)
        THEN Written(kv, CHOOSE row \in rows : Writes(row, b, o), b, o)
        ELSE kv[b][o]]]

\* The pool after a pass that stopped part way: its slots hold no history.
SpoilPass(kv, rows) ==
    [b \in Block |-> [o \in Offset |->
        IF \E row \in rows : Writes(row, b, o) THEN Garbage ELSE kv[b][o]]]
=============================================================================
