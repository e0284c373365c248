------------------------------- MODULE Forward -------------------------------
(***************************************************************************)
(* A pass of the model, layer by layer, over the paged cache: the batch    *)
(* built from the tables (batch.rs), what every layer writes and reads     *)
(* (model/attention.rs, model/mod.rs), the logits picked out at the end    *)
(* and the tokens drawn from them (server engine.rs, sample).              *)
(*                                                                         *)
(* The arithmetic is abstracted to what it depends on.  A hidden state is  *)
(* the token prefix it was computed from, Garbage when that is not one     *)
(* prefix.  A key and its value are one vector with the rotary position,   *)
(* the head and the hidden state it was computed from.  Attention over the *)
(* vectors of positions 0..p of one history gives that prefix, whatever    *)
(* order they come in, and Garbage over anything else.                     *)
(*                                                                         *)
(* Definitions named Slip... say what a plausible slip would make of the   *)
(* definition that follows them; each is caught by a property.             *)
(***************************************************************************)
EXTENDS Blocks, Sampler

CONSTANTS
    Owner,         \* the sequences
    Prompt,        \* owner -> its prompt
    MostTokens,    \* owner -> the length at which its history is finished
    Settings,      \* owner -> how its tokens are chosen
    Stream,        \* owner -> the draws its generator gives, one after the other
    Logits(_),     \* the weights the model gives the tokens after a prefix
    Layers,        \* decoder layers
    KvHeads        \* key/value heads

ASSUME ForwardAssumption ==
    /\ IsFiniteSet(Owner)
    /\ Prompt \in [Owner -> Seq(Token) \ {<<>>}]
    /\ Settings \in [Owner -> Sampling]
    /\ Layers \in Nat \ {0, 1} /\ KvHeads \in Nat \ {0}

\* The output layer weighs every token of the vocabulary after any prefix a
\* sequence can have, and a generator has a draw for every token asked of it.
ASSUME ModelAssumption ==
    /\ Token # {} /\ Token = 1..Cardinality(Token)
    /\ \A r \in Owner :
         /\ MostTokens[r] \in Nat /\ Len(Prompt[r]) <= MostTokens[r]
         /\ \A i \in 1..(MostTokens[r] - Len(Prompt[r])) : Stream[r][i] \in 0..(Draws - 1)
         /\ \A n \in 1..MostTokens[r] : \A prefix \in [1..n -> Token] :
              Logits(prefix) \in Seq(Nat) /\ DOMAIN Logits(prefix) = Token

VARIABLES
    pool, table, history, inflight, prefix_cache,   \* as in PagedKV
    attention,  \* which implementation reads the cache
    keys,       \* layer -> block -> offset -> head -> vector
    torn,       \* slots a pass wrote in some layers and not in all (auxiliary)
    pass,       \* the pass the model is running, or NoPass
    sampled,    \* owner -> the token drawn for it, not yet committed
    draws,      \* owner -> draws its generator has given
    ended       \* owners a failed pass took down

vars == <<pool, table, history, inflight, prefix_cache, attention, keys, torn,
          pass, sampled, draws, ended>>
modelvars == <<attention, keys, torn, pass, draws, ended>>

KvHead == 1..KvHeads
NoPass == <<>>
Last(s) == s[Len(s)]
Entries(seq) == {seq[i] : i \in 1..Len(seq)}

-----------------------------------------------------------------------------
(* The batch. *)

\* One row per table, the next seq tokens of each (Batch::new).
Rectangle(rs, seq) ==
    [i \in 1..(Len(rs) * seq) |->
        LET r == rs[(i - 1) \div seq + 1]
            pos == table[r].tokens + ((i - 1) % seq)
        IN  [table |-> table[r], pos |-> pos, token |-> history[r][pos + 1]]]

\* One row per token: the next token of each of rs, then the slice of s.
Unfolded(rs, s, take) ==
    Rectangle(rs, 1) \o
    [i \in 1..take |-> LET pos == table[s].tokens + i - 1 IN
        [table |-> table[s], pos |-> pos, token |-> history[s][pos + 1]]]

Start(entries, seq, row) == entries[(row - 1) * seq + 1].pos
Longest(entries, seq) ==
    CHOOSE n \in {e.pos + 1 : e \in Entries(entries)} :
        \A e \in Entries(entries) : e.pos + 1 <= n

\* The blocks a row reads, as many as the longest row, its own first one over
\* and over behind its last.
ReadRow(t, width) ==
    [i \in 1..width |-> IF i <= Len(t.blocks) THEN t.blocks[i] ELSE t.blocks[1]]

BatchOf(entries, seq, logit_rows) ==
    LET width == CeilDiv(Longest(entries, seq), BlockSize)
        rows == 1..(Len(entries) \div seq)
    IN  [tokens |-> [i \in 1..Len(entries) |-> entries[i].token],
         write_slots |-> [i \in 1..Len(entries) |->
             <<SlotBlock(entries[i].table, entries[i].pos),
               entries[i].pos % BlockSize>>],
         read_blocks |-> [row \in rows |->
             ReadRow(entries[(row - 1) * seq + 1].table, width)],
         starts |-> [row \in rows |-> Start(entries, seq, row)],
         seq |-> seq,
         longest |-> Longest(entries, seq),
         logit_rows |-> logit_rows]

\* The row of a token of the batch and its place in the row.
RowOf(batch, i) == (i - 1) \div batch.seq + 1
OffsetOf(batch, i) == (i - 1) % batch.seq
Position(batch, i) == batch.starts[RowOf(batch, i)] + OffsetOf(batch, i)

-----------------------------------------------------------------------------
(* The cache. *)

Zero(h) == [at |-> 0, head |-> h, of |-> Garbage]

\* Which token's vector of which head lands in head h of token i: the vectors
\* come head-major, rows by heads by tokens, and are turned token-major.
SlipNotTransposed(batch, i, h) ==
    LET flat == (i - 1) * KvHeads + h - 1
        row == flat \div (KvHeads * batch.seq)
    IN  <<row * batch.seq + (flat % batch.seq) + 1, ((flat \div batch.seq) % KvHeads) + 1>>
Landing(batch, i, h) == <<i, h>>

\* write: the slot of every token gets its vectors.
Write(layer_keys, batch, x) ==
    LET slot(i) == batch.write_slots[i]
        vector(i, h) == [at |-> Position(batch, i), head |-> h, of |-> x[i]]
        written == 1..Len(x)
    IN  [b \in Block |-> [o \in Offset |->
          IF <<b, o>> \notin {slot(i) : i \in written} THEN layer_keys[b][o]
          ELSE LET i == CHOOSE j \in written : slot(j) = <<b, o>>
               IN  [h \in KvHead |->
                     LET from == Landing(batch, i, h) IN vector(from[1], from[2])]]]

\* The slot of a position of a row, through the blocks the row reads.
ReadAt(layer_keys, batch, row, p) ==
    layer_keys[batch.read_blocks[row][p \div BlockSize + 1]][p % BlockSize]

\* What the mask lets token i see of the rectangle every row shares.
Unmasked(batch, i) == {p \in 0..(batch.longest - 1) : p <= Position(batch, i)}

\* What the kernel walks: context_lens, one more than the start of the row,
\* whose one token is i.
Walked(batch, i) == 0..batch.starts[i]

Visible(batch, i) ==
    IF attention = "kernel" /\ batch.seq = 1 THEN Walked(batch, i)
    ELSE Unmasked(batch, i)

\* What a head of attention makes of the vectors it reads.
Attended(read, layer, h) ==
    LET n == Cardinality(DOMAIN read)
        at(p) == CHOOSE q \in DOMAIN read : read[q].at = p
        of(p) == read[at(p)].of
        prefix == [p \in 1..n |-> Last(of(p - 1))]
    IN  IF /\ {read[q].at : q \in DOMAIN read} = 0..(n - 1)
           /\ \A q \in DOMAIN read : read[q].head = h /\ read[q].of # Garbage
           /\ \A p \in 1..n :
                of(p - 1) = IF layer = 1 THEN <<prefix[p]>> ELSE SubSeq(prefix, 1, p)
        THEN prefix
        ELSE Garbage

\* The hidden state of token i after a layer: what its heads agree on, when it
\* continues what the token brought along.
Hidden(layer_keys, layer, batch, x, i) ==
    LET read(h) == [p \in Visible(batch, i) |->
                      ReadAt(layer_keys, batch, RowOf(batch, i), p)[h]]
        results == {Attended(read(h), layer, h) : h \in KvHead}
        prefix == CHOOSE s \in results : TRUE
    IN  IF /\ results = {prefix} /\ Len(prefix) = Position(batch, i) + 1
           /\ x[i] # Garbage /\ Last(prefix) = Last(x[i])
        THEN prefix ELSE Garbage

-----------------------------------------------------------------------------
(* Between passes the scheduler moves blocks and tables about. *)

\* What the slots hold once every layer has been written.
Contents ==
    LET spells(b, o, prefix) ==
            \A l \in 1..Layers, h \in KvHead :
                keys[l][b][o][h] =
                  [at |-> Len(prefix) - 1, head |-> h,
                   of |-> IF l = 1 THEN <<Last(prefix)>> ELSE prefix]
        prefix(b, o) == keys[Layers][b][o][1].of
    IN  [b \in Block |-> [o \in Offset |->
          IF /\ <<b, o>> \notin torn /\ prefix(b, o) # Garbage
             /\ spells(b, o, prefix(b, o))
          THEN prefix(b, o) ELSE Garbage]]

KV == INSTANCE PagedKV WITH
        Prompts <- {Prompt[r] : r \in Owner},
        kv <- Contents

Init ==
    /\ pool = NewPool
    /\ table = [r \in Owner |-> NewTable]
    /\ history = Prompt
    /\ inflight = [r \in Owner |-> 0]
    /\ prefix_cache \in BOOLEAN
    /\ attention \in {"tensor", "kernel"}
    /\ keys = [l \in 1..Layers |-> [b \in Block |-> [o \in Offset |->
                 [h \in KvHead |-> Zero(h)]]]]
    /\ torn = {}
    /\ pass = NoPass
    /\ sampled = [r \in {} |-> 0]
    /\ draws = [r \in Owner |-> 0]
    /\ ended = {}

\* The engine thread is between two passes, everything committed.
Between ==
    pass = NoPass /\ DOMAIN sampled = {} /\ \A r \in Owner : inflight[r] = 0

Left(r) == Len(history[r]) - table[r].tokens
Runs(r) == r \notin ended /\ Len(history[r]) < MostTokens[r]

\* A sequence takes the blocks others left it, or one more, or loses them all.
Claim(r) == Between /\ Runs(r) /\ UNCHANGED <<modelvars, sampled>> /\ KV!Claim(r)
Grow(r) ==
    /\ Between /\ Runs(r)
    /\ Capacity(table[r]) < Len(history[r])
    /\ UNCHANGED <<modelvars, sampled>>
    /\ KV!Grow(r)
Free(r) ==
    /\ Between /\ table[r].blocks # <<>>
    /\ UNCHANGED <<modelvars, sampled>>
    /\ KV!Free(r)

-----------------------------------------------------------------------------
(* The pass. *)

Begin(batch, n, ids) ==
    /\ Between
    /\ pass' = [batch |-> batch, n |-> n, ids |-> ids, layer |-> 0,
                x |-> [i \in DOMAIN batch.tokens |-> <<batch.tokens[i]>>]]
    /\ UNCHANGED <<pool, table, history, inflight, prefix_cache, attention, keys,
                   torn, sampled, draws, ended>>

\* Everything a sequence has left, in one rectangle of one row.
Prefill(r) ==
    /\ Runs(r) /\ Left(r) \in KV!Runnable(r)
    /\ Begin(BatchOf(Rectangle(<<r>>, Left(r)), Left(r), <<Left(r)>>),
             [o \in {r} |-> Left(r)], <<r>>)

\* Sequences in the order they were admitted in, one token left of each.
Decoders ==
    {rs \in UNION {[1..k -> Owner] : k \in 0..Cardinality(Owner)} :
        /\ \A i, j \in DOMAIN rs : i # j => rs[i] # rs[j]
        /\ \A i \in DOMAIN rs :
             Runs(rs[i]) /\ Left(rs[i]) = 1 /\ 1 \in KV!Runnable(rs[i])}

Decode(rs) ==
    /\ rs # <<>>
    /\ Begin(BatchOf(Rectangle(rs, 1), 1, [i \in DOMAIN rs |-> i]),
             [r \in Entries(rs) |-> 1], rs)

\* The rows whose logits are wanted: a slice asks for its last, and only when
\* it is the last of its prompt.
SlipSliceFirst(decodes, take) == decodes + 1
SliceRow(decodes, take) == decodes + take

Mixed(rs, s, take) ==
    LET last == take = Left(s)
        decodes == [i \in DOMAIN rs |-> i]
    IN  /\ Runs(s) /\ s \notin Entries(rs) /\ take \in KV!Runnable(s)
        /\ Begin(BatchOf(Unfolded(rs, s, take), 1,
                         IF last THEN Append(decodes, SliceRow(Len(rs), take))
                         ELSE decodes),
                 [r \in Entries(rs) \cup {s} |-> IF r = s THEN take ELSE 1],
                 IF last THEN Append(rs, s) ELSE rs)

\* One layer: the new vectors are written, then the attention reads.
Layer ==
    /\ pass # NoPass
    /\ pass.layer < Layers
    /\ LET l == pass.layer + 1
           batch == pass.batch
           written == Write(keys[l], batch, pass.x)
       IN  /\ keys' = [keys EXCEPT ![l] = written]
           /\ pass' = [pass EXCEPT
                !.layer = l,
                !.x = [i \in DOMAIN @ |-> Hidden(written, l, batch, @, i)]]
           /\ torn' = IF l = Layers THEN torn \ Entries(batch.write_slots)
                      ELSE torn \cup Entries(batch.write_slots)
    /\ UNCHANGED <<pool, table, history, inflight, prefix_cache, attention,
                   sampled, draws, ended>>

\* The wanted rows become weights, and each sequence draws from its own.
Finish ==
    /\ pass # NoPass
    /\ pass.layer = Layers
    /\ LET ids == pass.ids
           weights(k) == Logits(pass.x[pass.batch.logit_rows[k]])
           token(k) == Draw(weights(k), Settings[ids[k]],
                            Stream[ids[k]][draws[ids[k]] + 1])
           place(r) == CHOOSE k \in DOMAIN ids : ids[k] = r
       IN  /\ sampled' = [r \in Entries(ids) |-> token(place(r))]
           /\ draws' = [r \in Owner |->
                IF r \in Entries(ids) /\ ~ Settings[r].greedy
                THEN draws[r] + 1 ELSE draws[r]]
    /\ inflight' = [r \in Owner |-> IF r \in DOMAIN pass.n THEN pass.n[r] ELSE 0]
    /\ pass' = NoPass
    /\ UNCHANGED <<pool, table, history, prefix_cache, attention, keys, torn, ended>>

\* The device fails before, between or after the layers: every sequence of the
\* pass is taken down, and its slots keep what was written.
Fail ==
    /\ pass # NoPass
    /\ ended' = ended \cup DOMAIN pass.n
    /\ pass' = NoPass
    /\ UNCHANGED <<pool, table, history, inflight, prefix_cache, attention, keys,
                   torn, sampled, draws>>

\* commit: the tables move on, then the tokens join their histories.
Commit(r) == UNCHANGED <<modelvars, sampled>> /\ KV!Commit(r)
Extend(r) ==
    /\ r \in DOMAIN sampled
    /\ \A s \in Owner : inflight[s] = 0
    /\ history' = [history EXCEPT ![r] = Append(@, sampled[r])]
    /\ sampled' = [s \in DOMAIN sampled \ {r} |-> sampled[s]]
    /\ UNCHANGED <<pool, table, inflight, prefix_cache, modelvars>>

Next ==
    \/ \E r \in Owner : Claim(r) \/ Grow(r) \/ Free(r) \/ Commit(r) \/ Extend(r)
    \/ \E r \in Owner : Prefill(r)
    \/ \E rs \in Decoders : Decode(rs)
    \/ \E rs \in Decoders, s \in Owner : \E take \in KV!Runnable(s) : Mixed(rs, s, take)
    \/ Layer \/ Finish \/ Fail

Spec == Init /\ [][Next]_vars

-----------------------------------------------------------------------------
(* Properties. *)

\* The tensors are the cache of PagedKV: each layer's scatter and gather over
\* flat slots, padded blocks and head-major vectors adds up, once the last
\* layer is written, to every row having extended its own history, and a pass
\* that stops between two layers leaves only slots nobody has counted
\* (batch.rs PagedCache, attention.rs forward_batch).
ImplementsPagedKV == KV!Spec

\* The answer of a sequence running alone, token by token: what the model says
\* of its own history, chosen by its own settings from its own draws.
Alone(r) ==
    LET answer[n \in Len(Prompt[r])..MostTokens[r]] ==
          IF n = Len(Prompt[r]) THEN Prompt[r]
          ELSE Append(answer[n - 1],
                 Draw(Logits(answer[n - 1]), Settings[r],
                      Stream[r][n - Len(Prompt[r])]))
    IN  answer

\* A sequence is answered as if it were alone, whatever shares its passes, is
\* sliced next to it, evicts it or lends it blocks, and whatever failed before
\* it: one row too far, somebody else's padding or a draw taken twice would
\* change the text (engine.rs sample, batch.rs).
AnswersAreTheirOwn ==
    \A r \in Owner : history[r] = Alone(r)[Len(history[r])]
=============================================================================
