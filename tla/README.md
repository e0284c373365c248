# A TLA+ model of paged-llm-rs

paged-llm-rs serves a language model from one thread. Keys and values of all
running sequences live in a pool of fixed-size blocks; a scheduler decides what
each forward pass carries, shares blocks between requests with a common prefix,
and evicts sequences when the pool runs dry. Handlers of an HTTP server hand it
requests and read its events. This directory models that machinery in TLA+, from
the command line down to the threads of the attention kernel, checks it with TLC
on small instances, and proves most of what is checked with TLAPS for every
instance.

`crates/pagedllm/src` is written `core/` below, `crates/pagedllm-server/src` is
`server/`.

## Contents

| module | what it is |
|---|---|
| `Blocks` | the block pool, one sequence's block table, and what the slots hold, as operators on records (`core/blocks.rs`, `claim_prefix` and `commit` of `core/scheduler.rs`, the write and read of a pass) |
| `PagedKV` | the paged cache under *any* schedule: each owner claims, grows, runs, commits, samples and frees whenever it likes. What the scheduler may rely on, and the abstract specification two modules are checked against |
| `Generation` | what a caller sees of a request: an answer that grows and then ends once. The second abstract specification |
| `Scheduler` | `core/scheduler.rs` as the engine thread of `server/engine.rs` drives it, loop iteration by loop iteration; refines `PagedKV` and `Generation` |
| `Sampler` | `core/sampler.rs`: the candidates and the draw, as operators |
| `Forward` | one pass over tensors: `core/batch.rs`, the attention and the layers of `core/model/`, the wanted rows, `sample` of `server/engine.rs`; refines `PagedKV` |
| `Kernel` | `core/kernels/paged_attention.metal` and its port `.cu`: the threads of one group, barrier by barrier, against the scalar reference of `paged_attention.rs` |
| `Decoder` | the incremental decoder of `core/tokenizer.rs`, as operators |
| `Engine` | the engine thread between the HTTP handlers and the scheduler: channels, the client map, decoders, clients that hang up, the end of the thread |
| `Server` | `server/main.rs`, `Engine::start`, `server/routes.rs`, `server/openai.rs` and the configuration: what is sized at the start, and what the handlers let through |
| `MCPagedKV`, `MCScheduler`, `MCForward`, `MCKernel`, `MCEngine`, `MCServer` | constants, bounds and symmetry for TLC; `MCForward` also holds what sampling settings ask of a token |
| `BlocksProofs` | lemmas about the operators of `Blocks` |
| `PagedKVProofs` | type correctness and the pool invariants of `PagedKV`, and what its blocks hold, proved |
| `SchedulerProofs` | the scheduler's queues and plans, and that it implements `PagedKV`, proved |
| `AnswersProofs` | what the scheduler tells its caller, whom a pass carries, when the engine sleeps, and that it implements `Generation`, proved |
| `EngineProofs` | the engine's map of clients, what its handlers are told, and that the texts sent are those of the answers, proved |
| `ForwardProofs` | that `Forward` implements `PagedKV`, that every sequence is answered as if it were alone, and that a draw is a token, proved |
| `KernelProofs` | that no two threads of the kernel race, proved |
| `ServerProofs` | the invariants of `Server`, proved |

```
Server    what may be asked for            Engine    who is told what
   |  sizes, limits, settings                 |  uses Decoder
   v                                          v
Scheduler --refines--> Generation <-- stands for the scheduler in Engine
   |
   +------refines--> PagedKV <--refines-- Forward --uses--> Sampler
                        |  is built from Blocks  |
                                                 +-- one head of one row: Kernel
```

To check a run: `tlc -config MCChunked.cfg MCScheduler`. To check the proofs of a
module: `tlapm SchedulerProofs.tla`. `PROJECT.json` lists the runs, the source lines every
definition stands for, a mutant of the code for every property, the hazards and
the findings. Definitions named `Slip...` are those mutants: what a plausible
slip would make of the definition below them. Nothing else refers to them.

## Inventory of the system

**Block pool** (`core/blocks.rs`, `BlockAllocator`). State: per block the number
of holders, its name and when it was last released; the free list; the index
from names to blocks; a clock. Operations: `allocate` (an anonymous free block,
else the free block released longest ago, which loses its name),
`acquire_cached`, `publish`, `release`, `free_table`, `clear_cache`. Called by
the scheduler only. Hard: reference counts over shared blocks, an index that
must follow every reuse, blocks that are free and cached at once. Correct when
no block is lost or given out twice, and a name always leads to a block that
still holds what the name says.

**Block table** (`core/blocks.rs`, `BlockTable`). State: the blocks of a
sequence, how many tokens were written, the names of its full blocks.
Operations: `push`, `push_cached`, `advance`, `newly_full`, `take_blocks`,
`slot_of`. Hard: tokens, blocks and names advance at different moments, and the
caller ignores `advance`'s error. Correct when tokens have slots and names are
those of full blocks.

**Cache and pass** (`core/batch.rs`, `core/model/`). State: the keys and values
of every slot, per layer and head, in flat tensors. A pass lays the rows of
several sequences out as one batch, writes the new tokens' slots layer by layer
and reads through the blocks of each row, padded to the longest. Hard: it may
fail between two layers; keys arrive head-major and are kept token-major;
padding and other rows' slots must stay out of sight; the wanted rows are found
again by their index. Correct when what a table says is computed really is that
sequence's own history, and every sequence is answered as if it were alone.

**Kernel** (`core/kernels/`). State: the scores and the reduction scratch in
on-chip memory, shared by the threads of a group. Hard: where the barriers
stand, idle threads and lanes, shuffles past the end. Correct when no two
threads race, all return, and the output is that of the scalar reference.

**Sampler** (`core/sampler.rs`). State: a generator of draws per sequence.
Correct when only tokens the settings leave are drawn, each as often as its
weight says, and a sequence takes one draw per token.

**Scheduler** (`core/scheduler.rs`). State: the waiting queue, the running set,
the pool, and per sequence its history, pending tokens, prompt still to run and
finish reason. Operations: `submit`, `cancel`, `plan` (refuse, a mixed pass with
chunked prefill, or a whole prompt without, or a decode with evictions),
`commit`, `abort`, `set_prefix_cache`, `set_chunk`. Hard: `plan` has side
effects that survive when it changes its mind; indexes are kept across removals;
evicted sequences come back through the same queue; liveness under mutual
eviction. Correct when every request is somewhere exactly once, every pass
continues the right histories, and every request ends with an answer that fits.

**Engine** (`server/engine.rs`). One thread: drain the job channel, plan, run,
sample, commit, send events; block on the channel when the plan is idle. State:
the scheduler and a map of clients with their event channels and incremental
decoders. Hard: clients that disconnect between any two sends, a decoder that
fails or holds text back, a failed pass, entries that stay in the map, work left
behind an idle plan, the end of the thread. Interacts with the routes through
two channels. Correct when whoever stays is told everything once, and nobody is
waited for in vain.

**Decoder** (`core/tokenizer.rs`). Per client the tokens so far and how many
bytes were sent. Hard: characters spread over tokens. Correct when what was sent
is never taken back.

**Routes** (`server/routes.rs`, `server/openai.rs`). Refuse what is not
supported, check that prompt and `max_tokens` fit one sequence (`budget`),
validate the sampling, submit, then collect or stream the events. Correct when
what is let through fits to its last token and is what was asked for.

**Start** (`server/main.rs`, `Engine::start`, `core/config.rs`). Sizes the pool
from a budget in bytes and bounds the context by the pool, the rotary table and
the kernel's memory. Hard: three limits from three places, each rounded in its
own way.

**Tokenizer, layers and weights, chat template, error types, scripts**:
computation, parsing or I/O; see "Not modelled".

Concurrency in this program is between requests inside one thread, and between
that thread and the asynchronous handlers through channels. Nothing is
persisted, so there is no crash recovery; there are no timeouts and no retries.

## How the model corresponds to the code

### Names, contents, and what is abstracted

A block's *name* is modelled as the token prefix it ends, since `block_hash`
mixes the parent's name with the block's tokens; two prefixes with the same
64-bit hash are assumed not to occur, as `blocks.rs:48` does. The *content* of a
slot is the token prefix it was computed from, because keys and values of a
position depend on every token up to it; a slot written by a pass that failed,
or by a row that read anything other than its own prefix, holds `Garbage`. That
makes "reads the right keys and values" a statement about prefixes, which TLC
can check at every slot.

The free list is a set: its order only selects among anonymous blocks, which are
interchangeable, and eviction goes by `released_at`, which is kept. Metrics are
left out. A sampled token is any token.

`ReleaseAll` and `PublishFull` state in closed form what the code does in a loop
over a table's blocks. `FreeLoop` and `PublishLoop` take the one-block operators
`Release` and `Publish` turn by turn, with the conditions of the code's `while`,
and the properties `FreeTableIsTheLoop` and `PublishFullIsTheLoop` compare the two
in every reachable state, for the pool and for the names a table is left with.

### PagedKV

| action | code |
|---|---|
| `Claim` | `claim_prefix` |
| `Grow` | `allocate` and `push` |
| `Run`, `Spoil` | `Model::forward_batch`; a pass that fails, before or after it wrote |
| `Commit` | the first loop of `commit`: `advance`, `newly_full`, `publish` |
| `Sample` | the second loop of `commit`, as far as the history goes |
| `Free` | `free_table`: `preempt`, `retire`, `cancel`, `refuse_unservable`, put-back |
| `SetPrefixCache` | `set_prefix_cache`, `clear_cache` |

The actions are guarded only by what makes them meaningful (a pass runs tokens
that exist in slots that exist; results of one pass are committed or thrown away
before the next). So its invariants do not depend on the scheduler's policy.

### Scheduler

`plan` and `commit` are loops over residents and over the blocks one of them
needs. Each iteration is an action and `pc` forces the order of the code:

```
idle -> rows -> slice -> planned                    mixed
idle -> admit -> admitting -> planned               admit (chunk off)
rows, slice, joining, admit, admitting -> decode    the policy gave up
decode -> planned | parked                          decode | Plan::Idle
planned -> advance -> emit -> retire -> idle        commit
planned -> abort -> idle                            abort
```

`Submit` and `Cancel` happen at `idle` (between passes, as the engine does them)
and `Submit` also at `parked`, where the engine blocks on its channel.
`SetChunk` may change the chunk between passes; only run `library` takes it,
because the server sets the chunk once. `told` is a record of what the outcomes
told the caller; it is read by properties only. `Servable` is the server's
budget check with `MaxContext` as its limit.

### Forward and Sampler

A hidden state is the token prefix it was computed from, or `Garbage`. A key and
its value are one vector with the rotary position, the head and the hidden state
it came from. `Attended` turns the vectors a head reads into the prefix they
spell, provided they are those of positions `0..p` of one history, of the right
head, and of the layer below; anything else, a padded slot the mask lets through
for instance, is `Garbage`, and stays `Garbage` up to the logits. So a row that
is off by one, a head that lands in another head's place or a slot of an earlier
tenant changes the answer, and `AnswersAreTheirOwn` compares answers with those
of the sequence running alone.

| action | code |
|---|---|
| `Prefill`, `Decode` | `Batch::new` over one sequence's whole rest, or over one token each |
| `Mixed` | `Batch::unfolded`: decodes and a slice, one row per token |
| `Layer` | `Attention::forward_batch`: `PagedCache::write`, then the tensor attention over gathered blocks and the mask, or the kernel over block tables and `context_lens` |
| `Finish` | the logit rows, then `sample` |
| `Fail` | an error before, between or after the layers, then `abort` |
| `Claim`, `Grow`, `Free`, `Commit` | the actions of `PagedKV` of the same name |
| `Extend` | the second loop of `commit` |

A sequence's share of one pass and the order of sequences are arbitrary here;
`Scheduler` says which passes are really planned. The folding of query heads
over key heads and the shape of the mask are not told apart: a head of `Forward`
is a key head. The kernel is used when every row carries one token, as
`forward_batch` decides. In `Sampler` the softmax is given: a logit's weight is
a whole number.

### Kernel

`Program` is the kernel as a list of segments with a barrier behind each but the
last; `Segment` runs one of them for one thread. `touched` records who read and
wrote which place since the last barrier. One segment is one step: as long as
`NoRaces` holds its accesses commute with those of every other thread, so
cutting it finer adds no behaviour. The lanes of a warp score a position
together (`ScorePositions`), by `simd_sum` on Metal and by shuffles on CUDA.
Floats are whole numbers, the exponential is a table of powers, and the output
is kept as a quotient. A context of zero is never dispatched (`context_lens` is
the row's start plus one); there only `EveryThreadReturns` and `NoRaces` say
anything.

### Engine and Decoder

| action | code |
|---|---|
| `Submit`, `Disconnect`, `Read`, `ReadClosed` | `Engine::submit`; the handler dropped with its connection; `recv` in `collect` and `sse_stream`, with an event or with a closed channel |
| `Receive`, `Park`, `Stop` | the top of the loop of `run`: `try_recv`, `blocking_recv`, its `None` |
| `Pass`, `PassFails` | `plan`, the pass, `sample` and `commit`, or `abort` |
| `EmitToken`, `DecoderFails` | the loop over `outcome.tokens` |
| `ReportFinished`, `ReportFailed` | the loop over `outcome.finished`; `fail` |
| `Shutdown` | `with_graceful_shutdown` |

Between any two sends a handler may read or be gone. The scheduler is reduced to
what `run` sees of it: live sequences, of which any legal set shares a pass.
That it plans a pass whenever something is live is `NeverParkedWithWork` of
`Scheduler`, that each sequence ends is `EveryRequestEnds`, and behind the
routes' budget check it never refuses. A byte is its role in UTF-8, a text is
bytes, so that the code's cut at a byte count can go wrong in the model as it
could in the code.

### Server

`SizePool`, `RefuseToStart`, `Load`, `LoadFails` are `main` and `Engine::start`;
`Handle` is one of the two handlers up to the submitted request, as the cascade
of checks `Reply`; `Pass` runs any of the admitted sequences by any amount a
plan may carry, and sets `failed` when a row asks for a position, a block or
on-chip memory that is not there. `MaxContext`, `KernelContext` and
`BlocksWithin` are the code's own formulas. Sizes are exact: `usize` overflow is
not modelled.

## Runs

| run | shows | size |
|---|---|---|
| `pagedkv` | the pool, the index and the contents are right under any schedule | 3 blocks of 2 tokens, 2 sequences, 345 thousand states |
| `chunked` | evictions, one cancel and one failed pass, with chunked prefill and without: plans, queues, answers, and both refinements | 3 blocks, 3 requests, batch 2, chunk 3 or off, 661 thousand states |
| `live` | three requests that cannot all stay resident all end; passes stay within the chunk and pass nobody over | 2 blocks, 3 requests, batch 3, chunk 2, 93 thousand states |
| `library` | the scheduler without the server's budget, without sharing, and with a chunk that is turned on and off | 2 blocks, 2 requests, chunk 2 or off, 78 thousand states |
| `forward` | the tensors are the paged cache, by either attention, and every sequence is answered as if alone | 3 blocks of 2, 2 layers, 2 heads, 2 sequences of up to 5 and 4 tokens, 560 thousand states |
| `kernel` | no race, no thread left behind, and the reference's result | 8 threads in 2 warps, 139 thousand states |
| `engine` | whoever stays connected is told everything once; the thread ends | 2 requests, one collected and one streamed, 377 thousand states |
| `server` | what is let through fits and is what was asked for | 2 handlers, 394 thousand states |
| `cache_budget`, `oldest_evicted`, `zero_max_tokens`, `idle_with_waiting` | the findings below | expected violations |

### What is checked

`PagedKV`: `HoldersCountTables` (nothing leaked or handed out twice),
`IndexMatchesSlots` (the index never points at a reused block),
`NamedBlocksHoldTheirName` and `TablesHoldTheirHistory` (whoever reads a block
reads the prefix it was looking for), `UnnamedBlocksAreOwn` (nobody writes into
a block another can read), `HeldContentIsStable` (a full block somebody holds
never changes).

`Scheduler`: `QueuesHoldEverySequence`, `PlansContinueHistories` (each row of
each pass continues its sequence exactly where the cache stops, and reads its
own history), `NoDecoderPassedOver`, `PassWithinChunk`, `OnePartialPrompt`,
`WasteIsBounded`, `StartInOrderOfArrival`, `NeverParkedWithWork`,
`AnswersMatchHistories`, `EndsFitTheAnswer`, `EveryRequestEnds`, and the
refinements `ImplementsPagedKV` and `ImplementsGeneration`.

`Forward`: `AnswersAreTheirOwn` (a sequence's tokens are those it would get
alone, draws included), `ImplementsPagedKV` (the tensors of all layers and heads
are the cache of `PagedKV`, torn passes too), `TokensAreLikely` (what the
sampler may draw is what the settings leave, each token with its share).

`Kernel`: `OutputIsAttention`, `NoRaces`, `EveryThreadReturns`.

`Engine`: `ResponsesTellTheAnswer` (finish, usage and frames of whoever was
answered, which is its part `ResponsesTellTheEnd`, and the text), `TextIsNeverTakenBack`, `NoTextIsLost`, `ClientsMatchSequences`
(an entry that `engine.rs:246` leaves behind belongs to nobody who waits),
`EveryHandlerReturns`, `EngineStops`.

`Server`: `AdmittedSequencesFit` and its converse `TurnedAwayWouldNotFit`,
`HonouredOrRefused`.

### Bounds, and why they are enough

Blocks hold two tokens: the smallest size with a difference between full and
partial blocks. Two tokens of vocabulary give two continuations of a shared
prefix; in the scheduler runs the second one is the stop token. The prompts are
chosen so that one is a prefix of another and shares its first block, and so
that one ends exactly at a block boundary or one past it. Pools of two and three
blocks are smaller than what the requests need together, so evictions,
put-backs, reuse of cached blocks and dry pools all occur: between them the runs
take every action, except that a put-back while a whole prompt is admitted
(`scheduler.rs:562`) never fires, since admission asked for room for the whole
prompt beforehand. Three requests are the fewest in which a sequence can be
evicted by one and overtaken by another. `chunked` is where an eviction shifts
the running set under the indexes `decode` keeps; `live` is where decoders, a
slice and a dry pool meet in one mixed pass.

`forward`: prompts of three and two tokens over blocks of two have a full shared
block, a partial one, padding, slices, and a longer and a shorter row in one
pass. Two layers are the fewest a pass can stop between, two heads the fewest
that can be swapped. `MaxClock` bounds how often blocks are freed (2), one pass
fails, draws come from ten points, and the model's weights include a tie. Prefix
sharing is chosen at the start; turning it off is `PagedKV`'s.

`kernel`: a head of nine dimensions is no multiple of the four lanes nor of the
eight threads; contexts of 1, 6 and 10 are shorter than the group, no multiple
of it, and longer than it; two query heads share a key head; two rows have block
tables out of order.

`engine`: up to two tokens of text and a stop token, of which some begin and
some end a character of three bytes, so that text is held back, and at the end
too. One slice may come before a prompt's last. `server`: blocks that divide the
kernel's memory and blocks that do not, a block size of zero, pools shorter and
longer than the rotary table, prompts and limits at and around the room, and of
each kind of refusal one body or command line.

`MCPagedKV` bounds the release clock (`MaxClock`), the length of a history
(`MaxLength`) and how many passes fail; none of the three is compared with
anything in the code but itself. `RoughSpec` of `MCScheduler` allows one failed
pass and one cancel, enough for each to meet every state of the rest; `CalmSpec`
allows none and is used where the question is about longer workloads. Blocks
(and in `MCPagedKV` the sequences) are symmetric. `live` uses no symmetry,
because it checks liveness.

### Fairness and deadlock

`Scheduler` assumes weak fairness of the engine's own steps (`WF_vars(Engine)`):
the engine is one thread in a loop that no lock or other thread can hold up, so
it takes a step whenever it has one. Nothing is assumed of arrivals or cancels.
Which of the possible tokens is sampled is never assumed to be fair: requests
end because of their token limit. Liveness is checked without failed passes,
since those end requests and would only help.

`Engine` assumes the same of the thread (`WF_vars(EngineStep)`), and of each
handler that it reads when its channel has something for it or is closed, which
is when the runtime wakes it. Nobody has to connect, to stay connected, to hang
up or to stop the server: `EngineStops` starts from a shutdown that happened.
Its passes may carry any of the live sequences but always carry one, and every
pass brings one of them closer to its limit, so no further fairness is needed.
`Kernel` assumes that some thread that can run does.

Deadlock checking is off where the system may rest: the scheduler once all
requests have ended (that it rests only then is `NeverParkedWithWork`), the
engine after a stop or with no client, the server that refused to start, the
sequences of `Forward` that have reached their length, and the group whose
threads are done.

## Findings

* **The oldest sequence can be evicted** (`oldest_evicted`). `scheduler.rs:19`
  says the one that has waited longest never pays. `newest_evictable` excludes
  only the sequence in need, so if a younger resident finds the pool dry and the
  oldest is the only other one, the oldest goes. It keeps its answer and its
  place at the front of the queue, and the run `live` shows everyone still ends.
* **`max_tokens` of zero yields one token** (`zero_max_tokens`). `commit`
  compares after it reported the token; `session.rs:26` says "Most tokens to
  produce."
* **An idle plan with a request waiting** (`idle_with_waiting`).
  `scheduler.rs:117` says nothing is waiting. A resident that outgrew the pool
  keeps its blocks and is left out of every pass, and the queue behind it
  starves. In the server the budget check prevents it: `NeverParkedWithWork`
  holds in `chunked`.
* **`--dtype auto` can take twice the cache budget** (`cache_budget`).
  `main.rs:100` sizes the pool for bf16 when no dtype is given, before the model
  is loaded; the engine allocates in the model's own dtype (`engine.rs:111`).
  For a checkpoint in f32 the cache takes twice the "Bytes the KV cache may
  take" of `main.rs:46`.

Smaller observations, which no document contradicts:

* `set_chunk` that turns chunked prefill off while a prompt is part-way through
  its slices leaves a sequence without pending tokens that no policy picks up
  again (`scheduler.rs:293`). Only a user of the library can reach it.
* With a temperature of zero, `top_p` and `top_k` are dropped before they are
  looked at (`routes.rs:139`), so values that would otherwise be refused pass.

## Proofs

Everything in this section holds for every value of the constants that meets the
named assumptions, which TLC evaluates in the runs. An invariant that a run
checks is seldom inductive, and each part below names the one that is.

### The pool and the tables (`PagedKVProofs`)

For every finite pool, every block size, every vocabulary and every finite set
of sequences:

* `TypeCorrect`: `Spec => []TypeOK`. Its inductive invariant `TypeInv` gives the
  pool as one record type and says every table is well formed: named blocks are
  full, tokens have slots. That is why the error of `advance` that `commit`
  ignores cannot occur.
* `HoldersCounted`, `IndexSound`, `UnnamedOwned`: the invariants
  `HoldersCountTables`, `IndexMatchesSlots` and `UnnamedBlocksAreOwn`. None of
  them is inductive alone. A claim keeps the counts because different prefixes
  lead to different blocks, which needs the index; publishing keeps the index
  because the blocks it names had no name and only one holder, which needs
  ownership; and ownership survives a growth because a free block is in no
  table, which needs the counts. `PoolInv` is their conjunction, with `TypeInv`
  it is inductive (`IInv`), and the proof has one lemma per action
  (`ClaimKeeps`, `GrowKeeps`, `CommitKeeps`, `FreeKeeps`, `SetPrefixCacheKeeps`,
  `OthersKeep`).
* `FreeingIsTheLoop`, `PublishingIsTheLoop`: the closed forms `ReleaseAll`,
  `PublishFull` and `NameFull` are what the loops of the code leave. They follow
  from `IInv`, because no block is in a table twice and each is counted, and from
  two lemmas without states: one release more is a release of what the others
  left (`ReleaseOneMore`), one publish more a publish (`PublishOneMore`), since the
  names of a chain differ in length. The loops are recursive functions of bounded
  numbers; they are the functions of the closed forms by `SameFrom`, an induction
  over the set of the numbers up to which two functions agree.

The lemmas about operators are in `BlocksProofs`: the types of every pool and
table operation, which fields `ReleaseAll`, `PublishFull` and `ClaimTable`
change, and the arithmetic of blocks and positions.

### What the blocks hold (`PagedKVProofs`)

* `HistoriesHeld`, `NamesTrue`: `TablesHoldTheirHistory` and
  `NamedBlocksHoldTheirName`. They are parts of one induction (`ContentInv`) with
  a third, that a table's names are prefixes of its own history
  (`NamesAreHistory`): a claim reads what a name promises, a name is given for
  what a table holds, and the next name is built from the last. A pass, torn or
  not, disturbs none of it, because the slots it writes lie behind what is
  committed, in blocks without a name that only the writer holds (`IInv`).
* `HeldContentStable`: the action property `HeldContentIsStable`.

### The scheduler (`SchedulerProofs`, `AnswersProofs`)

For every pool, batch size, chunk, vocabulary and set of requests. `Inv` says at
every place of `pc`, in the middle of every loop of the code, what the queues,
the sequences and the plan are: the types and the indexes kept across removals
(`Typed`), each sequence in one place (`Queues`, `OthersHoldNothing`), how
pending tokens, prompt left and table of a sequence go together (`Sequences`),
what the rows chosen so far and the finished plan promise (`ChosenHold`,
`PlanHolds`), and the sequence between two queues (`Starting`). It includes
`TypeInv` of `PagedKV` under the refinement mapping.

* `SchedulerUsesPagedKV`: the refinement `ImplementsPagedKV`. Every step maps to
  a step of `PagedKV` or to a stutter, so the theorems above hold of the
  scheduler's pool; the proofs that follow use them through the instance `KVP`.
* `TypeCorrect`, `NothingLost`, `OnePrompt`, `PlansAreSound`: `TypeOK`,
  `QueuesHoldEverySequence`, `OnePartialPrompt`, `PlansContinueHistories`. The
  last needs the contents: that a row reads its own history is
  `TablesHoldTheirHistory`, under this schedule.
* `AnswersAreHistories` (`AnswersMatchHistories`), from `Reporting`: what was
  told is the output part of the history but for a stop token at its end.
* `EndsAreDeserved` (`EndsFitTheAnswer`), from `Reasons`, which asks of a
  resident about to be retired what the property asks of a retired one.
* `StartsAreOrdered` (`StartInOrderOfArrival`), from `Order`: new requests wait
  in the order of arrival, with one taken out to be started before all of them.
* `LittleIsWasted` (`WasteIsBounded`), from `Thrift`, which follows the blocks
  taken for a pass until its tokens fill them.
* `NobodyPassedOver` (`NoDecoderPassedOver`), from `Serving`: in every loop of
  `plan` each decoder behind the loop's index is chosen, or the pass is full and
  all chosen ones stand before it; an eviction that shifts the indexes keeps it.
* `AnswersGrowAndEnd`: the refinement `ImplementsGeneration`, from `Limits`.
* `NeverAsleepWithWork` (`NeverParkedWithWork`), from `Plain` and `Awake`: a
  decode that has chosen nobody has a decoder before it yet, or there is no
  work; evicting one puts it in the queue and leaves the one it was evicted for.

* `PassesFitTheChunk` (`PassWithinChunk`), from `Seated`. The rows of a mixed
  pass fit by construction; the decode it gives way to in a dry pool is bounded
  by the batch alone, and fits because no more are resident than the chunk has
  tokens for: a prompt starts only when every resident decodes, was chosen
  (`Serving`), and left room (`StartSeats`). `LoadOfPlan` adds up the plan.

`AnswersGrowAndEnd` and `NeverAsleepWithWork` have a hypothesis, that the pool
holds the longest sequence that is let in. `MaxContextFits` of `ServerProofs` is why the server meets it; without it
`idle_with_waiting` is a counterexample, and a sequence that outgrows the pool
ends for its length short of its limit. `NeverAsleepWithWork` and
`PassesFitTheChunk` also suppose that the chunk stays what it was set to: see the
observation on `set_chunk` above, whose abandoned prompt would be work nobody
does, and a chunk that is made smaller finds more residents than it has tokens
for. The server sets it once.

### The engine (`EngineProofs`)

For any requests, prompts, limits and batch size, and any order of reads,
hang-ups and failures:

* `NobodyIsLeftInTheMap`: `ClientsMatchSequences`. Between two sends it does not
  hold: `Dismissed`, in `Inv`, allows for those the outcome still has to tell,
  and `Departed` says they have left the scheduler.
* `TheEndIsTold`: `ResponsesTellTheEnd`, the part of `ResponsesTellTheAnswer`
  that is not about text. The invariant `Reports` gives the life of a request
  between its handler, its channel, the outcome and the map: it waits, runs, or
  has ended and is about to be told (`Hears`, with `Counted` for the usage: the
  tokens reported are those decoded and at most one that is due); a failure is
  among its events behind texts (`Fails`); its finish is the last event
  (`Ends`); or a stream has read its finish and the channel is closed
  (`Closes`). A closed channel can be read in the last case only, which is why
  no client takes the end of its channel for an answer, and `Done` behind a
  `Failed` (`engine.rs:252`) is never read.
* `AnswersAreTold`: `ResponsesTellTheAnswer`, with the text, for any vocabulary
  and any way its tokens split characters.
* `TextsAreKept` (`TextIsNeverTakenBack`) and `TextsAreSent` (`NoTextIsLost`):
  what was sent begins the text whichever tokens follow, the count of emitted
  bytes is never inside a character, and at most one unfinished character of a
  live sequence is held back.
* `TypesHold`: `TypeOK`, whose part on texts is a consequence of the same.

In `Inv` and `Reports` a text is a text whatever it says; the last four stand on
a third invariant, `Tales`. It follows the tokens of an answer from the outcome
(`Dues`, at most one is due) through the client's decoder to what its handler
has read and what is still in the channel (`Sent`). A decoder that has emitted
`n` bytes keeps `Settled`: the `n` bytes are the text of characters none of
which waits for bytes that are not there, so that no byte that may follow
changes them (`SettledStays`). What makes `push` right is then one fact: up
to one replacement character at its end a text is settled (`Stable`, `Tells`,
`AllBut`).

### Passes and answers (`ForwardProofs`)

For every pool, two layers or more, any number of heads and sequences, any model
and any sampling settings:

* `ForwardUsesPagedKV`: the refinement `ImplementsPagedKV`. What a block holds
  is read off the tensors, so the mapping itself says that all layers and heads
  of a slot agree. `PassHolds` follows a pass: every position a sequence may run
  is one token of the batch (`Carries`, `Aligned`), with one row per token or a
  rectangle of rows, and after each layer the slots of the pass hold, in the
  layers run so far, what the prefix up to them gives (`Computing`). One lemma
  carries it, `AttendedOwn`: a row that reads its slots behind the mask, or as
  the kernel walks them, reads its own prefix and nothing else, whatever other
  rows of the pass have just written (`SlotsApart`, from the theorems of
  `PagedKVProofs`). A step of the last layer is `PagedKV`'s pass
  (`FinishRuns`), and a pass that stops between two layers is one that spoils
  its slots (`LayerSpoils`).
* `AnswersOwn`: `AnswersAreTheirOwn`. The answer `Alone` of a sequence is a
  recursive function, and `AloneDefined` shows it has the values its definition
  says. `AnswerInv` says each history is a beginning of it; the wanted rows of a
  pass belong to the sequences they are handed to (`Wanted`), in the order of
  another list, which is the step that could go wrong (`FinishAnswers`).
* `DrawInVocabulary`: whatever the weights, the settings and the number drawn, the
  draw is a token of the vocabulary: top-k and top-p leave a candidate, and the
  walk over the cumulative weights stops at one.

Induction over data is possible where the claim is one about a *set* of numbers:
`Inductive` states it for a set, from the well-foundedness of the order of the
naturals, and `Recursion` shows once that a recursive function of bounded
numbers exists. The functions behind `Alone` and `Mass` rest on these two, and
the decoding and flattening of texts in `EngineProofs` on the like of them.

### The kernel (`KernelProofs`)

* `SegmentsDoNotRace`: `NoRaces`, for a group of any power of two of threads in
  warps of any width that divides it, any block size, head dimension and length
  of the context. `Recording`
  says that what is on record since the last barrier belongs to one segment and
  is among what that segment may touch, and `Apart` goes through the segments:
  in the trees a thread below the stride reads above it, where none writes; the
  strides apart elsewhere divide positions between threads.

### The server (`ServerProofs`)

For every set of command lines, models, bodies and handlers and every device
that has room for the reduction scratch:

* `TypeCorrect`: `Spec => []TypeOK`.
* `AdmittedFit`: `AdmittedSequencesFit`. The invariant behind it (`IInv`)
  follows a sequence on its way: what it holds and what it has left never add up
  to more than `max_context`, which every pass must stay below; `MaxContextFits`
  shows that a context within `max_context` fits the rotary table, the pool and
  the kernel. The step that is easy to get wrong is the kernel's: the cap rounds
  down to whole blocks and the dispatch rounds the context up, and `CeilBelow`
  says that the second stays below the first.
* `TurnedAwayOnlyForRoom`: `TurnedAwayWouldNotFit`, from `DoorInv`, which
  remembers that a request turned away for its length still meets the condition
  it was turned away for: nothing a handler compares with changes once the
  server serves.
* `AskedAndHonoured`: `HonouredOrRefused`, from the same invariant.

### Assumptions

`Block`, `Owner` and `Request` are finite, requests are numbers, the block size
of the cache and the batch size are positive, prompts are not empty, stop tokens
are tokens. The threads of a group are a power of two and fill their warps.
A model gives a weight to every token of the vocabulary, a generator a draw for
every token asked of it (`ModelAssumption`), and draws are among a positive number
of values. The table of texts of `Decoder` reaches two tokens past the longest
answer (`TextsReach`): a bound of the model, which the code does not have and any
limits can meet. `Server` assumes that command lines, configurations and bodies have the types of
their fields and that the device has room for the reduction scratch. Nothing is
assumed of contents or schedules.

### Only model-checked

* Liveness (`EveryRequestEnds`, `EveryHandlerReturns`, `EngineStops`,
  `EveryThreadReturns`): fairness and `ENABLED` are out of the prover's reach.
* `OutputIsAttention`, a reduction by threads: its strides and its exponential are
  powers of two, and the provers know nothing of `^`.
* `TokensAreLikely`: a cumulative sum, over tables that `MCForward` defines for
  its instance.

## Not modelled

* **Floating point**: softmax, norms, the feed-forward part of a layer, the
  rotary angles, rounding. They keep no state, and the repository compares them
  with a reference implementation. `Forward`, `Sampler` and `Kernel` model what
  they are computed *from*.
* **The unbatched pass** (`Attention::forward`, `Model::forward_traced`): the
  path that comparison runs, not the server.
* **Binding and compiling the kernels** (`core/kernels/paged_attention.rs`, most
  of it), **weights** and the parsing of configuration files: I/O and library
  calls.
* **Byte-pair encoding and the chat template**: libraries; a prompt is its
  length or its tokens.
* **JSON, `/health`, `/v1/models`, request identifiers and seeds, argument
  parsing, metrics, messages**: no state that a property is about.
* **Scripts, benchmarks, examples**: around the program, not part of it.

There is nothing persisted and nothing retried, so there is no fault model
beyond failed passes, failed decoders and clients that hang up.

## Plan

What is still worth adding, in order of importance:

1. `OutputIsAttention`, with the tree reductions as sums over the threads below a
   stride.
