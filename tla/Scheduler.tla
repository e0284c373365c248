----------------------------- MODULE Scheduler -----------------------------
(***************************************************************************)
(* The scheduler (crates/pagedllm/src/scheduler.rs) driven the way the     *)
(* engine thread drives it: plan, run the pass, commit or abort, repeat.   *)
(*                                                                         *)
(* plan, commit, abort and retire are loops over the resident sequences    *)
(* and the blocks they need.  Each iteration is an action, and pc forces   *)
(* the iterations in the order of the code: between pc = "idle" and the    *)
(* next pc = "idle" nothing else happens, as on the one engine thread.     *)
(*                                                                         *)
(*   idle -> rows -> slice -> planned   a mixed pass (chunked prefill)     *)
(*   idle -> admit -> planned           a prefill pass (chunk off)         *)
(*   .... -> decode -> planned          a decode pass, evicting if it must *)
(*   planned -> advance -> emit -> retire -> idle      the pass succeeded  *)
(*   planned -> abort -> idle                          the pass failed     *)
(*                                                                         *)
(* Definitions named Slip... say what a plausible slip would make of the   *)
(* definition that follows them; each is caught by a property.             *)
(***************************************************************************)
EXTENDS Blocks, SequencesExt

CONSTANTS
    Request,      \* request identifiers, numbers given out in order of arrival
    Prompts,      \* the prompts requests bring
    Outputs,      \* the values of max_tokens requests bring
    MaxContext,   \* the most tokens the server lets one sequence reach
    StopTokens,   \* the tokens that end a generation
    MaxBatch,     \* rows in one decode pass
    Chunks,       \* the budgets of a pass that are set, 0 for a prompt run whole
    PrefixCache,  \* whether blocks are published and claimed
    Nobody        \* not a request

ASSUME SchedulerAssumption ==
    /\ Request \subseteq Nat /\ IsFiniteSet(Request) /\ Nobody \notin Request
    /\ Prompts \subseteq Seq(Token) \ {<<>>}
    /\ Outputs \subseteq Nat
    /\ MaxContext \in Nat
    /\ StopTokens \subseteq Token
    /\ MaxBatch \in Nat \ {0} /\ Chunks \subseteq Nat
    /\ PrefixCache \in BOOLEAN

VARIABLES
    chunk,             \* the most tokens one pass carries, 0 for no budget
    pool, table, kv,   \* as in PagedKV
    seq,               \* request -> its Sequence
    waiting, running,  \* the two queues, sequences of requests
    joining,           \* popped off waiting, not yet in running
    pc,                \* where in plan or commit the engine thread is
    row,               \* the loop index of the row loop pc is in
    chosen,            \* the indexes into running chosen for the pass
    plan,              \* the rows of the planned pass
    told               \* request -> what the outcomes said of it

vars == <<chunk, pool, table, kv, seq, waiting, running, joining, pc, row,
          chosen, plan, told>>

\* What the loops of plan leave alone, whatever else they do.
settled == <<chunk, kv, told>>

-----------------------------------------------------------------------------
Finish == {"none", "stop", "length"}
Ends == Finish \cup {"cancelled", "failed"}

Row == [id : Request, pos : Nat, tokens : Seq(Token), predicts : BOOLEAN]

NewSequence(prompt, max) ==
    [history |-> prompt, prompt_tokens |-> Len(prompt), max_tokens |-> max,
     pending |-> prompt, generated |-> 0, preemptions |-> 0, prompt_left |-> 0,
     finish |-> "none"]

\* The requests the server's budget check lets through.
Servable(prompt, max) ==
    Len(prompt) < MaxContext /\ max <= MaxContext - Len(prompt)

Init ==
    /\ chunk \in Chunks
    /\ pool = NewPool
    /\ table = [r \in Request |-> NewTable]
    /\ kv = [b \in Block |-> [o \in Offset |-> Garbage]]
    /\ \E prompt \in [Request -> Prompts], max \in [Request -> Outputs] :
         /\ \A r \in Request : Servable(prompt[r], max[r])
         /\ seq = [r \in Request |-> NewSequence(prompt[r], max[r])]
    /\ waiting = <<>> /\ running = <<>> /\ joining = Nobody
    /\ pc = "idle" /\ row = 1 /\ chosen = <<>> /\ plan = <<>>
    /\ told = [r \in Request |-> [submitted |-> FALSE, tokens |-> <<>>, end |-> "none"]]

-----------------------------------------------------------------------------
(* What a caller may do between passes. *)

SlipPushFront(r) == <<r>> \o waiting
PushBack(r) == Append(waiting, r)

\* Identifiers are given out in order of arrival.  An arrival is what wakes an
\* engine that planned nothing.
Submit(r) ==
    /\ pc \in {"idle", "parked"}
    /\ ~ told[r].submitted
    /\ \A q \in Request : q < r => told[q].submitted
    /\ waiting' = PushBack(r)
    /\ told' = [told EXCEPT ![r].submitted = TRUE]
    /\ pc' = "idle"
    /\ UNCHANGED <<chunk, pool, table, kv, seq, running, joining, row, chosen, plan>>

\* Everything a sequence holds goes back to the pool.
SlipKeepsTable(r) ==
    /\ pool' = ReleaseAll(pool, table[r].blocks)
    /\ UNCHANGED table
FreeTable(r) ==
    /\ pool' = ReleaseAll(pool, table[r].blocks)
    /\ table' = [table EXCEPT ![r] = NewTable]

\* The budget of a pass may be set, or taken away, between any two passes.
SetChunk ==
    /\ pc \in {"idle", "parked"}
    /\ chunk' \in Chunks \ {chunk}
    /\ pc' = "idle"
    /\ UNCHANGED <<pool, table, kv, seq, waiting, running, joining, row, chosen,
                   plan, told>>

Live(r) == r \in ToSet(waiting) \cup ToSet(running)

\* position and remove: a sequence without the first x in it, if there is one.
Without(s, x) ==
    LET P == {i \in DOMAIN s : s[i] = x}
    IN  IF P = {} THEN s ELSE RemoveAt(s, CHOOSE i \in P : \A j \in P : i <= j)

Cancel(r) ==
    /\ pc = "idle"
    /\ Live(r)
    /\ FreeTable(r)
    /\ waiting' = Without(waiting, r)
    /\ running' = Without(running, r)
    /\ seq' = [seq EXCEPT ![r].finish = IF r \in ToSet(running) THEN "stop" ELSE @]
    /\ told' = [told EXCEPT ![r].end = "cancelled"]
    /\ UNCHANGED <<chunk, kv, joining, pc, row, chosen, plan>>

-----------------------------------------------------------------------------
(* plan: what every policy shares. *)

\* The blocks a prompt fills.
Span(tokens) == CeilDiv(Len(tokens), BlockSize)
SlipRefusesFull ==
    waiting # <<>> /\ Span(seq[Head(waiting)].pending) >= Cardinality(Block)
Unservable ==
    waiting # <<>> /\ Span(seq[Head(waiting)].pending) > Cardinality(Block)

\* refuse_unservable, and the commit of the plan it returns.
Refuse ==
    /\ pc = "idle"
    /\ Unservable
    /\ LET r == Head(waiting) IN
         /\ waiting' = Tail(waiting)
         /\ seq' = [seq EXCEPT ![r].finish = "length"]
         /\ FreeTable(r)
         /\ told' = [told EXCEPT ![r].end = "length"]
    /\ UNCHANGED <<chunk, kv, running, joining, pc, row, chosen, plan>>

Plan ==
    /\ pc = "idle"
    /\ ~ Unservable
    /\ pc' = IF chunk > 0 THEN "rows" ELSE "admit"
    /\ row' = 1 /\ chosen' = <<>>
    /\ UNCHANGED <<pool, table, seq, waiting, running, joining, plan, settled>>

\* The mixed pass gives up, or there is nothing to admit.
ToDecode ==
    /\ pc' = "decode" /\ row' = 1 /\ chosen' = <<>>

SlipSpareBlock(r, count) == BlocksNeeded(table[r], count + BlockSize) > 0
Needs(r, count) == BlocksNeeded(table[r], count) > 0
Dry == pool.free = {}

\* Takes one block for r.
TakeBlock(r) ==
    \E b \in Allocatable(pool) :
        /\ pool' = Allocate(pool, b)
        /\ table' = [table EXCEPT ![r] = Push(@, b)]

\* claim_prefix for the sequence at the front of the queue, which leaves it.
PopAndClaim(r) ==
    /\ waiting' = Tail(waiting)
    /\ joining' = r
    /\ IF PrefixCache
       THEN \E k \in 0..Candidates(seq[r].pending) :
              /\ Claims(pool, seq[r].pending, k)
              /\ pool' = ClaimPool(pool, seq[r].pending, k)
              /\ table' = [table EXCEPT
                   ![r] = ClaimTable(pool, @, seq[r].pending, k)]
       ELSE UNCHANGED <<pool, table>>

\* What of the prompt that is joining was not resident.
Unshared == Len(seq[joining].pending) - table[joining].tokens

\* The claim took the block the sequence needed: it goes back to the queue.
PutBack ==
    /\ pc \in {"joining", "admitting"}
    /\ Needs(joining, IF pc = "joining" THEN 1 ELSE Unshared)
    /\ Dry
    /\ FreeTable(joining)
    /\ seq' = [seq EXCEPT ![joining].pending = seq[joining].history]
    /\ waiting' = <<joining>> \o waiting
    /\ joining' = Nobody
    /\ ToDecode
    /\ UNCHANGED <<running, plan, settled>>

-----------------------------------------------------------------------------
(* The row loops of mixed and of decode. *)

\* The index of the prompt part-way through its slices, 0 if there is none.
SlipLastToken ==
    LET P == {i \in DOMAIN running :
                seq[running[i]].prompt_left > 1 /\ seq[running[i]].finish = "none"}
    IN  IF P = {} THEN 0 ELSE CHOOSE i \in P : \A j \in P : i <= j
Partial ==
    LET P == {i \in DOMAIN running :
                seq[running[i]].prompt_left > 0 /\ seq[running[i]].finish = "none"}
    IN  IF P = {} THEN 0 ELSE CHOOSE i \in P : \A j \in P : i <= j

Cap == IF pc = "rows" THEN AtMost(MaxBatch, chunk) ELSE MaxBatch

InRowLoop ==
    pc \in {"rows", "decode"} /\ row <= Len(running) /\ Len(chosen) < Cap

Skips(r) ==
    \/ pc = "rows" /\ row = Partial
    \/ seq[r].finish # "none"
    \/ Len(seq[r].pending) # 1

SkipRow ==
    /\ InRowLoop
    /\ Skips(running[row])
    /\ row' = row + 1
    /\ UNCHANGED <<pool, table, seq, waiting, running, joining, pc, chosen, plan,
                   settled>>

\* The row has, or gets, a block for its next token and joins the pass.
ChooseRow ==
    /\ InRowLoop
    /\ LET r == running[row] IN
         /\ ~ Skips(r)
         /\ IF Needs(r, 1) THEN TakeBlock(r) ELSE UNCHANGED <<pool, table>>
    /\ chosen' = Append(chosen, row)
    /\ row' = row + 1
    /\ UNCHANGED <<seq, waiting, running, joining, pc, plan, settled>>

Starved == InRowLoop /\ ~ Skips(running[row]) /\ Needs(running[row], 1) /\ Dry

\* mixed leaves a dry pool to decode.
SlipRunsWithout ==
    /\ pc = "rows"
    /\ Starved
    /\ row' = row + 1
    /\ UNCHANGED <<pool, table, seq, waiting, running, joining, pc, chosen, plan,
                   settled>>
GiveUpMixed ==
    /\ pc = "rows"
    /\ Starved
    /\ ToDecode
    /\ UNCHANGED <<pool, table, seq, waiting, running, joining, plan, settled>>

\* newest_evictable: the last resident that is not the one in need.
Evictable == {i \in DOMAIN running : i # row /\ seq[running[i]].finish = "none"}
Newest == CHOOSE i \in Evictable : \A j \in Evictable : j <= i

\* The index of a row once the row at index gone left the running set.
SlipUnshifted(i, gone) == i
Shifted(i, gone) == IF i > gone THEN i - 1 ELSE i

\* What preempt makes of a sequence: everything it has seen is its prompt now.
SlipOutputLost(s) ==
    [s EXCEPT !.pending = SubSeq(s.history, 1, s.prompt_tokens),
              !.prompt_left = 0, !.preemptions = @ + 1]
Preempted(s) ==
    [s EXCEPT !.pending = s.history, !.prompt_left = 0, !.preemptions = @ + 1]

\* preempt, and the repair of the indexes decode keeps.
Preempt ==
    /\ pc = "decode"
    /\ Starved
    /\ Evictable # {}
    /\ LET gone == Newest
           r == running[gone]
           kept == Without(chosen, gone)
       IN  /\ running' = RemoveAt(running, gone)
           /\ FreeTable(r)
           /\ seq' = [seq EXCEPT ![r] = Preempted(@)]
           /\ waiting' = <<r>> \o waiting
           /\ chosen' = [i \in DOMAIN kept |-> Shifted(kept[i], gone)]
           /\ row' = Shifted(row, gone)
    /\ UNCHANGED <<joining, pc, plan, settled>>

\* Nothing to evict: the row is left out of this pass.
LeaveOut ==
    /\ pc = "decode"
    /\ Starved
    /\ Evictable = {}
    /\ row' = row + 1
    /\ UNCHANGED <<pool, table, seq, waiting, running, joining, pc, chosen, plan,
                   settled>>

\* A row of a decode: the one pending token, at the end of the table.
DecodeRow(i) ==
    LET r == running[i] IN
    [id |-> r, pos |-> table[r].tokens, tokens |-> seq[r].pending,
     predicts |-> TRUE]
DecodeRows == [k \in DOMAIN chosen |-> DecodeRow(chosen[k])]

RowsDone == row > Len(running) \/ Len(chosen) >= Cap

\* The end of decode: a pass, or Plan::Idle, on which the engine waits for an
\* arrival.
PlanDecode ==
    /\ pc = "decode"
    /\ RowsDone
    /\ pc' = IF chosen = <<>> THEN "parked" ELSE "planned"
    /\ plan' = DecodeRows
    /\ UNCHANGED <<pool, table, seq, waiting, running, joining, row, chosen,
                   settled>>

-----------------------------------------------------------------------------
(* mixed, after its rows: one slice of one prompt. *)

Room == chunk - Len(chosen)

EndRows ==
    /\ pc = "rows"
    /\ RowsDone
    /\ IF Room <= 0 THEN ToDecode ELSE pc' = "slice" /\ UNCHANGED <<row, chosen>>
    /\ UNCHANGED <<pool, table, seq, waiting, running, joining, plan, settled>>

\* start_next_prompt finds nobody, or no block.
NoPromptToStart ==
    /\ pc = "slice"
    /\ Partial = 0
    /\ waiting = <<>> \/ Dry
    /\ ToDecode
    /\ UNCHANGED <<pool, table, seq, waiting, running, joining, plan, settled>>

StartNextPrompt ==
    /\ pc = "slice"
    /\ Partial = 0
    /\ waiting # <<>> /\ ~ Dry
    /\ PopAndClaim(Head(waiting))
    /\ pc' = "joining"
    /\ UNCHANGED <<seq, running, row, chosen, plan, settled>>

Join ==
    /\ pc = "joining"
    /\ IF Needs(joining, 1) THEN TakeBlock(joining) ELSE UNCHANGED <<pool, table>>
    /\ seq' = [seq EXCEPT
         ![joining].prompt_left = AtLeast(Unshared, 1),
         ![joining].pending = <<>>]
    /\ running' = Append(running, joining)
    /\ joining' = Nobody
    /\ pc' = "slice"
    /\ UNCHANGED <<waiting, row, chosen, plan, settled>>

SlipCrowdsOut == AtMost(chunk, seq[running[Partial]].prompt_left)
Want == AtMost(Room, seq[running[Partial]].prompt_left)

GrowSlice ==
    /\ pc = "slice"
    /\ Partial # 0
    /\ Needs(running[Partial], Want)
    /\ TakeBlock(running[Partial])
    /\ UNCHANGED <<seq, waiting, running, joining, pc, row, chosen, plan, settled>>

\* The slice takes what fits in the blocks it got.  Its last token predicts
\* only when it is the prompt's last.
PlanMixed ==
    /\ pc = "slice"
    /\ Partial # 0
    /\ Needs(running[Partial], Want) => Dry
    /\ LET r == running[Partial]
           done == Len(seq[r].history) - seq[r].prompt_left
           take == AtMost(Want, Capacity(table[r]) - table[r].tokens)
           slice == [id |-> r, pos |-> done,
                     tokens |-> SubSeq(seq[r].history, done + 1, done + take),
                     predicts |-> take = seq[r].prompt_left]
       IN  IF take = 0
           THEN ToDecode /\ UNCHANGED plan
           ELSE /\ plan' = Append(DecodeRows, slice)
                /\ pc' = "planned" /\ UNCHANGED <<row, chosen>>
    /\ UNCHANGED <<pool, table, seq, waiting, running, joining, settled>>

-----------------------------------------------------------------------------
(* admit: a whole prompt in a pass of its own. *)

\* Room is asked for the whole prompt, resident or not.
Admissible ==
    waiting # <<>> /\ Span(seq[Head(waiting)].pending) <= Cardinality(pool.free)

CannotAdmit ==
    /\ pc = "admit"
    /\ ~ Admissible
    /\ ToDecode
    /\ UNCHANGED <<pool, table, seq, waiting, running, joining, plan, settled>>

Admit ==
    /\ pc = "admit"
    /\ Admissible
    /\ PopAndClaim(Head(waiting))
    /\ pc' = "admitting"
    /\ UNCHANGED <<seq, running, row, chosen, plan, settled>>

GrowPrompt ==
    /\ pc = "admitting"
    /\ Needs(joining, Unshared)
    /\ TakeBlock(joining)
    /\ UNCHANGED <<seq, waiting, running, joining, pc, row, chosen, plan, settled>>

PlanPrefill ==
    /\ pc = "admitting"
    /\ ~ Needs(joining, Unshared)
    /\ plan' = <<[id |-> joining, pos |-> table[joining].tokens,
                  tokens |-> SubSeq(seq[joining].pending, table[joining].tokens + 1,
                                    Len(seq[joining].pending)),
                  predicts |-> TRUE]>>
    /\ seq' = [seq EXCEPT ![joining].pending = <<>>]
    /\ running' = Append(running, joining)
    /\ joining' = Nobody
    /\ pc' = "planned"
    /\ UNCHANGED <<pool, table, waiting, row, chosen, settled>>

-----------------------------------------------------------------------------
(* The pass, and what follows it. *)

\* The rows of the plan as the model sees them.
PassRows ==
    {[table |-> table[plan[k].id], pos |-> plan[k].pos, tokens |-> plan[k].tokens]
        : k \in DOMAIN plan}

Pass ==
    /\ pc = "planned"
    /\ kv' = RunPass(kv, PassRows)
    /\ pc' = "advance" /\ row' = 1
    /\ UNCHANGED <<chunk, pool, table, seq, waiting, running, joining, chosen, plan,
                   told>>

\* The model fails before, while or after it writes, or the sampler fails.
PassFails ==
    /\ pc = "planned"
    /\ kv' \in {kv, SpoilPass(kv, PassRows), RunPass(kv, PassRows)}
    /\ pc' = "abort" /\ row' = 1
    /\ UNCHANGED <<chunk, pool, table, seq, waiting, running, joining, chosen, plan,
                   told>>

InPlanLoop == row <= Len(plan)
NextRow == row' = row + 1 /\ UNCHANGED <<pc, plan>>

\* abort: every sequence the pass wrote to is cancelled.
AbortRow ==
    /\ pc = "abort"
    /\ InPlanLoop
    /\ LET r == plan[row].id IN
         /\ FreeTable(r)
         /\ seq' = [seq EXCEPT ![r].finish = "stop"]
         /\ running' = Without(running, r)
         /\ told' = [told EXCEPT ![r].end = "failed"]
    /\ NextRow
    /\ UNCHANGED <<chunk, kv, waiting, joining, chosen>>

\* What is left of a prompt once a slice of it was written.
SlipUnderflow(left, written) == left - written
LeftAfter(left, written) == AtLeast(left - written, 0)

\* commit, first loop: the tables move on and what was filled is published.
AdvanceRow ==
    /\ pc = "advance"
    /\ InPlanLoop
    /\ LET r == plan[row].id
           written == Len(plan[row].tokens)
           t == Advance(table[r], written)
       IN  /\ seq' = [seq EXCEPT ![r].prompt_left = LeftAfter(@, written)]
           /\ IF PrefixCache
              THEN /\ table' = [table EXCEPT ![r] = NameFull(t, seq[r].history)]
                   /\ pool' = PublishFull(pool, t, seq[r].history)
              ELSE table' = [table EXCEPT ![r] = t] /\ UNCHANGED pool
    /\ NextRow
    /\ UNCHANGED <<waiting, running, joining, chosen, settled>>

\* How a sequence stands once it was given a token, and what is reported.
SlipOneMore(s, token) ==
    CASE token \in StopTokens -> "stop"
      [] token \notin StopTokens /\ s.generated + 1 > s.max_tokens -> "length"
      [] OTHER -> s.finish
FinishOf(s, token) ==
    CASE token \in StopTokens -> "stop"
      [] token \notin StopTokens /\ s.generated + 1 >= s.max_tokens -> "length"
      [] OTHER -> s.finish
SlipStopReported(tokens, token) == Append(tokens, token)
Reported(tokens, token) ==
    IF token \in StopTokens THEN tokens ELSE Append(tokens, token)

\* commit, second loop: a sampled token for every row that predicts.
EmitRow ==
    /\ pc = "emit"
    /\ InPlanLoop
    /\ LET r == plan[row].id IN
         IF plan[row].predicts
         THEN \E token \in Token :
                /\ seq' = [seq EXCEPT ![r].pending = <<token>>,
                                      ![r].history = Append(@, token),
                                      ![r].generated = @ + 1,
                                      ![r].finish = FinishOf(seq[r], token)]
                /\ told' = [told EXCEPT ![r].tokens = Reported(@, token)]
         ELSE UNCHANGED <<seq, told>>
    /\ NextRow
    /\ UNCHANGED <<chunk, pool, table, kv, waiting, running, joining, chosen>>

EndPlanLoop ==
    /\ pc \in {"advance", "emit", "abort"}
    /\ ~ InPlanLoop
    /\ pc' = CASE pc = "advance" -> "emit" [] pc = "emit" -> "retire" [] OTHER -> "idle"
    /\ row' = 1
    /\ plan' = IF pc = "abort" THEN <<>> ELSE plan
    /\ chosen' = IF pc = "abort" THEN <<>> ELSE chosen
    /\ UNCHANGED <<pool, table, seq, waiting, running, joining, settled>>

Finished == {i \in DOMAIN running : seq[running[i]].finish # "none"}

Retire ==
    /\ pc = "retire"
    /\ Finished # {}
    /\ LET i == CHOOSE i \in Finished : \A j \in Finished : i <= j
           r == running[i]
       IN  /\ running' = RemoveAt(running, i)
           /\ FreeTable(r)
           /\ told' = [told EXCEPT ![r].end = seq[r].finish]
    /\ UNCHANGED <<chunk, kv, seq, waiting, joining, pc, row, chosen, plan>>

EndCommit ==
    /\ pc = "retire"
    /\ Finished = {}
    /\ pc' = "idle" /\ row' = 1 /\ chosen' = <<>> /\ plan' = <<>>
    /\ UNCHANGED <<pool, table, seq, waiting, running, joining, settled>>

-----------------------------------------------------------------------------
Planning ==
    \/ Refuse \/ Plan \/ PutBack
    \/ SkipRow \/ ChooseRow \/ GiveUpMixed \/ Preempt \/ LeaveOut \/ PlanDecode
    \/ EndRows \/ NoPromptToStart \/ StartNextPrompt \/ Join \/ GrowSlice \/ PlanMixed
    \/ CannotAdmit \/ Admit \/ GrowPrompt \/ PlanPrefill
Committing == AbortRow \/ AdvanceRow \/ EmitRow \/ EndPlanLoop \/ Retire \/ EndCommit
Engine == Planning \/ Pass \/ PassFails \/ Committing

Next ==
    \/ \E r \in Request : Submit(r) \/ Cancel(r)
    \/ SetChunk
    \/ Engine

Spec == Init /\ [][Next]_vars

\* The engine thread keeps going for as long as it has a step to take.
FairSpec == Spec /\ WF_vars(Engine)

-----------------------------------------------------------------------------
(* Type invariant. *)

Sequence == [history : Seq(Token), prompt_tokens : Nat, max_tokens : Nat,
             pending : Seq(Token), generated : Nat, preemptions : Nat,
             prompt_left : Nat, finish : Finish]
Report == [submitted : BOOLEAN, tokens : Seq(Token), end : Ends]
PC == {"idle", "parked", "rows", "slice", "joining", "admit", "admitting", "decode",
       "planned", "advance", "emit", "abort", "retire"}

\* The types of the variables.
TypeOK ==
    /\ chunk \in Nat
    /\ pool.free \subseteq Block /\ pool.holders \in [Block -> Nat]
    /\ table \in [Request -> Table]
    /\ kv \in [Block -> [Offset -> Seq(Token)]]
    /\ seq \in [Request -> Sequence]
    /\ waiting \in Seq(Request) /\ running \in Seq(Request)
    /\ joining \in Request \cup {Nobody}
    /\ pc \in PC /\ row \in Nat /\ chosen \in Seq(Nat) /\ plan \in Seq(Row)
    /\ told \in [Request -> Report]

-----------------------------------------------------------------------------
(* Safety. *)

Places(r) == [waiting |-> {i \in DOMAIN waiting : waiting[i] = r},
              running |-> {i \in DOMAIN running : running[i] = r},
              joining |-> {i \in {1} : joining = r}]
Where(r) == LET p == Places(r) IN
    Cardinality(p.waiting) + Cardinality(p.running) + Cardinality(p.joining)

\* A request that was submitted and not yet reported finished is in exactly
\* one queue, once; any other is in none.  Only residents hold blocks.  So no
\* sequence is lost or doubled by preemption, a put-back, a cancel or a failed
\* pass, and none leaves with blocks (scheduler.rs preempt, start_next_prompt,
\* cancel, abort, retire).
QueuesHoldEverySequence ==
    \A r \in Request :
        /\ Where(r) = IF told[r].submitted /\ told[r].end = "none" THEN 1 ELSE 0
        /\ r \notin ToSet(running) \cup {joining} => table[r] = NewTable

\* Every row of a planned pass continues its own sequence where the cache
\* stops: it runs the tokens that come next, at the positions they have, in
\* slots that exist, and reads below them exactly its own history.  It asks
\* for a token if and only if it reaches the end of what is known.  No
\* sequence is in a pass twice (scheduler.rs mixed, admit, decode).
PlansContinueHistories ==
    pc = "planned" =>
        /\ \A i, j \in DOMAIN plan : plan[i].id = plan[j].id => i = j
        /\ \A i \in DOMAIN plan :
             LET r == plan[i].id
                 from == plan[i].pos
                 to == from + Len(plan[i].tokens)
                 past == SubSeq(seq[r].history, 1, from)
             IN  /\ r \in ToSet(running)
                 /\ plan[i].tokens # <<>>
                 /\ from = table[r].tokens
                 /\ to <= Capacity(table[r])
                 /\ plan[i].tokens = SubSeq(seq[r].history, from + 1, to)
                 /\ Holds(kv, table[r], past)
                 /\ plan[i].predicts <=> to = Len(seq[r].history)

Decoders == {i \in DOMAIN running : Len(seq[running[i]].pending) = 1}
Carried == {i \in DOMAIN running : \E k \in DOMAIN plan : plan[k].id = running[i]}

\* With chunked prefill no resident that is decoding is passed over: one that
\* is left out of a pass stands behind as many decoders as the pass may carry,
\* also when the pool runs dry half way (scheduler.rs mixed, decode).
NoDecoderPassedOver ==
    pc = "planned" /\ chunk > 0 =>
        \A i \in Decoders \ Carried :
            /\ Cardinality(Decoders \cap Carried) >= AtMost(MaxBatch, chunk)
            /\ \A j \in Decoders \cap Carried : j < i

\* The tokens the rows of a plan carry together.
Load(p) ==
    LET upto[n \in 0..Len(p)] ==
          IF n = 0 THEN 0 ELSE upto[n - 1] + Len(p[n].tokens)
    IN  upto[Len(p)]

\* No pass carries more tokens than the chunk, slices and decodes together,
\* although the decode a mixed pass falls back to is bounded by the batch
\* alone: a prompt joins only while the chunk has room beside every decoder,
\* so there are never more decoders than the chunk carries (scheduler.rs
\* set_chunk, mixed, decode).  It holds while the chunk stays what it was set
\* to at the start, as the server leaves it.
PassWithinChunk == pc = "planned" /\ chunk > 0 => Load(plan) <= chunk

\* A prompt part-way through its slices finishes before another one starts.
OnePartialPrompt ==
    \A r, q \in ToSet(running) :
        seq[r].prompt_left > 0 /\ seq[q].prompt_left > 0 => r = q

\* The engine waits for an arrival only when nobody is left to serve, although
\* an eviction shifts the running set under the indexes decode keeps.
NeverParkedWithWork == pc = "parked" => waiting = <<>> /\ running = <<>>

\* Between passes a resident wastes at most one block: allocation follows the
\* tokens and not the longest sequence they may become.
WasteIsBounded ==
    pc = "idle" => \A r \in ToSet(running) :
        Capacity(table[r]) - table[r].tokens <= BlockSize

\* Requests start in the order they arrived: while one is still waiting for
\* its first block, a later one has none either, although evicted sequences
\* keep jumping the queue.
Started(r) == r \in ToSet(running) \/ seq[r].preemptions > 0
StartInOrderOfArrival ==
    \A r, q \in Request :
        r < q /\ r \in ToSet(waiting) /\ ~ Started(r) => ~ Started(q)

\* The tokens reported are the output part of the history, without the stop
\* token it may end with: whatever an eviction recomputes, no token is reported
\* twice, lost or changed.
AnswersMatchHistories ==
    \A r \in Request :
        LET made == SubSeq(seq[r].history, seq[r].prompt_tokens + 1,
                           Len(seq[r].history))
        IN  /\ told[r].tokens \in Seq(Token \ StopTokens)
            /\ \/ made = told[r].tokens
               \/ \E t \in StopTokens : made = Append(told[r].tokens, t)

\* A generation that ends for its length was given every token it asked for,
\* or has outgrown the whole pool; one that ends on a stop token has one.
EndsFitTheAnswer ==
    \A r \in Request :
        LET s == seq[r] IN
        /\ told[r].end = "length" =>
             s.generated >= s.max_tokens \/ Span(s.history) > Cardinality(Block)
        /\ told[r].end = "stop" => s.history[Len(s.history)] \in StopTokens

-----------------------------------------------------------------------------
(* What the source says of the scheduler and the code does not keep. *)

\* scheduler.rs:19 "The sequence evicted is the newest, so the one that has
\* waited longest never pays": an evicted resident has an older one beside it.
OldestIsNeverEvicted ==
    [][\A r \in ToSet(running) : r \in ToSet(waiting') =>
          \E q \in ToSet(running) : q < r]_vars

\* session.rs:26 "Most tokens to produce."
AnswerWithinMaxTokens ==
    \A r \in Request : Len(told[r].tokens) <= seq[r].max_tokens

\* scheduler.rs:117, of Plan::Idle: "Nothing is waiting and nothing can run."
IdleMeansNothingWaits == pc = "parked" => waiting = <<>>

-----------------------------------------------------------------------------
(* Refinement. *)

Inflight(r) ==
    LET K == {k \in DOMAIN plan : pc = "advance" /\ k >= row /\ plan[k].id = r}
    IN  IF K = {} THEN 0 ELSE Len(plan[CHOOSE k \in K : TRUE].tokens)

KV == INSTANCE PagedKV WITH
        Owner <- Request,
        history <- [r \in Request |-> seq[r].history],
        inflight <- [r \in Request |-> Inflight(r)],
        prefix_cache <- PrefixCache

\* The scheduler uses the pool, the tables and the cache as PagedKV allows, so
\* what PagedKV guarantees of them under any schedule holds under this one.
ImplementsPagedKV == KV!Spec

Answers == INSTANCE Generation WITH
        answer <- told,
        limit <- [r \in Request |-> AtLeast(seq[r].max_tokens, 1)]

\* To its caller the scheduler is a set of answers that grow and end once.
ImplementsGeneration == Answers!Spec

-----------------------------------------------------------------------------
(* Liveness. *)

\* Every request that was submitted gets its end, however often it is evicted.
EveryRequestEnds == \A r \in Request : told[r].submitted ~> told[r].end # "none"
=============================================================================
