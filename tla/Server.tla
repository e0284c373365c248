------------------------------- MODULE Server -------------------------------
(***************************************************************************)
(* From the command line to a pass that fits: what the server sizes when   *)
(* it starts (crates/pagedllm-server/src/main.rs, engine.rs Engine::start) *)
(* and what its handlers let through to the engine (routes.rs, openai.rs). *)
(*                                                                         *)
(* The promise of routes.rs, budget, is that a sequence that would outgrow *)
(* the kernel, the rotary table or the pool is turned away at the door.    *)
(* The numbers it rests on are computed in three places, from three        *)
(* inputs: here they are put together, and the sequences let through are   *)
(* run to their last token.                                                *)
(*                                                                         *)
(* Which sequences share a pass is Scheduler's business: here any may.     *)
(* Sizes are in bytes and do not overflow.                                 *)
(*                                                                         *)
(* Definitions named Slip... say what a plausible slip would make of the   *)
(* definition that follows them.                                           *)
(***************************************************************************)
EXTENDS Integers, Sequences, FiniteSets

CONSTANTS
    Arguments,   \* the command lines the server is started with
    Checkpoints, \* the models it finds
    Requests,    \* the bodies clients post
    Handler,     \* the handlers that run at the same time
    Shared,      \* GPU device -> bytes of on-chip memory a kernel gets
    Threads      \* THREADS, the threads of a threadgroup

\* An optional value is a sequence of at most one.
None == <<>>
Some(x) == <<x>>
Or(option, other) == IF option = None THEN other ELSE option
UnwrapOr(option, default) == IF option = None THEN default ELSE option[1]
Options(S) == {option \in Seq(S) : Len(option) <= 1}

AtLeast(a, b) == IF a >= b THEN a ELSE b
AtMost(a, b) == IF a <= b THEN a ELSE b
CeilDiv(a, b) == (a + b - 1) \div b

SizeInBytes == [f32 |-> 4, bf16 |-> 2]
DType == DOMAIN SizeInBytes
Device == {"cpu"} \cup DOMAIN Shared

\* The values --chunk takes besides token counts: off, and what is no number.
Off == -1
NoNumber == -2

\* The fields openai.rs reads in order to refuse them, in the order refused
\* looks at them, and those with a value that asks for nothing.
Unsupported == <<"n", "stop", "tools", "tool_choice", "functions", "logit_bias",
                 "logprobs", "top_logprobs", "frequency_penalty", "presence_penalty",
                 "response_format">>
Field == {Unsupported[i] : i \in DOMAIN Unsupported}
WithDefault == {"n", "logprobs", "frequency_penalty", "presence_penalty"}

Args == [device : Device, require_gpu : BOOLEAN, dtype : Options(DType),
         block_size : Nat, cache_bytes : Nat, max_tokens : Nat,
         attention : STRING, prefix_cache : STRING, chunk : Nat \cup {Off, NoNumber}]
\* Temperatures and probabilities are in hundredths.
Config == [supported : BOOLEAN, heads : Nat \ {0}, kv_heads : Nat \ {0},
           head_dim : Nat \ {0}, layers : Nat \ {0}, positions : Nat,
           dtype : DType, chat_template : BOOLEAN,
           temperature : Options(Int), top_p : Options(Int), top_k : Options(Nat)]
\* A body is readable when its prompt is one string, or its messages fit the
\* template, and the tokenizer takes the text; prompt is then its length.
Body == [api : {"chat", "completions"}, fields : [Field -> {"absent", "default", "set"}],
         echo : BOOLEAN, readable : BOOLEAN, prompt : Nat,
         max_tokens : Options(Nat), max_completion_tokens : Options(Nat),
         temperature : Options(Int), top_p : Options(Int), top_k : Options(Nat)]

ASSUME ServerAssumption ==
    /\ Arguments \subseteq Args
    /\ Checkpoints \subseteq Config
    /\ Requests \subseteq Body
    /\ Threads \in Nat \ {0}
    /\ Shared \in [DOMAIN Shared -> Nat]
    /\ \A d \in DOMAIN Shared : Shared[d] >= 4 * Threads

VARIABLES
    args,     \* the command line
    config,   \* the model's config.json, generation config and checkpoint
    phase,    \* how far the server has come
    pool,     \* PoolConfig's blocks, from the budget
    engine,   \* what Engine::start says of the loaded model
    handler,  \* handler -> the request it holds and what became of it
    failed    \* whether a pass failed for want of room

vars == <<args, config, phase, pool, engine, handler, failed>>

-----------------------------------------------------------------------------
(* The pool, as main sizes it and as the engine thread allocates it. *)

BytesPerToken(dtype) ==
    2 * config.layers * config.kv_heads * config.head_dim * SizeInBytes[dtype]
Bytes(blocks, dtype) == blocks * args.block_size * BytesPerToken(dtype)
BlocksWithin(budget, dtype) ==
    LET perBlock == args.block_size * BytesPerToken(dtype)
    IN  AtLeast(budget \div AtLeast(perBlock, 1), 1)

\* main sizes the pool before the model is loaded, for bf16 unless told.
DTypeForPool == UnwrapOr(args.dtype, "bf16")
\* Model::load_as keeps the checkpoint's dtype unless told.
ModelDType == UnwrapOr(args.dtype, config.dtype)

\* The longest context the kernel takes on this device.
SlipUnrounded == Shared[args.device] \div 4 - Threads
SlipMixesBytesAndFloats ==
    LET size == AtLeast(args.block_size, 1)
    IN  (AtLeast(Shared[args.device] \div 4 - 4 * Threads, 0) \div size) * size
KernelContext ==
    LET size == AtLeast(args.block_size, 1)
    IN  ((Shared[args.device] \div 4 - Threads) \div size) * size

OnKernel == args.attention = "kernel" /\ args.device \in DOMAIN Shared
MaxContext ==
    LET longest == IF OnKernel THEN AtMost(KernelContext, config.positions)
                   ELSE config.positions
    IN  AtMost(longest, pool * args.block_size)

-----------------------------------------------------------------------------
(* Starting. *)

Idle == [request |-> None, reply |-> "none", sampling |-> None, limit |-> 0,
         held |-> 0, left |-> 0]

Init ==
    /\ args \in Arguments
    /\ config \in Checkpoints
    /\ phase = "parsing"
    /\ pool = 0
    /\ engine = [max_context |-> 0, cache_bytes |-> 0]
    /\ handler = [h \in Handler |-> Idle]
    /\ failed = FALSE

\* Config::validate, which main and the engine thread both go through.
Valid == config.supported /\ config.heads % config.kv_heads = 0

Startable ==
    /\ args.require_gpu => args.device # "cpu"
    /\ Valid
    /\ args.attention \in {"kernel", "tensor"}
    /\ args.prefix_cache \in {"on", "off"}
    /\ args.chunk \notin {NoNumber, 0}

\* main, up to Engine::start.
SizePool ==
    /\ phase = "parsing" /\ Startable
    /\ phase' = "loading"
    /\ pool' = BlocksWithin(args.cache_bytes, DTypeForPool)
    /\ UNCHANGED <<args, config, engine, handler, failed>>

\* main returns an error, and nothing was started.
RefuseToStart ==
    /\ phase = "parsing" /\ ~ Startable
    /\ phase' = "refused"
    /\ UNCHANGED <<args, config, pool, engine, handler, failed>>

\* The engine thread has loaded the model and allocated the pool.
Load ==
    /\ phase = "loading"
    /\ phase' = "serving"
    /\ engine' = [max_context |-> MaxContext, cache_bytes |-> Bytes(pool, ModelDType)]
    /\ UNCHANGED <<args, config, pool, handler, failed>>

\* The weights are not there, have another shape, or do not fit the device.
LoadFails ==
    /\ phase = "loading"
    /\ phase' = "refused"
    /\ UNCHANGED <<args, config, pool, engine, handler, failed>>

-----------------------------------------------------------------------------
(* What a handler decides, check by check, in its order. *)

\* Unsupported::refused names the first.
IsRefused(body, field) ==
    \/ body.fields[field] = "set"
    \/ body.fields[field] = "default" /\ field \notin WithDefault
Refused(body) == \E field \in Field : IsRefused(body, field)

\* What is wrong with the request before its length matters.
Unreadable(body) ==
    \/ ~ body.readable
    \/ body.api = "chat" /\ ~ config.chat_template
    \/ body.api = "completions" /\ body.echo

Asked(body) ==
    IF body.api = "chat" THEN Or(body.max_completion_tokens, body.max_tokens)
    ELSE body.max_tokens
Left(body) == AtLeast(engine.max_context - body.prompt, 0)
TooLong(body) ==
    \/ Left(body) = 0
    \/ Asked(body) # None /\ Asked(body)[1] > Left(body)
\* The value of budget, for a request that is not too long.
SlipDefaultCaps(body) == AtMost(args.max_tokens, UnwrapOr(Asked(body), Left(body)))
Budget(body) == UnwrapOr(Asked(body), AtMost(args.max_tokens, Left(body)))

Temperature(body) == UnwrapOr(Or(body.temperature, config.temperature), 100)
SamplingOf(body) ==
    LET greedy == Temperature(body) <= 0
    IN  [temperature |-> Temperature(body),
         top_p |-> IF greedy THEN None ELSE Or(body.top_p, config.top_p),
         top_k |-> IF greedy THEN None ELSE Or(body.top_k, config.top_k)]
\* Sampling::new.
InRange(sampling) ==
    /\ sampling.temperature >= 0
    /\ sampling.top_k # Some(0)
    /\ sampling.top_p # None => sampling.top_p[1] \in 1..100

Reply(body) ==
    IF Refused(body) THEN "unsupported"
    ELSE IF Unreadable(body) THEN "unreadable"
    ELSE IF body.prompt = 0 THEN "empty"
    ELSE IF TooLong(body) THEN "too long"
    ELSE IF ~ InRange(SamplingOf(body)) THEN "out of range"
    ELSE "admitted"

Handle(h, body) ==
    /\ phase = "serving"
    /\ handler[h] = Idle
    /\ handler' = [handler EXCEPT ![h] =
           IF Reply(body) # "admitted"
           THEN [Idle EXCEPT !.request = Some(body), !.reply = Reply(body)]
           ELSE [request |-> Some(body), reply |-> "admitted",
                 sampling |-> Some(SamplingOf(body)), limit |-> Budget(body),
                 held |-> 0, left |-> AtLeast(Budget(body), 1)]]
    /\ UNCHANGED <<args, config, phase, pool, engine, failed>>

-----------------------------------------------------------------------------
(* The passes of those it lets through. *)

Admitted(h) == handler[h].reply = "admitted"
Running(h) == Admitted(h) /\ handler[h].left > 0
Prompt(h) == handler[h].request[1].prompt

\* How many tokens a sequence's next pass may carry: the whole prompt or a
\* slice of it, then one at a time.
SlipFullSlices(h) == IF handler[h].held >= Prompt(h) THEN {1} ELSE 1..args.chunk
Carried(h) ==
    IF handler[h].held >= Prompt(h) THEN {1}
    ELSE IF args.chunk = Off THEN {Prompt(h) - handler[h].held}
    ELSE 1..AtMost(args.chunk, Prompt(h) - handler[h].held)

\* What a pass reaching this context needs: an angle for each position, blocks
\* to hold it, and scores and scratch on the chip when the kernel runs.
KernelFits(context) ==
    (CeilDiv(context, args.block_size) * args.block_size + Threads) * 4
        <= Shared[args.device]
HasRoom(context, onKernel) ==
    /\ context <= config.positions
    /\ context <= pool * args.block_size
    /\ onKernel => KernelFits(context)

\* One pass, over rows that each carry some of a sequence's tokens.  A prompt
\* run whole is alone in its pass, and longer than a token never on the kernel.
Pass(rows, carried) ==
    /\ phase = "serving"
    /\ \A h \in rows : Running(h) /\ carried[h] \in Carried(h)
    /\ args.chunk = Off => \/ \A h \in rows : handler[h].held >= Prompt(h)
                           \/ Cardinality(rows) = 1
    /\ LET decodes == args.chunk # Off \/ \A h \in rows : carried[h] = 1
       IN  failed' = (failed \/ \E h \in rows :
               ~ HasRoom(handler[h].held + carried[h], OnKernel /\ decodes))
    /\ handler' = [h \in Handler |->
           IF h \notin rows THEN handler[h]
           ELSE LET held == handler[h].held + carried[h]
                IN  [handler[h] EXCEPT
                        !.held = held,
                        !.left = IF held < Prompt(h) THEN @ ELSE @ - 1]]
    /\ UNCHANGED <<args, config, phase, pool, engine>>

\* The handler has returned its answer.
Return(h) ==
    /\ handler[h] # Idle
    /\ ~ Running(h)
    /\ handler' = [handler EXCEPT ![h] = Idle]
    /\ UNCHANGED <<args, config, phase, pool, engine, failed>>

Next ==
    \/ SizePool \/ RefuseToStart \/ Load \/ LoadFails
    \/ \E h \in Handler, body \in Requests : Handle(h, body)
    \/ \E rows \in SUBSET {h \in Handler : Running(h)} \ {{}} :
         \E carried \in [rows -> UNION {Carried(h) : h \in rows}] : Pass(rows, carried)
    \/ \E h \in Handler : Return(h)

Spec == Init /\ [][Next]_vars

-----------------------------------------------------------------------------
(* Properties. *)

\* The state is of the shape the code gives it; a sequence that is not done
\* has a token to produce.
TypeOK ==
    /\ args \in Arguments /\ config \in Checkpoints
    /\ phase \in {"parsing", "loading", "serving", "refused"}
    /\ pool \in Nat
    /\ engine \in [max_context : Nat, cache_bytes : Nat]
    /\ failed \in BOOLEAN
    /\ DOMAIN handler = Handler
    /\ \A h \in Handler :
         /\ handler[h].request = None <=> handler[h].reply = "none"
         /\ Admitted(h) =>
              /\ handler[h].held \in 0..(Prompt(h) + handler[h].limit)
              /\ handler[h].left \in 0..AtLeast(handler[h].limit, 1)

\* A sequence that was let through never fails part way for want of room: no
\* pass it takes part in asks for a position the rotary table does not have,
\* more blocks than the pool has, or more on-chip memory than the device gives
\* the kernel.  budget (routes.rs:104-110) promises it from max_context, which
\* mod.rs, paged_attention.rs and engine.rs put together.
AdmittedSequencesFit == ~ failed

\* The door is not closed for nothing: a request turned away for its length
\* asks for a context, counting one token where it names no limit, that a
\* pass could not have held.
TurnedAwayWouldNotFit ==
    \A h \in Handler :
        handler[h].reply = "too long" /\ args.block_size > 0 =>
            LET body == handler[h].request[1]
                asked == IF Left(body) = 0 THEN 1 ELSE Asked(body)[1]
            IN  ~ HasRoom(body.prompt + asked, OnKernel)

\* What reaches the engine is what was asked: nothing this server cannot do,
\* a limit that was named and not shortened, a sampling setting that was named
\* and not replaced, and in its range (openai.rs:3-7, routes.rs:104-106).
HonouredOrRefused ==
    \A h \in Handler : Admitted(h) =>
        LET body == handler[h].request[1]
            sampling == handler[h].sampling[1]
            limits == IF body.api = "chat"
                      THEN {body.max_tokens, body.max_completion_tokens} \ {None}
                      ELSE {body.max_tokens} \ {None}
        IN  /\ \A field \in Field : body.fields[field] # "set"
            /\ limits # {} => Some(handler[h].limit) \in limits
            /\ body.temperature # None => sampling.temperature = body.temperature[1]
            /\ sampling.temperature > 0 =>
                 /\ body.top_p # None => sampling.top_p = body.top_p
                 /\ body.top_k # None => sampling.top_k = body.top_k
            /\ InRange(sampling)

\* "Bytes the KV cache may take, in mebibytes" (main.rs:46): what the engine
\* allocates is within the budget, when the budget holds a block.
PoolWithinCacheBudget ==
    phase = "serving" /\ Bytes(1, ModelDType) <= args.cache_bytes =>
        engine.cache_bytes <= args.cache_bytes
=============================================================================
