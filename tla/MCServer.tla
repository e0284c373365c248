------------------------------ MODULE MCServer ------------------------------
(* Small instances of Server for TLC. *)
EXTENDS Server, TLC

Symmetry == Permutations(Handler)

\* A threadgroup of two threads and eight floats, and one of twelve.
OnChip == [metal |-> 32, cuda |-> 48]

Started == [device |-> "metal", require_gpu |-> TRUE, dtype |-> Some("bf16"),
            block_size |-> 2, cache_bytes |-> 32, max_tokens |-> 2,
            attention |-> "kernel", prefix_cache |-> "on", chunk |-> 2]
\* Every device and attention, with blocks that divide the kernel's positions
\* and blocks that do not, pools that are shorter than the rotary table and
\* pools that are longer, prompts in slices and whole, and what is refused.
CommandLines ==
    {[Started EXCEPT !.device = d, !.require_gpu = FALSE, !.attention = a,
                     !.block_size = b, !.cache_bytes = c, !.chunk = k] :
        d \in {"cpu", "metal", "cuda"}, a \in {"kernel", "tensor"}, b \in {0, 2, 4},
        c \in {12, 40}, k \in {Off, 2}}
    \cup {[Started EXCEPT !.device = "cpu"], [Started EXCEPT !.attention = "flash"],
          [Started EXCEPT !.prefix_cache = "yes"], [Started EXCEPT !.chunk = NoNumber],
          [Started EXCEPT !.chunk = 0], [Started EXCEPT !.dtype = None]}

Model == [supported |-> TRUE, heads |-> 2, kv_heads |-> 1, head_dim |-> 1,
          layers |-> 1, positions |-> 9, dtype |-> "bf16", chat_template |-> TRUE,
          temperature |-> Some(60), top_p |-> Some(95), top_k |-> None]
Models == {Model, [Model EXCEPT !.positions = 5, !.temperature = Some(0),
                                !.chat_template = FALSE],
           [Model EXCEPT !.kv_heads = 3]}

Asks == [api |-> "completions", fields |-> [f \in Field |-> "absent"],
         echo |-> FALSE, readable |-> TRUE, prompt |-> 1, max_tokens |-> Some(1),
         max_completion_tokens |-> None, temperature |-> None, top_p |-> None,
         top_k |-> None]
Sizes == {[Asks EXCEPT !.prompt = n, !.max_tokens = m] :
             n \in {0, 1, 3, 4, 6}, m \in {None, Some(0), Some(2), Some(3)}}
Fields == {[Asks EXCEPT !.fields = [@ EXCEPT ![f] = v]] :
             f \in {"n", "stop", "logprobs"}, v \in {"default", "set"}}
Samplings == {[Asks EXCEPT !.temperature = t, !.top_p = p, !.top_k = k] :
             t \in {None, Some(-1), Some(0), Some(150)},
             p \in {None, Some(101)}, k \in {None, Some(0)}}
Others == {[Asks EXCEPT !.api = "chat", !.max_completion_tokens = Some(2)],
           [Asks EXCEPT !.api = "chat", !.echo = TRUE, !.max_tokens = None],
           [Asks EXCEPT !.top_p = Some(50), !.top_k = Some(2)], [Asks EXCEPT !.echo = TRUE], [Asks EXCEPT !.readable = FALSE]}
Bodies == Sizes \cup Fields \cup Samplings \cup Others

\* A checkpoint in single precision, started with --dtype auto.
Automatic == {[Started EXCEPT !.dtype = None, !.cache_bytes = 64]}
Wide == {[Model EXCEPT !.dtype = "f32"]}
=============================================================================
