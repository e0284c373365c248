------------------------------ MODULE MCForward ------------------------------
(* A small instance of Forward for TLC. *)
EXTENDS Forward, TLC

CONSTANTS
    r1, r2,
    MaxClock      \* bound on the number of times a block is freed

\* The weights of three tokens, turned by what the prefix is, with a tie.
Turns == << <<5, 3, 2>>, <<2, 5, 3>>, <<3, 2, 5>>, <<4, 2, 4>> >>
Turned(prefix) ==
    LET sum[n \in 0..Len(prefix)] ==
          IF n = 0 THEN 0 ELSE sum[n - 1] + n * prefix[n]
    IN  IF prefix = Garbage THEN <<1, 1, 8>> ELSE Turns[(sum[Len(prefix)] % 4) + 1]

Prompts2 == (r1 :> <<1, 1, 1>>) @@ (r2 :> <<1, 1>>)
Lengths2 == (r1 :> 5) @@ (r2 :> 4)
Settings2 ==
    (r1 :> [greedy |-> FALSE, top_k |-> 0, top_p |-> 80])
    @@ (r2 :> [greedy |-> TRUE, top_k |-> 0, top_p |-> 100])
Stream2 == (r1 :> <<7, 2>>) @@ (r2 :> <<0, 0>>)

\* Next within the bounds; at most one pass fails.
MCNext ==
    \/ \E r \in Owner : Claim(r) \/ Grow(r) \/ Commit(r) \/ Extend(r)
    \/ \E r \in Owner : Free(r) /\ pool'.clock <= MaxClock
    \/ \E r \in Owner : Prefill(r)
    \/ \E rs \in Decoders : Decode(rs)
    \/ \E rs \in Decoders, s \in Owner : \E take \in KV!Runnable(s) : Mixed(rs, s, take)
    \/ Layer \/ Finish
    \/ ended = {} /\ Fail
MCSpec == Init /\ [][MCNext]_vars

\* What the settings ask of a token drawn from some weights, said without the
\* order the candidates are kept in.
Likely(weights, sampling, t) ==
    LET heavier == {u \in Vocabulary(weights) : weights[u] > weights[t]}
        k == IF sampling.top_k = 0 THEN Len(weights) ELSE sampling.top_k
        top == CHOOSE S \in SUBSET Vocabulary(weights) :
                 /\ Cardinality(S) = AtMost(k, Len(weights))
                 /\ \A u \in S, v \in Vocabulary(weights) \ S : weights[u] >= weights[v]
    IN  IF sampling.greedy THEN heavier = {}
        ELSE /\ Cardinality(heavier) < k
             /\ Mass(weights, heavier) * 100 < sampling.top_p * Mass(weights, top)

\* Over all its draws, a setting gives only likely tokens, each its share of the
\* draws to within one, and leaves a likely one out only for another as heavy.
SharesFollowWeights(weights, sampling) ==
    LET given(t) == Cardinality({d \in 0..(Draws - 1) : Draw(weights, sampling, d) = t})
        kept == {t \in Vocabulary(weights) : given(t) > 0}
        total == Mass(weights, kept)
        gap(t) == given(t) * total - Draws * weights[t]
    IN  /\ \A t \in kept :
             /\ Likely(weights, sampling, t)
             /\ sampling.greedy \/ (gap(t) <= total /\ gap(t) >= -total)
        /\ \A t \in Vocabulary(weights) : Likely(weights, sampling, t) =>
             \E u \in kept : weights[u] = weights[t]

SomeSettings == [greedy : {FALSE}, top_k : 0..3, top_p : {40, 50, 51, 80, 100}]
                \cup [greedy : {TRUE}, top_k : {0}, top_p : {100}]

LikelyAfter == [weights \in {Turns[i] : i \in DOMAIN Turns} |->
    \A sampling \in SomeSettings : SharesFollowWeights(weights, sampling)]

\* Every token the next draw could give a sequence is among those its settings
\* leave, the one that crosses the share of top_p included, and as likely as
\* its weight says (sampler.rs Sampling::sample).
TokensAreLikely == \A r \in Owner : LikelyAfter[Logits(history[r])]

Symmetry == Permutations(Block)
=============================================================================
