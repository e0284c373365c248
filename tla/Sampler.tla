------------------------------- MODULE Sampler -------------------------------
(***************************************************************************)
(* Picking the next token (crates/pagedllm/src/sampler.rs, Sampling::sample*)
(* and argmax), as operators.                                              *)
(*                                                                         *)
(* A token is its number.  What the softmax makes of a logit is a whole    *)
(* number, its weight: the temperature is in it already, and only whether  *)
(* it is zero is told apart.  A draw is one of Draws evenly spaced points  *)
(* of [0, 1), as next_f32 gives.  Ties are broken in some fixed way: the   *)
(* code's sort is unstable but has no choice.                              *)
(*                                                                         *)
(* Definitions named Slip... say what a plausible slip would make of the   *)
(* definition that follows them.                                           *)
(***************************************************************************)
EXTENDS Integers, Sequences, FiniteSets

CONSTANT Draws     \* how many values next_f32 takes

ASSUME SamplerAssumption == Draws \in Nat \ {0}

\* Probabilities are in hundredths; zero for top_k and 100 for top_p ask for
\* nothing.
Sampling == [greedy : BOOLEAN, top_k : Nat, top_p : 1..100]

Vocabulary(weights) == 1..Len(weights)
Mass(weights, S) ==
    LET sum[n \in 0..Len(weights)] ==
          IF n = 0 THEN 0 ELSE sum[n - 1] + (IF n \in S THEN weights[n] ELSE 0)
    IN  sum[Len(weights)]

\* The loop over the logits keeps the first of the largest.
ArgMax(weights) ==
    CHOOSE t \in Vocabulary(weights) : \A u \in Vocabulary(weights) :
        /\ weights[u] <= weights[t]
        /\ u < t => weights[u] < weights[t]

\* The k heaviest.
Heaviest(weights, k) ==
    IF k = 0 \/ k >= Len(weights) THEN Vocabulary(weights)
    ELSE CHOOSE S \in SUBSET Vocabulary(weights) :
           /\ Cardinality(S) = k
           /\ \A t \in S, u \in Vocabulary(weights) \ S : weights[t] >= weights[u]

\* Those in falling order.
Sorted(weights, S) ==
    CHOOSE order \in [1..Cardinality(S) -> S] :
        \A i, j \in 1..Cardinality(S) :
            i < j => order[i] # order[j] /\ weights[order[i]] >= weights[order[j]]

Running(weights, order, i) == Mass(weights, {order[j] : j \in 1..i})

\* How many of the candidates reach the share top_p asks for, the one that
\* crosses it among them.
SlipDropsCrossing(weights, order, p) ==
    LET total == Running(weights, order, Len(order))
    IN  CHOOSE keep \in 1..Len(order) :
          /\ keep = 1 \/ Running(weights, order, keep) * 100 < p * total
          /\ keep = Len(order) \/ Running(weights, order, keep + 1) * 100 >= p * total
Kept(weights, order, p) ==
    LET total == Running(weights, order, Len(order))
    IN  CHOOSE keep \in 1..Len(order) :
          /\ Running(weights, order, keep) * 100 >= p * total
          /\ \A i \in 1..(keep - 1) : Running(weights, order, i) * 100 < p * total

\* The candidates of a draw, heaviest first.
Candidate(weights, sampling) ==
    LET order == Sorted(weights, Heaviest(weights, sampling.top_k))
    IN  IF sampling.top_p = 100 THEN order
        ELSE SubSeq(order, 1, Kept(weights, order, sampling.top_p))

\* The first candidate at which the weights passed add up to the point drawn.
Drawn(weights, order, draw) ==
    LET point == draw * Running(weights, order, Len(order))
    IN  order[CHOOSE i \in 1..Len(order) :
          /\ Running(weights, order, i) * Draws >= point
          /\ \A j \in 1..(i - 1) : Running(weights, order, j) * Draws < point]

\* The token, and whether picking it took a draw.
Draw(weights, sampling, draw) ==
    IF sampling.greedy THEN ArgMax(weights)
    ELSE Drawn(weights, Candidate(weights, sampling), draw)
=============================================================================
