------------------------------ MODULE MCKernel ------------------------------
(* A small instance of Kernel for TLC: two rows of five blocks each, which do *)
(* not follow one another in the pool.                                        *)
EXTENDS Kernel

Tables == [i \in 0..9 |-> <<4, 1, 7, 0, 3, 9, 8, 2, 5, 6>>[i + 1]]

\* Small numbers that repeat late.
Spread(n) == [i \in 0..(n - 1) |-> ((i * i + 3 * i) % 5) - 2]
Queries == Spread(Rows * NumHeads * HeadDim)
Pool == Spread(10 * BlockSize * KvHeads * HeadDim)
OtherPool == [i \in DOMAIN Pool |-> 3 - Pool[i]]
=============================================================================
