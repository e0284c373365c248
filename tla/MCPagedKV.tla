------------------------------ MODULE MCPagedKV ------------------------------
(* Small instances of PagedKV for TLC. *)
EXTENDS PagedKV, TLC

CONSTANTS
    MaxClock,   \* bound on the number of times a block is freed
    MaxLength   \* bound on the length of a history and on the room taken for it

\* Every sequence starts with the same full block and one token more.
SharingPrompts == {<<1, 1, 1>>}

\* A pass that spoils two owners is two that spoil one, and the slots spoiled
\* by a short one are among those of the longest.
Spoils(n) ==
    /\ Cardinality(DOMAIN n) = 1
    /\ \A r \in DOMAIN n : n[r] + 1 \notin Runnable(r)

\* Next within the bounds.
MCNext ==
    \/ \E r \in Owner : Claim(r) \/ Commit(r)
    \/ \E r \in Owner : Capacity(table[r]) < MaxLength /\ Grow(r)
    \/ \E r \in Owner : Len(history[r]) < MaxLength /\ Sample(r)
    \/ \E r \in Owner : Free(r) /\ pool'.clock <= MaxClock
    \/ \E n \in Passes : Run(n)
    \/ \E n \in Passes : Spoils(n) /\ Spoil(n)
    \/ \E enabled \in BOOLEAN : enabled # prefix_cache /\ SetPrefixCache(enabled)

MCSpec == Init /\ [][MCNext]_vars

Symmetry == Permutations(Block) \cup Permutations(Owner)
=============================================================================
