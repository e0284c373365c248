----------------------------- MODULE MCScheduler -----------------------------
(* Small instances of Scheduler for TLC. *)
EXTENDS Scheduler

\* A prompt of one token, and one whose first block others can share.
TwoPrompts == {<<1>>, <<1, 1, 1>>}

\* Prompts of at most one block.
ShortPrompts == {<<1>>, <<1, 1>>}

\* Up to one token more than two blocks of two hold.
LongPrompts == {<<1>>, <<1, 1, 1>>, <<1, 1, 1, 1, 1>>}

\* No pass fails and nobody cancels: what is left of Next for longer workloads.
CalmNext == (\E r \in Request : Submit(r)) \/ Planning \/ Pass \/ Committing
CalmSpec == Init /\ [][CalmNext]_vars

\* At most one pass fails and at most one request is cancelled.
Ended(how) == {r \in Request : told[r].end = how}
RoughNext ==
    \/ CalmNext
    \/ \E r \in Request : Ended("cancelled") = {} /\ Cancel(r)
    \/ Ended("failed") = {} /\ PassFails
RoughSpec == Init /\ [][RoughNext]_vars

CalmFairSpec == CalmSpec /\ WF_vars(Engine)

Symmetry == Permutations(Block)
=============================================================================
