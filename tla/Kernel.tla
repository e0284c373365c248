------------------------------- MODULE Kernel -------------------------------
(***************************************************************************)
(* The hand-written attention kernel (kernels/paged_attention.metal and    *)
(* its port paged_attention.cu): one threadgroup, which answers for one    *)
(* head of one row.                                                        *)
(*                                                                         *)
(* The threads run the program's segments, the pieces between two          *)
(* barriers, in any order a barrier allows.  A segment is one step of its  *)
(* thread: the accesses to threadgroup memory are recorded, and where no   *)
(* two threads touch one place between two barriers (NoRaces) it makes no  *)
(* difference how finely the segments are cut.                             *)
(*                                                                         *)
(* Floats are whole numbers and the quotient at the end is a pair.         *)
(*                                                                         *)
(* Definitions named Slip... say what a plausible slip would make of the   *)
(* definition that follows them; each is caught by a property.             *)
(***************************************************************************)
EXTENDS Integers, Sequences, FiniteSets

CONSTANTS
    Threads,      \* in the group, a power of two
    Lanes,        \* in a SIMD group or warp; divides Threads
    BlockSize, MaxBlocks, HeadDim, NumHeads, KvHeads,
    Rows,         \* rows of the batch
    BlockTable,   \* flat, MaxBlocks for each row
    Lengths,      \* the lengths context_lens may give a row
    Query, KPool, VPool    \* flat tensors

ASSUME KernelAssumption ==
    /\ Threads \in Nat \ {0} /\ Lanes \in Nat \ {0}
    /\ BlockSize \in Nat /\ MaxBlocks \in Nat
    /\ \E n \in 0..Threads : 2 ^ n = Threads
    /\ Threads % Lanes = 0 /\ NumHeads % KvHeads = 0
    /\ Lengths \subseteq 0..(MaxBlocks * BlockSize)

VARIABLES
    group,      \* which threadgroup: its row, its head, the row's length and
                \* the backend it runs on
    pc,         \* thread -> the segment it runs next
    shared,     \* threadgroup memory: the scores, then the reduction scratch
    local,      \* thread -> what it keeps in registers: peak and total
    out,        \* dimension -> what was written, as a quotient
    touched     \* accesses to shared since the last barrier (auxiliary)

vars == <<group, pc, shared, local, out, touched>>

Tid == 0..(Threads - 1)
Dim == 0..(HeadDim - 1)
Longest == MaxBlocks * BlockSize
MinusInfinity == -1000
Uninitialised == 1000

Sum(f) ==
    LET sum[S \in SUBSET DOMAIN f] ==
          IF S = {} THEN 0
          ELSE LET i == CHOOSE j \in S : TRUE IN f[i] + sum[S \ {i}]
    IN  sum[DOMAIN f]
Larger(a, b) == IF a >= b THEN a ELSE b
Exp(x) == IF x > 0 THEN -1 ELSE IF x < -20 THEN 0 ELSE 2 ^ (20 + x)

\* The places a loop from first by stride visits below a limit.
Strided(first, stride, limit) == {i \in first..(limit - 1) : (i - first) % stride = 0}

-----------------------------------------------------------------------------
(* Where things are. *)

KvHead(head) == head \div (NumHeads \div KvHeads)
SlotOf(row, pos) ==
    BlockTable[row * MaxBlocks + pos \div BlockSize] * BlockSize + (pos % BlockSize)
Vector(row, head, pos) ==
    SlotOf(row, pos) * KvHeads * HeadDim + KvHead(head) * HeadDim
QHead(row, head) == (row * NumHeads + head) * HeadDim

ctx == group.ctx
Q(d) == Query[QHead(group.row, group.head) + d]
K(pos, d) == KPool[Vector(group.row, group.head, pos) + d]
V(pos, d) == VPool[Vector(group.row, group.head, pos) + d]

\* Places in threadgroup memory.
Score(i) == i
Scratch(t) == Longest + t

-----------------------------------------------------------------------------
(* The program. *)

\* The strides of a tree reduction, halved until none is left.
SlipStopsAtTwo == {s \in 2..(Threads \div 2) : \E n \in 0..Threads : s = 2 ^ n}
Strides == {s \in 1..(Threads \div 2) : \E n \in 0..Threads : s = 2 ^ n}

Rank(s) == Cardinality({u \in Strides : u >= s})
Tree(op) ==
    [i \in 1..Cardinality(Strides) |->
        [op |-> op, stride |-> CHOOSE s \in Strides : Rank(s) = i]]
Plain(op) == << [op |-> op, stride |-> 0] >>

Program ==
    Plain("score") \o Plain("largest") \o Tree("max") \o Plain("peak")
    \o Plain("exp") \o Tree("sum") \o Plain("total") \o Plain("weigh")
Done == Len(Program) + 1
Gone == 0

\* A barrier stands behind every segment but the last.
SlipNoneBehindPeak(k) == Program[k].op \notin {"peak", "weigh"}
Barrier(k) == Program[k].op # "weigh"

\* How many barriers a thread is past when it is about to run segment k.
Passed(k) == Cardinality({j \in 1..(k - 1) : Barrier(j)})

\* Every thread reads the same length and leaves when it is zero.
SlipIdleThreadsLeave(t) == t >= ctx
Leaves(t) == ctx = 0

\* What a segment does to threadgroup memory: the places it reads, and the
\* values it writes.
Touch(reads, writes) == [reads |-> reads, writes |-> writes]

\* Lane by lane through the head, and the lanes' sums added up: simd_sum, or
\* down the shuffles to lane 0, where a lane past the end adds its own again.
LaneSum(pos, lane) ==
    Sum([d \in Strided(lane, Lanes, HeadDim) |-> Q(d) * K(pos, d)])
Shuffled(pos) ==
    LET acc[offset \in 1..Lanes] ==
          IF offset = Lanes THEN [lane \in 0..(Lanes - 1) |-> LaneSum(pos, lane)]
          ELSE [lane \in 0..(Lanes - 1) |->
                  acc[2 * offset][lane] +
                  acc[2 * offset][IF lane + offset < Lanes THEN lane + offset ELSE lane]]
    IN  acc[1][0]
Dot(pos) ==
    IF group.backend = "metal" THEN Sum([lane \in 0..(Lanes - 1) |-> LaneSum(pos, lane)])
    ELSE Shuffled(pos)

Mine(t) == Strided(t, Threads, ctx)
Largest(t) ==
    LET scores == {shared[Score(i)] : i \in Mine(t)} \cup {MinusInfinity}
    IN  Touch({Score(i) : i \in Mine(t)},
              [i \in {Scratch(t)} |-> CHOOSE s \in scores : \A u \in scores : u <= s])

\* One level of a reduction: the lower half takes in the upper.
Halve(t, stride, Op(_, _)) ==
    IF t < stride
    THEN Touch({Scratch(t), Scratch(t + stride)},
               [i \in {Scratch(t)} |-> Op(shared[Scratch(t)], shared[Scratch(t + stride)])])
    ELSE Touch({}, [i \in {} |-> 0])

Exponentials(t) ==
    LET e(i) == Exp(shared[Score(i)] - local[t].peak)
    IN  Touch({Score(i) : i \in Mine(t)},
              [i \in {Score(j) : j \in Mine(t)} \cup {Scratch(t)} |->
                  IF i = Scratch(t) THEN Sum([j \in Mine(t) |-> e(j)]) ELSE e(i)])

Access(t) ==
    LET step == Program[pc[t]]
        add(a, b) == a + b
    IN  CASE step.op = "largest" -> Largest(t)
          [] step.op = "max" -> Halve(t, step.stride, Larger)
          [] step.op = "exp" -> Exponentials(t)
          [] step.op = "sum" -> Halve(t, step.stride, add)
          [] step.op \in {"peak", "total"} -> Touch({Scratch(0)}, [i \in {} |-> 0])
          [] step.op = "weigh" ->
               Touch({Score(p) : p \in 0..(ctx - 1)}, [i \in {} |-> 0])

-----------------------------------------------------------------------------
(* The threads. *)

Init ==
    /\ group \in [row : 0..(Rows - 1), head : 0..(NumHeads - 1), ctx : Lengths,
                  backend : {"metal", "cuda"}]
    /\ pc = [t \in Tid |-> 1]
    /\ shared = [i \in 0..(Longest + Threads - 1) |-> Uninitialised]
    /\ local = [t \in Tid |-> [peak |-> 0, total |-> 0]]
    /\ out = [d \in Dim |-> <<0, 0>>]
    /\ touched = {}

\* Records what a thread did between the barriers it is between.
Recorded(t, reads, writes) ==
    LET interval == Passed(pc[t])
        access(places, write) ==
          [interval : {interval}, by : {t}, place : places, write : {write}]
    IN  {a \in touched : a.interval = interval}
          \cup access(reads, FALSE) \cup access(writes, TRUE)

\* Position after position goes to every warp.  Its lanes add up together, so
\* they take this segment together, and its lane 0 writes the scores.
ScorePositions(warp) ==
    LET lanes == {t \in Tid : t \div Lanes = warp /\ ~ Leaves(t)}
        first == warp * Lanes
        mine == IF first \in lanes THEN Strided(warp, Threads \div Lanes, ctx) ELSE {}
    IN  /\ lanes # {}
        /\ \A t \in lanes : pc[t] = 1
        /\ shared' = [i \in DOMAIN shared |->
             IF i \in {Score(p) : p \in mine} THEN Dot(i) ELSE shared[i]]
        /\ touched' = Recorded(first, {}, {Score(p) : p \in mine})
        /\ pc' = [t \in Tid |-> IF t \in lanes THEN 2 ELSE pc[t]]
        /\ UNCHANGED <<group, local, out>>

Leave(t) ==
    /\ pc[t] = 1
    /\ Leaves(t)
    /\ pc' = [pc EXCEPT ![t] = Gone]
    /\ UNCHANGED <<group, shared, local, out, touched>>

Segment(t) ==
    /\ pc[t] \in 2..Len(Program)
    /\ \A u \in Tid : Passed(pc[u]) >= Passed(pc[t])
    /\ LET op == Program[pc[t]].op
           access == Access(t)
       IN  /\ shared' = [i \in DOMAIN shared |->
                IF i \in DOMAIN access.writes THEN access.writes[i] ELSE shared[i]]
           /\ touched' = Recorded(t, access.reads, DOMAIN access.writes)
           /\ local' = CASE op = "peak" -> [local EXCEPT ![t].peak = shared[Scratch(0)]]
                         [] op = "total" -> [local EXCEPT ![t].total = shared[Scratch(0)]]
                         [] OTHER -> local
           /\ out' = IF op # "weigh" THEN out
                     ELSE [d \in Dim |->
                       IF d \notin Strided(t, Threads, HeadDim) THEN out[d]
                       ELSE <<Sum([p \in 0..(ctx - 1) |-> shared[Score(p)] * V(p, d)]),
                              local[t].total>>]
    /\ pc' = [pc EXCEPT ![t] = @ + 1]
    /\ UNCHANGED group

Next ==
    \/ \E warp \in 0..(Threads \div Lanes - 1) : ScorePositions(warp)
    \/ \E t \in Tid : Leave(t) \/ Segment(t)

\* Threads of a resident group keep being run.
Spec == Init /\ [][Next]_vars /\ WF_vars(Next)

-----------------------------------------------------------------------------
(* Properties. *)

\* The scalar reference: softmax over the row's history and the weighted sum of
\* its values, one position after the other.
Reference(d) ==
    LET score == [p \in 0..(ctx - 1) |-> Sum([e \in Dim |-> Q(e) * K(p, e)])]
        peak == CHOOSE s \in {score[p] : p \in 0..(ctx - 1)} :
                  \A p \in 0..(ctx - 1) : score[p] <= s
        weight(p) == Exp(score[p] - peak)
    IN  <<Sum([p \in 0..(ctx - 1) |-> weight(p) * V(p, d)]),
          Sum([p \in 0..(ctx - 1) |-> weight(p)])>>

\* When the group is done it has written what the scalar reference computes,
\* in every dimension, whatever order its threads took (paged_attention.rs
\* reference).
OutputIsAttention ==
    (\A t \in Tid : pc[t] = Done) => \A d \in Dim : out[d] = Reference(d)

\* Between two barriers no thread touches a place in threadgroup memory that
\* another one writes: each barrier of the kernel is where it has to be, the
\* one behind the reading of the peak included, which the next writes to the
\* scratch would otherwise overtake.
NoRaces ==
    \A a, b \in touched : a.place = b.place /\ a.write => a.by = b.by

\* Every thread comes to its end: none waits at a barrier another one left
\* the kernel without reaching.
EveryThreadReturns == <>(\A t \in Tid : pc[t] \in {Gone, Done})
=============================================================================
