---------------------------- MODULE KernelProofs ----------------------------
(***************************************************************************)
(* The attention kernel has no race in threadgroup memory, for every size  *)
(* of the group and of the SIMD groups, every block size, head dimension   *)
(* and length.                                                             *)
(***************************************************************************)
EXTENDS Kernel, FiniteSetTheorems, FunctionTheorems, TLAPS

-----------------------------------------------------------------------------
(* The segments of the program.                                            *)

InnerOps == {"largest", "max", "peak", "exp", "sum", "total"}
Inner == [op : InnerOps, stride : Nat]
Any == [op : InnerOps \cup {"score", "weigh"}, stride : Nat]

\* A program that has begun: the scores, and then what follows them.
Begun(s) ==
    /\ s \in Seq(Any) /\ Len(s) > 0
    /\ s[1].op = "score"
    /\ \A j \in 2..Len(s) : s[j] \in Inner

\* It goes on with what belongs behind the scores.
LEMMA BegunGoesOn ==
  ASSUME NEW s, Begun(s), NEW x \in Seq(Inner)
  PROVE  Begun(s \o x)
<1>1. /\ s \in Seq(Any) /\ Len(s) \in Nat /\ Len(s) > 0
      /\ x \in Seq(Any) /\ Len(x) \in Nat
      /\ \A j \in 1..Len(x) : x[j] \in Inner
  <2>1. Inner \subseteq Any
    BY DEF Inner, Any
  <2>2. x \in Seq(Any)
    BY <2>1
  <2>3. /\ s \in Seq(Any) /\ Len(s) > 0
    BY DEF Begun
  <2> QED BY <2>2, <2>3
<1>2. PICK y : y = s \o x
  OBVIOUS
<1>3. /\ y \in Seq(Any) /\ Len(y) = Len(s) + Len(x)
      /\ \A j \in 1..(Len(s) + Len(x)) :
           y[j] = IF j <= Len(s) THEN s[j] ELSE x[j - Len(s)]
  BY <1>1, <1>2
<1>4. ASSUME NEW j \in 2..Len(y) PROVE y[j] \in Inner
  <2>1. CASE j <= Len(s)
    BY <1>1, <1>3, <2>1 DEF Begun
  <2>2. CASE ~ (j <= Len(s))
    <3>1. j - Len(s) \in 1..Len(x) /\ y[j] = x[j - Len(s)]
      BY <1>1, <1>3, <2>2
    <3> QED BY <1>1, <3>1
  <2> QED BY <2>1, <2>2
<1>5. y[1] = s[1]
  BY <1>1, <1>3
<1> QED BY <1>1, <1>2, <1>3, <1>4, <1>5 DEF Begun

\* The least of a finite set of numbers comes after none, the next after one, and
\* so on: every rank is somebody's.
LEMMA RankTaken ==
  ASSUME NEW S \in SUBSET Int, IsFiniteSet(S), NEW i \in 1..Cardinality(S)
  PROVE  \E s \in S : Cardinality({u \in S : u >= s}) = i
<1> DEFINE rank == [s \in S |-> Cardinality({u \in S : u >= s})]
<1>1. PICK n \in Nat : n = Cardinality(S)
  BY FS_CardinalityType
<1>2. ASSUME NEW s \in S
      PROVE  rank[s] \in 1..n /\ IsFiniteSet({u \in S : u >= s})
  <2> DEFINE U == {u \in S : u >= s}
  <2>1. U \in SUBSET S /\ s \in U
    OBVIOUS
  <2> HIDE DEF U
  <2>2. IsFiniteSet(U) /\ Cardinality(U) <= n
    BY <1>1, <2>1, FS_Subset
  <2>3. Cardinality(U) \in Nat /\ Cardinality(U) # 0
    BY <2>1, <2>2, FS_CardinalityType, FS_EmptySet
  <2>4. rank[s] = Cardinality(U)
    BY DEF U
  <2>5. IsFiniteSet({u \in S : u >= s})
    BY <2>2 DEF U
  <2> HIDE DEF rank
  <2> QED BY <1>1, <2>2, <2>3, <2>4, <2>5
<1>3. ASSUME NEW s \in S, NEW t \in S, s < t PROVE rank[s] # rank[t]
  <2>1. PICK U, W : U = {u \in S : u >= s} /\ W = {u \in S : u >= t}
    OBVIOUS
  <2>2. W \in SUBSET U /\ s \in U /\ s \notin W
    <3>1. s \in Int /\ t \in Int /\ \A u \in S : u \in Int
      OBVIOUS
    <3>2. \A u \in S : u >= t => u >= s
      BY <1>3, <3>1
    <3>3. ~ (s >= t) /\ s >= s
      BY <1>3, <3>1
    <3> QED BY <2>1, <3>2, <3>3, Zenon
  <2>3. IsFiniteSet(U)
    BY <1>2, <2>1
  <2>4. Cardinality(U) # Cardinality(W)
    BY <2>2, <2>3, FS_Subset
  <2> QED BY <2>1, <2>4
<1>4. rank \in [S -> 1..n]
  BY <1>2
<1>5. \A s, t \in S : rank[s] = rank[t] => s = t
  <2>1. \A s, t \in S : s < t \/ s = t \/ t < s
    OBVIOUS
  <2> HIDE DEF rank
  <2> QED BY <1>3, <2>1
<1>6. IsFiniteSet(1..n) /\ Cardinality(1..n) = n
  <2>1. IsFiniteSet(1..n) /\ Cardinality(1..n) = IF 1 > n THEN 0 ELSE n - 1 + 1
    BY FS_Interval
  <2> QED BY <2>1
<1>7. rank \in Injection(S, 1..n)
  <2> HIDE DEF rank
  <2> QED BY <1>4, <1>5 DEF Injection, IsInjective
<1> HIDE DEF rank
<1>8. rank \in Surjection(S, 1..n)
  BY <1>1, <1>6, <1>7, FS_Injection
<1>9. PICK s \in S : rank[s] = i
  BY <1>1, <1>8 DEF Surjection
<1> QED BY <1>9 DEF rank

\* The reductions take strides that are numbers.
LEMMA TreeInner ==
  ASSUME NEW op \in {"max", "sum"}
  PROVE  Tree(op) \in Seq(Inner)
<1>1. Strides \in SUBSET (1..(Threads \div 2)) /\ Strides \in SUBSET Int
  BY DEF Strides
<1>2. IsFiniteSet(Strides)
  <2>1. Threads \div 2 \in Int
    BY KernelAssumption
  <2>2. IsFiniteSet(1..(Threads \div 2))
    BY <2>1, FS_Interval
  <2> QED BY <1>1, <2>2, FS_Subset
<1>3. PICK n \in Nat : n = Cardinality(Strides)
  BY <1>2, FS_CardinalityType
<1>4. ASSUME NEW i \in 1..n PROVE (CHOOSE s \in Strides : Rank(s) = i) \in Nat
  <2>1. \E s \in Strides : Rank(s) = i
    BY <1>1, <1>2, <1>3, RankTaken DEF Rank
  <2>2. (CHOOSE s \in Strides : Rank(s) = i) \in Strides
    BY <2>1
  <2> QED BY <2>2, KernelAssumption DEF Strides
<1>5. Tree(op) = [i \in 1..n |-> [op |-> op, stride |-> CHOOSE s \in Strides : Rank(s) = i]]
  BY <1>3 DEF Tree
<1>6. \A i \in 1..n : Tree(op)[i] \in Inner
  <2>1. ASSUME NEW i \in 1..n PROVE Tree(op)[i] \in Inner
    <3>1. PICK c \in Nat : c = (CHOOSE s \in Strides : Rank(s) = i)
      BY <1>4
    <3>2. Tree(op)[i] = [op |-> op, stride |-> c]
      BY <1>5, <3>1
    <3> QED BY <3>2 DEF Inner, InnerOps
  <2> QED BY <2>1
<1>7. DOMAIN Tree(op) = 1..n /\ Tree(op) = [i \in 1..n |-> Tree(op)[i]]
  BY <1>5
<1>8. Tree(op) \in [1..n -> Inner]
  BY <1>6, <1>7
<1> QED BY <1>8

\* The scores come first, the weighing last, and what is between reduces.
LEMMA ProgramShape ==
  /\ Len(Program) \in Nat /\ Len(Program) > 1
  /\ Program[1].op = "score" /\ Program[Len(Program)].op = "weigh"
  /\ \A j \in 2..(Len(Program) - 1) : Program[j] \in Inner
  /\ \A j \in 2..Len(Program) : Program[j] \in Any /\ Program[j].op # "score"
<1>1. Begun(Plain("score"))
  <2>1. PICK w \in Any : w = [op |-> "score", stride |-> 0]
    BY DEF Any
  <2>2. Plain("score") = <<w>> /\ w.op = "score"
    BY <2>1 DEF Plain
  <2>3. <<w>> \in Seq(Any) /\ Len(<<w>>) = 1 /\ <<w>>[1] = w
    OBVIOUS
  <2>4. PICK y : y = Plain("score")
    OBVIOUS
  <2>5. y \in Seq(Any) /\ Len(y) = 1 /\ y[1].op = "score"
    BY <2>2, <2>3, <2>4
  <2>6. Begun(y)
    BY <2>5 DEF Begun
  <2> QED BY <2>4, <2>6
<1>2. \A op \in {"largest", "peak", "exp", "total"} : Plain(op) \in Seq(Inner)
  <2>1. ASSUME NEW op \in {"largest", "peak", "exp", "total"} PROVE Plain(op) \in Seq(Inner)
    <3>1. PICK w \in Inner : w = [op |-> op, stride |-> 0]
      BY DEF Inner, InnerOps
    <3>2. Plain(op) = <<w>>
      BY <3>1 DEF Plain
    <3> QED BY <3>2
  <2> QED BY <2>1
<1>3. Tree("max") \in Seq(Inner) /\ Tree("sum") \in Seq(Inner)
  BY TreeInner
<1>4. PICK p1 : p1 = Plain("score") \o Plain("largest") /\ Begun(p1)
  BY <1>1, <1>2, BegunGoesOn
<1>5. PICK p2 : p2 = p1 \o Tree("max") /\ Begun(p2)
  BY <1>3, <1>4, BegunGoesOn
<1>6. PICK p3 : p3 = p2 \o Plain("peak") /\ Begun(p3)
  BY <1>2, <1>5, BegunGoesOn
<1>7. PICK p4 : p4 = p3 \o Plain("exp") /\ Begun(p4)
  BY <1>2, <1>6, BegunGoesOn
<1>8. PICK p5 : p5 = p4 \o Tree("sum") /\ Begun(p5)
  BY <1>3, <1>7, BegunGoesOn
<1>9. PICK p6 : p6 = p5 \o Plain("total") /\ Begun(p6)
  BY <1>2, <1>8, BegunGoesOn
<1>10. Program = p6 \o Plain("weigh")
  BY <1>4, <1>5, <1>6, <1>7, <1>8, <1>9 DEF Program
<1>11. /\ p6 \in Seq(Any) /\ Len(p6) \in Nat /\ Len(p6) > 0
       /\ p6[1].op = "score" /\ \A j \in 2..Len(p6) : p6[j] \in Inner
  BY <1>9 DEF Begun
<1>12. PICK w \in Any : w = [op |-> "weigh", stride |-> 0]
  BY DEF Any
<1>13. Program = p6 \o <<w>> /\ w \in Any /\ w.op = "weigh"
  <2>1. Plain("weigh") = <<w>>
    BY <1>12 DEF Plain
  <2>2. w.op = "weigh"
    BY <1>12
  <2> QED BY <1>10, <2>1, <2>2
<1>14. /\ Len(p6 \o <<w>>) = Len(p6) + 1 /\ (p6 \o <<w>>)[Len(p6) + 1] = w
       /\ \A j \in 1..Len(p6) : (p6 \o <<w>>)[j] = p6[j]
  BY <1>11, <1>13
<1>15. PICK y : y = p6 \o <<w>> /\ y = Program
  BY <1>13
<1>16. ASSUME NEW j \in 2..Len(y) PROVE y[j] \in Any /\ y[j].op # "score"
  <2>1. CASE j = Len(p6) + 1
    BY <1>12, <1>13, <1>14, <1>15, <2>1
  <2>2. CASE j # Len(p6) + 1
    <3>1. j \in 1..Len(p6) /\ j \in 2..Len(p6)
      BY <1>11, <1>14, <1>15, <2>2
    <3>2. y[j] \in Inner
      BY <1>11, <1>14, <1>15, <3>1
    <3> QED BY <3>2 DEF Inner, InnerOps, Any
  <2> QED BY <2>1, <2>2
<1> QED BY <1>11, <1>13, <1>14, <1>15, <1>16

\* A thread has passed a barrier for every segment behind it.
LEMMA PassedCount ==
  ASSUME NEW k \in 1..Len(Program)
  PROVE  Passed(k) = k - 1
<1>1. k \in Nat /\ k > 0 /\ Len(Program) \in Nat
  BY ProgramShape
<1>2. ASSUME NEW j \in 1..(k - 1) PROVE Barrier(j)
  <2>1. j = 1 \/ j \in 2..(Len(Program) - 1)
    BY <1>1
  <2>2. Program[j].op # "weigh"
    BY <2>1, ProgramShape DEF Inner, InnerOps
  <2> QED BY <2>2 DEF Barrier
<1>3. {j \in 1..(k - 1) : Barrier(j)} = 1..(k - 1)
  BY <1>2
<1>4. Cardinality(1..(k - 1)) = k - 1
  <2>1. Cardinality(1..(k - 1)) = IF 1 > k - 1 THEN 0 ELSE k - 1 - 1 + 1
    BY <1>1, FS_Interval
  <2> QED BY <1>1, <2>1
<1>5. Passed(k) = Cardinality(1..(k - 1))
  BY <1>3 DEF Passed
<1> QED BY <1>4, <1>5


-----------------------------------------------------------------------------
(* The places a segment goes to.                                           *)

\* Loops by one stride that start apart, below the stride, visit no place twice.
LEMMA StridesApart ==
  ASSUME NEW m \in Nat, NEW t \in 0..(m - 1), NEW u \in 0..(m - 1), t # u,
         NEW c \in Nat, NEW i \in Strided(t, m, c), i \in Strided(u, m, c)
  PROVE  FALSE
<1>1. ASSUME NEW v \in 0..(m - 1), NEW w \in 0..(m - 1), v < w,
             i \in Strided(v, m, c), i \in Strided(w, m, c)
      PROVE  FALSE
  <2>1. i \in Int /\ (i - v) % m = 0 /\ (i - w) % m = 0 /\ m > 0
    BY <1>1 DEF Strided
  <2>2. PICK x \in Int : x = i - v
    BY <2>1
  <2>3. PICK y \in Int : y = i - w
    BY <2>1
  <2>4. PICK a \in Int : x = m * a
    BY <2>1, <2>2
  <2>5. PICK b \in Int : y = m * b
    BY <2>1, <2>3
  <2>6. PICK d \in Int : d = a - b
    OBVIOUS
  <2>7. x - y = m * d
    BY <2>4, <2>5, <2>6
  <2>8. x - y = w - v /\ 0 < w - v /\ w - v < m
    BY <1>1, <2>1, <2>2, <2>3
  <2>9. CASE d <= 0
    <3>1. m * d <= 0
      BY <2>9
    <3> QED BY <2>7, <2>8, <3>1
  <2>10. CASE d >= 1
    <3>1. m * d >= m
      BY <2>10
    <3> QED BY <2>7, <2>8, <3>1
  <2> QED BY <2>9, <2>10
<1> QED BY <1>1

\* The positions whose scores thread t writes for its warp.
Scored(c, t) ==
    {p \in 0..(c - 1) : \E w \in 0..(Threads \div Lanes - 1) :
        w * Lanes = t /\ p \in Strided(w, Threads \div Lanes, c)}

\* Thread t writes place i in segment k, in a group of length c.
Writes(c, t, k, i) ==
    \/ Program[k].op = "score" /\ i \in Scored(c, t)
    \/ Program[k].op = "exp" /\ i \in Strided(t, Threads, c)
    \/ Program[k].op \in {"largest", "exp"} /\ i = Scratch(t)
    \/ Program[k].op \in {"max", "sum"} /\ t < Program[k].stride /\ i = Scratch(t)

\* It reads or writes it.
Touches(c, t, k, i) ==
    \/ Writes(c, t, k, i)
    \/ Program[k].op = "largest" /\ i \in Strided(t, Threads, c)
    \/ /\ Program[k].op \in {"max", "sum"} /\ t < Program[k].stride
       /\ i = Scratch(t + Program[k].stride)
    \/ Program[k].op \in {"peak", "total"} /\ i = Scratch(0)
    \/ Program[k].op = "weigh" /\ i \in 0..(c - 1)

\* In one segment nobody goes where another one writes.
LEMMA Apart ==
  ASSUME NEW c \in 0..Longest, NEW t \in Tid, NEW u \in Tid, t # u,
         NEW k \in 1..Len(Program), NEW i,
         Writes(c, t, k, i), Touches(c, u, k, i)
  PROVE  FALSE
<1>1. /\ Threads \in Nat /\ Longest \in Nat /\ c \in Nat /\ c <= Longest
      /\ t \in Nat /\ u \in Nat /\ t \in 0..(Threads - 1) /\ u \in 0..(Threads - 1)
  BY KernelAssumption DEF Tid, Longest
<1>2. PICK op : op = Program[k].op
  OBVIOUS
<1>3. \A v \in Tid : i \in Strided(v, Threads, c) => i \in Int /\ i < c
  BY <1>1 DEF Strided, Tid
<1>4. Scratch(t) = Longest + t /\ Scratch(u) = Longest + u
  BY DEF Scratch
<1>5. CASE op = "score" /\ i \in Scored(c, t)
  <2>1. i \in Scored(c, u)
    BY <1>2, <1>5 DEF Touches, Writes
  <2>2. PICK v \in 0..(Threads \div Lanes - 1) :
          v * Lanes = t /\ i \in Strided(v, Threads \div Lanes, c)
    BY <1>5 DEF Scored
  <2>3. PICK w \in 0..(Threads \div Lanes - 1) :
          w * Lanes = u /\ i \in Strided(w, Threads \div Lanes, c)
    BY <2>1 DEF Scored
  <2>4. v # w
    BY <2>2, <2>3
  <2>5. Threads \div Lanes \in Nat
    BY KernelAssumption
  <2> QED BY <1>1, <2>2, <2>3, <2>4, <2>5, StridesApart
<1>6. CASE op = "exp" /\ i \in Strided(t, Threads, c)
  <2>1. i \in Strided(u, Threads, c) \/ i = Scratch(u)
    BY <1>2, <1>6 DEF Touches, Writes
  <2>2. i # Scratch(u)
    BY <1>1, <1>3, <1>4, <1>6
  <2>3. i \in Strided(u, Threads, c)
    BY <2>1, <2>2
  <2> QED BY <1>1, <1>6, <2>3, StridesApart
<1>7. CASE op \in {"largest", "exp"} /\ i = Scratch(t)
  <2>1. i \in Strided(u, Threads, c) \/ i = Scratch(u)
    BY <1>2, <1>7 DEF Touches, Writes
  <2> QED BY <1>1, <1>3, <1>4, <1>7, <2>1
<1>8. CASE op \in {"max", "sum"} /\ t < Program[k].stride /\ i = Scratch(t)
  <2>1. i = Scratch(u) \/ i = Scratch(u + Program[k].stride)
    BY <1>2, <1>8 DEF Touches, Writes
  <2>2. Program[k].stride \in Nat
    <3>1. k # 1 /\ k \in 2..Len(Program)
      BY <1>2, <1>8, ProgramShape
    <3> QED BY <3>1, ProgramShape DEF Any
  <2>3. i # Longest + (u + Program[k].stride)
    BY <1>1, <1>4, <1>8, <2>2, SMTT(60)
  <2> QED BY <1>1, <1>4, <1>8, <2>1, <2>3 DEF Scratch
<1> QED BY <1>2, <1>5, <1>6, <1>7, <1>8 DEF Writes

-----------------------------------------------------------------------------
(* The invariant: what is on record is of one interval, and of the segment *)
(* that belongs to it.                                                     *)

Recording ==
    /\ ctx \in 0..Longest
    /\ \A a \in touched :
         /\ a.interval \in 0..(Len(Program) - 1) /\ a.by \in Tid
         /\ Touches(ctx, a.by, a.interval + 1, a.place)
         /\ a.write => Writes(ctx, a.by, a.interval + 1, a.place)
    /\ \A a, b \in touched : a.interval = b.interval

\* What is on record in one interval and of one segment is no race.
LEMMA RecordingHasNoRaces == Recording => NoRaces
<1> SUFFICES ASSUME Recording, NEW a \in touched, NEW b \in touched,
                    a.place = b.place, a.write, a.by # b.by
             PROVE  FALSE
  BY DEF NoRaces
<1>1. PICK k : k = a.interval + 1 /\ k = b.interval + 1
  BY DEF Recording
<1>2. k \in 1..Len(Program)
  BY <1>1, ProgramShape DEF Recording
<1>3. /\ a.by \in Tid /\ b.by \in Tid /\ ctx \in 0..Longest
      /\ Writes(ctx, a.by, k, a.place) /\ Touches(ctx, b.by, k, a.place)
  BY <1>1 DEF Recording
<1> QED BY <1>2, <1>3, Apart

\* What Recorded puts on record is of the interval the thread is in.
LEMMA RecordedIn ==
  ASSUME NEW t, NEW reads, NEW writes, NEW a \in Recorded(t, reads, writes)
  PROVE  /\ a.interval = Passed(pc[t])
         /\ \/ a \in touched
            \/ a.by = t /\ a.place \in reads /\ a.write = FALSE
            \/ a.by = t /\ a.place \in writes
<1> QED BY DEF Recorded

\* A thread that goes only where its segment lets it keeps the record.
LEMMA RecordGoesOn ==
  ASSUME Recording, NEW t \in Tid, pc[t] \in 1..Len(Program), NEW reads, NEW writes,
         \A i \in reads : Touches(ctx, t, pc[t], i),
         \A i \in writes : Writes(ctx, t, pc[t], i),
         touched' = Recorded(t, reads, writes), group' = group
  PROVE  Recording'
<1>1. PICK k : k = pc[t] /\ k \in 1..Len(Program)
  OBVIOUS
<1>2. Passed(pc[t]) = k - 1 /\ k \in Nat /\ Len(Program) \in Nat
  BY <1>1, PassedCount, ProgramShape
<1>3. ASSUME NEW a \in touched'
      PROVE  /\ a.interval \in 0..(Len(Program) - 1) /\ a.by \in Tid
             /\ Touches(ctx, a.by, a.interval + 1, a.place)
             /\ a.write => Writes(ctx, a.by, a.interval + 1, a.place)
             /\ a.interval = k - 1
  <2>1. /\ a.interval = k - 1
        /\ \/ a \in touched
           \/ a.by = t /\ a.place \in reads /\ a.write = FALSE
           \/ a.by = t /\ a.place \in writes
    <3>1. a \in Recorded(t, reads, writes)
      OBVIOUS
    <3>2. /\ a.interval = Passed(pc[t])
          /\ \/ a \in touched
             \/ a.by = t /\ a.place \in reads /\ a.write = FALSE
             \/ a.by = t /\ a.place \in writes
      BY <3>1, RecordedIn, Zenon
    <3> QED BY <1>2, <3>2
  <2>2. a.interval \in 0..(Len(Program) - 1) /\ a.interval + 1 = k
    BY <1>1, <1>2, <2>1
  <2>3. CASE a \in touched
    BY <2>1, <2>2, <2>3 DEF Recording
  <2>4. CASE a.by = t /\ a.place \in reads /\ a.write = FALSE
    BY <1>1, <2>1, <2>2, <2>4
  <2>5. CASE a.by = t /\ a.place \in writes
    BY <1>1, <2>1, <2>2, <2>5 DEF Touches
  <2> QED BY <2>1, <2>3, <2>4, <2>5
<1>4. ctx' = ctx
  BY DEF ctx
<1>5. \A a, b \in touched' : a.interval = b.interval
  BY <1>3
<1>6. ctx \in 0..Longest
  BY DEF Recording
<1> QED BY <1>3, <1>4, <1>5, <1>6 DEF Recording

\* The group is started on a length its blocks can hold, with nothing on record.
LEMMA InitRecording == Init => Recording
<1> SUFFICES ASSUME Init PROVE Recording
  OBVIOUS
<1>1. ctx \in Lengths
  BY DEF Init, ctx
<1>2. ctx \in 0..Longest
  BY <1>1, KernelAssumption DEF Longest
<1> QED BY <1>2 DEF Init, Recording

\* The scores: lane 0 of a warp writes the ones of its warp.
LEMMA ScorePositionsRecords ==
  ASSUME Recording, NEW warp \in 0..(Threads \div Lanes - 1), ScorePositions(warp)
  PROVE  Recording'
<1> DEFINE lanes == {t \in Tid : t \div Lanes = warp /\ ~ Leaves(t)}
           first == warp * Lanes
           mine == IF first \in lanes THEN Strided(warp, Threads \div Lanes, ctx) ELSE {}
           places == {Score(p) : p \in mine}
<1>1. touched' = Recorded(first, {}, places) /\ group' = group
  BY DEF ScorePositions
<1>2. CASE first \in lanes
  <2>1. first \in Tid /\ pc[first] = 1
    BY <1>2 DEF ScorePositions
  <2>2. ASSUME NEW i \in places PROVE Writes(ctx, first, 1, i)
    <3>1. i \in Strided(warp, Threads \div Lanes, ctx)
      BY <1>2, <2>2 DEF Score
    <3>2. i \in 0..(ctx - 1)
      <4>1. warp \in Nat /\ ctx \in Nat
        BY DEF Recording
      <4> QED BY <3>1, <4>1 DEF Strided
    <3>3. i \in Scored(ctx, first)
      BY <3>1, <3>2 DEF Scored
    <3> QED BY <3>3, ProgramShape DEF Writes
  <2>3. pc[first] \in 1..Len(Program)
    BY <2>1, ProgramShape
  <2> HIDE DEF places, first
  <2> QED BY <1>1, <2>1, <2>2, <2>3, RecordGoesOn
<1>3. CASE first \notin lanes
  <2>1. places = {}
    BY <1>3
  <2> HIDE DEF places
  <2>2. touched' \subseteq touched
    BY <1>1, <2>1 DEF Recorded
  <2>3. ctx' = ctx
    BY <1>1 DEF ctx
  <2> QED BY <2>2, <2>3 DEF Recording
<1> QED BY <1>2, <1>3

\* What a segment reads and writes is where it may go.
LEMMA AccessIsAllowed ==
  ASSUME NEW t \in Tid, pc[t] \in 2..Len(Program), ctx \in Nat
  PROVE  /\ \A i \in Access(t).reads : Touches(ctx, t, pc[t], i)
         /\ \A i \in DOMAIN Access(t).writes : Writes(ctx, t, pc[t], i)
<1>1. PICK k : k = pc[t]
  OBVIOUS
<1>2. PICK op : op = Program[k].op
  OBVIOUS
<1>3. op \in {"largest", "max", "peak", "exp", "sum", "total", "weigh"}
  BY <1>1, <1>2, ProgramShape DEF Any, InnerOps
<1>4. CASE op = "largest"
  <2>1. Access(t) = Largest(t)
    BY <1>1, <1>2, <1>4 DEF Access
  <2>2. /\ Largest(t).reads = {Score(i) : i \in Mine(t)}
        /\ DOMAIN Largest(t).writes = {Scratch(t)}
    BY DEF Largest, Touch
  <2> QED BY <1>1, <1>2, <1>4, <2>1, <2>2 DEF Touches, Writes, Mine, Score
<1>5. CASE op \in {"max", "sum"}
  <2>1. PICK s : s = Program[k].stride
    OBVIOUS
  <2>2. /\ t < s => Access(t).reads = {Scratch(t), Scratch(t + s)}
                    /\ DOMAIN Access(t).writes = {Scratch(t)}
        /\ ~ (t < s) => Access(t).reads = {} /\ DOMAIN Access(t).writes = {}
    BY <1>1, <1>2, <1>5, <2>1 DEF Access, Halve, Touch
  <2>3. CASE t < s
    BY <1>1, <1>2, <1>5, <2>1, <2>2, <2>3 DEF Touches, Writes
  <2>4. CASE ~ (t < s)
    BY <2>2, <2>4
  <2> QED BY <2>3, <2>4
<1>6. CASE op = "exp"
  <2>1. Access(t) = Exponentials(t)
    BY <1>1, <1>2, <1>6 DEF Access
  <2>2. /\ Exponentials(t).reads = {Score(i) : i \in Mine(t)}
        /\ DOMAIN Exponentials(t).writes = {Score(j) : j \in Mine(t)} \cup {Scratch(t)}
    BY DEF Exponentials, Touch
  <2> QED BY <1>1, <1>2, <1>6, <2>1, <2>2 DEF Touches, Writes, Mine, Score
<1>7. CASE op \in {"peak", "total"}
  <2>1. Access(t).reads = {Scratch(0)} /\ DOMAIN Access(t).writes = {}
    BY <1>1, <1>2, <1>7 DEF Access, Touch
  <2> QED BY <1>1, <1>2, <1>7, <2>1 DEF Touches
<1>8. CASE op = "weigh"
  <2>1. /\ Access(t).reads = {Score(p) : p \in 0..(ctx - 1)}
        /\ DOMAIN Access(t).writes = {}
    BY <1>1, <1>2, <1>8 DEF Access, Touch
  <2> QED BY <1>1, <1>2, <1>8, <2>1 DEF Touches, Score
<1> QED BY <1>3, <1>4, <1>5, <1>6, <1>7, <1>8

\* A segment behind the scores.
LEMMA SegmentRecords ==
  ASSUME Recording, NEW t \in Tid, Segment(t)
  PROVE  Recording'
<1>1. pc[t] \in 2..Len(Program) /\ pc[t] \in 1..Len(Program) /\ ctx \in Nat
  BY ProgramShape DEF Segment, Recording
<1>2. touched' = Recorded(t, Access(t).reads, DOMAIN Access(t).writes) /\ group' = group
  BY DEF Segment
<1>3. PICK r, w : r = Access(t).reads /\ w = DOMAIN Access(t).writes
  OBVIOUS
<1>4. (\A i \in r : Touches(ctx, t, pc[t], i)) /\ \A i \in w : Writes(ctx, t, pc[t], i)
  BY <1>1, <1>3, AccessIsAllowed
<1>5. touched' = Recorded(t, r, w)
  BY <1>2, <1>3
<1> QED BY <1>1, <1>2, <1>4, <1>5, RecordGoesOn

\* The record keeps its form in every step.
LEMMA NextRecording == Recording /\ [Next]_vars => Recording'
<1> SUFFICES ASSUME Recording, [Next]_vars PROVE Recording'
  OBVIOUS
<1>1. CASE \E warp \in 0..(Threads \div Lanes - 1) : ScorePositions(warp)
  BY <1>1, ScorePositionsRecords
<1>2. CASE \E t \in Tid : Segment(t)
  BY <1>2, SegmentRecords
<1>3. CASE (\E t \in Tid : Leave(t)) \/ UNCHANGED vars
  <2>1. touched' = touched /\ ctx' = ctx
    BY <1>3 DEF Leave, vars, ctx
  <2> QED BY <2>1 DEF Recording
<1> QED BY <1>1, <1>2, <1>3 DEF Next

\* No thread touches a place in threadgroup memory that another one writes
\* between the same two barriers, in a group of any size, for any length, block
\* size and head dimension, however the threads are scheduled
\* (kernels/paged_attention.metal and .cu).
THEOREM SegmentsDoNotRace == Spec => []NoRaces
<1>1. Init => Recording
  BY InitRecording
<1>2. Recording /\ [Next]_vars => Recording'
  BY NextRecording
<1>3. Recording => NoRaces
  BY RecordingHasNoRaces
<1> QED BY <1>1, <1>2, <1>3, PTL DEF Spec
=============================================================================
