---------------------------- MODULE AnswersProofs ----------------------------
(***************************************************************************)
(* What the scheduler tells its caller, for every pool, vocabulary, set of *)
(* requests, batch size and chunk: the tokens reported, the reason of the  *)
(* end, the order of the starts, who is carried by a pass, and when the    *)
(* engine has nothing to do.  The proofs rest on the invariant of          *)
(* SchedulerProofs, which says what the queues, the sequences and the plan *)
(* are at every step.                                                      *)
(***************************************************************************)
EXTENDS SchedulerProofs

-----------------------------------------------------------------------------
(* What every step but the second loop of commit leaves of an answer.      *)

\* The output of a sequence is as it was; its end, if it got one, has a reason.
SameOutput(r) ==
    /\ seq'[r].history = seq[r].history
    /\ seq'[r].prompt_tokens = seq[r].prompt_tokens
    /\ seq'[r].max_tokens = seq[r].max_tokens
    /\ seq'[r].generated = seq[r].generated
    /\ told'[r].tokens = told[r].tokens
    /\ \/ seq'[r].finish = seq[r].finish
       \/ seq'[r].finish # "none" /\ r \notin ToSet(running')
    /\ r \in ToSet(running') => r \in ToSet(running) \/ seq'[r].finish = "none"
    /\ \/ told'[r].end = told[r].end
       \/ told'[r].end = "cancelled" \/ told'[r].end = "failed"
       \/ told'[r].end = "length" /\ Span(seq[r].history) > Cardinality(Block)
       \/ told'[r].end = seq[r].finish /\ r \in ToSet(running)

\* A step that leaves the sequences, the residents and the answers alone.
LEMMA NothingSaid ==
  ASSUME UNCHANGED <<seq, running, told>>
  PROVE  \A r \in Request : SameOutput(r)
BY DEF SameOutput

\* Arrivals, cancels and refusals.
LEMMA CallsSameOutput ==
  ASSUME Inv, NEW q \in Request, Submit(q) \/ Cancel(q) \/ (Refuse /\ q = Head(waiting))
  PROVE  \A r \in Request : SameOutput(r)
<1>1. /\ seq \in [Request -> Sequence] /\ told \in [Request -> Report]
      /\ waiting \in Seq(Request) /\ running \in Seq(Request)
      /\ IsInjective(running) /\ ToSet(waiting) \cap ToSet(running) = {}
  BY DEF Inv, Typed, Queues
<1>2. CASE Submit(q)
  BY <1>1, <1>2 DEF Submit, SameOutput, Report
<1>3. CASE Cancel(q)
  <2>1. /\ running' = Without(running, q)
        /\ seq' = [seq EXCEPT ![q].finish = IF q \in ToSet(running) THEN "stop" ELSE @]
        /\ told' = [told EXCEPT ![q].end = "cancelled"]
    BY <1>3 DEF Cancel
  <2>2. ToSet(running') = ToSet(running) \ {q}
    BY <1>1, <2>1, WithoutOnce
  <2> QED BY <1>1, <2>1, <2>2, ZenonT(90) DEF SameOutput, Report, Sequence
<1>4. CASE Refuse /\ q = Head(waiting)
  <2>1. /\ waiting # <<>> /\ Span(seq[q].pending) > Cardinality(Block)
        /\ running' = running
        /\ seq' = [seq EXCEPT ![q].finish = "length"]
        /\ told' = [told EXCEPT ![q].end = "length"]
    BY <1>4 DEF Refuse, Unservable
  <2>2. q \in ToSet(waiting) /\ q \notin ToSet(running)
    BY <1>1, <1>4, <2>1, TailOnce
  <2>3. seq[q].pending = seq[q].history
    BY <2>2 DEF Inv, Sequences, Fresh
  <2> QED BY <1>1, <2>1, <2>2, <2>3, ZenonT(60) DEF SameOutput, Report, Sequence
<1> QED BY <1>2, <1>3, <1>4

\* Evictions and put-backs.
LEMMA MovesSameOutput ==
  ASSUME Inv, Preempt \/ PutBack
  PROVE  \A r \in Request : SameOutput(r)
<1>1. /\ seq \in [Request -> Sequence] /\ running \in Seq(Request)
      /\ IsInjective(running) /\ Typed
  BY DEF Inv, Typed, Queues
<1>2. CASE Preempt
  <2>1. PICK n, q : n = Newest /\ q = running[n]
    OBVIOUS
  <2>2. /\ Evictable # {} /\ running' = RemoveAt(running, n)
        /\ seq' = [seq EXCEPT ![q] = Preempted(@)] /\ told' = told
    BY <1>2, <2>1 DEF Preempt, settled
  <2>3. n \in 1..Len(running) /\ q \in Request
    BY <1>1, <2>1, <2>2, NewestMeans
  <2>4. ToSet(running') \subseteq ToSet(running)
    BY <1>1, <2>2, <2>3, RemoveAtOnce
  <2>5. seq[q] \in Sequence
    BY <1>1, <2>3
  <2> QED BY <1>1, <2>2, <2>3, <2>4, <2>5, PreemptedFields DEF SameOutput
<1>3. CASE PutBack
  <2>1. /\ joining \in Request
        /\ seq' = [seq EXCEPT ![joining].pending = seq[joining].history]
        /\ running' = running /\ told' = told
    BY <1>3 DEF PutBack, settled, Inv, Typed, Queues
  <2> QED BY <1>1, <2>1 DEF SameOutput, Sequence
<1> QED BY <1>2, <1>3

\* A prompt that becomes a resident.
LEMMA StartsSameOutput ==
  ASSUME Inv, Join \/ PlanPrefill
  PROVE  \A r \in Request : SameOutput(r)
<1>1. /\ seq \in [Request -> Sequence] /\ running \in Seq(Request)
  BY DEF Inv, Typed
<1>2. PICK q : q = joining
  OBVIOUS
<1>3. q \in Request /\ seq[q].finish = "none"
  BY <1>2 DEF Join, PlanPrefill, Inv, Typed, Queues, Sequences, Fresh
<1>4. running' = Append(running, q) /\ told' = told
  BY <1>2 DEF Join, PlanPrefill, settled
<1>5. ToSet(running') = ToSet(running) \cup {q}
  BY <1>1, <1>3, <1>4, AppendNew
<1>6. \E left : seq' = [seq EXCEPT ![q].prompt_left = left, ![q].pending = <<>>]
                \/ seq' = [seq EXCEPT ![q].pending = <<>>]
  BY <1>2 DEF Join, PlanPrefill
<1> QED BY <1>1, <1>3, <1>4, <1>5, <1>6, SMTT(90) DEF SameOutput, Sequence

\* The pass is kept or given up, and what finished leaves.
LEMMA LoopsSameOutput ==
  ASSUME Inv, AbortRow \/ AdvanceRow \/ Retire
  PROVE  \A r \in Request : SameOutput(r)
<1>1. /\ seq \in [Request -> Sequence] /\ told \in [Request -> Report]
      /\ running \in Seq(Request) /\ IsInjective(running) /\ Typed
  BY DEF Inv, Typed, Queues
<1>2. ASSUME AbortRow \/ AdvanceRow PROVE plan[row].id \in Request
  <2>1. row \in DOMAIN plan
    BY <1>1, <1>2 DEF AbortRow, AdvanceRow, InPlanLoop, Typed
  <2> QED BY <1>1, <2>1, PlanRowType
<1>3. PICK q : q = plan[row].id
  OBVIOUS
<1>4. CASE AbortRow
  <2>1. /\ running' = Without(running, q)
        /\ seq' = [seq EXCEPT ![q].finish = "stop"]
        /\ told' = [told EXCEPT ![q].end = "failed"]
    BY <1>3, <1>4 DEF AbortRow
  <2>2. ToSet(running') = ToSet(running) \ {q}
    BY <1>1, <2>1, WithoutOnce
  <2> QED BY <1>1, <1>2, <1>3, <1>4, <2>1, <2>2, SMTT(40) DEF SameOutput, Report, Sequence
<1>5. CASE AdvanceRow
  <2>1. PICK left : seq' = [seq EXCEPT ![q].prompt_left = left]
    BY <1>3, <1>5 DEF AdvanceRow
  <2>2. running' = running /\ told' = told
    BY <1>5 DEF AdvanceRow, settled
  <2> QED BY <1>1, <2>1, <2>2 DEF SameOutput, Sequence
<1>6. CASE Retire
  <2>1. PICK i : i = CHOOSE n \in Finished : \A j \in Finished : n <= j
    OBVIOUS
  <2>2. PICK r : r = running[i]
    OBVIOUS
  <2>3. /\ Finished # {} /\ running' = RemoveAt(running, i) /\ seq' = seq
        /\ told' = [told EXCEPT ![r].end = seq[r].finish]
    BY <1>6, <2>1, <2>2 DEF Retire
  <2>4. i \in 1..Len(running) /\ r \in Request /\ r \in ToSet(running)
    BY <1>1, <2>1, <2>2, <2>3, FirstFinished
  <2>5. ToSet(running') \subseteq ToSet(running)
    BY <1>1, <2>3, <2>4, RemoveAtOnce
  <2> QED BY <1>1, <2>3, <2>4, <2>5 DEF SameOutput, Report
<1> QED BY <1>4, <1>5, <1>6

\* Only the second loop of commit adds to an answer.
LEMMA OnlyEmitAdds ==
  ASSUME Inv, [Next]_vars
  PROVE  EmitRow \/ \A r \in Request : SameOutput(r)
<1>1. CASE UNCHANGED vars
  BY <1>1, NothingSaid DEF vars
<1>2. ASSUME NEW q \in Request, Submit(q) \/ Cancel(q)
      PROVE  \A r \in Request : SameOutput(r)
  BY <1>2, CallsSameOutput
<1>3. CASE Refuse
  <2>1. Head(waiting) \in Request
    BY <1>3, TailOnce DEF Refuse, Unservable, Inv, Typed
  <2> QED BY <1>3, <2>1, CallsSameOutput
<1>4. CASE SetChunk \/ Plan \/ SkipRow \/ GiveUpMixed \/ LeaveOut \/ EndRows
           \/ NoPromptToStart \/ CannotAdmit \/ EndCommit \/ ChooseRow \/ PlanDecode
           \/ PlanMixed \/ StartNextPrompt \/ Admit \/ GrowSlice \/ GrowPrompt \/ Pass
           \/ PassFails \/ EndPlanLoop
  BY <1>4, NothingSaid
  DEF SetChunk, Plan, SkipRow, GiveUpMixed, LeaveOut, EndRows, NoPromptToStart,
      CannotAdmit, EndCommit, ChooseRow, PlanDecode, PlanMixed, StartNextPrompt, Admit,
      GrowSlice, GrowPrompt, Pass, PassFails, EndPlanLoop, settled
<1>5. CASE Preempt \/ PutBack \/ Join \/ PlanPrefill \/ AbortRow \/ AdvanceRow \/ Retire
  BY <1>5, MovesSameOutput, StartsSameOutput, LoopsSameOutput
<1> QED
  BY <1>1, <1>2, <1>3, <1>4, <1>5 DEF Next, Engine, Planning, Committing

\* The row of the second loop: a resident that has not finished.
LEMMA EmittedRow ==
  ASSUME Inv, EmitRow
  PROVE  /\ row \in DOMAIN plan /\ plan[row].id \in Request
         /\ plan[row].predicts \in BOOLEAN
         /\ plan[row].id \in ToSet(running) /\ running' = running
         /\ seq[plan[row].id].finish = "none"
         /\ ~ plan[row].predicts => seq' = seq /\ told' = told
<1>1. /\ pc = "emit" /\ row <= Len(plan) /\ running' = running
      /\ ~ plan[row].predicts => seq' = seq /\ told' = told
  BY Zenon DEF EmitRow, InPlanLoop
<1>2. row \in DOMAIN plan /\ row >= row
  BY <1>1 DEF Inv, Typed
<1>3. plan[row].id \in ToSet(running) /\ seq[plan[row].id].finish = "none"
  BY <1>1, <1>2 DEF Inv, PlanHolds, Passing
<1> QED BY <1>1, <1>2, <1>3, PlanRowType DEF Inv

-----------------------------------------------------------------------------
(* The tokens reported.                                                    *)

Made(r) == SubSeq(seq[r].history, seq[r].prompt_tokens + 1, Len(seq[r].history))

\* A sequence that has not finished was reported in full; one that has may end
\* with a stop token that was not.
Reporting ==
    \A r \in Request :
        /\ told[r].tokens \in Seq(Token \ StopTokens)
        /\ \/ Made(r) = told[r].tokens
           \/ /\ seq[r].finish # "none"
              /\ \E t \in StopTokens : Made(r) = Append(told[r].tokens, t)

\* The end of a longer sequence is longer by the same element.
LEMMA EndGrows ==
  ASSUME NEW S, NEW h \in Seq(S), NEW x \in S, NEW p \in Nat, p <= Len(h)
  PROVE  SubSeq(Append(h, x), p + 1, Len(Append(h, x)))
           = Append(SubSeq(h, p + 1, Len(h)), x)
<1> DEFINE a == SubSeq(Append(h, x), p + 1, Len(h) + 1)
           b == SubSeq(h, p + 1, Len(h))
<1>1. /\ Len(h) \in Nat /\ Append(h, x) \in Seq(S) /\ Len(Append(h, x)) = Len(h) + 1
      /\ Append(h, x)[Len(h) + 1] = x
      /\ \A i \in 1..Len(h) : Append(h, x)[i] = h[i]
  OBVIOUS
<1>2. /\ b \in Seq(S) /\ Len(b) = Len(h) - p
      /\ \A i \in 1..(Len(h) - p) : b[i] = h[p + i]
  <2>1. p + 1 \in 1..(Len(h) + 1) /\ Len(h) \in p..Len(h)
    BY <1>1
  <2>2. \A i \in 1..(Len(h) - p) : p + i \in 1..Len(h) /\ p + i = (p + 1) + i - 1
    BY <1>1
  <2> QED BY <1>1, <2>1, <2>2, SMTT(60)
<1>3. /\ a \in Seq(S) /\ Len(a) = Len(h) + 1 - p
      /\ \A i \in 1..(Len(h) + 1 - p) : a[i] = Append(h, x)[p + i]
  <2>1. PICK g \in Seq(S) : g = Append(h, x)
    BY <1>1
  <2>2. Len(g) = Len(h) + 1
    BY <1>1, <2>1
  <2>3. /\ SubSeq(g, p + 1, Len(h) + 1) \in Seq(S)
        /\ Len(SubSeq(g, p + 1, Len(h) + 1)) = Len(h) + 1 - p
        /\ \A i \in 1..(Len(h) + 1 - p) : SubSeq(g, p + 1, Len(h) + 1)[i] = g[p + i]
    BY <1>1, <2>2
  <2> QED BY <2>1, <2>3
<1> HIDE DEF a, b
<1>4. /\ Append(b, x) \in Seq(S) /\ Len(Append(b, x)) = Len(h) - p + 1
      /\ Append(b, x)[Len(h) - p + 1] = x
      /\ \A i \in 1..(Len(h) - p) : Append(b, x)[i] = b[i]
  BY <1>2
<1>5. ASSUME NEW i \in 1..Len(a) PROVE a[i] = Append(b, x)[i]
  <2>1. CASE i = Len(h) - p + 1
    <3>1. p + i = Len(h) + 1
      BY <1>1, <2>1
    <3> QED BY <1>1, <1>3, <1>4, <2>1, <3>1
  <2>2. CASE i # Len(h) - p + 1
    <3>1. Len(h) \in Nat /\ i \in 1..(Len(h) + 1 - p)
      BY <1>1, <1>3
    <3>2. i \in 1..(Len(h) - p) /\ p + i \in 1..Len(h)
      BY <2>2, <3>1
    <3> QED BY <1>1, <1>2, <1>3, <1>4, <3>1, <3>2
  <2> QED BY <2>1, <2>2
<1>6. Len(a) = Len(Append(b, x))
  BY <1>1, <1>3, <1>4
<1>7. a = Append(b, x)
  BY <1>3, <1>4, <1>5, <1>6, SeqEqual
<1> QED BY <1>1, <1>7 DEF a, b

\* Nothing is reported before anything was sampled.
LEMMA ReportingInit == Init => Reporting
<1> SUFFICES ASSUME Init, NEW r \in Request
             PROVE  told[r].tokens = <<>> /\ Made(r) = <<>>
  BY EmptySeq DEF Reporting
<1>1. /\ seq[r].history \in Seq(Token) /\ seq[r].prompt_tokens = Len(seq[r].history)
  BY SchedulerAssumption DEF Init, NewSequence
<1>2. Len(seq[r].history) \in Nat
  BY <1>1
<1>3. Made(r) = <<>>
  BY <1>1, <1>2 DEF Made
<1> QED BY <1>3 DEF Init

\* Every step keeps what was said and what was made together.
LEMMA ReportingNext == Inv /\ Reporting /\ [Next]_vars => Reporting'
<1> SUFFICES ASSUME Inv, Reporting, [Next]_vars, NEW r \in Request
             PROVE  /\ told'[r].tokens \in Seq(Token \ StopTokens)
                    /\ \/ Made(r)' = told'[r].tokens
                       \/ /\ seq'[r].finish # "none"
                          /\ \E t \in StopTokens : Made(r)' = Append(told'[r].tokens, t)
  BY DEF Reporting
<1>1. CASE SameOutput(r)
  BY <1>1 DEF SameOutput, Reporting, Made
<1>2. CASE EmitRow /\ plan[row].predicts
  <2>1. PICK q \in Request : q = plan[row].id
    BY <1>2, EmittedRow
  <2>2. PICK token \in Token :
          /\ seq' = [seq EXCEPT ![q] = Given(seq[q], token)]
          /\ told' = [told EXCEPT ![q].tokens = Reported(@, token)]
    BY <1>2, <2>1, EmitGives
  <2>3. /\ seq \in [Request -> Sequence] /\ told \in [Request -> Report]
    BY DEF Inv, Typed
  <2>4. CASE r # q
    <3>1. seq'[r] = seq[r] /\ told'[r] = told[r]
      BY <2>2, <2>3, <2>4
    <3> QED BY <3>1 DEF Reporting, Made
  <2>5. CASE r = q
    <3>1. seq[r] \in Sequence /\ seq'[r] = Given(seq[r], token)
          /\ told'[r].tokens = Reported(told[r].tokens, token)
      BY <2>2, <2>3, <2>5 DEF Report
    <3>2. seq[r].finish = "none"
      BY <1>2, <2>1, <2>5, EmittedRow
    <3>3. Made(r) = told[r].tokens /\ told[r].tokens \in Seq(Token \ StopTokens)
      BY <3>2 DEF Reporting
    <3>4. PICK h \in Seq(Token), p \in Nat : h = seq[r].history /\ p = seq[r].prompt_tokens
      BY <3>1 DEF Sequence
    <3>5. p <= Len(h)
      BY <3>4, Numbers, SMTT(60) DEF Inv, Sequences
    <3>6. SubSeq(Append(h, token), p + 1, Len(Append(h, token)))
            = Append(SubSeq(h, p + 1, Len(h)), token)
      BY <3>5, EndGrows
    <3>7. Made(r)' = Append(told[r].tokens, token)
      BY <3>1, <3>3, <3>4, <3>6, GivenFields, ZenonT(60) DEF Made
    <3>8. CASE token \in StopTokens
      <4>1. seq'[r].finish # "none"
        BY <3>1, <3>8, GivenFields DEF FinishOf
      <4> QED BY <3>1, <3>3, <3>7, <3>8, <4>1 DEF Reported
    <3>9. CASE token \notin StopTokens
      <4>1. told'[r].tokens = Append(told[r].tokens, token)
        BY <3>1, <3>9 DEF Reported
      <4>2. told'[r].tokens \in Seq(Token \ StopTokens)
        BY <3>3, <3>9, <4>1
      <4> QED BY <3>7, <4>1, <4>2
    <3> QED BY <3>8, <3>9
  <2> QED BY <2>4, <2>5
<1>3. CASE EmitRow /\ ~ plan[row].predicts
  BY <1>3, EmittedRow DEF Reporting, Made
<1> QED BY <1>1, <1>2, <1>3, OnlyEmitAdds, EmittedRow

\* In every reachable state the tokens reported for a request are the output part
\* of its history, without the stop token it may end with: an eviction that
\* recomputes a sequence, a shared prefix or a failed pass neither repeats, loses
\* nor changes a token of an answer (scheduler.rs commit, preempt, abort).
THEOREM AnswersAreHistories == Spec => []AnswersMatchHistories
<1>1. Reporting => AnswersMatchHistories
  BY DEF Reporting, AnswersMatchHistories, Made
<1> QED BY <1>1, ReportingInit, ReportingNext, InvAlways, PTL DEF Spec

-----------------------------------------------------------------------------
(* The reasons of the ends.                                                *)

\* The reason a resident that finished is about to be told fits its answer.
Deserving(r) ==
    /\ seq[r].finish = "length" => seq[r].generated >= seq[r].max_tokens
    /\ seq[r].finish = "stop" => seq[r].history[Len(seq[r].history)] \in StopTokens
Reasons == EndsFitTheAnswer /\ \A r \in ToSet(running) : Deserving(r)

\* No one has an end, or is about to have one, before the first pass.
LEMMA ReasonsInit == Init => Reasons
<1> SUFFICES ASSUME Init PROVE Reasons
  OBVIOUS
<1>1. ToSet(running) = {}
  BY DEF Init, ToSet
<1>2. \A r \in Request : told[r].end = "none"
  BY DEF Init
<1> QED BY <1>1, <1>2 DEF Reasons, EndsFitTheAnswer

\* A sequence given a token that ends it has the reason for its end.
LEMMA GivenLeaves ==
  ASSUME NEW s \in Sequence, NEW token \in Token, s.finish = "none"
  PROVE  LET g == Given(s, token)
         IN  /\ g.finish = "length" => g.generated >= g.max_tokens
             /\ g.finish = "stop" => g.history[Len(g.history)] \in StopTokens
<1>1. /\ s.history \in Seq(Token) /\ s.generated \in Nat /\ s.max_tokens \in Nat
  BY DEF Sequence
<1>2. /\ Len(Append(s.history, token)) = Len(s.history) + 1
      /\ Append(s.history, token)[Len(s.history) + 1] = token
  BY <1>1
<1>3. /\ FinishOf(s, token) = "stop" => token \in StopTokens
      /\ FinishOf(s, token) = "length" => s.generated + 1 >= s.max_tokens
  BY DEF FinishOf
<1> QED BY <1>1, <1>2, <1>3, GivenFields, SMTT(60)

\* Every step gives no end, or one that fits.
LEMMA ReasonsNext == Inv /\ Reasons /\ [Next]_vars => Reasons'
<1> SUFFICES ASSUME Inv, Reasons, [Next]_vars PROVE Reasons'
  OBVIOUS
<1>0. ToSet(running) \subseteq Request /\ ToSet(running') \subseteq Request
  <2>1. running \in Seq(Request) /\ running' \in Seq(Request)
    BY InvNext DEF Inv, Typed
  <2> QED BY <2>1, ToSetMeans
<1>1. ASSUME \A r \in Request : SameOutput(r) PROVE Reasons'
  <2>1. ASSUME NEW r \in ToSet(running') PROVE Deserving(r)'
    <3>1. SameOutput(r)
      BY <1>0, <1>1
    <3>2. CASE seq'[r].finish = "none"
      BY <3>2 DEF Deserving
    <3>3. CASE r \in ToSet(running) /\ seq'[r].finish = seq[r].finish
      BY <3>1, <3>3 DEF Reasons, Deserving, SameOutput
    <3> QED BY <3>1, <3>2, <3>3 DEF SameOutput
  <2>2. ASSUME NEW r \in Request
        PROVE  /\ told'[r].end = "length" =>
                    \/ seq'[r].generated >= seq'[r].max_tokens
                    \/ Span(seq'[r].history) > Cardinality(Block)
               /\ told'[r].end = "stop" =>
                    seq'[r].history[Len(seq'[r].history)] \in StopTokens
    <3>1. SameOutput(r)
      BY <1>1
    <3>2. CASE told'[r].end = told[r].end
      BY <3>1, <3>2 DEF Reasons, EndsFitTheAnswer, SameOutput
    <3>3. CASE told'[r].end = seq[r].finish /\ r \in ToSet(running)
      BY <3>1, <3>3 DEF Reasons, Deserving, SameOutput
    <3> QED BY <3>1, <3>2, <3>3 DEF SameOutput
  <2> QED BY <2>1, <2>2 DEF Reasons, EndsFitTheAnswer
<1>2. CASE EmitRow /\ plan[row].predicts
  <2>1. PICK q \in Request : q = plan[row].id
    BY <1>2, EmittedRow
  <2>2. PICK token \in Token :
          /\ seq' = [seq EXCEPT ![q] = Given(seq[q], token)]
          /\ told' = [told EXCEPT ![q].tokens = Reported(@, token)]
    BY <1>2, <2>1, EmitGives
  <2>3. /\ seq \in [Request -> Sequence] /\ told \in [Request -> Report]
    BY DEF Inv, Typed
  <2>4. /\ running' = running /\ q \in ToSet(running) /\ seq[q].finish = "none"
    BY <1>2, <2>1, EmittedRow
  <2>5. told[q].end = "none" /\ \A r \in Request : told'[r].end = told[r].end
    BY <2>2, <2>3, <2>4 DEF Inv, Queues, InHand, Report
  <2>6. Deserving(q)'
    <3>1. seq[q] \in Sequence /\ seq'[q] = Given(seq[q], token)
      BY <2>2, <2>3
    <3> QED BY <2>4, <3>1, GivenLeaves DEF Deserving
  <2>7. \A r \in Request : r # q => seq'[r] = seq[r]
    BY <2>2, <2>3
  <2>8. ASSUME NEW r \in ToSet(running') PROVE Deserving(r)'
    BY <1>0, <2>4, <2>6, <2>7 DEF Reasons, Deserving
  <2>9. EndsFitTheAnswer'
    BY <2>5, <2>7 DEF Reasons, EndsFitTheAnswer
  <2> QED BY <2>8, <2>9 DEF Reasons
<1>3. CASE EmitRow /\ ~ plan[row].predicts
  BY <1>3, EmittedRow DEF Reasons, Deserving, EndsFitTheAnswer
<1> QED BY <1>1, <1>2, <1>3, OnlyEmitAdds, EmittedRow

\* In every reachable state a request that ended for its length was given every
\* token it asked for, or has outgrown the whole pool, and one that ended on a
\* stop token has one at the end of its history: no cancel, failed pass or
\* eviction is reported as a finished answer (scheduler.rs refuse_unservable,
\* commit, abort, cancel).
THEOREM EndsAreDeserved == Spec => []EndsFitTheAnswer
<1>1. Reasons => EndsFitTheAnswer
  BY DEF Reasons
<1> QED BY <1>1, ReasonsInit, ReasonsNext, InvAlways, PTL DEF Spec

-----------------------------------------------------------------------------
(* The order of the starts.                                                *)

\* What was never evicted stands behind what was, in order of arrival, and
\* nobody behind it has started.
New(r) == seq[r].preemptions = 0
InOrder(w) ==
    \A i, j \in DOMAIN w : i < j /\ New(w[i]) => New(w[j]) /\ w[i] < w[j]
Order ==
    /\ \A r, q \in Request : q < r /\ told[r].submitted => told[q].submitted
    /\ \A r \in Request : ~ told[r].submitted => New(r)
    /\ InOrder(waiting)
    /\ joining # Nobody /\ New(joining) =>
          \A q \in ToSet(waiting) : New(q) /\ joining < q
    /\ \A r, q \in Request :
         r < q /\ r \in ToSet(waiting) \cup {joining} /\ ~ Started(r) => ~ Started(q)

\* Nobody waits initially.
LEMMA OrderInit == Init => Order
<1> SUFFICES ASSUME Init PROVE Order
  OBVIOUS
<1>1. ToSet(running) = {} /\ ToSet(waiting) = {} /\ DOMAIN waiting = {}
  BY DEF Init, ToSet
<1>2. \A r \in Request : New(r) /\ ~ told[r].submitted
  BY DEF Init, New, NewSequence
<1>3. \A r \in Request : ~ Started(r)
  BY <1>1, <1>2 DEF Started, New
<1> QED BY <1>1, <1>2, <1>3, SchedulerAssumption DEF Init, Order, InOrder

\* A step on which nobody is evicted, arrives or joins the residents.
Steady ==
    /\ \A r \in Request : seq'[r].preemptions = seq[r].preemptions
    /\ \A r \in Request : told'[r].submitted = told[r].submitted
    /\ ToSet(running') \subseteq ToSet(running)

\* Such a step keeps the order when it keeps the queue or takes something out.
LEMMA SteadyKeepsOrder ==
  ASSUME Inv, Order, Steady, joining' = joining \/ joining' = Nobody,
         waiting' \in Seq(Request), ToSet(waiting') \subseteq ToSet(waiting),
         InOrder(waiting')
  PROVE  Order'
<1>1. /\ \A r \in Request : New(r)' <=> New(r)
      /\ waiting \in Seq(Request) /\ running \in Seq(Request)
      /\ joining \in Request \cup {Nobody}
  BY DEF Steady, New, Inv, Typed
<1>2. ToSet(waiting) \subseteq Request /\ ToSet(running) \subseteq Request
  BY <1>1, ToSetMeans
<1>3. \A r \in Request : Started(r)' => Started(r)
  BY <1>1, <1>2 DEF Steady, Started, New
<1>4. \A r \in ToSet(waiting) \cup {joining} : r \in Request => (Started(r) => Started(r)')
  <2>1. \A r \in ToSet(waiting) \cup {joining} : r \notin ToSet(running)
    BY DEF Inv, Queues
  <2> QED BY <1>1, <2>1 DEF Started, Steady
<1>5. InOrder(waiting)'
  <2>1. PICK w \in Seq(Request) : w = waiting'
    OBVIOUS
  <2>2. \A i, j \in DOMAIN w : i < j /\ seq[w[i]].preemptions = 0 =>
          seq[w[j]].preemptions = 0 /\ w[i] < w[j]
    BY <2>1 DEF InOrder, New
  <2>3. \A i \in DOMAIN w : w[i] \in Request
    OBVIOUS
  <2>4. \A i, j \in DOMAIN w : i < j /\ seq'[w[i]].preemptions = 0 =>
          seq'[w[j]].preemptions = 0 /\ w[i] < w[j]
    BY <2>2, <2>3 DEF Steady
  <2> QED BY <2>1, <2>4 DEF InOrder, New
<1>6. joining' # Nobody /\ New(joining)' =>
        \A q \in ToSet(waiting') : New(q)' /\ joining' < q
  BY <1>1, <1>2 DEF Order
<1>7. \A r, q \in Request :
        r < q /\ r \in ToSet(waiting') \cup {joining'} /\ ~ Started(r)' => ~ Started(q)'
  BY <1>2, <1>3, <1>4, SchedulerAssumption DEF Order
<1>8. /\ \A r, q \in Request : q < r /\ told'[r].submitted => told'[q].submitted
      /\ \A r \in Request : ~ told'[r].submitted => New(r)'
  BY <1>1 DEF Order, Steady
<1> QED BY <1>5, <1>6, <1>7, <1>8 DEF Order

\* A part of the queue is in the order of the queue.
LEMMA RemovedInOrder ==
  ASSUME NEW w \in Seq(Request), InOrder(w), NEW n \in 1..Len(w)
  PROVE  InOrder(RemoveAt(w, n))
<1>1. PICK v : v = RemoveAt(w, n)
  OBVIOUS
<1>2. /\ v \in Seq(Request) /\ Len(v) = Len(w) - 1 /\ Len(w) \in Nat
      /\ \A i \in 1..(Len(w) - 1) : v[i] = IF i < n THEN w[i] ELSE w[i + 1]
  BY <1>1, RemoveAtFields, SMTT(60)
<1>3. ASSUME NEW i \in 1..(Len(w) - 1), NEW j \in 1..(Len(w) - 1), i < j, New(v[i])
      PROVE  New(v[j]) /\ v[i] < v[j]
  <2>1. PICK k \in 1..Len(w) : k = (IF i < n THEN i ELSE i + 1) /\ v[i] = w[k]
    BY <1>2
  <2>2. PICK l \in 1..Len(w) : l = (IF j < n THEN j ELSE j + 1) /\ v[j] = w[l]
    BY <1>2
  <2>3. k < l
    BY <1>3, <2>1, <2>2
  <2> QED BY <1>3, <2>1, <2>2, <2>3 DEF InOrder
<1> QED BY <1>1, <1>2, <1>3 DEF InOrder

\* So is what is left when its first leaves.
LEMMA TailInOrder ==
  ASSUME NEW w \in Seq(Request), w # <<>>, InOrder(w)
  PROVE  /\ InOrder(Tail(w))
         /\ New(Head(w)) => \A q \in ToSet(Tail(w)) : New(q) /\ Head(w) < q
<1>1. PICK v, h : v = Tail(w) /\ h = Head(w)
  OBVIOUS
<1>2. /\ v \in Seq(Request) /\ Len(v) = Len(w) - 1 /\ Len(w) \in Nat /\ Len(w) > 0
      /\ \A i \in 1..(Len(w) - 1) : v[i] = w[i + 1]
      /\ h = w[1]
  BY <1>1, TailOnce
<1>3. \A i, j \in 1..Len(w) : i < j /\ New(w[i]) => New(w[j]) /\ w[i] < w[j]
  BY <1>2 DEF InOrder
<1>4. ASSUME NEW i \in 1..(Len(w) - 1), NEW j \in 1..(Len(w) - 1), i < j, New(v[i])
      PROVE  New(v[j]) /\ v[i] < v[j]
  <2>1. i + 1 \in 1..Len(w) /\ j + 1 \in 1..Len(w) /\ i + 1 < j + 1
    BY <1>2, <1>4
  <2> QED BY <1>2, <1>3, <1>4, <2>1
<1>5. ASSUME New(h), NEW q \in ToSet(v) PROVE New(q) /\ h < q
  <2>1. PICK i \in 1..(Len(w) - 1) : v[i] = q
    BY <1>2, ToSetMeans
  <2>2. 1 \in 1..Len(w) /\ i + 1 \in 1..Len(w) /\ 1 < i + 1 /\ w[i + 1] = q
    BY <1>2, <2>1
  <2> QED BY <1>2, <1>3, <1>5, <2>2
<1> QED BY <1>1, <1>2, <1>4, <1>5 DEF InOrder

\* Departures keep the order.
LEMMA LeavingKeepsOrder ==
  ASSUME Inv, Order, (\E r \in Request : Cancel(r)) \/ Refuse \/ AbortRow \/ Retire
  PROVE  Order'
<1>1. /\ seq \in [Request -> Sequence] /\ told \in [Request -> Report]
      /\ waiting \in Seq(Request) /\ running \in Seq(Request) /\ Typed
      /\ IsInjective(waiting) /\ IsInjective(running) /\ InOrder(waiting)
  BY DEF Inv, Typed, Queues, Order
<1>2. CASE \E r \in Request : Cancel(r)
  <2>0. PICK r \in Request : Cancel(r)
    BY <1>2
  <2>1. /\ waiting' = Without(waiting, r) /\ running' = Without(running, r)
        /\ \E f : seq' = [seq EXCEPT ![r].finish = f]
        /\ told' = [told EXCEPT ![r].end = "cancelled"] /\ joining' = joining
    BY <2>0 DEF Cancel
  <2>2. /\ ToSet(running') \subseteq ToSet(running)
        /\ waiting' \in Seq(Request) /\ ToSet(waiting') \subseteq ToSet(waiting)
    BY <1>1, <2>1, WithoutOnce
  <2>3. InOrder(waiting')
    <3>1. waiting' = waiting \/ \E n \in 1..Len(waiting) : waiting' = RemoveAt(waiting, n)
      BY <1>1, <2>1, WithoutOnce
    <3> QED BY <1>1, <3>1, RemovedInOrder
  <2>4. Steady
    BY <1>1, <2>1, <2>2, ZenonT(60) DEF Steady, Sequence, Report
  <2> QED BY <2>1, <2>2, <2>3, <2>4, SteadyKeepsOrder
<1>3. CASE Refuse
  <2>0. PICK q : q = Head(waiting)
    OBVIOUS
  <2>1. /\ waiting # <<>> /\ waiting' = Tail(waiting)
        /\ seq' = [seq EXCEPT ![q].finish = "length"]
        /\ told' = [told EXCEPT ![q].end = "length"]
        /\ running' = running /\ joining' = joining
    BY <1>3, <2>0 DEF Refuse, Unservable
  <2>2. waiting' \in Seq(Request) /\ ToSet(waiting') \subseteq ToSet(waiting)
    BY <1>1, <2>1, TailOnce
  <2>3. InOrder(waiting')
    BY <1>1, <2>1, TailInOrder
  <2>4. Steady
    BY <1>1, <2>1 DEF Steady, Sequence, Report
  <2> QED BY <2>1, <2>2, <2>3, <2>4, SteadyKeepsOrder
<1>4. CASE AbortRow
  <2>1. \E q : /\ running' = Without(running, q)
               /\ seq' = [seq EXCEPT ![q].finish = "stop"]
               /\ told' = [told EXCEPT ![q].end = "failed"]
    BY <1>4 DEF AbortRow
  <2>2. ToSet(running') \subseteq ToSet(running)
    BY <1>1, <2>1, WithoutOnce
  <2>3. Steady
    BY <1>1, <2>1, <2>2 DEF Steady, Sequence, Report
  <2>4. waiting' = waiting /\ joining' = joining
    BY <1>4 DEF AbortRow
  <2> QED BY <1>1, <2>3, <2>4, SteadyKeepsOrder
<1>5. CASE Retire
  <2>1. PICK i : i = CHOOSE n \in Finished : \A j \in Finished : n <= j
    OBVIOUS
  <2>2. /\ Finished # {} /\ running' = RemoveAt(running, i) /\ seq' = seq
        /\ \E q, e : told' = [told EXCEPT ![q].end = e]
        /\ waiting' = waiting /\ joining' = joining
    BY <1>5, <2>1 DEF Retire
  <2>3. ToSet(running') \subseteq ToSet(running)
    BY <1>1, <2>1, <2>2, FirstFinished, RemoveAtOnce, ZenonT(60)
  <2>4. Steady
    BY <1>1, <2>2, <2>3 DEF Steady, Report
  <2> QED BY <1>1, <2>2, <2>4, SteadyKeepsOrder
<1> QED BY <1>2, <1>3, <1>4, <1>5

\* An arrival stands last, and has the greatest number.
LEMMA SubmitKeepsOrder ==
  ASSUME Inv, Order, NEW r \in Request, Submit(r)
  PROVE  Order'
<1>1. /\ ~ told[r].submitted /\ \A q \in Request : q < r => told[q].submitted
      /\ told' = [told EXCEPT ![r].submitted = TRUE]
      /\ waiting' = Append(waiting, r)
      /\ UNCHANGED <<seq, running, joining>> /\ pc \in {"idle", "parked"}
  BY DEF Submit, PushBack
<1>2. /\ told \in [Request -> Report] /\ waiting \in Seq(Request)
      /\ running \in Seq(Request) /\ joining = Nobody
  BY <1>1 DEF Inv, Typed, Queues
<1>3. \A q \in Request : told'[q].submitted <=> told[q].submitted \/ q = r
  BY <1>1, <1>2 DEF Report
<1>4. \A q \in Request : (New(q)' <=> New(q)) /\ (Started(q)' <=> Started(q))
  BY <1>1 DEF New, Started
<1>5. \A q \in ToSet(waiting) \cup ToSet(running) : q \in Request /\ told[q].submitted
  <2>1. \A q \in ToSet(waiting) \cup ToSet(running) : q \in Request
    BY <1>2, ToSetMeans
  <2> QED BY <2>1 DEF Inv, Queues, InHand
<1>6. r \in Nat /\ \A q \in Request : q \in Nat
  BY SchedulerAssumption
<1>7. \A q \in Request : told[q].submitted => q < r
  BY <1>1, <1>6 DEF Order
<1>8. New(r) /\ ~ Started(r)
  BY <1>1, <1>5 DEF Order, Started, New
<1>9. \A q \in Request : Started(q) => q < r
  BY <1>5, <1>7 DEF Order, Started, New
<1>10. InOrder(waiting)'
  <2>1. /\ waiting' \in Seq(Request) /\ DOMAIN waiting' = 1..(Len(waiting) + 1)
        /\ waiting'[Len(waiting) + 1] = r /\ Len(waiting) \in Nat
        /\ \A i \in 1..Len(waiting) : waiting'[i] = waiting[i] /\ waiting[i] \in Request
    BY <1>1, <1>2
  <2>2. \A i \in 1..Len(waiting) : waiting[i] < r
    <3>1. \A i \in 1..Len(waiting) : waiting[i] \in ToSet(waiting)
      BY <1>2, ToSetMeans
    <3> QED BY <1>5, <1>7, <3>1
  <2>3. ASSUME NEW i \in 1..(Len(waiting) + 1), NEW j \in 1..(Len(waiting) + 1), i < j,
               New(waiting'[i])
        PROVE  New(waiting'[j]) /\ waiting'[i] < waiting'[j]
    <3>1. i \in 1..Len(waiting)
      BY <2>1, <2>3
    <3>2. CASE j = Len(waiting) + 1
      BY <1>8, <2>1, <2>2, <3>1, <3>2
    <3>3. CASE j \in 1..Len(waiting)
      <4>1. New(waiting[i])
        BY <2>1, <2>3, <3>1
      <4>2. New(waiting[j]) /\ waiting[i] < waiting[j]
        BY <1>2, <2>3, <3>1, <3>3, <4>1 DEF Order, InOrder
      <4> QED BY <2>1, <3>1, <3>3, <4>2
    <3> QED BY <2>1, <3>2, <3>3
  <2>4. \A i, j \in DOMAIN waiting' : i < j /\ New(waiting'[i]) =>
          New(waiting'[j]) /\ waiting'[i] < waiting'[j]
    BY <2>1, <2>3
  <2> QED BY <1>1, <2>4 DEF InOrder, New
<1>11. ASSUME NEW p \in Request, NEW q \in Request,
              p < q, p \in ToSet(waiting') \cup {joining'}, ~ Started(p)'
       PROVE  ~ Started(q)'
  <2>1. CASE p = r
    BY <1>4, <1>6, <1>9, <1>11, <2>1
  <2>2. CASE p # r
    <3>1. p \in ToSet(waiting)
      BY <1>1, <1>2, <1>11, <2>2, AppendNew, SchedulerAssumption
    <3> QED BY <1>4, <1>11, <3>1 DEF Order
  <2> QED BY <2>1, <2>2
<1>12. \A p, q \in Request : q < p /\ told'[p].submitted => told'[q].submitted
  BY <1>1, <1>3 DEF Order
<1> QED BY <1>1, <1>2, <1>3, <1>4, <1>10, <1>11, <1>12 DEF Order

\* Something put in front: it is not new, or it is new and older than the rest.
LEMMA FrontInOrder ==
  ASSUME NEW w \in Seq(Request), InOrder(w), NEW r \in Request,
         New(r) => \A q \in ToSet(w) : New(q) /\ r < q
  PROVE  InOrder(<<r>> \o w)
<1>1. PICK v : v = <<r>> \o w
  OBVIOUS
<1>2. /\ v \in Seq(Request) /\ Len(v) = Len(w) + 1 /\ Len(w) \in Nat /\ v[1] = r
      /\ \A i \in 1..Len(w) : v[i + 1] = w[i]
  BY <1>1, ConsNew
<1>3. ASSUME NEW i \in 1..(Len(w) + 1), NEW j \in 1..(Len(w) + 1), i < j, New(v[i])
      PROVE  New(v[j]) /\ v[i] < v[j]
  <2>1. PICK l \in 1..Len(w) : l = j - 1
    BY <1>2, <1>3
  <2>2. v[j] = w[l]
    BY <1>2, <2>1
  <2>3. CASE i = 1
    <3>1. w[l] \in ToSet(w)
      BY ToSetMeans
    <3> QED BY <1>2, <1>3, <2>2, <2>3, <3>1
  <2>4. CASE i # 1
    <3>1. PICK k \in 1..Len(w) : k = i - 1
      BY <1>2, <2>4
    <3>2. v[i] = w[k] /\ k < l
      BY <1>2, <1>3, <2>1, <3>1
    <3> QED BY <1>3, <2>2, <3>2 DEF InOrder
  <2> QED BY <2>3, <2>4
<1> QED BY <1>1, <1>2, <1>3 DEF InOrder

\* A claim that does not fit puts the sequence back where it was.
LEMMA PutBackKeepsOrder == ASSUME Inv, Order, PutBack PROVE Order'
<1>1. /\ joining \in Request /\ joining' = Nobody
      /\ waiting' = <<joining>> \o waiting
      /\ seq' = [seq EXCEPT ![joining].pending = seq[joining].history]
      /\ running' = running /\ told' = told
  BY DEF PutBack, settled, Inv, Typed, Queues
<1>2. /\ seq \in [Request -> Sequence] /\ waiting \in Seq(Request)
      /\ Nobody \notin Request
  BY SchedulerAssumption DEF Inv, Typed
<1>3. \A q \in Request : seq'[q].preemptions = seq[q].preemptions
  BY <1>1, <1>2 DEF Sequence
<1>4. \A q \in Request : (New(q)' <=> New(q)) /\ (Started(q)' <=> Started(q))
  BY <1>1, <1>3 DEF New, Started
<1>5. PICK w : w = <<joining>> \o waiting
  OBVIOUS
<1>6. w \in Seq(Request) /\ ToSet(w) = ToSet(waiting) \cup {joining}
  BY <1>1, <1>2, <1>5, ConsNew
<1>7. InOrder(w)
  BY <1>1, <1>2, <1>5, FrontInOrder DEF Order
<1>8. InOrder(waiting)'
  <2>1. \A i \in DOMAIN w : w[i] \in Request
    BY <1>6
  <2> QED BY <1>1, <1>3, <1>5, <1>7, <2>1, SMTT(60) DEF InOrder, New
<1> QED BY <1>1, <1>2, <1>4, <1>5, <1>6, <1>8 DEF Order

\* An eviction puts in front a sequence that has started.
LEMMA PreemptKeepsOrder == ASSUME Inv, Order, Preempt PROVE Order'
<1>1. PICK n, r : n = Newest /\ r = running[n]
  OBVIOUS
<1>2. /\ pc = "decode" /\ Evictable # {} /\ running' = RemoveAt(running, n)
      /\ waiting' = <<r>> \o waiting
      /\ seq' = [seq EXCEPT ![r] = Preempted(@)] /\ told' = told /\ joining' = joining
  BY <1>1 DEF Preempt, settled
<1>3. /\ seq \in [Request -> Sequence] /\ waiting \in Seq(Request) /\ Typed
      /\ running \in Seq(Request) /\ IsInjective(running) /\ joining = Nobody
      /\ ToSet(waiting) \cap ToSet(running) = {} /\ Nobody \notin Request
  BY <1>2, SchedulerAssumption DEF Inv, Typed, Queues
<1>4. n \in 1..Len(running) /\ r \in Request /\ r \in ToSet(running)
  BY <1>1, <1>2, <1>3, NewestMeans
<1>5. ToSet(running') = ToSet(running) \ {r}
  BY <1>1, <1>2, <1>3, <1>4, RemoveAtOnce
<1>6. /\ \A q \in Request : q # r => seq'[q] = seq[q]
      /\ seq'[r].preemptions = seq[r].preemptions + 1 /\ seq[r].preemptions \in Nat
  <2>1. seq[r] \in Sequence
    BY <1>3, <1>4
  <2> QED BY <1>2, <1>3, <1>4, <2>1, PreemptedFields DEF Sequence
<1>7. /\ ~ New(r)' /\ Started(r) /\ Started(r)'
      /\ \A q \in Request : q # r => (New(q)' <=> New(q)) /\ (Started(q)' <=> Started(q))
  BY <1>4, <1>5, <1>6 DEF New, Started
<1>8. PICK w : w = <<r>> \o waiting
  OBVIOUS
<1>9. /\ w \in Seq(Request) /\ ToSet(w) = ToSet(waiting) \cup {r}
      /\ Len(w) = Len(waiting) + 1 /\ Len(waiting) \in Nat /\ w[1] = r
      /\ \A i \in 1..Len(waiting) : w[i + 1] = waiting[i]
  BY <1>3, <1>4, <1>8, ConsNew
<1>10. ASSUME NEW i \in 1..(Len(waiting) + 1), NEW j \in 1..(Len(waiting) + 1), i < j,
              seq'[w[i]].preemptions = 0
       PROVE  seq'[w[j]].preemptions = 0 /\ w[i] < w[j]
  <2>1. i # 1
    BY <1>7, <1>9, <1>10 DEF New
  <2>2. PICK k \in 1..Len(waiting), l \in 1..Len(waiting) : k = i - 1 /\ l = j - 1
    BY <1>9, <1>10, <2>1
  <2>3. w[i] = waiting[k] /\ w[j] = waiting[l] /\ k < l
    BY <1>9, <1>10, <2>2, SMTT(60)
  <2>4. waiting[k] \in Request \ {r} /\ waiting[l] \in Request \ {r}
    BY <1>3, <1>4, ToSetMeans
  <2>5. seq[waiting[k]].preemptions = 0
    BY <1>6, <1>10, <2>3, <2>4
  <2>6. seq[waiting[l]].preemptions = 0 /\ waiting[k] < waiting[l]
    BY <1>3, <2>3, <2>5 DEF Order, InOrder, New
  <2> QED BY <1>6, <2>3, <2>4, <2>6
<1>11. InOrder(waiting)'
  BY <1>2, <1>8, <1>9, <1>10 DEF InOrder, New
<1>12. \A q \in Request : ~ told'[q].submitted => New(q)'
  <2>1. told[r].submitted
    BY <1>4 DEF Inv, Queues, InHand
  <2> QED BY <1>2, <1>7, <2>1 DEF Order
<1>13. ASSUME NEW p \in Request, NEW q \in Request,
              p < q, p \in ToSet(waiting') \cup {joining'}, ~ Started(p)'
       PROVE  ~ Started(q)'
  <2>1. p # r /\ p \in ToSet(waiting)
    BY <1>2, <1>3, <1>7, <1>8, <1>9, <1>13
  <2>2. ~ Started(q)
    BY <1>7, <1>13, <2>1 DEF Order
  <2> QED BY <1>7, <2>2
<1>14. \A p, q \in Request : q < p /\ told'[p].submitted => told'[q].submitted
  BY <1>2 DEF Order
<1> QED BY <1>2, <1>3, <1>11, <1>12, <1>13, <1>14 DEF Order

\* The next prompt is the first in the queue.
LEMMA ClaimKeepsOrder ==
  ASSUME Inv, Order, StartNextPrompt \/ Admit
  PROVE  Order'
<1>1. PICK h, w : h = Head(waiting) /\ w = Tail(waiting)
  OBVIOUS
<1>2. /\ waiting # <<>> /\ waiting' = w /\ joining' = h
      /\ seq' = seq /\ running' = running /\ told' = told
  BY <1>1 DEF StartNextPrompt, Admit, Admissible, PopAndClaim, settled
<1>3. waiting \in Seq(Request) /\ IsInjective(waiting) /\ Nobody \notin Request
  BY SchedulerAssumption DEF Inv, Typed, Queues
<1>4. /\ h \in Request /\ h \in ToSet(waiting)
      /\ ToSet(w) \subseteq ToSet(waiting) /\ w \in Seq(Request)
  BY <1>1, <1>2, <1>3, TailOnce
<1>5. InOrder(w) /\ (New(h) => \A q \in ToSet(w) : New(q) /\ h < q)
  BY <1>1, <1>2, <1>3, TailInOrder DEF Order
<1>6. \A q : (New(q)' <=> New(q)) /\ (Started(q)' <=> Started(q))
  BY <1>2 DEF New, Started
<1>7. InOrder(waiting)'
  BY <1>2, <1>5 DEF InOrder, New
<1>8. ASSUME NEW p \in Request, NEW q \in Request,
             p < q, p \in ToSet(waiting') \cup {joining'}, ~ Started(p)'
      PROVE  ~ Started(q)'
  <2>1. p \in ToSet(waiting)
    BY <1>2, <1>4, <1>8
  <2> QED BY <1>6, <1>8, <2>1 DEF Order
<1>9. joining' # Nobody /\ New(joining)' =>
        \A q \in ToSet(waiting') : New(q)' /\ joining' < q
  BY <1>2, <1>5, <1>6 DEF New
<1>10. /\ \A p, q \in Request : q < p /\ told'[p].submitted => told'[q].submitted
       /\ \A p \in Request : ~ told'[p].submitted => New(p)'
  BY <1>2, <1>6 DEF Order
<1> QED BY <1>7, <1>8, <1>9, <1>10 DEF Order

\* What joins the residents was the oldest that had not started.
LEMMA JoinKeepsOrder ==
  ASSUME Inv, Order, Join \/ PlanPrefill
  PROVE  Order'
<1>1. PICK h : h = joining
  OBVIOUS
<1>2. /\ h \in Request /\ running' = Append(running, h) /\ joining' = Nobody
      /\ waiting' = waiting /\ told' = told
  BY <1>1 DEF Join, PlanPrefill, settled, Inv, Typed, Queues
<1>3. /\ seq \in [Request -> Sequence] /\ waiting \in Seq(Request)
      /\ running \in Seq(Request) /\ Nobody \notin Request
  BY SchedulerAssumption DEF Inv, Typed
<1>4. ToSet(running') = ToSet(running) \cup {h} /\ ToSet(waiting) \subseteq Request
  BY <1>2, <1>3, AppendNew, ToSetMeans
<1>5. \A q \in Request : seq'[q].preemptions = seq[q].preemptions
  <2>1. \/ \E left : seq' = [seq EXCEPT ![h].prompt_left = left, ![h].pending = <<>>]
        \/ seq' = [seq EXCEPT ![h].pending = <<>>]
    BY <1>1 DEF Join, PlanPrefill
  <2>2. h \in Request /\ \A q \in Request : seq[q] \in Sequence
    BY <1>2, <1>3
  <2>3. ASSUME NEW q \in Request PROVE seq'[q].preemptions = seq[q].preemptions
    <3>1. CASE q = h
      BY <1>3, <2>1, <2>2, <3>1 DEF Sequence
    <3>2. CASE q # h
      BY <1>3, <2>1, <2>2, <3>2
    <3> QED BY <3>1, <3>2
  <2> QED BY <2>3
<1>6. \A q \in Request : New(q)' <=> New(q)
  BY <1>5 DEF New
<1>7. \A q \in Request : Started(q)' <=> Started(q) \/ q = h
  BY <1>2, <1>4, <1>5 DEF Started
<1>8. InOrder(waiting)'
  <2>1. \A i \in DOMAIN waiting : waiting[i] \in Request
    BY <1>3
  <2> QED BY <1>2, <1>5, <2>1 DEF Order, InOrder, New
<1>9. ASSUME NEW p \in Request, NEW q \in Request,
             p < q, p \in ToSet(waiting') \cup {joining'}, ~ Started(p)'
      PROVE  ~ Started(q)'
  <2>1. p \in ToSet(waiting) /\ ~ Started(p)
    BY <1>2, <1>3, <1>7, <1>9
  <2>2. ~ Started(q)
    BY <1>9, <2>1 DEF Order
  <2>3. CASE q = h
    <3>1. New(h)
      BY <1>1, <1>2, <2>2, <2>3, SMTT(40) DEF Started, New, Inv, Typed, Sequence
    <3>2. h < p
      BY <1>1, <1>2, <1>3, <2>1, <3>1 DEF Order
    <3>3. p \in Nat /\ h \in Nat
      BY <1>2, SchedulerAssumption
    <3> QED BY <1>9, <2>3, <3>2, <3>3
  <2> QED BY <1>7, <2>2, <2>3
<1>10. /\ \A p, q \in Request : q < p /\ told'[p].submitted => told'[q].submitted
       /\ \A p \in Request : ~ told'[p].submitted => New(p)'
  BY <1>2, <1>6 DEF Order
<1> QED BY <1>2, <1>8, <1>9, <1>10 DEF Order

\* Every step keeps the order.
LEMMA OrderNext == Inv /\ Order /\ [Next]_vars => Order'
<1> SUFFICES ASSUME Inv, Order, [Next]_vars PROVE Order'
  OBVIOUS
<1>1. /\ waiting \in Seq(Request) /\ seq \in [Request -> Sequence]
      /\ told \in [Request -> Report] /\ InOrder(waiting)
  BY DEF Inv, Typed, Order
<1>2. ASSUME Steady, waiting' = waiting, joining' = joining PROVE Order'
  BY <1>1, <1>2, SteadyKeepsOrder
<1>3. CASE UNCHANGED vars
  BY <1>2, <1>3 DEF vars, Steady
<1>4. ASSUME NEW r \in Request, Submit(r) \/ Cancel(r) PROVE Order'
  BY <1>4, SubmitKeepsOrder, LeavingKeepsOrder
<1>5. CASE SetChunk \/ Plan \/ SkipRow \/ GiveUpMixed \/ LeaveOut \/ EndRows
           \/ NoPromptToStart \/ CannotAdmit \/ EndCommit \/ ChooseRow \/ PlanDecode
           \/ PlanMixed \/ GrowSlice \/ GrowPrompt \/ Pass \/ PassFails \/ EndPlanLoop
  <2>1. UNCHANGED <<seq, running, told, waiting, joining>>
    BY <1>5
    DEF SetChunk, Plan, SkipRow, GiveUpMixed, LeaveOut, EndRows, NoPromptToStart,
        CannotAdmit, EndCommit, ChooseRow, PlanDecode, PlanMixed, GrowSlice, GrowPrompt,
        Pass, PassFails, EndPlanLoop, settled
  <2> QED BY <1>2, <2>1 DEF Steady
<1>6. CASE AdvanceRow
  <2>1. \E q, left : seq' = [seq EXCEPT ![q].prompt_left = left]
    BY <1>6 DEF AdvanceRow
  <2>2. UNCHANGED <<running, told, waiting, joining>>
    BY <1>6 DEF AdvanceRow, settled
  <2>3. \A r \in Request : seq'[r].preemptions = seq[r].preemptions
    BY <1>1, <2>1 DEF Sequence
  <2> QED BY <1>2, <2>2, <2>3 DEF Steady
<1>7. CASE EmitRow
  <2>1. running' = running /\ waiting' = waiting /\ joining' = joining
    BY <1>7, Zenon DEF EmitRow
  <2>2. CASE ~ plan[row].predicts
    BY <1>2, <1>7, <2>1, <2>2, EmittedRow DEF Steady
  <2>3. CASE plan[row].predicts
    <3>1. PICK q \in Request : q = plan[row].id
      BY <1>7, EmittedRow
    <3>2. PICK token \in Token :
            /\ seq' = [seq EXCEPT ![q] = Given(seq[q], token)]
            /\ told' = [told EXCEPT ![q].tokens = Reported(@, token)]
      BY <1>7, <2>3, <3>1, EmitGives
    <3>3. seq'[q].preemptions = seq[q].preemptions
      BY <1>1, <3>2, GivenFields
    <3>4. Steady
      BY <1>1, <2>1, <3>2, <3>3 DEF Steady, Report
    <3> QED BY <1>2, <2>1, <3>4
  <2> QED BY <1>7, <2>2, <2>3, EmittedRow
<1>8. CASE Refuse \/ AbortRow \/ Retire
  BY <1>8, LeavingKeepsOrder
<1>9. CASE PutBack \/ Preempt \/ StartNextPrompt \/ Admit \/ Join \/ PlanPrefill
  BY <1>9, PutBackKeepsOrder, PreemptKeepsOrder, ClaimKeepsOrder, JoinKeepsOrder
<1> QED
  BY <1>3, <1>4, <1>5, <1>6, <1>7, <1>8, <1>9 DEF Next, Engine, Planning, Committing

\* In every reachable state a request still waiting for its first block has no
\* later one ahead of it among those that ever got a block, although evicted
\* sequences and put-backs jump the queue (scheduler.rs submit, preempt,
\* start_next_prompt).
THEOREM StartsAreOrdered == Spec => []StartInOrderOfArrival
<1>1. Order => StartInOrderOfArrival
  BY DEF Order, StartInOrderOfArrival
<1> QED BY <1>1, OrderInit, OrderNext, InvAlways, PTL DEF Spec

-----------------------------------------------------------------------------
(* What the residents waste of their blocks.                               *)

\* No more than one block is held beyond the tokens: but for the slice that is
\* being given its blocks, and the rows of a pass, which hold what the pass fills.
Sparing(r) == Capacity(table[r]) <= table[r].tokens + BlockSize
Filling(r) ==
    /\ pc = "slice" /\ Partial # 0 /\ r = running[Partial]
    /\ Capacity(table[r]) < table[r].tokens + Want + BlockSize
Spent(w) == Capacity(table[w.id]) <= w.pos + Len(w.tokens) + BlockSize
Thrift ==
    /\ \A r \in ToSet(running) :
         Sparing(r) \/ Filling(r) \/ (Aboard(r) /\ pc # "emit")
    /\ \A k \in DOMAIN plan :
         /\ pc = "planned" \/ (pc = "advance" /\ k >= row) => Spent(plan[k])
         /\ pc = "advance" /\ k < row => Sparing(plan[k].id)
    /\ pc = "joining" => Capacity(table[joining]) = table[joining].tokens
    /\ pc = "admitting" =>
         Capacity(table[joining]) <= Len(seq[joining].history) + BlockSize

\* When no slice is filled and no pass is under way, every resident is sparing.
LEMMA AllSparing ==
  ASSUME Thrift, pc \notin {"planned", "advance", "abort"}, pc # "slice" \/ Partial = 0
  PROVE  \A r \in ToSet(running) : Sparing(r)
BY DEF Thrift, Filling, Aboard, Passing

\* Then that is all there is to thrift.
LEMMA SparingIsThrift ==
  ASSUME pc' \notin {"planned", "advance", "joining", "admitting"},
         \A r \in ToSet(running') : Sparing(r)'
  PROVE  Thrift'
BY DEF Thrift

\* The residents are sparing initially: there are none.
LEMMA ThriftInit == Init => Thrift
<1> SUFFICES ASSUME Init PROVE Thrift
  OBVIOUS
<1>1. ToSet(running) = {} /\ pc = "idle"
  BY DEF Init, ToSet
<1> QED BY <1>1 DEF Thrift

\* Steps that leave the residents and their tables alone, between passes.
LEMMA ControlThrift ==
  ASSUME Inv, Thrift,
         \/ SetChunk \/ Plan \/ SkipRow \/ GiveUpMixed \/ LeaveOut \/ EndRows
         \/ NoPromptToStart \/ CannotAdmit \/ EndCommit \/ EmitRow
         \/ \E r \in Request : Submit(r)
  PROVE  Thrift'
<1>1. /\ UNCHANGED <<table, running>>
      /\ pc \notin {"planned", "advance", "abort"} /\ (pc # "slice" \/ Partial = 0)
      /\ pc' \notin {"planned", "advance", "joining", "admitting"}
  BY Zenon DEF SetChunk, Plan, SkipRow, GiveUpMixed, LeaveOut, EndRows, NoPromptToStart,
         CannotAdmit, EndCommit, EmitRow, Submit, ToDecode, InRowLoop, NextRow, settled
<1>2. \A r \in ToSet(running) : Sparing(r)
  BY <1>1, AllSparing
<1> QED BY <1>1, <1>2, SparingIsThrift DEF Sparing

\* Steps that take a sequence out of the residents, or give one back.
LEMMA LeavingThrift ==
  ASSUME Inv, Thrift,
         (\E r \in Request : Cancel(r)) \/ Refuse \/ Retire \/ Preempt \/ PutBack
  PROVE  Thrift'
<1>1. /\ Typed /\ waiting \in Seq(Request) /\ running \in Seq(Request)
      /\ IsInjective(running) /\ ToSet(waiting) \cap ToSet(running) = {}
      /\ table \in [Request -> Table]
  BY CacheTyped DEF Inv, Typed, Queues
<1>2. /\ pc \notin {"planned", "advance", "abort", "slice"}
      /\ pc' \notin {"planned", "advance", "joining", "admitting"}
  BY DEF Cancel, Refuse, Retire, Preempt, PutBack, ToDecode
<1>3. \A r \in ToSet(running) : Sparing(r)
  BY <1>2, AllSparing
<1>4. \E r \in Request : FreeTable(r) /\ r \notin ToSet(running')
                         /\ ToSet(running') \subseteq ToSet(running)
  <2>1. ASSUME NEW r \in Request, Cancel(r)
        PROVE  FreeTable(r) /\ r \notin ToSet(running')
               /\ ToSet(running') \subseteq ToSet(running)
    BY <1>1, <2>1, WithoutOnce DEF Cancel
  <2>2. CASE Refuse
    <3>1. PICK r : r = Head(waiting)
      OBVIOUS
    <3>2. waiting # <<>> /\ FreeTable(r) /\ running' = running
      BY <2>2, <3>1 DEF Refuse, Unservable
    <3>3. r \in Request /\ r \in ToSet(waiting)
      BY <1>1, <3>1, <3>2, TailOnce
    <3> QED BY <1>1, <3>2, <3>3
  <2>3. CASE Retire
    <3>1. PICK i, r : i = (CHOOSE n \in Finished : \A j \in Finished : n <= j)
                      /\ r = running[i]
      OBVIOUS
    <3>2. Finished # {} /\ running' = RemoveAt(running, i) /\ FreeTable(r)
      BY <2>3, <3>1 DEF Retire
    <3>3. i \in 1..Len(running) /\ r \in Request
      BY <1>1, <3>1, <3>2, FirstFinished
    <3> QED BY <1>1, <3>1, <3>2, <3>3, RemoveAtOnce
  <2>4. CASE Preempt
    <3>1. PICK n, r : n = Newest /\ r = running[n]
      OBVIOUS
    <3>2. Evictable # {} /\ running' = RemoveAt(running, n) /\ FreeTable(r)
      BY <2>4, <3>1 DEF Preempt
    <3>3. n \in 1..Len(running) /\ r \in Request
      BY <1>1, <3>1, <3>2, NewestMeans
    <3> QED BY <1>1, <3>1, <3>2, <3>3, RemoveAtOnce
  <2>5. CASE PutBack
    <3>1. joining \in Request /\ joining \notin ToSet(running)
      BY <2>5 DEF PutBack, Inv, Typed, Queues
    <3> QED BY <2>5, <3>1 DEF PutBack
  <2> QED BY <2>1, <2>2, <2>3, <2>4, <2>5
<1>5. \A q \in ToSet(running') : Sparing(q)'
  <2>1. PICK r \in Request : FreeTable(r) /\ r \notin ToSet(running')
                             /\ ToSet(running') \subseteq ToSet(running)
    BY <1>4
  <2>2. \A q \in ToSet(running') : table'[q] = table[q]
    BY <1>1, <2>1, ToSetMeans DEF FreeTable
  <2> QED BY <1>3, <2>1, <2>2 DEF Sparing
<1> QED BY <1>2, <1>5, SparingIsThrift

\* A row that is chosen had no slot left when it gets a block.
LEMMA ChooseThrift == ASSUME Inv, Thrift, ChooseRow PROVE Thrift'
<1>1. PICK r : r = running[row]
  OBVIOUS
<1>2. /\ pc \in {"rows", "decode"} /\ row <= Len(running)
      /\ UNCHANGED <<running, pc>>
      /\ \/ Needs(r, 1) /\ TakeBlock(r)
         \/ table' = table
  BY <1>1 DEF ChooseRow, InRowLoop
<1>3. r \in Request
  BY <1>1, <1>2 DEF Inv, Typed
<1>4. \A q \in ToSet(running) : q \in Request /\ Sparing(q)
  BY <1>2, AllSparing, ToSetMeans DEF Inv, Typed
<1>5. CASE table' = table
  BY <1>2, <1>4, <1>5, SparingIsThrift DEF Sparing
<1>6. CASE Needs(r, 1) /\ TakeBlock(r)
  <2>1. /\ table'[r].tokens = table[r].tokens
        /\ Capacity(table'[r]) = Capacity(table[r]) + BlockSize
        /\ \A q \in Request : q # r => table'[q] = table[q]
    BY <1>3, <1>6, TakeBlockFields DEF Inv
  <2>2. /\ table[r] \in Table /\ WellFormed(table[r]) /\ table[r].tokens \in Nat
        /\ Capacity(table[r]) \in Nat /\ BlockSize \in Nat
    BY <1>3, Numbers, BlocksAssumption DEF Inv
  <2>3. table[r].tokens + 1 > Capacity(table[r])
    BY <1>6, <2>2, NeedsMeans DEF Needs
  <2>4. Sparing(r)'
    BY <2>1, <2>2, <2>3 DEF Sparing
  <2>5. \A q \in ToSet(running') : Sparing(q)'
    BY <1>2, <1>4, <2>1, <2>4 DEF Sparing
  <2> QED BY <1>2, <2>5, SparingIsThrift
<1> QED BY <1>2, <1>5, <1>6

\* A claim gives full blocks.
LEMMA ClaimFull ==
  ASSUME Inv, NEW r \in ToSet(waiting), PopAndClaim(r)
  PROVE  Capacity(table'[r]) = table'[r].tokens /\ table'[r].tokens \in Nat
<1>1. r \in Request /\ table \in [Request -> Table] /\ pool \in Pool
  BY CacheTyped, ToSetMeans DEF Inv, Typed
<1>2. table[r] = NewTable
  BY <1>1 DEF Inv, OthersHoldNothing, Queues
<1>3. seq[r].pending \in Seq(Token)
  BY <1>1, Numbers DEF Inv
<1>4. Capacity(NewTable) = 0 /\ NewTable.tokens = 0
  BY BlocksAssumption DEF Capacity, NewTable
<1>5. CASE ~ PrefixCache
  BY <1>1, <1>2, <1>4, <1>5 DEF PopAndClaim
<1>6. CASE PrefixCache
  <2>1. PICK k \in 0..Candidates(seq[r].pending) :
          /\ Claims(pool, seq[r].pending, k)
          /\ table' = [table EXCEPT
               ![r] = ClaimTable(pool, table[r], seq[r].pending, k)]
    BY <1>6 DEF PopAndClaim
  <2>2. k \in Nat
    BY <1>3, CandidatesNat
  <2>3. PICK p, t, h : p = pool /\ t = table[r] /\ h = seq[r].pending
    OBVIOUS
  <2>4. /\ p \in Pool /\ t \in Table /\ WellFormed(t) /\ t.blocks = <<>>
        /\ h \in Seq(Token) /\ Claims(p, h, k)
    BY <1>1, <1>2, <1>3, <2>1, <2>3, Numbers DEF Inv, NewTable
  <2>5. PICK u : u = ClaimTable(p, t, h, k)
    OBVIOUS
  <2>6. /\ u.blocks = [i \in 1..k |-> p.cached[PrefixName(h, i)]]
        /\ u.tokens = k * BlockSize
    BY <2>4, <2>5, ClaimFields
  <2>7. Len(u.blocks) = k
    BY <2>2, <2>6
  <2>8. table'[r] = u
    BY <1>1, <2>1, <2>3, <2>5
  <2> QED BY <2>2, <2>6, <2>7, <2>8, BlocksAssumption DEF Capacity
<1> QED BY <1>5, <1>6

\* The one that joins has nothing but full blocks yet.
LEMMA ClaimThrift ==
  ASSUME Inv, Thrift, StartNextPrompt \/ Admit
  PROVE  Thrift'
<1>1. PICK r : r = Head(waiting)
  OBVIOUS
<1>2. /\ waiting # <<>> /\ PopAndClaim(r) /\ joining' = r
      /\ UNCHANGED <<seq, running>>
      /\ (pc = "slice" /\ Partial = 0) \/ pc = "admit"
      /\ pc' = "joining" \/ pc' = "admitting"
  BY <1>1 DEF StartNextPrompt, Admit, Admissible, PopAndClaim, settled
<1>3. r \in ToSet(waiting)
  BY <1>1, <1>2, TailOnce DEF Inv, Typed
<1>4. /\ r \in Request /\ table'[r].tokens < Len(seq[r].history)
      /\ \A q \in Request : q # r => table'[q] = table[q]
  BY <1>2, <1>3, ClaimShort
<1>5. Capacity(table'[r]) = table'[r].tokens /\ table'[r].tokens \in Nat
  BY <1>2, <1>3, ClaimFull
<1>6. \A q \in ToSet(running) : q \in Request /\ q # r /\ Sparing(q)
  <2>1. \A q \in ToSet(running) : Sparing(q)
    BY <1>2, AllSparing
  <2> QED BY <1>3, <2>1, ToSetMeans DEF Inv, Typed, Queues
<1>7. \A q \in ToSet(running') : Sparing(q)'
  BY <1>2, <1>4, <1>6 DEF Sparing
<1>8. Capacity(table'[r]) <= Len(seq[r].history) + BlockSize
  <2>1. Len(seq[r].history) \in Nat
    BY <1>4, Numbers DEF Inv
  <2> QED BY <1>4, <1>5, <2>1, BlocksAssumption
<1> QED BY <1>2, <1>5, <1>7, <1>8 DEF Thrift

\* One block is all a prompt in slices starts with.
LEMMA JoinThrift == ASSUME Inv, Thrift, Join PROVE Thrift'
<1>1. PICK r \in Request : r = joining
  BY DEF Join, Inv, Typed, Queues
<1>2. /\ pc = "joining" /\ pc' = "slice" /\ running' = Append(running, r)
      /\ TakeBlock(r) \/ UNCHANGED <<pool, table>>
  BY <1>1 DEF Join
<1>3. /\ running \in Seq(Request) /\ r \notin ToSet(running)
  BY <1>1 DEF Inv, Typed, Queues
<1>4. Capacity(table[r]) = table[r].tokens
  BY <1>1, <1>2 DEF Thrift
<1>5. /\ table[r].tokens \in Nat /\ Capacity(table[r]) \in Nat /\ BlockSize \in Nat
  BY Numbers, BlocksAssumption DEF Inv
<1>6. \A q \in ToSet(running) : q \in Request /\ q # r /\ Sparing(q)
  BY <1>2, <1>3, AllSparing, ToSetMeans
<1>7. ToSet(running') = ToSet(running) \cup {r}
  BY <1>2, <1>3, AppendNew
<1>8. Sparing(r)'
  <2>1. CASE TakeBlock(r)
    <3>1. /\ table'[r].tokens = table[r].tokens
          /\ Capacity(table'[r]) = Capacity(table[r]) + BlockSize
      BY <2>1, TakeBlockFields DEF Inv
    <3> QED BY <1>4, <1>5, <3>1 DEF Sparing
  <2>2. CASE UNCHANGED <<pool, table>>
    BY <1>4, <1>5, <2>2 DEF Sparing
  <2> QED BY <1>2, <2>1, <2>2
<1>9. \A q \in ToSet(running) : table'[q] = table[q]
  BY <1>2, <1>6, GrewOrNot DEF Inv
<1>10. \A q \in ToSet(running') : Sparing(q)'
  BY <1>6, <1>7, <1>8, <1>9 DEF Sparing
<1> QED BY <1>2, <1>10, SparingIsThrift

\* The slice gets a block only while it does not fit.
LEMMA GrowSliceThrift == ASSUME Inv, Thrift, GrowSlice PROVE Thrift'
<1>1. PICK r : r = running[Partial]
  OBVIOUS
<1>2. /\ pc = "slice" /\ Partial # 0 /\ Needs(r, Want) /\ TakeBlock(r)
      /\ UNCHANGED <<seq, running, pc, plan, chosen, chunk>>
  BY <1>1 DEF GrowSlice, settled
<1>3. r \in Request /\ seq[r].prompt_left > 0
  BY <1>1, <1>2, PartialMeans DEF Inv, Queues
<1>4. /\ table'[r].tokens = table[r].tokens
      /\ Capacity(table'[r]) = Capacity(table[r]) + BlockSize
      /\ \A q \in Request : q # r => table'[q] = table[q]
  BY <1>2, <1>3, TakeBlockFields DEF Inv
<1>5. /\ table[r] \in Table /\ WellFormed(table[r]) /\ table[r].tokens \in Nat
      /\ Capacity(table[r]) \in Nat /\ BlockSize \in Nat /\ seq[r].prompt_left \in Nat
  BY <1>3, Numbers, BlocksAssumption DEF Inv
<1>6. Want \in Nat
  <2>1. Room \in Int /\ Room > 0
    BY <1>2 DEF Inv, Typed, ChosenHold, Room
  <2>2. Want = AtMost(Room, seq[r].prompt_left)
    BY <1>1 DEF Want
  <2> QED BY <1>5, <2>1, <2>2 DEF AtMost
<1>7. table[r].tokens + Want > Capacity(table[r])
  BY <1>2, <1>5, <1>6, NeedsMeans, SMTT(20) DEF Needs
<1>8. Partial' = Partial /\ Want' = Want
  <2>1. /\ seq' = seq /\ running' = running
        /\ chosen' = chosen /\ chunk' = chunk
    BY <1>2
  <2>2. Partial' = Partial
    BY <2>1, SMTT(20) DEF Partial
  <2>3. Room' = Room
    BY <2>1, SMTT(20) DEF Room
  <2> QED BY <2>1, <2>2, <2>3, SMTT(20) DEF Want
<1>9. Capacity(table'[r]) < table'[r].tokens + Want + BlockSize
  BY <1>4, <1>5, <1>6, <1>7
<1>10. Filling(r)'
  BY <1>1, <1>2, <1>8, <1>9 DEF Filling
<1>11. ASSUME NEW q \in ToSet(running), q # r PROVE Sparing(q)'
  <2>1. q \in Request
    BY ToSetMeans DEF Inv, Typed
  <2>2. Sparing(q)
    BY <1>1, <1>2, <1>11 DEF Thrift, Filling, Aboard, Passing
  <2> QED BY <1>4, <1>11, <2>1, <2>2 DEF Sparing
<1> QED BY <1>2, <1>10, <1>11 DEF Thrift

\* A whole prompt gets a block only while it does not fit.
LEMMA GrowPromptThrift == ASSUME Inv, Thrift, GrowPrompt PROVE Thrift'
<1>1. PICK r \in Request : r = joining
  BY DEF GrowPrompt, Inv, Typed, Queues
<1>2. /\ pc = "admitting" /\ Needs(r, Unshared) /\ TakeBlock(r)
      /\ UNCHANGED <<seq, running, pc, joining>> /\ joining # Nobody
      /\ r \notin ToSet(running)
  BY <1>1 DEF GrowPrompt, Inv, Queues
<1>3. /\ table'[r].tokens = table[r].tokens
      /\ Capacity(table'[r]) = Capacity(table[r]) + BlockSize
      /\ \A q \in Request : q # r => table'[q] = table[q]
  BY <1>2, TakeBlockFields DEF Inv
<1>4. /\ table[r] \in Table /\ WellFormed(table[r]) /\ table[r].tokens \in Nat
      /\ Capacity(table[r]) \in Nat /\ BlockSize \in Nat /\ Len(seq[r].history) \in Nat
  BY Numbers, BlocksAssumption DEF Inv
<1>5. Unshared \in Nat /\ table[r].tokens + Unshared = Len(seq[r].history)
  BY <1>1, <1>2, JoinerMeans
<1>6. table[r].tokens + Unshared > Capacity(table[r])
  BY <1>2, <1>4, <1>5, NeedsMeans DEF Needs
<1>7. Capacity(table'[r]) <= Len(seq'[r].history) + BlockSize
  BY <1>2, <1>3, <1>4, <1>5, <1>6
<1>8. \A q \in ToSet(running) : q \in Request /\ q # r /\ Sparing(q)
  BY <1>2, AllSparing, ToSetMeans DEF Inv, Typed
<1>9. \A q \in ToSet(running') : Sparing(q)'
  BY <1>2, <1>3, <1>8 DEF Sparing
<1> QED BY <1>1, <1>2, <1>7, <1>9 DEF Thrift

\* A sparing resident with one token to run does not waste more in the pass.
LEMMA DecodeSpent ==
  ASSUME Inv, pc \in {"slice", "decode"}, NEW k \in DOMAIN chosen,
         Sparing(running[chosen[k]])
  PROVE  Spent(DecodeRow(chosen[k]))
<1>1. PICK w : w = DecodeRow(chosen[k])
  OBVIOUS
<1>2. /\ Ahead(w) /\ w.id = running[chosen[k]] /\ w.id \in Request
  BY <1>1, DecodeRowAhead
<1>3. w.pos = table[w.id].tokens /\ Len(w.tokens) > 0
  BY <1>2 DEF Ahead
<1>4. w \in Row
  BY <1>1, DecodeRowAhead
<1>5. Len(w.tokens) \in Nat
  BY <1>4 DEF Row
<1>6. /\ table[w.id].tokens \in Nat /\ Capacity(table[w.id]) \in Nat /\ BlockSize \in Nat
  BY <1>2, Numbers, BlocksAssumption DEF Inv
<1>7. Capacity(table[w.id]) <= table[w.id].tokens + BlockSize
  BY <1>2 DEF Sparing
<1>8. Spent(w)
  BY <1>3, <1>5, <1>6, <1>7 DEF Spent
<1> QED BY <1>1, <1>8

\* A pass of decode rows.
LEMMA PlanDecodeThrift == ASSUME Inv, Thrift, PlanDecode PROVE Thrift'
<1>1. /\ pc = "decode" /\ pc' = (IF chosen = <<>> THEN "parked" ELSE "planned")
      /\ plan' = DecodeRows /\ UNCHANGED <<table, running>>
  BY DEF PlanDecode
<1>2. \A q \in ToSet(running) : Sparing(q)
  BY <1>1, AllSparing
<1>3. \A q \in ToSet(running') : Sparing(q)'
  BY <1>1, <1>2 DEF Sparing
<1>4. CASE chosen = <<>>
  BY <1>1, <1>3, <1>4, SparingIsThrift
<1>5. CASE chosen # <<>>
  <2>1. DOMAIN plan' = DOMAIN chosen /\ \A k \in DOMAIN chosen : plan'[k] = DecodeRow(chosen[k])
    BY <1>1, DecodeRowsHold
  <2>2. ASSUME NEW k \in DOMAIN chosen PROVE Spent(DecodeRow(chosen[k]))
    <3>1. running[chosen[k]] \in ToSet(running)
      BY <1>1, DecodeRowAhead
    <3> QED BY <1>1, <1>2, <3>1, DecodeSpent
  <2>3. \A k \in DOMAIN plan' : Spent(plan[k])'
    BY <1>1, <2>1, <2>2 DEF Spent
  <2> QED BY <1>1, <1>3, <1>5, <2>3 DEF Thrift
<1> QED BY <1>4, <1>5

\* What a slice takes of its table: all of its slots, or all it wanted of them.
LEMMA TakeSpends ==
  ASSUME NEW at \in Nat, NEW cap \in Nat, NEW want \in Nat, want > 0, at <= cap,
         NEW size \in Nat, cap <= at + size \/ cap < at + want + size,
         NEW take, take = AtMost(want, cap - at)
  PROVE  /\ take = 0 => cap <= at + size
         /\ take # 0 => cap <= at + take + size
<1>1. CASE want <= cap - at
  BY <1>1 DEF AtMost
<1>2. CASE ~ (want <= cap - at)
  BY <1>2 DEF AtMost
<1> QED BY <1>1, <1>2

\* A pass of decode rows and one slice.
LEMMA PlanMixedThrift == ASSUME Inv, Thrift, PlanMixed PROVE Thrift'
<1>0. PICK r : r = running[Partial]
  OBVIOUS
<1>a. PICK done, take :
        /\ done = Len(seq[r].history) - seq[r].prompt_left
        /\ take = AtMost(Want, Capacity(table[r]) - table[r].tokens)
  OBVIOUS
<1>b. PICK w : w = [id |-> r, pos |-> done,
                    tokens |-> SubSeq(seq[r].history, done + 1, done + take),
                    predicts |-> take = seq[r].prompt_left]
  OBVIOUS
<1>1. /\ pc = "slice" /\ Partial # 0 /\ UNCHANGED <<table, seq, running>>
      /\ IF take = 0
         THEN ToDecode /\ UNCHANGED plan
         ELSE /\ plan' = Append(DecodeRows, w)
              /\ pc' = "planned" /\ UNCHANGED <<row, chosen>>
  BY <1>0, <1>a, <1>b DEF PlanMixed, settled
<1>2. r \in Request /\ r \in ToSet(running) /\ seq[r].prompt_left > 0
  BY <1>0, <1>1, PartialMeans DEF Inv, Queues
<1>3. /\ table[r].tokens \in Nat /\ Capacity(table[r]) \in Nat /\ BlockSize \in Nat
      /\ table[r].tokens <= Capacity(table[r]) /\ seq[r].prompt_left \in Nat
  BY <1>2, Numbers, BlocksAssumption DEF Inv
<1>4. Want \in Nat /\ Want > 0
  <2>1. Room \in Int /\ Room > 0
    BY <1>1 DEF Inv, Typed, ChosenHold, Room
  <2>2. Want = AtMost(Room, seq[r].prompt_left)
    BY <1>0 DEF Want
  <2> QED BY <1>2, <1>3, <2>1, <2>2 DEF AtMost
<1>5. \/ Capacity(table[r]) <= table[r].tokens + BlockSize
      \/ Capacity(table[r]) < table[r].tokens + Want + BlockSize
  BY <1>1, <1>2 DEF Thrift, Sparing, Filling, Aboard, Passing
<1>6. /\ take = 0 => Capacity(table[r]) <= table[r].tokens + BlockSize
      /\ take # 0 => Capacity(table[r]) <= table[r].tokens + take + BlockSize
  BY <1>a, <1>3, <1>4, <1>5, TakeSpends
<1>7. \A q \in ToSet(running) : q # r => Sparing(q)
  BY <1>0, <1>1 DEF Thrift, Filling, Aboard, Passing
<1>8. CASE take = 0
  <2>1. \A q \in ToSet(running') : Sparing(q)'
    BY <1>1, <1>6, <1>7, <1>8 DEF Sparing
  <2> QED BY <1>1, <1>8, <2>1, SparingIsThrift DEF ToDecode
<1>9. CASE take # 0
  <2>1. plan' = Append(DecodeRows, w) /\ pc' = "planned"
    BY <1>1, <1>9
  <2>2. w \in Row /\ Ahead(w) /\ w.id = r /\ seq[r].pending = <<>>
    BY <1>0, <1>a, <1>b, <1>1, <1>2, <1>9, SliceAhead, ZenonT(60)
  <2>3. w.pos = table[r].tokens /\ Len(w.tokens) = take
    <3>1. w.pos = table[r].tokens
      BY <2>2 DEF Ahead
    <3>2. PICK h : h = seq[r].history
      OBVIOUS
    <3>3. /\ take \in Nat /\ take > 0 /\ h \in Seq(Token) /\ done \in Nat
          /\ done + take <= Len(h)
      BY <1>0, <1>a, <1>b, <1>1, <1>2, <1>9, <3>1, <3>2, SliceMeans
    <3>4. Len(SubSeq(h, done + 1, done + take)) = take
      BY <3>3, TokensFrom
    <3> QED BY <1>b, <3>1, <3>2, <3>4
  <2>4. Spent(w)
    BY <1>6, <1>9, <2>2, <2>3 DEF Spent
  <2>5. /\ DecodeRows \in Seq(Row) /\ DOMAIN DecodeRows = DOMAIN chosen
        /\ \A k \in DOMAIN chosen : DecodeRows[k] = DecodeRow(chosen[k])
    BY <1>1, DecodeRowsHold
  <2>6. PICK n \in Nat : n = Len(DecodeRows) /\ DOMAIN chosen = 1..n
    BY <2>5
  <2>7. /\ DOMAIN plan' = 1..(n + 1)
        /\ plan'[n + 1] = w /\ \A k \in 1..n : plan'[k] = DecodeRow(chosen[k])
    BY <2>1, <2>2, <2>5, <2>6
  <2>8. ASSUME NEW k \in 1..n PROVE Spent(DecodeRow(chosen[k]))
    <3>1. PICK d : d = DecodeRow(chosen[k])
      OBVIOUS
    <3>2. /\ d.id = running[chosen[k]] /\ d.id \in ToSet(running)
          /\ seq[d.id].pending # <<>>
      BY <1>1, <2>6, <3>1, DecodeRowAhead
    <3>3. Sparing(d.id)
      BY <1>7, <2>2, <3>2
    <3> QED BY <1>1, <2>6, <3>2, <3>3, DecodeSpent
  <2>9. \A k \in DOMAIN plan' : Spent(plan[k])'
    BY <1>1, <2>4, <2>7, <2>8 DEF Spent
  <2>10. Aboard(r)'
    BY <2>1, <2>2, <2>7 DEF Aboard, Passing
  <2>11. \A q \in ToSet(running') : Sparing(q)' \/ Aboard(q)'
    BY <1>1, <1>7, <2>10 DEF Sparing
  <2> QED BY <2>1, <2>9, <2>11 DEF Thrift
<1> QED BY <1>8, <1>9

\* A pass of one whole prompt.
LEMMA PlanPrefillThrift == ASSUME Inv, Thrift, PlanPrefill PROVE Thrift'
<1>0. PICK r \in Request : r = joining
  BY DEF PlanPrefill, Inv, Typed, Queues
<1>1. /\ pc = "admitting" /\ pc' = "planned" /\ joining # Nobody
      /\ plan' = <<[id |-> r, pos |-> table[r].tokens,
                    tokens |-> SubSeq(seq[r].pending, table[r].tokens + 1,
                                      Len(seq[r].pending)),
                    predicts |-> TRUE]>>
      /\ running' = Append(running, r) /\ table' = table
  BY <1>0 DEF PlanPrefill, Inv, Queues
<1>2. /\ seq[r].pending = seq[r].history /\ Unshared > 0 /\ Unshared \in Nat
      /\ table[r].tokens + Unshared = Len(seq[r].history)
  BY <1>0, <1>1, JoinerMeans
<1>3. PICK h, at, n : h = seq[r].history /\ at = table[r].tokens /\ n = Unshared
  OBVIOUS
<1>4. /\ h \in Seq(Token) /\ at \in Nat /\ n \in Nat /\ n > 0 /\ at + n = Len(h)
      /\ seq[r].pending = h
  BY <1>2, <1>3, Numbers DEF Inv
<1>5. Len(SubSeq(h, at + 1, at + n)) = n
  BY <1>4, TokensFrom
<1>6. PICK w : w = [id |-> r, pos |-> at, tokens |-> SubSeq(h, at + 1, Len(h)),
                    predicts |-> TRUE]
  OBVIOUS
<1>7. plan' = <<w>> /\ w.id = r /\ w.pos = at /\ Len(w.tokens) = n
  BY <1>1, <1>3, <1>4, <1>5, <1>6
<1>8. Capacity(table[r]) <= Len(h) + BlockSize
  BY <1>0, <1>1, <1>3 DEF Thrift
<1>9. DOMAIN plan' = {1} /\ plan'[1] = w
  BY <1>7
<1>10. \A k \in DOMAIN plan' : Spent(plan[k])'
  <2>1. w.pos + Len(w.tokens) = Len(h)
    BY <1>4, <1>7
  <2> QED BY <1>1, <1>7, <1>8, <1>9, <2>1 DEF Spent
<1>11. \A q \in ToSet(running) : Sparing(q)
  BY <1>1, AllSparing
<1>12. Aboard(r)' /\ ToSet(running') = ToSet(running) \cup {r}
  BY <1>1, <1>7, <1>9, AppendNew DEF Aboard, Passing, Inv, Typed
<1>13. \A q \in ToSet(running') : Sparing(q)' \/ Aboard(q)'
  BY <1>1, <1>11, <1>12 DEF Sparing
<1> QED BY <1>1, <1>10, <1>13 DEF Thrift

\* The pass itself gives and takes no blocks.
LEMMA PassThrift == ASSUME Inv, Thrift, Pass \/ PassFails PROVE Thrift'
<1>1. /\ pc = "planned" /\ pc' \in {"advance", "abort"} /\ row' = 1
      /\ UNCHANGED <<table, running, plan>>
  BY DEF Pass, PassFails
<1>2. \A k \in DOMAIN plan : k >= 1 /\ ~ (k < 1)
  BY DEF Inv, Typed
<1>3. \A k \in DOMAIN plan' : Spent(plan[k])' /\ ~ (k < row')
  BY <1>1, <1>2 DEF Thrift, Spent
<1>4. \A q \in ToSet(running') : Sparing(q)' \/ Aboard(q)'
  BY <1>1, <1>2 DEF Thrift, Sparing, Filling, Aboard, Passing
<1> QED BY <1>1, <1>3, <1>4 DEF Thrift

\* A row that is given up leaves the residents.
LEMMA AbortRowThrift == ASSUME Inv, Thrift, AbortRow PROVE Thrift'
<1>0. PICK r : r = plan[row].id
  OBVIOUS
<1>1. /\ pc = "abort" /\ row <= Len(plan) /\ row' = row + 1
      /\ FreeTable(r) /\ running' = Without(running, r)
      /\ UNCHANGED <<pc, plan>>
  BY <1>0 DEF AbortRow, InPlanLoop, NextRow
<1>2. /\ running \in Seq(Request) /\ IsInjective(running)
      /\ table \in [Request -> Table]
      /\ DOMAIN plan = 1..Len(plan) /\ Len(plan) \in Nat /\ row \in Nat
  BY CacheTyped DEF Inv, Typed, Queues
<1>3. ToSet(running') = ToSet(running) \ {r}
  BY <1>1, <1>2, WithoutOnce
<1>4. ASSUME NEW q \in ToSet(running') PROVE Sparing(q)' \/ Aboard(q)'
  <2>1. q \in ToSet(running) /\ q # r /\ q \in Request
    BY <1>2, <1>3, <1>4, ToSetMeans
  <2>2. table'[q] = table[q]
    BY <1>1, <1>2, <2>1 DEF FreeTable
  <2>3. CASE Sparing(q)
    BY <2>2, <2>3 DEF Sparing
  <2>4. CASE Aboard(q)
    <3>1. PICK k \in DOMAIN plan : plan[k].id = q /\ k >= row
      BY <1>1, <2>4 DEF Aboard
    <3>2. k >= row + 1
      BY <1>0, <1>2, <2>1, <3>1
    <3> QED BY <1>1, <3>1, <3>2 DEF Aboard, Passing
  <2> QED BY <1>1, <2>1, <2>3, <2>4 DEF Thrift, Filling
<1> QED BY <1>1, <1>4 DEF Thrift

\* A row whose tokens were written has them in its table.
LEMMA AdvanceRowThrift == ASSUME Inv, Thrift, AdvanceRow PROVE Thrift'
<1>0. PICK w, r, n : w = plan[row] /\ r = w.id /\ n = Len(w.tokens)
  OBVIOUS
<1>1. /\ pc = "advance" /\ row <= Len(plan) /\ row' = row + 1
      /\ UNCHANGED <<pc, plan, running>>
  BY <1>0 DEF AdvanceRow, InPlanLoop, NextRow
<1>2. \/ table' = [table EXCEPT ![r] = NameFull(Advance(table[r], n), seq[r].history)]
      \/ table' = [table EXCEPT ![r] = Advance(table[r], n)]
  BY <1>0 DEF AdvanceRow
<1>3. /\ DOMAIN plan = 1..Len(plan) /\ Len(plan) \in Nat /\ row \in DOMAIN plan
      /\ row \in Nat \ {0} /\ row >= row
  BY <1>1 DEF Inv, Typed
<1>4. r \in Request /\ n \in Nat
  BY <1>0, <1>3, PlanRowType DEF Inv
<1>5. /\ Ahead(w) /\ \A k \in DOMAIN plan : plan[k].id = r => k = row
  BY <1>0, <1>1, <1>3 DEF Inv, PlanHolds, Passing
<1>6. /\ table \in [Request -> Table] /\ table[r] \in Table
      /\ table[r].tokens \in Nat /\ Capacity(table[r]) \in Nat
  BY <1>4, Numbers, CacheTyped, SMTT(60) DEF Inv
<1>7. table[r].tokens + n <= Capacity(table[r]) /\ w.pos = table[r].tokens
  BY <1>0, <1>5 DEF Ahead
<1>8. /\ table'[r].tokens = table[r].tokens + n
      /\ Capacity(table'[r]) = Capacity(table[r])
      /\ \A q \in Request : q # r => table'[q] = table[q]
  BY <1>2, <1>4, <1>6, <1>7, MovedOn
<1>9. Spent(w)
  BY <1>0, <1>1, <1>3 DEF Thrift
<1>10. Sparing(r)'
  BY <1>0, <1>7, <1>8, <1>9 DEF Spent, Sparing
<1>11. ASSUME NEW k \in DOMAIN plan
       PROVE  /\ k >= row + 1 => Spent(plan[k])'
              /\ k < row + 1 => Sparing(plan[k].id)'
  <2>1. k \in Nat /\ (k >= row + 1 => k >= row /\ k # row)
        /\ (k < row + 1 => k < row \/ k = row)
    BY <1>3
  <2>2. CASE k = row
    <3>1. Sparing(plan[k].id)'
      BY <1>0, <1>1, <1>10, <2>2 DEF Sparing
    <3> QED BY <2>1, <2>2, <3>1
  <2>3. CASE k # row
    <3>1. plan[k].id \in Request /\ plan[k].id # r
      BY <1>5, <2>3, PlanRowType DEF Inv
    <3>2. plan'[k] = plan[k] /\ table'[plan[k].id] = table[plan[k].id]
      BY <1>1, <1>8, <3>1
    <3>3. (k >= row => Spent(plan[k])) /\ (k < row => Sparing(plan[k].id))
      BY <1>1 DEF Thrift
    <3> QED BY <2>1, <2>3, <3>2, <3>3 DEF Spent, Sparing
  <2> QED BY <2>2, <2>3
<1>12. ASSUME NEW q \in ToSet(running') PROVE Sparing(q)' \/ Aboard(q)'
  <2>1. CASE q = r
    BY <1>10, <2>1
  <2>2. CASE q # r
    <3>1. q \in Request /\ (Sparing(q) \/ Aboard(q))
      BY <1>1, <1>12, ToSetMeans DEF Thrift, Filling, Inv, Typed
    <3>2. CASE Sparing(q)
      BY <1>8, <2>2, <3>1, <3>2 DEF Sparing
    <3>3. CASE Aboard(q)
      BY <1>1, <3>3 DEF Aboard, Passing
    <3> QED BY <3>1, <3>2, <3>3
  <2> QED BY <2>1, <2>2
<1> QED BY <1>1, <1>11, <1>12 DEF Thrift

\* After the loop no row is left that wastes what the pass filled.
LEMMA EndPlanLoopThrift == ASSUME Inv, Thrift, EndPlanLoop PROVE Thrift'
<1>1. /\ pc \in {"advance", "emit", "abort"} /\ ~ (row <= Len(plan))
      /\ pc' \in {"emit", "retire", "idle"}
      /\ UNCHANGED <<table, running>>
  BY DEF EndPlanLoop, InPlanLoop
<1>2. \A k \in DOMAIN plan : k < row /\ ~ (k >= row)
  BY <1>1 DEF Inv, Typed
<1>3. ASSUME NEW q \in ToSet(running) PROVE Sparing(q)
  <2>1. CASE Aboard(q) /\ pc # "emit"
    <3>1. PICK k \in DOMAIN plan : plan[k].id = q /\ (pc = "abort" => k >= row)
      BY <2>1 DEF Aboard
    <3>2. pc = "advance"
      BY <1>1, <1>2, <2>1, <3>1
    <3> QED BY <1>2, <3>1, <3>2 DEF Thrift
  <2> QED BY <1>1, <2>1 DEF Thrift, Filling
<1> QED BY <1>1, <1>3, SparingIsThrift DEF Sparing

\* Every step keeps thrift.
LEMMA ThriftNext == Inv /\ Thrift /\ [Next]_vars => Thrift'
<1> SUFFICES ASSUME Inv, Thrift, [Next]_vars PROVE Thrift'
  OBVIOUS
<1>1. CASE UNCHANGED vars
  BY <1>1, ZenonT(60) DEF vars, Thrift, Sparing, Filling, Spent, Aboard, Partial, Want, Room
<1>2. ASSUME NEW r \in Request, Submit(r) \/ Cancel(r) PROVE Thrift'
  BY <1>2, ControlThrift, LeavingThrift
<1>3. CASE SetChunk \/ Plan \/ SkipRow \/ GiveUpMixed \/ LeaveOut \/ EndRows
           \/ NoPromptToStart \/ CannotAdmit \/ EndCommit \/ EmitRow
  BY <1>3, ControlThrift
<1>4. CASE Refuse \/ Retire \/ Preempt \/ PutBack
  BY <1>4, LeavingThrift
<1>5. CASE ChooseRow \/ StartNextPrompt \/ Admit \/ Join \/ GrowSlice \/ GrowPrompt
  BY <1>5, ChooseThrift, ClaimThrift, JoinThrift, GrowSliceThrift, GrowPromptThrift
<1>6. CASE PlanDecode \/ PlanMixed \/ PlanPrefill \/ Pass \/ PassFails \/ AbortRow
           \/ AdvanceRow \/ EndPlanLoop
  BY <1>6, PlanDecodeThrift, PlanMixedThrift, PlanPrefillThrift, PassThrift,
     AbortRowThrift, AdvanceRowThrift, EndPlanLoopThrift
<1> QED
  BY <1>1, <1>2, <1>3, <1>4, <1>5, <1>6 DEF Next, Engine, Planning, Committing

\* In every reachable state between two passes a resident holds at most one block
\* beyond what its tokens fill: blocks are taken as tokens come, by decodes and by
\* slices that did not get all they wanted, and never for the longest a sequence
\* may become (scheduler.rs mixed, admit, decode, commit).
THEOREM LittleIsWasted == Spec => []WasteIsBounded
<1>1. Inv /\ Thrift => WasteIsBounded
  <2> SUFFICES ASSUME Inv, Thrift, pc = "idle", NEW r \in ToSet(running)
               PROVE  Capacity(table[r]) - table[r].tokens <= BlockSize
    BY DEF WasteIsBounded
  <2>1. r \in Request
    BY ToSetMeans DEF Inv, Typed
  <2>2. Capacity(table[r]) <= table[r].tokens + BlockSize
    BY AllSparing DEF Sparing
  <2>3. table[r].tokens \in Nat /\ Capacity(table[r]) \in Nat /\ BlockSize \in Nat
    BY <2>1, Numbers, BlocksAssumption DEF Inv
  <2> QED BY <2>2, <2>3
<1> QED BY <1>1, ThriftInit, ThriftNext, InvAlways, PTL DEF Spec

-----------------------------------------------------------------------------
(* The scheduler implements Generation, if the pool holds the longest      *)
(* sequence the server lets in.  Otherwise a sequence that was evicted can *)
(* outgrow the pool, and ends for its length before it reached its limit.  *)

\* A sequence that goes on was told every token it was given and may have one
\* more; one that is about to leave has told its caller what its end says.
Limit(r) == AtLeast(seq[r].max_tokens, 1)
Limits ==
    \A r \in Request :
        /\ seq[r].finish = "none" =>
             Len(told[r].tokens) = seq[r].generated /\ seq[r].generated < Limit(r)
        /\ r \in ToSet(running) /\ seq[r].finish = "length" =>
             Len(told[r].tokens) = Limit(r)
        /\ r \in ToSet(running) /\ seq[r].finish = "stop" =>
             Len(told[r].tokens) < Limit(r)
        /\ seq[r].prompt_tokens < MaxContext
        /\ seq[r].max_tokens <= MaxContext - seq[r].prompt_tokens

\* The server lets in what fits, and nothing was given yet.
LEMMA LimitsInit == Init => Limits
<1> SUFFICES ASSUME Init, NEW r \in Request
             PROVE  /\ seq[r].finish = "none" /\ seq[r].generated = 0
                    /\ told[r].tokens = <<>> /\ seq[r].max_tokens \in Nat
                    /\ seq[r].prompt_tokens < MaxContext
                    /\ seq[r].max_tokens <= MaxContext - seq[r].prompt_tokens
  BY DEF Limits, Limit, AtLeast
<1>1. PICK prompt \in [Request -> Prompts], max \in [Request -> Outputs] :
        /\ \A q \in Request : Servable(prompt[q], max[q])
        /\ seq = [q \in Request |-> NewSequence(prompt[q], max[q])]
  BY DEF Init
<1>2. /\ seq[r] = NewSequence(prompt[r], max[r]) /\ Servable(prompt[r], max[r])
      /\ max[r] \in Nat
  BY <1>1, SchedulerAssumption
<1>3. /\ seq[r].finish = "none" /\ seq[r].generated = 0
      /\ seq[r].max_tokens = max[r] /\ seq[r].prompt_tokens = Len(prompt[r])
  BY <1>2 DEF NewSequence
<1> QED BY <1>2, <1>3 DEF Init, Servable

\* A token that is given is told, unless it is a stop token, and the last one that
\* may be given ends the sequence.
LEMMA GivenWithinLimit ==
  ASSUME NEW s \in Sequence, NEW token \in Token, NEW tokens \in Seq(Token),
         s.finish = "none", Len(tokens) = s.generated,
         s.generated < AtLeast(s.max_tokens, 1)
  PROVE  LET g == Given(s, token)
             most == AtLeast(s.max_tokens, 1)
             now == Len(Reported(tokens, token))
         IN  /\ g.finish = "none" => now = g.generated /\ g.generated < most
             /\ g.finish = "length" => now = most
             /\ g.finish = "stop" => now < most
<1>1. s.generated \in Nat /\ s.max_tokens \in Nat
  BY DEF Sequence
<1>2. /\ Given(s, token).finish = FinishOf(s, token)
      /\ Given(s, token).generated = s.generated + 1
  BY GivenFields
<1>3. CASE token \in StopTokens
  BY <1>2, <1>3 DEF FinishOf, Reported
<1>4. CASE token \notin StopTokens
  <2>1. Len(Reported(tokens, token)) = s.generated + 1
    BY <1>4 DEF Reported
  <2>2. FinishOf(s, token)
          = IF s.generated + 1 >= s.max_tokens THEN "length" ELSE "none"
    BY <1>4 DEF FinishOf
  <2>3. PICK n \in Nat, m \in Nat : n = s.generated /\ m = s.max_tokens
    BY <1>1
  <2>4. n < AtLeast(m, 1)
    BY <2>3
  <2>5. /\ n + 1 >= m => n + 1 = AtLeast(m, 1)
        /\ ~ (n + 1 >= m) => n + 1 < AtLeast(m, 1)
    BY <2>3, <2>4 DEF AtLeast
  <2> QED BY <1>2, <2>1, <2>2, <2>3, <2>5
<1> QED BY <1>3, <1>4

\* Every step keeps the limits.
LEMMA LimitsNext == Inv /\ Limits /\ [Next]_vars => Limits'
<1> SUFFICES ASSUME Inv, Limits, [Next]_vars, NEW r \in Request
             PROVE  /\ seq'[r].finish = "none" =>
                         /\ Len(told'[r].tokens) = seq'[r].generated
                         /\ seq'[r].generated < Limit(r)'
                    /\ r \in ToSet(running') /\ seq'[r].finish = "length" =>
                         Len(told'[r].tokens) = Limit(r)'
                    /\ r \in ToSet(running') /\ seq'[r].finish = "stop" =>
                         Len(told'[r].tokens) < Limit(r)'
                    /\ seq'[r].prompt_tokens < MaxContext
                    /\ seq'[r].max_tokens <= MaxContext - seq'[r].prompt_tokens
  BY DEF Limits
<1>1. CASE SameOutput(r)
  <2>1. Limit(r)' = Limit(r)
    BY <1>1 DEF SameOutput, Limit
  <2> QED BY <1>1, <2>1 DEF SameOutput, Limits
<1>2. CASE EmitRow /\ plan[row].predicts
  <2>1. PICK q \in Request : q = plan[row].id
    BY <1>2, EmittedRow
  <2>2. PICK token \in Token :
          /\ seq' = [seq EXCEPT ![q] = Given(seq[q], token)]
          /\ told' = [told EXCEPT ![q].tokens = Reported(@, token)]
    BY <1>2, <2>1, EmitGives
  <2>3. /\ seq \in [Request -> Sequence] /\ told \in [Request -> Report]
        /\ running' = running
    BY <1>2, EmittedRow DEF Inv, Typed
  <2>4. CASE r # q
    <3>1. seq'[r] = seq[r] /\ told'[r] = told[r]
      BY <2>2, <2>3, <2>4
    <3> QED BY <2>3, <3>1 DEF Limits, Limit
  <2>5. CASE r = q
    <3>1. /\ seq[r] \in Sequence /\ seq'[r] = Given(seq[r], token)
          /\ told'[r].tokens = Reported(told[r].tokens, token)
          /\ told[r].tokens \in Seq(Token)
      BY <2>2, <2>3, <2>5 DEF Report
    <3>2. seq[r].finish = "none"
      BY <1>2, <2>1, <2>5, EmittedRow
    <3>3. Len(told[r].tokens) = seq[r].generated
          /\ seq[r].generated < AtLeast(seq[r].max_tokens, 1)
      BY <3>2 DEF Limits, Limit
    <3>4. /\ seq'[r].max_tokens = seq[r].max_tokens
          /\ seq'[r].prompt_tokens = seq[r].prompt_tokens
      BY <3>1, GivenFields
    <3>5. Limit(r)' = AtLeast(seq[r].max_tokens, 1)
      BY <3>4 DEF Limit
    <3> QED BY <3>1, <3>2, <3>3, <3>4, <3>5, GivenWithinLimit DEF Limits
  <2> QED BY <2>4, <2>5
<1>3. CASE EmitRow /\ ~ plan[row].predicts
  BY <1>3, EmittedRow DEF Limits, Limit
<1> QED BY <1>1, <1>2, <1>3, OnlyEmitAdds, EmittedRow

\* A pool with room for n tokens holds what they span.
LEMMA SpanWithin ==
  ASSUME NEW n \in Nat, NEW c \in Nat, n <= c * BlockSize
  PROVE  CeilDiv(n, BlockSize) <= c
<1> DEFINE q == CeilDiv(n, BlockSize)
<1>1. BlockSize \in Nat /\ BlockSize > 0
  BY BlocksAssumption
<1>2. q = (n + BlockSize - 1) \div BlockSize
  BY DEF CeilDiv
<1>3. q \in Nat /\ q * BlockSize <= n + BlockSize - 1
  BY <1>1, <1>2
<1> HIDE DEF q
<1>4. ASSUME q > c PROVE FALSE
  <2>1. q \in Int /\ c \in Int /\ q >= c + 1
    BY <1>3, <1>4
  <2>2. (c + 1) * BlockSize <= q * BlockSize
    BY <1>1, <2>1
  <2>3. (c + 1) * BlockSize = c * BlockSize + BlockSize
    BY <1>1
  <2> QED BY <1>1, <1>3, <2>2, <2>3
<1> QED BY <1>3, <1>4 DEF q

\* A sequence at the front of the queue never spans more than the pool.
LEMMA NeverUnservable ==
  ASSUME Inv, Limits, MaxContext <= Cardinality(Block) * BlockSize
  PROVE  ~ Unservable
<1> SUFFICES ASSUME waiting # <<>> PROVE Span(seq[Head(waiting)].pending) <= Cardinality(Block)
  <2>1. Cardinality(Block) \in Nat
    BY BlocksAssumption, FS_CardinalityType
  <2>2. PICK r : r = Head(waiting)
    OBVIOUS
  <2>3. waiting # <<>> => Span(seq[r].pending) \in Int
    <3>1. ASSUME waiting # <<>> PROVE r \in Request
      BY <2>2, <3>1, TailOnce DEF Inv, Typed
    <3> QED BY <3>1, Numbers, BlocksAssumption DEF Span, CeilDiv, Inv
  <2> QED BY <2>1, <2>2, <2>3 DEF Unservable
<1>1. PICK r \in Request : r = Head(waiting) /\ r \in ToSet(waiting)
  BY TailOnce DEF Inv, Typed
<1>2. /\ seq[r].pending = seq[r].history /\ seq[r].finish = "none"
      /\ Len(seq[r].history) = seq[r].prompt_tokens + seq[r].generated
  BY <1>1 DEF Inv, Sequences, Fresh
<1>3. /\ seq[r].generated < AtLeast(seq[r].max_tokens, 1)
      /\ seq[r].prompt_tokens < MaxContext
      /\ seq[r].max_tokens <= MaxContext - seq[r].prompt_tokens
  BY <1>2 DEF Limits, Limit
<1>4. /\ seq[r].generated \in Nat /\ seq[r].prompt_tokens \in Nat
      /\ seq[r].max_tokens \in Nat /\ Len(seq[r].history) \in Nat
      /\ MaxContext \in Nat /\ BlockSize \in Nat
  BY Numbers, SchedulerAssumption, BlocksAssumption DEF Inv
<1>5. Cardinality(Block) \in Nat /\ Cardinality(Block) * BlockSize \in Nat
  BY <1>4, BlocksAssumption, FS_CardinalityType
<1>6. Len(seq[r].history) <= MaxContext
  BY <1>2, <1>3, <1>4, SMTT(60) DEF AtLeast
<1>7. Len(seq[r].history) <= Cardinality(Block) * BlockSize
  BY <1>4, <1>5, <1>6
<1>8. CeilDiv(Len(seq[r].history), BlockSize) <= Cardinality(Block)
  BY <1>4, <1>5, <1>7, SpanWithin
<1> QED BY <1>1, <1>2, <1>8 DEF Span

\* The limits a caller set do not change.
LEMMA LimitsStay ==
  ASSUME Inv, [Next]_vars
  PROVE  [r \in Request |-> AtLeast(seq'[r].max_tokens, 1)]
           = [r \in Request |-> AtLeast(seq[r].max_tokens, 1)]
<1> SUFFICES ASSUME NEW r \in Request PROVE seq'[r].max_tokens = seq[r].max_tokens
  OBVIOUS
<1>1. CASE SameOutput(r)
  BY <1>1 DEF SameOutput
<1>2. CASE EmitRow /\ plan[row].predicts
  <2>1. PICK q \in Request : q = plan[row].id
    BY <1>2, EmittedRow
  <2>2. PICK token \in Token : seq' = [seq EXCEPT ![q] = Given(seq[q], token)]
    BY <1>2, <2>1, EmitGives
  <2> QED BY <2>2, GivenFields DEF Inv, Typed
<1>3. CASE EmitRow /\ ~ plan[row].predicts
  BY <1>3, EmittedRow
<1> QED BY <1>1, <1>2, <1>3, OnlyEmitAdds, EmittedRow

\* An end for a reason that fits.
LEMMA EndsAsAllowed ==
  ASSUME Inv, [Next]_vars, NEW r \in Request, NEW end \in Ends \ {"none"},
         told[r].submitted, told[r].end = "none",
         told' = [told EXCEPT ![r].end = end],
         end = "stop" => Len(told[r].tokens) < Limit(r),
         end = "length" => Len(told[r].tokens) = Limit(r)
  PROVE  Answers!Next
<1>1. end \in {"stop", "length", "cancelled", "failed"}
  BY DEF Ends, Finish
<1>2. Answers!End(r)
  BY <1>1, LimitsStay DEF Answers!End, Answers!Open, Limit
<1> QED BY <1>2 DEF Answers!Next

\* Every step is an arrival, a token, an end, or nothing a caller sees.
LEMMA StepAnswers ==
  ASSUME MaxContext <= Cardinality(Block) * BlockSize
  PROVE  Inv /\ Limits /\ [Next]_vars => [Answers!Next]_(Answers!genVars)
<1> SUFFICES ASSUME Inv, Limits, [Next]_vars PROVE [Answers!Next]_(Answers!genVars)
  OBVIOUS
<1>0. /\ seq \in [Request -> Sequence] /\ told \in [Request -> Report]
      /\ running \in Seq(Request) /\ waiting \in Seq(Request)
  BY DEF Inv, Typed
<1>a. \A r \in ToSet(running) \cup ToSet(waiting) :
        r \in Request /\ told[r].submitted /\ told[r].end = "none"
  BY <1>0, ToSetMeans DEF Inv, Queues, InHand
<1>1. ASSUME told' = told PROVE UNCHANGED Answers!genVars
  BY <1>1, LimitsStay DEF Answers!genVars
<1>2. ASSUME NEW r \in Request, Submit(r) PROVE Answers!Next
  <2>1. Answers!Submit(r)
    BY <1>2, LimitsStay DEF Answers!Submit, Submit
  <2> QED BY <2>1 DEF Answers!Next
<1>3. ASSUME NEW r \in Request, Cancel(r) PROVE Answers!Next
  <2>1. r \in ToSet(running) \cup ToSet(waiting)
        /\ told' = [told EXCEPT ![r].end = "cancelled"]
    BY <1>3 DEF Cancel, Live
  <2> QED BY <1>a, <2>1, EndsAsAllowed DEF Ends
<1>4. ASSUME Refuse PROVE FALSE
  BY <1>4, NeverUnservable DEF Refuse
<1>5. CASE AbortRow
  <2>1. pc = "abort" /\ row \in DOMAIN plan
    BY <1>5 DEF AbortRow, InPlanLoop, Inv, Typed
  <2>2. PICK r : r = plan[row].id
    OBVIOUS
  <2>3. r \in ToSet(running)
    BY <2>1, <2>2 DEF Inv, PlanHolds, Passing, Typed
  <2>4. told' = [told EXCEPT ![r].end = "failed"]
    BY <1>5, <2>2 DEF AbortRow
  <2> QED BY <1>a, <2>3, <2>4, EndsAsAllowed DEF Ends
<1>6. CASE Retire
  <2>1. PICK i : i = CHOOSE n \in Finished : \A j \in Finished : n <= j
    OBVIOUS
  <2>2. PICK r : r = running[i]
    OBVIOUS
  <2>3. Finished # {} /\ told' = [told EXCEPT ![r].end = seq[r].finish]
    BY <1>6, <2>1, <2>2 DEF Retire
  <2>4. r \in Request /\ r \in ToSet(running) /\ seq[r].finish # "none"
    BY <1>0, <2>1, <2>2, <2>3, FirstFinished DEF Inv
  <2>5. seq[r].finish \in Ends \ {"none"}
    BY <1>0, <2>4 DEF Sequence, Ends
  <2>6. /\ seq[r].finish = "stop" => Len(told[r].tokens) < Limit(r)
        /\ seq[r].finish = "length" => Len(told[r].tokens) = Limit(r)
    BY <2>4 DEF Limits
  <2> QED BY <1>a, <2>3, <2>4, <2>5, <2>6, EndsAsAllowed
<1>7. CASE EmitRow /\ plan[row].predicts
  <2>1. PICK r \in Request : r = plan[row].id
    BY <1>7, EmittedRow
  <2>2. PICK token \in Token : told' = [told EXCEPT ![r].tokens = Reported(@, token)]
    BY <1>7, <2>1, EmitGives
  <2>3. CASE token \in StopTokens
    <3>1. told' = told
      BY <1>0, <2>2, <2>3 DEF Reported, Report
    <3> QED BY <1>1, <3>1
  <2>4. CASE token \notin StopTokens
    <3>1. told' = [told EXCEPT ![r].tokens = Append(@, token)]
      BY <2>2, <2>4 DEF Reported
    <3>2. r \in ToSet(running) /\ seq[r].finish = "none"
      BY <1>7, <2>1, EmittedRow
    <3>3. /\ told[r].submitted /\ told[r].end = "none"
          /\ Len(told[r].tokens) < AtLeast(seq[r].max_tokens, 1)
      BY <1>a, <3>2 DEF Limits, Limit
    <3>4. Answers!Emit(r)
      BY <2>4, <3>1, <3>3, LimitsStay DEF Answers!Emit, Answers!Open
    <3> QED BY <3>4 DEF Answers!Next
  <2> QED BY <2>3, <2>4
<1>8. CASE EmitRow /\ ~ plan[row].predicts
  BY <1>1, <1>8, EmittedRow
<1>9. CASE UNCHANGED vars
  BY <1>1, <1>9 DEF vars
<1>10. CASE SetChunk \/ Plan \/ SkipRow \/ GiveUpMixed \/ LeaveOut \/ EndRows
           \/ NoPromptToStart \/ CannotAdmit \/ EndCommit \/ ChooseRow \/ PlanDecode
           \/ PlanMixed \/ StartNextPrompt \/ Admit \/ GrowSlice \/ GrowPrompt \/ Pass
           \/ PassFails \/ EndPlanLoop \/ Preempt \/ PutBack \/ Join \/ PlanPrefill
           \/ AdvanceRow
  <2>1. told' = told
    BY <1>10
    DEF SetChunk, Plan, SkipRow, GiveUpMixed, LeaveOut, EndRows, NoPromptToStart,
        CannotAdmit, EndCommit, ChooseRow, PlanDecode, PlanMixed, StartNextPrompt, Admit,
        GrowSlice, GrowPrompt, Pass, PassFails, EndPlanLoop, Preempt, PutBack, Join,
        PlanPrefill, AdvanceRow, settled
  <2> QED BY <1>1, <2>1
<1>11. plan[row].predicts \/ ~ plan[row].predicts
  OBVIOUS
<1> QED
  BY <1>2, <1>3, <1>4, <1>5, <1>6, <1>7, <1>8, <1>9, <1>10, <1>11
  DEF Next, Engine, Planning, Committing

\* With a pool that holds the longest sequence the server lets in, the scheduler is
\* to its caller a set of answers that grow by one token at a time, never past
\* their limit, and end once, for a reason that fits: on a stop token only before
\* the limit, for their length only at it, whatever is evicted, put back, cancelled
\* or fails in between (scheduler.rs commit, retire, cancel, abort).
THEOREM AnswersGrowAndEnd ==
  ASSUME MaxContext <= Cardinality(Block) * BlockSize
  PROVE  Spec => ImplementsGeneration
<1>1. Init => Answers!Init
  <2> SUFFICES ASSUME Init PROVE Answers!Init
    OBVIOUS
  <2>1. seq \in [Request -> Sequence]
    BY InvInit DEF Inv, Typed
  <2>2. \A r \in Request : AtLeast(seq[r].max_tokens, 1) \in Nat
    BY <2>1 DEF Sequence, AtLeast
  <2>3. told = [r \in Request |-> [submitted |-> FALSE, tokens |-> <<>>, end |-> "none"]]
    BY DEF Init
  <2> QED BY <2>2, <2>3 DEF Answers!Init
<1>2. Inv /\ Limits /\ [Next]_vars => [Answers!Next]_(Answers!genVars)
  BY StepAnswers
<1> QED
  BY <1>1, <1>2, LimitsInit, LimitsNext, InvAlways, PTL
  DEF Spec, ImplementsGeneration, Answers!Spec

-----------------------------------------------------------------------------
(* Who is carried by a pass.                                               *)

\* The row at index i was chosen.
Picked(i) == \E k \in DOMAIN chosen : chosen[k] = i

\* The loops over rows leave no decoder out behind them, and what decode starves
\* alone is nobody's: then no pass is planned.
Serving ==
    /\ pc \in {"admit", "admitting"} => chunk = 0
    /\ pc = "rows" => \A i \in Decoders : i < row => Picked(i)
    /\ pc = "decode" =>
         \/ \A i \in Decoders : i < row => Picked(i)
         \/ chosen = <<>> /\ row > Len(running)
    /\ pc \in {"slice", "joining"} =>
         \A i \in Decoders : Picked(i) \/
           /\ Len(chosen) >= AtMost(MaxBatch, chunk)
           /\ \A k \in DOMAIN chosen : chosen[k] < i
    /\ NoDecoderPassedOver

\* As many rows are chosen as there are indexes.
LEMMA PickedCount ==
  ASSUME NEW s \in Seq(Nat), IsInjective(s)
  PROVE  IsFiniteSet(ToSet(s)) /\ Cardinality(ToSet(s)) = Len(s)
<1>1. Len(s) \in Nat /\ DOMAIN s = 1..Len(s)
  OBVIOUS
<1>2. IsFiniteSet(1..Len(s)) /\ Cardinality(1..Len(s)) = Len(s)
  <2>1. IsFiniteSet(1..Len(s))
        /\ Cardinality(1..Len(s)) = IF 1 > Len(s) THEN 0 ELSE Len(s) - 1 + 1
    BY <1>1, FS_Interval, SMTT(60)
  <2> QED BY <1>1, <2>1
<1>3. s \in [1..Len(s) -> ToSet(s)]
  BY <1>1, ToSetMeans
<1>4. s \in Bijection(1..Len(s), ToSet(s))
  <2>1. \A x \in ToSet(s) : \E i \in 1..Len(s) : s[i] = x
    BY ToSetMeans
  <2>2. \A i, j \in 1..Len(s) : s[i] = s[j] => i = j
    BY <1>1 DEF IsInjective
  <2> QED BY <1>1, <1>3, <2>1, <2>2 DEF Bijection, Injection, Surjection, IsInjective
<1>5. ExistsBijection(1..Len(s), ToSet(s))
  BY <1>4 DEF ExistsBijection
<1> QED BY <1>2, <1>5, FS_Bijection

\* Every resident stands where it is found, once.
LEMMA ResidentsOnce ==
  ASSUME Inv
  PROVE  /\ running \in Seq(Request) /\ DOMAIN running = 1..Len(running)
         /\ Len(running) \in Nat
         /\ \A i \in DOMAIN running : running[i] \in Request /\ running[i] \in ToSet(running)
         /\ \A i, j \in DOMAIN running : running[i] = running[j] => i = j
<1>1. running \in Seq(Request) /\ IsInjective(running)
  BY DEF Inv, Typed, Queues
<1>2. DOMAIN running = 1..Len(running) /\ Len(running) \in Nat
  BY <1>1
<1> QED BY <1>1, <1>2, ToSetMeans DEF IsInjective

\* A planned pass made of the rows chosen, and perhaps one of no decoder.
LEMMA CarriesThePicked ==
  ASSUME Inv, pc \in {"slice", "decode"}, pc' = "planned",
         running' = running, seq' = seq, plan' \in Seq(Row),
         Len(plan') >= Len(chosen),
         \A k \in 1..Len(chosen) : plan'[k].id = running[chosen[k]],
         \A k \in DOMAIN plan' : k > Len(chosen) => Len(seq[plan'[k].id].pending) # 1,
         \A i \in Decoders : Picked(i) \/
           /\ Len(chosen) >= AtMost(MaxBatch, chunk')
           /\ \A k \in DOMAIN chosen : chosen[k] < i
  PROVE  NoDecoderPassedOver'
<1>1. /\ chosen \in Seq(Nat) /\ IsInjective(chosen) /\ DOMAIN chosen = 1..Len(chosen)
      /\ \A k \in DOMAIN chosen :
           chosen[k] \in DOMAIN running /\ Len(seq[running[chosen[k]]].pending) = 1
  BY DEF Inv, Typed, ChosenHold
<1>2. Decoders' = Decoders
  BY DEF Decoders
<1>3. DOMAIN plan' = 1..Len(plan') /\ Len(plan') \in Nat /\ Len(chosen) \in Nat
  BY <1>1
<1>4. ASSUME NEW i PROVE i \in Decoders /\ i \in Carried' <=> Picked(i)
  <2>1. ASSUME Picked(i) PROVE i \in Decoders /\ i \in Carried'
    <3>1. PICK k \in DOMAIN chosen : chosen[k] = i
      BY <2>1 DEF Picked
    <3>2. i \in DOMAIN running /\ Len(seq[running[i]].pending) = 1
      BY <1>1, <3>1
    <3>3. k \in DOMAIN plan' /\ plan'[k].id = running[i]
      BY <1>1, <1>3, <3>1
    <3> QED BY <3>2, <3>3 DEF Decoders, Carried
  <2>2. ASSUME i \in Decoders, i \in Carried' PROVE Picked(i)
    <3>1. i \in DOMAIN running /\ Len(seq[running[i]].pending) = 1
      BY <2>2 DEF Decoders
    <3>2. PICK k \in DOMAIN plan' : plan'[k].id = running[i]
      BY <2>2 DEF Carried
    <3>3. k \in 1..Len(chosen)
      BY <1>3, <3>1, <3>2
    <3>4. running[chosen[k]] = running[i] /\ chosen[k] \in DOMAIN running
      BY <1>1, <3>2, <3>3
    <3>5. chosen[k] = i
      BY <3>1, <3>4, ResidentsOnce
    <3> QED BY <1>1, <3>3, <3>5 DEF Picked
  <2> QED BY <2>1, <2>2
<1>5. Decoders \cap Carried' = ToSet(chosen)
  <2>1. ASSUME NEW i PROVE i \in Decoders \cap Carried' <=> i \in ToSet(chosen)
    BY <1>1, <1>4, ToSetMeans, SMTT(60) DEF Picked
  <2> QED BY <2>1
<1>6. Cardinality(Decoders \cap Carried') = Len(chosen)
  BY <1>1, <1>5, PickedCount
<1>7. ASSUME NEW i \in Decoders, i \notin Carried'
      PROVE  /\ Cardinality(Decoders \cap Carried') >= AtMost(MaxBatch, chunk')
             /\ \A j \in Decoders \cap Carried' : j < i
  <2>1. ~ Picked(i)
    BY <1>4, <1>7
  <2>2. /\ Len(chosen) >= AtMost(MaxBatch, chunk')
        /\ \A k \in DOMAIN chosen : chosen[k] < i
    BY <2>1
  <2> QED BY <1>4, <1>6, <2>2 DEF Picked
<1> QED BY <1>2, <1>7 DEF NoDecoderPassedOver

\* No row was looked at before the first.
LEMMA FirstRowServes ==
  ASSUME Inv, Inv', row' = 1, pc' \in {"rows", "decode"}
  PROVE  Serving'
<1>1. \A i \in Decoders' : ~ (i < row')
  <2>1. DOMAIN running' = 1..Len(running') /\ Len(running') \in Nat
    BY DEF Inv, Typed
  <2> QED BY <2>1 DEF Decoders
<1> QED BY <1>1 DEF Serving, NoDecoderPassedOver

\* Steps to where no row is being chosen and no pass is planned.
LEMMA OutsideServes ==
  ASSUME pc' \in {"idle", "parked", "advance", "emit", "retire", "abort"}
  PROVE  Serving'
BY DEF Serving, NoDecoderPassedOver

\* The row at the index of the loop is skipped only if it does not decode.
LEMMA SkippedIsNoDecoder ==
  ASSUME Inv, InRowLoop, Skips(running[row])
  PROVE  row \notin Decoders
<1>1. pc \in {"rows", "decode"} /\ row \in DOMAIN running
  BY ResidentsOnce DEF InRowLoop, Inv, Typed
<1>2. seq[running[row]].finish = "none"
  BY <1>1, ResidentsOnce DEF Inv, Sequences
<1>3. CASE pc = "rows" /\ row = Partial
  <2>1. Partial # 0
    BY <1>3 DEF Inv, Typed
  <2>2. running[row] \in ToSet(running) /\ seq[running[row]].prompt_left > 0
    BY <1>3, <2>1, PartialMeans DEF Inv, Queues
  <2>3. Slicing(running[row])
    <3>1. Settled(running[row])
      BY <1>1, <2>2, AllSettled DEF Passing
    <3>2. seq[running[row]].prompt_left # 0
      BY <1>1, <2>2, ResidentsOnce, Numbers DEF Inv
    <3> QED BY <3>1, <3>2 DEF Settled, Decoding
  <2>4. Len(seq[running[row]].pending) = 0
    BY <2>3 DEF Slicing
  <2> QED BY <2>4 DEF Decoders
<1> QED BY <1>2, <1>3 DEF Skips, Decoders

\* The loop passes a row.
LEMMA RowServes ==
  ASSUME Inv, Serving, SkipRow \/ ChooseRow
  PROVE  Serving'
<1>1. /\ InRowLoop /\ pc' = pc /\ running' = running /\ seq' = seq /\ row' = row + 1
      /\ pc \in {"rows", "decode"} /\ row <= Len(running)
  BY DEF SkipRow, ChooseRow, InRowLoop
<1>2. /\ row \in Nat /\ row \in DOMAIN running /\ chosen \in Seq(Nat)
  BY <1>1, ResidentsOnce DEF Inv, Typed
<1>3. Decoders' = Decoders /\ DOMAIN running \subseteq Nat
  BY <1>1, ResidentsOnce DEF Decoders
<1>4. \A i \in Decoders : i < row => Picked(i)
  BY <1>1, <1>2, ResidentsOnce DEF Serving
<1>a. PICK n \in Nat : n = row
  BY <1>2
<1>5. \A i : Picked(i) => Picked(i)'
  <2>1. CASE SkipRow
    BY <2>1 DEF SkipRow, Picked
  <2>2. CASE ChooseRow
    <3>1. chosen' = Append(chosen, row)
      BY <2>2 DEF ChooseRow
    <3>2. \A k \in DOMAIN chosen : k \in DOMAIN chosen' /\ chosen'[k] = chosen[k]
      BY <1>2, <3>1
    <3> QED BY <3>2 DEF Picked
  <2> QED BY <2>1, <2>2
<1>6. n \in Decoders => Picked(n)'
  <2>1. CASE SkipRow
    BY <1>1, <1>a, <2>1, SkippedIsNoDecoder DEF SkipRow
  <2>2. CASE ChooseRow
    <3>1. chosen' = Append(chosen, row)
      BY <2>2 DEF ChooseRow
    <3>2. Len(chosen) + 1 \in DOMAIN chosen' /\ chosen'[Len(chosen) + 1] = n
      BY <1>2, <1>a, <3>1
    <3> QED BY <3>2 DEF Picked
  <2> QED BY <2>1, <2>2
<1>7. \A i \in Decoders' : i < row' => Picked(i)'
  <2>1. ASSUME NEW i \in Decoders, i < row + 1 PROVE i < row \/ i = n
    <3>1. i \in Nat
      BY <1>3 DEF Decoders
    <3> QED BY <1>a, <2>1, <3>1
  <2>2. ASSUME NEW i \in Decoders, i < row + 1 PROVE Picked(i)'
    BY <2>1, <2>2, <1>4, <1>5, <1>6
  <2> QED BY <1>1, <1>3, <2>2
<1> QED BY <1>1, <1>7 DEF Serving, NoDecoderPassedOver

\* A row that starves alone is the only one.
LEMMA LeaveOutServes ==
  ASSUME Inv, LeaveOut
  PROVE  Serving'
<1>1. /\ pc = "decode" /\ pc' = "decode" /\ row <= Len(running) /\ Evictable = {}
      /\ row' = row + 1 /\ chosen' = chosen /\ running' = running
  BY DEF LeaveOut, Starved, InRowLoop
<1>2. /\ row \in Nat \ {0} /\ chosen \in Seq(Nat)
  BY DEF Inv, Typed
<1>3. \A i \in DOMAIN running : i = row
  <2>1. \A i \in DOMAIN running : seq[running[i]].finish = "none"
    BY <1>1, ResidentsOnce DEF Inv, Sequences
  <2> QED BY <1>1, <2>1 DEF Evictable
<1>4. Len(running) = 1 /\ row = 1
  <2>1. 1 \in DOMAIN running /\ Len(running) \in DOMAIN running
    BY <1>1, <1>2, ResidentsOnce
  <2> QED BY <1>3, <2>1
<1>5. chosen = <<>>
  <2>1. \A k \in DOMAIN chosen : chosen[k] \in DOMAIN running /\ chosen[k] < row
    BY <1>1 DEF Inv, ChosenHold
  <2>2. \A k \in 1..Len(chosen) : FALSE
    BY <1>2, <1>3, <1>4, <2>1
  <2>3. Len(chosen) = 0
    BY <1>2, <2>2
  <2> QED BY <1>2, <2>3, EmptySeq
<1> QED BY <1>1, <1>4, <1>5 DEF Serving, NoDecoderPassedOver

\* An eviction shifts the indexes, and every one chosen is found where it went.
LEMMA PreemptServes ==
  ASSUME Inv, Inv', Serving, Preempt
  PROVE  Serving'
<1>0. PICK gone, r : gone = Newest /\ r = running[gone]
  OBVIOUS
<1>1. /\ pc = "decode" /\ pc' = "decode" /\ Evictable # {} /\ row <= Len(running)
      /\ running' = RemoveAt(running, gone)
      /\ seq' = [seq EXCEPT ![r] = Preempted(@)]
      /\ chosen' = Repaired(chosen, gone) /\ row' = Shifted(row, gone)
  BY <1>0 DEF Preempt, Starved, InRowLoop, Repaired
<1>2. /\ gone \in 1..Len(running) /\ gone # row /\ r \in Request
  BY <1>0, <1>1, NewestMeans DEF Inv
<1>3. /\ seq \in [Request -> Sequence] /\ chosen \in Seq(Nat) /\ IsInjective(chosen)
      /\ row \in Nat \ {0} /\ Len(running) \in Nat
  BY <1>1, ResidentsOnce DEF Inv, Typed, ChosenHold
<1>4. \A i \in Decoders : i < row => Picked(i)
  BY <1>1, <1>3 DEF Serving
<1>5. /\ Len(running') = Len(running) - 1 /\ DOMAIN running' = 1..(Len(running) - 1)
      /\ \A i \in 1..(Len(running) - 1) :
           running'[i] = IF i < gone THEN running[i] ELSE running[i + 1]
  <2>1. running \in Seq(Request)
    BY ResidentsOnce
  <2>2. running' \in Seq(Request) /\ Len(running') = Len(running) - 1
    BY <1>1, <1>2, <2>1, RemoveAtFields
  <2>3. DOMAIN running' = 1..(Len(running) - 1)
    BY <2>2
  <2> QED BY <1>1, <1>2, <2>1, <2>2, <2>3, RemoveAtFields
<1>6. PICK kept : kept = Without(chosen, gone)
  OBVIOUS
<1>7. kept \in Seq(Nat) /\ ToSet(kept) = ToSet(chosen) \ {gone}
  BY <1>3, <1>6, WithoutOnce
<1>8. chosen' = [k \in DOMAIN kept |-> Shifted(kept[k], gone)]
  BY <1>1, <1>6 DEF Repaired
<1>9. ASSUME NEW i \in Decoders', i < row' PROVE Picked(i)'
  <2>1. i \in 1..(Len(running) - 1) /\ Len(seq'[running'[i]].pending) = 1
    BY <1>5, <1>9 DEF Decoders
  <2>2. PICK o \in 1..Len(running) : o = IF i < gone THEN i ELSE i + 1
    BY <1>2, <1>3, <2>1
  <2>3. o # gone /\ Shifted(o, gone) = i /\ running'[i] = running[o]
    BY <1>2, <1>5, <2>1, <2>2 DEF Shifted
  <2>4. o < row
    BY <1>1, <1>2, <1>3, <1>9, <2>1, <2>2 DEF Shifted
  <2>5. running[o] # r /\ running[o] \in Request
    BY <1>0, <1>2, <2>3, ResidentsOnce
  <2>6. o \in Decoders
    BY <1>1, <1>3, <2>1, <2>2, <2>3, <2>5, ResidentsOnce DEF Decoders
  <2>7. PICK k \in DOMAIN chosen : chosen[k] = o
    BY <1>4, <2>4, <2>6 DEF Picked
  <2>8. o \in ToSet(kept)
    BY <1>3, <1>7, <2>3, <2>7, ToSetMeans
  <2>9. PICK n \in DOMAIN kept : kept[n] = o
    BY <1>7, <2>8, ToSetMeans
  <2>10. n \in DOMAIN chosen' /\ chosen'[n] = i
    BY <1>8, <2>3, <2>9
  <2> QED BY <2>10 DEF Picked
<1> QED BY <1>1, <1>9 DEF Serving, NoDecoderPassedOver

\* The end of the loop over rows, which leaves none behind or as many as it may.
LEMMA DoneServes ==
  ASSUME Inv, pc \in {"rows", "decode"}, RowsDone,
         \A i \in Decoders : i < row => Picked(i),
         NEW i \in Decoders, ~ Picked(i)
  PROVE  Len(chosen) >= Cap /\ \A k \in DOMAIN chosen : chosen[k] < i
<1>1. /\ row \in Nat /\ chosen \in Seq(Nat) /\ i \in 1..Len(running)
      /\ Len(running) \in Nat
  BY ResidentsOnce DEF Inv, Typed, Decoders
<1>2. ~ (i < row)
  OBVIOUS
<1>3. ~ (row > Len(running))
  BY <1>1, <1>2
<1>4. Len(chosen) >= Cap
  BY <1>3 DEF RowsDone
<1>5. \A k \in DOMAIN chosen : chosen[k] < row /\ chosen[k] \in Nat
  BY <1>1 DEF Inv, ChosenHold
<1> QED BY <1>1, <1>2, <1>4, <1>5

\* The rows of a mixed pass are chosen.
LEMMA EndRowsServes == ASSUME Inv, Inv', Serving, EndRows PROVE Serving'
<1>1. /\ pc = "rows" /\ RowsDone /\ running' = running /\ seq' = seq
      /\ (pc' = "slice" /\ chosen' = chosen /\ chunk' = chunk)
         \/ (pc' = "decode" /\ row' = 1)
  BY DEF EndRows, ToDecode, settled
<1>2. CASE pc' = "decode" /\ row' = 1
  BY <1>2, FirstRowServes
<1>3. CASE pc' = "slice" /\ chosen' = chosen /\ chunk' = chunk
  <2>1. \A i \in Decoders : i < row => Picked(i)
    BY <1>1 DEF Serving
  <2>2. Decoders' = Decoders /\ \A i : Picked(i)' <=> Picked(i)
    BY <1>1, <1>3 DEF Decoders, Picked
  <2>3. Cap = AtMost(MaxBatch, chunk)
    BY <1>1 DEF Cap
  <2>4. ASSUME NEW i \in Decoders, ~ Picked(i)
        PROVE  /\ Len(chosen) >= AtMost(MaxBatch, chunk)
               /\ \A k \in DOMAIN chosen : chosen[k] < i
    BY <1>1, <2>1, <2>3, <2>4, DoneServes
  <2> QED BY <1>3, <2>2, <2>4 DEF Serving, NoDecoderPassedOver
<1> QED BY <1>1, <1>2, <1>3

\* A decode is planned.
LEMMA PlanDecodeServes == ASSUME Inv, Inv', Serving, PlanDecode PROVE Serving'
<1>1. /\ pc = "decode" /\ RowsDone /\ running' = running /\ seq' = seq
      /\ plan' = DecodeRows /\ chunk' = chunk /\ plan' \in Seq(Row)
      /\ pc' = IF chosen = <<>> THEN "parked" ELSE "planned"
  BY DEF PlanDecode, settled, Inv, Typed
<1>2. CASE chosen = <<>>
  BY <1>1, <1>2, OutsideServes
<1>3. CASE chosen # <<>>
  <2>1. \A i \in Decoders : i < row => Picked(i)
    BY <1>1, <1>3 DEF Serving
  <2>2. /\ chosen \in Seq(Nat) /\ MaxBatch \in Nat /\ chunk \in Nat /\ Len(chosen) \in Nat
    BY SchedulerAssumption DEF Inv, Typed
  <2>3. Cap = MaxBatch
    BY <1>1 DEF Cap
  <2>4. ASSUME NEW i \in Decoders, ~ Picked(i)
        PROVE  /\ Len(chosen) >= AtMost(MaxBatch, chunk')
               /\ \A k \in DOMAIN chosen : chosen[k] < i
    <3>1. Len(chosen) >= MaxBatch /\ \A k \in DOMAIN chosen : chosen[k] < i
      BY <1>1, <2>1, <2>3, <2>4, DoneServes
    <3>2. MaxBatch >= AtMost(MaxBatch, chunk)
      BY <2>2 DEF AtMost
    <3>3. AtMost(MaxBatch, chunk) \in Nat
      BY <2>2 DEF AtMost
    <3> QED BY <1>1, <2>2, <3>1, <3>2, <3>3
  <2>5. DOMAIN chosen = 1..Len(chosen)
    BY <2>2
  <2>6. /\ DOMAIN DecodeRows = 1..Len(chosen)
        /\ \A k \in 1..Len(chosen) : DecodeRows[k].id = running[chosen[k]]
    BY <2>5 DEF DecodeRows, DecodeRow
  <2>7. Len(plan') = Len(chosen) /\ DOMAIN plan' = 1..Len(chosen)
    BY <1>1, <2>2, <2>6
  <2>8. pc' = "planned"
    BY <1>1, <1>3
  <2>9. NoDecoderPassedOver'
    BY <1>1, <2>2, <2>4, <2>6, <2>7, <2>8, CarriesThePicked
  <2> QED BY <2>8, <2>9 DEF Serving
<1> QED BY <1>2, <1>3

\* A prompt that is taken off the queue, or given a block, is not among the rows.
LEMMA SliceStepServes ==
  ASSUME Inv, Serving,
         pc \in {"slice", "joining"}, pc' \in {"slice", "joining"},
         chosen' = chosen, chunk' = chunk,
         Decoders' = Decoders
  PROVE  Serving'
<1>1. \A i : Picked(i)' <=> Picked(i)
  BY DEF Picked
<1>2. \A i \in Decoders' : Picked(i)' \/
        /\ Len(chosen') >= AtMost(MaxBatch, chunk')
        /\ \A k \in DOMAIN chosen' : chosen'[k] < i
  BY <1>1 DEF Serving
<1> QED BY <1>2 DEF Serving, NoDecoderPassedOver

\* The prompt that joins does not decode yet.
LEMMA JoinServes == ASSUME Inv, Serving, Join PROVE Serving'
<1>1. PICK q : q = joining
  OBVIOUS
<1>2. /\ pc = "joining" /\ pc' = "slice" /\ chosen' = chosen /\ chunk' = chunk
      /\ seq' = [seq EXCEPT ![q].prompt_left = AtLeast(Unshared, 1), ![q].pending = <<>>]
      /\ running' = Append(running, q)
  BY <1>1 DEF Join, settled
<1>3. q \in Request /\ q \notin ToSet(running) /\ seq \in [Request -> Sequence]
  BY <1>1, <1>2 DEF Inv, Typed, Queues
<1>4. /\ DOMAIN running' = 1..(Len(running) + 1) /\ running'[Len(running) + 1] = q
      /\ \A i \in 1..Len(running) : running'[i] = running[i]
  BY <1>2, <1>3, ResidentsOnce
<1>5. /\ seq'[q].pending = <<>>
      /\ \A r \in Request : r # q => seq'[r] = seq[r]
  BY <1>2, <1>3 DEF Sequence
<1>6. ASSUME NEW i PROVE i \in Decoders' <=> i \in Decoders
  <2>1. CASE i \in 1..Len(running)
    <3>1. running'[i] = running[i] /\ running[i] # q /\ running[i] \in Request
      BY <1>3, <1>4, <2>1, ResidentsOnce
    <3>2. seq'[running'[i]] = seq[running[i]]
      BY <1>5, <3>1
    <3>3. i \in DOMAIN running /\ i \in DOMAIN running'
      BY <1>4, <2>1, ResidentsOnce
    <3> QED BY <3>2, <3>3 DEF Decoders
  <2>2. CASE i = Len(running) + 1
    <3>1. Len(seq'[running'[i]].pending) = 0
      BY <1>4, <1>5, <2>2
    <3>2. i \notin DOMAIN running
      BY <2>2, ResidentsOnce
    <3> QED BY <3>1, <3>2 DEF Decoders
  <2>3. CASE i \notin 1..(Len(running) + 1)
    <3>1. i \notin DOMAIN running /\ i \notin DOMAIN running'
      BY <1>4, <2>3, ResidentsOnce
    <3> QED BY <3>1 DEF Decoders
  <2> QED BY <2>1, <2>2, <2>3, ResidentsOnce
<1>7. Decoders' = Decoders
  BY <1>6
<1> QED BY <1>2, <1>7, SliceStepServes

\* A mixed pass is planned, or decode takes over.
LEMMA PlanMixedServes == ASSUME Inv, Inv', Serving, PlanMixed PROVE Serving'
<1>0. PICK r : r = running[Partial]
  OBVIOUS
<1>a. PICK take : take = AtMost(Want, Capacity(table[r]) - table[r].tokens)
  OBVIOUS
<1>1. /\ pc = "slice" /\ Partial # 0 /\ UNCHANGED <<seq, running, chunk>>
      /\ IF take = 0
         THEN ToDecode
         ELSE /\ \E w : w.id = r /\ plan' = Append(DecodeRows, w)
              /\ pc' = "planned" /\ UNCHANGED chosen
  BY <1>0, <1>a DEF PlanMixed, settled
<1>2. CASE take = 0
  <2>1. row' = 1 /\ pc' = "decode"
    BY <1>1, <1>2 DEF ToDecode
  <2> QED BY <2>1, FirstRowServes
<1>3. CASE take # 0
  <2>1. PICK w : w.id = r /\ plan' = Append(DecodeRows, w)
    BY <1>1, <1>3
  <2>2. r \in Request
    BY <1>0, <1>1, PartialMeans DEF Inv, Queues
  <2>3. seq[r].pending = <<>>
    BY <1>0, <1>a, <1>1, <1>3, <2>2, SliceMeans
  <2>4. PICK n \in Nat : n = Len(chosen) /\ DOMAIN chosen = 1..n
    BY DEF Inv, Typed
  <2>5. DecodeRows \in Seq(Row) /\ DOMAIN DecodeRows = 1..n
        /\ \A k \in 1..n : DecodeRows[k].id = running[chosen[k]]
    BY <1>1, <2>4, DecodeRowsHold DEF DecodeRow
  <2>6. Len(DecodeRows) = n
    BY <2>4, <2>5
  <2>7. /\ DOMAIN plan' = 1..(n + 1) /\ Len(plan') = n + 1 /\ plan'[n + 1] = w
        /\ \A k \in 1..n : plan'[k] = DecodeRows[k]
    BY <2>1, <2>5, <2>6
  <2>8. \A i \in Decoders : Picked(i) \/
          /\ Len(chosen) >= AtMost(MaxBatch, chunk')
          /\ \A k \in DOMAIN chosen : chosen[k] < i
    BY <1>1 DEF Serving
  <2>9. /\ pc' = "planned" /\ running' = running /\ seq' = seq /\ plan' \in Seq(Row)
        /\ Len(plan') >= Len(chosen)
    BY <1>1, <1>3, <2>4, <2>7 DEF Inv, Typed
  <2>10. \A k \in 1..Len(chosen) : plan'[k].id = running[chosen[k]]
    BY <2>4, <2>5, <2>7
  <2>11. \A k \in DOMAIN plan' : k > Len(chosen) => Len(seq[plan'[k].id].pending) # 1
    <3>1. \A k \in DOMAIN plan' : k > n => k = n + 1
      BY <2>4, <2>7
    <3>2. Len(seq[w.id].pending) = 0
      BY <2>1, <2>3
    <3>3. ASSUME NEW k \in DOMAIN plan', k > Len(chosen)
          PROVE  Len(seq[plan'[k].id].pending) # 1
      <4>1. k = n + 1
        BY <2>4, <3>1, <3>3
      <4>2. plan'[k] = w
        BY <2>7, <4>1
      <4>3. Len(seq[plan'[k].id].pending) = 0
        BY <3>2, <4>2
      <4> QED BY <4>3
    <3> QED BY <3>3
  <2>12. NoDecoderPassedOver'
    BY <1>1, <2>8, <2>9, <2>10, <2>11, CarriesThePicked
  <2> QED BY <2>9, <2>12 DEF Serving
<1> QED BY <1>2, <1>3

\* No decoder is passed over at the start.
LEMMA ServingInit == Init => Serving
BY DEF Init, Serving, NoDecoderPassedOver

\* Every step of the loops over rows keeps the decoders behind it chosen.
LEMMA ServingNext == Inv /\ Serving /\ [Next]_vars => Serving'
<1> SUFFICES ASSUME Inv, Serving, [Next]_vars PROVE Serving'
  OBVIOUS
<1>0. Inv'
  BY InvNext
<1>1. ASSUME NEW r \in Request, Submit(r) \/ Cancel(r) PROVE Serving'
  BY <1>1, OutsideServes DEF Submit, Cancel
<1>2. CASE SetChunk \/ Refuse \/ Pass \/ PassFails \/ AbortRow \/ AdvanceRow \/ EmitRow
           \/ EndPlanLoop \/ Retire \/ EndCommit
  <2>1. pc' \in {"idle", "parked", "advance", "emit", "retire", "abort"}
    BY <1>2, Zenon DEF SetChunk, Refuse, Pass, PassFails, AbortRow, AdvanceRow, EmitRow,
       EndPlanLoop, Retire, EndCommit, NextRow
  <2> QED BY <2>1, OutsideServes
<1>3. CASE Plan
  <2>1. CASE chunk > 0
    BY <1>0, <1>3, <2>1, FirstRowServes DEF Plan
  <2>2. CASE ~ (chunk > 0)
    BY <1>3, <2>2 DEF Plan, settled, Serving, NoDecoderPassedOver, Inv, Typed
  <2> QED BY <2>1, <2>2
<1>4. CASE PutBack \/ GiveUpMixed \/ NoPromptToStart \/ CannotAdmit
  <2>1. row' = 1 /\ pc' = "decode"
    BY <1>4 DEF PutBack, GiveUpMixed, NoPromptToStart, CannotAdmit, ToDecode
  <2> QED BY <1>0, <2>1, FirstRowServes
<1>5. CASE SkipRow \/ ChooseRow
  BY <1>5, RowServes
<1>6. CASE Preempt \/ LeaveOut \/ PlanDecode \/ EndRows \/ PlanMixed \/ Join
  BY <1>0, <1>6, PreemptServes, LeaveOutServes, PlanDecodeServes, EndRowsServes,
     PlanMixedServes, JoinServes
<1>7. CASE StartNextPrompt \/ GrowSlice
  <2>1. /\ pc \in {"slice", "joining"} /\ pc' \in {"slice", "joining"}
        /\ UNCHANGED <<chosen, chunk, seq, running>>
    BY <1>7 DEF StartNextPrompt, GrowSlice, settled
  <2>2. Decoders' = Decoders
    BY <2>1 DEF Decoders
  <2> QED BY <2>1, <2>2, SliceStepServes
<1>8. CASE Admit \/ GrowPrompt
  <2>1. pc \in {"admit", "admitting"} /\ pc' = "admitting" /\ chunk' = chunk
    BY <1>8 DEF Admit, GrowPrompt, settled
  <2> QED BY <2>1 DEF Serving, NoDecoderPassedOver
<1>9. CASE PlanPrefill
  <2>1. pc = "admitting" /\ pc' = "planned" /\ chunk' = chunk
    BY <1>9 DEF PlanPrefill, settled
  <2> QED BY <2>1 DEF Serving, NoDecoderPassedOver
<1>10. CASE UNCHANGED vars
  BY <1>10 DEF vars, Serving, NoDecoderPassedOver, Decoders, Carried, Picked
<1> QED
  BY <1>1, <1>2, <1>3, <1>4, <1>5, <1>6, <1>7, <1>8, <1>9, <1>10
  DEF Next, Engine, Planning, Committing

\* In every pass planned under a chunk, a resident that decodes and is not carried
\* stands behind as many carried decoders as the pass may carry: neither a slice of
\* a prompt nor a dry pool, an eviction or a prompt that joins half way through the
\* planning passes one over (scheduler.rs mixed, decode, preempt).
THEOREM NobodyPassedOver == Spec => []NoDecoderPassedOver
<1>1. Serving => NoDecoderPassedOver
  BY DEF Serving
<1> QED BY <1>1, ServingInit, ServingNext, InvAlways, PTL DEF Spec

-----------------------------------------------------------------------------
(* An engine that waits for an arrival has nobody left to serve, for every *)
(* pool that holds the longest sequence the server lets in and every chunk *)
(* that stays what it was set to.  The two hypotheses are needed.  In a    *)
(* smaller pool a sequence that was evicted can need more than the pool,   *)
(* and a chunk that is taken away leaves a prompt part-way through its     *)
(* slices with no policy that serves it.                                   *)

\* Slices are made under a chunk only, and without one nobody has any left.
Plain ==
    /\ pc \in {"rows", "slice", "joining"} => chunk > 0
    /\ chunk = 0 => \A r \in Request : seq[r].prompt_left = 0

\* A decode that has chosen nobody has a decoder before it, or nothing to do.
Awake ==
    /\ pc = "decode" =>
         \/ chosen # <<>>
         \/ \E i \in Decoders : i >= row
         \/ waiting = <<>> /\ running = <<>>
    /\ NeverParkedWithWork

-----------------------------------------------------------------------------
(* Slices and the chunk.                                                   *)

\* No prompt is part-way through anything at the start.
LEMMA PlainInit == Init => Plain
<1> SUFFICES ASSUME Init PROVE Plain
  OBVIOUS
<1>1. PICK prompt \in [Request -> Prompts], max \in [Request -> Outputs] :
        seq = [r \in Request |-> NewSequence(prompt[r], max[r])]
  BY DEF Init
<1>2. \A r \in Request : seq[r].prompt_left = 0
  BY <1>1 DEF NewSequence
<1> QED BY <1>2 DEF Init, Plain

\* What is left of no slices is none, and only Join makes some.
LEMMA NoSlicesMade ==
  ASSUME Inv, [Next]_vars, ~ Join, NEW r \in Request, seq[r].prompt_left = 0
  PROVE  seq'[r].prompt_left = 0
<1>1. seq \in [Request -> Sequence] /\ seq[r] \in Sequence
  BY DEF Inv, Typed
<1>2. CASE UNCHANGED seq
  BY <1>2
<1>3. ASSUME NEW q \in Request, Submit(q) \/ Cancel(q) PROVE seq'[r].prompt_left = 0
  <2>1. CASE Submit(q)
    BY <2>1 DEF Submit
  <2>2. CASE Cancel(q)
    <3>1. PICK e : seq' = [seq EXCEPT ![q].finish = e]
      BY <2>2 DEF Cancel
    <3> QED BY <1>1, <3>1 DEF Sequence
  <2> QED BY <1>3, <2>1, <2>2
<1>4. CASE Refuse \/ PutBack
  <2>1. CASE Refuse
    <3>1. PICK q : seq' = [seq EXCEPT ![q].finish = "length"]
      BY <2>1 DEF Refuse
    <3> QED BY <1>1, <3>1 DEF Sequence
  <2>2. CASE PutBack
    <3>1. PICK q, h : seq' = [seq EXCEPT ![q].pending = h]
      BY <2>2 DEF PutBack
    <3> QED BY <1>1, <3>1 DEF Sequence
  <2> QED BY <1>4, <2>1, <2>2
<1>5. CASE Preempt
  <2>1. PICK q : seq' = [seq EXCEPT ![q] = Preempted(@)]
    BY <1>5 DEF Preempt
  <2> QED BY <1>1, <2>1 DEF Preempted, Sequence
<1>6. CASE PlanPrefill \/ AbortRow
  <2>1. CASE PlanPrefill
    <3>1. PICK q : seq' = [seq EXCEPT ![q].pending = <<>>]
      BY <2>1 DEF PlanPrefill
    <3> QED BY <1>1, <3>1 DEF Sequence
  <2>2. CASE AbortRow
    <3>1. PICK q : seq' = [seq EXCEPT ![q].finish = "stop"]
      BY <2>2 DEF AbortRow
    <3> QED BY <1>1, <3>1 DEF Sequence
  <2> QED BY <1>6, <2>1, <2>2
<1>7. CASE AdvanceRow
  <2>1. PICK q, n : /\ seq' = [seq EXCEPT ![q].prompt_left = LeftAfter(@, n)]
                    /\ q = plan[row].id /\ n = Len(plan[row].tokens)
    BY <1>7 DEF AdvanceRow
  <2>2. n \in Nat
    <3>1. row \in DOMAIN plan
      BY <1>7 DEF AdvanceRow, InPlanLoop, Inv, Typed
    <3> QED BY <2>1, <3>1, PlanRowType DEF Inv, Row
  <2>3. LeftAfter(0, n) = 0
    BY <2>2 DEF LeftAfter, AtLeast
  <2>4. CASE q = r
    BY <1>1, <2>1, <2>3, <2>4 DEF Sequence
  <2>5. CASE q # r
    BY <1>1, <2>1, <2>5
  <2> QED BY <2>4, <2>5
<1>8. CASE EmitRow
  <2>1. CASE ~ plan[row].predicts
    BY <1>8, <2>1, EmittedRow
  <2>2. CASE plan[row].predicts
    <3>1. PICK q \in Request : q = plan[row].id
      BY <1>8, <2>2, EmittedRow
    <3>2. PICK token \in Token : seq' = [seq EXCEPT ![q] = Given(seq[q], token)]
      BY <1>8, <2>2, <3>1, EmitGives
    <3> QED BY <1>1, <3>2, GivenFields
  <2> QED BY <2>1, <2>2
<1>9. CASE SetChunk \/ Plan \/ SkipRow \/ ChooseRow \/ GiveUpMixed \/ LeaveOut \/ PlanDecode
        \/ EndRows \/ NoPromptToStart \/ StartNextPrompt \/ GrowSlice \/ PlanMixed
        \/ CannotAdmit \/ Admit \/ GrowPrompt \/ Pass \/ PassFails \/ EndPlanLoop
        \/ Retire \/ EndCommit
  <2>1. UNCHANGED seq
    BY <1>9, Zenon DEF SetChunk, Plan, SkipRow, ChooseRow, GiveUpMixed, LeaveOut,
       PlanDecode, EndRows, NoPromptToStart, StartNextPrompt, GrowSlice, PlanMixed,
       CannotAdmit, Admit, GrowPrompt, Pass, PassFails, EndPlanLoop, Retire, EndCommit
  <2> QED BY <2>1
<1>10. CASE UNCHANGED vars
  BY <1>10 DEF vars
<1> QED
  BY <1>3, <1>4, <1>5, <1>6, <1>7, <1>8, <1>9, <1>10
  DEF Next, Engine, Planning, Committing

\* With a chunk that stays, slices are made under it and nowhere else.
LEMMA PlainNext == Inv /\ Plain /\ [Next]_vars /\ chunk' = chunk => Plain'
<1> SUFFICES ASSUME Inv, Plain, [Next]_vars, chunk' = chunk PROVE Plain'
  OBVIOUS
<1>1. ASSUME pc' \in {"rows", "slice", "joining"} PROVE chunk' > 0
  <2>1. CASE pc \in {"rows", "slice", "joining"}
    BY <2>1 DEF Plain
  <2>2. CASE pc \notin {"rows", "slice", "joining"}
    <3>1. Plan
      BY <1>1, <2>2, Zenon DEF Next, Engine, Planning, Committing, vars, Submit, Cancel,
         SetChunk, Refuse, PutBack, SkipRow, ChooseRow, GiveUpMixed, Preempt, LeaveOut,
         PlanDecode, EndRows, NoPromptToStart, StartNextPrompt, Join, GrowSlice, PlanMixed,
         CannotAdmit, Admit, GrowPrompt, PlanPrefill, Pass, PassFails, AbortRow,
         AdvanceRow, EmitRow, EndPlanLoop, Retire, EndCommit, ToDecode, InRowLoop,
         Starved, NextRow
    <3> QED BY <1>1, <3>1 DEF Plan
  <2> QED BY <2>1, <2>2
<1>2. ASSUME chunk' = 0, NEW r \in Request PROVE seq'[r].prompt_left = 0
  <2>1. ~ Join
    BY <1>2 DEF Join, Plain
  <2> QED BY <1>2, <2>1, NoSlicesMade DEF Plain
<1> QED BY <1>1, <1>2 DEF Plain

-----------------------------------------------------------------------------
(* A sequence alone in the pool has all of it.                             *)

\* No sequence that goes on is longer than the context.
LEMMA HistoryWithin ==
  ASSUME Inv, Limits, NEW r \in Request, seq[r].finish = "none"
  PROVE  Len(seq[r].history) <= MaxContext
<1>1. Len(seq[r].history) = seq[r].prompt_tokens + seq[r].generated
  BY DEF Inv, Sequences
<1>2. /\ seq[r].generated < AtLeast(seq[r].max_tokens, 1)
      /\ seq[r].prompt_tokens < MaxContext
      /\ seq[r].max_tokens <= MaxContext - seq[r].prompt_tokens
  BY DEF Limits, Limit
<1>3. /\ seq[r].generated \in Nat /\ seq[r].prompt_tokens \in Nat
      /\ seq[r].max_tokens \in Nat /\ MaxContext \in Nat
  BY Numbers, SchedulerAssumption DEF Inv
<1> QED BY <1>1, <1>2, <1>3 DEF AtLeast

\* As many numbers as the last of them says.
LEMMA CountTo == ASSUME NEW n \in Nat PROVE IsFiniteSet(1..n) /\ Cardinality(1..n) = n
<1>1. IsFiniteSet(1..n) /\ Cardinality(1..n) = IF 1 > n THEN 0 ELSE n - 1 + 1
  BY FS_Interval
<1> QED BY <1>1

\* What is not free is in a table, so the only table of a dry pool has every block.
LEMMA AloneHoldsAll ==
  ASSUME Inv, KVP!HoldersCountTables, Dry, NEW r \in Request,
         \A q \in Request : q # r => table[q] = NewTable
  PROVE  Cardinality(Block) <= Len(table[r].blocks)
<1>1. /\ table[r] \in Table /\ table[r].blocks \in Seq(Block)
      /\ \A q \in Request : q # r => table[q].blocks = <<>>
  BY Numbers DEF Inv, Table, NewTable
<1>2. ASSUME NEW b \in Block PROVE \E i \in DOMAIN table[r].blocks : table[r].blocks[i] = b
  <2>1. ~ \A q \in Request : b \notin KVP!Holding(q)
    BY KVP!FreeMeansUnheld, MappedAssumptions DEF Dry, KVP!FreeMeansUnheld,
       KVP!BlocksAssumption, KVP!OwnerAssumption
  <2>2. PICK q \in Request : b \in KVP!Holding(q)
    BY <2>1
  <2>3. PICK i \in DOMAIN table[q].blocks : table[q].blocks[i] = b
    BY <2>2 DEF KVP!Holding
  <2>4. q = r
    BY <1>1, <2>3
  <2> QED BY <2>3, <2>4
<1>3. PICK s \in Seq(Block) : s = table[r].blocks
  BY <1>1
<1>4. PICK n \in Nat : n = Len(s) /\ DOMAIN s = 1..n
  BY <1>3
<1>5. s \in Surjection(1..n, Block)
  <2>1. s \in [1..n -> Block]
    BY <1>3, <1>4
  <2>2. \A b \in Block : \E i \in 1..n : s[i] = b
    BY <1>2, <1>3, <1>4
  <2> QED BY <2>1, <2>2 DEF Surjection
<1>6. IsFiniteSet(1..n) /\ Cardinality(1..n) = n
  BY CountTo
<1>7. Cardinality(Block) <= Cardinality(1..n)
  BY <1>5, <1>6, FS_Surjection
<1> QED BY <1>3, <1>4, <1>6, <1>7

\* So it has slots for all of its history.
LEMMA AloneFits ==
  ASSUME Inv, Limits, KVP!HoldersCountTables, Dry, NEW r \in Request,
         MaxContext <= Cardinality(Block) * BlockSize,
         seq[r].finish = "none",
         \A q \in Request : q # r => table[q] = NewTable
  PROVE  Len(seq[r].history) <= Capacity(table[r])
<1>1. PICK c \in Nat, n \in Nat : c = Cardinality(Block) /\ n = Len(table[r].blocks)
  BY Numbers, BlocksAssumption, FS_CardinalityType DEF Inv, Table
<1>2. c <= n
  BY <1>1, AloneHoldsAll
<1>3. c * BlockSize <= n * BlockSize /\ c * BlockSize \in Nat /\ n * BlockSize \in Nat
  BY <1>2, MulMono, BlocksAssumption
<1>4. MaxContext <= c * BlockSize /\ Capacity(table[r]) = n * BlockSize
  BY <1>1 DEF Capacity
<1>5. Len(seq[r].history) <= MaxContext /\ Len(seq[r].history) \in Nat /\ MaxContext \in Nat
  BY HistoryWithin, Numbers, SchedulerAssumption DEF Inv
<1> QED BY <1>3, <1>4, <1>5

\* With nobody resident the whole pool is free.
LEMMA NobodyHolds ==
  ASSUME Inv, KVP!HoldersCountTables, running = <<>>, joining = Nobody
  PROVE  pool.free = Block
<1>1. \A r \in Request : table[r] = NewTable
  <2>1. ToSet(running) = {}
    BY DEF ToSet
  <2>2. \A r \in Request : r # Nobody
    BY SchedulerAssumption
  <2> QED BY <2>1, <2>2 DEF Inv, OthersHoldNothing
<1>2. \A r \in Request : KVP!Holding(r) = {}
  BY <1>1 DEF KVP!Holding, NewTable
<1>3. \A b \in Block : b \in pool.free
  BY <1>2, KVP!FreeMeansUnheld, MappedAssumptions DEF KVP!FreeMeansUnheld,
     KVP!BlocksAssumption, KVP!OwnerAssumption
<1>4. pool.free \subseteq Block
  BY CacheTyped DEF Inv, Pool
<1> QED BY <1>3, <1>4

\* A pool that holds the longest sequence has a block, if anybody may ask for it.
LEMMA PoolNotEmpty ==
  ASSUME Inv, Limits, NEW r \in Request, MaxContext <= Cardinality(Block) * BlockSize
  PROVE  Block # {}
<1> SUFFICES ASSUME Block = {} PROVE FALSE
  OBVIOUS
<1>1. Cardinality(Block) * BlockSize = 0
  BY FS_EmptySet, BlocksAssumption
<1>2. seq[r].prompt_tokens < MaxContext /\ seq[r].prompt_tokens \in Nat
  BY Numbers DEF Limits, Inv
<1> QED BY <1>1, <1>2, SchedulerAssumption

-----------------------------------------------------------------------------
(* Every way into decode, and every step of it.                            *)

\* Decode starts at the first row, so any decoder is before it.
LEMMA EnterAwake ==
  ASSUME Inv', pc' = "decode", row' = 1,
         Decoders' # {} \/ (waiting' = <<>> /\ running' = <<>>)
  PROVE  Awake'
<1>1. ASSUME NEW i \in Decoders' PROVE i >= row'
  <2>1. DOMAIN running' = 1..Len(running') /\ Len(running') \in Nat
    BY DEF Inv, Typed
  <2>2. i \in 1..Len(running')
    BY <2>1 DEF Decoders
  <2> QED BY <2>1, <2>2
<1> QED BY <1>1 DEF Awake, NeverParkedWithWork

\* Outside of passes a resident without slices left decodes.
LEMMA DecoderFound ==
  ASSUME Inv, pc \notin Passing, NEW i \in DOMAIN running,
         seq[running[i]].prompt_left = 0
  PROVE  i \in Decoders
<1>1. running[i] \in ToSet(running) /\ running[i] \in Request
  BY ResidentsOnce
<1>2. Settled(running[i])
  BY <1>1, AllSettled
<1>3. Len(seq[running[i]].pending) = 1
  BY <1>2 DEF Settled, Decoding, Slicing
<1> QED BY <1>3 DEF Decoders

\* With nobody part-way through a prompt, a decoder is found as soon as there is a
\* resident.
LEMMA ResidentsDecode ==
  ASSUME Inv, pc \notin Passing, running # <<>>,
         \A r \in ToSet(running) : seq[r].prompt_left = 0
  PROVE  1 \in Decoders
<1>1. 1 \in DOMAIN running
  BY ResidentsOnce
<1>2. running[1] \in ToSet(running)
  BY <1>1, ResidentsOnce
<1> QED BY <1>1, <1>2, DecoderFound

\* A prompt is put back only beside a decoder: alone it would have found its block.
LEMMA PutBackAwake ==
  ASSUME Inv, Inv', Limits, Serving, Plain, KVP!HoldersCountTables,
         MaxContext <= Cardinality(Block) * BlockSize, PutBack
  PROVE  Awake'
<1>1. PICK q : q = joining
  OBVIOUS
<1>2. PICK n : n = IF pc = "joining" THEN 1 ELSE Unshared
  OBVIOUS
<1>3. /\ pc \in {"joining", "admitting"} /\ BlocksNeeded(table[q], n) > 0 /\ Dry
      /\ seq' = [seq EXCEPT ![q].pending = seq[q].history]
      /\ running' = running /\ pc' = "decode" /\ row' = 1
  BY <1>1, <1>2 DEF PutBack, ToDecode, Needs
<1>4. /\ q \in Request /\ q \notin ToSet(running) /\ Fresh(q)
      /\ table[q].tokens < Len(seq[q].history)
  BY <1>1, <1>3 DEF Inv, Queues, Typed, Sequences, Starting
<1>5. \A r \in ToSet(running) : seq[r].prompt_left = 0
  <2>1. ToSet(running) \subseteq Request
    BY ToSetMeans DEF Inv, Typed
  <2>2. CASE pc = "joining"
    BY <2>2 DEF Inv, Starting
  <2>3. CASE pc = "admitting"
    BY <2>1, <2>3 DEF Serving, Plain
  <2> QED BY <1>3, <2>2, <2>3
<1>6. CASE running # <<>>
  <2>1. 1 \in Decoders
    BY <1>3, <1>5, <1>6, ResidentsDecode DEF Passing
  <2>2. 1 \in DOMAIN running /\ Len(seq[running[1]].pending) = 1
    BY <2>1 DEF Decoders
  <2>3. running[1] # q /\ running[1] \in Request
    BY <1>4, <2>2, ResidentsOnce
  <2>4. seq'[running'[1]] = seq[running[1]]
    BY <1>3, <2>3 DEF Inv, Typed
  <2>5. 1 \in Decoders'
    BY <1>3, <2>2, <2>4 DEF Decoders
  <2> QED BY <1>3, <2>5, EnterAwake
<1>7. CASE running = <<>>
  <2>1. \A r \in Request : r # q => table[r] = NewTable
    BY <1>1, <1>7 DEF ToSet, Inv, OthersHoldNothing
  <2>2. Len(seq[q].history) <= Capacity(table[q])
    BY <1>3, <1>4, <2>1, AloneFits DEF Fresh
  <2>3. PICK h \in Nat, k \in Nat, c \in Nat :
          h = Len(seq[q].history) /\ k = table[q].tokens /\ c = Capacity(table[q])
    BY <1>4, Numbers DEF Inv
  <2>4. n \in Nat /\ k + n <= h
    <3>1. CASE pc = "joining"
      BY <1>2, <1>4, <2>3, <3>1
    <3>2. CASE pc # "joining"
      <4>1. n = h - k
        BY <1>1, <1>2, <1>4, <2>3, <3>2 DEF Unshared, Fresh
      <4>2. k < h
        BY <1>4, <2>3
      <4> QED BY <4>1, <4>2
    <3> QED BY <3>1, <3>2
  <2>5. k + n > c
    <3>1. table[q] \in Table /\ WellFormed(table[q])
      BY <1>4, Numbers DEF Inv
    <3> QED BY <1>3, <2>3, <2>4, <3>1, NeedsMeans
  <2> QED BY <2>2, <2>3, <2>4, <2>5
<1> QED BY <1>6, <1>7

\* Nobody starts only beside a decoder or when nobody waits: alone at the front a
\* prompt finds the whole pool.
LEMMA NoStartAwake ==
  ASSUME Inv, Inv', Limits, Serving, Plain, KVP!HoldersCountTables,
         MaxContext <= Cardinality(Block) * BlockSize,
         NoPromptToStart \/ (CannotAdmit /\ ~ Unservable)
  PROVE  Awake'
<1>1. /\ pc \in {"slice", "admit"} /\ pc' = "decode" /\ row' = 1
      /\ running' = running /\ waiting' = waiting /\ seq' = seq
  BY DEF NoPromptToStart, CannotAdmit, ToDecode
<1>2. Decoders' = Decoders
  BY <1>1 DEF Decoders
<1>3. \A r \in ToSet(running) : seq[r].prompt_left = 0
  <2>1. ToSet(running) \subseteq Request
    BY ToSetMeans DEF Inv, Typed
  <2>2. CASE NoPromptToStart
    <3>1. Partial = 0
      BY <2>2 DEF NoPromptToStart
    <3>2. \A r \in ToSet(running) : seq[r].finish = "none"
      BY <1>1, <2>1 DEF Inv, Sequences
    <3> QED BY <3>1, <3>2, PartialMeans DEF Inv, Queues
  <2>3. CASE CannotAdmit
    BY <2>1, <2>3 DEF CannotAdmit, Serving, Plain
  <2> QED BY <2>2, <2>3
<1>4. CASE running # <<>>
  <2>1. 1 \in Decoders
    BY <1>1, <1>3, <1>4, ResidentsDecode DEF Passing
  <2> QED BY <1>1, <1>2, <2>1, EnterAwake
<1>5. CASE running = <<>> /\ waiting = <<>>
  BY <1>1, <1>5, EnterAwake
<1>6. CASE running = <<>> /\ waiting # <<>>
  <2>1. joining = Nobody
    BY <1>1 DEF Inv, Queues
  <2>2. pool.free = Block
    BY <1>6, <2>1, NobodyHolds
  <2>3. PICK r \in Request : r = Head(waiting)
    BY <1>6, TailOnce DEF Inv, Typed
  <2>4. Block # {}
    BY PoolNotEmpty
  <2>5. CASE NoPromptToStart
    BY <1>6, <2>2, <2>4, <2>5 DEF NoPromptToStart, Dry
  <2>6. CASE CannotAdmit /\ ~ Unservable
    <3>1. /\ ~ (Span(seq[r].pending) <= Cardinality(Block))
          /\ ~ (Span(seq[r].pending) > Cardinality(Block))
      BY <1>6, <2>2, <2>3, <2>6 DEF CannotAdmit, Admissible, Unservable
    <3>2. Cardinality(Block) \in Nat
      BY BlocksAssumption, FS_CardinalityType
    <3>3. Span(seq[r].pending) \in Int
      BY Numbers, BlocksAssumption DEF Inv, Span, CeilDiv
    <3> QED BY <3>1, <3>2, <3>3
  <2> QED BY <2>5, <2>6
<1> QED BY <1>4, <1>5, <1>6

\* A mixed pass gives way to decode at a decoder that starves, or when the decoders
\* chosen fill the chunk.
LEMMA RowsAwake ==
  ASSUME Inv, Inv', Plain, GiveUpMixed \/ (EndRows /\ pc' = "decode")
  PROVE  Awake'
<1>1. /\ pc = "rows" /\ pc' = "decode" /\ row' = 1 /\ running' = running /\ seq' = seq
  BY DEF GiveUpMixed, EndRows, ToDecode
<1>2. Decoders' = Decoders
  BY <1>1 DEF Decoders
<1>3. Decoders # {}
  <2>1. CASE GiveUpMixed
    <3>1. row \in Nat \ {0} /\ row <= Len(running) /\ Len(seq[running[row]].pending) = 1
      BY <2>1 DEF GiveUpMixed, Starved, InRowLoop, Skips, Inv, Typed
    <3>2. row \in DOMAIN running
      BY <3>1, ResidentsOnce
    <3> QED BY <3>1, <3>2 DEF Decoders
  <2>2. CASE EndRows
    <3>1. Room <= 0
      BY <1>1, <2>2 DEF EndRows
    <3>2. chosen \in Seq(Nat) /\ Len(chosen) \in Nat /\ chunk \in Nat /\ chunk > 0
      BY <1>1 DEF Inv, Typed, Plain
    <3>3. Len(chosen) > 0
      BY <3>1, <3>2 DEF Room
    <3>4. 1 \in DOMAIN chosen
      BY <3>2, <3>3
    <3>5. chosen[1] \in DOMAIN running /\ Len(seq[running[chosen[1]]].pending) = 1
      BY <1>1, <3>4 DEF Inv, ChosenHold
    <3> QED BY <3>5 DEF Decoders
  <2> QED BY <2>1, <2>2
<1> QED BY <1>1, <1>2, <1>3, EnterAwake

\* A slice that gets no slot stands beside a decoder: alone its prompt would have
\* the whole pool.
LEMMA PlanMixedAwake ==
  ASSUME Inv, Inv', Limits, KVP!HoldersCountTables,
         MaxContext <= Cardinality(Block) * BlockSize, PlanMixed, pc' = "decode"
  PROVE  Awake'
<1>0. PICK r : r = running[Partial]
  OBVIOUS
<1>a. PICK want : want = Want
  OBVIOUS
<1>b. PICK take : take = AtMost(want, Capacity(table[r]) - table[r].tokens)
  OBVIOUS
<1>1. /\ pc = "slice" /\ Partial # 0 /\ UNCHANGED <<seq, running>>
      /\ BlocksNeeded(table[r], want) > 0 => Dry
      /\ row' = 1 /\ take = 0
  BY <1>0, <1>a, <1>b DEF PlanMixed, ToDecode, Needs
<1>2. /\ Partial \in DOMAIN running /\ r \in Request /\ r \in ToSet(running)
      /\ seq[r].prompt_left > 0
  BY <1>0, <1>1, PartialMeans DEF Inv, Queues
<1>3. Decoders' = Decoders
  BY <1>1 DEF Decoders
<1>4. CASE \E i \in DOMAIN running : i # Partial
  <2>1. PICK i \in DOMAIN running : i # Partial
    BY <1>4
  <2>2. running[i] \in ToSet(running) /\ running[i] \in Request /\ running[i] # r
    BY <1>0, <1>2, <2>1, ResidentsOnce
  <2>3. ~ (seq[running[i]].prompt_left > 0)
    BY <1>2, <2>2 DEF Inv, OnePartialPrompt
  <2>4. seq[running[i]].prompt_left = 0
    BY <2>2, <2>3, Numbers DEF Inv
  <2>5. i \in Decoders
    BY <1>1, <2>1, <2>4, DecoderFound DEF Passing
  <2> QED BY <1>1, <1>3, <2>5, EnterAwake
<1>5. CASE \A i \in DOMAIN running : i = Partial
  <2>1. \A q \in Request : q # r => table[q] = NewTable
    <3>1. joining = Nobody /\ Nobody \notin Request
      BY <1>1, SchedulerAssumption DEF Inv, Queues
    <3>2. \A q \in ToSet(running) : q = r
      BY <1>0, <1>5, ResidentsOnce DEF ToSet
    <3> QED BY <3>1, <3>2 DEF Inv, OthersHoldNothing
  <2>2. /\ Slicing(r) /\ seq[r].finish = "none"
    <3>1. Settled(r)
      BY <1>1, <1>2, AllSettled DEF Passing
    <3>2. seq[r].prompt_left # 0
      BY <1>2, Numbers DEF Inv
    <3> QED BY <1>1, <1>2, <3>1, <3>2 DEF Settled, Decoding, Inv, Sequences
  <2>3. PICK h \in Nat, k \in Nat, c \in Nat, left \in Nat :
          /\ h = Len(seq[r].history) /\ k = table[r].tokens /\ c = Capacity(table[r])
          /\ left = seq[r].prompt_left
    BY <1>2, Numbers DEF Inv
  <2>4. k + left = h /\ left > 0 /\ k <= c
    BY <1>2, <2>2, <2>3, Numbers DEF Slicing, Inv
  <2>5. PICK room \in Int : room = Room /\ room > 0
    BY <1>1 DEF Inv, ChosenHold, Room, Typed
  <2>6. want = AtMost(room, left)
    BY <1>0, <1>a, <2>3, <2>5 DEF Want
  <2>7. want \in Nat /\ want > 0
    BY <2>4, <2>5, <2>6 DEF AtMost
  <2>8. take = AtMost(want, c - k)
    BY <1>b, <2>3
  <2>9. c = k
    BY <1>1, <2>4, <2>7, <2>8 DEF AtMost
  <2>10. BlocksNeeded(table[r], want) > 0
    <3>1. table[r] \in Table /\ WellFormed(table[r])
      BY <1>2, Numbers DEF Inv
    <3>2. k + want > c
      BY <2>7, <2>9
    <3> QED BY <2>3, <2>7, <3>1, <3>2, NeedsMeans
  <2>11. h <= c
    BY <1>1, <1>2, <2>1, <2>2, <2>3, <2>10, AloneFits
  <2> QED BY <2>4, <2>9, <2>11
<1> QED BY <1>4, <1>5

\* The row in need stays before the loop, wherever the eviction shifts it.
LEMMA PreemptAwake ==
  ASSUME Inv, Inv', Preempt
  PROVE  Awake'
<1>0. PICK gone, r, n : gone = Newest /\ r = running[gone] /\ n = row
  OBVIOUS
<1>1. /\ pc = "decode" /\ pc' = "decode" /\ Evictable # {} /\ n <= Len(running)
      /\ running' = RemoveAt(running, gone)
      /\ seq' = [seq EXCEPT ![r] = Preempted(@)]
      /\ row' = Shifted(n, gone) /\ Len(seq[running[n]].pending) = 1
  BY <1>0 DEF Preempt, Starved, InRowLoop, Skips
<1>2. /\ gone \in 1..Len(running) /\ gone # n /\ r \in Request
  BY <1>0, <1>1, NewestMeans DEF Inv
<1>3. /\ seq \in [Request -> Sequence] /\ n \in Nat \ {0} /\ Len(running) \in Nat
      /\ running \in Seq(Request) /\ n \in DOMAIN running
  BY <1>0, <1>1, ResidentsOnce DEF Inv, Typed
<1>4. running[n] # r /\ running[n] \in Request
  BY <1>0, <1>2, <1>3, ResidentsOnce
<1>5. /\ Len(running') = Len(running) - 1 /\ DOMAIN running' = 1..(Len(running) - 1)
      /\ \A i \in 1..(Len(running) - 1) :
           running'[i] = IF i < gone THEN running[i] ELSE running[i + 1]
  <2>1. running' \in Seq(Request) /\ Len(running') = Len(running) - 1
    BY <1>1, <1>2, <1>3, RemoveAtFields
  <2>2. DOMAIN running' = 1..(Len(running) - 1)
    BY <2>1
  <2> QED BY <1>1, <1>2, <1>3, <2>1, <2>2, RemoveAtFields
<1>6. PICK m : m = Shifted(n, gone)
  OBVIOUS
<1>7. m \in 1..(Len(running) - 1) /\ (IF m < gone THEN m ELSE m + 1) = n
  BY <1>1, <1>2, <1>3, <1>6 DEF Shifted
<1>8. running'[m] = running[n]
  BY <1>5, <1>7
<1>9. seq'[running'[m]] = seq[running[n]]
  BY <1>1, <1>3, <1>4, <1>8
<1>10. m \in Decoders'
  BY <1>1, <1>5, <1>7, <1>9 DEF Decoders
<1>11. m >= row'
  BY <1>1, <1>6, <1>7
<1> QED BY <1>1, <1>10, <1>11 DEF Awake, NeverParkedWithWork

\* A decoder alone is never left out: the whole pool is its own.
LEMMA NoneLeftOut ==
  ASSUME Inv, Limits, KVP!HoldersCountTables,
         MaxContext <= Cardinality(Block) * BlockSize
  PROVE  ~ LeaveOut
<1> SUFFICES ASSUME LeaveOut PROVE FALSE
  OBVIOUS
<1>0. PICK n, r : n = row /\ r = running[n]
  OBVIOUS
<1>1. /\ pc = "decode" /\ n <= Len(running) /\ Evictable = {} /\ Dry
      /\ BlocksNeeded(table[r], 1) > 0 /\ Len(seq[r].pending) = 1
      /\ seq[r].finish = "none"
  BY <1>0 DEF LeaveOut, Starved, InRowLoop, Skips, Needs
<1>2. n \in DOMAIN running /\ r \in ToSet(running) /\ r \in Request
  BY <1>0, <1>1, ResidentsOnce DEF Inv, Typed
<1>3. \A i \in DOMAIN running : i = n
  <2>1. \A i \in DOMAIN running : seq[running[i]].finish = "none"
    BY <1>1, ResidentsOnce DEF Inv, Sequences
  <2> QED BY <1>0, <1>1, <2>1 DEF Evictable
<1>4. \A q \in Request : q # r => table[q] = NewTable
  <2>1. joining = Nobody /\ Nobody \notin Request
    BY <1>1, SchedulerAssumption DEF Inv, Queues
  <2>2. \A q \in ToSet(running) : q = r
    BY <1>0, <1>3, ResidentsOnce DEF ToSet
  <2> QED BY <2>1, <2>2 DEF Inv, OthersHoldNothing
<1>5. Len(seq[r].history) <= Capacity(table[r])
  BY <1>1, <1>2, <1>4, AloneFits
<1>6. Settled(r)
  BY <1>1, <1>2, AllSettled DEF Passing
<1>7. table[r].tokens + 1 = Len(seq[r].history)
  <2>1. ~ Slicing(r)
    <3>1. Len(seq[r].pending) # Len(<<>>)
      BY <1>1
    <3> QED BY <3>1 DEF Slicing
  <2> QED BY <1>6, <2>1 DEF Settled, Decoding
<1>8. table[r].tokens + 1 > Capacity(table[r])
  BY <1>1, <1>2, Numbers, NeedsMeans DEF Inv
<1>9. Capacity(table[r]) \in Nat /\ Len(seq[r].history) \in Nat
  BY <1>2, Numbers DEF Inv
<1> QED BY <1>5, <1>7, <1>8, <1>9

\* The loop over rows passes no decoder without choosing it.
LEMMA LoopAwake ==
  ASSUME Inv, Inv', Awake, SkipRow \/ ChooseRow
  PROVE  Awake'
<1>0. PICK n : n = row
  OBVIOUS
<1>1. /\ InRowLoop /\ pc' = pc /\ row' = n + 1 /\ n \in Nat \ {0}
      /\ running' = running /\ seq' = seq /\ waiting' = waiting /\ pc \in {"rows", "decode"}
  BY <1>0 DEF SkipRow, ChooseRow, InRowLoop, Inv, Typed
<1>2. CASE ChooseRow
  <2>1. chosen' = Append(chosen, row) /\ chosen \in Seq(Nat)
    BY <1>2 DEF ChooseRow, Inv, Typed
  <2>2. chosen' # <<>>
    BY <2>1
  <2> QED BY <1>1, <2>2 DEF Awake, NeverParkedWithWork
<1>3. CASE SkipRow
  <2>1. n \notin Decoders
    BY <1>0, <1>1, <1>3, SkippedIsNoDecoder DEF SkipRow
  <2>2. Decoders' = Decoders /\ chosen' = chosen
    BY <1>1, <1>3 DEF Decoders, SkipRow
  <2>3. ASSUME NEW i \in Decoders, i >= n PROVE i >= n + 1
    <3>1. i \in Nat
      BY ResidentsOnce DEF Decoders
    <3> QED BY <1>1, <2>1, <2>3, <3>1
  <2> QED BY <1>0, <1>1, <2>2, <2>3 DEF Awake, NeverParkedWithWork
<1> QED BY <1>2, <1>3

\* A decode ends with rows, or with nothing to do.
LEMMA PlanDecodeAwake ==
  ASSUME Inv, Awake, PlanDecode
  PROVE  Awake'
<1>1. /\ pc = "decode" /\ RowsDone /\ UNCHANGED <<running, waiting>>
      /\ pc' = IF chosen = <<>> THEN "parked" ELSE "planned"
  BY DEF PlanDecode
<1>2. CASE chosen # <<>>
  BY <1>1, <1>2 DEF Awake, NeverParkedWithWork
<1>3. CASE chosen = <<>>
  <2>1. Len(chosen) = 0 /\ Cap = MaxBatch /\ MaxBatch \in Nat \ {0}
    BY <1>1, <1>3, SchedulerAssumption DEF Cap
  <2>2. row > Len(running) /\ row \in Nat
    BY <1>1, <2>1 DEF RowsDone, Inv, Typed
  <2>3. \A i \in Decoders : ~ (i >= row)
    <3>1. \A i \in Decoders : i \in 1..Len(running) /\ Len(running) \in Nat
      BY ResidentsOnce DEF Decoders
    <3> QED BY <2>2, <3>1
  <2>4. waiting = <<>> /\ running = <<>>
    BY <1>1, <1>3, <2>3 DEF Awake
  <2> QED BY <1>1, <1>3, <2>4 DEF Awake, NeverParkedWithWork
<1> QED BY <1>2, <1>3

\* Nobody decodes or waits at the start.
LEMMA AwakeInit == Init => Awake
BY DEF Init, Awake, NeverParkedWithWork

\* No step leads to an engine that waits with work.
LEMMA AwakeNext ==
  ASSUME MaxContext <= Cardinality(Block) * BlockSize
  PROVE  Inv /\ Limits /\ Serving /\ Plain /\ KVP!HoldersCountTables /\ Awake /\ [Next]_vars
           => Awake'
<1> SUFFICES ASSUME Inv, Limits, Serving, Plain, KVP!HoldersCountTables, Awake, [Next]_vars
             PROVE  Awake'
  OBVIOUS
<1>0. Inv'
  BY InvNext
<1>1. ASSUME pc' \notin {"decode", "parked"} PROVE Awake'
  BY <1>1 DEF Awake, NeverParkedWithWork
<1>2. ASSUME NEW r \in Request, Submit(r) \/ Cancel(r) PROVE Awake'
  BY <1>1, <1>2 DEF Submit, Cancel
<1>3. CASE SetChunk \/ Refuse \/ Plan \/ StartNextPrompt \/ Join \/ GrowSlice
           \/ Admit \/ GrowPrompt \/ PlanPrefill \/ Pass \/ PassFails \/ AbortRow
           \/ AdvanceRow \/ EmitRow \/ EndPlanLoop \/ Retire \/ EndCommit
  <2>1. pc' \notin {"decode", "parked"}
    BY <1>3, Zenon DEF SetChunk, Refuse, Plan, StartNextPrompt, Join, GrowSlice, Admit,
       GrowPrompt, PlanPrefill, Pass, PassFails, AbortRow, AdvanceRow, EmitRow,
       EndPlanLoop, Retire, EndCommit, NextRow
  <2> QED BY <1>1, <2>1
<1>4. CASE PutBack
  BY <1>0, <1>4, PutBackAwake
<1>5. CASE NoPromptToStart \/ CannotAdmit
  BY <1>0, <1>5, NoStartAwake, NeverUnservable
<1>6. CASE GiveUpMixed \/ EndRows
  <2>1. pc' \in {"decode", "slice"}
    BY <1>6 DEF GiveUpMixed, EndRows, ToDecode
  <2> QED BY <1>0, <1>1, <1>6, <2>1, RowsAwake
<1>7. CASE PlanMixed
  <2>1. pc' \in {"decode", "planned"}
    BY <1>7 DEF PlanMixed, ToDecode
  <2> QED BY <1>0, <1>1, <1>7, <2>1, PlanMixedAwake
<1>8. CASE SkipRow \/ ChooseRow
  BY <1>0, <1>8, LoopAwake
<1>9. CASE Preempt
  BY <1>0, <1>9, PreemptAwake
<1>10. CASE LeaveOut
  BY <1>10, NoneLeftOut
<1>11. CASE PlanDecode
  BY <1>11, PlanDecodeAwake
<1>12. CASE UNCHANGED vars
  BY <1>12 DEF vars, Awake, NeverParkedWithWork, Decoders
<1> QED
  BY <1>2, <1>3, <1>4, <1>5, <1>6, <1>7, <1>8, <1>9, <1>10, <1>11, <1>12
  DEF Next, Engine, Planning, Committing

\* While the chunk stays what it was set to, as in the server, which sets it once,
\* the engine sleeps until an arrival only when nobody waits and nobody is resident,
\* whatever was evicted, put back, refused or starved while it planned: no request
\* is left to wait for somebody else to come (scheduler.rs plan, mixed, admit,
\* decode; engine.rs run).  The pool holds the longest sequence that is let in.
THEOREM NeverAsleepWithWork ==
  ASSUME MaxContext <= Cardinality(Block) * BlockSize
  PROVE  Spec /\ [][UNCHANGED chunk]_vars => []NeverParkedWithWork
<1>1. [UNCHANGED chunk]_vars => chunk' = chunk
  BY DEF vars
<1>2. Inv /\ Plain /\ [Next]_vars /\ [UNCHANGED chunk]_vars => Plain'
  BY <1>1, PlainNext
<1>3. Inv /\ Limits /\ Serving /\ Plain /\ KVP!HoldersCountTables /\ Awake /\ [Next]_vars
        => Awake'
  BY AwakeNext
<1>4. Spec => []KVP!HoldersCountTables
  <2>1. KVP!Spec => []KVP!HoldersCountTables
    BY KVP!HoldersCounted, MappedAssumptions
    DEF KVP!HoldersCounted, KVP!BlocksAssumption, KVP!OwnerAssumption
  <2> QED BY <2>1, SchedulerIsPagedKV, PTL
<1>5. Awake => NeverParkedWithWork
  BY DEF Awake
<1> QED
  BY <1>2, <1>3, <1>4, <1>5, InvAlways, LimitsInit, LimitsNext, ServingInit,
     ServingNext, PlainInit, AwakeInit, PTL DEF Spec

-----------------------------------------------------------------------------
(* No pass carries more than the chunk, for every batch size and every     *)
(* chunk that stays what it was set to.  The sum is of decodes, one token  *)
(* each, and at most one slice behind them.                                *)

\* Every row but the last of a plan carries one token.
LEMMA LoadOfPlan ==
  ASSUME NEW p \in Seq(Row), NEW L \in Nat, L = Len(p), L > 0,
         \A k \in 1..(L - 1) : Len(p[k].tokens) = 1,
         NEW t \in Nat, t = Len(p[L].tokens)
  PROVE  Load(p) = (L - 1) + t
<1> DEFINE Sums(f) == f = [n \in 0..Len(p) |->
                             IF n = 0 THEN 0 ELSE f[n - 1] + Len(p[n].tokens)]
<1>1. \E f : Sums(f)
  <2> DEFINE g == [n \in 0..Len(p) |-> IF n = L THEN (L - 1) + t ELSE n]
  <2>1. g[0] = 0
    OBVIOUS
  <2>2. ASSUME NEW n \in 0..Len(p), n # 0 PROVE g[n] = g[n - 1] + Len(p[n].tokens)
    <3>1. n \in Nat /\ n - 1 \in 0..Len(p) /\ n - 1 # L /\ n <= L
      BY <2>2
    <3>2. g[n - 1] = n - 1
      BY <3>1
    <3>3. CASE n = L
      <4>1. g[n] = (n - 1) + t
        BY <3>3
      <4> QED BY <3>2, <3>3, <4>1
    <3>4. CASE n # L
      <4>1. n \in 1..(L - 1) /\ g[n] = n
        BY <2>2, <3>1, <3>4
      <4>2. Len(p[n].tokens) = 1
        BY <4>1
      <4> QED BY <3>1, <3>2, <4>1, <4>2
    <3> QED BY <3>3, <3>4
  <2>3. g = [n \in 0..Len(p) |-> g[n]]
    OBVIOUS
  <2> HIDE DEF g
  <2>4. Sums(g)
    BY <2>1, <2>2, <2>3
  <2> QED BY <2>4
<1>2. ASSUME NEW f, Sums(f) PROVE f[Len(p)] = (L - 1) + t
  <2>1. \A n \in 0..L : f[n] = IF n = 0 THEN 0 ELSE f[n - 1] + Len(p[n].tokens)
    BY <1>2
  <2> DEFINE Off == {n \in 0..(L - 1) : f[n] # n}
  <2>2. Off = {}
    <3> SUFFICES ASSUME Off # {} PROVE FALSE
      OBVIOUS
    <3>1. Off \in SUBSET Nat
      OBVIOUS
    <3>2. PICK i \in Off : \A j \in Off : i <= j
      <4> HIDE DEF Off
      <4> QED BY <3>1, Least
    <3>3. i \in 0..L /\ i \in 0..(L - 1) /\ f[i] # i
      BY <3>2
    <3>4. i # 0
      BY <2>1, <3>3
    <3>5. i - 1 \in 0..(L - 1) /\ i - 1 \notin Off
      BY <3>1, <3>2, <3>3, <3>4
    <3>6. f[i - 1] = i - 1
      BY <3>5
    <3>7. f[i] = f[i - 1] + Len(p[i].tokens) /\ Len(p[i].tokens) = 1
      BY <2>1, <3>3, <3>4
    <3> QED BY <3>3, <3>6, <3>7
  <2>3. f[L - 1] = L - 1
    BY <2>2
  <2>4. f[L] = f[L - 1] + Len(p[L].tokens)
    BY <2>1
  <2> QED BY <2>3, <2>4
<1>3. Sums(CHOOSE f : Sums(f))
  <2> HIDE DEF Sums
  <2> QED BY <1>1
<1>4. Load(p) = (CHOOSE f : Sums(f))[Len(p)]
  BY DEF Load
<1> HIDE DEF Sums
<1> QED BY <1>2, <1>3, <1>4

\* Under a chunk smaller than the batch no more are resident than the chunk
\* carries, and whoever is about to join is counted.
Seats == Len(running) + (IF pc = "joining" THEN 1 ELSE 0)
Seated ==
    /\ chunk > 0 /\ chunk < MaxBatch => Seats <= chunk
    /\ pc = "decode" => Len(chosen) <= MaxBatch
    /\ PassWithinChunk

\* Numbers of the sequences the loops keep.
LEMMA SeatNumbers ==
  ASSUME Inv
  PROVE  /\ Len(running) \in Nat /\ Len(chosen) \in Nat /\ chunk \in Nat /\ MaxBatch \in Nat
         /\ Seats \in Nat /\ chosen \in Seq(Nat)
<1>1. Len(running) \in Nat /\ Len(chosen) \in Nat /\ chunk \in Nat /\ MaxBatch \in Nat
      /\ chosen \in Seq(Nat)
  BY SchedulerAssumption DEF Inv, Typed
<1> QED BY <1>1 DEF Seats

\* A step that seats nobody and plans no pass.
LEMMA SeatsStay ==
  ASSUME Inv, Inv', Seated, chunk' = chunk, Seats' <= Seats,
         pc' = "decode" => Len(chosen') <= MaxBatch, pc' # "planned"
  PROVE  Seated'
<1>1. chunk > 0 /\ chunk < MaxBatch => Seats' <= chunk
  <2>1. Len(running') \in Nat
    BY DEF Inv, Typed
  <2>2. Seats' \in Nat
    BY <2>1 DEF Seats
  <2> QED BY <2>2, SeatNumbers DEF Seated
<1> QED BY <1>1 DEF Seated, PassWithinChunk

\* Whoever leaves the residents gives a seat back.
LEMMA SeatGivenBack ==
  ASSUME Inv, Inv', pc' # "joining", Len(running') <= Len(running)
  PROVE  Seats' <= Seats
BY SeatNumbers DEF Seats, Inv, Typed

\* Nobody is seated twice.
LEMMA WithoutNoLonger ==
  ASSUME Inv, NEW r
  PROVE  Len(Without(running, r)) <= Len(running)
<1>1. running \in Seq(Request) /\ IsInjective(running) /\ Len(running) \in Nat
  BY DEF Inv, Typed, Queues
<1>2. CASE r \in ToSet(running)
  <2>1. PICK n \in 1..Len(running) : Without(running, r) = RemoveAt(running, n)
    BY <1>1, <1>2, WithoutOnce
  <2>2. Len(RemoveAt(running, n)) = Len(running) - 1
    BY <1>1, RemoveAtFields
  <2> QED BY <1>1, <2>1, <2>2
<1>3. CASE r \notin ToSet(running)
  <2>1. Without(running, r) = running
    BY <1>1, <1>3, WithoutOnce
  <2> QED BY <1>1, <2>1
<1> QED BY <1>2, <1>3

\* A cancel, an abort, a retirement and an eviction each empty a seat.
LEMMA LeavingSeats ==
  ASSUME Inv, Inv', Seated, chunk' = chunk,
         (\E r \in Request : Cancel(r)) \/ AbortRow \/ Retire \/ Preempt
  PROVE  Seated'
<1>1. CASE \E r \in Request : Cancel(r)
  <2>1. PICK r \in Request : running' = Without(running, r) /\ pc' = "idle"
    BY <1>1 DEF Cancel
  <2>2. Len(running') <= Len(running)
    BY <2>1, WithoutNoLonger
  <2> QED BY <2>1, <2>2, SeatGivenBack, SeatsStay
<1>2. CASE AbortRow
  <2>1. PICK r : running' = Without(running, r) /\ pc' = "abort"
    BY <1>2 DEF AbortRow, NextRow
  <2>2. Len(running') <= Len(running)
    BY <2>1, WithoutNoLonger
  <2> QED BY <2>1, <2>2, SeatGivenBack, SeatsStay
<1>3. CASE Retire
  <2>1. PICK n : /\ n = CHOOSE i \in Finished : \A j \in Finished : i <= j
                 /\ running' = RemoveAt(running, n) /\ pc' = "retire" /\ Finished # {}
    BY <1>3 DEF Retire
  <2>2. n \in 1..Len(running) /\ running \in Seq(Request) /\ Len(running) \in Nat
    BY <2>1, FirstFinished, ResidentsOnce DEF Inv
  <2>3. Len(running') <= Len(running)
    BY <2>1, <2>2, RemoveAtFields
  <2> QED BY <2>1, <2>3, SeatGivenBack, SeatsStay
<1>4. CASE Preempt
  <2>1. PICK gone : gone = Newest
    OBVIOUS
  <2>2. /\ pc = "decode" /\ pc' = "decode" /\ Evictable # {}
        /\ running' = RemoveAt(running, gone) /\ chosen' = Repaired(chosen, gone)
    BY <1>4, <2>1 DEF Preempt, Repaired
  <2>3. gone \in 1..Len(running) /\ running \in Seq(Request)
    BY <2>1, <2>2, NewestMeans DEF Inv, Typed
  <2>4. Len(running') <= Len(running)
    BY <2>2, <2>3, RemoveAtFields
  <2>5. Len(chosen') <= Len(chosen)
    <3>1. PICK kept : kept = Without(chosen, gone)
      OBVIOUS
    <3>2. chosen \in Seq(Nat) /\ IsInjective(chosen) /\ Len(chosen) \in Nat
      BY <2>2 DEF Inv, Typed, ChosenHold
    <3>3. kept \in Seq(Nat) /\ Len(kept) <= Len(chosen)
      <4>1. CASE gone \in ToSet(chosen)
        <5>1. PICK n \in 1..Len(chosen) : kept = RemoveAt(chosen, n)
          BY <3>1, <3>2, <4>1, WithoutOnce
        <5> QED BY <3>2, <5>1, RemoveAtFields
      <4>2. CASE gone \notin ToSet(chosen)
        BY <3>1, <3>2, <4>2, WithoutOnce
      <4> QED BY <4>1, <4>2
    <3>4. chosen' = [k \in DOMAIN kept |-> Shifted(kept[k], gone)]
      BY <2>2, <3>1 DEF Repaired
    <3>5. DOMAIN chosen' = 1..Len(kept) /\ chosen' \in Seq(Nat)
      BY <3>3, <3>4 DEF Inv, Typed
    <3> QED BY <3>3, <3>5
  <2>6. Len(chosen') <= MaxBatch
    BY <2>2, <2>5, SeatNumbers DEF Seated, Inv, Typed
  <2> QED BY <2>2, <2>4, <2>6, SeatGivenBack, SeatsStay
<1> QED BY <1>1, <1>2, <1>3, <1>4

\* A row is chosen while the pass has room for one more.
LEMMA ChooseSeats ==
  ASSUME Inv, Inv', Seated, chunk' = chunk, ChooseRow
  PROVE  Seated'
<1>1. /\ pc \in {"rows", "decode"} /\ Len(chosen) < Cap /\ pc' = pc /\ running' = running
      /\ chosen' = Append(chosen, row)
  BY DEF ChooseRow, InRowLoop
<1>2. Len(chosen') = Len(chosen) + 1
  BY <1>1, SeatNumbers
<1>3. pc' = "decode" => Len(chosen') <= MaxBatch
  BY <1>1, <1>2, SeatNumbers DEF Cap
<1>4. Seats' <= Seats
  BY <1>1, SeatNumbers DEF Seats
<1> QED BY <1>1, <1>3, <1>4, SeatsStay

\* A prompt starts only when every resident decodes and has been chosen, with
\* room for one more under the chunk.
LEMMA StartSeats ==
  ASSUME Inv, Inv', Serving, Seated, chunk' = chunk, StartNextPrompt
  PROVE  Seated'
<1>1. pc = "slice" /\ pc' = "joining" /\ Partial = 0 /\ running' = running
  BY DEF StartNextPrompt
<1>2. Room > 0 /\ IsInjective(chosen)
  BY <1>1 DEF Inv, ChosenHold
<1>3. Len(chosen) < chunk
  BY <1>2, SeatNumbers DEF Room
<1>4. ASSUME chunk > 0, chunk < MaxBatch PROVE Len(running) + 1 <= chunk
  <2>1. ASSUME NEW i \in DOMAIN running PROVE i \in ToSet(chosen)
    <3>1. running[i] \in ToSet(running) /\ running[i] \in Request
      BY ResidentsOnce
    <3>2. seq[running[i]].finish = "none"
      BY <1>1, <3>1 DEF Inv, Sequences
    <3>3. seq[running[i]].prompt_left = 0
      BY <1>1, <3>1, <3>2, PartialMeans DEF Inv, Queues
    <3>4. Settled(running[i])
      BY <1>1, <3>1, AllSettled DEF Passing
    <3>5. i \in Decoders
      BY <3>3, <3>4 DEF Settled, Slicing, Decoding, Decoders
    <3>6. ~ (Len(chosen) >= AtMost(MaxBatch, chunk))
      BY <1>3, <1>4, SeatNumbers DEF AtMost
    <3>7. Picked(i)
      BY <1>1, <3>5, <3>6 DEF Serving
    <3> QED BY <3>7, ToSetMeans, SeatNumbers DEF Picked
  <2>2. IsFiniteSet(ToSet(chosen)) /\ Cardinality(ToSet(chosen)) = Len(chosen)
    BY <1>2, PickedCount, SeatNumbers
  <2>3. DOMAIN running = 1..Len(running) /\ Len(running) \in Nat
    BY ResidentsOnce
  <2>4. 1..Len(running) \in SUBSET ToSet(chosen)
    BY <2>1, <2>3
  <2>5. Cardinality(1..Len(running)) <= Len(chosen)
    BY <2>2, <2>4, FS_Subset
  <2>6. Len(running) <= Len(chosen)
    BY <2>3, <2>5, CountTo
  <2> QED BY <1>3, <2>6, SeatNumbers
<1>5. chunk > 0 /\ chunk < MaxBatch => Seats' <= chunk
  BY <1>1, <1>4 DEF Seats
<1> QED BY <1>1, <1>5 DEF Seated, PassWithinChunk

\* The prompt that joins takes the seat it was counted for.
LEMMA JoinSeats ==
  ASSUME Inv, Inv', Seated, chunk' = chunk, Join
  PROVE  Seated'
<1>1. pc = "joining" /\ pc' = "slice" /\ running' = Append(running, joining)
  BY DEF Join
<1>2. running \in Seq(Request) /\ joining \in Request
  BY <1>1 DEF Inv, Typed, Queues
<1>3. Len(running') = Len(running) + 1
  BY <1>1, <1>2
<1>4. Seats' <= Seats
  BY <1>1, <1>3, SeatNumbers DEF Seats
<1> QED BY <1>1, <1>4, SeatsStay

\* A row that was chosen carries one token.
LEMMA DecodeLoads ==
  ASSUME Inv, pc \in {"slice", "decode"}, NEW k \in DOMAIN chosen
  PROVE  Len(DecodeRows[k].tokens) = 1
<1>1. DecodeRows[k] = DecodeRow(chosen[k])
  BY DecodeRowsHold
<1>2. DecodeRows[k].tokens = seq[running[chosen[k]]].pending
  BY <1>1 DEF DecodeRow
<1>3. Len(seq[running[chosen[k]]].pending) = 1
  BY DEF Inv, ChosenHold
<1> QED BY <1>2, <1>3

\* A slice takes no more than the chunk has left beside the decodes.
LEMMA TakeFits ==
  ASSUME Inv, pc = "slice", Partial # 0, NEW r \in Request, r = running[Partial],
         NEW take \in Nat, take = AtMost(Want, Capacity(table[r]) - table[r].tokens)
  PROVE  take <= chunk - Len(chosen)
<1>1. /\ seq[r].prompt_left \in Nat
      /\ table[r].tokens \in Nat /\ Capacity(table[r]) \in Nat
  BY Numbers DEF Inv
<1>2. PICK room \in Int : room = chunk - Len(chosen) /\ room = Room
  BY SeatNumbers DEF Room
<1>3. PICK left \in Nat : left = seq[r].prompt_left /\ Want = AtMost(room, left)
  BY <1>1, <1>2 DEF Want
<1>4. PICK spare \in Int : spare = Capacity(table[r]) - table[r].tokens
  BY <1>1
<1>5. take = AtMost(AtMost(room, left), spare)
  BY <1>3, <1>4
<1>6. take <= room
  BY <1>5 DEF AtMost
<1> QED BY <1>2, <1>6

\* A decode carries a token for every row chosen: as many as the batch allows,
\* and no more than there are residents.
LEMMA PlanDecodeSeats ==
  ASSUME Inv, Inv', Seated, chunk' = chunk, PlanDecode
  PROVE  Seated'
<1>1. /\ pc = "decode" /\ running' = running /\ plan' = DecodeRows
      /\ pc' = IF chosen = <<>> THEN "parked" ELSE "planned"
  BY DEF PlanDecode
<1>2. Seats' <= Seats
  BY <1>1, SeatNumbers DEF Seats
<1>3. CASE chosen = <<>>
  BY <1>1, <1>2, <1>3, SeatsStay
<1>4. CASE chosen # <<>>
  <2>1. PICK n \in Nat : n = Len(chosen) /\ DOMAIN chosen = 1..n
    BY SeatNumbers
  <2>2. n > 0
    BY <1>4, <2>1, SeatNumbers, EmptySeq
  <2>3. Len(chosen) <= Len(running)
    <3>1. IsInjective(chosen) /\ \A k \in DOMAIN chosen : chosen[k] \in 1..Len(running)
      BY <1>1, ResidentsOnce DEF Inv, ChosenHold
    <3>2. ToSet(chosen) \in SUBSET (1..Len(running))
      BY <2>1, <3>1, ToSetMeans, SeatNumbers
    <3>3. Cardinality(ToSet(chosen)) = Len(chosen)
      BY <3>1, PickedCount, SeatNumbers
    <3>4. IsFiniteSet(1..Len(running)) /\ Cardinality(1..Len(running)) = Len(running)
      BY CountTo, SeatNumbers
    <3> QED BY <3>2, <3>3, <3>4, FS_Subset
  <2>4. DecodeRows \in Seq(Row) /\ DOMAIN DecodeRows = 1..n
    BY <1>1, <2>1, DecodeRowsHold
  <2>5. Len(DecodeRows) = n
    BY <2>1, <2>4
  <2>6. \A k \in 1..n : Len(DecodeRows[k].tokens) = 1
    BY <1>1, <2>1, DecodeLoads
  <2>7. Load(DecodeRows) = (n - 1) + 1
    <3>1. PICK p \in Seq(Row) : p = DecodeRows
      BY <2>4
    <3>2. /\ 1 = Len(p[n].tokens) /\ n = Len(p) /\ 1 \in Nat
          /\ \A k \in 1..(n - 1) : Len(p[k].tokens) = 1
      BY <2>2, <2>5, <2>6, <3>1
    <3>3. Load(p) = (n - 1) + 1
      BY <2>2, <3>2, LoadOfPlan
    <3> QED BY <3>1, <3>3
  <2>8. chunk > 0 => Load(DecodeRows) <= chunk
    BY <1>1, <2>1, <2>3, <2>7, SeatNumbers DEF Seated, Seats
  <2>9. PassWithinChunk'
    BY <1>1, <2>8 DEF PassWithinChunk
  <2>10. pc' = "planned"
    BY <1>1, <1>4
  <2>11. chunk > 0 /\ chunk < MaxBatch => Seats' <= chunk
    BY <1>2, SeatNumbers DEF Seated, Seats, Inv, Typed
  <2> QED BY <2>9, <2>10, <2>11 DEF Seated
<1> QED BY <1>3, <1>4

\* A mixed pass carries its decodes, and a slice of what the chunk has left.
LEMMA PlanMixedSeats ==
  ASSUME Inv, Inv', Seated, chunk' = chunk, PlanMixed
  PROVE  Seated'
<1>0. PICK r : r = running[Partial]
  OBVIOUS
<1>a. PICK take : take = AtMost(Want, Capacity(table[r]) - table[r].tokens)
  OBVIOUS
<1>1. /\ pc = "slice" /\ Partial # 0 /\ running' = running
      /\ IF take = 0
         THEN ToDecode
         ELSE /\ \E at, p : plan' = Append(DecodeRows, [id |-> r, pos |-> at,
                    tokens |-> SubSeq(seq[r].history, at + 1, at + take), predicts |-> p])
                    /\ at = Len(seq[r].history) - seq[r].prompt_left
              /\ pc' = "planned"
  BY <1>0, <1>a DEF PlanMixed
<1>2. pc' # "joining"
  BY <1>1 DEF ToDecode
<1>3. Seats' <= Seats
  BY <1>1, <1>2, SeatGivenBack, SeatNumbers
<1>4. CASE take = 0
  <2>1. pc' = "decode" /\ chosen' = <<>>
    BY <1>1, <1>4 DEF ToDecode
  <2>2. Len(chosen') = 0
    BY <2>1
  <2> QED BY <1>3, <2>1, <2>2, SeatNumbers, SeatsStay
<1>5. CASE take # 0
  <2>1. PICK at, p :
          /\ plan' = Append(DecodeRows, [id |-> r, pos |-> at,
                tokens |-> SubSeq(seq[r].history, at + 1, at + take), predicts |-> p])
          /\ at = Len(seq[r].history) - seq[r].prompt_left
    BY <1>1, <1>5
  <2>2. r \in Request
    BY <1>0, <1>1, PartialMeans DEF Inv, Queues
  <2>3. /\ take \in Nat /\ take > 0 /\ at \in Nat
        /\ seq[r].history \in Seq(Token) /\ at + take <= Len(seq[r].history)
    <3>1. /\ take \in Nat /\ take > 0 /\ table[r].tokens \in Nat
          /\ seq[r].history \in Seq(Token) /\ Len(seq[r].history) \in Nat
          /\ seq[r].prompt_left \in Nat
          /\ table[r].tokens + seq[r].prompt_left = Len(seq[r].history)
          /\ table[r].tokens + take <= Len(seq[r].history)
      BY <1>0, <1>a, <1>1, <1>5, <2>2, SliceMeans
    <3>2. at = table[r].tokens
      <4>1. PICK held \in Nat, left \in Nat, len \in Nat :
              held = table[r].tokens /\ left = seq[r].prompt_left /\ len = Len(seq[r].history)
        BY <3>1
      <4>2. at = len - left /\ held + left = len
        BY <2>1, <3>1, <4>1
      <4> QED BY <4>1, <4>2
    <3> QED BY <3>1, <3>2
  <2>4. take <= chunk - Len(chosen)
    BY <1>0, <1>a, <1>1, <2>2, <2>3, TakeFits
  <2>5. PICK n \in Nat : n = Len(chosen) /\ DOMAIN chosen = 1..n
    BY SeatNumbers
  <2>6. PICK w : /\ plan' = Append(DecodeRows, w)
                 /\ w.tokens = SubSeq(seq[r].history, at + 1, at + take)
    BY <2>1
  <2>7. Len(w.tokens) = take
    BY <2>3, <2>6, TokensFrom
  <2>8. DecodeRows \in Seq(Row) /\ DOMAIN DecodeRows = 1..n
    BY <1>1, <2>5, DecodeRowsHold
  <2>9. Len(DecodeRows) = n
    BY <2>5, <2>8
  <2>10. /\ Len(plan') = n + 1 /\ plan'[n + 1] = w
         /\ \A k \in 1..n : plan'[k] = DecodeRows[k]
    BY <2>6, <2>8, <2>9
  <2>11. plan' \in Seq(Row)
    BY DEF Inv, Typed
  <2>12. \A k \in 1..n : Len(plan'[k].tokens) = 1
    BY <1>1, <2>5, <2>10, DecodeLoads
  <2>13. Load(plan') = n + take
    <3>1. PICK L \in Nat : L = n + 1
      BY <2>5
    <3>2. L = Len(plan') /\ L > 0 /\ take = Len(plan'[L].tokens)
          /\ \A k \in 1..(L - 1) : Len(plan'[k].tokens) = 1
      BY <2>7, <2>10, <2>12, <3>1
    <3>3. Load(plan') = (L - 1) + take
      BY <2>3, <2>11, <3>2, LoadOfPlan
    <3> QED BY <2>3, <3>1, <3>3
  <2>14. Load(plan') <= chunk
    BY <2>3, <2>4, <2>5, <2>13, SeatNumbers
  <2>15. pc' = "planned" /\ PassWithinChunk'
    BY <1>1, <1>5, <2>14 DEF PassWithinChunk
  <2>16. chunk > 0 /\ chunk < MaxBatch => Seats' <= chunk
    BY <1>3, SeatNumbers DEF Seated, Seats, Inv, Typed
  <2> QED BY <2>15, <2>16 DEF Seated
<1> QED BY <1>4, <1>5

\* A whole prompt is planned only without a chunk.
LEMMA PlanPrefillSeats ==
  ASSUME Serving, chunk' = chunk, PlanPrefill
  PROVE  Seated'
<1>1. pc = "admitting" /\ pc' = "planned" /\ chunk = 0
  BY DEF PlanPrefill, Serving
<1> QED BY <1>1 DEF Seated, PassWithinChunk

\* Nobody is seated at the start.
LEMMA SeatedInit == Init => Seated
<1> SUFFICES ASSUME Init PROVE Seated
  OBVIOUS
<1>1. running = <<>> /\ pc = "idle" /\ chunk \in Nat
  BY InvInit DEF Init, Inv, Typed
<1>2. Seats = 0
  BY <1>1 DEF Seats
<1> QED BY <1>1, <1>2 DEF Seated, PassWithinChunk

\* With a chunk that stays every step keeps the residents within it.
LEMMA SeatedNext ==
  Inv /\ Serving /\ Seated /\ [Next]_vars /\ chunk' = chunk => Seated'
<1> SUFFICES ASSUME Inv, Serving, Seated, [Next]_vars, chunk' = chunk PROVE Seated'
  OBVIOUS
<1>0. Inv'
  BY InvNext
<1>1. CASE (\E r \in Request : Cancel(r)) \/ AbortRow \/ Retire \/ Preempt
  BY <1>0, <1>1, LeavingSeats
<1>2. CASE ChooseRow \/ StartNextPrompt \/ Join \/ PlanDecode \/ PlanMixed \/ PlanPrefill
  BY <1>0, <1>2, ChooseSeats, StartSeats, JoinSeats, PlanDecodeSeats, PlanMixedSeats,
     PlanPrefillSeats
<1>3. CASE SetChunk
  BY <1>3 DEF SetChunk
<1>4. CASE \/ \E r \in Request : Submit(r)
           \/ Refuse \/ Plan \/ Admit \/ GrowPrompt \/ Pass \/ PassFails \/ AdvanceRow
           \/ EmitRow \/ EndPlanLoop \/ EndCommit \/ GrowSlice
  <2>1. running' = running /\ pc' \notin {"joining", "planned", "decode"}
    BY <1>4, Zenon DEF Submit, Refuse, Plan, Admit, GrowPrompt, Pass, PassFails, AdvanceRow,
       EmitRow, EndPlanLoop, EndCommit, GrowSlice, NextRow
  <2>2. Seats' <= Seats
    BY <1>0, <2>1, SeatGivenBack, SeatNumbers
  <2> QED BY <1>0, <2>1, <2>2, SeatsStay
<1>5. CASE PutBack \/ GiveUpMixed \/ NoPromptToStart \/ CannotAdmit \/ EndRows
  <2>1. running' = running /\ pc' \in {"slice", "decode"} /\ (pc' = "decode" => chosen' = <<>>)
    BY <1>5, Zenon DEF PutBack, GiveUpMixed, NoPromptToStart, CannotAdmit, EndRows, ToDecode
  <2>2. Seats' <= Seats
    BY <1>0, <2>1, SeatGivenBack, SeatNumbers
  <2>3. pc' = "decode" => Len(chosen') <= MaxBatch
    BY <2>1, SeatNumbers
  <2> QED BY <1>0, <2>1, <2>2, <2>3, SeatsStay
<1>6. CASE SkipRow \/ LeaveOut
  <2>1. running' = running /\ pc' = pc /\ pc \in {"rows", "decode"} /\ chosen' = chosen
    BY <1>6 DEF SkipRow, LeaveOut, InRowLoop
  <2>2. Seats' <= Seats
    BY <1>0, <2>1, SeatGivenBack, SeatNumbers
  <2> QED BY <1>0, <2>1, <2>2, SeatsStay DEF Seated
<1>7. CASE UNCHANGED vars
  BY <1>7 DEF vars, Seated, Seats, PassWithinChunk
<1> QED
  BY <1>1, <1>2, <1>3, <1>4, <1>5, <1>6, <1>7 DEF Next, Engine, Planning, Committing

\* While the chunk stays what it was set to, no pass carries more tokens than it,
\* whatever the batch size: the decode that a mixed pass gives way to is bounded by
\* the batch alone, but residents join only while the chunk has a token for each
\* (scheduler.rs mixed, start_next_prompt, decode).
THEOREM PassesFitTheChunk == Spec /\ [][UNCHANGED chunk]_vars => []PassWithinChunk
<1>1. [UNCHANGED chunk]_vars => chunk' = chunk
  BY DEF vars
<1>2. Inv /\ Serving /\ Seated /\ [Next]_vars /\ [UNCHANGED chunk]_vars => Seated'
  BY <1>1, SeatedNext
<1>3. Seated => PassWithinChunk
  BY DEF Seated
<1> QED
  BY <1>2, <1>3, SeatedInit, ServingInit, ServingNext, InvAlways, PTL DEF Spec


=============================================================================
