----------------------------- MODULE Generation -----------------------------
(***************************************************************************)
(* What a caller of the scheduler sees of its requests, and nothing else:  *)
(* an answer that grows by one token at a time up to its limit, and then   *)
(* ends once, for a reason that fits the answer.  The module Scheduler     *)
(* implements it.                                                          *)
(***************************************************************************)
EXTENDS Integers, Sequences

CONSTANTS
    Request,     \* the requests
    Token,       \* the vocabulary
    StopTokens   \* the tokens that end a generation and are not reported

VARIABLES
    answer,   \* request -> whether it was submitted, its tokens, how it ended
    limit     \* request -> the most tokens it may be given

genVars == <<answer, limit>>

Init ==
    /\ answer = [r \in Request |->
                   [submitted |-> FALSE, tokens |-> <<>>, end |-> "none"]]
    /\ limit \in [Request -> Nat]

Open(r) == answer[r].submitted /\ answer[r].end = "none"

Submit(r) ==
    /\ ~ answer[r].submitted
    /\ answer' = [answer EXCEPT ![r].submitted = TRUE]
    /\ UNCHANGED limit

\* A token of the output.
Emit(r) ==
    /\ Open(r)
    /\ Len(answer[r].tokens) < limit[r]
    /\ \E token \in Token \ StopTokens :
         answer' = [answer EXCEPT ![r].tokens = Append(@, token)]
    /\ UNCHANGED limit

\* The end: a stop token instead of one more token, the limit, the caller's
\* own cancel, or a pass that failed.
End(r) ==
    /\ Open(r)
    /\ \E reason \in {"stop", "length", "cancelled", "failed"} :
         /\ reason = "stop" => Len(answer[r].tokens) < limit[r]
         /\ reason = "length" => Len(answer[r].tokens) = limit[r]
         /\ answer' = [answer EXCEPT ![r].end = reason]
    /\ UNCHANGED limit

Next == \E r \in Request : Submit(r) \/ Emit(r) \/ End(r)

Spec == Init /\ [][Next]_genVars
=============================================================================
