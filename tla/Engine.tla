------------------------------- MODULE Engine -------------------------------
(***************************************************************************)
(* The engine thread (crates/pagedllm-server/src/engine.rs, run) between   *)
(* the HTTP handlers (routes.rs, collect and sse_stream) and the           *)
(* scheduler.                                                              *)
(*                                                                         *)
(* Handlers, clients that go away, and the engine thread run at the same   *)
(* time: between any two sends of the engine a handler may read or be      *)
(* dropped.  Planning a pass, running it and committing it touch nothing   *)
(* the handlers see, and are one step.                                     *)
(*                                                                         *)
(* The scheduler is what its callers see of it: a set of live sequences,   *)
(* of which a pass carries some, and answers as in Generation.  That it    *)
(* plans a pass whenever a sequence is live, and ends each, is checked of  *)
(* Scheduler.  A sequence's identifier is its request: both are given out  *)
(* once per submitted job.  A plan that refuses (Plan::Refuse) is not one  *)
(* of its passes: behind the budget check of routes.rs there is none.       *)
(*                                                                         *)
(* Definitions named Slip... say what a plausible slip would make of the   *)
(* definition that follows them.                                           *)
(***************************************************************************)
EXTENDS Decoder

CONSTANTS
    Request,        \* the requests, numbers
    Mode,           \* request -> whether it is answered at once or streamed
    PromptTokens,   \* request -> how long its prompt is
    Limits,         \* the values of max_tokens requests come with
    MostSlices,     \* the most passes a prompt takes before its last slice
    StopTokens,     \* the tokens that end a generation
    MaxBatch        \* decoding rows in one pass

Token == DOMAIN Bytes

ASSUME EngineAssumption ==
    /\ Request \subseteq Nat /\ IsFiniteSet(Request)
    /\ Mode \in [Request -> {"collect", "stream"}]
    /\ PromptTokens \in [Request -> Nat \ {0}]
    /\ Limits \subseteq Nat /\ MostSlices \in Nat /\ MaxBatch \in Nat \ {0}
    /\ StopTokens \subseteq Token

\* A bound of the model: the table of texts holds those of every answer, and of
\* two tokens more.
ASSUME TextsReach ==
    3 <= MostTokens /\ \A most \in Limits : most + 2 <= MostTokens

VARIABLES
    handler,   \* request -> its HTTP handler and what it has answered
    events,    \* request -> the channel its events arrive on
    inbox,     \* the channel of jobs
    closing,   \* whether the server has stopped taking requests
    engine,    \* where the engine thread is
    clients,   \* the engine's map of clients, request -> its decoder
    outcome,   \* what of the last pass the engine has yet to hand on
    live,      \* the sequences the scheduler holds
    slices,    \* request -> passes its prompt still needs before its last slice
    limit,     \* request -> its max_tokens
    answer     \* request -> the tokens reported for it, and its end

vars == <<handler, events, inbox, closing, engine, clients, outcome, live, slices,
          limit, answer>>
scheduler == <<live, slices, limit, answer>>

-----------------------------------------------------------------------------
Text(text) == [kind |-> "Text", text |-> text]
Done(r, finish, completion) ==
    [kind |-> "Done", finish |-> finish, prompt_tokens |-> PromptTokens[r],
     completion_tokens |-> completion]
Failed == [kind |-> "Failed"]

Nothing == [tokens |-> <<>>, finished |-> <<>>, failed |-> <<>>]

Init ==
    /\ handler = [r \in Request |->
                    [mode |-> Mode[r], at |-> "new", text |-> <<>>, said |-> <<>>]]
    /\ events = [r \in Request |-> <<>>]
    /\ inbox = <<>> /\ closing = FALSE
    /\ engine = "running" /\ clients = <<>> /\ outcome = Nothing
    /\ live = {}
    /\ slices \in [Request -> 0..MostSlices]
    /\ limit \in [Request -> Limits]
    /\ answer = [r \in Request |-> [tokens |-> <<>>, end |-> "none"]]

-----------------------------------------------------------------------------
(* The handlers. *)

Reading(r) == handler[r].at = "reading"

\* Engine::submit.  The engine cannot have stopped: a handler holds a handle.
Submit(r) ==
    /\ handler[r].at = "new"
    /\ ~ closing
    /\ inbox' = Append(inbox, r)
    /\ handler' = [handler EXCEPT ![r].at = "reading"]
    /\ UNCHANGED <<events, closing, engine, clients, outcome, scheduler>>

\* The client hangs up, and its handler is dropped where it stands.  What it
\* had not read stays in the model to tell what was sent.
Disconnect(r) ==
    /\ Reading(r)
    /\ handler' = [handler EXCEPT ![r].at = "gone"]
    /\ UNCHANGED <<events, inbox, closing, engine, clients, outcome, scheduler>>

Usage(event) ==
    [prompt_tokens |-> event.prompt_tokens,
     completion_tokens |-> event.completion_tokens,
     total_tokens |-> event.prompt_tokens + event.completion_tokens]

\* What a handler makes of one event: collect gathers text and answers once,
\* sse_stream turns every event into a frame.
Collected(h, event) ==
    CASE event.kind = "Text" -> [h EXCEPT !.text = @ \o event.text]
      [] event.kind = "Done" ->
           [h EXCEPT !.at = "returned",
                     !.said = <<[kind |-> "response", finish |-> event.finish,
                                 usage |-> Usage(event)]>>]
      [] OTHER -> [h EXCEPT !.at = "returned", !.said = <<[kind |-> "error"]>>]
SlipEndsAtFinish(h, event) ==
    CASE event.kind = "Text" ->
           [h EXCEPT !.text = @ \o event.text, !.said = Append(@, [kind |-> "text"])]
      [] event.kind = "Done" ->
           [h EXCEPT !.at = "returned",
                     !.said = Append(@, [kind |-> "finish", finish |-> event.finish])]
      [] OTHER -> [h EXCEPT !.at = "returned", !.said = Append(@, [kind |-> "[DONE]"])]
Streamed(h, event) ==
    CASE event.kind = "Text" ->
           [h EXCEPT !.text = @ \o event.text, !.said = Append(@, [kind |-> "text"])]
      [] event.kind = "Done" ->
           [h EXCEPT !.said = Append(@, [kind |-> "finish", finish |-> event.finish])]
      [] OTHER -> [h EXCEPT !.at = "returned", !.said = Append(@, [kind |-> "[DONE]"])]
After(h, event) ==
    IF h.mode = "collect" THEN Collected(h, event) ELSE Streamed(h, event)

Read(r) ==
    /\ Reading(r)
    /\ events[r] # <<>>
    /\ handler' = [handler EXCEPT ![r] = After(@, Head(events[r]))]
    /\ events' = [events EXCEPT ![r] = Tail(@)]
    /\ UNCHANGED <<inbox, closing, engine, clients, outcome, scheduler>>

\* The channel is closed and empty: its sender, in the job or in the map of
\* clients, was dropped.  A collect that ends here never got its answer.
ReadClosed(r) ==
    /\ Reading(r)
    /\ events[r] = <<>>
    /\ r \notin ToSet(inbox) \cup DOMAIN clients
    /\ handler' = [handler EXCEPT ![r] = After(@, [kind |-> "None"])]
    /\ UNCHANGED <<events, inbox, closing, engine, clients, outcome, scheduler>>

\* The server stops accepting and waits for the requests it has.
Shutdown ==
    /\ ~ closing
    /\ closing' = TRUE
    /\ UNCHANGED <<handler, events, inbox, engine, clients, outcome, scheduler>>

-----------------------------------------------------------------------------
(* The engine thread. *)

\* Sending fails, without an effect, once the handler dropped its receiver.
Send(r, event) ==
    events' = IF Reading(r) THEN [events EXCEPT ![r] = Append(@, event)] ELSE events

\* A job, taken without waiting or waited for: admit.
Receive ==
    /\ engine \in {"running", "parked"}
    /\ outcome = Nothing
    /\ inbox # <<>>
    /\ inbox' = Tail(inbox)
    /\ clients' = [r \in DOMAIN clients \cup {Head(inbox)} |->
                    IF r = Head(inbox) THEN NewDecoder ELSE clients[r]]
    /\ live' = live \cup {Head(inbox)}
    /\ engine' = "running"
    /\ UNCHANGED <<handler, events, closing, outcome, slices, limit, answer>>

\* Plan::Idle: the thread waits for a job.
Park ==
    /\ engine = "running"
    /\ outcome = Nothing /\ inbox = <<>> /\ live = {}
    /\ engine' = "parked"
    /\ UNCHANGED <<handler, events, inbox, closing, clients, outcome, scheduler>>

\* Every handle was dropped: the router's, and those of its connections.
SlipWaitsForClients ==
    /\ engine = "parked"
    /\ inbox = <<>>
    /\ DOMAIN clients = {}
    /\ closing /\ \A r \in Request : ~ Reading(r)
    /\ engine' = "stopped"
    /\ UNCHANGED <<handler, events, inbox, closing, clients, outcome, scheduler>>
Stop ==
    /\ engine = "parked"
    /\ inbox = <<>>
    /\ closing /\ \A r \in Request : ~ Reading(r)
    /\ engine' = "stopped"
    /\ UNCHANGED <<handler, events, inbox, closing, clients, outcome, scheduler>>

\* The sequences a pass may carry: next tokens, and a slice of one prompt.
SlipOneSliceMore == {r \in live : slices[r] >= 0}
Slicing == {r \in live : slices[r] > 0}
Passes ==
    {rows \in SUBSET live :
        /\ rows # {}
        /\ Cardinality(rows \cap Slicing) <= 1
        /\ Cardinality(rows \ Slicing) <= MaxBatch}

Planned == engine = "running" /\ outcome = Nothing /\ inbox = <<>>

FinishOf(r, token) ==
    CASE token \in StopTokens -> "stop"
      [] token \notin StopTokens /\ Len(answer[r].tokens) + 1 >= limit[r] -> "length"
      [] OTHER -> "none"

\* What is said of the sequences in S, by their numbers: the order between
\* clients makes no difference to any of them.
Place(S, r) == Cardinality({q \in S : q <= r})
Ordered(S) == [i \in 1..Cardinality(S) |-> CHOOSE r \in S : Place(S, r) = i]
InOrder(S, Op(_)) ==
    LET order == Ordered(S)
    IN  [i \in DOMAIN order |-> Op(order[i])]

\* plan, sample and commit.  A sequence is given a token unless the pass ran a
\* slice of its prompt with more to come.
Pass ==
    /\ Planned
    /\ \E rows \in Passes : LET asked == rows \ Slicing IN
       \E token \in [asked -> Token] :
         LET finish == [r \in asked |-> FinishOf(r, token[r])]
             ended == {r \in asked : finish[r] # "none"}
         IN  /\ slices' = [r \in Request |->
                             IF r \in rows \cap Slicing THEN slices[r] - 1 ELSE slices[r]]
             /\ answer' = [r \in Request |->
                  IF r \notin asked THEN answer[r]
                  ELSE [tokens |-> IF token[r] \in StopTokens THEN answer[r].tokens
                                   ELSE Append(answer[r].tokens, token[r]),
                        end |-> finish[r]]]
             /\ live' = live \ ended
             /\ outcome' =
                  [tokens |-> InOrder({r \in asked : token[r] \notin StopTokens},
                                      LAMBDA r : [id |-> r, token |-> token[r]]),
                   finished |-> InOrder(ended, LAMBDA r : [id |-> r, finish |-> finish[r]]),
                   failed |-> <<>>]
    /\ UNCHANGED <<handler, events, inbox, closing, engine, clients, limit>>

\* The pass fails: abort cancels every sequence it carried.
PassFails ==
    /\ Planned
    /\ \E rows \in Passes :
         /\ live' = live \ rows
         /\ answer' = [r \in Request |->
              IF r \in rows THEN [answer[r] EXCEPT !.end = "failed"] ELSE answer[r]]
         /\ outcome' = [Nothing EXCEPT !.failed = InOrder(rows, LAMBDA r : r)]
    /\ UNCHANGED <<handler, events, inbox, closing, engine, clients, slices, limit>>

\* Scheduler::cancel, of a sequence that may have ended already.
SlipRunsOn(r, reason) == UNCHANGED <<live, answer>>
Cancel(r, reason) ==
    /\ live' = live \ {r}
    /\ answer' = [answer EXCEPT
         ![r].end = IF r \in live \/ reason = "failed" THEN reason ELSE @]

\* One token of the outcome: decoded, and sent if it completed any text.  The
\* client's entry stays in the map when the sequence is cancelled.
EmitToken ==
    /\ outcome.tokens # <<>>
    /\ LET r == Head(outcome.tokens).id
           token == Head(outcome.tokens).token
           text == Delta(clients[r], token)
       IN  /\ clients' = [clients EXCEPT ![r] = Pushed(@, token)]
           /\ IF text = <<>> THEN UNCHANGED events ELSE Send(r, Text(text))
           /\ IF text = <<>> \/ Reading(r)
              THEN UNCHANGED <<live, answer>>
              ELSE Cancel(r, "cancelled")
    /\ outcome' = [outcome EXCEPT !.tokens = Tail(@)]
    /\ UNCHANGED <<handler, inbox, closing, engine, slices, limit>>

\* The same when the decoder fails.
DecoderFails ==
    /\ outcome.tokens # <<>>
    /\ LET r == Head(outcome.tokens).id IN
         /\ clients' = [clients EXCEPT
              ![r].tokens = Append(@, Head(outcome.tokens).token)]
         /\ Send(r, Failed)
         /\ Cancel(r, "failed")
    /\ outcome' = [outcome EXCEPT !.tokens = Tail(@)]
    /\ UNCHANGED <<handler, inbox, closing, engine, slices, limit>>

\* clients.remove, which drops the sender with the entry.
SlipEntryStays(r) == clients
WithoutClient(r) == [q \in DOMAIN clients \ {r} |-> clients[q]]

ReportFinished ==
    /\ outcome.tokens = <<>> /\ outcome.finished # <<>>
    /\ LET r == Head(outcome.finished).id IN
         /\ clients' = WithoutClient(r)
         /\ Send(r, Done(r, Head(outcome.finished).finish, Len(clients[r].tokens)))
    /\ outcome' = [outcome EXCEPT !.finished = Tail(@)]
    /\ UNCHANGED <<handler, inbox, closing, engine, scheduler>>

\* fail, for one of the sequences abort took down.
ReportFailed ==
    /\ outcome.failed # <<>>
    /\ LET r == Head(outcome.failed) IN
         /\ clients' = WithoutClient(r)
         /\ Send(r, Failed)
    /\ outcome' = [outcome EXCEPT !.failed = Tail(@)]
    /\ UNCHANGED <<handler, inbox, closing, engine, scheduler>>

EngineStep ==
    \/ Receive \/ Park \/ Stop \/ Pass \/ PassFails
    \/ EmitToken \/ DecoderFails \/ ReportFinished \/ ReportFailed

Next ==
    \/ \E r \in Request : Submit(r) \/ Disconnect(r) \/ Read(r) \/ ReadClosed(r)
    \/ Shutdown
    \/ EngineStep

\* The thread keeps going while it has something to do, and the runtime polls
\* a handler whose channel has something for it.  Nobody has to connect, to
\* stay connected or to stop the server.
Spec ==
    /\ Init /\ [][Next]_vars
    /\ WF_vars(EngineStep)
    /\ \A r \in Request : WF_vars(Read(r) \/ ReadClosed(r))

-----------------------------------------------------------------------------
(* Type invariant. *)

Finish == {"stop", "length"}
IsText(text) == text \in Seq(Byte \cup ToSet(Replacement))

\* The types of the variables.
TypeOK ==
    /\ \A r \in Request :
         /\ handler[r].mode \in {"collect", "stream"}
         /\ handler[r].at \in {"new", "reading", "gone", "returned"}
         /\ IsText(handler[r].text)
         /\ \A i \in DOMAIN events[r] :
              \/ events[r][i].kind = "Text" /\ IsText(events[r][i].text)
              \/ events[r][i].kind = "Done" /\ events[r][i].finish \in Finish
              \/ events[r][i] = Failed
         /\ answer[r].tokens \in Seq(Token \ StopTokens)
         /\ answer[r].end \in Finish \cup {"none", "cancelled", "failed"}
    /\ inbox \in Seq(Request) /\ closing \in BOOLEAN
    /\ engine \in {"running", "parked", "stopped"}
    /\ DOMAIN clients \subseteq Request
    /\ \A r \in DOMAIN clients :
         clients[r].tokens \in Seq(Token) /\ clients[r].emitted \in Nat
    /\ outcome.tokens \in Seq([id : Request, token : Token \ StopTokens])
    /\ outcome.finished \in Seq([id : Request, finish : Finish])
    /\ outcome.failed \in Seq(Request)
    /\ live \subseteq Request
    /\ slices \in [Request -> 0..MostSlices]

-----------------------------------------------------------------------------
(* Safety. *)

\* The text a client was sent, read by its handler or not.
Sent(r) ==
    handler[r].text \o
    FlattenSeq([i \in DOMAIN events[r] |->
                  IF events[r][i].kind = "Text" THEN events[r][i].text ELSE <<>>])

\* A text is all of another but for one replacement character at its end.
AllBut(text, whole) == text = whole \/ text \o Replacement = whole

\* The character that a text would be cut in, were it cut after n bytes.
Cut(text, n) == n < Len(text) /\ text[n + 1] \in {"rest", "BF", "BD"}

\* What a handler has said when it has returned on an answer, and on a failure.
Answered(r) ==
    LET said == handler[r].said
        last == Len(said)
        made == Len(answer[r].tokens)
    IN  IF handler[r].mode = "collect"
        THEN said = <<[kind |-> "response", finish |-> answer[r].end,
                       usage |-> [prompt_tokens |-> PromptTokens[r],
                                  completion_tokens |-> made,
                                  total_tokens |-> PromptTokens[r] + made]]>>
        ELSE /\ last >= 2 /\ said[last].kind = "[DONE]"
             /\ said[last - 1] = [kind |-> "finish", finish |-> answer[r].end]
             /\ \A i \in 1..(last - 2) : said[i].kind = "text"
GivenUp(r) ==
    LET said == handler[r].said
        last == Len(said)
    IN  IF handler[r].mode = "collect"
        THEN said = <<[kind |-> "error"]>>
        ELSE /\ last >= 1 /\ said[last].kind = "[DONE]"
             /\ \A i \in 1..(last - 1) : said[i].kind = "text"

\* A handler that has returned has told its client how the generation went: the
\* finish and the usage are those of the scheduler, and a stream ends with its
\* finish and [DONE], once.  One that ends without a finish is told of a
\* failure, never of a channel that closed on an answer (routes.rs collect,
\* sse_stream; engine.rs run, fail).
ResponsesTellTheEnd ==
    \A r \in Request : handler[r].at = "returned" =>
        IF answer[r].end = "failed" THEN GivenUp(r)
        ELSE answer[r].end \in Finish /\ Answered(r)

\* And its text is that of the tokens the scheduler reported for this request
\* and no other, in their order and all of them.
ResponsesTellTheAnswer ==
    /\ ResponsesTellTheEnd
    /\ \A r \in Request :
         handler[r].at = "returned" /\ answer[r].end # "failed" =>
             AllBut(handler[r].text, Decode(answer[r].tokens))

\* What was sent to a client is the beginning of its text whatever tokens
\* follow: no half character is ever sent as a replacement that later turns
\* out to be a letter, and the text is never cut in the middle of a
\* character, on which the slice of the code would panic (tokenizer.rs push).
TextIsNeverTakenBack ==
    \A r \in DOMAIN clients : \A more \in BoundedSeq(Token \ StopTokens, 2) :
        LET text == Decode(clients[r].tokens \o more) IN
        IsPrefix(Sent(r), text) /\ ~ Cut(text, clients[r].emitted)

\* While a sequence is live every text its tokens make has been accepted by
\* its client, but for one unfinished character.  So a sequence whose client
\* went away costs no pass after the first text it would have read (engine.rs
\* run, the send that fails).
NoTextIsLost ==
    \A r \in live \cap DOMAIN clients : AllBut(Sent(r), Decode(clients[r].tokens))

\* No sequence runs without a client to send to, and an entry that stays in
\* the map when its sequence has left (engine.rs:246, nothing removes it)
\* belongs to a client that is gone or was told of its failure: it can hold
\* up nobody.
ClientsMatchSequences ==
    outcome = Nothing =>
        /\ live \subseteq DOMAIN clients
        /\ \A r \in DOMAIN clients \ live :
             ~ Reading(r) \/ Failed \in ToSet(events[r])

-----------------------------------------------------------------------------
(* Liveness. *)

\* Every request is answered, or its client hangs up.
EveryHandlerReturns ==
    \A r \in Request : handler[r].at = "reading" ~> handler[r].at \in {"gone", "returned"}

\* After a shutdown the engine thread ends, also when clients hung up on
\* sequences that were still running or left entries in the map.
EngineStops == closing ~> engine = "stopped"
=============================================================================
