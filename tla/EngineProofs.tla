---------------------------- MODULE EngineProofs ----------------------------
(***************************************************************************)
(* The engine thread's map of clients and the scheduler's sequences go     *)
(* together, and every handler that returns has told its client the end    *)
(* the scheduler gave its generation, for any requests and any way they    *)
(* come, go and fail.  What it was sent is the text of the tokens the      *)
(* scheduler reported, for any vocabulary.                                 *)
(*                                                                         *)
(* Three invariants stand on each other: Inv, of the map of clients;       *)
(* Reports, of what a handler is told, in which a text is a text whatever  *)
(* it says; and Tales, of what the texts say, which rests on the decoder:  *)
(* a prefix of a text is settled once no byte that may follow changes it.  *)
(***************************************************************************)
EXTENDS Engine, FiniteSetTheorems, SequenceTheorems, WellFoundedInduction, TLAPS

-----------------------------------------------------------------------------
(* Sequences whose elements are of no type in particular.                  *)

IsSequence(s) == s \in Seq(ToSet(s))

\* Whatever is in a sequence is at a place between one and its length.
LEMMA SequenceShape ==
  ASSUME NEW s, IsSequence(s)
  PROVE  Len(s) \in Nat /\ DOMAIN s = 1..Len(s) /\ (s = <<>> <=> Len(s) = 0)
<1> QED BY DEF IsSequence

\* A sequence of a type is a sequence.
LEMMA TypedIsSequence ==
  ASSUME NEW S, NEW s \in Seq(S)
  PROVE  IsSequence(s) /\ ToSet(s) \subseteq S
<1>1. Len(s) \in Nat /\ DOMAIN s = 1..Len(s) /\ \A i \in 1..Len(s) : s[i] \in S
  OBVIOUS
<1>2. s \in [1..Len(s) -> ToSet(s)]
  BY <1>1 DEF ToSet
<1>3. s \in Seq(ToSet(s))
  BY <1>1, <1>2
<1> QED BY <1>1, <1>3 DEF IsSequence, ToSet

\* A function of places is one.
LEMMA FunctionIsSequence ==
  ASSUME NEW S, NEW n \in Nat, NEW s \in [1..n -> S]
  PROVE  s \in Seq(S)
OBVIOUS

\* What is appended is in it, with what was.
LEMMA AppendAdds ==
  ASSUME NEW s, IsSequence(s), NEW e
  PROVE  IsSequence(Append(s, e)) /\ ToSet(Append(s, e)) = ToSet(s) \cup {e}
<1>1. PICK S : S = ToSet(s) \cup {e}
  OBVIOUS
<1>2. s \in Seq(S)
  BY <1>1 DEF IsSequence
<1>3. PICK y : y = Append(s, e)
  OBVIOUS
<1>4. /\ y \in Seq(S) /\ Len(s) \in Nat /\ DOMAIN y = 1..(Len(s) + 1) /\ DOMAIN s = 1..Len(s)
      /\ \A i \in 1..Len(s) : y[i] = s[i]
      /\ y[Len(s) + 1] = e
  BY <1>1, <1>2, <1>3
<1>5. ToSet(y) = S
  <2>1. ToSet(y) \subseteq S
    BY <1>4, TypedIsSequence
  <2>2. ASSUME NEW x \in S PROVE x \in ToSet(y)
    <3>1. CASE x = e
      BY <1>4, <3>1 DEF ToSet
    <3>2. CASE x \in ToSet(s)
      <4>1. PICK i \in 1..Len(s) : x = s[i]
        BY <1>4, <3>2 DEF ToSet
      <4>2. i \in 1..(Len(s) + 1) /\ y[i] = x
        BY <1>4, <4>1
      <4> QED BY <1>4, <4>2 DEF ToSet
    <3> QED BY <1>1, <3>1, <3>2
  <2> QED BY <2>1, <2>2
<1> QED BY <1>1, <1>3, <1>4, <1>5, TypedIsSequence

\* A sequence is its head and what is behind it.
LEMMA TailTakes ==
  ASSUME NEW s, IsSequence(s), s # <<>>
  PROVE  /\ IsSequence(Tail(s)) /\ Head(s) \in ToSet(s)
         /\ ToSet(s) = {Head(s)} \cup ToSet(Tail(s))
<1>1. PICK S : S = ToSet(s) /\ s \in Seq(S)
  BY DEF IsSequence
<1>2. PICK y : y = Tail(s)
  OBVIOUS
<1>3. /\ y \in Seq(S) /\ Len(s) \in Nat /\ Len(s) > 0
      /\ DOMAIN y = 1..(Len(s) - 1) /\ DOMAIN s = 1..Len(s) /\ Head(s) = s[1]
      /\ \A i \in 1..(Len(s) - 1) : y[i] = s[i + 1]
  BY <1>1, <1>2
<1>4. Head(s) \in S
  BY <1>1, <1>3
<1>5. ToSet(y) \subseteq S
  BY <1>3, TypedIsSequence
<1>6. ASSUME NEW x \in S, x # Head(s) PROVE x \in ToSet(y)
  <2>1. PICK i \in 1..Len(s) : x = s[i]
    BY <1>1, <1>3 DEF ToSet
  <2>2. i - 1 \in 1..(Len(s) - 1) /\ y[i - 1] = x
    BY <1>3, <1>6, <2>1
  <2> QED BY <1>3, <2>2 DEF ToSet
<1>7. S = {Head(s)} \cup ToSet(y)
  BY <1>4, <1>5, <1>6
<1> QED BY <1>1, <1>2, <1>3, <1>4, <1>7, TypedIsSequence

-----------------------------------------------------------------------------
(* Everybody in order.                                                     *)

\* In a finite set of numbers each has a place of its own, and every place is
\* somebody's.
LEMMA PlaceTaken ==
  ASSUME NEW S \in SUBSET Nat, IsFiniteSet(S), NEW n \in Nat, n = Cardinality(S)
  PROVE  /\ \A r \in S : Place(S, r) \in 1..n
         /\ \A r, q \in S : Place(S, r) = Place(S, q) => r = q
         /\ \A i \in 1..n : \E r \in S : Place(S, r) = i
<1> DEFINE place == [r \in S |-> Place(S, r)]
<1>1. ASSUME NEW r \in S
      PROVE  place[r] \in 1..n /\ IsFiniteSet({u \in S : u <= r})
  <2> DEFINE U == {u \in S : u <= r}
  <2>1. U \in SUBSET S /\ r \in U
    OBVIOUS
  <2> HIDE DEF U
  <2>2. IsFiniteSet(U) /\ Cardinality(U) <= n
    BY <2>1, FS_Subset
  <2>3. Cardinality(U) \in Nat /\ Cardinality(U) # 0
    BY <2>1, <2>2, FS_CardinalityType, FS_EmptySet
  <2>4. place[r] = Cardinality(U)
    BY DEF U, Place
  <2>5. IsFiniteSet({u \in S : u <= r})
    BY <2>2 DEF U
  <2> HIDE DEF place
  <2> QED BY <2>2, <2>3, <2>4, <2>5
<1>2. ASSUME NEW r \in S, NEW q \in S, r < q PROVE place[r] # place[q]
  <2>1. PICK U, W : U = {u \in S : u <= q} /\ W = {u \in S : u <= r}
    OBVIOUS
  <2>2. W \in SUBSET U /\ q \in U /\ q \notin W
    <3>1. r \in Nat /\ q \in Nat /\ \A u \in S : u \in Nat
      OBVIOUS
    <3>2. \A u \in S : u <= r => u <= q
      BY <1>2, <3>1
    <3>3. ~ (q <= r) /\ q <= q
      BY <1>2, <3>1
    <3> QED BY <2>1, <3>2, <3>3, Zenon
  <2>3. IsFiniteSet(U)
    BY <1>1, <2>1
  <2>4. Cardinality(U) # Cardinality(W)
    BY <2>2, <2>3, FS_Subset
  <2> QED BY <2>1, <2>4 DEF Place
<1>3. place \in [S -> 1..n]
  BY <1>1
<1>4. \A r, q \in S : place[r] = place[q] => r = q
  <2>1. \A r, q \in S : r < q \/ r = q \/ q < r
    OBVIOUS
  <2> HIDE DEF place
  <2> QED BY <1>2, <2>1
<1>5. IsFiniteSet(1..n) /\ Cardinality(1..n) = n
  <2>1. IsFiniteSet(1..n) /\ Cardinality(1..n) = IF 1 > n THEN 0 ELSE n - 1 + 1
    <3>1. 1 \in Int /\ n \in Int
      OBVIOUS
    <3> QED BY <3>1, FS_Interval, Zenon
  <2> QED BY <2>1
<1>6. place \in Injection(S, 1..n)
  <2> HIDE DEF place
  <2> QED BY <1>3, <1>4 DEF Injection, IsInjective
<1>7. \A i \in 1..n : \E r \in S : place[r] = i
  <2> HIDE DEF place
  <2>1. place \in Surjection(S, 1..n)
    BY <1>5, <1>6, FS_Injection
  <2> QED BY <2>1 DEF Surjection
<1>8. \A r \in S : place[r] = Place(S, r)
  OBVIOUS
<1> HIDE DEF place
<1> QED BY <1>1, <1>4, <1>7, <1>8

\* The order of a set of requests is a sequence of just them, each once.
LEMMA OrderedAll ==
  ASSUME NEW S \in SUBSET Request
  PROVE  /\ Ordered(S) \in Seq(Request) /\ ToSet(Ordered(S)) = S
         /\ \A i, j \in DOMAIN Ordered(S) : Ordered(S)[i] = Ordered(S)[j] => i = j
         /\ Cardinality(S) \in Nat /\ DOMAIN Ordered(S) = 1..Cardinality(S)
<1>1. S \in SUBSET Nat /\ IsFiniteSet(S)
  BY EngineAssumption, FS_Subset
<1>2. PICK n \in Nat : n = Cardinality(S)
  BY <1>1, FS_CardinalityType
<1>3. /\ \A r \in S : Place(S, r) \in 1..n
      /\ \A r, q \in S : Place(S, r) = Place(S, q) => r = q
      /\ \A i \in 1..n : \E r \in S : Place(S, r) = i
  BY <1>1, <1>2, PlaceTaken
<1>4. PICK y : y = [i \in 1..n |-> CHOOSE r \in S : Place(S, r) = i]
  OBVIOUS
<1>5. \A i \in 1..n : y[i] \in S /\ Place(S, y[i]) = i
  BY <1>3, <1>4
<1>6. DOMAIN y = 1..n /\ y \in [1..n -> Request]
  BY <1>4, <1>5
<1>7. ASSUME NEW r \in S PROVE \E i \in 1..n : y[i] = r
  BY <1>3, <1>5
<1>8. y \in Seq(Request)
  BY <1>6
<1>9. ToSet(y) = S
  BY <1>5, <1>6, <1>7 DEF ToSet
<1>10. y = Ordered(S)
  BY <1>2, <1>4 DEF Ordered
<1> QED BY <1>2, <1>5, <1>6, <1>8, <1>9, <1>10

-----------------------------------------------------------------------------
(* The invariant.                                                          *)

Ended == {e.id : e \in ToSet(outcome.finished)}
Refused == ToSet(outcome.failed)

Shapes ==
    /\ DOMAIN handler = Request /\ DOMAIN events = Request
    /\ \A r \in Request :
         /\ DOMAIN handler[r] = {"mode", "at", "text", "said"}
         /\ handler[r].mode \in {"collect", "stream"}
         /\ IsSequence(events[r])
    /\ inbox \in Seq(Request)
    /\ DOMAIN clients \subseteq Request /\ live \subseteq Request
    /\ DOMAIN outcome = {"tokens", "finished", "failed"}
    /\ IsSequence(outcome.tokens) /\ IsSequence(outcome.finished)
    /\ IsSequence(outcome.failed)

\* A request that has not come is nowhere in the engine.
Outside ==
    \A r \in Request :
        handler[r].at = "new" => r \notin DOMAIN clients \cup ToSet(inbox)

\* Who is to be told of its end has left the scheduler.
Departed == (Ended \cup Refused) \cap live = {}

\* Whose sequence has left knows it, is about to be told, or is gone.
Dismissed ==
    \A r \in DOMAIN clients \ live :
        ~ Reading(r) \/ Failed \in ToSet(events[r]) \/ r \in Ended \cup Refused

Inv ==
    /\ Shapes /\ Outside /\ Departed /\ Dismissed
    /\ live \subseteq DOMAIN clients

\* Between two passes nobody is left to be told.
LEMMA InvMatches == Inv => ClientsMatchSequences
<1> SUFFICES ASSUME Inv, outcome = Nothing PROVE
                /\ live \subseteq DOMAIN clients
                /\ \A r \in DOMAIN clients \ live :
                     ~ Reading(r) \/ Failed \in ToSet(events[r])
  BY DEF ClientsMatchSequences
<1>1. outcome.finished = <<>> /\ outcome.failed = <<>>
  BY DEF Nothing
<1>2. ToSet(<<>>) = {}
  BY DEF ToSet
<1>3. Ended \cup Refused = {}
  BY <1>1, <1>2 DEF Ended, Refused
<1> QED BY <1>3 DEF Inv, Dismissed

\* Nobody is there at the start.
LEMMA InvInit == Init => Inv
<1> SUFFICES ASSUME Init PROVE Inv
  OBVIOUS
<1>1. /\ handler = [r \in Request |->
                     [mode |-> Mode[r], at |-> "new", text |-> <<>>, said |-> <<>>]]
      /\ events = [r \in Request |-> <<>>] /\ inbox = <<>> /\ clients = <<>> /\ live = {}
      /\ outcome = [tokens |-> <<>>, finished |-> <<>>, failed |-> <<>>]
  BY DEF Init, Nothing
<1>2. ToSet(<<>>) = {} /\ DOMAIN <<>> = {} /\ IsSequence(<<>>)
  BY EmptySeq DEF ToSet, IsSequence
<1>3. Shapes
  <2>1. ASSUME NEW r \in Request
        PROVE  /\ DOMAIN handler[r] = {"mode", "at", "text", "said"}
               /\ handler[r].mode \in {"collect", "stream"}
               /\ IsSequence(events[r])
    BY <1>1, <1>2, EngineAssumption
  <2>2. inbox \in Seq(Request)
    BY <1>1, EmptySeq
  <2>3. DOMAIN handler = Request /\ DOMAIN events = Request
    BY <1>1
  <2>4. DOMAIN clients = {}
    BY <1>1, <1>2
  <2>5. DOMAIN outcome = {"tokens", "finished", "failed"}
    BY <1>1
  <2>6. outcome.tokens = <<>> /\ outcome.finished = <<>> /\ outcome.failed = <<>>
    BY <1>1
  <2> QED BY <1>1, <1>2, <2>1, <2>2, <2>3, <2>4, <2>5, <2>6 DEF Shapes
<1>4. Outside /\ Departed /\ Dismissed /\ live \subseteq DOMAIN clients
  BY <1>1, <1>2 DEF Outside, Departed, Dismissed
<1> QED BY <1>3, <1>4 DEF Inv

-----------------------------------------------------------------------------
(* The handlers.                                                           *)

\* A job is sent by a request that was nowhere yet.
LEMMA SubmitInv ==
  ASSUME Inv, NEW q \in Request, Submit(q)
  PROVE  Inv'
<1>1. /\ handler[q].at = "new" /\ inbox' = Append(inbox, q)
      /\ handler' = [handler EXCEPT ![q].at = "reading"]
      /\ UNCHANGED <<events, clients, outcome, live>>
  BY DEF Submit, scheduler
<1>2. /\ IsSequence(inbox) /\ ToSet(Append(inbox, q)) = ToSet(inbox) \cup {q}
      /\ Append(inbox, q) \in Seq(Request)
  BY TypedIsSequence, AppendAdds DEF Inv, Shapes
<1>3. PICK h : h = [handler[q] EXCEPT !.at = "reading"] /\ handler' = [handler EXCEPT ![q] = h]
  BY <1>1
<1>4. /\ DOMAIN h = {"mode", "at", "text", "said"} /\ h.mode = handler[q].mode
      /\ h.at = "reading"
  BY <1>3 DEF Inv, Shapes
<1>5. /\ DOMAIN handler' = Request
      /\ \A r \in Request : handler'[r] = IF r = q THEN h ELSE handler[r]
  BY <1>3 DEF Inv, Shapes
<1>6. Shapes'
  BY <1>1, <1>2, <1>4, <1>5 DEF Inv, Shapes
<1>7. Outside'
  BY <1>1, <1>2, <1>4, <1>5 DEF Inv, Outside
<1>8. Departed' /\ (live \subseteq DOMAIN clients)'
  BY <1>1 DEF Inv, Departed, Ended, Refused
<1>9. Dismissed'
  <2>1. q \notin DOMAIN clients
    BY <1>1 DEF Inv, Outside
  <2> QED BY <1>1, <1>5, <2>1 DEF Inv, Shapes, Dismissed, Ended, Refused, Reading
<1> QED BY <1>6, <1>7, <1>8, <1>9 DEF Inv

\* What a handler that stops reading leaves of the invariant.
LEMMA HandlerInv ==
  ASSUME Inv, NEW q \in Request, NEW h, Reading(q),
         handler' = [handler EXCEPT ![q] = h],
         DOMAIN h = {"mode", "at", "text", "said"}, h.mode = handler[q].mode, h.at # "new",
         DOMAIN events' = Request,
         \A r \in Request : r # q => events'[r] = events[r],
         IsSequence(events'[q]),
         h.at = "reading" /\ Failed \in ToSet(events[q]) => Failed \in ToSet(events'[q]),
         UNCHANGED <<inbox, clients, outcome, live>>
  PROVE  Inv'
<1>1. /\ DOMAIN handler' = Request
      /\ \A r \in Request : handler'[r] = IF r = q THEN h ELSE handler[r]
  BY DEF Inv, Shapes
<1>2. Shapes'
  <2>1. ASSUME NEW r \in Request
        PROVE  /\ DOMAIN handler'[r] = {"mode", "at", "text", "said"}
               /\ handler'[r].mode \in {"collect", "stream"}
               /\ IsSequence(events'[r])
    BY <1>1 DEF Inv, Shapes
  <2> QED BY <1>1, <2>1 DEF Inv, Shapes
<1>3. Outside'
  BY <1>1 DEF Inv, Outside
<1>4. Departed' /\ (live \subseteq DOMAIN clients)'
  BY DEF Inv, Departed, Ended, Refused
<1>5. Dismissed'
  <2>1. ASSUME NEW r \in DOMAIN clients \ live
        PROVE  ~ Reading(r)' \/ Failed \in ToSet(events'[r]) \/ r \in (Ended \cup Refused)'
    <3>1. r \in Request /\ (Ended \cup Refused)' = Ended \cup Refused
      BY DEF Inv, Shapes, Ended, Refused
    <3>2. ~ Reading(r) \/ Failed \in ToSet(events[r]) \/ r \in Ended \cup Refused
      BY DEF Inv, Dismissed
    <3> QED BY <1>1, <3>1, <3>2 DEF Reading
  <2> QED BY <2>1 DEF Dismissed
<1> QED BY <1>2, <1>3, <1>4, <1>5 DEF Inv

\* A client that hangs up.
LEMMA DisconnectInv ==
  ASSUME Inv, NEW q \in Request, Disconnect(q)
  PROVE  Inv'
<1>1. /\ Reading(q) /\ handler' = [handler EXCEPT ![q].at = "gone"]
      /\ UNCHANGED <<events, inbox, clients, outcome, live>>
  BY DEF Disconnect, scheduler
<1>2. PICK h : h = [handler[q] EXCEPT !.at = "gone"] /\ handler' = [handler EXCEPT ![q] = h]
  BY <1>1
<1>3. /\ DOMAIN h = {"mode", "at", "text", "said"} /\ h.mode = handler[q].mode
      /\ h.at = "gone"
  BY <1>2 DEF Inv, Shapes
<1>4. DOMAIN events' = Request /\ IsSequence(events'[q])
  BY <1>1 DEF Inv, Shapes
<1> QED BY <1>1, <1>2, <1>3, <1>4, HandlerInv

\* What a handler makes of an event leaves it what it is; a failure ends it.
LEMMA AfterShape ==
  ASSUME Inv, NEW q \in Request, Reading(q), NEW event
  PROVE  /\ DOMAIN After(handler[q], event) = {"mode", "at", "text", "said"}
         /\ After(handler[q], event).mode = handler[q].mode
         /\ After(handler[q], event).at \in {"reading", "returned"}
         /\ event.kind \notin {"Text", "Done"} => After(handler[q], event).at = "returned"
<1>1. /\ DOMAIN handler[q] = {"mode", "at", "text", "said"}
      /\ handler[q].mode \in {"collect", "stream"} /\ handler[q].at = "reading"
  BY DEF Inv, Shapes, Reading
<1>2. CASE handler[q].mode = "collect"
  <2>1. After(handler[q], event) = Collected(handler[q], event)
    BY <1>2 DEF After
  <2>2. CASE event.kind = "Text"
    <3>1. PICK x : Collected(handler[q], event) = [handler[q] EXCEPT !.text = x]
      BY <2>2 DEF Collected
    <3> QED BY <1>1, <2>1, <2>2, <3>1
  <2>3. CASE event.kind = "Done"
    <3>1. PICK x : Collected(handler[q], event)
                     = [handler[q] EXCEPT !.at = "returned", !.said = x]
      BY <2>3 DEF Collected
    <3> QED BY <1>1, <2>1, <2>3, <3>1
  <2>4. CASE event.kind \notin {"Text", "Done"}
    <3>1. PICK x : Collected(handler[q], event)
                     = [handler[q] EXCEPT !.at = "returned", !.said = x]
      BY <2>4 DEF Collected
    <3> QED BY <1>1, <2>1, <3>1
  <2> QED BY <2>2, <2>3, <2>4
<1>3. CASE handler[q].mode = "stream"
  <2>1. After(handler[q], event) = Streamed(handler[q], event)
    BY <1>3 DEF After
  <2>2. CASE event.kind = "Text"
    <3>1. PICK x, y : Streamed(handler[q], event) = [handler[q] EXCEPT !.text = x, !.said = y]
      BY <2>2 DEF Streamed
    <3> QED BY <1>1, <2>1, <2>2, <3>1
  <2>3. CASE event.kind = "Done"
    <3>1. PICK x : Streamed(handler[q], event) = [handler[q] EXCEPT !.said = x]
      BY <2>3 DEF Streamed
    <3> QED BY <1>1, <2>1, <2>3, <3>1
  <2>4. CASE event.kind \notin {"Text", "Done"}
    <3>1. PICK x : Streamed(handler[q], event)
                     = [handler[q] EXCEPT !.at = "returned", !.said = x]
      BY <2>4 DEF Streamed
    <3> QED BY <1>1, <2>1, <3>1
  <2> QED BY <2>2, <2>3, <2>4
<1> QED BY <1>1, <1>2, <1>3

\* An event is read, or the closed channel is.
LEMMA ReadInv ==
  ASSUME Inv, NEW q \in Request, Read(q) \/ ReadClosed(q)
  PROVE  Inv'
<1>1. Reading(q) /\ DOMAIN events = Request /\ IsSequence(events[q])
  BY DEF Inv, Shapes, Read, ReadClosed
<1>2. CASE Read(q)
  <2>1. PICK h : h = After(handler[q], Head(events[q]))
    OBVIOUS
  <2>2. /\ handler' = [handler EXCEPT ![q] = h] /\ events[q] # <<>>
        /\ events' = [events EXCEPT ![q] = Tail(@)]
        /\ UNCHANGED <<inbox, clients, outcome, live>>
    BY <1>2, <2>1 DEF Read, scheduler
  <2>3. /\ DOMAIN h = {"mode", "at", "text", "said"} /\ h.mode = handler[q].mode
        /\ h.at \in {"reading", "returned"}
        /\ Head(events[q]).kind \notin {"Text", "Done"} => h.at = "returned"
    BY <1>1, <2>1, AfterShape
  <2>4. /\ DOMAIN events' = Request /\ events'[q] = Tail(events[q])
        /\ \A r \in Request : r # q => events'[r] = events[r]
    BY <1>1, <2>2
  <2>5. /\ IsSequence(Tail(events[q]))
        /\ ToSet(events[q]) = {Head(events[q])} \cup ToSet(Tail(events[q]))
    BY <1>1, <2>2, TailTakes
  <2>6. h.at = "reading" => Failed # Head(events[q])
    BY <2>3 DEF Failed
  <2>7. h.at # "new"
    BY <2>3
  <2> QED BY <1>1, <2>2, <2>3, <2>4, <2>5, <2>6, <2>7, HandlerInv
<1>3. CASE ReadClosed(q)
  <2>1. PICK h : h = After(handler[q], [kind |-> "None"])
    OBVIOUS
  <2>2. handler' = [handler EXCEPT ![q] = h] /\ UNCHANGED <<events, inbox, clients, outcome, live>>
    BY <1>3, <2>1 DEF ReadClosed, scheduler
  <2>3. /\ DOMAIN h = {"mode", "at", "text", "said"} /\ h.mode = handler[q].mode
        /\ h.at = "returned"
    BY <1>1, <2>1, AfterShape
  <2> QED BY <1>1, <2>2, <2>3, HandlerInv
<1> QED BY <1>2, <1>3

-----------------------------------------------------------------------------
(* The engine thread.                                                      *)

\* Sending puts an event behind those of a client that reads, and nowhere else.
LEMMA SendAdds ==
  ASSUME Inv, NEW q, NEW event, Send(q, event)
  PROVE  /\ DOMAIN events' = Request
         /\ \A r \in Request : IsSequence(events'[r])
         /\ \A r \in Request : ToSet(events[r]) \subseteq ToSet(events'[r])
         /\ q \in Request /\ Reading(q) => event \in ToSet(events'[q])
<1>1. DOMAIN events = Request /\ \A r \in Request : IsSequence(events[r])
  BY DEF Inv, Shapes
<1>2. CASE Reading(q) /\ q \in Request
  <2>1. events' = [events EXCEPT ![q] = Append(@, event)]
    BY <1>2 DEF Send
  <2>2. /\ DOMAIN events' = Request /\ events'[q] = Append(events[q], event)
        /\ \A r \in Request : r # q => events'[r] = events[r]
    BY <1>1, <1>2, <2>1
  <2>3. /\ IsSequence(Append(events[q], event))
        /\ ToSet(Append(events[q], event)) = ToSet(events[q]) \cup {event}
    BY <1>1, <1>2, AppendAdds
  <2> QED BY <1>1, <2>2, <2>3
<1>3. CASE ~ (Reading(q) /\ q \in Request)
  <2>1. /\ DOMAIN events' = Request
        /\ \A r \in Request : events'[r] = events[r]
    <3>1. CASE Reading(q)
      <4>1. events' = [events EXCEPT ![q] = Append(@, event)] /\ q \notin Request
        BY <1>3, <3>1 DEF Send
      <4> QED BY <1>1, <4>1
    <3>2. CASE ~ Reading(q)
      BY <1>1, <3>2 DEF Send
    <3> QED BY <3>1, <3>2
  <2> QED BY <1>1, <1>3, <2>1
<1> QED BY <1>2, <1>3

\* A job becomes a client and a sequence.
LEMMA ReceiveInv ==
  ASSUME Inv, Receive
  PROVE  Inv'
<1>1. PICK q : q = Head(inbox)
  OBVIOUS
<1>2. /\ inbox # <<>> /\ inbox' = Tail(inbox)
      /\ clients' = [r \in DOMAIN clients \cup {q} |->
                       IF r = q THEN NewDecoder ELSE clients[r]]
      /\ live' = live \cup {q} /\ outcome = Nothing
      /\ UNCHANGED <<handler, events, outcome>>
  BY <1>1 DEF Receive
<1>3. /\ q \in Request /\ q \in ToSet(inbox) /\ Tail(inbox) \in Seq(Request)
      /\ ToSet(Tail(inbox)) \subseteq ToSet(inbox)
  <2>1. inbox \in Seq(Request) /\ IsSequence(inbox)
    BY TypedIsSequence DEF Inv, Shapes
  <2>2. Head(inbox) \in ToSet(inbox) /\ ToSet(inbox) = {Head(inbox)} \cup ToSet(Tail(inbox))
    BY <1>2, <2>1, TailTakes
  <2>3. q \in Request /\ Tail(inbox) \in Seq(Request)
    BY <1>1, <1>2, <2>1
  <2> QED BY <1>1, <2>2, <2>3
<1>4. DOMAIN clients' = DOMAIN clients \cup {q}
  BY <1>2
<1>5. (Ended \cup Refused)' = Ended \cup Refused /\ Ended \cup Refused = {}
  <2>1. outcome.finished = <<>> /\ outcome.failed = <<>> /\ ToSet(<<>>) = {}
    BY <1>2 DEF Nothing, ToSet
  <2> QED BY <1>2, <2>1 DEF Ended, Refused
<1>6. Shapes'
  BY <1>2, <1>3, <1>4 DEF Inv, Shapes
<1>7. Outside'
  BY <1>2, <1>3, <1>4 DEF Inv, Outside
<1>8. Departed' /\ (live \subseteq DOMAIN clients)'
  BY <1>2, <1>4, <1>5 DEF Inv, Departed
<1>9. Dismissed'
  BY <1>2, <1>4, <1>5 DEF Inv, Dismissed, Reading
<1> QED BY <1>6, <1>7, <1>8, <1>9 DEF Inv

\* Waiting, stopping and closing touch none of it.
LEMMA WaitInv ==
  ASSUME Inv, Park \/ Stop \/ Shutdown \/ UNCHANGED vars
  PROVE  Inv'
<1>1. UNCHANGED <<handler, events, inbox, clients, outcome, live>>
  BY DEF Park, Stop, Shutdown, vars, scheduler
<1>2. (Ended \cup Refused)' = Ended \cup Refused
  BY <1>1 DEF Ended, Refused
<1> QED
  BY <1>1, <1>2 DEF Inv, Shapes, Outside, Departed, Dismissed, Reading

\* A set is spoken of in an outcome: each of it by a record that names it.
LEMMA InOrderNames ==
  ASSUME NEW S \in SUBSET Request, NEW f, NEW s,
         s = [i \in DOMAIN Ordered(S) |-> [id |-> Ordered(S)[i], finish |-> f[Ordered(S)[i]]]]
  PROVE  IsSequence(s) /\ {e.id : e \in ToSet(s)} = S
<1>1. PICK y : y = Ordered(S)
  OBVIOUS
<1>2. PICK n \in Nat : n = Cardinality(S)
  BY OrderedAll
<1>3. DOMAIN y = 1..n /\ ToSet(y) = S
  BY <1>1, <1>2, OrderedAll
<1>4. s = [i \in 1..n |-> [id |-> y[i], finish |-> f[y[i]]]]
  BY <1>1, <1>3
<1>5. DOMAIN s = 1..n /\ \A i \in 1..n : s[i].id = y[i]
  <2>1. ASSUME NEW i \in 1..n PROVE s[i].id = y[i]
    <3>1. PICK x : s[i] = [id |-> y[i], finish |-> x]
      BY <1>4
    <3> QED BY <3>1
  <2> QED BY <1>4, <2>1
<1>6. IsSequence(s)
  <2>1. PICK S2 : S2 = {s[i] : i \in 1..n}
    OBVIOUS
  <2>2. s \in [1..n -> S2]
    BY <1>4, <2>1
  <2>3. s \in Seq(S2)
    BY <2>2, FunctionIsSequence
  <2> QED BY <2>3, TypedIsSequence
<1>7. {e.id : e \in ToSet(s)} = ToSet(y)
  <2>1. ASSUME NEW e \in ToSet(s) PROVE e.id \in ToSet(y)
    <3>1. PICK i \in 1..n : e = s[i]
      BY <1>5 DEF ToSet
    <3> QED BY <1>3, <1>5, <3>1 DEF ToSet
  <2>2. ASSUME NEW r \in ToSet(y) PROVE \E e \in ToSet(s) : e.id = r
    <3>1. PICK i \in 1..n : r = y[i]
      BY <1>3 DEF ToSet
    <3>2. s[i] \in ToSet(s) /\ s[i].id = r
      BY <1>5, <3>1 DEF ToSet
    <3> QED BY <3>2
  <2> QED BY <2>1, <2>2
<1> QED BY <1>3, <1>6, <1>7

\* A pass hands on the requests that end in it.
LEMMA PassInv ==
  ASSUME Inv, Pass
  PROVE  Inv'
<1> DEFINE HandsOn(rows, token) ==
             LET asked == rows \ Slicing
                 finish == [r \in asked |-> FinishOf(r, token[r])]
                 ended == {r \in asked : finish[r] # "none"}
             IN  /\ live' = live \ ended
                 /\ outcome' =
                      [tokens |-> InOrder({r \in asked : token[r] \notin StopTokens},
                                          LAMBDA r : [id |-> r, token |-> token[r]]),
                       finished |-> InOrder(ended, LAMBDA r : [id |-> r, finish |-> finish[r]]),
                       failed |-> <<>>]
<1>0. PICK rows \in Passes : \E token \in [rows \ Slicing -> Token] : HandsOn(rows, token)
  BY DEF Pass
<1>1. PICK token \in [rows \ Slicing -> Token] : HandsOn(rows, token)
  BY <1>0
<1> DEFINE asked == rows \ Slicing
           f == [r \in asked |-> FinishOf(r, token[r])]
<1>2. PICK ended : ended = {r \in asked : f[r] # "none"}
  OBVIOUS
<1>3. PICK given : given = {r \in asked : token[r] \notin StopTokens}
  OBVIOUS
<1>4. rows \subseteq live /\ live \subseteq Request
  BY DEF Passes, Inv, Shapes
<1>5. ended \in SUBSET Request /\ given \in SUBSET Request /\ ended \subseteq live
  BY <1>2, <1>3, <1>4
<1>6. /\ live' = live \ ended
      /\ outcome' =
           [tokens |-> [i \in DOMAIN Ordered(given) |->
                          [id |-> Ordered(given)[i], token |-> token[Ordered(given)[i]]]],
            finished |-> [i \in DOMAIN Ordered(ended) |->
                            [id |-> Ordered(ended)[i], finish |-> f[Ordered(ended)[i]]]],
            failed |-> <<>>]
  BY <1>1, <1>2, <1>3 DEF InOrder
<1> HIDE DEF f, asked
<1>7. PICK spoken, over :
        /\ spoken = [i \in DOMAIN Ordered(given) |->
                       [id |-> Ordered(given)[i], token |-> token[Ordered(given)[i]]]]
        /\ over = [i \in DOMAIN Ordered(ended) |->
                     [id |-> Ordered(ended)[i], finish |-> f[Ordered(ended)[i]]]]
  OBVIOUS
<1>8. outcome' = [tokens |-> spoken, finished |-> over, failed |-> <<>>]
  BY <1>6, <1>7
<1>9. IsSequence(over) /\ {e.id : e \in ToSet(over)} = ended
  BY <1>5, <1>7, InOrderNames, ZenonT(60)
<1>10. IsSequence(spoken)
  <2>1. PICK n \in Nat : n = Cardinality(given) /\ DOMAIN Ordered(given) = 1..n
    BY <1>5, OrderedAll
  <2>2. PICK S2 : S2 = {spoken[i] : i \in 1..n}
    OBVIOUS
  <2>3. spoken \in [1..n -> S2]
    BY <1>7, <2>1, <2>2
  <2> QED BY <2>3, FunctionIsSequence, TypedIsSequence
<1>11. /\ DOMAIN outcome' = {"tokens", "finished", "failed"}
       /\ outcome'.tokens = spoken /\ outcome'.finished = over /\ outcome'.failed = <<>>
  BY <1>8
<1>12. ToSet(<<>>) = {} /\ IsSequence(<<>>)
  BY EmptySeq DEF ToSet, IsSequence
<1>13. Ended' = ended /\ Refused' = {}
  BY <1>9, <1>11, <1>12 DEF Ended, Refused
<1>14. UNCHANGED <<handler, events, inbox, clients>>
  BY DEF Pass
<1>15. Shapes'
  BY <1>4, <1>6, <1>9, <1>10, <1>11, <1>12, <1>14 DEF Inv, Shapes
<1>16. Ended = {} /\ Refused = {}
  <2>1. outcome = Nothing
    BY DEF Pass, Planned
  <2> QED BY <1>12, <2>1 DEF Nothing, Ended, Refused
<1>17. Outside'
  BY <1>14 DEF Inv, Outside
<1>18. Departed' /\ (live \subseteq DOMAIN clients)'
  BY <1>6, <1>13, <1>14 DEF Inv, Departed
<1>19. Dismissed'
  <2>1. \A r \in DOMAIN clients \ live : ~ Reading(r) \/ Failed \in ToSet(events[r])
    BY <1>16 DEF Inv, Dismissed
  <2> QED BY <1>5, <1>6, <1>13, <1>14, <2>1 DEF Dismissed, Reading
<1> QED BY <1>15, <1>17, <1>18, <1>19 DEF Inv

\* A pass that fails hands on everybody it carried.
LEMMA PassFailsInv ==
  ASSUME Inv, PassFails
  PROVE  Inv'
<1>1. PICK rows \in Passes :
        /\ live' = live \ rows
        /\ outcome' = [Nothing EXCEPT !.failed = InOrder(rows, LAMBDA r : r)]
  BY DEF PassFails
<1>2. rows \subseteq live /\ live \subseteq Request
  BY DEF Passes, Inv, Shapes
<1>3. PICK over : over = [i \in DOMAIN Ordered(rows) |-> Ordered(rows)[i]]
  OBVIOUS
<1>4. outcome' = [Nothing EXCEPT !.failed = over]
  BY <1>1, <1>3 DEF InOrder
<1>5. IsSequence(over) /\ ToSet(over) = rows
  <2>1. rows \in SUBSET Request
    BY <1>2
  <2>2. /\ Ordered(rows) \in Seq(Request) /\ ToSet(Ordered(rows)) = rows
    BY <2>1, OrderedAll
  <2>3. over = Ordered(rows)
    BY <1>3 DEF Ordered
  <2> QED BY <2>2, <2>3, TypedIsSequence
<1>6. /\ DOMAIN outcome' = {"tokens", "finished", "failed"}
      /\ outcome'.tokens = <<>> /\ outcome'.finished = <<>> /\ outcome'.failed = over
  BY <1>4 DEF Nothing
<1>7. ToSet(<<>>) = {} /\ IsSequence(<<>>)
  BY EmptySeq DEF ToSet, IsSequence
<1>8. Ended' = {} /\ Refused' = rows
  BY <1>5, <1>6, <1>7 DEF Ended, Refused
<1>9. UNCHANGED <<handler, events, inbox, clients>>
  BY DEF PassFails
<1>10. Ended = {} /\ Refused = {}
  <2>1. outcome = Nothing
    BY DEF PassFails, Planned
  <2> QED BY <1>7, <2>1 DEF Nothing, Ended, Refused
<1>11. Shapes'
  BY <1>1, <1>2, <1>5, <1>6, <1>7, <1>9 DEF Inv, Shapes
<1>12. Outside'
  BY <1>9 DEF Inv, Outside
<1>13. Departed' /\ (live \subseteq DOMAIN clients)'
  BY <1>1, <1>8, <1>9 DEF Inv, Departed
<1>14. Dismissed'
  <2>1. \A r \in DOMAIN clients \ live : ~ Reading(r) \/ Failed \in ToSet(events[r])
    BY <1>10 DEF Inv, Dismissed
  <2> QED BY <1>1, <1>8, <1>9, <2>1 DEF Dismissed, Reading
<1> QED BY <1>11, <1>12, <1>13, <1>14 DEF Inv

\* A token is handed on: whose sequence is cancelled here is gone, or is told.
LEMMA TokenInv ==
  ASSUME Inv, EmitToken \/ DecoderFails
  PROVE  Inv'
<1>1. PICK q : q = Head(outcome.tokens).id
  OBVIOUS
<1>2. /\ outcome.tokens # <<>> /\ outcome' = [outcome EXCEPT !.tokens = Tail(@)]
      /\ UNCHANGED <<handler, inbox>>
  BY DEF EmitToken, DecoderFails
<1>3. DOMAIN clients' = DOMAIN clients
  <2>1. CASE EmitToken
    <3>1. PICK c : clients' = [clients EXCEPT ![q] = c]
      BY <1>1, <2>1 DEF EmitToken
    <3> QED BY <3>1
  <2>2. CASE DecoderFails
    <3>1. PICK c : clients' = [clients EXCEPT ![q] = c]
      BY <1>1, <2>2 DEF DecoderFails
    <3> QED BY <3>1
  <2> QED BY <2>1, <2>2
<1>4. /\ DOMAIN events' = Request
      /\ \A r \in Request : IsSequence(events'[r])
      /\ \A r \in Request : ToSet(events[r]) \subseteq ToSet(events'[r])
  <2>1. CASE UNCHANGED events
    BY <2>1 DEF Inv, Shapes
  <2>2. CASE \E e : Send(q, e)
    BY <2>2, SendAdds
  <2> QED BY <1>1, <2>1, <2>2 DEF EmitToken, DecoderFails
<1>5. \/ live' = live
      \/ live' = live \ {q} /\ ~ Reading(q)
      \/ live' = live \ {q} /\ (q \in Request /\ Reading(q) => Failed \in ToSet(events'[q]))
  <2>1. CASE EmitToken
    BY <1>1, <2>1 DEF EmitToken, Cancel
  <2>2. CASE DecoderFails
    <3>1. Send(q, Failed) /\ live' = live \ {q}
      BY <1>1, <2>2 DEF DecoderFails, Cancel
    <3> QED BY <3>1, SendAdds
  <2> QED BY <2>1, <2>2
<1>6. /\ DOMAIN outcome' = {"tokens", "finished", "failed"}
      /\ outcome'.tokens = Tail(outcome.tokens)
      /\ outcome'.finished = outcome.finished /\ outcome'.failed = outcome.failed
  BY <1>2 DEF Inv, Shapes
<1>7. IsSequence(outcome'.tokens)
  BY <1>2, <1>6, TailTakes DEF Inv, Shapes
<1>8. Ended' = Ended /\ Refused' = Refused
  BY <1>6 DEF Ended, Refused
<1>9. Shapes'
  BY <1>2, <1>3, <1>4, <1>5, <1>6, <1>7 DEF Inv, Shapes
<1>10. Outside'
  BY <1>2, <1>3 DEF Inv, Outside
<1>11. Departed' /\ (live \subseteq DOMAIN clients)'
  BY <1>3, <1>5, <1>8 DEF Inv, Departed
<1>12. Dismissed'
  <2>1. ASSUME NEW r \in DOMAIN clients \ live'
        PROVE  ~ Reading(r) \/ Failed \in ToSet(events'[r]) \/ r \in Ended \cup Refused
    <3>1. r \in Request
      BY DEF Inv, Shapes
    <3>2. CASE r \notin live
      <4>1. ~ Reading(r) \/ Failed \in ToSet(events[r]) \/ r \in Ended \cup Refused
        BY <3>2 DEF Inv, Dismissed
      <4> QED BY <1>4, <3>1, <4>1
    <3>3. CASE r \in live
      BY <1>5, <3>1, <3>3
    <3> QED BY <3>2, <3>3
  <2>2. \A r : Reading(r)' = Reading(r)
    BY <1>2 DEF Reading
  <2> QED BY <1>3, <1>8, <2>1, <2>2 DEF Dismissed
<1> QED BY <1>9, <1>10, <1>11, <1>12 DEF Inv

\* A client is told of the end and leaves the map.
LEMMA ReportInv ==
  ASSUME Inv, ReportFinished \/ ReportFailed
  PROVE  Inv'
<1>1. PICK q :
        /\ clients' = WithoutClient(q) /\ q \in Ended \cup Refused
        /\ \E e : Send(q, e)
        /\ UNCHANGED <<handler, inbox, live>>
        /\ DOMAIN outcome' = {"tokens", "finished", "failed"}
        /\ IsSequence(outcome'.tokens) /\ IsSequence(outcome'.finished)
        /\ IsSequence(outcome'.failed)
        /\ (Ended \cup Refused) \subseteq (Ended \cup Refused)' \cup {q}
        /\ (Ended \cup Refused)' \subseteq Ended \cup Refused
  <2>1. CASE ReportFinished
    <3>1. PICK e : e = Head(outcome.finished)
      OBVIOUS
    <3>2. /\ outcome.finished # <<>> /\ clients' = WithoutClient(e.id)
          /\ \E x : Send(e.id, x)
          /\ outcome' = [outcome EXCEPT !.finished = Tail(@)]
          /\ UNCHANGED <<handler, inbox, live>>
      BY <2>1, <3>1 DEF ReportFinished, scheduler
    <3>3. /\ DOMAIN outcome' = {"tokens", "finished", "failed"}
          /\ outcome'.finished = Tail(outcome.finished)
          /\ outcome'.tokens = outcome.tokens /\ outcome'.failed = outcome.failed
      BY <3>2 DEF Inv, Shapes
    <3>4. /\ IsSequence(Tail(outcome.finished)) /\ e \in ToSet(outcome.finished)
          /\ ToSet(outcome.finished) = {e} \cup ToSet(Tail(outcome.finished))
      BY <3>1, <3>2, TailTakes DEF Inv, Shapes
    <3>5. Refused' = Refused /\ Ended = {e.id} \cup Ended' /\ e.id \in Ended
      BY <3>3, <3>4 DEF Refused, Ended
    <3>6. IsSequence(outcome'.tokens) /\ IsSequence(outcome'.failed)
      BY <3>3 DEF Inv, Shapes
    <3> QED BY <3>2, <3>3, <3>4, <3>5, <3>6
  <2>2. CASE ReportFailed
    <3>1. PICK r : r = Head(outcome.failed)
      OBVIOUS
    <3>2. /\ outcome.failed # <<>> /\ clients' = WithoutClient(r)
          /\ \E x : Send(r, x)
          /\ outcome' = [outcome EXCEPT !.failed = Tail(@)]
          /\ UNCHANGED <<handler, inbox, live>>
      BY <2>2, <3>1 DEF ReportFailed, scheduler
    <3>3. /\ DOMAIN outcome' = {"tokens", "finished", "failed"}
          /\ outcome'.failed = Tail(outcome.failed)
          /\ outcome'.tokens = outcome.tokens /\ outcome'.finished = outcome.finished
      BY <3>2 DEF Inv, Shapes
    <3>4. /\ IsSequence(Tail(outcome.failed)) /\ r \in ToSet(outcome.failed)
          /\ ToSet(outcome.failed) = {r} \cup ToSet(Tail(outcome.failed))
      BY <3>1, <3>2, TailTakes DEF Inv, Shapes
    <3>5. Ended' = Ended /\ Refused = {r} \cup Refused' /\ r \in Refused
      BY <3>3, <3>4 DEF Refused, Ended
    <3>6. IsSequence(outcome'.tokens) /\ IsSequence(outcome'.finished)
      BY <3>3 DEF Inv, Shapes
    <3> QED BY <3>2, <3>3, <3>4, <3>5, <3>6
  <2> QED BY <2>1, <2>2
<1>2. DOMAIN clients' = DOMAIN clients \ {q}
  BY <1>1 DEF WithoutClient
<1>3. /\ DOMAIN events' = Request
      /\ \A r \in Request : IsSequence(events'[r])
      /\ \A r \in Request : ToSet(events[r]) \subseteq ToSet(events'[r])
  BY <1>1, SendAdds
<1>4. Shapes'
  BY <1>1, <1>2, <1>3 DEF Inv, Shapes
<1>5. Outside'
  BY <1>1, <1>2 DEF Inv, Outside
<1>6. Departed' /\ (live \subseteq DOMAIN clients)'
  BY <1>1, <1>2 DEF Inv, Departed
<1>7. Dismissed'
  <2>1. ASSUME NEW r \in DOMAIN clients' \ live
        PROVE  ~ Reading(r) \/ Failed \in ToSet(events'[r]) \/ r \in (Ended \cup Refused)'
    <3>1. r \in Request /\ r \in DOMAIN clients \ live /\ r # q
      BY <1>2 DEF Inv, Shapes
    <3>2. ~ Reading(r) \/ Failed \in ToSet(events[r]) \/ r \in Ended \cup Refused
      BY <3>1 DEF Inv, Dismissed
    <3> QED BY <1>1, <1>3, <3>1, <3>2
  <2>2. \A r : Reading(r)' = Reading(r)
    BY <1>1 DEF Reading
  <2> QED BY <1>1, <2>1, <2>2 DEF Dismissed
<1> QED BY <1>4, <1>5, <1>6, <1>7 DEF Inv

\* Whoever takes a step, the map and the sequences stay together.
LEMMA InvNext == Inv /\ [Next]_vars => Inv'
<1> SUFFICES ASSUME Inv, [Next]_vars PROVE Inv'
  OBVIOUS
<1>1. ASSUME NEW r \in Request, Submit(r) \/ Disconnect(r) \/ Read(r) \/ ReadClosed(r)
      PROVE  Inv'
  BY <1>1, SubmitInv, DisconnectInv, ReadInv
<1>2. CASE Park \/ Stop \/ Shutdown \/ UNCHANGED vars
  BY <1>2, WaitInv
<1>3. CASE Receive \/ Pass \/ PassFails
  BY <1>3, ReceiveInv, PassInv, PassFailsInv
<1>4. CASE EmitToken \/ DecoderFails \/ ReportFinished \/ ReportFailed
  BY <1>4, TokenInv, ReportInv
<1> QED BY <1>1, <1>2, <1>3, <1>4 DEF Next, EngineStep

\* No sequence is run without a client to send to, and whoever is in the map when
\* its sequence has left is gone or has been told of its failure: so it is for any
\* requests, prompts and batch sizes, whatever a client that goes away, a decoder
\* or a pass that fails leaves half way (engine.rs run, fail).
THEOREM NobodyIsLeftInTheMap == Spec => []ClientsMatchSequences
<1> QED BY InvInit, InvNext, InvMatches, PTL DEF Spec

-----------------------------------------------------------------------------
(* What a handler is told.                                                 *)

Jobs == ToSet(inbox)
Due == {e.id : e \in ToSet(outcome.tokens)}
FinishesIn(s, r) == {e.finish : e \in {x \in ToSet(s) : x.id = r}}
Finishes(r) == FinishesIn(outcome.finished, r)
Nowhere(r) == r \notin Jobs \cup DOMAIN clients \cup live \cup Due \cup Ended \cup Refused

\* No request is named twice.
Once(s) == \A i, j \in DOMAIN s : s[i].id = s[j].id => i = j
EachOnce ==
    /\ \A i, j \in DOMAIN inbox : inbox[i] = inbox[j] => i = j
    /\ Once(outcome.tokens) /\ Once(outcome.finished)

\* Events of a text, up to the first of another kind.
AllText(s, n) == \A i \in 1..n : s[i].kind = "Text"

\* Frames of a text, up to the first of another kind.
TextFrames(s, n) == \A i \in 1..n : s[i].kind = "text"

\* What has been said before the finish.
Opened(r) ==
    IF handler[r].mode = "collect" THEN handler[r].said = <<>>
    ELSE IsSequence(handler[r].said) /\ TextFrames(handler[r].said, Len(handler[r].said))

\* The tokens reported, but for one that is due, have gone through the decoder.
Counted(r) ==
    /\ IsSequence(clients[r].tokens)
    /\ Len(answer[r].tokens) = Len(clients[r].tokens) + (IF r \in Due THEN 1 ELSE 0)

\* The request waits in the channel, runs, or has ended and is about to be told.
Waits(r) ==
    /\ r \in Jobs /\ r \notin DOMAIN clients \cup live \cup Due \cup Ended \cup Refused
    /\ answer[r].end = "none" /\ answer[r].tokens = <<>>
Runs(r) ==
    /\ r \notin Jobs /\ r \in DOMAIN clients /\ Counted(r)
    /\ \/ answer[r].end = "none" /\ r \in live /\ r \notin Ended \cup Refused
       \/ /\ answer[r].end \in Finish /\ r \notin live \cup Refused
          /\ Finishes(r) = {answer[r].end}
       \/ answer[r].end = "failed" /\ r \notin live \cup Due \cup Ended /\ r \in Refused
Hears(r) ==
    /\ Opened(r) /\ AllText(events[r], Len(events[r]))
    /\ Waits(r) \/ Runs(r)

\* A failure is among what it has not read, behind texts only.
Fails(r) ==
    /\ Opened(r) /\ answer[r].end = "failed" /\ r \notin Jobs \cup live \cup Due
    /\ \E n \in 1..Len(events[r]) : events[r][n] = Failed /\ AllText(events[r], n - 1)

\* Its finish is the last it has not read.
Ends(r) ==
    /\ Opened(r) /\ answer[r].end \in Finish /\ Nowhere(r)
    /\ Len(events[r]) > 0 /\ AllText(events[r], Len(events[r]) - 1)
    /\ events[r][Len(events[r])] = Done(r, answer[r].end, Len(answer[r].tokens))

\* A stream has read its finish, and the channel is closed.
Closes(r) ==
    LET said == handler[r].said IN
    /\ handler[r].mode = "stream" /\ events[r] = <<>>
    /\ answer[r].end \in Finish /\ Nowhere(r)
    /\ IsSequence(said) /\ Len(said) > 0
    /\ said[Len(said)] = [kind |-> "finish", finish |-> answer[r].end]
    /\ TextFrames(said, Len(said) - 1)

\* It has returned, and nothing is said of its request any more.
Right(r) ==
    /\ r \notin Jobs \cup live \cup Due
    /\ IF answer[r].end = "failed" THEN GivenUp(r)
       ELSE answer[r].end \in Finish /\ Answered(r)

Silent(r) ==
    /\ events[r] = <<>> /\ handler[r].said = <<>> /\ Nowhere(r)
    /\ answer[r].end = "none" /\ answer[r].tokens = <<>>

Follows(r) ==
    /\ handler[r].at = "new" => Silent(r)
    /\ handler[r].at = "reading" => Hears(r) \/ Fails(r) \/ Ends(r) \/ Closes(r)
    /\ handler[r].at = "returned" => Right(r)

Reports ==
    /\ DOMAIN answer = Request
    /\ \A r \in Request :
         DOMAIN answer[r] = {"tokens", "end"} /\ IsSequence(answer[r].tokens)
    /\ EachOnce
    /\ \A r \in Request : Follows(r)

\* The reports say what is wanted of them.
LEMMA ReportsTell == Reports => ResponsesTellTheEnd
BY DEF Reports, Follows, Right, ResponsesTellTheEnd

\* Nothing has been said at the start.
LEMMA ReportsInit == Init => Reports
<1> SUFFICES ASSUME Init PROVE Reports
  OBVIOUS
<1>1. /\ handler = [r \in Request |->
                     [mode |-> Mode[r], at |-> "new", text |-> <<>>, said |-> <<>>]]
      /\ events = [r \in Request |-> <<>>] /\ inbox = <<>> /\ clients = <<>> /\ live = {}
      /\ outcome = [tokens |-> <<>>, finished |-> <<>>, failed |-> <<>>]
      /\ answer = [r \in Request |-> [tokens |-> <<>>, end |-> "none"]]
  BY DEF Init, Nothing
<1>2. ToSet(<<>>) = {} /\ DOMAIN <<>> = {} /\ IsSequence(<<>>)
  BY EmptySeq DEF ToSet, IsSequence
<1>3. outcome.tokens = <<>> /\ outcome.finished = <<>> /\ outcome.failed = <<>>
  BY <1>1
<1>4. Jobs = {} /\ Due = {} /\ Ended = {} /\ Refused = {} /\ DOMAIN clients = {}
  BY <1>1, <1>2, <1>3 DEF Jobs, Due, Ended, Refused
<1>5. EachOnce
  BY <1>1, <1>2, <1>3 DEF EachOnce, Once
<1>6. ASSUME NEW r \in Request
      PROVE  /\ handler[r].at = "new" /\ events[r] = <<>> /\ handler[r].said = <<>>
             /\ answer[r].end = "none" /\ answer[r].tokens = <<>>
             /\ DOMAIN answer[r] = {"tokens", "end"}
  BY <1>1
<1>7. ASSUME NEW r \in Request PROVE Follows(r)
  BY <1>1, <1>4, <1>6 DEF Follows, Silent, Nowhere
<1> QED BY <1>1, <1>2, <1>5, <1>6, <1>7 DEF Reports

\* One request's part stays as it was where nothing about it changes.
LEMMA Unconcerned ==
  ASSUME NEW r \in Request, Follows(r),
         handler'[r] = handler[r], events'[r] = events[r], answer'[r] = answer[r],
         r \in Jobs' <=> r \in Jobs, r \in live' <=> r \in live, r \in Due' <=> r \in Due,
         r \in Refused' <=> r \in Refused, Finishes(r)' = Finishes(r),
         r \in Ended' <=> r \in Ended,
         r \in DOMAIN clients' <=> r \in DOMAIN clients,
         r \in DOMAIN clients => clients'[r] = clients[r]
  PROVE  Follows(r)'
<1>1. Silent(r)' <=> Silent(r)
  BY DEF Silent, Nowhere
<1>2. Opened(r)' <=> Opened(r)
  BY DEF Opened
<1>3. Hears(r) => Hears(r)'
  <2>1. Waits(r) => Waits(r)'
    BY DEF Waits
  <2>2. Runs(r) => Runs(r)'
    BY DEF Runs, Counted
  <2> QED BY <1>2, <2>1, <2>2 DEF Hears
<1>4. Fails(r) => Fails(r)'
  BY <1>2 DEF Fails
<1>5. Ends(r) => Ends(r)'
  BY <1>2 DEF Ends, Nowhere
<1>6. Closes(r) => Closes(r)'
  BY DEF Closes, Nowhere
<1>7. Right(r) => Right(r)'
  BY DEF Right, GivenUp, Answered
<1> QED BY <1>1, <1>3, <1>4, <1>5, <1>6, <1>7 DEF Follows

-----------------------------------------------------------------------------
(* What a handler makes of the events, one by one.                         *)

\* Places behind the head.
LEMMA TailShifts ==
  ASSUME NEW s, IsSequence(s), s # <<>>
  PROVE  /\ Len(s) \in Nat /\ Len(s) > 0 /\ Len(Tail(s)) = Len(s) - 1 /\ Head(s) = s[1]
         /\ DOMAIN s = 1..Len(s) /\ DOMAIN Tail(s) = 1..(Len(s) - 1)
         /\ \A i \in 1..(Len(s) - 1) : Tail(s)[i] = s[i + 1]
<1>1. PICK S : S = ToSet(s) /\ s \in Seq(S)
  BY DEF IsSequence
<1> QED BY <1>1

\* Places up to the end, and the one that is appended.
LEMMA AppendShifts ==
  ASSUME NEW s, IsSequence(s), NEW e
  PROVE  /\ Len(s) \in Nat /\ Len(Append(s, e)) = Len(s) + 1
         /\ DOMAIN s = 1..Len(s) /\ DOMAIN Append(s, e) = 1..(Len(s) + 1)
         /\ \A i \in 1..Len(s) : Append(s, e)[i] = s[i]
         /\ Append(s, e)[Len(s) + 1] = e
<1>1. PICK S : S = ToSet(s) \cup {e}
  OBVIOUS
<1>2. s \in Seq(S) /\ e \in S
  BY <1>1 DEF IsSequence
<1> QED BY <1>2

\* What is said of a text.
LEMMA AfterText ==
  ASSUME Inv, NEW q \in Request, NEW event, event.kind = "Text",
         NEW h, h = After(handler[q], event)
  PROVE  /\ h.mode = handler[q].mode /\ h.at = handler[q].at
         /\ h.said = IF h.mode = "collect" THEN handler[q].said
                     ELSE Append(handler[q].said, [kind |-> "text"])
<1>1. /\ DOMAIN handler[q] = {"mode", "at", "text", "said"}
      /\ handler[q].mode \in {"collect", "stream"}
  BY DEF Inv, Shapes
<1>2. CASE handler[q].mode = "collect"
  <2>1. PICK x : h = [handler[q] EXCEPT !.text = x]
    BY <1>2 DEF After, Collected
  <2> QED BY <1>1, <1>2, <2>1
<1>3. CASE handler[q].mode = "stream"
  <2>1. PICK x, y : /\ h = [handler[q] EXCEPT !.text = x, !.said = y]
                    /\ y = Append(handler[q].said, [kind |-> "text"])
    BY <1>1, <1>3 DEF After, Streamed
  <2>2. h.at = handler[q].at /\ h.said = y /\ h.mode = "stream"
    BY <1>1, <1>3, <2>1
  <2> QED BY <1>3, <2>1, <2>2
<1> QED BY <1>1, <1>2, <1>3

\* What is said of a finish.
LEMMA AfterDone ==
  ASSUME Inv, NEW q \in Request, NEW event, event.kind = "Done",
         NEW h, h = After(handler[q], event)
  PROVE  /\ h.mode = handler[q].mode
         /\ IF h.mode = "collect"
            THEN /\ h.at = "returned"
                 /\ h.said = <<[kind |-> "response", finish |-> event.finish,
                                usage |-> Usage(event)]>>
            ELSE /\ h.at = handler[q].at
                 /\ h.said = Append(handler[q].said,
                                    [kind |-> "finish", finish |-> event.finish])
<1>1. /\ DOMAIN handler[q] = {"mode", "at", "text", "said"}
      /\ handler[q].mode \in {"collect", "stream"}
  BY DEF Inv, Shapes
<1>2. CASE handler[q].mode = "collect"
  <2>1. PICK x : /\ h = [handler[q] EXCEPT !.at = "returned", !.said = x]
                 /\ x = <<[kind |-> "response", finish |-> event.finish,
                           usage |-> Usage(event)]>>
    BY <1>2 DEF After, Collected
  <2>2. h.at = "returned" /\ h.said = x /\ h.mode = "collect"
    BY <1>1, <1>2, <2>1
  <2> QED BY <1>2, <2>1, <2>2
<1>3. CASE handler[q].mode = "stream"
  <2>1. PICK y : /\ h = [handler[q] EXCEPT !.said = y]
                 /\ y = Append(handler[q].said, [kind |-> "finish", finish |-> event.finish])
    BY <1>1, <1>3 DEF After, Streamed
  <2>2. h.at = handler[q].at /\ h.said = y /\ h.mode = "stream"
    BY <1>1, <1>3, <2>1
  <2> QED BY <1>3, <2>1, <2>2
<1> QED BY <1>1, <1>2, <1>3

\* What is said of a failure and of a closed channel.
LEMMA AfterOther ==
  ASSUME Inv, NEW q \in Request, NEW event, event.kind \notin {"Text", "Done"},
         NEW h, h = After(handler[q], event)
  PROVE  /\ h.mode = handler[q].mode /\ h.at = "returned"
         /\ h.said = IF h.mode = "collect" THEN <<[kind |-> "error"]>>
                     ELSE Append(handler[q].said, [kind |-> "[DONE]"])
<1>1. /\ DOMAIN handler[q] = {"mode", "at", "text", "said"}
      /\ handler[q].mode \in {"collect", "stream"}
  BY DEF Inv, Shapes
<1>2. CASE handler[q].mode = "collect"
  <2>1. PICK x : /\ h = [handler[q] EXCEPT !.at = "returned", !.said = x]
                 /\ x = <<[kind |-> "error"]>>
    BY <1>2 DEF After, Collected
  <2>2. h.at = "returned" /\ h.said = x /\ h.mode = "collect"
    BY <1>1, <1>2, <2>1
  <2> QED BY <1>2, <2>1, <2>2
<1>3. CASE handler[q].mode = "stream"
  <2>1. PICK y : /\ h = [handler[q] EXCEPT !.at = "returned", !.said = y]
                 /\ y = Append(handler[q].said, [kind |-> "[DONE]"])
    BY <1>1, <1>3 DEF After, Streamed
  <2>2. h.at = "returned" /\ h.said = y /\ h.mode = "stream"
    BY <1>1, <1>3, <2>1
  <2> QED BY <1>3, <2>1, <2>2
<1> QED BY <1>1, <1>2, <1>3

\* A handler's step concerns its own request only.
LEMMA HandlerReports ==
  ASSUME Reports, NEW q \in Request,
         \A r \in Request : r # q =>
           handler'[r] = handler[r] /\ events'[r] = events[r] /\ (r \in Jobs' <=> r \in Jobs),
         UNCHANGED <<clients, outcome, live, answer>>, EachOnce', Follows(q)'
  PROVE  Reports'
<1>1. Due' = Due /\ Ended' = Ended /\ Refused' = Refused /\ \A r : Finishes(r)' = Finishes(r)
  BY DEF Due, Ended, Refused, Finishes
<1>2. ASSUME NEW r \in Request, r # q PROVE Follows(r)'
  <2>1. Follows(r)
    BY DEF Reports
  <2>2. handler'[r] = handler[r] /\ events'[r] = events[r] /\ (r \in Jobs' <=> r \in Jobs)
    BY <1>2
  <2>3. Finishes(r)' = Finishes(r)
    BY <1>1
  <2> QED BY <1>1, <2>1, <2>2, <2>3, Unconcerned
<1> QED BY <1>2 DEF Reports

\* A job is sent.
LEMMA SubmitReports ==
  ASSUME Inv, Reports, NEW q \in Request, Submit(q)
  PROVE  Reports'
<1>1. /\ handler[q].at = "new" /\ inbox' = Append(inbox, q)
      /\ handler' = [handler EXCEPT ![q].at = "reading"]
      /\ UNCHANGED <<events, clients, outcome, live, answer>>
  BY DEF Submit, scheduler
<1>2. Silent(q) /\ q \notin Jobs
  BY <1>1 DEF Reports, Follows, Silent, Nowhere
<1>3. /\ IsSequence(inbox) /\ Jobs' = Jobs \cup {q}
  BY <1>1, TypedIsSequence, AppendAdds DEF Inv, Shapes, Jobs
<1>4. PICK h : h = [handler[q] EXCEPT !.at = "reading"] /\ handler' = [handler EXCEPT ![q] = h]
  BY <1>1
<1>5. h.at = "reading" /\ h.said = handler[q].said /\ handler'[q] = h
  BY <1>4 DEF Inv, Shapes
<1>6. \A r \in Request : r # q => handler'[r] = handler[r]
  BY <1>4 DEF Inv, Shapes
<1>7. EachOnce'
  <2>1. /\ Len(inbox) \in Nat /\ DOMAIN inbox = 1..Len(inbox)
        /\ DOMAIN inbox' = 1..(Len(inbox) + 1) /\ inbox'[Len(inbox) + 1] = q
        /\ \A i \in 1..Len(inbox) : inbox'[i] = inbox[i]
    BY <1>1, <1>3, AppendShifts
  <2>2. \A i \in 1..Len(inbox) : inbox[i] # q
    BY <1>2, <2>1 DEF Jobs, ToSet
  <2>3. \A i, j \in DOMAIN inbox' : inbox'[i] = inbox'[j] => i = j
    BY <2>1, <2>2 DEF Reports, EachOnce
  <2> QED BY <1>1, <2>3 DEF Reports, EachOnce, Once
<1>8. Follows(q)'
  <2>1. /\ handler'[q].said = <<>> /\ events'[q] = <<>>
    BY <1>1, <1>2, <1>5 DEF Silent
  <2>2. Len(<<>>) = 0 /\ IsSequence(<<>>)
    BY EmptySeq, TypedIsSequence
  <2>3. Opened(q)' /\ AllText(events'[q], Len(events'[q]))
    BY <2>1, <2>2 DEF Opened, AllText, TextFrames
  <2>4. Waits(q)'
    <3>1. Due' = Due /\ Ended' = Ended /\ Refused' = Refused
      BY <1>1 DEF Due, Ended, Refused
    <3> QED BY <1>1, <1>2, <1>3, <3>1 DEF Waits, Silent, Nowhere
  <2>5. Hears(q)'
    BY <2>3, <2>4 DEF Hears
  <2> QED BY <1>5, <2>5 DEF Follows
<1> QED BY <1>1, <1>3, <1>6, <1>7, <1>8, HandlerReports

\* A client hangs up, and nothing need be said of it any more.
LEMMA DisconnectReports ==
  ASSUME Inv, Reports, NEW q \in Request, Disconnect(q)
  PROVE  Reports'
<1>1. /\ handler' = [handler EXCEPT ![q].at = "gone"]
      /\ UNCHANGED <<events, inbox, clients, outcome, live, answer>>
  BY DEF Disconnect, scheduler
<1>2. handler'[q].at = "gone" /\ \A r \in Request : r # q => handler'[r] = handler[r]
  BY <1>1 DEF Inv, Shapes
<1>3. Follows(q)'
  BY <1>2 DEF Follows
<1>4. EachOnce' /\ Jobs' = Jobs
  BY <1>1 DEF Reports, EachOnce, Once, Jobs
<1> QED BY <1>1, <1>2, <1>3, <1>4, HandlerReports

\* A text more has been said.
LEMMA SaysText ==
  ASSUME Inv, NEW q \in Request, Reading(q), Opened(q), NEW event, event.kind = "Text",
         handler'[q] = After(handler[q], event)
  PROVE  handler'[q].at = "reading" /\ Opened(q)'
<1>1. PICK h : h = handler'[q] /\ h = After(handler[q], event)
  OBVIOUS
<1>2. /\ h.mode = handler[q].mode /\ h.at = "reading"
      /\ h.said = IF h.mode = "collect" THEN handler[q].said
                  ELSE Append(handler[q].said, [kind |-> "text"])
  <2>1. /\ h.mode = handler[q].mode /\ h.at = handler[q].at
        /\ h.said = IF h.mode = "collect" THEN handler[q].said
                    ELSE Append(handler[q].said, [kind |-> "text"])
    <3>1. h = After(handler[q], event)
      BY <1>1
    <3> HIDE <1>1
    <3> QED BY <3>1, AfterText
  <2> QED BY <2>1 DEF Reading
<1>3. CASE h.mode = "collect"
  BY <1>1, <1>2, <1>3 DEF Opened
<1>4. CASE h.mode # "collect"
  <2>1. PICK s : s = handler[q].said
    OBVIOUS
  <2>2. IsSequence(s) /\ \A i \in 1..Len(s) : s[i].kind = "text"
    BY <1>2, <1>4, <2>1 DEF Opened, TextFrames
  <2>3. PICK y : y = Append(s, [kind |-> "text"])
    OBVIOUS
  <2>4. /\ IsSequence(y) /\ Len(s) \in Nat /\ Len(y) = Len(s) + 1
        /\ \A i \in 1..Len(s) : y[i] = s[i]
        /\ y[Len(s) + 1] = [kind |-> "text"]
    BY <2>2, <2>3, AppendAdds, AppendShifts
  <2>5. \A i \in 1..Len(y) : y[i].kind = "text"
    <3>1. ASSUME NEW i \in 1..Len(y) PROVE y[i].kind = "text"
      <4>1. CASE i = Len(s) + 1
        BY <2>4, <4>1
      <4>2. CASE i # Len(s) + 1
        <5>1. i \in 1..Len(s)
          BY <2>4, <4>2
        <5> QED BY <2>2, <2>4, <5>1
      <4> QED BY <4>1, <4>2
    <3> QED BY <3>1
  <2>6. handler'[q].said = y /\ handler'[q].mode # "collect"
    BY <1>1, <1>2, <1>4, <2>1, <2>3
  <2> QED BY <1>1, <1>2, <2>4, <2>5, <2>6 DEF Opened, TextFrames
<1> QED BY <1>1, <1>2, <1>3, <1>4

\* One more thing said behind the texts.
LEMMA SaysLast ==
  ASSUME NEW s, IsSequence(s), TextFrames(s, Len(s)), NEW e, NEW y, y = Append(s, e)
  PROVE  /\ IsSequence(y) /\ Len(y) \in Nat /\ Len(y) > 0 /\ y[Len(y)] = e
         /\ TextFrames(y, Len(y) - 1)
<1>1. /\ IsSequence(y) /\ Len(s) \in Nat /\ Len(y) = Len(s) + 1
      /\ \A i \in 1..Len(s) : y[i] = s[i]
      /\ y[Len(s) + 1] = e
  BY AppendAdds, AppendShifts
<1>2. Len(y) - 1 = Len(s)
  BY <1>1
<1>3. TextFrames(y, Len(s))
  BY <1>1 DEF TextFrames
<1> QED BY <1>1, <1>2, <1>3

\* A failure is read, or a closed channel by one that has read no finish.
LEMMA GivesUp ==
  ASSUME Inv, NEW q \in Request, Opened(q), NEW event,
         event.kind \notin {"Text", "Done"}, handler'[q] = After(handler[q], event)
  PROVE  handler'[q].at = "returned" /\ GivenUp(q)'
<1>1. PICK h : h = handler'[q] /\ h = After(handler[q], event)
  OBVIOUS
<1>2. /\ h.mode = handler[q].mode /\ h.at = "returned"
      /\ h.said = IF h.mode = "collect" THEN <<[kind |-> "error"]>>
                  ELSE Append(handler[q].said, [kind |-> "[DONE]"])
  BY <1>1, AfterOther, Zenon
<1>3. CASE h.mode = "collect"
  BY <1>1, <1>2, <1>3 DEF GivenUp
<1>4. CASE h.mode # "collect"
  <2>1. PICK e : e = [kind |-> "[DONE]"]
    OBVIOUS
  <2>2. PICK s : s = handler[q].said /\ IsSequence(s) /\ TextFrames(s, Len(s))
    BY <1>2, <1>4 DEF Opened
  <2>3. PICK y : y = h.said /\ y = Append(s, e)
    BY <1>2, <1>4, <2>1, <2>2
  <2>4. /\ IsSequence(y) /\ Len(y) \in Nat /\ Len(y) > 0 /\ y[Len(y)] = e
        /\ TextFrames(y, Len(y) - 1)
    BY <2>2, <2>3, SaysLast, ZenonT(60)
  <2>5. y[Len(y)].kind = "[DONE]" /\ Len(y) >= 1
    BY <2>1, <2>4
  <2> QED BY <1>1, <1>2, <1>4, <2>3, <2>4, <2>5 DEF GivenUp, TextFrames
<1> QED BY <1>1, <1>2, <1>3, <1>4

\* A finish is read: a response is complete, a stream waits for the channel to close.
LEMMA FinishIsRead ==
  ASSUME Inv, Reports, NEW q \in Request, Reading(q), Opened(q),
         answer[q].end \in Finish, Nowhere(q),
         handler'[q] = After(handler[q], Done(q, answer[q].end, Len(answer[q].tokens))),
         events'[q] = <<>>, UNCHANGED <<inbox, clients, outcome, live, answer>>
  PROVE  Follows(q)'
<1>1. PICK event : event = Done(q, answer[q].end, Len(answer[q].tokens))
  OBVIOUS
<1>2. PICK h : h = handler'[q] /\ h = After(handler[q], event)
  BY <1>1
<1>3. /\ event.kind = "Done" /\ event.finish = answer[q].end
      /\ Usage(event) = [prompt_tokens |-> PromptTokens[q],
                         completion_tokens |-> Len(answer[q].tokens),
                         total_tokens |-> PromptTokens[q] + Len(answer[q].tokens)]
  BY <1>1 DEF Done, Usage
<1>4. /\ h.mode = handler[q].mode
      /\ IF h.mode = "collect"
         THEN /\ h.at = "returned"
              /\ h.said = <<[kind |-> "response", finish |-> event.finish,
                             usage |-> Usage(event)]>>
         ELSE /\ h.at = handler[q].at
              /\ h.said = Append(handler[q].said,
                                 [kind |-> "finish", finish |-> event.finish])
  BY <1>2, <1>3, AfterDone, Zenon
<1>5. /\ Jobs' = Jobs /\ Due' = Due /\ Ended' = Ended /\ Refused' = Refused
      /\ Nowhere(q)'
  BY DEF Jobs, Due, Ended, Refused, Nowhere
<1>6. CASE h.mode = "collect"
  <2>1. Answered(q)'
    BY <1>2, <1>3, <1>4, <1>6 DEF Answered
  <2>2. answer'[q].end \in Finish /\ answer'[q].end # "failed"
    BY DEF Finish
  <2>3. Right(q)'
    BY <1>5, <2>1, <2>2 DEF Right, Nowhere
  <2> QED BY <1>2, <1>4, <1>6, <2>3 DEF Follows
<1>7. CASE h.mode # "collect"
  <2>1. PICK e : e = [kind |-> "finish", finish |-> event.finish]
    OBVIOUS
  <2>2. PICK s : s = handler[q].said /\ IsSequence(s) /\ TextFrames(s, Len(s))
    BY <1>4, <1>7 DEF Opened
  <2>3. PICK y : y = h.said /\ y = Append(s, e)
    BY <1>4, <1>7, <2>1, <2>2
  <2>4. /\ IsSequence(y) /\ Len(y) \in Nat /\ Len(y) > 0 /\ y[Len(y)] = e
        /\ TextFrames(y, Len(y) - 1)
    BY <2>2, <2>3, SaysLast
  <2>5. h.mode = "stream" /\ h.at = "reading"
    BY <1>4, <1>7 DEF Inv, Shapes, Reading
  <2>6. Closes(q)'
    BY <1>2, <1>3, <1>5, <2>1, <2>3, <2>4, <2>5 DEF Closes
  <2> QED BY <1>2, <2>5, <2>6 DEF Follows
<1> QED BY <1>6, <1>7

\* An event is read.
LEMMA ReadReports ==
  ASSUME Inv, Reports, NEW q \in Request, Read(q)
  PROVE  Reports'
<1>1. /\ Reading(q) /\ events[q] # <<>> /\ events' = [events EXCEPT ![q] = Tail(@)]
      /\ handler' = [handler EXCEPT ![q] = After(@, Head(events[q]))]
      /\ UNCHANGED <<inbox, clients, outcome, live, answer>>
  BY DEF Read, scheduler
<1>2. /\ handler'[q] = After(handler[q], Head(events[q])) /\ events'[q] = Tail(events[q])
      /\ \A r \in Request : r # q => handler'[r] = handler[r] /\ events'[r] = events[r]
  BY <1>1 DEF Inv, Shapes
<1>3. PICK s : s = events[q] /\ IsSequence(s) /\ s # <<>>
  BY <1>1 DEF Inv, Shapes
<1>4. /\ Len(s) \in Nat /\ Len(s) > 0 /\ Len(Tail(s)) = Len(s) - 1 /\ Head(s) = s[1]
      /\ \A i \in 1..(Len(s) - 1) : Tail(s)[i] = s[i + 1]
  BY <1>3, TailShifts
<1>5. PICK y : y = Tail(s) /\ y = events'[q]
  BY <1>2, <1>3
<1>6. \A r : Nowhere(r)' = Nowhere(r) /\ Finishes(r)' = Finishes(r)
  BY <1>1 DEF Nowhere, Jobs, Due, Ended, Refused, Finishes
<1>7. ASSUME NEW n \in Nat, AllText(s, n), n <= Len(s), n > 0
      PROVE  s[1].kind = "Text" /\ AllText(y, n - 1)
  <2>1. s[1].kind = "Text"
    BY <1>7 DEF AllText
  <2>2. \A i \in 1..(n - 1) : y[i].kind = "Text"
    BY <1>4, <1>5, <1>7 DEF AllText
  <2> QED BY <2>1, <2>2 DEF AllText
<1>8. ASSUME s[1].kind = "Text", Opened(q)
      PROVE  handler'[q].at = "reading" /\ Opened(q)'
  BY <1>1, <1>2, <1>3, <1>4, <1>8, SaysText
<1>9. ASSUME Hears(q) PROVE Follows(q)'
  <2>1. Opened(q) /\ AllText(s, Len(s)) /\ (Waits(q) \/ Runs(q))
    BY <1>3, <1>9 DEF Hears
  <2>2. s[1].kind = "Text" /\ AllText(y, Len(y))
    BY <1>4, <1>5, <1>7, <2>1
  <2>3. Waits(q)' \/ Runs(q)'
    <3>1. Waits(q) => Waits(q)'
      BY <1>1 DEF Waits, Jobs, Due, Ended, Refused
    <3>2. Runs(q) => Runs(q)'
      BY <1>1, <1>6 DEF Runs, Counted, Jobs, Due, Ended, Refused
    <3> QED BY <2>1, <3>1, <3>2
  <2>4. Hears(q)' /\ handler'[q].at = "reading"
    BY <1>5, <1>8, <2>1, <2>2, <2>3 DEF Hears
  <2> QED BY <2>4 DEF Follows
<1>10. ASSUME Fails(q) PROVE Follows(q)'
  <2>1. PICK n \in 1..Len(s) : s[n] = Failed /\ AllText(s, n - 1)
    BY <1>3, <1>10 DEF Fails
  <2>2. Opened(q) /\ answer[q].end = "failed" /\ q \notin Jobs \cup live \cup Due
    BY <1>10 DEF Fails
  <2>3. q \notin (Jobs \cup live \cup Due)' /\ answer'[q].end = "failed"
    BY <1>1, <2>2 DEF Jobs, Due
  <2>4. CASE n = 1
    <3>1. Head(events[q]).kind \notin {"Text", "Done"}
      BY <1>3, <1>4, <2>1, <2>4 DEF Failed
    <3>2. handler'[q].at = "returned" /\ GivenUp(q)'
      BY <1>2, <2>2, <3>1, GivesUp
    <3> QED BY <2>3, <3>2 DEF Follows, Right
  <2>5. CASE n # 1
    <3>1. s[1].kind = "Text" /\ AllText(y, n - 1 - 1)
      BY <1>4, <1>7, <2>1, <2>5
    <3>2. n - 1 \in 1..Len(y) /\ y[n - 1] = Failed
      BY <1>4, <1>5, <2>1, <2>5
    <3>3. Fails(q)' /\ handler'[q].at = "reading"
      BY <1>5, <1>8, <2>2, <2>3, <3>1, <3>2 DEF Fails
    <3> QED BY <3>3 DEF Follows
  <2> QED BY <2>4, <2>5
<1>11. ASSUME Ends(q) PROVE Follows(q)'
  <2>1. /\ Opened(q) /\ answer[q].end \in Finish /\ Nowhere(q)
        /\ AllText(s, Len(s) - 1)
        /\ s[Len(s)] = Done(q, answer[q].end, Len(answer[q].tokens))
    BY <1>3, <1>11 DEF Ends
  <2>2. CASE Len(s) = 1
    <3>1. y = <<>>
      <4>1. PICK S : S = ToSet(s) /\ s \in Seq(S)
        BY <1>3 DEF IsSequence
      <4> QED BY <1>4, <1>5, <2>2, <4>1
    <3>2. handler'[q] = After(handler[q], Done(q, answer[q].end, Len(answer[q].tokens)))
      BY <1>2, <1>3, <1>4, <2>1, <2>2
    <3> QED BY <1>1, <1>5, <2>1, <3>1, <3>2, FinishIsRead
  <2>3. CASE Len(s) # 1
    <3>1. s[1].kind = "Text" /\ AllText(y, Len(y) - 1)
      <4>1. PICK n : n = Len(s) - 1
        OBVIOUS
      <4>2. n \in Nat /\ n > 0 /\ n <= Len(s)
        BY <1>4, <2>3, <4>1
      <4>3. Len(y) = n
        BY <1>4, <1>5, <4>1
      <4> QED BY <1>7, <2>1, <4>1, <4>2, <4>3
    <3>2. Len(y) > 0 /\ y[Len(y)] = s[Len(s)]
      <4>1. PICK n : n = Len(s)
        OBVIOUS
      <4>2. PICK m : m = n - 1
        OBVIOUS
      <4>3. n \in Nat /\ n > 1 /\ m \in 1..(n - 1) /\ m + 1 = n
        BY <1>4, <2>3, <4>1, <4>2
      <4>4. Len(y) = m
        BY <1>4, <1>5, <4>1, <4>2
      <4>5. y[m] = s[m + 1]
        BY <1>4, <1>5, <4>1, <4>3
      <4> QED BY <4>1, <4>3, <4>4, <4>5
    <3>3. Ends(q)' /\ handler'[q].at = "reading"
      BY <1>1, <1>5, <1>6, <1>8, <2>1, <3>1, <3>2 DEF Ends
    <3> QED BY <3>3 DEF Follows
  <2> QED BY <1>4, <2>2, <2>3
<1>12. Follows(q)'
  <2>1. ~ Closes(q)
    BY <1>3 DEF Closes
  <2>2. Follows(q) /\ handler[q].at = "reading"
    BY <1>1 DEF Reports, Reading
  <2> QED BY <1>9, <1>10, <1>11, <2>1, <2>2 DEF Follows
<1>13. EachOnce' /\ Jobs' = Jobs
  BY <1>1 DEF Reports, EachOnce, Once, Jobs
<1> QED BY <1>1, <1>2, <1>12, <1>13, HandlerReports

\* The closed channel is read by a stream that has its finish, and by no other.
LEMMA ReadClosedReports ==
  ASSUME Inv, Reports, NEW q \in Request, ReadClosed(q)
  PROVE  Reports'
<1>1. /\ Reading(q) /\ events[q] = <<>> /\ q \notin Jobs \cup DOMAIN clients
      /\ handler' = [handler EXCEPT ![q] = After(@, [kind |-> "None"])]
      /\ UNCHANGED <<events, inbox, clients, outcome, live, answer>>
  BY DEF ReadClosed, scheduler, Jobs
<1>2. /\ handler'[q] = After(handler[q], [kind |-> "None"])
      /\ \A r \in Request : r # q => handler'[r] = handler[r]
  BY <1>1 DEF Inv, Shapes
<1>3. Closes(q)
  <2>1. Len(events[q]) = 0
    BY <1>1
  <2>2. ~ Hears(q)
    BY <1>1 DEF Hears, Waits, Runs
  <2>3. ~ Fails(q) /\ ~ Ends(q)
    BY <2>1 DEF Fails, Ends
  <2>4. Follows(q) /\ handler[q].at = "reading"
    BY <1>1 DEF Reports, Reading
  <2> QED BY <2>2, <2>3, <2>4 DEF Follows
<1>4. PICK event : event = [kind |-> "None"]
  OBVIOUS
<1>5. PICK h : h = handler'[q] /\ h = After(handler[q], event)
  BY <1>2, <1>4
<1>6. /\ h.mode = "stream" /\ h.at = "returned"
      /\ h.said = Append(handler[q].said, [kind |-> "[DONE]"])
  <2>1. event.kind \notin {"Text", "Done"}
    BY <1>4
  <2>2. handler[q].mode = "stream"
    BY <1>3 DEF Closes
  <2>3. /\ h.mode = handler[q].mode /\ h.at = "returned"
        /\ h.said = IF h.mode = "collect" THEN <<[kind |-> "error"]>>
                    ELSE Append(handler[q].said, [kind |-> "[DONE]"])
    BY <1>5, <2>1, AfterOther, Zenon
  <2> QED BY <2>2, <2>3
<1>7. PICK s : s = handler[q].said
  OBVIOUS
<1>0. PICK e : e = [kind |-> "[DONE]"]
  OBVIOUS
<1>8. PICK y : y = Append(s, e)
  OBVIOUS
<1>9. /\ IsSequence(s) /\ Len(s) > 0 /\ s[Len(s)] = [kind |-> "finish", finish |-> answer[q].end]
      /\ \A i \in 1..(Len(s) - 1) : s[i].kind = "text"
  BY <1>3, <1>7 DEF Closes, TextFrames
<1>10. /\ Len(s) \in Nat /\ Len(y) = Len(s) + 1
       /\ \A i \in 1..Len(s) : y[i] = s[i]
       /\ y[Len(s) + 1] = e
  BY <1>8, <1>9, AppendShifts
<1>11. /\ Len(y) >= 2 /\ y[Len(y)].kind = "[DONE]"
       /\ y[Len(y) - 1] = [kind |-> "finish", finish |-> answer[q].end]
       /\ \A i \in 1..(Len(y) - 2) : y[i].kind = "text"
  <2>1. PICK n : n = Len(s)
    OBVIOUS
  <2>2. n \in Nat /\ n > 0 /\ Len(y) = n + 1 /\ y[n + 1] = e /\ y[n] = s[n]
    BY <1>9, <1>10, <2>1
  <2>3. \A i \in 1..(n - 1) : y[i] = s[i]
    BY <1>10, <2>1, <2>2
  <2>4. Len(y) - 1 = n /\ Len(y) - 2 = n - 1 /\ Len(y) >= 2
    BY <2>2
  <2>5. e.kind = "[DONE]"
    BY <1>0
  <2>6. \A i \in 1..(n - 1) : y[i].kind = "text"
    BY <1>9, <2>1, <2>3
  <2> QED BY <1>9, <2>1, <2>2, <2>4, <2>5, <2>6
<1>12. Answered(q)'
  <2>1. handler'[q].said = y
    BY <1>0, <1>5, <1>6, <1>7, <1>8
  <2>2. handler'[q].mode # "collect"
    BY <1>5, <1>6
  <2>3. answer'[q].end = answer[q].end
    BY <1>1
  <2> QED BY <1>11, <2>1, <2>2, <2>3 DEF Answered
<1>13. Follows(q)'
  <2>1. answer'[q].end \in Finish /\ answer'[q].end # "failed"
    BY <1>1, <1>3 DEF Closes, Finish
  <2>2. q \notin (Jobs \cup live \cup Due)'
    BY <1>1, <1>3 DEF Closes, Nowhere, Jobs, Due
  <2> QED BY <1>5, <1>6, <1>12, <2>1, <2>2 DEF Follows, Right
<1>14. EachOnce' /\ Jobs' = Jobs
  BY <1>1 DEF Reports, EachOnce, Once, Jobs
<1> QED BY <1>1, <1>2, <1>13, <1>14, HandlerReports

-----------------------------------------------------------------------------
(* What the engine thread hands on.                                        *)

\* Waiting, stopping and closing change nothing of it.
LEMMA WaitReports ==
  ASSUME Reports, Park \/ Stop \/ Shutdown \/ UNCHANGED vars
  PROVE  Reports'
<1>1. UNCHANGED <<handler, events, inbox, clients, outcome, live, answer>>
  BY DEF Park, Stop, Shutdown, vars, scheduler
<1>2. Jobs' = Jobs /\ EachOnce'
  BY <1>1 DEF Reports, EachOnce, Once, Jobs
<1>3. Due' = Due /\ Ended' = Ended /\ Refused' = Refused /\ \A r : Finishes(r)' = Finishes(r)
  BY <1>1 DEF Due, Ended, Refused, Finishes
<1>4. ASSUME NEW r \in Request PROVE Follows(r)'
  <2>1. Follows(r)
    BY DEF Reports
  <2> QED BY <1>1, <1>2, <1>3, <2>1, Unconcerned
<1> QED BY <1>1, <1>2, <1>4 DEF Reports

\* The first in the channel is not in it again.
LEMMA ReceiveTakes ==
  ASSUME Inv, Reports, Receive
  PROVE  /\ Head(inbox) \in Jobs \ Jobs' /\ Jobs = Jobs' \cup {Head(inbox)}
         /\ \A i, j \in DOMAIN inbox' : inbox'[i] = inbox'[j] => i = j
<1>1. PICK s : s = inbox /\ IsSequence(s) /\ s # <<>> /\ inbox' = Tail(s)
  BY TypedIsSequence DEF Receive, Inv, Shapes
<1>2. /\ Len(s) \in Nat /\ Len(s) > 0 /\ Head(s) = s[1]
      /\ DOMAIN s = 1..Len(s) /\ DOMAIN Tail(s) = 1..(Len(s) - 1)
      /\ \A i \in 1..(Len(s) - 1) : Tail(s)[i] = s[i + 1]
  BY <1>1, TailShifts
<1>3. Jobs = {Head(s)} \cup Jobs'
  BY <1>1, TailTakes DEF Jobs
<1>4. \A i, j \in 1..Len(s) : s[i] = s[j] => i = j
  BY <1>1, <1>2 DEF Reports, EachOnce
<1>5. Head(s) \notin Jobs'
  <2>1. SUFFICES ASSUME NEW i \in 1..(Len(s) - 1), Tail(s)[i] = s[1] PROVE FALSE
    BY <1>1, <1>2 DEF Jobs, ToSet
  <2>2. i + 1 \in 1..Len(s) /\ 1 \in 1..Len(s) /\ s[i + 1] = s[1] /\ i + 1 # 1
    BY <1>2, <2>1
  <2> QED BY <1>4, <2>2
<1>6. ASSUME NEW i \in 1..(Len(s) - 1), NEW j \in 1..(Len(s) - 1), Tail(s)[i] = Tail(s)[j]
      PROVE  i = j
  <2>1. i + 1 \in 1..Len(s) /\ j + 1 \in 1..Len(s) /\ s[i + 1] = s[j + 1]
    BY <1>2, <1>6
  <2>2. i + 1 = j + 1
    BY <1>4, <2>1
  <2> QED BY <2>2
<1> QED BY <1>1, <1>2, <1>3, <1>5, <1>6

\* A job becomes a sequence with nothing decoded and nothing due.
LEMMA ReceiveReports ==
  ASSUME Inv, Reports, Receive
  PROVE  Reports'
<1>1. PICK q : q = Head(inbox)
  OBVIOUS
<1>2. /\ clients' = [r \in DOMAIN clients \cup {q} |->
                       IF r = q THEN NewDecoder ELSE clients[r]]
      /\ live' = live \cup {q} /\ UNCHANGED <<handler, events, outcome, answer>>
  BY <1>1 DEF Receive
<1>3. /\ q \in Jobs \ Jobs' /\ Jobs = Jobs' \cup {q}
      /\ \A i, j \in DOMAIN inbox' : inbox'[i] = inbox'[j] => i = j
  BY <1>1, ReceiveTakes
<1>4. Due' = Due /\ Ended' = Ended /\ Refused' = Refused /\ \A r : Finishes(r)' = Finishes(r)
  BY <1>2 DEF Due, Ended, Refused, Finishes
<1>5. EachOnce'
  BY <1>2, <1>3 DEF Reports, EachOnce, Once
<1>6. ASSUME NEW r \in Request, r # q PROVE Follows(r)'
  <2>1. Follows(r)
    BY DEF Reports
  <2>2. /\ r \in DOMAIN clients' <=> r \in DOMAIN clients
        /\ r \in DOMAIN clients => clients'[r] = clients[r]
    BY <1>2, <1>6
  <2>3. (r \in Jobs' <=> r \in Jobs) /\ (r \in live' <=> r \in live)
    BY <1>2, <1>3, <1>6
  <2>4. /\ handler'[r] = handler[r] /\ events'[r] = events[r] /\ answer'[r] = answer[r]
        /\ Finishes(r)' = Finishes(r)
    BY <1>2, <1>4
  <2> QED BY <1>4, <2>1, <2>2, <2>3, <2>4, Unconcerned
<1>7. ASSUME q \in Request PROVE Follows(q)'
  <2>1. Follows(q)
    BY <1>7 DEF Reports
  <2>2. handler[q].at \notin {"new", "returned"}
    BY <1>3, <2>1 DEF Follows, Silent, Nowhere, Right
  <2>3. ASSUME handler[q].at = "reading" PROVE Hears(q)'
    <3>1. Hears(q) /\ Waits(q)
      BY <1>3, <2>1, <2>3 DEF Follows, Hears, Runs, Fails, Ends, Closes, Nowhere
    <3>2. Opened(q)' /\ AllText(events'[q], Len(events'[q]))
      BY <1>2, <3>1 DEF Hears, Opened
    <3>3. Counted(q)'
      <4>1. clients'[q].tokens = <<>> /\ answer'[q].tokens = <<>>
        BY <1>2, <3>1 DEF Waits, NewDecoder
      <4>2. IsSequence(<<>>) /\ Len(<<>>) = 0
        BY EmptySeq, TypedIsSequence
      <4>3. q \notin Due'
        BY <1>4, <3>1 DEF Waits
      <4> QED BY <4>1, <4>2, <4>3 DEF Counted
    <3>4. Runs(q)'
      BY <1>2, <1>3, <1>4, <3>1, <3>3 DEF Runs, Waits
    <3> QED BY <3>2, <3>4 DEF Hears
  <2> QED BY <1>2, <2>2, <2>3 DEF Follows
<1>8. \A r \in Request : Follows(r)'
  BY <1>6, <1>7
<1> QED BY <1>2, <1>5, <1>8 DEF Reports

\* What names a set in its order names each of it, once.
LEMMA NamesEach ==
  ASSUME NEW S \in SUBSET Request, NEW s, DOMAIN s = DOMAIN Ordered(S),
         \A i \in DOMAIN s : s[i].id = Ordered(S)[i]
  PROVE  Once(s) /\ {e.id : e \in ToSet(s)} = S
<1>1. PICK y : y = Ordered(S)
  OBVIOUS
<1>2. ToSet(y) = S /\ \A i, j \in DOMAIN y : y[i] = y[j] => i = j
  BY <1>1, OrderedAll
<1>3. DOMAIN s = DOMAIN y /\ \A i \in DOMAIN s : s[i].id = y[i]
  BY <1>1
<1>4. Once(s)
  BY <1>2, <1>3 DEF Once
<1>5. ASSUME NEW e \in ToSet(s) PROVE e.id \in S
  <2>1. PICK i \in DOMAIN s : e = s[i]
    BY DEF ToSet
  <2> QED BY <1>2, <1>3, <2>1 DEF ToSet
<1>6. ASSUME NEW r \in S PROVE \E e \in ToSet(s) : e.id = r
  <2>1. PICK i \in DOMAIN y : r = y[i]
    BY <1>2 DEF ToSet
  <2>2. s[i] \in ToSet(s) /\ s[i].id = r
    BY <1>3, <2>1 DEF ToSet
  <2> QED BY <2>2
<1> QED BY <1>4, <1>5, <1>6

\* And the finish that goes with a name is that request's.
LEMMA FinishOfEach ==
  ASSUME NEW S \in SUBSET Request, NEW f, NEW s, DOMAIN s = DOMAIN Ordered(S),
         \A i \in DOMAIN s : s[i].id = Ordered(S)[i] /\ s[i].finish = f[Ordered(S)[i]],
         NEW r
  PROVE  FinishesIn(s, r) = IF r \in S THEN {f[r]} ELSE {}
<1>1. {e.id : e \in ToSet(s)} = S
  BY NamesEach
<1>2. ASSUME NEW e \in ToSet(s) PROVE e.finish = f[e.id]
  <2>1. PICK i \in DOMAIN s : e = s[i]
    BY DEF ToSet
  <2> QED BY <2>1
<1>3. ASSUME NEW e \in ToSet(s), e.id = r PROVE r \in S /\ e.finish = f[r]
  BY <1>1, <1>2, <1>3
<1>4. ASSUME r \in S PROVE \E e \in ToSet(s) : e.id = r
  BY <1>1, <1>4
<1>5. FinishesIn(s, r) = {e.finish : e \in {x \in ToSet(s) : x.id = r}}
  BY DEF FinishesIn
<1> QED BY <1>3, <1>4, <1>5

\* What a pass leaves: who is given a token, who ends, and what is handed on.
PassGives(asked, token, f, given, ended) ==
    /\ given = {r \in asked : token[r] \notin StopTokens}
    /\ ended = {r \in asked : f[r] # "none"}
    /\ \A r \in asked : f[r] \in Finish \cup {"none"}
    /\ DOMAIN answer' = Request
    /\ \A r \in Request \ asked : answer'[r] = answer[r]
    /\ \A r \in asked :
         /\ DOMAIN answer'[r] = {"tokens", "end"} /\ answer'[r].end = f[r]
         /\ answer'[r].tokens = IF r \in given THEN Append(answer[r].tokens, token[r])
                                ELSE answer[r].tokens
    /\ live' = live \ ended /\ Due' = given /\ Ended' = ended /\ Refused' = {}
    /\ \A r : Finishes(r)' = IF r \in ended THEN {f[r]} ELSE {}
    /\ EachOnce'

\* Every pass leaves such a thing.
LEMMA PassLeaves ==
  ASSUME Inv, Reports, Pass
  PROVE  \E asked \in SUBSET live :
           \E token, f, given, ended : PassGives(asked, token, f, given, ended)
<1> DEFINE HandsOn(rows, token) ==
             LET asked == rows \ Slicing
                 finish == [r \in asked |-> FinishOf(r, token[r])]
                 ended == {r \in asked : finish[r] # "none"}
             IN  /\ answer' = [r \in Request |->
                      IF r \notin asked THEN answer[r]
                      ELSE [tokens |-> IF token[r] \in StopTokens THEN answer[r].tokens
                                       ELSE Append(answer[r].tokens, token[r]),
                            end |-> finish[r]]]
                 /\ live' = live \ ended
                 /\ outcome' =
                      [tokens |-> InOrder({r \in asked : token[r] \notin StopTokens},
                                          LAMBDA r : [id |-> r, token |-> token[r]]),
                       finished |-> InOrder(ended, LAMBDA r : [id |-> r, finish |-> finish[r]]),
                       failed |-> <<>>]
<1>0. PICK rows \in Passes : \E token \in [rows \ Slicing -> Token] : HandsOn(rows, token)
  BY DEF Pass
<1>1. PICK token \in [rows \ Slicing -> Token] : HandsOn(rows, token)
  BY <1>0
<1>2. PICK asked : asked = rows \ Slicing
  OBVIOUS
<1>3. PICK f : f = [r \in asked |-> FinishOf(r, token[r])]
  OBVIOUS
<1>4. PICK ended : ended = {r \in asked : f[r] # "none"}
  OBVIOUS
<1>5. PICK given : given = {r \in asked : token[r] \notin StopTokens}
  OBVIOUS
<1>6. asked \in SUBSET live /\ live \subseteq Request
  BY <1>2 DEF Passes, Inv, Shapes
<1>7. ended \in SUBSET Request /\ given \in SUBSET Request
  BY <1>4, <1>5, <1>6
<1>8. /\ live' = live \ ended
      /\ answer' = [r \in Request |->
           IF r \notin asked THEN answer[r]
           ELSE [tokens |-> IF token[r] \in StopTokens THEN answer[r].tokens
                            ELSE Append(answer[r].tokens, token[r]),
                 end |-> f[r]]]
      /\ outcome' =
           [tokens |-> [i \in DOMAIN Ordered(given) |->
                          [id |-> Ordered(given)[i], token |-> token[Ordered(given)[i]]]],
            finished |-> [i \in DOMAIN Ordered(ended) |->
                            [id |-> Ordered(ended)[i], finish |-> f[Ordered(ended)[i]]]],
            failed |-> <<>>]
  BY <1>1, <1>2, <1>3, <1>4, <1>5 DEF InOrder
<1>9. PICK spoken : spoken = [i \in DOMAIN Ordered(given) |->
                       [id |-> Ordered(given)[i], token |-> token[Ordered(given)[i]]]]
  OBVIOUS
<1>10. PICK over : over = [i \in DOMAIN Ordered(ended) |->
                     [id |-> Ordered(ended)[i], finish |-> f[Ordered(ended)[i]]]]
  OBVIOUS
<1>11. outcome'.tokens = spoken /\ outcome'.finished = over /\ outcome'.failed = <<>>
  BY <1>8, <1>9, <1>10
<1>12. ToSet(<<>>) = {}
  BY DEF ToSet
<1>13. Once(spoken) /\ {e.id : e \in ToSet(spoken)} = given
  <2>1. DOMAIN spoken = DOMAIN Ordered(given)
    BY <1>9
  <2>2. \A i \in DOMAIN spoken : spoken[i].id = Ordered(given)[i]
    <3>1. SUFFICES ASSUME NEW i \in DOMAIN spoken PROVE spoken[i].id = Ordered(given)[i]
      OBVIOUS
    <3>2. PICK x, y : y = Ordered(given)[i] /\ spoken[i] = [id |-> y, token |-> x]
      BY <1>9, <2>1
    <3> QED BY <3>2
  <2> QED BY <1>7, <2>1, <2>2, NamesEach
<1>14. /\ DOMAIN over = DOMAIN Ordered(ended)
       /\ \A i \in DOMAIN over : over[i].id = Ordered(ended)[i]
                                 /\ over[i].finish = f[Ordered(ended)[i]]
  <2>1. DOMAIN over = DOMAIN Ordered(ended)
    BY <1>10
  <2>2. SUFFICES ASSUME NEW i \in DOMAIN over
                 PROVE over[i].id = Ordered(ended)[i] /\ over[i].finish = f[Ordered(ended)[i]]
    BY <2>1, Zenon
  <2>3. PICK x, y : y = Ordered(ended)[i] /\ x = f[y] /\ over[i] = [id |-> y, finish |-> x]
    BY <1>10, <2>1
  <2> QED BY <2>3
<1>15. Once(over) /\ {e.id : e \in ToSet(over)} = ended
  BY <1>7, <1>14, NamesEach
<1>16. ASSUME NEW r
       PROVE  FinishesIn(over, r) = IF r \in ended THEN {f[r]} ELSE {}
  BY <1>7, <1>14, FinishOfEach
<1>17. Due' = given /\ Ended' = ended /\ Refused' = {}
  BY <1>11, <1>12, <1>13, <1>15 DEF Due, Ended, Refused
<1>18. \A r : Finishes(r)' = IF r \in ended THEN {f[r]} ELSE {}
  BY <1>11, <1>16 DEF Finishes
<1>19. EachOnce'
  <2>1. inbox' = inbox
    BY DEF Pass
  <2> QED BY <1>11, <1>13, <1>15, <2>1 DEF Reports, EachOnce, Once
<1>20. \A r \in asked : f[r] \in Finish \cup {"none"}
  BY <1>3 DEF FinishOf, Finish
<1>21. ASSUME NEW r \in asked
       PROVE  /\ DOMAIN answer'[r] = {"tokens", "end"} /\ answer'[r].end = f[r]
              /\ answer'[r].tokens = IF r \in given THEN Append(answer[r].tokens, token[r])
                                     ELSE answer[r].tokens
  <2>1. PICK x : x = IF token[r] \in StopTokens THEN answer[r].tokens
                     ELSE Append(answer[r].tokens, token[r])
    OBVIOUS
  <2>2. answer'[r] = [tokens |-> x, end |-> f[r]]
    BY <1>6, <1>8, <2>1
  <2> QED BY <1>5, <2>1, <2>2
<1>22. DOMAIN answer' = Request /\ \A r \in Request \ asked : answer'[r] = answer[r]
  BY <1>8
<1>23. live' = live \ ended
  BY <1>8
<1>24. PassGives(asked, token, f, given, ended)
  BY <1>4, <1>5, <1>17, <1>18, <1>19, <1>20, <1>21, <1>22, <1>23 DEF PassGives
<1> QED BY <1>6, <1>24, Zenon

\* Between two passes there is nothing to hand on.
LEMMA NothingLeft ==
  ASSUME outcome = Nothing
  PROVE  Due = {} /\ Ended = {} /\ Refused = {} /\ \A r : Finishes(r) = {}
<1>1. outcome.tokens = <<>> /\ outcome.finished = <<>> /\ outcome.failed = <<>>
  BY DEF Nothing
<1>2. ToSet(<<>>) = {}
  BY DEF ToSet
<1> QED BY <1>1, <1>2 DEF Due, Ended, Refused, Finishes, FinishesIn

\* Whoever is live and read by its handler has not ended.
LEMMA LiveHears ==
  ASSUME Reports, NEW r \in Request, r \in live
  PROVE  /\ handler[r].at \notin {"new", "returned"}
         /\ handler[r].at = "reading" =>
              /\ Opened(r) /\ AllText(events[r], Len(events[r]))
              /\ r \notin Jobs /\ r \in DOMAIN clients /\ Counted(r)
              /\ answer[r].end = "none" /\ r \notin Ended \cup Refused
<1>1. Follows(r)
  BY DEF Reports
<1> QED BY <1>1 DEF Follows, Silent, Nowhere, Right, Hears, Waits, Runs, Fails, Ends, Closes

\* A pass counts one token more for those it gave one, and ends what has ended.
LEMMA PassReports ==
  ASSUME Inv, Reports, Pass
  PROVE  Reports'
<1>1. /\ outcome = Nothing /\ UNCHANGED <<handler, events, inbox, clients>> /\ Jobs' = Jobs
  BY DEF Pass, Planned, Jobs
<1>2. Due = {} /\ Ended = {} /\ Refused = {} /\ \A r : Finishes(r) = {}
  BY <1>1, NothingLeft
<1>3. PICK asked \in SUBSET live :
         \E token, f, given, ended : PassGives(asked, token, f, given, ended)
  BY PassLeaves
<1>4. PICK token, f, given, ended : PassGives(asked, token, f, given, ended)
  BY <1>3
<1>5. given \subseteq asked /\ ended \subseteq asked /\ asked \subseteq Request
  BY <1>4 DEF PassGives, Inv, Shapes
<1>6. ASSUME NEW r \in Request
      PROVE  DOMAIN answer'[r] = {"tokens", "end"} /\ IsSequence(answer'[r].tokens)
  <2>1. CASE r \notin asked
    BY <1>4, <2>1 DEF PassGives, Reports
  <2>2. CASE r \in asked
    <3>1. IsSequence(answer[r].tokens)
      BY DEF Reports
    <3>2. IsSequence(Append(answer[r].tokens, token[r]))
      BY <3>1, AppendAdds
    <3>3. answer'[r].tokens = IF r \in given THEN Append(answer[r].tokens, token[r])
                              ELSE answer[r].tokens
      BY <1>4, <2>2 DEF PassGives
    <3> QED BY <1>4, <2>2, <3>1, <3>2, <3>3 DEF PassGives
  <2> QED BY <2>1, <2>2
<1>7. ASSUME NEW r \in Request, r \notin asked PROVE Follows(r)'
  <2>1. Follows(r)
    BY DEF Reports
  <2>2. answer'[r] = answer[r] /\ (r \in live' <=> r \in live)
    BY <1>4, <1>5, <1>7 DEF PassGives
  <2>3. /\ r \in Due' <=> r \in Due
        /\ r \in Ended' <=> r \in Ended
        /\ r \in Refused' <=> r \in Refused
        /\ Finishes(r)' = Finishes(r)
    BY <1>2, <1>4, <1>5, <1>7 DEF PassGives
  <2> QED BY <1>1, <2>1, <2>2, <2>3, Unconcerned
<1>8. ASSUME NEW r \in asked PROVE Follows(r)'
  <2>1. r \in Request /\ r \in live
    BY <1>5
  <2>2. handler'[r].at \notin {"new", "returned"}
    BY <1>1, <2>1, LiveHears
  <2>3. ASSUME handler[r].at = "reading" PROVE Hears(r)'
    <3>1. /\ Opened(r) /\ AllText(events[r], Len(events[r]))
          /\ r \notin Jobs /\ r \in DOMAIN clients /\ Counted(r) /\ answer[r].end = "none"
      BY <2>1, <2>3, LiveHears
    <3>2. Opened(r)' /\ AllText(events'[r], Len(events'[r]))
      BY <1>1, <3>1 DEF Opened
    <3>3. /\ answer'[r].end = f[r]
          /\ answer'[r].tokens = IF r \in given THEN Append(answer[r].tokens, token[r])
                                 ELSE answer[r].tokens
          /\ Due' = given
      BY <1>4 DEF PassGives
    <3>4. Counted(r)'
      <4>1. IsSequence(clients[r].tokens) /\ Len(answer[r].tokens) = Len(clients[r].tokens)
        <5>1. r \notin Due /\ Len(clients[r].tokens) \in Nat
          BY <1>2, <3>1, SequenceShape DEF Counted
        <5> QED BY <3>1, <5>1 DEF Counted
      <4>2. Len(Append(answer[r].tokens, token[r])) = Len(answer[r].tokens) + 1
        BY <2>1, AppendShifts DEF Reports
      <4>3. Len(clients[r].tokens) \in Nat
        BY <4>1, SequenceShape
      <4>4. Len(answer'[r].tokens) = Len(clients[r].tokens) + (IF r \in Due' THEN 1 ELSE 0)
        <5>1. CASE r \in given
          BY <3>3, <4>1, <4>2, <5>1
        <5>2. CASE r \notin given
          BY <3>3, <4>1, <4>3, <5>2
        <5> QED BY <5>1, <5>2
      <4> QED BY <1>1, <4>1, <4>4 DEF Counted
    <3>5. /\ f[r] \in Finish \cup {"none"} /\ (r \in ended <=> f[r] # "none")
          /\ live' = live \ ended /\ Ended' = ended /\ Refused' = {}
          /\ Finishes(r)' = IF r \in ended THEN {f[r]} ELSE {}
      BY <1>4 DEF PassGives
    <3>6. Runs(r)'
      BY <1>1, <2>1, <3>1, <3>3, <3>4, <3>5 DEF Runs
    <3> QED BY <3>2, <3>6 DEF Hears
  <2> QED BY <1>1, <2>2, <2>3 DEF Follows
<1>9. \A r \in Request : Follows(r)'
  BY <1>7, <1>8
<1> QED BY <1>4, <1>6, <1>9 DEF Reports, PassGives

\* A pass that fails ends everybody it carried, each of whom is to be told.
LEMMA PassFailsReports ==
  ASSUME Inv, Reports, PassFails
  PROVE  Reports'
<1>1. /\ outcome = Nothing /\ UNCHANGED <<handler, events, inbox, clients>> /\ Jobs' = Jobs
  BY DEF PassFails, Planned, Jobs
<1>2. Due = {} /\ Ended = {} /\ Refused = {} /\ \A r : Finishes(r) = {}
  BY <1>1, NothingLeft
<1>3. PICK rows \in Passes :
        /\ live' = live \ rows
        /\ answer' = [r \in Request |->
             IF r \in rows THEN [answer[r] EXCEPT !.end = "failed"] ELSE answer[r]]
        /\ outcome' = [Nothing EXCEPT !.failed = InOrder(rows, LAMBDA r : r)]
  BY DEF PassFails
<1>4. rows \subseteq live /\ rows \in SUBSET Request
  BY DEF Passes, Inv, Shapes
<1>5. PICK over : over = InOrder(rows, LAMBDA r : r)
  OBVIOUS
<1>6. ToSet(over) = rows
  <2>1. over = [i \in DOMAIN Ordered(rows) |-> Ordered(rows)[i]]
    BY <1>5 DEF InOrder
  <2>2. over = Ordered(rows)
    BY <2>1 DEF Ordered
  <2> QED BY <1>4, <2>2, OrderedAll
<1>7. outcome'.tokens = <<>> /\ outcome'.finished = <<>> /\ outcome'.failed = over
  BY <1>3, <1>5 DEF Nothing
<1>8. ToSet(<<>>) = {} /\ DOMAIN <<>> = {}
  BY DEF ToSet
<1>9. Due' = {} /\ Ended' = {} /\ Refused' = rows /\ \A r : Finishes(r)' = {}
  BY <1>6, <1>7, <1>8 DEF Due, Ended, Refused, Finishes, FinishesIn
<1>10. EachOnce'
  BY <1>1, <1>7, <1>8 DEF Reports, EachOnce, Once
<1>11. ASSUME NEW r \in Request
       PROVE  /\ DOMAIN answer'[r] = {"tokens", "end"} /\ answer'[r].tokens = answer[r].tokens
              /\ r \in rows => answer'[r].end = "failed"
              /\ r \notin rows => answer'[r] = answer[r]
  BY <1>3 DEF Reports
<1>12. ASSUME NEW r \in Request, r \notin rows PROVE Follows(r)'
  <2>1. Follows(r)
    BY DEF Reports
  <2>2. answer'[r] = answer[r] /\ (r \in live' <=> r \in live)
    BY <1>3, <1>11, <1>12
  <2>3. /\ r \in Due' <=> r \in Due
        /\ r \in Ended' <=> r \in Ended
        /\ r \in Refused' <=> r \in Refused
        /\ Finishes(r)' = Finishes(r)
    BY <1>2, <1>9, <1>12
  <2> QED BY <1>1, <2>1, <2>2, <2>3, Unconcerned
<1>13. ASSUME NEW r \in rows PROVE Follows(r)'
  <2>1. r \in Request /\ r \in live
    BY <1>4
  <2>2. handler'[r].at \notin {"new", "returned"}
    BY <1>1, <2>1, LiveHears
  <2>3. ASSUME handler[r].at = "reading" PROVE Hears(r)'
    <3>1. /\ Opened(r) /\ AllText(events[r], Len(events[r]))
          /\ r \notin Jobs /\ r \in DOMAIN clients /\ Counted(r)
      BY <2>1, <2>3, LiveHears
    <3>2. Opened(r)' /\ AllText(events'[r], Len(events'[r]))
      BY <1>1, <3>1 DEF Opened
    <3>3. Counted(r)'
      BY <1>1, <1>2, <1>9, <1>11, <2>1, <3>1 DEF Counted
    <3>4. Runs(r)'
      BY <1>1, <1>3, <1>9, <1>11, <2>1, <3>1, <3>3 DEF Runs
    <3> QED BY <3>2, <3>4 DEF Hears
  <2> QED BY <1>1, <2>2, <2>3 DEF Follows
<1>14. \A r \in Request : Follows(r)'
  BY <1>12, <1>13
<1>15. DOMAIN answer' = Request
  BY <1>3
<1> QED BY <1>10, <1>11, <1>14, <1>15 DEF Reports

\* A step of the engine that concerns one request leaves the others' part as it was.
LEMMA EngineReports ==
  ASSUME Reports, NEW q, UNCHANGED <<handler, inbox>>, EachOnce',
         DOMAIN answer' = Request,
         \A r \in Request : DOMAIN answer'[r] = {"tokens", "end"} /\ IsSequence(answer'[r].tokens),
         \A r \in Request : r # q =>
           /\ events'[r] = events[r] /\ answer'[r] = answer[r]
           /\ r \in live' <=> r \in live
           /\ r \in Due' <=> r \in Due
           /\ r \in Ended' <=> r \in Ended
           /\ r \in Refused' <=> r \in Refused
           /\ Finishes(r)' = Finishes(r)
           /\ r \in DOMAIN clients' <=> r \in DOMAIN clients
           /\ r \in DOMAIN clients => clients'[r] = clients[r],
         q \in Request => Follows(q)'
  PROVE  Reports'
<1>1. ASSUME NEW r \in Request, r # q PROVE Follows(r)'
  <2>1. Follows(r) /\ Jobs' = Jobs
    BY DEF Reports, Jobs
  <2>2. handler'[r] = handler[r]
    OBVIOUS
  <2> QED BY <1>1, <2>1, <2>2, Unconcerned
<1>2. \A r \in Request : Follows(r)'
  BY <1>1
<1> QED BY <1>2 DEF Reports

\* What is sent stands behind what one request's client has not read.
LEMMA SendEnds ==
  ASSUME Inv, NEW q, NEW event, Send(q, event)
  PROVE  /\ \A r \in Request : r # q => events'[r] = events[r]
         /\ q \in Request /\ Reading(q) => events'[q] = Append(events[q], event)
<1>1. DOMAIN events = Request
  BY DEF Inv, Shapes
<1>2. CASE Reading(q)
  <2>1. events' = [events EXCEPT ![q] = Append(@, event)]
    BY <1>2 DEF Send
  <2> QED BY <1>1, <2>1
<1>3. CASE ~ Reading(q)
  BY <1>3 DEF Send
<1> QED BY <1>2, <1>3

\* Texts stay texts with something behind them.
LEMMA TextsKept ==
  ASSUME NEW s, IsSequence(s), NEW e, NEW n, n \in 0..Len(s), AllText(s, n)
  PROVE  AllText(Append(s, e), n)
<1>1. Len(s) \in Nat /\ \A i \in 1..Len(s) : Append(s, e)[i] = s[i]
  BY AppendShifts
<1>2. \A i \in 1..n : i \in 1..Len(s)
  BY <1>1
<1> QED BY <1>1, <1>2 DEF AllText

\* One text more is one of them.
LEMMA TextAdded ==
  ASSUME NEW s, IsSequence(s), AllText(s, Len(s)), NEW e, e.kind = "Text"
  PROVE  AllText(Append(s, e), Len(Append(s, e)))
<1>1. /\ Len(s) \in Nat /\ Len(Append(s, e)) = Len(s) + 1
      /\ \A i \in 1..Len(s) : Append(s, e)[i] = s[i]
      /\ Append(s, e)[Len(s) + 1] = e
  BY AppendShifts
<1>2. PICK y : y = Append(s, e)
  OBVIOUS
<1>3. ASSUME NEW i \in 1..(Len(s) + 1) PROVE y[i].kind = "Text"
  <2>1. i \in 1..Len(s) \/ i = Len(s) + 1
    BY <1>1
  <2> QED BY <1>1, <1>2, <2>1 DEF AllText
<1> QED BY <1>1, <1>2, <1>3 DEF AllText

\* The first to be handed on is not among the others.
LEMMA OnceTaken ==
  ASSUME NEW s, IsSequence(s), s # <<>>, Once(s)
  PROVE  /\ Once(Tail(s)) /\ \A x \in ToSet(Tail(s)) : x.id # Head(s).id
         /\ Head(s) \in ToSet(s) /\ ToSet(s) = {Head(s)} \cup ToSet(Tail(s))
<1>0. PICK e, t : e = Head(s) /\ t = Tail(s)
  OBVIOUS
<1>1. /\ Len(s) \in Nat /\ Len(s) > 0 /\ e = s[1]
      /\ DOMAIN s = 1..Len(s) /\ DOMAIN t = 1..(Len(s) - 1)
      /\ \A i \in 1..(Len(s) - 1) : t[i] = s[i + 1]
  BY <1>0, TailShifts
<1>2. e \in ToSet(s) /\ ToSet(s) = {e} \cup ToSet(t)
  BY <1>0, TailTakes
<1>3. \A i, j \in 1..Len(s) : s[i].id = s[j].id => i = j
  BY <1>1 DEF Once
<1>4. ASSUME NEW x \in ToSet(t) PROVE x.id # e.id
  <2>1. PICK i \in 1..(Len(s) - 1) : x = s[i + 1]
    BY <1>1 DEF ToSet
  <2>2. i + 1 \in 1..Len(s) /\ 1 \in 1..Len(s) /\ i + 1 # 1
    BY <1>1, <2>1
  <2> QED BY <1>1, <1>3, <2>1, <2>2
<1>5. Once(t)
  <2>1. ASSUME NEW i \in 1..(Len(s) - 1), NEW j \in 1..(Len(s) - 1), t[i].id = t[j].id
        PROVE  i = j
    <3>1. i + 1 \in 1..Len(s) /\ j + 1 \in 1..Len(s) /\ s[i + 1].id = s[j + 1].id
      BY <1>1, <2>1
    <3>2. i + 1 = j + 1
      BY <1>3, <3>1
    <3> QED BY <3>2
  <2> QED BY <1>1, <2>1 DEF Once
<1> QED BY <1>0, <1>2, <1>4, <1>5

\* A token that is handed on is due no more, and nothing else of the outcome changes.
LEMMA TokenTaken ==
  ASSUME Inv, Reports, outcome.tokens # <<>>, outcome' = [outcome EXCEPT !.tokens = Tail(@)],
         inbox' = inbox, NEW q, q = Head(outcome.tokens).id
  PROVE  /\ Due = Due' \cup {q} /\ q \notin Due' /\ EachOnce'
         /\ Ended' = Ended /\ Refused' = Refused /\ \A r : Finishes(r)' = Finishes(r)
<1>1. PICK s : s = outcome.tokens /\ IsSequence(s) /\ s # <<>> /\ Once(s)
  BY DEF Inv, Shapes, Reports, EachOnce
<1>2. PICK e : e = Head(s) /\ q = e.id
  BY <1>1
<1>3. PICK t : t = Tail(s)
  OBVIOUS
<1>4. /\ outcome'.tokens = t
      /\ outcome'.finished = outcome.finished /\ outcome'.failed = outcome.failed
  BY <1>1, <1>3 DEF Inv, Shapes
<1>5. /\ Once(t) /\ \A x \in ToSet(t) : x.id # e.id
      /\ e \in ToSet(s) /\ ToSet(s) = {e} \cup ToSet(t)
  BY <1>1, <1>2, <1>3, OnceTaken
<1>6. Due' = {x.id : x \in ToSet(t)} /\ Due = {x.id : x \in ToSet(s)}
  BY <1>1, <1>4 DEF Due
<1>7. EachOnce'
  BY <1>4, <1>5, SMTT(60) DEF Reports, EachOnce, Once
<1>8. Ended' = Ended /\ Refused' = Refused /\ \A r : Finishes(r)' = Finishes(r)
  BY <1>4 DEF Ended, Refused, Finishes
<1> QED BY <1>2, <1>5, <1>6, <1>7, <1>8

\* Who is due a token has a handler that hears texts, if it has one that reads.
LEMMA DueHears ==
  ASSUME Reports, NEW q \in Request, q \in Due
  PROVE  /\ handler[q].at \notin {"new", "returned"}
         /\ handler[q].at = "reading" =>
              /\ Opened(q) /\ AllText(events[q], Len(events[q])) /\ Runs(q)
<1>1. Follows(q)
  BY DEF Reports
<1> QED BY <1>1 DEF Follows, Silent, Nowhere, Right, Hears, Waits, Fails, Ends, Closes

\* What cancelling changes.
LEMMA CancelOne ==
  ASSUME Reports, NEW q, NEW reason, Cancel(q, reason)
  PROVE  /\ DOMAIN answer' = Request /\ live' = live \ {q}
         /\ \A r \in Request : DOMAIN answer'[r] = {"tokens", "end"}
                               /\ answer'[r].tokens = answer[r].tokens
         /\ \A r \in Request : r # q => answer'[r] = answer[r]
         /\ q \in Request /\ reason = "failed" => answer'[q].end = "failed"
<1>1. PICK x : answer' = [answer EXCEPT ![q].end = x] /\ (reason = "failed" => x = "failed")
  BY DEF Cancel
<1> QED BY <1>1 DEF Reports, Cancel

\* A token is decoded, and its client hears its text, or is gone.
LEMMA EmitReports ==
  ASSUME Inv, Reports, EmitToken
  PROVE  Reports'
<1>1. PICK q, token, text : /\ q = Head(outcome.tokens).id /\ token = Head(outcome.tokens).token
                            /\ text = Delta(clients[q], token)
  OBVIOUS
<1>2. /\ outcome.tokens # <<>> /\ outcome' = [outcome EXCEPT !.tokens = Tail(@)]
      /\ UNCHANGED <<handler, inbox>>
      /\ clients' = [clients EXCEPT ![q] = Pushed(@, token)]
      /\ IF text = <<>> THEN UNCHANGED events ELSE Send(q, Text(text))
      /\ IF text = <<>> \/ Reading(q) THEN UNCHANGED <<live, answer>>
         ELSE Cancel(q, "cancelled")
  BY <1>1 DEF EmitToken
<1>3. /\ Due = Due' \cup {q} /\ q \notin Due' /\ EachOnce'
      /\ Ended' = Ended /\ Refused' = Refused /\ \A r : Finishes(r)' = Finishes(r)
  BY <1>1, <1>2, TokenTaken
<1>4. /\ \A r \in Request : r # q => events'[r] = events[r]
      /\ q \in Request /\ Reading(q) =>
           events'[q] = IF text = <<>> THEN events[q] ELSE Append(events[q], Text(text))
  BY <1>2, SendEnds
<1>5. /\ DOMAIN answer' = Request
      /\ \A r \in Request : DOMAIN answer'[r] = {"tokens", "end"} /\ IsSequence(answer'[r].tokens)
      /\ \A r \in Request : r # q => answer'[r] = answer[r] /\ (r \in live' <=> r \in live)
      /\ Reading(q) => answer' = answer /\ live' = live
  <2>1. CASE text = <<>> \/ Reading(q)
    BY <1>2, <2>1 DEF Reports
  <2>2. CASE ~ (text = <<>> \/ Reading(q))
    BY <1>2, <2>2, CancelOne DEF Reports
  <2> QED BY <2>1, <2>2
<1>6. /\ DOMAIN clients' = DOMAIN clients
      /\ \A r \in DOMAIN clients : r # q => clients'[r] = clients[r]
      /\ q \in DOMAIN clients => clients'[q].tokens = Append(clients[q].tokens, token)
  <2>1. PICK c : c = Pushed(clients[q], token)
    OBVIOUS
  <2>2. c.tokens = Append(clients[q].tokens, token)
    BY <2>1 DEF Pushed
  <2>3. clients' = [clients EXCEPT ![q] = c]
    BY <1>2, <2>1
  <2> QED BY <2>2, <2>3
<1>7. ASSUME q \in Request PROVE Follows(q)'
  <2>1. handler'[q].at \notin {"new", "returned"}
    BY <1>2, <1>3, <1>7, DueHears
  <2>2. ASSUME handler[q].at = "reading" PROVE Hears(q)'
    <3>1. Opened(q) /\ AllText(events[q], Len(events[q])) /\ Runs(q) /\ Reading(q)
      BY <1>3, <1>7, <2>2, DueHears DEF Reading
    <3>2. AllText(events'[q], Len(events'[q]))
      <4>1. CASE text = <<>>
        BY <1>4, <1>7, <3>1, <4>1
      <4>2. CASE text # <<>>
        <5>1. PICK s : s = events[q] /\ IsSequence(s) /\ AllText(s, Len(s))
          BY <1>7, <3>1 DEF Inv, Shapes
        <5>0. PICK e : e = Text(text)
          OBVIOUS
        <5>2. e = Text(text) /\ e.kind = "Text"
          BY <5>0 DEF Text
        <5>3. PICK y : y = Append(s, e)
          OBVIOUS
        <5>4. AllText(y, Len(y))
          BY <5>1, <5>2, <5>3, TextAdded
        <5> QED BY <1>4, <1>7, <3>1, <4>2, <5>1, <5>2, <5>3, <5>4
      <4> QED BY <4>1, <4>2
    <3>3. Counted(q)'
      <4>1. PICK s : /\ s = clients[q].tokens /\ IsSequence(s)
                     /\ Len(answer[q].tokens) = Len(s) + 1
        BY <1>3, <3>1 DEF Runs, Counted
      <4>2. PICK y : y = Append(s, token)
        OBVIOUS
      <4>3. IsSequence(y) /\ Len(y) = Len(s) + 1 /\ Len(s) \in Nat
        BY <4>1, <4>2, AppendAdds, AppendShifts
      <4>4. clients'[q].tokens = y /\ answer' = answer
        BY <1>5, <1>6, <3>1, <4>1, <4>2 DEF Runs
      <4> QED BY <1>3, <4>1, <4>3, <4>4 DEF Counted
    <3>4. Opened(q)' /\ Jobs' = Jobs
      BY <1>2, <3>1 DEF Opened, Jobs
    <3>5. Runs(q)'
      BY <1>3, <1>5, <1>6, <3>1, <3>3, <3>4 DEF Runs
    <3> QED BY <3>2, <3>4, <3>5 DEF Hears
  <2> QED BY <1>2, <2>1, <2>2 DEF Follows
<1>8. \A r \in Request : r # q =>
           /\ events'[r] = events[r] /\ answer'[r] = answer[r]
           /\ r \in live' <=> r \in live
           /\ r \in Due' <=> r \in Due
           /\ r \in Ended' <=> r \in Ended
           /\ r \in Refused' <=> r \in Refused
           /\ Finishes(r)' = Finishes(r)
           /\ r \in DOMAIN clients' <=> r \in DOMAIN clients
           /\ r \in DOMAIN clients => clients'[r] = clients[r]
  BY <1>3, <1>4, <1>5, <1>6
<1> QED BY <1>2, <1>3, <1>5, <1>7, <1>8, EngineReports

\* A failure behind texts is told, and one that was told stays told.
LEMMA FailureSent ==
  ASSUME Inv, NEW q \in Request, Reading(q), NEW event, Send(q, event), handler' = handler,
         Opened(q), answer'[q].end = "failed", q \notin (Jobs \cup live \cup Due)',
         Fails(q) \/ (event = Failed /\ AllText(events[q], Len(events[q])))
  PROVE  Fails(q)'
<1>1. PICK s : s = events[q] /\ IsSequence(s)
  BY DEF Inv, Shapes
<1>2. PICK y : y = Append(s, event)
  OBVIOUS
<1>3. events'[q] = y
  BY <1>1, <1>2, SendEnds
<1>4. /\ Len(s) \in Nat /\ Len(y) = Len(s) + 1 /\ y[Len(s) + 1] = event
      /\ \A i \in 1..Len(s) : y[i] = s[i]
  BY <1>1, <1>2, AppendShifts
<1>5. \A n \in 0..Len(s) : AllText(s, n) => AllText(y, n)
  BY <1>1, <1>2, TextsKept
<1>6. \E n \in 1..Len(y) : y[n] = Failed /\ AllText(y, n - 1)
  <2>1. CASE Fails(q)
    <3>1. PICK n \in 1..Len(s) : s[n] = Failed /\ AllText(s, n - 1)
      BY <1>1, <2>1 DEF Fails
    <3>2. n \in 1..Len(y) /\ n - 1 \in 0..Len(s)
      BY <1>4, <3>1
    <3> QED BY <1>4, <1>5, <3>1, <3>2
  <2>2. CASE event = Failed /\ AllText(s, Len(s))
    <3>1. PICK n : n = Len(s) + 1
      OBVIOUS
    <3>2. n \in 1..Len(y) /\ n - 1 = Len(s) /\ y[n] = Failed /\ Len(s) \in 0..Len(s)
      BY <1>4, <2>2, <3>1
    <3> QED BY <1>5, <2>2, <3>2
  <2> QED BY <1>1, <2>1, <2>2
<1>7. Opened(q)'
  BY DEF Opened
<1> QED BY <1>3, <1>6, <1>7 DEF Fails

\* The decoder fails, and the client hears of it, or is gone.
LEMMA DecoderFailsReports ==
  ASSUME Inv, Reports, DecoderFails
  PROVE  Reports'
<1>1. PICK q : q = Head(outcome.tokens).id
  OBVIOUS
<1>2. /\ outcome.tokens # <<>> /\ outcome' = [outcome EXCEPT !.tokens = Tail(@)]
      /\ UNCHANGED <<handler, inbox>> /\ Jobs' = Jobs
      /\ clients' = [clients EXCEPT ![q].tokens = Append(@, Head(outcome.tokens).token)]
      /\ Send(q, Failed) /\ Cancel(q, "failed")
  BY <1>1 DEF DecoderFails, Jobs
<1>3. /\ Due = Due' \cup {q} /\ q \notin Due' /\ EachOnce'
      /\ Ended' = Ended /\ Refused' = Refused /\ \A r : Finishes(r)' = Finishes(r)
  BY <1>1, <1>2, TokenTaken
<1>4. \A r \in Request : r # q => events'[r] = events[r]
  BY <1>2, SendEnds
<1>5. /\ DOMAIN answer' = Request /\ live' = live \ {q}
      /\ \A r \in Request : DOMAIN answer'[r] = {"tokens", "end"} /\ IsSequence(answer'[r].tokens)
      /\ \A r \in Request : r # q => answer'[r] = answer[r]
      /\ q \in Request => answer'[q].end = "failed"
  BY <1>2, CancelOne DEF Reports
<1>6. /\ DOMAIN clients' = DOMAIN clients
      /\ \A r \in DOMAIN clients : r # q => clients'[r] = clients[r]
  <2>1. PICK c : clients' = [clients EXCEPT ![q] = c]
    BY <1>2
  <2> QED BY <2>1
<1>7. ASSUME q \in Request PROVE Follows(q)'
  <2>1. handler'[q].at \notin {"new", "returned"}
    BY <1>2, <1>3, <1>7, DueHears
  <2>2. ASSUME handler[q].at = "reading" PROVE Fails(q)'
    <3>1. Opened(q) /\ AllText(events[q], Len(events[q])) /\ Runs(q) /\ Reading(q)
      BY <1>3, <1>7, <2>2, DueHears DEF Reading
    <3>2. q \notin (Jobs \cup live \cup Due)'
      BY <1>2, <1>3, <1>5, <3>1 DEF Runs
    <3> QED BY <1>2, <1>5, <1>7, <3>1, <3>2, FailureSent
  <2> QED BY <1>2, <2>1, <2>2 DEF Follows
<1>8. \A r \in Request : r # q =>
           /\ events'[r] = events[r] /\ answer'[r] = answer[r]
           /\ r \in live' <=> r \in live
           /\ r \in Due' <=> r \in Due
           /\ r \in Ended' <=> r \in Ended
           /\ r \in Refused' <=> r \in Refused
           /\ Finishes(r)' = Finishes(r)
           /\ r \in DOMAIN clients' <=> r \in DOMAIN clients
           /\ r \in DOMAIN clients => clients'[r] = clients[r]
  BY <1>3, <1>4, <1>5, <1>6
<1> QED BY <1>2, <1>3, <1>5, <1>7, <1>8, EngineReports

\* A client is told of its failure.
LEMMA ReportFailedReports ==
  ASSUME Inv, Reports, ReportFailed
  PROVE  Reports'
<1>1. PICK s, q : s = outcome.failed /\ IsSequence(s) /\ q = Head(s)
  BY DEF Inv, Shapes
<1>2. /\ s # <<>> /\ outcome' = [outcome EXCEPT !.failed = Tail(@)]
      /\ UNCHANGED <<handler, inbox, live, answer>> /\ Jobs' = Jobs
      /\ clients' = WithoutClient(q) /\ Send(q, Failed)
  BY <1>1 DEF ReportFailed, scheduler, Jobs
<1>3. /\ outcome'.failed = Tail(s)
      /\ outcome'.tokens = outcome.tokens /\ outcome'.finished = outcome.finished
  BY <1>1, <1>2 DEF Inv, Shapes
<1>4. Refused = {q} \cup Refused'
  BY <1>1, <1>2, <1>3, TailTakes DEF Refused
<1>5. /\ Due' = Due /\ Ended' = Ended /\ EachOnce' /\ \A r : Finishes(r)' = Finishes(r)
  BY <1>2, <1>3 DEF Due, Ended, Finishes, Reports, EachOnce, Once
<1>6. \A r \in Request : r # q => events'[r] = events[r]
  BY <1>2, SendEnds
<1>7. /\ DOMAIN clients' = DOMAIN clients \ {q}
      /\ \A r \in DOMAIN clients : r # q => clients'[r] = clients[r]
  BY <1>2 DEF WithoutClient
<1>8. ASSUME q \in Request PROVE Follows(q)'
  <2>1. Follows(q) /\ q \in Refused
    BY <1>4, <1>8 DEF Reports
  <2>2. CASE handler[q].at = "reading"
    <3>1. Fails(q) \/ (Hears(q) /\ Runs(q) /\ answer[q].end = "failed")
      BY <2>1, <2>2 DEF Follows, Hears, Waits, Runs, Ends, Closes, Nowhere
    <3>2. /\ Opened(q) /\ answer[q].end = "failed" /\ q \notin Jobs \cup live \cup Due
          /\ Fails(q) \/ AllText(events[q], Len(events[q]))
      BY <3>1 DEF Fails, Hears, Runs, Finish
    <3>3. answer'[q].end = "failed" /\ q \notin (Jobs \cup live \cup Due)' /\ Reading(q)
      BY <1>2, <1>5, <2>2, <3>2 DEF Reading
    <3>4. Fails(q)'
      BY <1>2, <1>8, <3>2, <3>3, FailureSent
    <3> QED BY <1>2, <2>2, <3>4 DEF Follows
  <2>3. CASE handler[q].at = "returned"
    <3>1. Right(q)'
      BY <1>2, <1>5, <2>1, <2>3 DEF Follows, Right, GivenUp, Answered
    <3> QED BY <1>2, <2>3, <3>1 DEF Follows
  <2>4. handler[q].at # "new"
    BY <2>1 DEF Follows, Silent, Nowhere
  <2> QED BY <1>2, <2>2, <2>3, <2>4 DEF Follows
<1>9. \A r \in Request : r # q =>
           /\ events'[r] = events[r] /\ answer'[r] = answer[r]
           /\ r \in live' <=> r \in live
           /\ r \in Due' <=> r \in Due
           /\ r \in Ended' <=> r \in Ended
           /\ r \in Refused' <=> r \in Refused
           /\ Finishes(r)' = Finishes(r)
           /\ r \in DOMAIN clients' <=> r \in DOMAIN clients
           /\ r \in DOMAIN clients => clients'[r] = clients[r]
  BY <1>2, <1>4, <1>5, <1>6, <1>7
<1>10. /\ DOMAIN answer' = Request
       /\ \A r \in Request : DOMAIN answer'[r] = {"tokens", "end"} /\ IsSequence(answer'[r].tokens)
  BY <1>2 DEF Reports
<1> QED BY <1>2, <1>5, <1>8, <1>9, <1>10, EngineReports

\* The first finish that is handed on is the one its request has.
LEMMA FinishTaken ==
  ASSUME NEW s, IsSequence(s), s # <<>>, Once(s)
  PROVE  /\ FinishesIn(s, Head(s).id) = {Head(s).finish}
         /\ \A r : r # Head(s).id => FinishesIn(Tail(s), r) = FinishesIn(s, r)
<1>1. PICK e, t : e = Head(s) /\ t = Tail(s)
  OBVIOUS
<1>2. /\ \A x \in ToSet(t) : x.id # e.id
      /\ e \in ToSet(s) /\ ToSet(s) = {e} \cup ToSet(t)
  BY <1>1, OnceTaken
<1>3. {x \in ToSet(s) : x.id = e.id} = {e}
  BY <1>2
<1>4. ASSUME NEW r, r # e.id PROVE {x \in ToSet(s) : x.id = r} = {x \in ToSet(t) : x.id = r}
  BY <1>2, <1>4
<1> QED BY <1>1, <1>3, <1>4 DEF FinishesIn

\* A client is told of its finish, with as many tokens as its answer has.
LEMMA ReportFinishedReports ==
  ASSUME Inv, Reports, ReportFinished
  PROVE  Reports'
<1>1. PICK s, e : s = outcome.finished /\ IsSequence(s) /\ Once(s) /\ e = Head(s)
  BY DEF Inv, Shapes, Reports, EachOnce
<1>2. PICK q, event : /\ q = e.id
                      /\ event = Done(q, e.finish, Len(clients[q].tokens))
  OBVIOUS
<1>3. /\ s # <<>> /\ outcome' = [outcome EXCEPT !.finished = Tail(@)]
      /\ UNCHANGED <<handler, inbox, live, answer>> /\ Jobs' = Jobs
      /\ clients' = WithoutClient(q) /\ Send(q, event) /\ outcome.tokens = <<>>
  BY <1>1, <1>2 DEF ReportFinished, scheduler, Jobs
<1>4. /\ outcome'.finished = Tail(s)
      /\ outcome'.tokens = outcome.tokens /\ outcome'.failed = outcome.failed
  BY <1>1, <1>3 DEF Inv, Shapes
<1>5. PICK t : t = Tail(s)
  OBVIOUS
<1>6. /\ Once(t) /\ \A x \in ToSet(t) : x.id # q
      /\ e \in ToSet(s) /\ ToSet(s) = {e} \cup ToSet(t)
  BY <1>1, <1>2, <1>3, <1>5, OnceTaken
<1>7. Ended = {q} \cup Ended' /\ q \notin Ended'
  BY <1>1, <1>2, <1>4, <1>5, <1>6 DEF Ended
<1>8. Finishes(q) = {e.finish} /\ \A r : r # q => Finishes(r)' = Finishes(r)
  <2>1. /\ FinishesIn(s, Head(s).id) = {Head(s).finish}
        /\ \A r : r # Head(s).id => FinishesIn(Tail(s), r) = FinishesIn(s, r)
    BY <1>1, <1>3, FinishTaken
  <2>2. Finishes(q) = {e.finish}
    BY <1>1, <1>2, <2>1 DEF Finishes
  <2>3. ASSUME NEW r, r # q PROVE Finishes(r)' = Finishes(r)
    BY <1>1, <1>2, <1>4, <2>1, <2>3 DEF Finishes
  <2> QED BY <2>2, <2>3
<1>9. Due = {} /\ Due' = Due /\ Refused' = Refused /\ EachOnce'
  <2>1. ToSet(<<>>) = {}
    BY DEF ToSet
  <2> QED BY <1>3, <1>4, <1>5, <1>6, <2>1 DEF Due, Refused, Reports, EachOnce, Once
<1>10. /\ \A r \in Request : r # q => events'[r] = events[r]
       /\ q \in Request /\ Reading(q) => events'[q] = Append(events[q], event)
  BY <1>3, SendEnds
<1>11. /\ DOMAIN clients' = DOMAIN clients \ {q}
       /\ \A r \in DOMAIN clients : r # q => clients'[r] = clients[r]
  BY <1>3 DEF WithoutClient
<1>12. ASSUME q \in Request PROVE Follows(q)'
  <2>1. Follows(q) /\ q \in Ended
    BY <1>7, <1>12 DEF Reports
  <2>2. CASE handler[q].at = "reading"
    <3>1. Fails(q) \/ (Hears(q) /\ Runs(q) /\ answer[q].end \in Finish)
      BY <2>1, <2>2 DEF Follows, Hears, Waits, Runs, Ends, Closes, Nowhere
    <3>2. CASE Fails(q)
      <4>1. /\ Opened(q) /\ answer'[q].end = "failed"
            /\ q \notin (Jobs \cup live \cup Due)' /\ Reading(q)
        BY <1>3, <1>9, <2>2, <3>2 DEF Fails, Reading
      <4>2. Fails(q)'
        BY <1>3, <1>12, <3>2, <4>1, FailureSent
      <4> QED BY <1>3, <2>2, <4>2 DEF Follows
    <3>3. CASE Hears(q) /\ Runs(q) /\ answer[q].end \in Finish
      <4>1. /\ Opened(q) /\ AllText(events[q], Len(events[q])) /\ Counted(q)
            /\ q \notin Jobs \cup live \cup Refused /\ Finishes(q) = {answer[q].end}
        BY <3>3, <2>1 DEF Hears, Runs, Finish
      <4>2. e.finish = answer[q].end
        BY <1>8, <4>1
      <4>3. Len(clients[q].tokens) = Len(answer[q].tokens)
        <5>1. Len(clients[q].tokens) \in Nat
          BY <4>1, SequenceShape DEF Counted
        <5> QED BY <1>9, <4>1, <5>1 DEF Counted
      <4>4. event = Done(q, answer'[q].end, Len(answer'[q].tokens))
        BY <1>2, <1>3, <4>2, <4>3
      <4>5. Nowhere(q)'
        BY <1>3, <1>7, <1>9, <1>11, <4>1 DEF Nowhere
      <4>6. PICK u : u = events[q] /\ IsSequence(u) /\ AllText(u, Len(u))
        BY <1>12, <4>1 DEF Inv, Shapes
      <4>7. PICK y : y = Append(u, event)
        OBVIOUS
      <4>8. events'[q] = y /\ Len(y) > 0 /\ AllText(y, Len(y) - 1) /\ y[Len(y)] = event
        <5>1. Len(u) \in Nat /\ Len(y) = Len(u) + 1 /\ y[Len(u) + 1] = event
          BY <4>6, <4>7, AppendShifts
        <5>2. Len(y) - 1 = Len(u) /\ Len(y) > 0 /\ Len(u) \in 0..Len(u)
          BY <5>1
        <5>3. AllText(y, Len(u))
          BY <4>6, <4>7, <5>2, TextsKept
        <5>4. events'[q] = y
          BY <1>10, <1>12, <2>2, <4>6, <4>7 DEF Reading
        <5> QED BY <5>1, <5>2, <5>3, <5>4
      <4>9. Opened(q)' /\ answer'[q].end \in Finish
        BY <1>3, <3>3, <4>1 DEF Opened
      <4>10. Ends(q)'
        BY <4>4, <4>5, <4>8, <4>9 DEF Ends
      <4> QED BY <1>3, <2>2, <4>10 DEF Follows
    <3> QED BY <3>1, <3>2, <3>3
  <2>3. CASE handler[q].at = "returned"
    <3>1. Right(q)'
      BY <1>3, <1>9, <2>1, <2>3 DEF Follows, Right, GivenUp, Answered
    <3> QED BY <1>3, <2>3, <3>1 DEF Follows
  <2>4. handler[q].at # "new"
    BY <2>1 DEF Follows, Silent, Nowhere
  <2> QED BY <1>3, <2>2, <2>3, <2>4 DEF Follows
<1>13. \A r \in Request : r # q =>
           /\ events'[r] = events[r] /\ answer'[r] = answer[r]
           /\ r \in live' <=> r \in live
           /\ r \in Due' <=> r \in Due
           /\ r \in Ended' <=> r \in Ended
           /\ r \in Refused' <=> r \in Refused
           /\ Finishes(r)' = Finishes(r)
           /\ r \in DOMAIN clients' <=> r \in DOMAIN clients
           /\ r \in DOMAIN clients => clients'[r] = clients[r]
  BY <1>3, <1>7, <1>8, <1>9, <1>10, <1>11
<1>14. /\ DOMAIN answer' = Request
       /\ \A r \in Request : DOMAIN answer'[r] = {"tokens", "end"} /\ IsSequence(answer'[r].tokens)
  BY <1>3 DEF Reports
<1> QED BY <1>3, <1>9, <1>12, <1>13, <1>14, EngineReports

\* Whoever takes a step, every handler is told what its sequence comes to.
LEMMA ReportsNext == Inv /\ Reports /\ [Next]_vars => Reports'
<1> SUFFICES ASSUME Inv, Reports, [Next]_vars PROVE Reports'
  OBVIOUS
<1>1. ASSUME NEW r \in Request, Submit(r) \/ Disconnect(r) \/ Read(r) \/ ReadClosed(r)
      PROVE  Reports'
  BY <1>1, SubmitReports, DisconnectReports, ReadReports, ReadClosedReports
<1>2. CASE Park \/ Stop \/ Shutdown \/ UNCHANGED vars
  BY <1>2, WaitReports
<1>3. CASE Receive \/ Pass \/ PassFails
  BY <1>3, ReceiveReports, PassReports, PassFailsReports
<1>4. CASE EmitToken \/ DecoderFails \/ ReportFinished \/ ReportFailed
  BY <1>4, EmitReports, DecoderFailsReports, ReportFinishedReports, ReportFailedReports
<1> QED BY <1>1, <1>2, <1>3, <1>4 DEF Next, EngineStep

\* A handler that has returned has told its client the finish, and as many tokens,
\* as the scheduler reported for this request, once and behind all its texts; or, if
\* the generation failed, of the failure.  None returns on a channel that closed on
\* an answer, none mistakes a client's removal for one: so it is for any requests,
\* in any order of reads, hang-ups and failures (routes.rs collect, sse_stream;
\* engine.rs run, fail).
THEOREM TheEndIsTold == Spec => []ResponsesTellTheEnd
<1>1. Init => Inv /\ Reports
  BY InvInit, ReportsInit
<1>2. Inv /\ Reports /\ [Next]_vars => Inv' /\ Reports'
  BY InvNext, ReportsNext
<1>3. Reports => ResponsesTellTheEnd
  BY ReportsTell
<1> QED BY <1>1, <1>2, <1>3, PTL DEF Spec

-----------------------------------------------------------------------------
(* Induction over numbers.                                                 *)

\* A set of numbers that is not empty has a first element.
LEMMA Least ==
  ASSUME NEW P \in SUBSET Nat, P # {}
  PROVE  \E i \in P : \A j \in P : i <= j
<1>1. PICK x \in P : \A y \in P : ~ (<<y, x>> \in OpToRel(<, Nat))
  BY WFMin, NatLessThanWellFounded
<1>2. \A y \in P : ~ (y < x)
  BY <1>1 DEF OpToRel
<1>3. x \in Nat /\ \A y \in P : y \in Nat
  OBVIOUS
<1> QED BY <1>2, <1>3

\* Induction, over the set of the numbers with a property.
LEMMA Inductive ==
  ASSUME NEW a \in Nat, NEW P \in SUBSET Nat, a \in P,
         \A n \in Nat : a <= n /\ n \in P => n + 1 \in P
  PROVE  \A n \in Nat : a <= n => n \in P
<1> DEFINE Q == {n \in Nat : a <= n /\ n \notin P}
<1> SUFFICES ASSUME Q # {} PROVE FALSE
  OBVIOUS
<1>1. PICK m \in Q : \A j \in Q : m <= j
  <2>1. Q \in SUBSET Nat
    OBVIOUS
  <2> HIDE DEF Q
  <2> QED BY <2>1, Least
<1>2. m \in Nat /\ a <= m /\ m \notin P /\ m # a
  OBVIOUS
<1>3. m - 1 \in Nat /\ a <= m - 1 /\ m - 1 \notin Q
  BY <1>1, <1>2
<1> QED BY <1>2, <1>3

\* A function on a..b that has values in S, starts with c and goes on as G says.
Recurs(f, S, c, a, b, G) ==
    /\ f \in [a..b -> S]
    /\ f[a] = c
    /\ \A n \in a..b : n # a => f[n] = G[<<f[n - 1], n>>]

\* A function may be defined by its first value and how one value follows from
\* the one before it.
LEMMA Recursion ==
  ASSUME NEW S, NEW c \in S, NEW a \in Nat, NEW b \in Nat, a <= b,
         NEW G \in [S \X Nat -> S]
  PROVE  \E f : Recurs(f, S, c, a, b, G)
<1> DEFINE Solves(f, m) ==
             f[a] = c /\ \A n \in a..m : n # a => f[n] = G[<<f[n - 1], n>>]
           P == {m \in Nat : a <= m => \E f \in [a..m -> S] : Solves(f, m)}
<1>1. a \in P
  <2>1. [i \in a..a |-> c] \in [a..a -> S] /\ Solves([i \in a..a |-> c], a)
    OBVIOUS
  <2> QED BY <2>1
<1>2. ASSUME NEW m \in Nat, a <= m, m \in P PROVE m + 1 \in P
  <2>1. PICK f \in [a..m -> S] : Solves(f, m)
    BY <1>2
  <2> DEFINE g == [i \in a..(m + 1) |-> IF i = m + 1 THEN G[<<f[m], m + 1>>] ELSE f[i]]
  <2>2. f[m] \in S /\ G[<<f[m], m + 1>>] \in S
    BY <1>2
  <2>3. g \in [a..(m + 1) -> S]
    BY <1>2, <2>2
  <2>4. g[a] = c
    BY <1>2, <2>1
  <2>5. ASSUME NEW n \in a..(m + 1), n # a PROVE g[n] = G[<<g[n - 1], n>>]
    <3>1. CASE n = m + 1
      <4>1. n - 1 = m /\ m \in a..(m + 1) /\ m # m + 1
        BY <1>2, <2>5, <3>1
      <4>2. g[n - 1] = f[m] /\ g[n] = G[<<f[m], m + 1>>]
        BY <4>1, <3>1
      <4> QED BY <3>1, <4>2
    <3>2. CASE n # m + 1
      <4>1. n \in a..m /\ n - 1 \in a..m /\ n - 1 # m + 1
        BY <1>2, <2>5, <3>2
      <4>2. g[n] = f[n] /\ g[n - 1] = f[n - 1]
        BY <4>1, <3>2
      <4> QED BY <2>1, <2>5, <4>1, <4>2
    <3> QED BY <3>1, <3>2
  <2> HIDE DEF g
  <2>6. Solves(g, m + 1)
    BY <2>4, <2>5
  <2> QED BY <1>2, <2>3, <2>6
<1>3. b \in P
  <2>1. P \in SUBSET Nat
    OBVIOUS
  <2> HIDE DEF P
  <2> QED BY <1>1, <1>2, <2>1, Inductive
<1> QED BY <1>3 DEF Recurs

-----------------------------------------------------------------------------
(* Sequences put one behind the other. *)

\* The first k sequences of q, one behind the other.
Flat(q, k) == FlattenSeq([i \in 1..k |-> q[i]])

\* They are put together one by one.
LEMMA FlatSteps ==
  ASSUME NEW S, NEW n \in Nat, NEW q \in [1..n -> Seq(S)]
  PROVE  /\ Flat(q, 0) = <<>>
         /\ \A k \in 0..n : Flat(q, k) \in Seq(S)
         /\ \A k \in 1..n : Flat(q, k) = Flat(q, k - 1) \o q[k]
<1> DEFINE G == [x \in Seq(S) \X Nat |->
                   IF x[2] \in 1..n THEN x[1] \o q[x[2]] ELSE x[1]]
           Piece(k) == [i \in 1..k |-> q[i]]
           Puts(g, k) == g = [i \in 1..k |-> IF i = 1 THEN Piece(k)[i] ELSE g[i - 1] \o Piece(k)[i]]
<1>1. PICK f : Recurs(f, Seq(S), <<>>, 0, n, G)
  <2>1. G \in [Seq(S) \X Nat -> Seq(S)]
    <3>1. ASSUME NEW x \in Seq(S) \X Nat, x[2] \in 1..n PROVE x[1] \o q[x[2]] \in Seq(S)
      <4>1. x[1] \in Seq(S) /\ q[x[2]] \in Seq(S)
        BY <3>1
      <4> QED BY <4>1, ConcatProperties
    <3> QED BY <3>1
  <2>2. <<>> \in Seq(S) /\ 0 \in Nat /\ 0 <= n
    BY EmptySeq
  <2> HIDE DEF G
  <2> QED BY <2>1, <2>2, Recursion
<1>2. /\ f \in [0..n -> Seq(S)] /\ f[0] = <<>>
      /\ \A k \in 1..n : f[k] = f[k - 1] \o q[k]
  <2>1. ASSUME NEW k \in 1..n PROVE f[k] = f[k - 1] \o q[k]
    <3>1. k \in 0..n /\ k # 0 /\ k - 1 \in 0..n /\ k \in Nat
      OBVIOUS
    <3>2. f[k - 1] \in Seq(S)
      BY <1>1, <3>1 DEF Recurs
    <3>3. <<f[k - 1], k>> \in Seq(S) \X Nat
      BY <3>1, <3>2
    <3>4. G[<<f[k - 1], k>>] = f[k - 1] \o q[k]
      BY <3>3
    <3> HIDE DEF G
    <3> QED BY <1>1, <3>1, <3>4 DEF Recurs
  <2> QED BY <1>1, <2>1 DEF Recurs
<1> HIDE DEF G
<1>7. ASSUME 1 \in 1..n PROVE f[1] = q[1]
  <2>1. f[1] = f[1 - 1] \o q[1] /\ q[1] \in Seq(S)
    BY <1>2, <1>7
  <2>2. 1 - 1 = 0
    OBVIOUS
  <2>3. <<>> \o q[1] = q[1]
    BY <2>1, ConcatEmptySeq
  <2> QED BY <1>2, <2>1, <2>2, <2>3
<1>3. ASSUME NEW k \in 1..n PROVE Flat(q, k) = f[k]
  <2>1. DOMAIN Piece(k) = 1..k /\ Len(Piece(k)) = k /\ \A i \in 1..k : Piece(k)[i] = q[i]
    BY <1>3
  <2> HIDE DEF Piece
  <2>2. Puts([i \in 1..k |-> f[i]], k)
    <3>1. ASSUME NEW i \in 1..k
          PROVE  f[i] = IF i = 1 THEN Piece(k)[i] ELSE [j \in 1..k |-> f[j]][i - 1] \o Piece(k)[i]
      <4>1. CASE i = 1
        <5>1. 1 \in 1..n
          BY <1>3
        <5> QED BY <1>7, <2>1, <4>1, <5>1
      <4>2. CASE i # 1
        <5>1. i - 1 \in 1..k /\ i \in 1..n
          BY <4>2
        <5> QED BY <1>2, <2>1, <4>2, <5>1
      <4> QED BY <4>1, <4>2
    <3> QED BY <3>1
  <2>3. ASSUME NEW g, Puts(g, k) PROVE g[k] = f[k]
    <3> DEFINE P == {m \in Nat : m <= k => g[m] = f[m]}
    <3>1. \A i \in 1..k : g[i] = IF i = 1 THEN q[1] ELSE g[i - 1] \o q[i]
      BY <2>1, <2>3
    <3> HIDE DEF Puts
    <3>2. 1 \in P
      <4>1. 1 \in 1..n /\ 1 \in 1..k
        BY <1>3
      <4>2. f[1] = q[1] /\ g[1] = q[1]
        BY <1>7, <3>1, <4>1
      <4> QED BY <4>2
    <3>3. ASSUME NEW m \in Nat, 1 <= m, m \in P PROVE m + 1 \in P
      <4> SUFFICES ASSUME m + 1 <= k PROVE g[m + 1] = f[m + 1]
        OBVIOUS
      <4>1. m + 1 \in 1..k /\ m + 1 \in 1..n /\ m + 1 # 1 /\ (m + 1) - 1 = m /\ g[m] = f[m]
        BY <3>3
      <4> HIDE DEF P
      <4>2. g[m + 1] = g[m] \o q[m + 1]
        BY <3>1, <4>1
      <4>3. f[m + 1] = f[m] \o q[m + 1]
        BY <1>2, <4>1
      <4> QED BY <4>1, <4>2, <4>3
    <3>4. P \in SUBSET Nat /\ 1 \in Nat /\ k \in Nat /\ 1 <= k
      BY <1>3
    <3> HIDE DEF P
    <3>5. k \in P
      BY <3>2, <3>3, <3>4, Inductive
    <3> QED BY <3>5 DEF P
  <2> DEFINE flatten == CHOOSE g : Puts(g, k)
  <2>4. Puts(flatten, k)
    <3> HIDE DEF Puts
    <3> QED BY <2>2
  <2>5. Flat(q, k) = flatten[k]
    <3>1. Flat(q, k) = FlattenSeq(Piece(k))
      BY DEF Flat, Piece
    <3> QED BY <2>1, <3>1 DEF FlattenSeq
  <2> HIDE DEF flatten, Puts
  <2> QED BY <2>3, <2>4, <2>5
<1>4. Flat(q, 0) = <<>>
  BY DEF Flat, FlattenSeq
<1>5. ASSUME NEW k \in 1..n PROVE Flat(q, k) = Flat(q, k - 1) \o q[k]
  <2>1. CASE k = 1
    <3>1. 1 - 1 = 0 /\ q[1] \in Seq(S) /\ f[1] = q[1]
      BY <1>7, <2>1
    <3>2. <<>> \o q[1] = q[1]
      BY <3>1, ConcatEmptySeq
    <3> QED BY <1>3, <1>4, <2>1, <3>1, <3>2
  <2>2. CASE k # 1
    <3>1. k - 1 \in 1..n
      BY <2>2
    <3> QED BY <1>2, <1>3, <3>1
  <2> QED BY <2>1, <2>2
<1>6. ASSUME NEW k \in 0..n PROVE Flat(q, k) \in Seq(S)
  <2>1. CASE k = 0
    BY <1>4, <2>1, EmptySeq
  <2>2. CASE k # 0
    <3>1. k \in 1..n /\ k \in 0..n
      BY <2>2
    <3> QED BY <1>2, <1>3, <3>1
  <2> QED BY <2>1, <2>2
<1> QED BY <1>4, <1>5, <1>6

-----------------------------------------------------------------------------
(* The characters of some bytes. *)

\* What a text is made of.
Octet == Byte \cup ToSet(Replacement)

Chars(b) == [i \in DOMAIN b |-> CharAt(b, i)]

\* None of the first h characters waits for bytes that are not there yet.
Closed(b, h) ==
    \A i \in 1..h :
        b[i] # "rest" /\ i + CharLen[b[i]] - 1 > Len(b) => ~ Continues(b, i, Len(b))

\* A text may be cut behind n bytes: between two characters that do not change.
Settled(b, n) == \E h \in 0..Len(b) : Closed(b, h) /\ n = Len(Flat(Chars(b), h))

\* A character has one byte, two or three.
LEMMA CharLenIs == \A x \in Byte : x # "rest" => CharLen[x] \in 1..3
<1>1. CharLen["ascii"] = 1 /\ CharLen["lead2"] = 2 /\ CharLen["lead3"] = 3
  BY DEF CharLen
<1> QED BY <1>1 DEF Byte

\* The replacement character, byte by byte.
LEMMA ReplacementIs ==
  /\ Replacement \in Seq(Octet) /\ Len(Replacement) = 3
  /\ Replacement[1] = "EF" /\ Replacement[2] = "BF" /\ Replacement[3] = "BD"
  /\ Octet = Byte \cup {"EF", "BF", "BD"}
<1>1. /\ DOMAIN Replacement = 1..3 /\ Len(Replacement) = 3
      /\ Replacement[1] = "EF" /\ Replacement[2] = "BF" /\ Replacement[3] = "BD"
  BY DEF Replacement
<1>2. ToSet(Replacement) = {"EF", "BF", "BD"}
  <2>1. ToSet(Replacement) = {Replacement[i] : i \in 1..3}
    BY <1>1 DEF ToSet
  <2>2. 1..3 = {1, 2, 3}
    OBVIOUS
  <2> QED BY <1>1, <2>1, <2>2
<1>3. Replacement \in Seq({"EF", "BF", "BD"})
  BY DEF Replacement
<1>4. Replacement \in Seq(Octet)
  <2>1. {"EF", "BF", "BD"} \subseteq Octet
    BY <1>2 DEF Octet
  <2> QED BY <1>3, <2>1, SeqMonotonic
<1> QED BY <1>1, <1>2, <1>4 DEF Octet

\* A byte that goes on with a character makes none of its own.
LEMMA GoesOn ==
  ASSUME NEW b \in Seq(Byte), NEW i \in 1..Len(b), NEW k \in 1..(i - 1), Continues(b, k, i)
  PROVE  CharAt(b, i) = <<>>
<1>1. i \in (k + 1)..i
  OBVIOUS
<1>2. b[i] = "rest"
  BY <1>1 DEF Continues
<1> QED BY <1>2 DEF CharAt

\* A character that is cut short is replaced.
LEMMA CutShort ==
  ASSUME NEW b \in Seq(Byte), NEW i \in 1..Len(b), b[i] # "rest",
         i + CharLen[b[i]] - 1 > Len(b)
  PROVE  CharAt(b, i) = Replacement
<1>1. b[i] \in Byte /\ CharLen[b[i]] \in 1..3 /\ Len(b) \in Nat
  BY CharLenIs
<1>2. ~ (i + CharLen[b[i]] - 1 <= Len(b))
  BY <1>1
<1> QED BY <1>2 DEF CharAt

\* A character is none, the replacement, or bytes that begin one.
LEMMA CharKinds ==
  ASSUME NEW b \in Seq(Byte), NEW i \in 1..Len(b)
  PROVE  /\ CharAt(b, i) \in Seq(Octet)
         /\ \/ CharAt(b, i) \in {<<>>, Replacement}
            \/ CharAt(b, i) \in Seq(Byte) /\ CharAt(b, i) # <<>> /\ CharAt(b, i)[1] # "rest"
<1> DEFINE end == i + CharLen[b[i]] - 1
<1>1. b[i] \in Byte /\ Len(b) \in Nat
  OBVIOUS
<1>2. CASE b[i] # "rest" /\ end <= Len(b) /\ Continues(b, i, end)
  <2>1. CharLen[b[i]] \in 1..3
    BY <1>1, <1>2, CharLenIs
  <2>2. CharAt(b, i) = SubSeq(b, i, end)
    BY <1>2 DEF CharAt
  <2>3. i \in Int /\ end \in Int /\ i <= end /\ \A j \in i..end : b[j] \in Byte
    BY <1>1, <1>2, <2>1
  <2> HIDE DEF end
  <2>4. /\ SubSeq(b, i, end) \in Seq(Byte) /\ Len(SubSeq(b, i, end)) = end - i + 1
        /\ \A j \in 1..(end - i + 1) : SubSeq(b, i, end)[j] = b[i + j - 1]
    BY <2>3, SubSeqProperties
  <2>5. 1 \in 1..(end - i + 1) /\ i + 1 - 1 = i /\ end - i + 1 > 0
    BY <2>3
  <2>6. SubSeq(b, i, end)[1] = b[i] /\ SubSeq(b, i, end) # <<>>
    BY <2>4, <2>5
  <2>7. Byte \subseteq Octet
    BY DEF Octet
  <2> QED BY <1>2, <2>2, <2>4, <2>6, <2>7, SeqMonotonic
<1>3. CASE ~ (b[i] # "rest" /\ end <= Len(b) /\ Continues(b, i, end))
  <2>1. CharAt(b, i) \in {<<>>, Replacement}
    BY <1>3 DEF CharAt
  <2> QED BY <2>1, ReplacementIs, EmptySeq
<1> QED BY <1>2, <1>3

\* The characters are sequences, and what they make is put together one by one.
LEMMA TextSteps ==
  ASSUME NEW b \in Seq(Byte)
  PROVE  /\ Len(b) \in Nat /\ DOMAIN b = 1..Len(b)
         /\ Chars(b) \in [1..Len(b) -> Seq(Octet)]
         /\ DecodeBytes(b) = Flat(Chars(b), Len(b)) /\ DecodeBytes(b) \in Seq(Octet)
         /\ Flat(Chars(b), 0) = <<>>
         /\ \A k \in 0..Len(b) : Flat(Chars(b), k) \in Seq(Octet)
         /\ \A k \in 1..Len(b) : Flat(Chars(b), k) = Flat(Chars(b), k - 1) \o CharAt(b, k)
<1>1. Len(b) \in Nat /\ DOMAIN b = 1..Len(b)
  OBVIOUS
<1>2. Chars(b) \in [1..Len(b) -> Seq(Octet)] /\ \A k \in 1..Len(b) : Chars(b)[k] = CharAt(b, k)
  BY <1>1, CharKinds DEF Chars
<1>3. /\ Flat(Chars(b), 0) = <<>>
      /\ \A k \in 0..Len(b) : Flat(Chars(b), k) \in Seq(Octet)
      /\ \A k \in 1..Len(b) : Flat(Chars(b), k) = Flat(Chars(b), k - 1) \o Chars(b)[k]
  BY <1>1, <1>2, FlatSteps
<1>4. DecodeBytes(b) = Flat(Chars(b), Len(b))
  <2>1. [i \in 1..Len(b) |-> Chars(b)[i]] = [i \in DOMAIN b |-> CharAt(b, i)]
    BY <1>1, <1>2
  <2> QED BY <2>1 DEF DecodeBytes, Flat
<1>5. DecodeBytes(b) \in Seq(Octet)
  <2>1. Len(b) \in 0..Len(b)
    BY <1>1
  <2> QED BY <1>3, <1>4, <2>1
<1>6. \A k \in 1..Len(b) : Flat(Chars(b), k) = Flat(Chars(b), k - 1) \o CharAt(b, k)
  BY <1>2, <1>3
<1> QED BY <1>1, <1>2, <1>3, <1>4, <1>5, <1>6

\* A character that waits for no byte stays what it is when bytes are added.
LEMMA CharStays ==
  ASSUME NEW b \in Seq(Byte), NEW c \in Seq(Byte), NEW h \in 0..Len(b), Closed(b, h)
  PROVE  Closed(b \o c, h) /\ \A i \in 1..h : CharAt(b \o c, i) = CharAt(b, i)
<1>1. PICK d : d = b \o c
  OBVIOUS
<1>2. /\ d \in Seq(Byte) /\ Len(b) \in Nat /\ Len(d) \in Nat /\ Len(b) <= Len(d)
      /\ \A i \in 1..Len(b) : d[i] = b[i]
  <2>1. /\ b \o c \in Seq(Byte) /\ Len(b \o c) = Len(b) + Len(c)
        /\ \A i \in 1..Len(b) + Len(c) :
             (b \o c)[i] = IF i <= Len(b) THEN b[i] ELSE c[i - Len(b)]
    BY ConcatProperties
  <2>2. Len(b) \in Nat /\ Len(c) \in Nat
    OBVIOUS
  <2> QED BY <1>1, <2>1, <2>2
<1>3. ASSUME NEW i \in 1..Len(b), NEW j \in 1..Len(b)
      PROVE  Continues(d, i, j) <=> Continues(b, i, j)
  <2>1. \A k \in (i + 1)..j : k \in 1..Len(b)
    BY <1>2
  <2> QED BY <1>2, <2>1 DEF Continues
<1>4. ASSUME NEW i \in 1..h PROVE CharAt(d, i) = CharAt(b, i)
  <2> DEFINE end == i + CharLen[b[i]] - 1
  <2>1. i \in 1..Len(b) /\ b[i] \in Byte /\ d[i] = b[i]
    BY <1>2
  <2>2. CASE b[i] = "rest"
    <3>1. (\E k \in 1..(i - 1) : Continues(d, k, i)) <=> (\E k \in 1..(i - 1) : Continues(b, k, i))
      <4>1. \A k \in 1..(i - 1) : k \in 1..Len(b)
        BY <1>2, <2>1
      <4> QED BY <1>3, <2>1, <4>1
    <3> QED BY <2>1, <2>2, <3>1 DEF CharAt
  <2>3. CASE b[i] # "rest" /\ end <= Len(b)
    <3>1. CharLen[b[i]] \in 1..3
      BY <2>1, <2>3, CharLenIs
    <3>2. end \in 1..Len(b) /\ end <= Len(d) /\ i <= end
      BY <1>2, <2>1, <2>3, <3>1
    <3>3. Continues(d, i, end) <=> Continues(b, i, end)
      BY <1>3, <2>1, <3>2
    <3>4. SubSeq(d, i, end) = SubSeq(b, i, end)
      BY <1>1, <2>1, <3>2, SubSeqOfConcat1
    <3> QED BY <2>1, <2>3, <3>2, <3>3, <3>4 DEF CharAt
  <2>4. CASE b[i] # "rest" /\ end > Len(b)
    <3>1. CharLen[b[i]] \in 1..3
      BY <2>1, <2>4, CharLenIs
    <3>2. CharAt(b, i) = Replacement
      BY <2>1, <2>4, CutShort
    <3>3. ~ Continues(b, i, Len(b))
      BY <1>4, <2>4 DEF Closed
    <3>4. Len(b) - i < CharLen[b[i]]
      BY <1>2, <2>1, <2>4, <3>1
    <3>5. PICK k \in (i + 1)..Len(b) : b[k] # "rest"
      BY <2>4, <3>3, <3>4 DEF Continues
    <3>6. k \in (i + 1)..end /\ d[k] # "rest"
      <4>1. end \in Int /\ k \in 1..Len(b) /\ k <= end
        BY <1>2, <2>1, <2>4, <3>1
      <4> QED BY <1>2, <3>5, <4>1
    <3> HIDE DEF end
    <3>7. ~ Continues(d, i, end)
      BY <3>6 DEF Continues
    <3>8. CharAt(d, i) = Replacement
      BY <2>1, <2>4, <3>7 DEF CharAt, end
    <3> QED BY <3>2, <3>8
  <2>5. end <= Len(b) \/ end > Len(b) \/ b[i] = "rest"
    BY <1>2, <2>1, CharLenIs
  <2> QED BY <2>2, <2>3, <2>4, <2>5
<1>5. Closed(d, h)
  <2>1. SUFFICES ASSUME NEW i \in 1..h, d[i] # "rest", i + CharLen[d[i]] - 1 > Len(d),
                        Continues(d, i, Len(d))
                 PROVE  FALSE
    BY DEF Closed
  <2>2. i \in 1..Len(b) /\ b[i] \in Byte /\ d[i] = b[i] /\ CharLen[b[i]] \in 1..3
    BY <1>2, <2>1, CharLenIs
  <2>3. i + CharLen[b[i]] - 1 > Len(b) /\ Len(b) - i < CharLen[b[i]]
    BY <1>2, <2>1, <2>2
  <2>4. \A k \in (i + 1)..Len(b) : k \in (i + 1)..Len(d) /\ k \in 1..Len(b)
    BY <1>2, <2>2
  <2>5. Continues(b, i, Len(b))
    BY <1>2, <2>1, <2>2, <2>3, <2>4 DEF Continues
  <2> QED BY <2>1, <2>2, <2>3, <2>5 DEF Closed
<1> QED BY <1>1, <1>4, <1>5

\* And so does what those characters make.
LEMMA TextStays ==
  ASSUME NEW b \in Seq(Byte), NEW c \in Seq(Byte), NEW h \in 0..Len(b), Closed(b, h)
  PROVE  Flat(Chars(b \o c), h) = Flat(Chars(b), h) /\ b \o c \in Seq(Byte) /\ Len(b) <= Len(b \o c)
<1>1. PICK d : d = b \o c
  OBVIOUS
<1>2. d \in Seq(Byte) /\ Len(b) \in Nat /\ Len(d) \in Nat /\ Len(b) <= Len(d)
  <2>1. b \o c \in Seq(Byte) /\ Len(b \o c) = Len(b) + Len(c)
    BY ConcatProperties
  <2>2. Len(b) \in Nat /\ Len(c) \in Nat
    OBVIOUS
  <2> QED BY <1>1, <2>1, <2>2
<1>3. \A i \in 1..h : CharAt(d, i) = CharAt(b, i)
  BY <1>1, CharStays
<1>4. [i \in 1..h |-> Chars(d)[i]] = [i \in 1..h |-> Chars(b)[i]]
  <2>1. \A i \in 1..h : i \in DOMAIN d /\ i \in DOMAIN b
    BY <1>2
  <2>2. \A i \in 1..h : Chars(d)[i] = Chars(b)[i]
    BY <1>3, <2>1 DEF Chars
  <2> QED BY <2>2
<1> QED BY <1>1, <1>2, <1>4 DEF Flat

\* Behind any of its characters a text goes on with the beginning of one.
LEMMA TextGoesOn ==
  ASSUME NEW b \in Seq(Byte), NEW h \in 0..Len(b)
  PROVE  \E t \in Seq(Octet) :
            /\ DecodeBytes(b) = Flat(Chars(b), h) \o t
            /\ t # <<>> => t[1] \notin {"rest", "BF", "BD"}
<1> DEFINE Starts(t) == t # <<>> => t[1] \notin {"rest", "BF", "BD"}
           P == {k \in Nat : k <= Len(b) =>
                   \E t \in Seq(Octet) : Flat(Chars(b), k) = Flat(Chars(b), h) \o t /\ Starts(t)}
<1>1. Len(b) \in Nat /\ h \in Nat /\ Len(b) \in 0..Len(b) /\ Flat(Chars(b), h) \in Seq(Octet)
  BY TextSteps
<1>2. h \in P
  <2>1. <<>> \in Seq(Octet) /\ Starts(<<>>)
    BY EmptySeq
  <2>2. Flat(Chars(b), h) = Flat(Chars(b), h) \o <<>>
    BY <1>1, ConcatEmptySeq
  <2> QED BY <1>1, <2>1, <2>2
<1>3. ASSUME NEW k \in Nat, h <= k, k \in P PROVE k + 1 \in P
  <2> SUFFICES ASSUME k + 1 <= Len(b)
               PROVE  \E t \in Seq(Octet) :
                        Flat(Chars(b), k + 1) = Flat(Chars(b), h) \o t /\ Starts(t)
    BY SMTT(60)
  <2>1. k + 1 \in 1..Len(b) /\ k <= Len(b) /\ (k + 1) - 1 = k
    BY <1>1, <1>3
  <2>2. PICK t \in Seq(Octet) : Flat(Chars(b), k) = Flat(Chars(b), h) \o t /\ Starts(t)
    BY <1>3, <2>1
  <2> HIDE DEF P
  <2>3. PICK x : x = CharAt(b, k + 1)
    OBVIOUS
  <2>4. /\ x \in Seq(Octet)
        /\ x \in {<<>>, Replacement} \/ (x \in Seq(Byte) /\ x # <<>> /\ x[1] # "rest")
    BY <2>1, <2>3, CharKinds
  <2>5. Starts(x)
    <3>1. CASE x \in {<<>>, Replacement}
      BY <3>1, ReplacementIs
    <3>2. CASE x \in Seq(Byte) /\ x # <<>> /\ x[1] # "rest"
      <4>1. x[1] \in Byte
        BY <3>2
      <4> QED BY <3>2, <4>1 DEF Byte
    <3> QED BY <2>4, <3>1, <3>2
  <2>6. Flat(Chars(b), k + 1) = (Flat(Chars(b), h) \o t) \o x
    BY <2>1, <2>2, <2>3, TextSteps
  <2>7. (Flat(Chars(b), h) \o t) \o x = Flat(Chars(b), h) \o (t \o x)
    <3>1. PICK f : f = Flat(Chars(b), h) /\ f \in Seq(Octet)
      BY <1>1
    <3>2. (f \o t) \o x = f \o (t \o x)
      <4>1. f \in Seq(Octet) /\ t \in Seq(Octet) /\ x \in Seq(Octet)
        BY <2>2, <2>4, <3>1
      <4> QED BY ONLY <4>1, SMTT(60)
    <3> QED BY <3>1, <3>2
  <2>8. t \o x \in Seq(Octet) /\ Starts(t \o x)
    <3>1. CASE t = <<>>
      <4>1. t \o x = x
        BY <2>4, <3>1, ConcatEmptySeq
      <4> QED BY <2>4, <2>5, <4>1
    <3>2. CASE t # <<>>
      <4>1. /\ t \o x \in Seq(Octet) /\ Len(t) \in Nat \ {0} /\ Len(x) \in Nat
            /\ \A i \in 1 .. Len(t) + Len(x) :
                 (t \o x)[i] = IF i <= Len(t) THEN t[i] ELSE x[i - Len(t)]
        BY <2>2, <2>4, <3>2, ConcatProperties, EmptySeq, LenProperties
      <4>2. (t \o x)[1] = t[1]
        BY <4>1
      <4> QED BY <2>2, <3>2, <4>1, <4>2
    <3> QED BY <3>1, <3>2
  <2> HIDE DEF Starts
  <2> QED BY <2>6, <2>7, <2>8
<1>4. P \in SUBSET Nat
  OBVIOUS
<1> HIDE DEF P
<1>5. Len(b) \in P
  BY <1>1, <1>2, <1>3, <1>4, Inductive, SMTT(60)
<1>6. \E t \in Seq(Octet) : Flat(Chars(b), Len(b)) = Flat(Chars(b), h) \o t /\ Starts(t)
  <2>1. Len(b) <= Len(b)
    BY <1>1
  <2> QED BY <1>5, <2>1, Zenon DEF P
<1>7. DecodeBytes(b) = Flat(Chars(b), Len(b))
  BY TextSteps
<1> QED BY <1>6, <1>7

\* Where the elements of two texts stand in the text they make.
LEMMA Joined ==
  ASSUME NEW S, NEW s \in Seq(S), NEW t \in Seq(S), NEW y, y = s \o t
  PROVE  /\ y \in Seq(S) /\ Len(s) \in Nat /\ Len(t) \in Nat /\ Len(y) = Len(s) + Len(t)
         /\ \A i \in 1..Len(s) : y[i] = s[i]
         /\ \A i \in 1..Len(t) : y[Len(s) + i] = t[i]
<1>1. /\ s \o t \in Seq(S) /\ Len(s) \in Nat /\ Len(t) \in Nat
      /\ Len(s \o t) = Len(s) + Len(t)
      /\ \A i \in 1..Len(s) + Len(t) :
           (s \o t)[i] = IF i <= Len(s) THEN s[i] ELSE t[i - Len(s)]
  BY ConcatProperties
<1>2. \A i \in 1..Len(s) + Len(t) : y[i] = IF i <= Len(s) THEN s[i] ELSE t[i - Len(s)]
  BY <1>1
<1>3. ASSUME NEW i \in 1..Len(t) PROVE y[Len(s) + i] = t[i]
  <2>1. /\ Len(s) + i \in 1..Len(s) + Len(t) /\ ~ (Len(s) + i <= Len(s))
        /\ Len(s) + i - Len(s) = i
    BY <1>1
  <2> QED BY <1>2, <2>1
<1> QED BY <1>1, <1>2, <1>3

\* What a text begins with is cut off at its length.
LEMMA Beginning ==
  ASSUME NEW s \in Seq(Octet), NEW t \in Seq(Octet)
  PROVE  /\ s \o t \in Seq(Octet) /\ Len(s) \in Nat /\ Len(s) <= Len(s \o t)
         /\ SubSeq(s \o t, 1, Len(s)) = s
<1>1. /\ s \o t \in Seq(Octet) /\ Len(s) \in Nat /\ Len(t) \in Nat
      /\ Len(s \o t) = Len(s) + Len(t)
      /\ \A i \in 1..Len(s) + Len(t) :
           (s \o t)[i] = IF i <= Len(s) THEN s[i] ELSE t[i - Len(s)]
  BY ConcatProperties
<1>2. PICK y : y = s \o t
  OBVIOUS
<1>3. \A i \in 1..Len(s) : y[i] = s[i] /\ y[i] \in Octet
  BY <1>1, <1>2
<1>4. /\ SubSeq(y, 1, Len(s)) \in Seq(Octet) /\ Len(SubSeq(y, 1, Len(s))) = Len(s)
      /\ \A i \in 1..Len(s) : SubSeq(y, 1, Len(s))[i] = s[i]
  <2>1. 1 \in Int /\ Len(s) \in Int
    BY <1>1
  <2>2. /\ SubSeq(y, 1, Len(s)) \in Seq(Octet)
        /\ Len(SubSeq(y, 1, Len(s))) = IF 1 <= Len(s) THEN Len(s) - 1 + 1 ELSE 0
        /\ \A i \in 1..(Len(s) - 1 + 1) : SubSeq(y, 1, Len(s))[i] = y[1 + i - 1]
    BY <1>3, <2>1, SubSeqProperties
  <2> QED BY <1>1, <1>3, <2>2
<1>5. SubSeq(y, 1, Len(s)) = s
  BY <1>4, SeqEqual
<1> QED BY <1>1, <1>2, <1>5

\* A text is settled where it is not cut.
LEMMA SettledText ==
  ASSUME NEW b \in Seq(Byte), NEW n, Settled(b, n)
  PROVE  n \in Nat /\ n <= Len(DecodeBytes(b)) /\ ~ Cut(DecodeBytes(b), n)
<1>1. PICK h \in 0..Len(b) : Closed(b, h) /\ n = Len(Flat(Chars(b), h))
  BY DEF Settled
<1>2. PICK f \in Seq(Octet) : f = Flat(Chars(b), h)
  BY TextSteps
<1>3. PICK t \in Seq(Octet) : /\ DecodeBytes(b) = f \o t
                              /\ t # <<>> => t[1] \notin {"rest", "BF", "BD"}
  BY <1>2, TextGoesOn
<1>4. n = Len(f) /\ n \in Nat /\ Len(t) \in Nat /\ Len(f \o t) = n + Len(t)
  BY <1>1, <1>2, ConcatProperties
<1>5. ASSUME n < Len(f \o t) PROVE (f \o t)[n + 1] \notin {"rest", "BF", "BD"}
  <2>1. Len(t) > 0 /\ n + 1 \in 1..Len(f) + Len(t) /\ ~ (n + 1 <= Len(f)) /\ n + 1 - Len(f) = 1
    BY <1>4, <1>5
  <2>4. PICK y : y = f \o t
    OBVIOUS
  <2>5. 1 \in 1..Len(t) /\ y[Len(f) + 1] = t[1]
    BY <2>1, <2>4, Joined
  <2>2. (f \o t)[n + 1] = t[1]
    BY <1>4, <2>4, <2>5
  <2>3. t # <<>>
    BY <2>1
  <2> QED BY <1>3, <2>2, <2>3
<1> QED BY <1>3, <1>4, <1>5 DEF Cut

\* It stays so, and does not change up to there, when bytes are added.
LEMMA SettledStays ==
  ASSUME NEW b \in Seq(Byte), NEW c \in Seq(Byte), NEW n, Settled(b, n)
  PROVE  /\ b \o c \in Seq(Byte) /\ Settled(b \o c, n)
         /\ SubSeq(DecodeBytes(b \o c), 1, n) = SubSeq(DecodeBytes(b), 1, n)
<1>1. PICK h \in 0..Len(b) : Closed(b, h) /\ n = Len(Flat(Chars(b), h))
  BY DEF Settled
<1>2. PICK f \in Seq(Octet) : f = Flat(Chars(b), h)
  BY TextSteps
<1>3. PICK d : d = b \o c
  OBVIOUS
<1>4. /\ d \in Seq(Byte) /\ Len(b) <= Len(d) /\ Flat(Chars(d), h) = f /\ Closed(d, h)
  BY <1>1, <1>2, <1>3, TextStays, CharStays
<1>5. h \in 0..Len(d)
  BY <1>4
<1>6. Settled(d, n)
  BY <1>1, <1>2, <1>4, <1>5 DEF Settled
<1>7. PICK t \in Seq(Octet) : DecodeBytes(b) = f \o t
  BY <1>2, TextGoesOn
<1>8. PICK u \in Seq(Octet) : DecodeBytes(d) = f \o u
  BY <1>4, <1>5, TextGoesOn
<1>9. SubSeq(f \o t, 1, n) = f /\ SubSeq(f \o u, 1, n) = f
  BY <1>1, <1>2, Beginning
<1> QED BY <1>3, <1>4, <1>6, <1>7, <1>8, <1>9

\* What it means to end with the replacement character.
LEMMA EndsReplaced ==
  ASSUME NEW t \in Seq(Octet)
  PROVE  IsSuffix(Replacement, t) <=>
            /\ Len(t) >= 3
            /\ t[Len(t) - 2] = "EF" /\ t[Len(t) - 1] = "BF" /\ t[Len(t)] = "BD"
<1> DEFINE back == Reverse(Replacement)
           front == Reverse(t)
<1>1. /\ DOMAIN back = 1..3 /\ Len(back) = 3
      /\ back[1] = "BD" /\ back[2] = "BF" /\ back[3] = "EF"
  BY ReplacementIs DEF Reverse
<1>2. Len(t) \in Nat /\ Len(front) = Len(t) /\ \A i \in 1..Len(t) : front[i] = t[Len(t) - i + 1]
  BY DEF Reverse
<1> HIDE DEF back, front
<1>3. \A i \in 1..3 : SubSeq(back, 1, 3)[i] = back[i]
  BY <1>1
<1>4. DOMAIN SubSeq(back, 1, 3) = 1..3
  BY <1>1
<1>5. ASSUME Len(t) >= 3
      PROVE  /\ DOMAIN SubSeq(front, 1, 3) = 1..3
             /\ SubSeq(front, 1, 3)[1] = t[Len(t)]
             /\ SubSeq(front, 1, 3)[2] = t[Len(t) - 1]
             /\ SubSeq(front, 1, 3)[3] = t[Len(t) - 2]
  <2>1. SubSeq(front, 1, 3) = [i \in 1..3 |-> front[i]]
    BY <1>2, <1>5
  <2>2. front[1] = t[Len(t)] /\ front[2] = t[Len(t) - 1] /\ front[3] = t[Len(t) - 2]
    <3>1. 1 \in 1..Len(t) /\ 2 \in 1..Len(t) /\ 3 \in 1..Len(t)
      BY <1>2, <1>5
    <3>2. Len(t) - 1 + 1 = Len(t) /\ Len(t) - 2 + 1 = Len(t) - 1 /\ Len(t) - 3 + 1 = Len(t) - 2
      BY <1>2
    <3> QED BY <1>2, <3>1, <3>2
  <2> QED BY <2>1, <2>2
<1>6. IsSuffix(Replacement, t) <=>
        Len(back) <= Len(front) /\ SubSeq(back, 1, Len(back)) = SubSeq(front, 1, Len(back))
  BY DEF IsSuffix, IsPrefix, back, front
<1>7. ASSUME Len(t) >= 3
      PROVE  SubSeq(back, 1, 3) = SubSeq(front, 1, 3) <=>
               t[Len(t) - 2] = "EF" /\ t[Len(t) - 1] = "BF" /\ t[Len(t)] = "BD"
  <2>1. SubSeq(back, 1, 3) = [i \in 1..3 |-> back[i]] /\ SubSeq(front, 1, 3) = [i \in 1..3 |-> front[i]]
    BY <1>1, <1>2, <1>7
  <2>2. 1 \in 1..3 /\ 2 \in 1..3 /\ 3 \in 1..3 /\ \A i \in 1..3 : i \in {1, 2, 3}
    OBVIOUS
  <2>3. SubSeq(back, 1, 3)[1] = "BD" /\ SubSeq(back, 1, 3)[2] = "BF" /\ SubSeq(back, 1, 3)[3] = "EF"
    BY <1>1, <1>3, <2>2
  <2>4. ASSUME t[Len(t) - 2] = "EF", t[Len(t) - 1] = "BF", t[Len(t)] = "BD"
        PROVE  \A i \in 1..3 : SubSeq(back, 1, 3)[i] = SubSeq(front, 1, 3)[i]
    BY <1>5, <1>7, <2>2, <2>3, <2>4
  <2>5. ASSUME SubSeq(back, 1, 3) = SubSeq(front, 1, 3)
        PROVE  t[Len(t) - 2] = "EF" /\ t[Len(t) - 1] = "BF" /\ t[Len(t)] = "BD"
    BY <1>5, <1>7, <2>3, <2>5
  <2>6. (\A i \in 1..3 : SubSeq(back, 1, 3)[i] = SubSeq(front, 1, 3)[i]) =>
          SubSeq(back, 1, 3) = SubSeq(front, 1, 3)
    BY <2>1
  <2> QED BY <2>4, <2>5, <2>6
<1> QED BY <1>1, <1>2, <1>6, <1>7

\* What is held back is the replacement at the end, if there is one.
LEMMA StableIs ==
  ASSUME NEW t \in Seq(Octet)
  PROVE  /\ Stable(t) \in 0..Len(t)
         /\ \/ Stable(t) = Len(t) /\ ~ IsSuffix(Replacement, t)
            \/ Stable(t) = Len(t) - 3 /\ IsSuffix(Replacement, t)
<1>1. Len(t) \in Nat
  OBVIOUS
<1> QED BY <1>1, EndsReplaced, ReplacementIs DEF Stable

\* A text ends with a character, if it is not empty.
LEMMA LastCharacter ==
  ASSUME NEW b \in Seq(Byte), DecodeBytes(b) # <<>>
  PROVE  \E m \in 1..Len(b) : DecodeBytes(b) = Flat(Chars(b), m) /\ CharAt(b, m) # <<>>
<1> DEFINE P == {k \in Nat : k <= Len(b) =>
                   \/ Flat(Chars(b), k) = <<>>
                   \/ \E m \in 1..k : Flat(Chars(b), k) = Flat(Chars(b), m) /\ CharAt(b, m) # <<>>}
<1>1. Len(b) \in Nat /\ 0 \in P /\ P \in SUBSET Nat
  BY TextSteps
<1>2. ASSUME NEW k \in Nat, 0 <= k, k \in P PROVE k + 1 \in P
  <2> SUFFICES ASSUME k + 1 <= Len(b)
               PROVE  \/ Flat(Chars(b), k + 1) = <<>>
                      \/ \E m \in 1..(k + 1) : /\ Flat(Chars(b), k + 1) = Flat(Chars(b), m)
                                               /\ CharAt(b, m) # <<>>
    OBVIOUS
  <2>1. k + 1 \in 1..Len(b) /\ k + 1 \in 1..(k + 1) /\ k \in 0..Len(b) /\ (k + 1) - 1 = k
    BY <1>1, <1>2
  <2>2. CASE CharAt(b, k + 1) # <<>>
    BY <2>1, <2>2
  <2>3. CASE CharAt(b, k + 1) = <<>>
    <3>1. Flat(Chars(b), k + 1) = Flat(Chars(b), k) \o <<>> /\ Flat(Chars(b), k) \in Seq(Octet)
      BY <2>1, <2>3, TextSteps
    <3>2. Flat(Chars(b), k + 1) = Flat(Chars(b), k)
      BY <3>1, ConcatEmptySeq
    <3>3. \/ Flat(Chars(b), k) = <<>>
          \/ \E m \in 1..k : Flat(Chars(b), k) = Flat(Chars(b), m) /\ CharAt(b, m) # <<>>
      BY <1>2, <2>1
    <3>4. \A m \in 1..k : m \in 1..(k + 1)
      BY <1>2
    <3> HIDE DEF P
    <3> QED BY <3>2, <3>3, <3>4
  <2> QED BY <2>2, <2>3
<1> HIDE DEF P
<1>3. Len(b) \in P
  BY <1>1, <1>2, Inductive
<1>4. \/ Flat(Chars(b), Len(b)) = <<>>
      \/ \E m \in 1..Len(b) : /\ Flat(Chars(b), Len(b)) = Flat(Chars(b), m)
                              /\ CharAt(b, m) # <<>>
  BY <1>1, <1>3 DEF P
<1>5. DecodeBytes(b) = Flat(Chars(b), Len(b))
  BY TextSteps
<1> QED BY <1>4, <1>5

\* A character that is there has none before it that waits for bytes.
LEMMA ClosedBefore ==
  ASSUME NEW b \in Seq(Byte), NEW m \in 1..Len(b), CharAt(b, m) # <<>>
  PROVE  Closed(b, m - 1) /\ (CharAt(b, m) # Replacement => Closed(b, m))
<1>1. Len(b) \in Nat
  OBVIOUS
<1>2. ASSUME NEW j \in 1..(m - 1), b[j] # "rest", Continues(b, j, Len(b)) PROVE FALSE
  <2>1. j \in 1..Len(b) /\ b[j] \in Byte /\ CharLen[b[j]] \in 1..3
    BY <1>1, <1>2, CharLenIs
  <2>2. \A k \in (j + 1)..m : k \in (j + 1)..Len(b)
    BY <1>1, <2>1
  <2>3. m - j < CharLen[b[j]]
    BY <1>1, <1>2, <2>1 DEF Continues
  <2>4. Continues(b, j, m)
    BY <1>2, <2>2, <2>3 DEF Continues
  <2> QED BY <2>4, GoesOn
<1>3. Closed(b, m - 1)
  BY <1>2 DEF Closed
<1>4. ASSUME CharAt(b, m) # Replacement PROVE Closed(b, m)
  <2>1. SUFFICES ASSUME NEW j \in 1..m, b[j] # "rest", j + CharLen[b[j]] - 1 > Len(b),
                        Continues(b, j, Len(b))
                 PROVE  FALSE
    BY DEF Closed
  <2>2. j = m \/ j \in 1..(m - 1)
    OBVIOUS
  <2> QED BY <1>2, <1>4, <2>1, <2>2, CutShort
<1> QED BY <1>3, <1>4

\* What is emitted, all but a replacement at the end, is settled.
LEMMA StableSettles ==
  ASSUME NEW b \in Seq(Byte)
  PROVE  Settled(b, Stable(DecodeBytes(b)))
<1> DEFINE text == DecodeBytes(b)
<1>1. Len(b) \in Nat /\ text \in Seq(Octet)
  BY TextSteps
<1>2. CASE text = <<>>
  <2>1. Flat(Chars(b), 0) = <<>> /\ Closed(b, 0) /\ 0 \in 0..Len(b)
    BY <1>1, TextSteps DEF Closed
  <2>2. Stable(text) = 0
    <3>1. Len(text) = 0
      BY <1>2
    <3>2. Stable(text) \in 0..Len(text)
      BY <1>1, StableIs
    <3> HIDE DEF text
    <3> QED BY <3>1, <3>2
  <2>3. Len(Flat(Chars(b), 0)) = 0
    BY <2>1
  <2> QED BY <2>1, <2>2, <2>3 DEF Settled
<1>3. CASE text # <<>>
  <2>1. PICK m \in 1..Len(b) : text = Flat(Chars(b), m) /\ CharAt(b, m) # <<>>
    BY <1>3, LastCharacter
  <2>2. PICK f, x : f = Flat(Chars(b), m - 1) /\ x = CharAt(b, m)
    OBVIOUS
  <2>3. m - 1 \in 0..Len(b) /\ m \in 0..Len(b)
    BY <1>1
  <2>4. f \in Seq(Octet) /\ text = f \o x
    BY <2>1, <2>2, <2>3, TextSteps
  <2>5. x \in Seq(Octet) /\ (x = Replacement \/ (x \in Seq(Byte) /\ x # <<>>))
    BY <2>1, <2>2, CharKinds
  <2> HIDE DEF text
  <2>6. /\ Len(f) \in Nat /\ Len(x) \in Nat \ {0} /\ Len(text) = Len(f) + Len(x)
        /\ \A i \in 1..Len(f) + Len(x) : text[i] = IF i <= Len(f) THEN f[i] ELSE x[i - Len(f)]
    <3>1. x # <<>>
      BY <2>1, <2>2
    <3> QED BY <2>4, <2>5, <3>1, ConcatProperties, EmptySeq, LenProperties
  <2>7. CASE x = Replacement
    <3>1. /\ Len(x) = 3 /\ Len(text) = Len(f) + 3
          /\ x[1] = "EF" /\ x[2] = "BF" /\ x[3] = "BD"
      BY <2>6, <2>7, ReplacementIs
    <3>2. /\ text[Len(text) - 2] = x[1] /\ text[Len(text) - 1] = x[2] /\ text[Len(text)] = x[3]
      BY <2>6, <3>1
    <3>3. Stable(text) = Len(f)
      BY <1>1, <2>6, <3>1, <3>2, StableIs, EndsReplaced, SMTT(60)
    <3>4. Closed(b, m - 1)
      BY <2>1, ClosedBefore
    <3> QED BY <2>2, <2>3, <3>3, <3>4 DEF Settled, text
  <2>8. CASE x # Replacement
    <3>1. x[Len(x)] \in Byte
      BY <2>5, <2>6, <2>8
    <3>2. text[Len(text)] = x[Len(x)]
      BY <2>6
    <3>3. x[Len(x)] # "BD"
      BY <3>1 DEF Byte
    <3>4. Stable(text) = Len(text)
      BY <1>1, <3>2, <3>3, StableIs, EndsReplaced
    <3>5. Closed(b, m)
      BY <2>1, <2>2, <2>8, ClosedBefore
    <3> QED BY <2>1, <2>3, <3>4, <3>5 DEF Settled, text
  <2> QED BY <2>7, <2>8
<1> QED BY <1>2, <1>3

\* What is settled and no less than stable is all of a text but for one replacement.
LEMMA AllButHeld ==
  ASSUME NEW t \in Seq(Octet), NEW n \in 0..Len(t), ~ Cut(t, n), n >= Stable(t)
  PROVE  AllBut(SubSeq(t, 1, n), t)
<1>1. Len(t) \in Nat
  OBVIOUS
<1>2. CASE n = Len(t)
  BY <1>2, SubSeqFull DEF AllBut
<1>3. CASE n # Len(t)
  <2>1. n < Len(t) /\ Stable(t) = Len(t) - 3 /\ IsSuffix(Replacement, t)
    BY <1>1, <1>3, StableIs
  <2>2. /\ Len(t) >= 3
        /\ t[Len(t) - 2] = "EF" /\ t[Len(t) - 1] = "BF" /\ t[Len(t)] = "BD"
    BY <2>1, EndsReplaced
  <2>3. t[n + 1] \notin {"BF", "BD"}
    BY <2>1 DEF Cut
  <2>4. n = Len(t) - 3
    <3>1. n \in {Len(t) - 3, Len(t) - 2, Len(t) - 1}
      BY <1>1, <2>1
    <3>2. n + 1 # Len(t) - 1 /\ n + 1 # Len(t)
      BY <2>2, <2>3
    <3> QED BY <1>1, <3>1, <3>2
  <2>5. PICK s : s = SubSeq(t, 1, n)
    OBVIOUS
  <2>6. s \in Seq(Octet) /\ Len(s) = n /\ \A i \in 1..n : s[i] = t[i]
    BY <1>1, <2>1, <2>4, <2>5
  <2>7. PICK y : y = s \o Replacement
    OBVIOUS
  <2>8. /\ y \in Seq(Octet) /\ Len(y) = n + 3 /\ \A i \in 1..n : y[i] = s[i]
        /\ y[n + 1] = "EF" /\ y[n + 2] = "BF" /\ y[n + 3] = "BD"
    <3>0. PICK x \in Seq(Octet) : x = Replacement
      BY ReplacementIs
    <3>1. /\ y \in Seq(Octet) /\ Len(y) = Len(s) + Len(Replacement)
          /\ \A i \in 1..Len(s) : y[i] = s[i]
          /\ \A i \in 1..Len(Replacement) : y[Len(s) + i] = Replacement[i]
      <4>1. s \in Seq(Octet) /\ y = s \o x
        BY <2>6, <2>7, <3>0
      <4> QED BY <3>0, <4>1, Joined
    <3>2. 1 \in 1..3 /\ 2 \in 1..3 /\ 3 \in 1..3
      OBVIOUS
    <3> QED BY <2>6, <3>1, <3>2, ReplacementIs
  <2>9. y = t
    <3>1. Len(y) = Len(t)
      BY <1>1, <2>4, <2>8
    <3>2. ASSUME NEW i \in 1..Len(y) PROVE y[i] = t[i]
      <4>1. i \in 1..n \/ i = n + 1 \/ i = n + 2 \/ i = n + 3
        BY <2>8
      <4>2. n + 1 = Len(t) - 2 /\ n + 2 = Len(t) - 1 /\ n + 3 = Len(t)
        BY <1>1, <2>4
      <4> QED BY <2>2, <2>6, <2>8, <4>1, <4>2
    <3> QED BY <2>8, <3>1, <3>2, SeqEqual
  <2> QED BY <2>5, <2>7, <2>9 DEF AllBut
<1> QED BY <1>2, <1>3

\* A sequence of texts with one more behind it.
LEMMA FlattenMore ==
  ASSUME NEW S, NEW n \in Nat, NEW p \in [1..(n + 1) -> Seq(S)], NEW q \in [1..n -> Seq(S)],
         \A i \in 1..n : p[i] = q[i]
  PROVE  /\ FlattenSeq(q) \in Seq(S) /\ FlattenSeq(p) \in Seq(S)
         /\ FlattenSeq(p) = FlattenSeq(q) \o p[n + 1]
<1>1. n + 1 \in Nat /\ n + 1 \in 1..(n + 1) /\ (n + 1) - 1 = n /\ n \in 0..n /\ n + 1 \in 0..(n + 1)
  OBVIOUS
<1>2. [i \in 1..n |-> p[i]] = q /\ [i \in 1..n |-> q[i]] = q /\ [i \in 1..(n + 1) |-> p[i]] = p
  OBVIOUS
<1>3. Flat(p, n) = FlattenSeq(q) /\ Flat(q, n) = FlattenSeq(q) /\ Flat(p, n + 1) = FlattenSeq(p)
  BY <1>2 DEF Flat
<1>4. Flat(q, n) \in Seq(S)
  BY <1>1, FlatSteps
<1>5. /\ Flat(p, n + 1) \in Seq(S)
      /\ Flat(p, n + 1) = Flat(p, (n + 1) - 1) \o p[n + 1]
  BY <1>1, FlatSteps
<1> QED BY <1>1, <1>3, <1>4, <1>5

\* A sequence of texts without its first.
LEMMA FlattenLess ==
  ASSUME NEW S, NEW n \in Nat, NEW p \in [1..(n + 1) -> Seq(S)], NEW q \in [1..n -> Seq(S)],
         \A i \in 1..n : q[i] = p[i + 1]
  PROVE  FlattenSeq(p) = p[1] \o FlattenSeq(q)
<1> DEFINE Behind(k) == Flat(p, k + 1) = p[1] \o Flat(q, k)
           P == {k \in Nat : k <= n => Behind(k)}
<1>1. /\ Flat(p, 0) = <<>> /\ Flat(q, 0) = <<>>
      /\ \A k \in 0..n : Flat(q, k) \in Seq(S)
      /\ \A k \in 1..(n + 1) : Flat(p, k) = Flat(p, k - 1) \o p[k]
      /\ \A k \in 1..n : Flat(q, k) = Flat(q, k - 1) \o q[k]
  <2>1. n + 1 \in Nat
    OBVIOUS
  <2>2. /\ Flat(p, 0) = <<>>
        /\ \A k \in 1..(n + 1) : Flat(p, k) = Flat(p, k - 1) \o p[k]
    BY <2>1, FlatSteps, ZenonT(60)
  <2>3. /\ Flat(q, 0) = <<>>
        /\ \A k \in 0..n : Flat(q, k) \in Seq(S)
        /\ \A k \in 1..n : Flat(q, k) = Flat(q, k - 1) \o q[k]
    BY FlatSteps, ZenonT(60)
  <2> QED BY <2>2, <2>3
<1>2. p[1] \in Seq(S)
  OBVIOUS
<1>3. 0 \in P
  <2>1. 1 \in 1..(n + 1) /\ 1 - 1 = 0 /\ 0 + 1 = 1
    OBVIOUS
  <2>2. Flat(p, 1) = Flat(p, 1 - 1) \o p[1]
    BY <1>1, <2>1
  <2>3. <<>> \o p[1] = p[1] /\ p[1] \o <<>> = p[1]
    BY <1>2, ConcatEmptySeq
  <2>4. Behind(0)
    BY <1>1, <2>1, <2>2, <2>3
  <2> HIDE DEF Behind
  <2> QED BY <2>4
<1>4. ASSUME NEW k \in Nat, 0 <= k, k \in P PROVE k + 1 \in P
  <2> HIDE DEF Behind
  <2> SUFFICES ASSUME k + 1 <= n PROVE Behind(k + 1)
    OBVIOUS
  <2>1. /\ k + 1 \in 1..n /\ k + 1 + 1 \in 1..(n + 1) /\ k \in 0..n /\ k <= n
        /\ (k + 1) - 1 = k /\ (k + 1 + 1) - 1 = k + 1
    BY <1>4
  <2>2. Flat(p, k + 1) = p[1] \o Flat(q, k)
    BY <1>4, <2>1 DEF Behind
  <2> HIDE DEF P
  <2>3. PICK x, y \in Seq(S) : x = Flat(q, k) /\ y = q[k + 1] /\ y = p[k + 1 + 1]
    BY <1>1, <2>1
  <2>4. Flat(p, k + 1 + 1) = (p[1] \o x) \o y
    BY <1>1, <2>1, <2>2, <2>3
  <2>5. Flat(q, k + 1) = x \o y
    BY <1>1, <2>1, <2>3
  <2>7. (p[1] \o x) \o y = p[1] \o (x \o y)
    <3>1. PICK z \in Seq(S) : z = p[1]
      BY <1>2
    <3>2. (z \o x) \o y = z \o (x \o y)
      BY ONLY x \in Seq(S), y \in Seq(S), z \in Seq(S), SMTT(60)
    <3> QED BY <3>1, <3>2
  <2> QED BY <2>4, <2>5, <2>7 DEF Behind
<1>5. P \in SUBSET Nat /\ 0 \in Nat /\ n \in Nat /\ 0 <= n
  OBVIOUS
<1> HIDE DEF P
<1>6. n \in P
  BY <1>3, <1>4, <1>5, Inductive
<1>7. Flat(p, n + 1) = p[1] \o Flat(q, n)
  <2> HIDE DEF Behind
  <2>1. Behind(n)
    BY <1>6 DEF P
  <2> QED BY <2>1 DEF Behind
<1>8. [i \in 1..n |-> q[i]] = q /\ [i \in 1..(n + 1) |-> p[i]] = p
  OBVIOUS
<1> QED BY <1>7, <1>8 DEF Flat

-----------------------------------------------------------------------------
(* The texts of tokens. *)

BytesOf(tokens) == FlattenSeq([i \in DOMAIN tokens |-> Bytes[tokens[i]]])

\* No token has no bytes, and one more adds its own.
LEMMA BytesGrow ==
  /\ BytesOf(<<>>) = <<>>
  /\ \A tokens \in Seq(DOMAIN Bytes) : BytesOf(tokens) \in Seq(Byte)
  /\ \A tokens \in Seq(DOMAIN Bytes), token \in DOMAIN Bytes :
       /\ BytesOf(Append(tokens, token)) = BytesOf(tokens) \o Bytes[token]
       /\ Bytes[token] \in Seq(Byte)
<1>1. BytesOf(<<>>) = <<>>
  BY DEF BytesOf, FlattenSeq
<1>2. ASSUME NEW tokens \in Seq(DOMAIN Bytes), NEW token \in DOMAIN Bytes
      PROVE  /\ BytesOf(tokens) \in Seq(Byte)
             /\ BytesOf(Append(tokens, token)) = BytesOf(tokens) \o Bytes[token]
             /\ Bytes[token] \in Seq(Byte)
  <2>1. PICK n \in Nat : n = Len(tokens) /\ DOMAIN tokens = 1..n
    OBVIOUS
  <2>2. PICK more : more = Append(tokens, token)
    OBVIOUS
  <2>3. /\ DOMAIN more = 1..(n + 1) /\ more[n + 1] = token
        /\ \A i \in 1..n : more[i] = tokens[i] /\ tokens[i] \in DOMAIN Bytes
        /\ \A i \in 1..(n + 1) : more[i] \in DOMAIN Bytes
    BY <2>1, <2>2
  <2>4. \A t \in DOMAIN Bytes : Bytes[t] \in Seq(Byte)
    BY DecoderAssumption
  <2>5. PICK p, q : /\ p = [i \in DOMAIN more |-> Bytes[more[i]]]
                    /\ q = [i \in DOMAIN tokens |-> Bytes[tokens[i]]]
    OBVIOUS
  <2>6. p \in [1..(n + 1) -> Seq(Byte)] /\ q \in [1..n -> Seq(Byte)]
    BY <2>1, <2>3, <2>4, <2>5
  <2>7. n + 1 \in 1..(n + 1) /\ \A i \in 1..n : i \in 1..(n + 1)
    OBVIOUS
  <2>8. p[n + 1] = Bytes[token] /\ \A i \in 1..n : p[i] = q[i]
    BY <2>1, <2>3, <2>5, <2>7
  <2>9. FlattenSeq(q) \in Seq(Byte) /\ FlattenSeq(p) = FlattenSeq(q) \o p[n + 1]
    BY <2>6, <2>8, FlattenMore
  <2>10. FlattenSeq(p) = BytesOf(Append(tokens, token)) /\ FlattenSeq(q) = BytesOf(tokens)
    BY <2>2, <2>5 DEF BytesOf
  <2> QED BY <2>4, <2>8, <2>9, <2>10
<1>3. ASSUME NEW tokens \in Seq(DOMAIN Bytes) PROVE BytesOf(tokens) \in Seq(Byte)
  <2>1. CASE \E token : token \in DOMAIN Bytes
    BY <1>2, <2>1
  <2>2. CASE ~ \E token : token \in DOMAIN Bytes
    <3>1. tokens = <<>>
      BY <2>2
    <3> QED BY <1>1, <3>1, EmptySeq
  <2> QED BY <2>1, <2>2
<1> QED BY <1>1, <1>2, <1>3

\* Within what the table holds a text is that of the bytes.
LEMMA DecodeIs ==
  ASSUME NEW tokens \in Seq(DOMAIN Bytes), Len(tokens) <= MostTokens
  PROVE  Decode(tokens) = DecodeBytes(BytesOf(tokens))
<1>1. Len(tokens) \in 0..MostTokens /\ tokens \in [1..Len(tokens) -> DOMAIN Bytes]
  BY DecoderAssumption
<1>2. tokens \in BoundedSeq(DOMAIN Bytes, MostTokens)
  BY <1>1 DEF BoundedSeq, SeqOf
<1> QED BY <1>2 DEF Decode, Texts, BytesOf

-----------------------------------------------------------------------------
(* A decoder, and what it has emitted.                                     *)

\* What a decoder has emitted of the text of its tokens.
Within(d) == SubSeq(Decode(d.tokens), 1, d.emitted)

\* It has not cut a character, and what was sent is the beginning of it.
Keeps(d, sent) ==
    /\ DOMAIN d = {"tokens", "emitted"} /\ d.tokens \in Seq(Token)
    /\ Len(d.tokens) <= MostTokens
    /\ Settled(BytesOf(d.tokens), d.emitted)
    /\ sent \in Seq(Octet) /\ \E rest \in Seq(Octet) : Within(d) = sent \o rest

\* All of it was sent, and nothing but a replacement at the end is held back.
Tells(d, sent) == sent = Within(d) /\ d.emitted >= Stable(Decode(d.tokens))

\* The text of some tokens, and of one more.
LEMMA OneMore ==
  ASSUME NEW tokens \in Seq(Token), NEW token \in Token, Len(tokens) + 1 <= MostTokens
  PROVE  /\ Append(tokens, token) \in Seq(Token) /\ Len(Append(tokens, token)) = Len(tokens) + 1
         /\ BytesOf(tokens) \in Seq(Byte) /\ BytesOf(Append(tokens, token)) \in Seq(Byte)
         /\ Bytes[token] \in Seq(Byte)
         /\ BytesOf(Append(tokens, token)) = BytesOf(tokens) \o Bytes[token]
         /\ Decode(tokens) = DecodeBytes(BytesOf(tokens)) /\ Decode(tokens) \in Seq(Octet)
         /\ Decode(Append(tokens, token)) = DecodeBytes(BytesOf(Append(tokens, token)))
         /\ Decode(Append(tokens, token)) \in Seq(Octet)
<1>1. PICK more : more = Append(tokens, token)
  OBVIOUS
<1>2. /\ more \in Seq(Token) /\ Len(more) = Len(tokens) + 1
      /\ Len(more) <= MostTokens /\ Len(tokens) <= MostTokens
  BY <1>1, DecoderAssumption
<1>3. /\ BytesOf(tokens) \in Seq(Byte) /\ BytesOf(more) \in Seq(Byte)
      /\ Bytes[token] \in Seq(Byte) /\ BytesOf(more) = BytesOf(tokens) \o Bytes[token]
  BY <1>1, <1>2, BytesGrow DEF Token
<1>4. Decode(tokens) = DecodeBytes(BytesOf(tokens)) /\ Decode(more) = DecodeBytes(BytesOf(more))
  BY <1>2, DecodeIs DEF Token
<1>5. Decode(tokens) \in Seq(Octet) /\ Decode(more) \in Seq(Octet)
  BY <1>3, <1>4, TextSteps
<1> QED BY <1>1, <1>2, <1>3, <1>4, <1>5

\* What a decoder keeps is within its text.
LEMMA KeepsWithin ==
  ASSUME NEW d, NEW sent, Keeps(d, sent)
  PROVE  /\ Decode(d.tokens) = DecodeBytes(BytesOf(d.tokens)) /\ Decode(d.tokens) \in Seq(Octet)
         /\ BytesOf(d.tokens) \in Seq(Byte)
         /\ d.emitted \in Nat /\ d.emitted <= Len(Decode(d.tokens))
         /\ ~ Cut(Decode(d.tokens), d.emitted)
<1>1. BytesOf(d.tokens) \in Seq(Byte) /\ Decode(d.tokens) = DecodeBytes(BytesOf(d.tokens))
  BY BytesGrow, DecodeIs DEF Keeps, Token
<1>2. Decode(d.tokens) \in Seq(Octet)
  BY <1>1, TextSteps
<1>3. /\ d.emitted \in Nat /\ d.emitted <= Len(DecodeBytes(BytesOf(d.tokens)))
      /\ ~ Cut(DecodeBytes(BytesOf(d.tokens)), d.emitted)
  BY <1>1, SettledText DEF Keeps
<1> QED BY <1>1, <1>2, <1>3

\* A decoder starts with nothing, and nothing sent.
LEMMA NewDecoderKeeps == Keeps(NewDecoder, <<>>) /\ Tells(NewDecoder, <<>>)
<1>1. NewDecoder.tokens = <<>> /\ NewDecoder.emitted = 0 /\ DOMAIN NewDecoder = {"tokens", "emitted"}
  BY DEF NewDecoder
<1>2. <<>> \in Seq(Token) /\ <<>> \in Seq(Octet) /\ <<>> \in Seq(Byte) /\ Len(<<>>) = 0 /\ 0 <= MostTokens
  BY EmptySeq, DecoderAssumption
<1>3. BytesOf(<<>>) = <<>>
  BY BytesGrow
<1>4. Flat(Chars(<<>>), 0) = <<>> /\ DecodeBytes(<<>>) = Flat(Chars(<<>>), 0)
  BY <1>2, TextSteps
<1>5. Decode(<<>>) = <<>>
  BY <1>2, <1>3, <1>4, DecodeIs DEF Token
<1>6. Settled(<<>>, 0)
  <2>1. Closed(<<>>, 0) /\ 0 \in 0..Len(<<>>)
    BY <1>2 DEF Closed
  <2> QED BY <1>2, <1>4, <2>1 DEF Settled
<1>7. SubSeq(<<>>, 1, 0) = <<>> /\ <<>> \o <<>> = <<>>
  BY <1>2, ConcatEmptySeq
<1>8. Stable(<<>>) = 0
  <2>1. PICK t : t = <<>>
    OBVIOUS
  <2>2. t \in Seq(Octet) /\ Len(t) = 0
    BY <1>2, <2>1
  <2>3. Stable(t) \in 0..Len(t)
    BY <2>2, StableIs
  <2> QED BY <2>1, <2>2, <2>3
<1>9. Within(NewDecoder) = <<>>
  BY <1>1, <1>5, <1>7 DEF Within
<1>10. PICK d, none : d = NewDecoder /\ none = <<>>
  OBVIOUS
<1>11. /\ DOMAIN d = {"tokens", "emitted"} /\ d.tokens = none /\ d.emitted = 0
       /\ none \in Seq(Token) /\ none \in Seq(Octet) /\ Len(none) <= MostTokens
       /\ BytesOf(none) = none /\ Decode(none) = none /\ Stable(none) = 0
       /\ Settled(none, 0) /\ Within(d) = none /\ none = none \o none
  BY <1>1, <1>2, <1>3, <1>5, <1>6, <1>7, <1>8, <1>9, <1>10
<1>12. Keeps(d, none) /\ Tells(d, none)
  BY <1>11 DEF Keeps, Tells
<1> QED BY <1>10, <1>12

\* One token more takes nothing back of what was emitted.
LEMMA EmittedStays ==
  ASSUME NEW d, NEW sent, Keeps(d, sent), NEW token \in Token, Len(d.tokens) + 1 <= MostTokens,
         NEW e, DOMAIN e = {"tokens", "emitted"}, e.tokens = Append(d.tokens, token)
  PROVE  /\ Settled(BytesOf(e.tokens), d.emitted)
         /\ SubSeq(Decode(e.tokens), 1, d.emitted) = Within(d)
         /\ e.emitted = d.emitted => Keeps(e, sent)
         /\ Decode(e.tokens) = DecodeBytes(BytesOf(e.tokens)) /\ Decode(e.tokens) \in Seq(Octet)
         /\ BytesOf(e.tokens) \in Seq(Byte) /\ e.tokens \in Seq(Token)
         /\ Len(e.tokens) <= MostTokens
<1>1. d.tokens \in Seq(Token) /\ Settled(BytesOf(d.tokens), d.emitted)
  BY DEF Keeps
<1>2. PICK b, c, n : b = BytesOf(d.tokens) /\ c = Bytes[token] /\ n = d.emitted
  OBVIOUS
<1>3. /\ e.tokens \in Seq(Token) /\ Len(e.tokens) = Len(d.tokens) + 1
      /\ b \in Seq(Byte) /\ c \in Seq(Byte) /\ BytesOf(e.tokens) = b \o c
      /\ Decode(d.tokens) = DecodeBytes(b) /\ Decode(e.tokens) = DecodeBytes(BytesOf(e.tokens))
      /\ Decode(e.tokens) \in Seq(Octet) /\ BytesOf(e.tokens) \in Seq(Byte)
  BY <1>1, <1>2, OneMore, ZenonT(60)
<1>4. Settled(b \o c, n) /\ SubSeq(DecodeBytes(b \o c), 1, n) = SubSeq(DecodeBytes(b), 1, n)
  <2>1. Settled(b, n)
    BY <1>1, <1>2
  <2> QED BY <1>3, <2>1, SettledStays, ZenonT(60)
<1>5. SubSeq(Decode(e.tokens), 1, d.emitted) = Within(d)
  BY <1>2, <1>3, <1>4 DEF Within
<1>6. Len(e.tokens) <= MostTokens
  BY <1>3
<1>7. ASSUME e.emitted = d.emitted PROVE Keeps(e, sent)
  <2>1. Within(e) = Within(d)
    BY <1>5, <1>7 DEF Within
  <2> QED BY <1>2, <1>3, <1>4, <1>6, <1>7, <2>1 DEF Keeps
<1> QED BY <1>2, <1>3, <1>4, <1>5, <1>6, <1>7

\* What a beginning goes on with makes a longer one.
LEMMA LongerBeginning ==
  ASSUME NEW t \in Seq(Octet), NEW m \in Nat, NEW n \in Nat, m <= n, n <= Len(t)
  PROVE  /\ SubSeq(t, 1, m) \in Seq(Octet) /\ SubSeq(t, 1, n) \in Seq(Octet)
         /\ SubSeq(t, m + 1, n) \in Seq(Octet)
         /\ SubSeq(t, 1, n) = SubSeq(t, 1, m) \o SubSeq(t, m + 1, n)
         /\ SubSeq(t, m + 1, n) = <<>> <=> m = n
<1>1. PICK a : a = SubSeq(t, 1, m)
  OBVIOUS
<1>2. PICK b : b = SubSeq(t, m + 1, n)
  OBVIOUS
<1>3. PICK c : c = SubSeq(t, 1, n)
  OBVIOUS
<1>4. Len(t) \in Nat /\ \A i \in 1..Len(t) : t[i] \in Octet
  OBVIOUS
<1>5. a \in Seq(Octet) /\ Len(a) = m /\ \A i \in 1..m : a[i] = t[i]
  BY <1>1, <1>4
<1>6. b \in Seq(Octet) /\ Len(b) = n - m /\ \A i \in 1..(n - m) : b[i] = t[m + i]
  <2>1. m + 1 \in Int /\ n \in Int /\ \A i \in (m + 1)..n : t[i] \in Octet
    BY <1>4
  <2>2. /\ b \in Seq(Octet) /\ Len(b) = IF m + 1 <= n THEN n - (m + 1) + 1 ELSE 0
        /\ \A i \in 1..(n - (m + 1) + 1) : b[i] = t[(m + 1) + i - 1]
    BY <1>2, <2>1, SubSeqProperties
  <2>3. n - (m + 1) + 1 = n - m /\ \A i \in 1..(n - m) : (m + 1) + i - 1 = m + i
    OBVIOUS
  <2> QED BY <2>2, <2>3
<1>7. c \in Seq(Octet) /\ Len(c) = n /\ \A i \in 1..n : c[i] = t[i]
  BY <1>3, <1>4
<1>8. PICK y : y = a \o b
  OBVIOUS
<1>9. /\ y \in Seq(Octet) /\ Len(y) = m + (n - m)
      /\ \A i \in 1..m : y[i] = a[i]
      /\ \A i \in 1..(n - m) : y[m + i] = b[i]
  BY <1>5, <1>6, <1>8, Joined
<1>10. ASSUME NEW i \in 1..n PROVE y[i] = c[i]
  <2>1. CASE i <= m
    BY <1>5, <1>7, <1>9, <2>1
  <2>2. CASE i > m
    <3>1. PICK j : j = i - m
      OBVIOUS
    <3>2. j \in 1..(n - m) /\ m + j = i
      BY <2>2, <3>1
    <3> QED BY <1>6, <1>7, <1>9, <3>2
  <2> QED BY <2>1, <2>2
<1>11. y = c
  BY <1>7, <1>9, <1>10, SeqEqual
<1>12. b = <<>> <=> m = n
  <2>1. b = <<>> <=> Len(b) = 0
    BY <1>6
  <2> QED BY <1>6, <2>1
<1> QED BY <1>1, <1>2, <1>3, <1>5, <1>6, <1>7, <1>8, <1>11, <1>12

\* What a pushed token completes is sent behind what was, and nothing is lost.
LEMMA PushTells ==
  ASSUME NEW d, NEW sent, Keeps(d, sent), NEW token \in Token, Len(d.tokens) + 1 <= MostTokens,
         NEW delta, delta = Delta(d, token), NEW e, e = Pushed(d, token)
  PROVE  /\ DOMAIN e = {"tokens", "emitted"} /\ e.tokens = Append(d.tokens, token)
         /\ delta \in Seq(Octet) /\ Keeps(e, sent)
         /\ Tells(d, sent) /\ delta = <<>> => Tells(e, sent)
         /\ Tells(d, sent) => Keeps(e, sent \o delta) /\ Tells(e, sent \o delta)
<1>1. PICK text : text = Decode(Append(d.tokens, token))
  OBVIOUS
<1>2. PICK m, n : m = d.emitted /\ n = Stable(text)
  OBVIOUS
<1>3. /\ DOMAIN e = {"tokens", "emitted"} /\ e.tokens = Append(d.tokens, token)
      /\ e.emitted = (IF n <= m THEN m ELSE n)
  BY <1>1, <1>2 DEF Pushed
<1>4. /\ Settled(BytesOf(e.tokens), m) /\ SubSeq(text, 1, m) = Within(d)
      /\ e.emitted = m => Keeps(e, sent)
      /\ text = DecodeBytes(BytesOf(e.tokens)) /\ text \in Seq(Octet)
      /\ BytesOf(e.tokens) \in Seq(Byte) /\ e.tokens \in Seq(Token) /\ Len(e.tokens) <= MostTokens
  <2>1. /\ Settled(BytesOf(e.tokens), d.emitted)
        /\ SubSeq(Decode(e.tokens), 1, d.emitted) = Within(d)
        /\ e.emitted = d.emitted => Keeps(e, sent)
        /\ Decode(e.tokens) = DecodeBytes(BytesOf(e.tokens)) /\ Decode(e.tokens) \in Seq(Octet)
        /\ BytesOf(e.tokens) \in Seq(Byte) /\ e.tokens \in Seq(Token)
        /\ Len(e.tokens) <= MostTokens
    <3>1. DOMAIN e = {"tokens", "emitted"} /\ e.tokens = Append(d.tokens, token)
      BY <1>3
    <3> QED BY <3>1, EmittedStays, ZenonT(60)
  <2>2. text = Decode(e.tokens)
    BY <1>1, <1>3
  <2> QED BY <1>2, <2>1, <2>2
<1>5. n \in 0..Len(text) /\ Settled(BytesOf(e.tokens), n)
  <2>1. PICK b \in Seq(Byte) : b = BytesOf(e.tokens) /\ text = DecodeBytes(b)
    BY <1>4
  <2>2. Settled(b, Stable(DecodeBytes(b)))
    BY <2>1, StableSettles
  <2> QED BY <1>2, <1>4, <2>1, <2>2, StableIs
<1>6. m \in Nat /\ m <= Len(text)
  BY <1>2, <1>4, SettledText
<1>7. delta = SubSeq(text, m + 1, n)
  BY <1>1, <1>2 DEF Delta
<1>8. Len(text) \in Nat /\ n \in Nat /\ n <= Len(text)
  BY <1>4, <1>5
<1>9. sent \in Seq(Octet) /\ \E rest \in Seq(Octet) : Within(d) = sent \o rest
  BY DEF Keeps
<1>10. CASE n <= m
  <2>1. e.emitted = m
    BY <1>3, <1>10
  <2>2. delta = <<>>
    <3>1. m + 1 > n
      BY <1>6, <1>8, <1>10
    <3> QED BY <1>6, <1>7, <1>8, <3>1, SubSeqEmpty
  <2>3. Keeps(e, sent) /\ <<>> \in Seq(Octet) /\ sent \o <<>> = sent
    BY <1>4, <1>9, <2>1, EmptySeq, ConcatEmptySeq
  <2>4. Tells(d, sent) => Tells(e, sent)
    <3>1. Within(e) = Within(d)
      BY <1>1, <1>3, <1>4, <2>1 DEF Within
    <3>2. m >= n
      BY <1>6, <1>8, <1>10
    <3> QED BY <1>1, <1>2, <1>3, <2>1, <3>1, <3>2 DEF Tells
  <2> QED BY <1>3, <2>2, <2>3, <2>4
<1>11. CASE ~ (n <= m)
  <2>1. e.emitted = n /\ m <= n /\ m # n
    BY <1>3, <1>6, <1>8, <1>11
  <2>2. /\ SubSeq(text, 1, m) \in Seq(Octet) /\ SubSeq(text, 1, n) \in Seq(Octet)
        /\ delta \in Seq(Octet) /\ delta # <<>>
        /\ SubSeq(text, 1, n) = SubSeq(text, 1, m) \o delta
    <3>1. /\ SubSeq(text, 1, m) \in Seq(Octet) /\ SubSeq(text, 1, n) \in Seq(Octet)
          /\ SubSeq(text, m + 1, n) \in Seq(Octet)
          /\ SubSeq(text, 1, n) = SubSeq(text, 1, m) \o SubSeq(text, m + 1, n)
          /\ SubSeq(text, m + 1, n) = <<>> <=> m = n
      <4>1. text \in Seq(Octet) /\ m \in Nat /\ n \in Nat /\ m <= n /\ n <= Len(text)
        BY <1>4, <1>6, <1>8, <2>1
      <4> QED BY <4>1, LongerBeginning
    <3> QED BY <1>7, <2>1, <3>1
  <2>3. Within(e) = Within(d) \o delta /\ Within(e) \in Seq(Octet)
    BY <1>1, <1>3, <1>4, <2>1, <2>2 DEF Within
  <2>4. Keeps(e, sent)
    <3>1. PICK rest \in Seq(Octet) : Within(d) = sent \o rest
      BY <1>9
    <3>2. Within(e) = sent \o (rest \o delta) /\ rest \o delta \in Seq(Octet)
      <4>1. (sent \o rest) \o delta = sent \o (rest \o delta)
        <5>1. sent \in Seq(Octet) /\ rest \in Seq(Octet) /\ delta \in Seq(Octet)
          BY <1>9, <2>2, <3>1
        <5> QED BY ONLY <5>1, SMTT(60)
      <4> QED BY <2>2, <2>3, <3>1, <4>1, ConcatProperties
    <3> QED BY <1>3, <1>4, <1>5, <1>9, <2>1, <3>2 DEF Keeps
  <2>5. ASSUME Tells(d, sent) PROVE Keeps(e, sent \o delta) /\ Tells(e, sent \o delta)
    <3>1. PICK s : s = sent \o delta /\ s = Within(e)
      BY <2>3, <2>5 DEF Tells
    <3>2. <<>> \in Seq(Octet) /\ s = s \o <<>> /\ s \in Seq(Octet)
      BY <2>3, <3>1, EmptySeq, ConcatEmptySeq
    <3>3. Keeps(e, s)
      BY <1>3, <1>4, <1>5, <2>1, <3>1, <3>2 DEF Keeps
    <3>4. Tells(e, s)
      BY <1>1, <1>2, <1>3, <1>8, <2>1, <3>1 DEF Tells
    <3> QED BY <3>1, <3>3, <3>4
  <2> QED BY <1>3, <2>2, <2>4, <2>5
<1> QED BY <1>6, <1>8, <1>10, <1>11

\* A token whose decoding fails takes nothing back either.
LEMMA FailedPushKeeps ==
  ASSUME NEW d, NEW sent, Keeps(d, sent), NEW token \in Token, Len(d.tokens) + 1 <= MostTokens,
         NEW e, e = [d EXCEPT !.tokens = Append(@, token)]
  PROVE  Keeps(e, sent) /\ e.tokens = Append(d.tokens, token)
<1>1. /\ DOMAIN e = {"tokens", "emitted"} /\ e.tokens = Append(d.tokens, token)
      /\ e.emitted = d.emitted
  BY DEF Keeps
<1> QED BY <1>1, EmittedStays

\* What was told is all of the text but for one replacement.
LEMMA ToldAll ==
  ASSUME NEW d, NEW sent, Keeps(d, sent), Tells(d, sent)
  PROVE  AllBut(sent, Decode(d.tokens))
<1>1. PICK t, n : t = Decode(d.tokens) /\ n = d.emitted
  OBVIOUS
<1>2. t \in Seq(Octet) /\ n \in Nat /\ n <= Len(t) /\ ~ Cut(t, n)
  BY <1>1, KeepsWithin
<1>3. n \in 0..Len(t) /\ n >= Stable(t) /\ sent = SubSeq(t, 1, n)
  BY <1>1, <1>2 DEF Tells, Within
<1> QED BY <1>1, <1>2, <1>3, AllButHeld

\* A sequence of at most two is none, one or two.
LEMMA AtMostTwo ==
  ASSUME NEW S, NEW more \in BoundedSeq(S, 2)
  PROVE  \/ more = <<>>
         \/ \E a \in S : more = Append(<<>>, a)
         \/ \E a, b \in S : more = Append(Append(<<>>, a), b)
<1>1. PICK k \in 0..2 : more \in [1..k -> S]
  BY DEF BoundedSeq, SeqOf
<1>2. more \in Seq(S) /\ Len(more) = k
  BY <1>1
<1>3. CASE k = 0
  BY <1>2, <1>3
<1>4. CASE k = 1
  <2>1. PICK a \in S : a = more[1]
    BY <1>2, <1>4
  <2>2. PICK y : y = Append(<<>>, a)
    OBVIOUS
  <2>3. y \in Seq(S) /\ Len(y) = 1 /\ y[1] = a
    BY <2>1, <2>2
  <2>4. \A i \in 1..1 : more[i] = y[i]
    BY <2>1, <2>3
  <2>5. more = y
    BY <1>2, <1>4, <2>3, <2>4, SeqEqual
  <2> QED BY <2>1, <2>2, <2>5
<1>5. CASE k = 2
  <2>1. PICK a, b \in S : a = more[1] /\ b = more[2]
    BY <1>2, <1>5
  <2>2. PICK x, y : x = Append(<<>>, a) /\ y = Append(x, b)
    OBVIOUS
  <2>3. x \in Seq(S) /\ Len(x) = 1 /\ x[1] = a
    BY <2>1, <2>2
  <2>4. y \in Seq(S) /\ Len(y) = 2 /\ y[1] = a /\ y[2] = b
    BY <2>1, <2>2, <2>3
  <2>5. \A i \in 1..2 : more[i] = y[i]
    <3>1. \A i \in 1..2 : i = 1 \/ i = 2
      OBVIOUS
    <3> QED BY <2>1, <2>4, <3>1
  <2>6. more = y
    BY <1>2, <1>5, <2>4, <2>5, SeqEqual
  <2> QED BY <2>1, <2>2, <2>6
<1>6. k = 0 \/ k = 1 \/ k = 2
  OBVIOUS
<1> QED BY <1>3, <1>4, <1>5, <1>6

\* Whatever two tokens follow, what was sent begins the text, and it is not cut.
LEMMA TextBegins ==
  ASSUME NEW d, NEW sent, Keeps(d, sent), Len(d.tokens) + 2 <= MostTokens,
         NEW more \in BoundedSeq(Token, 2)
  PROVE  IsPrefix(sent, Decode(d.tokens \o more)) /\ ~ Cut(Decode(d.tokens \o more), d.emitted)
<1>1. d.tokens \in Seq(Token) /\ Len(d.tokens) \in Nat /\ DOMAIN d = {"tokens", "emitted"}
  BY DEF Keeps
<1> DEFINE With(s) == [tokens |-> s, emitted |-> d.emitted]
<1>2. Len(d.tokens) + 1 <= MostTokens
  BY <1>1, DecoderAssumption
<1>3. ASSUME NEW e, Keeps(e, sent), e.emitted = d.emitted, NEW s, s = e.tokens
      PROVE  IsPrefix(sent, Decode(s)) /\ ~ Cut(Decode(s), d.emitted)
  <2>1. PICK t, n : t = Decode(s) /\ n = d.emitted
    OBVIOUS
  <2>2. t \in Seq(Octet) /\ n \in Nat /\ n <= Len(t) /\ ~ Cut(t, n)
    BY <1>3, <2>1, KeepsWithin
  <2>3. PICK rest \in Seq(Octet) : sent \in Seq(Octet) /\ SubSeq(t, 1, n) = sent \o rest
    BY <1>3, <2>1 DEF Keeps, Within
  <2>4. PICK w : w = SubSeq(t, 1, n)
    OBVIOUS
  <2>5. w \in Seq(Octet) /\ Len(w) = n /\ \A i \in 1..n : w[i] = t[i]
    BY <2>2, <2>4
  <2>6. /\ Len(sent) \in Nat /\ Len(rest) \in Nat /\ Len(w) = Len(sent) + Len(rest)
        /\ \A i \in 1..Len(sent) : w[i] = sent[i]
    <3>1. PICK z \in Seq(Octet) : z = sent /\ w = z \o rest
      BY <2>3, <2>4
    <3>2. /\ Len(z) \in Nat /\ Len(rest) \in Nat /\ Len(w) = Len(z) + Len(rest)
          /\ \A i \in 1..Len(z) : w[i] = z[i]
      BY <3>1, Joined
    <3> QED BY <3>1, <3>2
  <2>7. PICK k : k = Len(sent) /\ k \in Nat /\ k <= Len(t)
    BY <2>2, <2>5, <2>6, SMTT(60)
  <2>8. \A i \in 1..k : sent[i] = t[i]
    BY <2>5, <2>6, <2>7, SMTT(60)
  <2>9. /\ Len(SubSeq(sent, 1, k)) = k /\ SubSeq(sent, 1, k) \in Seq(Octet)
        /\ Len(SubSeq(t, 1, k)) = k /\ SubSeq(t, 1, k) \in Seq(Octet)
        /\ \A i \in 1..k : SubSeq(sent, 1, k)[i] = sent[i] /\ SubSeq(t, 1, k)[i] = t[i]
    BY <2>2, <2>3, <2>7
  <2>10. \A i \in 1..k : SubSeq(sent, 1, k)[i] = SubSeq(t, 1, k)[i]
    BY <2>8, <2>9
  <2>11. SubSeq(sent, 1, k) = SubSeq(t, 1, k)
    BY <2>9, <2>10, SeqEqual
  <2> QED BY <2>1, <2>2, <2>7, <2>11 DEF IsPrefix
<1>4. ASSUME NEW s \in Seq(Token), Len(s) + 1 <= MostTokens, NEW a \in Token, Keeps(With(s), sent)
      PROVE  Keeps(With(Append(s, a)), sent)
  <2>1. PICK e, f : e = With(s) /\ f = With(Append(s, a))
    OBVIOUS
  <2>2. /\ Keeps(e, sent) /\ e.tokens = s /\ e.emitted = d.emitted
        /\ DOMAIN f = {"tokens", "emitted"} /\ f.tokens = Append(e.tokens, a)
        /\ f.emitted = e.emitted
    BY <1>4, <2>1
  <2> HIDE DEF With
  <2>3. Len(e.tokens) + 1 <= MostTokens
    BY <1>4, <2>2
  <2>4. Keeps(f, sent)
    BY <2>2, <2>3, EmittedStays
  <2> QED BY <2>1, <2>4
<1>5. Keeps(With(d.tokens), sent)
  <2>1. PICK e : e = With(d.tokens)
    OBVIOUS
  <2>2. e.tokens = d.tokens /\ e.emitted = d.emitted /\ DOMAIN e = {"tokens", "emitted"}
    BY <2>1
  <2>3. Within(e) = Within(d)
    BY <2>2 DEF Within
  <2>4. Keeps(e, sent)
    BY <2>2, <2>3 DEF Keeps
  <2> QED BY <2>1, <2>4
<1>6. \E s : s = d.tokens \o more /\ Keeps(With(s), sent)
  <2> HIDE DEF With
  <2>0. PICK s : s = d.tokens /\ s \in Seq(Token) /\ Keeps(With(s), sent)
    BY <1>1, <1>5
  <2>1. CASE more = <<>>
    <3>1. s \o more = s
      BY <2>0, <2>1, ConcatEmptySeq
    <3> QED BY <2>0, <3>1
  <2>2. CASE \E a \in Token : more = Append(<<>>, a)
    <3>1. PICK a \in Token : more = Append(<<>>, a)
      BY <2>2
    <3>2. s \o more = Append(s, a)
      BY <2>0, <3>1
    <3> QED BY <1>2, <1>4, <2>0, <3>2
  <2>3. CASE \E a, b \in Token : more = Append(Append(<<>>, a), b)
    <3>1. PICK a, b \in Token : more = Append(Append(<<>>, a), b)
      BY <2>3
    <3>2. PICK u : u = Append(s, a)
      OBVIOUS
    <3>3. u \in Seq(Token) /\ Len(u) = Len(s) + 1
      BY <2>0, <3>2
    <3>4. s \o more = Append(u, b)
      BY <2>0, <3>1, <3>2
    <3>5. Keeps(With(u), sent)
      BY <1>2, <1>4, <2>0, <3>2
    <3>6. Len(u) + 1 <= MostTokens
      BY <1>1, <2>0, <3>3, DecoderAssumption
    <3>7. Keeps(With(Append(u, b)), sent)
      BY <1>4, <3>3, <3>5, <3>6
    <3> QED BY <2>0, <3>4, <3>7
  <2>4. \/ more = <<>>
        \/ \E a \in Token : more = Append(<<>>, a)
        \/ \E a, b \in Token : more = Append(Append(<<>>, a), b)
    BY AtMostTwo
  <2> QED BY <2>1, <2>2, <2>3, <2>4
<1>7. PICK s : s = d.tokens \o more /\ Keeps(With(s), sent)
  BY <1>6
<1>8. With(s).tokens = s /\ With(s).emitted = d.emitted
  OBVIOUS
<1> QED BY <1>3, <1>7, <1>8

-----------------------------------------------------------------------------
(* The texts of the events.                                                *)

\* The texts that a request's client was sent and has not read.
SentTexts(s) ==
    FlattenSeq([i \in DOMAIN s |-> IF s[i].kind = "Text" THEN s[i].text ELSE <<>>])

\* What an event may be.
Speaks(e) ==
    \/ e.kind = "Text" /\ IsText(e.text)
    \/ e.kind = "Done" /\ e.finish \in Finish
    \/ e = Failed

\* The tokens that are due to a request.
TokensIn(s, r) == {e.token : e \in {x \in ToSet(s) : x.id = r}}
Dues(r) == TokensIn(outcome.tokens, r)

\* The types of what belongs to one request.
Typed(r) ==
    /\ handler[r].at \in {"new", "reading", "gone", "returned"}
    /\ IsText(handler[r].text)
    /\ \A i \in DOMAIN events[r] : Speaks(events[r][i])
    /\ answer[r].tokens \in Seq(Token \ StopTokens)
    /\ answer[r].end \in Finish \cup {"none", "cancelled", "failed"}
    /\ limit[r] \in Limits

\* Of a request that has not become a sequence nothing was sent.
Fresh(r) ==
    handler[r].at = "new" \/ r \in Jobs =>
        /\ events[r] = <<>> /\ handler[r].text = <<>> /\ answer[r].tokens = <<>>
        /\ r \notin DOMAIN clients

\* An answer is within its limit, and what runs has room for a token more.
Granted(r) ==
    /\ Len(answer[r].tokens) <= limit[r] \/ Len(answer[r].tokens) <= 1
    /\ r \in live => answer[r].tokens = <<>> \/ Len(answer[r].tokens) < limit[r]

\* A client's decoder has the tokens of its answer, but for one that is due, and
\* what was sent is the beginning of what it has emitted.
Decodes(r) ==
    /\ Dues(r) # {} => r \in DOMAIN clients
    /\ r \in DOMAIN clients =>
         /\ Keeps(clients[r], Sent(r))
         /\ Dues(r) = {} => answer[r].tokens = clients[r].tokens
         /\ \A t \in Dues(r) : answer[r].tokens = Append(clients[r].tokens, t)

\* Who runs, or reads and has not failed, was sent all of it.
Accepts(r) ==
    r \in DOMAIN clients /\ (r \in live \/ (Reading(r) /\ answer[r].end # "failed")) =>
        Tells(clients[r], Sent(r))

\* Whose client has left the map was sent the text of its answer.
Complete(r) ==
    /\ Reading(r) /\ answer[r].end # "failed" /\ r \notin DOMAIN clients \cup Jobs =>
         AllBut(Sent(r), Decode(answer[r].tokens))
    /\ handler[r].at = "returned" /\ answer[r].end # "failed" =>
         AllBut(handler[r].text, Decode(answer[r].tokens))

Told(r) ==
    Typed(r) /\ Fresh(r) /\ Granted(r) /\ Decodes(r) /\ Accepts(r) /\ Complete(r)

\* What the engine has in hand is of the right types.
InHand ==
    /\ DOMAIN limit = Request
    /\ outcome.tokens \in Seq([id : Request, token : Token \ StopTokens])
    /\ outcome.finished \in Seq([id : Request, finish : Finish])
    /\ outcome.failed \in Seq(Request)
    /\ outcome.failed = <<>> \/ outcome.tokens = <<>>
    /\ closing \in BOOLEAN /\ engine \in {"running", "parked", "stopped"}
    /\ slices \in [Request -> 0..MostSlices]

Tales == InHand /\ \A r \in Request : Told(r)

\* What an event adds to the text of its client.
Piece(e) == IF e.kind = "Text" THEN e.text ELSE <<>>

LEMMA PieceIs ==
  ASSUME NEW e, Speaks(e)
  PROVE  Piece(e) \in Seq(Octet)
<1>1. Failed.kind = "Failed"
  BY DEF Failed
<1>2. <<>> \in Seq(Octet)
  BY EmptySeq
<1>3. CASE e.kind = "Text" /\ IsText(e.text)
  BY <1>3 DEF Piece, IsText, Octet
<1>4. CASE e.kind = "Done" \/ e = Failed
  BY <1>1, <1>2, <1>4 DEF Piece
<1> QED BY <1>3, <1>4 DEF Speaks

\* The texts of events, as what they are put together from.
LEMMA SentIs ==
  ASSUME NEW s, IsSequence(s), \A i \in DOMAIN s : Speaks(s[i])
  PROVE  /\ Len(s) \in Nat /\ DOMAIN s = 1..Len(s)
         /\ [i \in 1..Len(s) |-> Piece(s[i])] \in [1..Len(s) -> Seq(Octet)]
         /\ SentTexts(s) = FlattenSeq([i \in 1..Len(s) |-> Piece(s[i])])
         /\ SentTexts(s) \in Seq(Octet)
<1>1. Len(s) \in Nat /\ DOMAIN s = 1..Len(s)
  BY SequenceShape
<1>2. \A i \in 1..Len(s) : Piece(s[i]) \in Seq(Octet)
  BY <1>1, PieceIs
<1>3. PICK n, p : n = Len(s) /\ p = [i \in 1..n |-> Piece(s[i])]
  OBVIOUS
<1>4. n \in Nat /\ p \in [1..n -> Seq(Octet)]
  BY <1>1, <1>2, <1>3
<1>5. SentTexts(s) = FlattenSeq(p)
  BY <1>1, <1>3 DEF SentTexts, Piece
<1>6. FlattenSeq(p) \in Seq(Octet)
  <2>1. [i \in 1..n |-> p[i]] = p
    BY <1>4
  <2>2. Flat(p, n) = FlattenSeq(p)
    BY <2>1 DEF Flat
  <2>3. n \in 0..n
    BY <1>4
  <2>4. \A k \in 0..n : Flat(p, k) \in Seq(Octet)
    BY <1>4, FlatSteps, Zenon
  <2> QED BY <2>2, <2>3, <2>4
<1> QED BY <1>1, <1>3, <1>4, <1>5, <1>6

\* Nothing was sent with no event.
LEMMA SentNothing == SentTexts(<<>>) = <<>>
BY DEF SentTexts, FlattenSeq

\* An event more.
LEMMA SentAppend ==
  ASSUME NEW s, IsSequence(s), \A i \in DOMAIN s : Speaks(s[i]), NEW e, Speaks(e),
         NEW y, y = Append(s, e)
  PROVE  /\ SentTexts(s) \in Seq(Octet) /\ SentTexts(y) = SentTexts(s) \o Piece(e)
         /\ \A i \in DOMAIN y : Speaks(y[i])
<1>1. PICK n : n = Len(s) /\ n \in Nat /\ DOMAIN s = 1..n
  BY SequenceShape
<1>2. /\ IsSequence(y) /\ Len(y) = n + 1 /\ DOMAIN y = 1..(n + 1) /\ y[n + 1] = e
      /\ \A i \in 1..n : y[i] = s[i]
  BY <1>1, AppendAdds, AppendShifts
<1>3. \A i \in DOMAIN y : Speaks(y[i])
  <2>1. SUFFICES ASSUME NEW i \in 1..(n + 1) PROVE Speaks(y[i])
    BY <1>2
  <2>2. i \in 1..n \/ i = n + 1
    BY <1>1
  <2> QED BY <1>1, <1>2, <2>2
<1>4. PICK p, q : p = [i \in 1..(n + 1) |-> Piece(y[i])] /\ q = [i \in 1..n |-> Piece(s[i])]
  OBVIOUS
<1>5. /\ q \in [1..n -> Seq(Octet)] /\ SentTexts(s) = FlattenSeq(q)
      /\ SentTexts(s) \in Seq(Octet)
  BY <1>1, <1>4, SentIs
<1>6. p \in [1..(n + 1) -> Seq(Octet)] /\ SentTexts(y) = FlattenSeq(p)
  BY <1>2, <1>3, <1>4, SentIs
<1>7. p[n + 1] = Piece(e) /\ \A i \in 1..n : p[i] = q[i]
  BY <1>1, <1>2, <1>4
<1>8. FlattenSeq(p) = FlattenSeq(q) \o p[n + 1]
  BY <1>1, <1>5, <1>6, <1>7, FlattenMore
<1> QED BY <1>3, <1>5, <1>6, <1>7, <1>8

\* The first event is read.
LEMMA SentTail ==
  ASSUME NEW s, IsSequence(s), s # <<>>, \A i \in DOMAIN s : Speaks(s[i]),
         NEW y, y = Tail(s)
  PROVE  /\ Speaks(Head(s)) /\ Piece(Head(s)) \in Seq(Octet)
         /\ SentTexts(s) = Piece(Head(s)) \o SentTexts(y)
         /\ SentTexts(y) \in Seq(Octet) /\ \A i \in DOMAIN y : Speaks(y[i])
<1>1. /\ Len(s) \in Nat /\ Len(s) > 0 /\ Len(y) = Len(s) - 1 /\ Head(s) = s[1]
      /\ DOMAIN s = 1..Len(s) /\ DOMAIN y = 1..(Len(s) - 1)
      /\ \A i \in 1..(Len(s) - 1) : y[i] = s[i + 1]
  BY TailShifts
<1>0. Len(s) - 1 \in Nat
  BY <1>1
<1>2. PICK n \in Nat : n = Len(s) - 1
  BY <1>0
<1>3. /\ DOMAIN s = 1..(n + 1) /\ Len(s) = n + 1 /\ DOMAIN y = 1..n /\ Len(y) = n
      /\ \A i \in 1..n : y[i] = s[i + 1]
  BY <1>1, <1>2
<1>4. \A i \in DOMAIN y : Speaks(y[i])
  <2>1. \A i \in 1..n : i + 1 \in 1..(n + 1)
    OBVIOUS
  <2> QED BY <1>3, <2>1
<1>5. IsSequence(y)
  BY TailTakes
<1>6. Speaks(Head(s)) /\ Piece(Head(s)) \in Seq(Octet)
  <2>1. 1 \in DOMAIN s
    BY <1>1
  <2>2. Speaks(Head(s))
    BY <1>1, <2>1
  <2> QED BY <2>2, PieceIs
<1>7. PICK p, q : p = [i \in 1..(n + 1) |-> Piece(s[i])] /\ q = [i \in 1..n |-> Piece(y[i])]
  OBVIOUS
<1>8. p \in [1..(n + 1) -> Seq(Octet)] /\ SentTexts(s) = FlattenSeq(p)
  BY <1>3, <1>7, SentIs
<1>9. /\ q \in [1..n -> Seq(Octet)] /\ SentTexts(y) = FlattenSeq(q)
      /\ SentTexts(y) \in Seq(Octet)
  BY <1>3, <1>4, <1>5, <1>7, SentIs
<1>10. p[1] = Piece(Head(s)) /\ \A i \in 1..n : q[i] = p[i + 1]
  <2>1. 1 \in 1..(n + 1) /\ \A i \in 1..n : i + 1 \in 1..(n + 1)
    OBVIOUS
  <2> QED BY <1>1, <1>3, <1>7, <2>1
<1>11. FlattenSeq(p) = p[1] \o FlattenSeq(q)
  BY <1>8, <1>9, <1>10, FlattenLess
<1> QED BY <1>4, <1>6, <1>8, <1>9, <1>10, <1>11

\* What was sent is what was read and what was not.
LEMMA SentOf ==
  ASSUME NEW r
  PROVE  Sent(r) = handler[r].text \o SentTexts(events[r])
BY DEF Sent, SentTexts

LEMMA SentOfNext ==
  ASSUME NEW r
  PROVE  Sent(r)' = handler'[r].text \o SentTexts(events'[r])
BY DEF Sent, SentTexts

\* One request's part stays as it was where nothing about it changes.
LEMMA Asleep ==
  ASSUME NEW r \in Request, Told(r),
         handler'[r] = handler[r], events'[r] = events[r], answer'[r] = answer[r],
         limit'[r] = limit[r],
         r \in Jobs' <=> r \in Jobs, r \in live' <=> r \in live, Dues(r)' = Dues(r),
         r \in DOMAIN clients' <=> r \in DOMAIN clients,
         r \in DOMAIN clients => clients'[r] = clients[r]
  PROVE  Told(r)'
<1>1. Sent(r)' = Sent(r)
  BY SentOf, SentOfNext
<1>2. Typed(r)' /\ Fresh(r)' /\ Granted(r)'
  BY DEF Told, Typed, Fresh, Granted
<1>3. Decodes(r)'
  BY <1>1 DEF Told, Decodes
<1>4. Accepts(r)'
  BY <1>1 DEF Told, Accepts, Reading
<1>5. Complete(r)'
  BY <1>1 DEF Told, Complete, Reading
<1> QED BY <1>2, <1>3, <1>4, <1>5 DEF Told

\* Nothing was sent and nothing is due at the start.
LEMMA TalesInit == Init => Tales
<1> SUFFICES ASSUME Init PROVE Tales
  OBVIOUS
<1>1. /\ handler = [r \in Request |->
                     [mode |-> Mode[r], at |-> "new", text |-> <<>>, said |-> <<>>]]
      /\ events = [r \in Request |-> <<>>] /\ inbox = <<>> /\ clients = <<>> /\ live = {}
      /\ outcome = [tokens |-> <<>>, finished |-> <<>>, failed |-> <<>>]
      /\ answer = [r \in Request |-> [tokens |-> <<>>, end |-> "none"]]
      /\ limit \in [Request -> Limits] /\ slices \in [Request -> 0..MostSlices]
      /\ closing = FALSE /\ engine = "running"
  BY DEF Init, Nothing
<1>2. ToSet(<<>>) = {} /\ DOMAIN <<>> = {} /\ Len(<<>>) = 0
  BY EmptySeq DEF ToSet
<1>3. outcome.tokens = <<>> /\ outcome.finished = <<>> /\ outcome.failed = <<>>
  BY <1>1
<1>4. InHand
  BY <1>1, <1>3, EmptySeq DEF InHand
<1>5. DOMAIN clients = {} /\ Jobs = {} /\ live = {}
  BY <1>1, <1>2 DEF Jobs
<1>6. ASSUME NEW r \in Request PROVE Told(r)
  <2>1. /\ handler[r].at = "new" /\ handler[r].text = <<>> /\ events[r] = <<>>
        /\ answer[r].tokens = <<>> /\ answer[r].end = "none" /\ limit[r] \in Limits
    BY <1>1
  <2>2. Typed(r)
    BY <1>2, <2>1, EmptySeq DEF Typed, IsText
  <2>3. Fresh(r)
    BY <1>5, <2>1 DEF Fresh
  <2>4. Granted(r)
    BY <1>2, <1>5, <2>1 DEF Granted
  <2>5. Dues(r) = {}
    BY <1>2, <1>3 DEF Dues, TokensIn
  <2> QED
    BY <1>5, <2>1, <2>2, <2>3, <2>4, <2>5 DEF Told, Decodes, Accepts, Complete, Reading
<1> QED BY <1>4, <1>6 DEF Tales

-----------------------------------------------------------------------------
(* The handlers and the texts.                                             *)

\* Where a request stands in the types of what belongs to it.
LEMMA TypedIs ==
  ASSUME NEW r, Typed(r)
  PROVE  /\ handler[r].text \in Seq(Octet) /\ \A i \in DOMAIN events[r] : Speaks(events[r][i])
         /\ answer[r].tokens \in Seq(Token) /\ answer[r].tokens \in Seq(Token \ StopTokens)
         /\ Len(answer[r].tokens) \in Nat /\ limit[r] \in Nat /\ limit[r] + 2 <= MostTokens
<1>1. answer[r].tokens \in Seq(Token \ StopTokens)
  BY DEF Typed
<1>2. answer[r].tokens \in Seq(Token) /\ Len(answer[r].tokens) \in Nat
  BY <1>1
<1>3. handler[r].text \in Seq(Octet)
  BY DEF Typed, IsText, Octet
<1>4. limit[r] \in Nat /\ limit[r] + 2 <= MostTokens
  BY EngineAssumption, TextsReach DEF Typed
<1> QED BY <1>1, <1>2, <1>3, <1>4 DEF Typed

\* A handler's step concerns its own request only.
LEMMA HandlerTales ==
  ASSUME Tales, NEW q \in Request,
         \A r \in Request : r # q =>
           handler'[r] = handler[r] /\ events'[r] = events[r] /\ (r \in Jobs' <=> r \in Jobs),
         UNCHANGED <<clients, outcome, live, answer, limit, slices>>,
         closing' \in BOOLEAN, engine' \in {"running", "parked", "stopped"}, Told(q)'
  PROVE  Tales'
<1>1. InHand'
  BY DEF Tales, InHand
<1>2. \A r : Dues(r)' = Dues(r)
  BY DEF Dues
<1>3. ASSUME NEW r \in Request, r # q PROVE Told(r)'
  <2>1. Told(r)
    BY DEF Tales
  <2>2. Dues(r)' = Dues(r)
    BY <1>2
  <2> QED BY <1>3, <2>1, <2>2, Asleep
<1> QED BY <1>1, <1>3 DEF Tales

\* A job is sent.
LEMMA SubmitTales ==
  ASSUME Inv, Tales, NEW q \in Request, Submit(q)
  PROVE  Tales'
<1>1. /\ handler[q].at = "new" /\ inbox' = Append(inbox, q)
      /\ handler' = [handler EXCEPT ![q].at = "reading"]
      /\ UNCHANGED <<events, closing, engine, clients, outcome, live, slices, limit, answer>>
  BY DEF Submit, scheduler
<1>2. ToSet(inbox') = ToSet(inbox) \cup {q}
  BY <1>1, TypedIsSequence, AppendAdds DEF Inv, Shapes
<1>3. PICK h : h = [handler[q] EXCEPT !.at = "reading"] /\ handler' = [handler EXCEPT ![q] = h]
  BY <1>1
<1>4. h.text = handler[q].text /\ h.at = "reading"
  BY <1>3 DEF Inv, Shapes
<1>5. handler'[q] = h /\ \A r \in Request : r # q => handler'[r] = handler[r]
  BY <1>3 DEF Inv, Shapes
<1>6. Told(q) /\ InHand
  BY DEF Tales
<1>7. Sent(q)' = Sent(q) /\ Dues(q)' = Dues(q) /\ q \in Jobs'
  BY <1>1, <1>2, <1>4, <1>5, SentOf, SentOfNext DEF Dues, Jobs
<1>8. Fresh(q)' /\ Typed(q)' /\ Granted(q)'
  BY <1>1, <1>4, <1>5, <1>6 DEF Told, Fresh, Typed, Granted
<1>9. Decodes(q)' /\ Accepts(q)' /\ Complete(q)'
  <2>1. q \notin DOMAIN clients
    BY <1>1, <1>6 DEF Told, Fresh
  <2> QED BY <1>1, <1>4, <1>5, <1>6, <1>7, <2>1 DEF Told, Decodes, Accepts, Complete
<1>10. Told(q)'
  BY <1>8, <1>9 DEF Told
<1>11. \A r \in Request : r # q => (r \in Jobs' <=> r \in Jobs)
  BY <1>2 DEF Jobs
<1> QED BY <1>1, <1>5, <1>6, <1>10, <1>11, HandlerTales DEF InHand

\* Who hangs up is sent nothing, and what it was sent stays.
LEMMA DisconnectTales ==
  ASSUME Inv, Tales, NEW q \in Request, Disconnect(q)
  PROVE  Tales'
<1>1. /\ Reading(q) /\ handler' = [handler EXCEPT ![q].at = "gone"]
      /\ UNCHANGED <<events, inbox, closing, engine, clients, outcome, live, slices, limit,
                     answer>>
  BY DEF Disconnect, scheduler
<1>2. PICK h : h = [handler[q] EXCEPT !.at = "gone"] /\ handler' = [handler EXCEPT ![q] = h]
  BY <1>1
<1>3. h.text = handler[q].text /\ h.at = "gone"
  BY <1>2 DEF Inv, Shapes
<1>4. handler'[q] = h /\ \A r \in Request : r # q => handler'[r] = handler[r]
  BY <1>2 DEF Inv, Shapes
<1>5. Told(q) /\ InHand
  BY DEF Tales
<1>6. Sent(q)' = Sent(q) /\ Dues(q)' = Dues(q) /\ Jobs' = Jobs
  BY <1>1, <1>3, <1>4, SentOf, SentOfNext DEF Dues, Jobs
<1>7. Fresh(q)' /\ Typed(q)' /\ Granted(q)'
  BY <1>1, <1>3, <1>4, <1>5, <1>6 DEF Told, Fresh, Typed, Granted
<1>8. Decodes(q)' /\ Accepts(q)' /\ Complete(q)'
  BY <1>1, <1>3, <1>4, <1>5, <1>6 DEF Told, Decodes, Accepts, Complete, Reading
<1>9. Told(q)'
  BY <1>7, <1>8 DEF Told
<1> QED BY <1>1, <1>4, <1>5, <1>6, <1>9, HandlerTales DEF InHand

\* The text of a handler grows by the event's.
LEMMA AfterPiece ==
  ASSUME Inv, NEW q \in Request, handler[q].text \in Seq(Octet), NEW event,
         NEW h, h = After(handler[q], event)
  PROVE  h.text = handler[q].text \o Piece(event)
<1>1. /\ DOMAIN handler[q] = {"mode", "at", "text", "said"}
      /\ handler[q].mode \in {"collect", "stream"}
  BY DEF Inv, Shapes
<1>2. CASE event.kind = "Text"
  <2>1. PICK x : x = handler[q].text \o event.text
    OBVIOUS
  <2>2. CASE handler[q].mode = "collect"
    <3>1. h = [handler[q] EXCEPT !.text = x]
      BY <1>2, <2>1, <2>2 DEF After, Collected
    <3> QED BY <1>1, <1>2, <2>1, <3>1 DEF Piece
  <2>3. CASE handler[q].mode = "stream"
    <3>1. PICK y : h = [handler[q] EXCEPT !.text = x, !.said = y]
      BY <1>1, <1>2, <2>1, <2>3 DEF After, Streamed
    <3> QED BY <1>1, <1>2, <2>1, <3>1 DEF Piece
  <2> QED BY <1>1, <2>2, <2>3
<1>3. CASE event.kind # "Text"
  <2>1. h.text = handler[q].text
    <3>1. CASE handler[q].mode = "collect" \/ event.kind # "Done"
      <4>1. PICK y : h = [handler[q] EXCEPT !.at = "returned", !.said = y]
        BY <1>1, <1>3, <3>1 DEF After, Collected, Streamed
      <4> QED BY <1>1, <4>1
    <3>2. CASE handler[q].mode = "stream" /\ event.kind = "Done"
      <4>1. PICK y : h = [handler[q] EXCEPT !.said = y]
        BY <1>1, <1>3, <3>2 DEF After, Streamed
      <4> QED BY <1>1, <4>1
    <3> QED BY <1>1, <3>1, <3>2
  <2>2. Piece(event) = <<>>
    BY <1>3 DEF Piece
  <2>3. PICK t : t = handler[q].text /\ t \in Seq(Octet)
    OBVIOUS
  <2>4. t \o <<>> = t
    BY <2>3
  <2> QED BY <2>1, <2>2, <2>3, <2>4
<1> QED BY <1>2, <1>3

\* Reading moves a text from the channel to the handler.
LEMMA ReadMoves ==
  ASSUME Inv, Tales, NEW q \in Request, Read(q)
  PROVE  /\ Sent(q)' = Sent(q) /\ Typed(q)' /\ handler'[q].text \in Seq(Octet)
         /\ handler'[q].at \in {"reading", "returned"}
         /\ handler'[q].at = "returned" => Head(events[q]).kind # "Text"
<1>1. PICK s, event, h : /\ s = events[q] /\ event = Head(s) /\ h = After(handler[q], event)
  OBVIOUS
<1>2. /\ Reading(q) /\ s # <<>> /\ IsSequence(s) /\ handler'[q] = h /\ events'[q] = Tail(s)
      /\ UNCHANGED <<answer, limit>>
  BY <1>1 DEF Read, scheduler, Inv, Shapes
<1>3. Typed(q)
  BY DEF Tales, Told
<1>4. PICK t, a, y : t = handler[q].text /\ a = Piece(event) /\ y = SentTexts(Tail(s))
  OBVIOUS
<1>5. /\ a \in Seq(Octet) /\ y \in Seq(Octet) /\ SentTexts(s) = a \o y
      /\ \A i \in DOMAIN Tail(s) : Speaks(Tail(s)[i])
  <2>1. \A i \in DOMAIN s : Speaks(s[i])
    BY <1>1, <1>3, TypedIs
  <2> QED BY <1>1, <1>2, <1>4, <2>1, SentTail
<1>6. t \in Seq(Octet)
  BY <1>3, <1>4, TypedIs
<1>7. h.text = t \o a /\ h.text \in Seq(Octet)
  <2>1. h.text = t \o a
    BY <1>1, <1>4, <1>6, AfterPiece, Zenon
  <2>2. t \o a \in Seq(Octet)
    BY <1>5, <1>6
  <2> QED BY <2>1, <2>2
<1>8. (t \o a) \o y = t \o (a \o y)
  BY ONLY <1>5, <1>6, SMTT(60)
<1>9. Sent(q) = t \o (a \o y)
  BY <1>1, <1>4, <1>5, SentOf
<1>10. Sent(q)' = (t \o a) \o y
  BY <1>2, <1>4, <1>7, SentOfNext
<1>11. h.at \in {"reading", "returned"} /\ (h.at = "returned" => event.kind # "Text")
  <2>1. handler[q].at = "reading"
    BY <1>2 DEF Reading
  <2>2. CASE event.kind = "Text"
    BY <1>1, <2>1, <2>2, AfterText
  <2>3. CASE event.kind = "Done"
    <3>1. h.at = "returned" \/ h.at = handler[q].at
      BY <1>1, <2>3, AfterDone
    <3> QED BY <2>1, <2>3, <3>1
  <2>4. CASE event.kind \notin {"Text", "Done"}
    BY <1>1, <2>4, AfterOther
  <2> QED BY <2>2, <2>3, <2>4
<1>12. Typed(q)'
  BY <1>2, <1>3, <1>5, <1>7, <1>11 DEF Typed, IsText, Octet
<1> QED BY <1>1, <1>2, <1>7, <1>8, <1>9, <1>10, <1>11, <1>12

\* Who returns on its finish has nothing left to read.
LEMMA ReturnsLast ==
  ASSUME Inv, Reports, NEW q \in Request, Read(q), answer[q].end # "failed",
         Head(events[q]).kind # "Text"
  PROVE  Tail(events[q]) = <<>> /\ q \notin DOMAIN clients \cup Jobs
<1>1. PICK s : s = events[q] /\ IsSequence(s) /\ s # <<>>
  BY DEF Inv, Shapes, Read
<1>2. /\ Len(s) \in Nat /\ Len(s) > 0 /\ Len(Tail(s)) = Len(s) - 1 /\ Head(s) = s[1]
      /\ DOMAIN s = 1..Len(s)
  BY <1>1, TailShifts
<1>3. handler[q].at = "reading" /\ Follows(q)
  BY DEF Read, Reading, Reports
<1>4. ~ Hears(q)
  BY <1>1, <1>2 DEF Hears, AllText
<1>5. Ends(q)
  BY <1>1, <1>3, <1>4 DEF Follows, Fails, Closes
<1>6. Len(s) = 1
  <2>1. SUFFICES ASSUME Len(s) # 1 PROVE FALSE
    OBVIOUS
  <2>2. 1 \in 1..(Len(s) - 1)
    BY <1>2, <2>1
  <2>3. AllText(s, Len(s) - 1)
    BY <1>1, <1>5 DEF Ends
  <2> QED BY <1>1, <1>2, <2>2, <2>3 DEF AllText
<1>7. Tail(s) = <<>>
  <2>1. IsSequence(Tail(s)) /\ Len(Tail(s)) = 0
    BY <1>1, <1>2, <1>6, TailTakes
  <2>2. PICK y : y = Tail(s)
    OBVIOUS
  <2>3. y = <<>>
    BY <2>1, <2>2, SequenceShape
  <2> QED BY <2>2, <2>3
<1> QED BY <1>1, <1>5, <1>7 DEF Ends, Nowhere

\* An event is read.
LEMMA ReadTales ==
  ASSUME Inv, Reports, Tales, NEW q \in Request, Read(q)
  PROVE  Tales'
<1>1. /\ Reading(q) /\ events[q] # <<>>
      /\ handler' = [handler EXCEPT ![q] = After(@, Head(events[q]))]
      /\ events' = [events EXCEPT ![q] = Tail(@)]
      /\ UNCHANGED <<inbox, closing, engine, clients, outcome, live, slices, limit, answer>>
  BY DEF Read, scheduler
<1>2. /\ events'[q] = Tail(events[q])
      /\ \A r \in Request : r # q => handler'[r] = handler[r] /\ events'[r] = events[r]
  BY <1>1 DEF Inv, Shapes
<1>3. Told(q) /\ InHand
  BY DEF Tales
<1>4. /\ Sent(q)' = Sent(q) /\ Typed(q)' /\ handler'[q].text \in Seq(Octet)
      /\ handler'[q].at \in {"reading", "returned"}
      /\ handler'[q].at = "returned" => Head(events[q]).kind # "Text"
  BY ReadMoves
<1>5. Dues(q)' = Dues(q) /\ Jobs' = Jobs
  BY <1>1 DEF Dues, Jobs
<1>6. Fresh(q)' /\ Granted(q)'
  <2>1. q \notin Jobs
    BY <1>1, <1>3 DEF Told, Fresh
  <2> QED BY <1>1, <1>3, <1>4, <1>5, <2>1 DEF Told, Fresh, Granted
<1>7. Decodes(q)' /\ Accepts(q)'
  BY <1>1, <1>3, <1>4, <1>5 DEF Told, Decodes, Accepts, Reading
<1>8. Complete(q)'
  <2>1. Complete(q)
    BY <1>3 DEF Told
  <2>2. CASE handler'[q].at = "reading"
    BY <1>1, <1>4, <1>5, <2>1, <2>2 DEF Complete, Reading
  <2>3. CASE handler'[q].at = "returned" /\ answer[q].end # "failed"
    <3>1. Tail(events[q]) = <<>> /\ q \notin DOMAIN clients \cup Jobs
      BY <1>4, <2>3, ReturnsLast
    <3>2. AllBut(Sent(q), Decode(answer[q].tokens))
      BY <1>1, <2>1, <2>3, <3>1 DEF Complete
    <3>3. Sent(q)' = handler'[q].text
      <4>1. PICK t : t = handler'[q].text /\ t \in Seq(Octet)
        BY <1>4
      <4>2. Sent(q)' = t \o <<>>
        BY <1>2, <3>1, <4>1, SentOfNext, SentNothing
      <4>3. t \o <<>> = t
        BY <4>1
      <4> QED BY <4>1, <4>2, <4>3
    <3> QED BY <1>1, <1>4, <2>3, <3>2, <3>3 DEF Complete, Reading
  <2>4. CASE handler'[q].at = "returned" /\ answer[q].end = "failed"
    BY <1>1, <2>4 DEF Complete, Reading
  <2> QED BY <1>4, <2>2, <2>3, <2>4
<1>9. Told(q)'
  BY <1>4, <1>6, <1>7, <1>8 DEF Told
<1> QED BY <1>1, <1>2, <1>3, <1>5, <1>9, HandlerTales DEF InHand

\* A channel that is closed has nothing more of a text.
LEMMA ReadClosedTales ==
  ASSUME Inv, Reports, Tales, NEW q \in Request, ReadClosed(q)
  PROVE  Tales'
<1>1. PICK event : event = [kind |-> "None"]
  OBVIOUS
<1>2. PICK h : h = After(handler[q], event)
  OBVIOUS
<1>3. /\ Reading(q) /\ events[q] = <<>> /\ q \notin Jobs \cup DOMAIN clients
      /\ handler' = [handler EXCEPT ![q] = h]
      /\ UNCHANGED <<events, inbox, closing, engine, clients, outcome, live, slices, limit,
                     answer>>
  BY <1>1, <1>2 DEF ReadClosed, scheduler, Jobs
<1>4. handler'[q] = h /\ \A r \in Request : r # q => handler'[r] = handler[r]
  BY <1>3 DEF Inv, Shapes
<1>5. Told(q) /\ InHand
  BY DEF Tales
<1>6. PICK t : t = handler[q].text /\ t \in Seq(Octet)
  BY <1>5, TypedIs DEF Told
<1>7. h.text = t /\ h.at = "returned"
  <2>1. Piece(event) = <<>> /\ event.kind \notin {"Text", "Done"}
    BY <1>1 DEF Piece
  <2>2. h.text = t \o <<>>
    BY <1>2, <1>6, <2>1, AfterPiece
  <2>3. t \o <<>> = t
    BY <1>6
  <2>4. h.at = "returned"
    BY <1>2, <2>1, AfterOther
  <2> QED BY <2>2, <2>3, <2>4
<1>8. Sent(q)' = Sent(q) /\ Sent(q) = t
  <2>1. Sent(q) = t \o <<>> /\ Sent(q)' = t \o <<>>
    BY <1>3, <1>4, <1>6, <1>7, SentOf, SentOfNext, SentNothing
  <2>2. t \o <<>> = t
    BY <1>6
  <2> QED BY <2>1, <2>2
<1>9. Dues(q)' = Dues(q) /\ Jobs' = Jobs
  BY <1>3 DEF Dues, Jobs
<1>10. Typed(q)' /\ Fresh(q)' /\ Granted(q)'
  BY <1>3, <1>4, <1>5, <1>6, <1>7, <1>9 DEF Told, Typed, Fresh, Granted
<1>11. Decodes(q)' /\ Accepts(q)' /\ Complete(q)'
  BY <1>3, <1>4, <1>5, <1>6, <1>7, <1>8, <1>9 DEF Told, Decodes, Accepts, Complete, Reading
<1>12. Told(q)'
  BY <1>10, <1>11 DEF Told
<1> QED BY <1>3, <1>4, <1>5, <1>9, <1>12, HandlerTales DEF InHand

\* Waiting, stopping and closing change nothing of it.
LEMMA WaitTales ==
  ASSUME Tales, Park \/ Stop \/ Shutdown \/ UNCHANGED vars
  PROVE  Tales'
<1>1. /\ UNCHANGED <<handler, events, inbox, clients, outcome, live, slices, limit, answer>>
      /\ closing' \in BOOLEAN /\ engine' \in {"running", "parked", "stopped"}
  BY DEF Park, Stop, Shutdown, vars, scheduler, Tales, InHand
<1>2. InHand'
  BY <1>1 DEF Tales, InHand
<1>3. ASSUME NEW r \in Request PROVE Told(r)'
  <2>1. Told(r)
    BY DEF Tales
  <2>2. Dues(r)' = Dues(r) /\ Jobs' = Jobs
    BY <1>1 DEF Dues, Jobs
  <2> QED BY <1>1, <2>1, <2>2, Asleep
<1> QED BY <1>2, <1>3 DEF Tales

-----------------------------------------------------------------------------
(* The engine thread and the texts.                                        *)

\* A step of the engine that concerns some requests leaves the others' part as it was.
LEMMA EngineTales ==
  ASSUME Tales, InHand', UNCHANGED <<handler, limit>>, NEW S,
         \A r \in Request \ S :
           /\ events'[r] = events[r] /\ answer'[r] = answer[r]
           /\ r \in Jobs' <=> r \in Jobs
           /\ r \in live' <=> r \in live
           /\ Dues(r)' = Dues(r)
           /\ r \in DOMAIN clients' <=> r \in DOMAIN clients
           /\ r \in DOMAIN clients => clients'[r] = clients[r],
         \A r \in Request \cap S : Told(r)'
  PROVE  Tales'
<1>1. ASSUME NEW r \in Request, r \notin S PROVE Told(r)'
  <2>1. Told(r) /\ handler'[r] = handler[r] /\ limit'[r] = limit[r]
    BY DEF Tales
  <2> QED BY <1>1, <2>1, Asleep
<1> QED BY <1>1 DEF Tales

\* Nothing is due where no token is left.
LEMMA NoDues ==
  ASSUME outcome.tokens = <<>>
  PROVE  \A r : Dues(r) = {}
<1>1. ToSet(<<>>) = {}
  BY DEF ToSet
<1> QED BY <1>1 DEF Dues, TokensIn

\* Who is due a token is one that Due names.
LEMMA DuesDue == \A r : Dues(r) # {} <=> r \in Due
BY DEF Dues, TokensIn, Due

\* A job becomes a client that was sent nothing, with nothing decoded.
LEMMA ReceiveTales ==
  ASSUME Inv, Reports, Tales, Receive
  PROVE  Tales'
<1>1. PICK q : q = Head(inbox)
  OBVIOUS
<1>2. /\ clients' = [r \in DOMAIN clients \cup {q} |->
                       IF r = q THEN NewDecoder ELSE clients[r]]
      /\ live' = live \cup {q} /\ outcome = Nothing /\ engine' = "running"
      /\ UNCHANGED <<handler, events, closing, outcome, slices, limit, answer>>
  BY <1>1 DEF Receive
<1>3. q \in Jobs \ Jobs' /\ Jobs = Jobs' \cup {q}
  BY <1>1, ReceiveTakes
<1>4. /\ DOMAIN clients' = DOMAIN clients \cup {q} /\ clients'[q] = NewDecoder
      /\ \A r \in DOMAIN clients : r # q => clients'[r] = clients[r]
  BY <1>2
<1>5. InHand'
  BY <1>2 DEF Tales, InHand
<1>6. \A r : Dues(r)' = Dues(r) /\ Dues(r) = {}
  <2>1. outcome.tokens = <<>>
    BY <1>2 DEF Nothing
  <2> QED BY <1>2, <2>1, NoDues DEF Dues
<1>9. PICK S : S = {q}
  OBVIOUS
<1>7. ASSUME q \in Request PROVE Told(q)'
  <2>1. Told(q) /\ Follows(q)
    BY <1>7 DEF Tales, Reports
  <2>2. events[q] = <<>> /\ handler[q].text = <<>> /\ answer[q].tokens = <<>>
    BY <1>3, <2>1 DEF Told, Fresh
  <2>3. handler[q].at \notin {"new", "returned"}
    BY <1>3, <2>1 DEF Follows, Silent, Nowhere, Right
  <2>4. Sent(q)' = <<>>
    <3>1. <<>> \o <<>> = <<>>
      OBVIOUS
    <3> QED BY <1>2, <2>2, <3>1, SentOfNext, SentNothing
  <2>5. Typed(q)' /\ Fresh(q)'
    BY <1>2, <1>3, <2>1, <2>3 DEF Told, Typed, Fresh
  <2>6. Granted(q)'
    <3>1. Len(<<>>) = 0
      OBVIOUS
    <3> QED BY <1>2, <2>2, <3>1 DEF Granted
  <2>7. Decodes(q)' /\ Accepts(q)'
    <3>1. Keeps(NewDecoder, <<>>) /\ Tells(NewDecoder, <<>>) /\ NewDecoder.tokens = <<>>
      BY NewDecoderKeeps DEF NewDecoder
    <3> QED BY <1>2, <1>4, <1>6, <2>2, <2>4, <3>1 DEF Decodes, Accepts
  <2>8. Complete(q)'
    BY <1>2, <1>4, <2>3 DEF Complete
  <2> QED BY <2>5, <2>6, <2>7, <2>8 DEF Told
<1>8. \A r \in Request \ S :
           /\ events'[r] = events[r] /\ answer'[r] = answer[r]
           /\ r \in Jobs' <=> r \in Jobs
           /\ r \in live' <=> r \in live
           /\ Dues(r)' = Dues(r)
           /\ r \in DOMAIN clients' <=> r \in DOMAIN clients
           /\ r \in DOMAIN clients => clients'[r] = clients[r]
  BY <1>2, <1>3, <1>4, <1>6, <1>9
<1>10. \A r \in Request \cap S : Told(r)'
  BY <1>7, <1>9
<1> QED BY <1>2, <1>5, <1>8, <1>10, EngineTales

\* What a pass says of the tokens it gave.
PassTells(asked, token, given) ==
    /\ given = {r \in asked : token[r] \notin StopTokens}
    /\ \A r \in asked : token[r] \in Token
    /\ \A r \in Request \ asked : answer'[r] = answer[r]
    /\ \A r \in asked :
         /\ answer'[r].end = FinishOf(r, token[r])
         /\ answer'[r].tokens = IF r \in given THEN Append(answer[r].tokens, token[r])
                                ELSE answer[r].tokens
    /\ live' = live \ {r \in asked : FinishOf(r, token[r]) # "none"}
    /\ \A r : Dues(r)' = IF r \in given THEN {token[r]} ELSE {}
    /\ outcome'.tokens \in Seq([id : Request, token : Token \ StopTokens])
    /\ outcome'.finished \in Seq([id : Request, finish : Finish])
    /\ outcome'.failed = <<>>

\* The tokens that go with names are those requests'.
LEMMA TokenOfEach ==
  ASSUME NEW S \in SUBSET Request, NEW f, NEW s, DOMAIN s = DOMAIN Ordered(S),
         \A i \in DOMAIN s : s[i].id = Ordered(S)[i] /\ s[i].token = f[Ordered(S)[i]],
         NEW r
  PROVE  TokensIn(s, r) = IF r \in S THEN {f[r]} ELSE {}
<1>1. {e.id : e \in ToSet(s)} = S
  BY NamesEach
<1>2. ASSUME NEW e \in ToSet(s) PROVE e.token = f[e.id]
  <2>1. PICK i \in DOMAIN s : e = s[i]
    BY DEF ToSet
  <2> QED BY <2>1
<1>3. ASSUME NEW e \in ToSet(s), e.id = r PROVE r \in S /\ e.token = f[r]
  BY <1>1, <1>2, <1>3
<1>4. ASSUME r \in S PROVE \E e \in ToSet(s) : e.id = r
  BY <1>1, <1>4
<1> QED BY <1>3, <1>4 DEF TokensIn

\* What is said of a set in its order is of one type.
LEMMA OrderedTyped ==
  ASSUME NEW S \in SUBSET Request, NEW T, NEW s, DOMAIN s = DOMAIN Ordered(S),
         \A i \in DOMAIN s : s[i] \in T, s = [i \in DOMAIN s |-> s[i]]
  PROVE  s \in Seq(T)
<1>1. PICK n \in Nat : n = Cardinality(S) /\ DOMAIN s = 1..n
  BY OrderedAll
<1>2. s \in [1..n -> T]
  BY <1>1
<1> QED BY <1>2, FunctionIsSequence

\* Every pass says such a thing.
LEMMA PassSays ==
  ASSUME Inv, Pass
  PROVE  \E asked \in SUBSET live : \E token, given : PassTells(asked, token, given)
<1> DEFINE HandsOn(rows, token) ==
             LET asked == rows \ Slicing
                 finish == [r \in asked |-> FinishOf(r, token[r])]
                 ended == {r \in asked : finish[r] # "none"}
             IN  /\ answer' = [r \in Request |->
                      IF r \notin asked THEN answer[r]
                      ELSE [tokens |-> IF token[r] \in StopTokens THEN answer[r].tokens
                                       ELSE Append(answer[r].tokens, token[r]),
                            end |-> finish[r]]]
                 /\ live' = live \ ended
                 /\ outcome' =
                      [tokens |-> InOrder({r \in asked : token[r] \notin StopTokens},
                                          LAMBDA r : [id |-> r, token |-> token[r]]),
                       finished |-> InOrder(ended, LAMBDA r : [id |-> r, finish |-> finish[r]]),
                       failed |-> <<>>]
<1>0. PICK rows \in Passes : \E token \in [rows \ Slicing -> Token] : HandsOn(rows, token)
  BY DEF Pass
<1>1. PICK token \in [rows \ Slicing -> Token] : HandsOn(rows, token)
  BY <1>0
<1>2. PICK asked : asked = rows \ Slicing
  OBVIOUS
<1>3. PICK f : f = [r \in asked |-> FinishOf(r, token[r])]
  OBVIOUS
<1>4. PICK ended : ended = {r \in asked : f[r] # "none"}
  OBVIOUS
<1>5. PICK given : given = {r \in asked : token[r] \notin StopTokens}
  OBVIOUS
<1>6. asked \in SUBSET live /\ live \subseteq Request
  BY <1>2 DEF Passes, Inv, Shapes
<1>7. ended \in SUBSET Request /\ given \in SUBSET Request
  BY <1>4, <1>5, <1>6
<1>8. /\ live' = live \ ended
      /\ answer' = [r \in Request |->
           IF r \notin asked THEN answer[r]
           ELSE [tokens |-> IF token[r] \in StopTokens THEN answer[r].tokens
                            ELSE Append(answer[r].tokens, token[r]),
                 end |-> f[r]]]
      /\ outcome' =
           [tokens |-> [i \in DOMAIN Ordered(given) |->
                          [id |-> Ordered(given)[i], token |-> token[Ordered(given)[i]]]],
            finished |-> [i \in DOMAIN Ordered(ended) |->
                            [id |-> Ordered(ended)[i], finish |-> f[Ordered(ended)[i]]]],
            failed |-> <<>>]
  BY <1>1, <1>2, <1>3, <1>4, <1>5 DEF InOrder
<1>9. PICK spoken : spoken = [i \in DOMAIN Ordered(given) |->
                       [id |-> Ordered(given)[i], token |-> token[Ordered(given)[i]]]]
  OBVIOUS
<1>10. PICK over : over = [i \in DOMAIN Ordered(ended) |->
                     [id |-> Ordered(ended)[i], finish |-> f[Ordered(ended)[i]]]]
  OBVIOUS
<1>11. outcome'.tokens = spoken /\ outcome'.finished = over /\ outcome'.failed = <<>>
  BY <1>8, <1>9, <1>10
<1>12. \A r \in asked : token[r] \in Token /\ f[r] = FinishOf(r, token[r])
  BY <1>2, <1>3
<1>13. \A S \in SUBSET Request : \A i \in DOMAIN Ordered(S) : Ordered(S)[i] \in S
  <2>1. ASSUME NEW S \in SUBSET Request, NEW i \in DOMAIN Ordered(S) PROVE Ordered(S)[i] \in S
    <3>1. ToSet(Ordered(S)) = S
      BY OrderedAll
    <3> QED BY <3>1 DEF ToSet
  <2> QED BY <2>1
<1>14. \A i \in DOMAIN Ordered(given) :
         /\ spoken[i].id = Ordered(given)[i] /\ spoken[i].token = token[Ordered(given)[i]]
         /\ spoken[i] \in [id : Request, token : Token \ StopTokens]
  <2>1. SUFFICES ASSUME NEW i \in DOMAIN Ordered(given)
                 PROVE /\ spoken[i].id = Ordered(given)[i]
                       /\ spoken[i].token = token[Ordered(given)[i]]
                       /\ spoken[i] \in [id : Request, token : Token \ StopTokens]
    BY Zenon
  <2>2. PICK x, y : y = Ordered(given)[i] /\ x = token[y] /\ spoken[i] = [id |-> y, token |-> x]
    BY <1>9
  <2>3. y \in given
    BY <1>7, <1>13, <2>2
  <2>4. y \in Request /\ x \in Token \ StopTokens
    BY <1>5, <1>6, <1>12, <2>2, <2>3
  <2> QED BY <2>2, <2>4
<1>15. \A i \in DOMAIN Ordered(ended) : over[i] \in [id : Request, finish : Finish]
  <2>1. SUFFICES ASSUME NEW i \in DOMAIN Ordered(ended)
                 PROVE over[i] \in [id : Request, finish : Finish]
    BY Zenon
  <2>2. PICK x, y : y = Ordered(ended)[i] /\ x = f[y] /\ over[i] = [id |-> y, finish |-> x]
    BY <1>10
  <2>3. y \in ended
    BY <1>7, <1>13, <2>2
  <2>4. y \in Request /\ x \in Finish
    BY <1>4, <1>6, <1>12, <2>2, <2>3 DEF FinishOf, Finish
  <2> QED BY <2>2, <2>4
<1>16. spoken \in Seq([id : Request, token : Token \ StopTokens])
  <2>1. PICK T : T = [id : Request, token : Token \ StopTokens]
    OBVIOUS
  <2>2. DOMAIN spoken = DOMAIN Ordered(given) /\ spoken = [i \in DOMAIN spoken |-> spoken[i]]
    BY <1>9
  <2>3. \A i \in DOMAIN spoken : spoken[i] \in T
    BY <1>14, <2>1, <2>2
  <2> QED BY <1>7, <2>1, <2>2, <2>3, OrderedTyped
<1>17. over \in Seq([id : Request, finish : Finish])
  <2>1. PICK T : T = [id : Request, finish : Finish]
    OBVIOUS
  <2>2. DOMAIN over = DOMAIN Ordered(ended) /\ over = [i \in DOMAIN over |-> over[i]]
    BY <1>10
  <2>3. \A i \in DOMAIN over : over[i] \in T
    BY <1>15, <2>1, <2>2
  <2> QED BY <1>7, <2>1, <2>2, <2>3, OrderedTyped
<1>18. ASSUME NEW r PROVE Dues(r)' = IF r \in given THEN {token[r]} ELSE {}
  <2>1. DOMAIN spoken = DOMAIN Ordered(given)
    BY <1>9
  <2>2. TokensIn(spoken, r) = IF r \in given THEN {token[r]} ELSE {}
    <3>1. \A i \in DOMAIN spoken : /\ spoken[i].id = Ordered(given)[i]
                                   /\ spoken[i].token = token[Ordered(given)[i]]
      BY <1>14, <2>1
    <3> QED BY <1>7, <2>1, <3>1, TokenOfEach
  <2> QED BY <1>11, <2>2 DEF Dues
<1>19. ASSUME NEW r \in asked
       PROVE  /\ answer'[r].end = FinishOf(r, token[r])
              /\ answer'[r].tokens = IF r \in given THEN Append(answer[r].tokens, token[r])
                                     ELSE answer[r].tokens
  <2>1. PICK x : x = IF token[r] \in StopTokens THEN answer[r].tokens
                     ELSE Append(answer[r].tokens, token[r])
    OBVIOUS
  <2>2. answer'[r] = [tokens |-> x, end |-> f[r]]
    BY <1>6, <1>8, <2>1
  <2>3. answer'[r].tokens = x /\ answer'[r].end = f[r]
    BY <2>2
  <2> QED BY <1>5, <1>12, <2>1, <2>3
<1>20. \A r \in Request \ asked : answer'[r] = answer[r]
  BY <1>8
<1>21. live' = live \ {r \in asked : FinishOf(r, token[r]) # "none"}
  BY <1>4, <1>8, <1>12
<1>22. PassTells(asked, token, given)
  BY <1>5, <1>11, <1>12, <1>16, <1>17, <1>18, <1>19, <1>20, <1>21 DEF PassTells
<1> QED BY <1>6, <1>22, Zenon

\* A pass gives a sequence that runs one token, within its limit.
LEMMA PassGrants ==
  ASSUME NEW r, Typed(r), Granted(r), r \in live, NEW token \in Token,
         limit'[r] = limit[r],
         answer'[r].end = FinishOf(r, token),
         answer'[r].tokens = IF token \notin StopTokens THEN Append(answer[r].tokens, token)
                             ELSE answer[r].tokens,
         r \in live' => FinishOf(r, token) = "none"
  PROVE  Granted(r)' /\ answer'[r].tokens \in Seq(Token \ StopTokens)
         /\ answer'[r].end \in Finish \cup {"none"}
<1>1. PICK s, n, most : /\ s = answer[r].tokens /\ n = Len(s) /\ most = limit[r]
                        /\ s \in Seq(Token \ StopTokens) /\ n \in Nat /\ most \in Nat
  BY TypedIs
<1>2. s = <<>> \/ n < most
  BY <1>1 DEF Granted
<1>3. s = <<>> => n = 0
  BY <1>1
<1>4. CASE token \notin StopTokens
  <2>1. PICK y : y = Append(s, token)
    OBVIOUS
  <2>2. y \in Seq(Token \ StopTokens) /\ Len(y) = n + 1 /\ answer'[r].tokens = y
    BY <1>1, <1>4, <2>1
  <2>3. FinishOf(r, token) = IF n + 1 >= most THEN "length" ELSE "none"
    BY <1>1, <1>4 DEF FinishOf
  <2>4. Len(y) <= most \/ Len(y) <= 1
    BY <1>1, <1>2, <1>3, <2>2
  <2>5. r \in live' => Len(y) < most
    BY <1>1, <2>2, <2>3
  <2>6. answer'[r].end \in Finish \cup {"none"}
    BY <2>3 DEF Finish
  <2> QED BY <1>1, <2>2, <2>4, <2>5, <2>6 DEF Granted
<1>5. CASE token \in StopTokens
  <2>1. FinishOf(r, token) = "stop" /\ answer'[r].tokens = s
    BY <1>1, <1>5 DEF FinishOf
  <2>2. r \notin live' /\ answer'[r].end \in Finish \cup {"none"}
    BY <2>1 DEF Finish
  <2> QED BY <1>1, <2>1, <2>2 DEF Granted
<1> QED BY <1>4, <1>5

\* A pass makes one token due to those it gave one.
LEMMA PassTales ==
  ASSUME Inv, Reports, Tales, Pass
  PROVE  Tales'
<1>1. /\ outcome = Nothing
      /\ UNCHANGED <<handler, events, inbox, closing, engine, clients, limit>> /\ Jobs' = Jobs
  BY DEF Pass, Planned, Jobs
<1>2. PICK asked \in SUBSET live : \E token, given : PassTells(asked, token, given)
  BY PassSays
<1>3. PICK token, given : PassTells(asked, token, given)
  BY <1>2
<1>4. asked \subseteq Request /\ given \subseteq asked
  BY <1>3 DEF Inv, Shapes, PassTells
<1>5. InHand'
  <2>1. slices' \in [Request -> 0..MostSlices]
    <3>1. PICK T : slices' = [r \in Request |-> IF r \in T \cap Slicing THEN slices[r] - 1
                                                ELSE slices[r]]
      BY DEF Pass
    <3>2. ASSUME NEW r \in Request PROVE slices'[r] \in 0..MostSlices
      <4>1. slices[r] \in 0..MostSlices /\ MostSlices \in Nat
        BY EngineAssumption DEF Tales, InHand
      <4>2. r \in Slicing => slices[r] > 0
        BY DEF Slicing
      <4> QED BY <3>1, <4>1, <4>2
    <3> QED BY <3>1, <3>2
  <2> QED BY <1>1, <1>3, <2>1 DEF Tales, InHand, PassTells
<1>6. \A r : Dues(r) = {}
  BY <1>1, NoDues DEF Nothing
<1>7. ASSUME NEW r \in Request \ asked
      PROVE  /\ answer'[r] = answer[r] /\ (r \in live' <=> r \in live)
             /\ Dues(r)' = Dues(r)
  BY <1>3, <1>4, <1>6, <1>7 DEF PassTells
<1>8. ASSUME NEW r \in Request \cap asked PROVE Told(r)'
  <2>1. Told(r) /\ r \in live /\ r \in DOMAIN clients
    BY DEF Tales, Inv
  <2>2. Sent(r)' = Sent(r)
    BY <1>1, SentOf, SentOfNext
  <2>3. /\ token[r] \in Token /\ (r \in given <=> token[r] \notin StopTokens)
        /\ answer'[r].end = FinishOf(r, token[r])
        /\ answer'[r].tokens = IF r \in given THEN Append(answer[r].tokens, token[r])
                               ELSE answer[r].tokens
        /\ Dues(r)' = IF r \in given THEN {token[r]} ELSE {}
        /\ r \in live' => FinishOf(r, token[r]) = "none"
    BY <1>3 DEF PassTells
  <2>4. Granted(r)' /\ answer'[r].tokens \in Seq(Token \ StopTokens)
        /\ answer'[r].end \in Finish \cup {"none"}
    <3>1. answer'[r].tokens = IF token[r] \notin StopTokens
                              THEN Append(answer[r].tokens, token[r]) ELSE answer[r].tokens
      BY <2>3
    <3> QED BY <1>1, <2>1, <2>3, <3>1, PassGrants DEF Told
  <2>5. Typed(r)'
    BY <1>1, <2>1, <2>4 DEF Told, Typed
  <2>6. Fresh(r)'
    BY <1>1, <2>1 DEF Told, Fresh
  <2>7. Decodes(r)'
    <3>1. Keeps(clients[r], Sent(r)) /\ answer[r].tokens = clients[r].tokens
      BY <1>6, <2>1 DEF Told, Decodes
    <3>2. Keeps(clients[r], Sent(r))'
      BY <1>1, <2>2, <3>1
    <3> QED BY <1>1, <2>1, <2>3, <3>1, <3>2 DEF Decodes
  <2>8. Accepts(r)'
    <3>1. Tells(clients[r], Sent(r))
      BY <2>1 DEF Told, Accepts
    <3> QED BY <1>1, <2>2, <3>1 DEF Accepts
  <2>9. Complete(r)'
    <3>1. handler[r].at # "returned"
      BY <2>1, LiveHears
    <3> QED BY <1>1, <2>1, <3>1 DEF Complete
  <2> QED BY <2>4, <2>5, <2>6, <2>7, <2>8, <2>9 DEF Told
<1> QED BY <1>1, <1>5, <1>7, <1>8, EngineTales

\* A pass that fails makes nothing due.
LEMMA PassFailsTales ==
  ASSUME Inv, Reports, Tales, PassFails
  PROVE  Tales'
<1>1. /\ outcome = Nothing
      /\ UNCHANGED <<handler, events, inbox, closing, engine, clients, slices, limit>>
      /\ Jobs' = Jobs
  BY DEF PassFails, Planned, Jobs
<1>2. PICK rows \in Passes :
        /\ live' = live \ rows
        /\ answer' = [r \in Request |->
             IF r \in rows THEN [answer[r] EXCEPT !.end = "failed"] ELSE answer[r]]
        /\ outcome' = [Nothing EXCEPT !.failed = InOrder(rows, LAMBDA r : r)]
  BY DEF PassFails
<1>3. rows \subseteq live /\ rows \in SUBSET Request
  BY DEF Passes, Inv, Shapes
<1>4. PICK over : over = InOrder(rows, LAMBDA r : r)
  OBVIOUS
<1>5. over \in Seq(Request)
  <2>1. over = [i \in DOMAIN Ordered(rows) |-> Ordered(rows)[i]]
    BY <1>4 DEF InOrder
  <2>2. over = Ordered(rows)
    BY <2>1 DEF Ordered
  <2> QED BY <1>3, <2>2, OrderedAll
<1>6. outcome'.tokens = <<>> /\ outcome'.finished = <<>> /\ outcome'.failed = over
  BY <1>2, <1>4 DEF Nothing
<1>7. InHand'
  BY <1>1, <1>5, <1>6, EmptySeq DEF Tales, InHand
<1>8. \A r : Dues(r) = {} /\ Dues(r)' = {}
  <2>1. ToSet(<<>>) = {}
    BY DEF ToSet
  <2>2. outcome.tokens = <<>>
    BY <1>1 DEF Nothing
  <2> QED BY <1>6, <2>1, <2>2 DEF Dues, TokensIn
<1>9. ASSUME NEW r \in Request
      PROVE  /\ answer'[r].tokens = answer[r].tokens
             /\ r \in rows => answer'[r].end = "failed"
             /\ r \notin rows => answer'[r] = answer[r]
  BY <1>2 DEF Reports
<1>10. ASSUME NEW r \in Request \ rows
       PROVE  /\ answer'[r] = answer[r] /\ (r \in live' <=> r \in live)
              /\ Dues(r)' = Dues(r)
  BY <1>2, <1>8, <1>9, <1>10
<1>11. ASSUME NEW r \in Request \cap rows PROVE Told(r)'
  <2>1. Told(r) /\ r \in live /\ r \notin live' /\ r \in DOMAIN clients
    BY <1>2, <1>3 DEF Tales, Inv
  <2>2. Sent(r)' = Sent(r)
    BY <1>1, SentOf, SentOfNext
  <2>3. answer'[r].tokens = answer[r].tokens /\ answer'[r].end = "failed"
    BY <1>9
  <2>4. Typed(r)' /\ Fresh(r)' /\ Granted(r)'
    BY <1>1, <2>1, <2>3 DEF Told, Typed, Fresh, Granted
  <2>5. Decodes(r)' /\ Accepts(r)' /\ Complete(r)'
    BY <1>1, <1>8, <2>1, <2>2, <2>3 DEF Told, Decodes, Accepts, Complete, Reading
  <2> QED BY <2>4, <2>5 DEF Told
<1> QED BY <1>1, <1>7, <1>10, <1>11, EngineTales

\* The first token to be handed on is the one that its request has due.
LEMMA DueTaken ==
  ASSUME NEW s, IsSequence(s), s # <<>>, Once(s)
  PROVE  /\ TokensIn(s, Head(s).id) = {Head(s).token} /\ TokensIn(Tail(s), Head(s).id) = {}
         /\ \A r : r # Head(s).id => TokensIn(Tail(s), r) = TokensIn(s, r)
<1>1. PICK e, t : e = Head(s) /\ t = Tail(s)
  OBVIOUS
<1>2. /\ \A x \in ToSet(t) : x.id # e.id
      /\ e \in ToSet(s) /\ ToSet(s) = {e} \cup ToSet(t)
  BY <1>1, OnceTaken
<1>3. {x \in ToSet(s) : x.id = e.id} = {e} /\ {x \in ToSet(t) : x.id = e.id} = {}
  BY <1>2
<1>4. ASSUME NEW r, r # e.id PROVE {x \in ToSet(s) : x.id = r} = {x \in ToSet(t) : x.id = r}
  BY <1>2, <1>4
<1>5. TokensIn(s, e.id) = {e.token} /\ TokensIn(t, e.id) = {}
  BY <1>3 DEF TokensIn
<1>6. \A r : r # e.id => TokensIn(t, r) = TokensIn(s, r)
  <2>1. ASSUME NEW r, r # e.id PROVE TokensIn(t, r) = TokensIn(s, r)
    BY <1>4, <2>1, Zenon DEF TokensIn
  <2> QED BY <2>1
<1> QED BY <1>1, <1>5, <1>6, Zenon

\* A sequence's first element, and what is behind it, are of its type.
LEMMA FirstAndRest ==
  ASSUME NEW T, NEW s \in Seq(T), s # <<>>
  PROVE  Head(s) \in T /\ Tail(s) \in Seq(T)
BY SMTT(60)

\* A token that is handed on goes to a decoder that has room for it.
LEMMA TokenGoes ==
  ASSUME Inv, Reports, Tales, outcome.tokens # <<>>,
         outcome' = [outcome EXCEPT !.tokens = Tail(@)], UNCHANGED <<closing, engine, slices, limit>>,
         NEW q, q = Head(outcome.tokens).id, NEW token, token = Head(outcome.tokens).token
  PROVE  /\ InHand' /\ q \in Request /\ token \in Token
         /\ Dues(q) = {token} /\ Dues(q)' = {} /\ q \in Due
         /\ \A r : r # q => Dues(r)' = Dues(r)
         /\ q \in DOMAIN clients /\ Keeps(clients[q], Sent(q))
         /\ answer[q].tokens = Append(clients[q].tokens, token)
         /\ Len(clients[q].tokens) + 1 <= MostTokens
<1>1. PICK s : /\ s = outcome.tokens /\ s # <<>>
               /\ s \in Seq([id : Request, token : Token \ StopTokens])
  BY DEF Tales, InHand
<1>2. IsSequence(s) /\ Once(s)
  BY <1>1 DEF Inv, Shapes, Reports, EachOnce
<1>3. PICK e, t : e = Head(s) /\ t = Tail(s)
  OBVIOUS
<1>4. /\ e \in [id : Request, token : Token \ StopTokens]
      /\ t \in Seq([id : Request, token : Token \ StopTokens])
  <2>1. PICK T : T = [id : Request, token : Token \ StopTokens] /\ s \in Seq(T) /\ s # <<>>
    BY <1>1
  <2>2. Head(s) \in T /\ Tail(s) \in Seq(T)
    BY <2>1, FirstAndRest, Zenon
  <2> QED BY <1>3, <2>1, <2>2
<1>5. e.id = q /\ e.token = token /\ q \in Request /\ token \in Token
  BY <1>1, <1>3, <1>4
<1>6. /\ outcome'.tokens = t
      /\ outcome'.finished = outcome.finished /\ outcome'.failed = outcome.failed
  BY <1>1, <1>3 DEF Inv, Shapes
<1>7. InHand'
  BY <1>1, <1>4, <1>6 DEF Tales, InHand
<1>8. /\ Dues(q) = {token} /\ Dues(q)' = {} /\ \A r : r # q => Dues(r)' = Dues(r)
  <2>1. /\ TokensIn(s, e.id) = {e.token} /\ TokensIn(t, e.id) = {}
        /\ \A r : r # e.id => TokensIn(t, r) = TokensIn(s, r)
    BY <1>1, <1>2, <1>3, DueTaken, Zenon
  <2>2. \A r : Dues(r) = TokensIn(s, r) /\ Dues(r)' = TokensIn(t, r)
    BY <1>1, <1>6 DEF Dues
  <2> QED BY <1>5, <2>1, <2>2
<1>9. Told(q)
  BY <1>5 DEF Tales
<1>10. /\ q \in DOMAIN clients /\ Keeps(clients[q], Sent(q))
       /\ answer[q].tokens = Append(clients[q].tokens, token)
  BY <1>8, <1>9 DEF Told, Decodes
<1>11. Len(clients[q].tokens) + 1 <= MostTokens
  <2>1. PICK u : u = clients[q].tokens /\ u \in Seq(Token)
    BY <1>10 DEF Keeps
  <2>2. Len(u) \in Nat /\ Len(Append(u, token)) = Len(u) + 1
    BY ONLY <1>5, <2>1, SMTT(60)
  <2>3. Len(answer[q].tokens) = Len(u) + 1
    BY <1>10, <2>1, <2>2
  <2>4. limit[q] \in Nat /\ limit[q] + 2 <= MostTokens
    BY <1>9, TypedIs DEF Told
  <2>5. Len(u) + 1 <= limit[q] \/ Len(u) + 1 <= 1
    BY <1>9, <2>3 DEF Told, Granted
  <2>6. Len(u) + 1 <= MostTokens
    BY ONLY <2>2, <2>4, <2>5, TextsReach, DecoderAssumption, SMTT(60)
  <2> QED BY <2>1, <2>6, SMTT(60)
<1>12. q \in Due
  BY <1>8, DuesDue
<1> QED BY <1>5, <1>7, <1>8, <1>10, <1>11, <1>12

\* What is sent adds its text to what was sent, if its client reads.
LEMMA SendTells ==
  ASSUME Inv, Tales, NEW q \in Request, NEW event, Speaks(event), Send(q, event),
         handler' = handler
  PROVE  /\ \A r \in Request : r # q => events'[r] = events[r]
         /\ \A i \in DOMAIN events'[q] : Speaks(events'[q][i])
         /\ ~ Reading(q) => events'[q] = events[q] /\ Sent(q)' = Sent(q)
         /\ Reading(q) => Sent(q)' = Sent(q) \o Piece(event)
         /\ Sent(q) \in Seq(Octet)
<1>1. PICK s, t : s = events[q] /\ IsSequence(s) /\ t = handler[q].text
  BY DEF Inv, Shapes
<1>2. Typed(q)
  BY DEF Tales, Told
<1>3. t \in Seq(Octet) /\ \A i \in DOMAIN s : Speaks(s[i])
  BY <1>1, <1>2, TypedIs
<1>4. PICK y : y = Append(s, event)
  OBVIOUS
<1>5. /\ SentTexts(s) \in Seq(Octet) /\ SentTexts(y) = SentTexts(s) \o Piece(event)
      /\ \A i \in DOMAIN y : Speaks(y[i])
  BY <1>1, <1>3, <1>4, SentAppend
<1>6. PICK a, b : a = SentTexts(s) /\ b = Piece(event) /\ a \in Seq(Octet) /\ b \in Seq(Octet)
  BY <1>5, PieceIs
<1>7. Sent(q) = t \o a /\ t \o a \in Seq(Octet)
  <2>1. Sent(q) = t \o a
    BY <1>1, <1>6, SentOf
  <2>2. t \o a \in Seq(Octet)
    BY <1>3, <1>6
  <2> QED BY <2>1, <2>2
<1>8. CASE Reading(q)
  <2>1. events'[q] = y
    BY <1>1, <1>4, <1>8, SendEnds
  <2>2. Sent(q)' = t \o (a \o b)
    BY <1>1, <1>5, <1>6, <2>1, SentOfNext
  <2>3. t \o (a \o b) = (t \o a) \o b
    BY ONLY <1>3, <1>6, SMTT(60)
  <2> QED BY <1>5, <1>6, <1>7, <1>8, <2>1, <2>2, <2>3, SendEnds
<1>9. CASE ~ Reading(q)
  <2>1. events' = events
    BY <1>9 DEF Send
  <2>2. Sent(q)' = Sent(q)
    BY <2>1, SentOf, SentOfNext
  <2> QED BY <1>1, <1>3, <1>7, <1>9, <2>1, <2>2
<1> QED BY <1>8, <1>9

\* What is heard of a token that is due: its client is told it, or has gone.
LEMMA DueAccepts ==
  ASSUME Reports, Tales, NEW q \in Request, q \in Due, q \in DOMAIN clients
  PROVE  /\ handler[q].at \notin {"new", "returned"} /\ q \notin Jobs
         /\ q \in live \/ Reading(q) => Tells(clients[q], Sent(q))
<1>1. Told(q)
  BY DEF Tales
<1>2. handler[q].at \notin {"new", "returned"}
  BY DueHears
<1>3. q \notin Jobs
  BY <1>1 DEF Told, Fresh
<1>4. Reading(q) => answer[q].end # "failed"
  BY DueHears DEF Reading, Runs, Finish
<1> QED BY <1>1, <1>2, <1>3, <1>4 DEF Told, Accepts

\* A token is decoded: its client is told the text that it completes, or is gone.
LEMMA EmitTales ==
  ASSUME Inv, Reports, Tales, EmitToken
  PROVE  Tales'
<1>1. PICK q, token, text : /\ q = Head(outcome.tokens).id /\ token = Head(outcome.tokens).token
                            /\ text = Delta(clients[q], token)
  OBVIOUS
<1>2. PICK e : e = Pushed(clients[q], token)
  OBVIOUS
<1>3. /\ outcome.tokens # <<>> /\ outcome' = [outcome EXCEPT !.tokens = Tail(@)]
      /\ UNCHANGED <<handler, inbox, closing, engine, slices, limit>>
      /\ clients' = [clients EXCEPT ![q] = e]
      /\ IF text = <<>> THEN UNCHANGED events ELSE Send(q, Text(text))
      /\ IF text = <<>> \/ Reading(q) THEN UNCHANGED <<live, answer>>
         ELSE Cancel(q, "cancelled")
  BY <1>1, <1>2, SMTT(60) DEF EmitToken
<1>4. /\ InHand' /\ q \in Request /\ token \in Token
      /\ Dues(q) = {token} /\ Dues(q)' = {} /\ q \in Due
      /\ \A r : r # q => Dues(r)' = Dues(r)
      /\ q \in DOMAIN clients /\ Keeps(clients[q], Sent(q))
      /\ answer[q].tokens = Append(clients[q].tokens, token)
      /\ Len(clients[q].tokens) + 1 <= MostTokens
  BY <1>1, <1>3, TokenGoes
<1>5. PICK d, sent : d = clients[q] /\ sent = Sent(q) /\ Keeps(d, sent)
  BY <1>4
<1>6. /\ e.tokens = Append(d.tokens, token) /\ text \in Seq(Octet) /\ Keeps(e, sent)
      /\ Tells(d, sent) /\ text = <<>> => Tells(e, sent)
      /\ Tells(d, sent) => Keeps(e, sent \o text) /\ Tells(e, sent \o text)
  <2>1. Keeps(d, sent) /\ token \in Token /\ Len(d.tokens) + 1 <= MostTokens
    BY <1>4, <1>5
  <2>2. text = Delta(d, token) /\ e = Pushed(d, token)
    BY <1>1, <1>2, <1>5
  <2> QED BY <2>1, <2>2, PushTells, Zenon
<1>7. /\ handler[q].at \notin {"new", "returned"} /\ q \notin Jobs
      /\ q \in live \/ Reading(q) => Tells(d, sent)
  BY <1>4, <1>5, DueAccepts
<1>8. DOMAIN clients' = DOMAIN clients /\ clients'[q] = e
      /\ \A r \in DOMAIN clients : r # q => clients'[r] = clients[r]
  BY <1>3, <1>4
<1>9. PICK event : event = Text(text)
  OBVIOUS
<1>10. Speaks(event) /\ Piece(event) = text
  BY <1>6, <1>9 DEF Text, Speaks, Piece, IsText, Octet
<1>11. /\ \A r \in Request : r # q => events'[r] = events[r]
       /\ \A i \in DOMAIN events'[q] : Speaks(events'[q][i])
       /\ text = <<>> \/ ~ Reading(q) => Sent(q)' = sent
       /\ text # <<>> /\ Reading(q) => Sent(q)' = sent \o text
  <2>1. CASE text = <<>>
    <3>1. events' = events /\ Sent(q)' = Sent(q)
      BY <1>3, <2>1, SentOf, SentOfNext
    <3>2. Typed(q)
      BY <1>4 DEF Tales, Told
    <3> QED BY <1>5, <2>1, <3>1, <3>2, TypedIs
  <2>2. CASE text # <<>>
    <3>1. Send(q, event) /\ handler' = handler
      BY <1>3, <1>9, <2>2
    <3> QED BY <1>4, <1>5, <1>10, <2>2, <3>1, SendTells
  <2> QED BY <2>1, <2>2
<1>12. /\ \A r \in Request : answer'[r].tokens = answer[r].tokens
       /\ \A r \in Request : r # q => answer'[r] = answer[r] /\ (r \in live' <=> r \in live)
       /\ text = <<>> \/ Reading(q) => answer' = answer /\ live' = live
       /\ ~ (text = <<>> \/ Reading(q)) => q \notin live'
       /\ answer'[q].end = answer[q].end \/ answer'[q].end = "cancelled"
  <2>1. CASE text = <<>> \/ Reading(q)
    BY <1>3, <2>1
  <2>2. CASE ~ (text = <<>> \/ Reading(q))
    <3>1. Cancel(q, "cancelled")
      BY <1>3, <2>2
    <3>2. answer'[q].end = answer[q].end \/ answer'[q].end = "cancelled"
      <4>1. PICK x : /\ answer' = [answer EXCEPT ![q].end = x]
                     /\ x = answer[q].end \/ x = "cancelled"
        BY <3>1 DEF Cancel
      <4> QED BY <1>4, <4>1 DEF Reports
    <3> QED BY <2>2, <3>1, <3>2, CancelOne
  <2> QED BY <2>1, <2>2
<1>13. Told(q)'
  <2>1. Told(q)
    BY <1>4 DEF Tales
  <2>2. Typed(q)'
    BY <1>3, <1>4, <1>11, <1>12, <2>1 DEF Told, Typed
  <2>3. Fresh(q)' /\ Granted(q)'
    <3>1. q \in live' => q \in live
      BY <1>3, <1>12 DEF Cancel
    <3>2. Jobs' = Jobs
      BY <1>3 DEF Jobs
    <3> QED BY <1>3, <1>4, <1>7, <1>12, <2>1, <3>1, <3>2 DEF Told, Fresh, Granted
  <2>4. Decodes(q)'
    <3>1. Keeps(e, Sent(q)')
      BY <1>6, <1>7, <1>11
    <3>2. answer'[q].tokens = e.tokens
      BY <1>4, <1>5, <1>6, <1>12
    <3> QED BY <1>4, <1>8, <3>1, <3>2 DEF Decodes
  <2>5. Accepts(q)'
    <3>1. ASSUME q \in live' \/ Reading(q)' PROVE Tells(e, Sent(q)')
      <4>1. text = <<>> \/ Reading(q)
        BY <1>3, <1>12, <3>1 DEF Reading
      <4>2. Tells(d, sent)
        BY <1>3, <1>7, <1>12, <3>1, <4>1 DEF Reading
      <4> QED BY <1>6, <1>11, <4>1, <4>2
    <3> QED BY <1>8, <3>1 DEF Accepts
  <2>6. Complete(q)'
    BY <1>3, <1>4, <1>7, <1>8 DEF Complete
  <2> QED BY <2>2, <2>3, <2>4, <2>5, <2>6 DEF Told
<1>14. PICK S : S = {q}
  OBVIOUS
<1>15. \A r \in Request \ S :
           /\ events'[r] = events[r] /\ answer'[r] = answer[r]
           /\ r \in Jobs' <=> r \in Jobs
           /\ r \in live' <=> r \in live
           /\ Dues(r)' = Dues(r)
           /\ r \in DOMAIN clients' <=> r \in DOMAIN clients
           /\ r \in DOMAIN clients => clients'[r] = clients[r]
  <2>1. Jobs' = Jobs
    BY <1>3 DEF Jobs
  <2> QED BY <1>4, <1>8, <1>11, <1>12, <1>14, <2>1
<1>16. \A r \in Request \cap S : Told(r)'
  BY <1>13, <1>14
<1> QED BY <1>3, <1>4, <1>15, <1>16, EngineTales

\* The decoder fails: nothing is added to what was sent.
LEMMA DecoderFailsTales ==
  ASSUME Inv, Reports, Tales, DecoderFails
  PROVE  Tales'
<1>1. PICK q, token : q = Head(outcome.tokens).id /\ token = Head(outcome.tokens).token
  OBVIOUS
<1>2. PICK e : e = [clients[q] EXCEPT !.tokens = Append(@, token)]
  OBVIOUS
<1>3. /\ outcome.tokens # <<>> /\ outcome' = [outcome EXCEPT !.tokens = Tail(@)]
      /\ UNCHANGED <<handler, inbox, closing, engine, slices, limit>>
      /\ clients' = [clients EXCEPT ![q] = e]
      /\ Send(q, Failed) /\ Cancel(q, "failed")
  BY <1>1, <1>2 DEF DecoderFails
<1>4. /\ InHand' /\ q \in Request /\ token \in Token
      /\ Dues(q) = {token} /\ Dues(q)' = {} /\ q \in Due
      /\ \A r : r # q => Dues(r)' = Dues(r)
      /\ q \in DOMAIN clients /\ Keeps(clients[q], Sent(q))
      /\ answer[q].tokens = Append(clients[q].tokens, token)
      /\ Len(clients[q].tokens) + 1 <= MostTokens
  BY <1>1, <1>3, TokenGoes
<1>5. PICK d, sent : d = clients[q] /\ sent = Sent(q) /\ Keeps(d, sent)
  BY <1>4
<1>6. e.tokens = Append(d.tokens, token) /\ Keeps(e, sent)
  BY <1>2, <1>4, <1>5, FailedPushKeeps
<1>7. handler[q].at \notin {"new", "returned"} /\ q \notin Jobs
  BY <1>4, DueAccepts
<1>8. DOMAIN clients' = DOMAIN clients /\ clients'[q] = e
      /\ \A r \in DOMAIN clients : r # q => clients'[r] = clients[r]
  BY <1>3, <1>4
<1>9. /\ \A r \in Request : r # q => events'[r] = events[r]
      /\ \A i \in DOMAIN events'[q] : Speaks(events'[q][i])
      /\ Sent(q)' = sent
  <2>1. Speaks(Failed) /\ Piece(Failed) = <<>>
    BY DEF Failed, Speaks, Piece
  <2>2. /\ \A r \in Request : r # q => events'[r] = events[r]
        /\ \A i \in DOMAIN events'[q] : Speaks(events'[q][i])
        /\ ~ Reading(q) => Sent(q)' = Sent(q)
        /\ Reading(q) => Sent(q)' = Sent(q) \o <<>>
        /\ Sent(q) \in Seq(Octet)
    BY <1>3, <1>4, <2>1, SendTells
  <2>3. sent \o <<>> = sent
    BY <1>5, <2>2
  <2> QED BY <1>5, <2>2, <2>3
<1>10. /\ \A r \in Request : answer'[r].tokens = answer[r].tokens
       /\ \A r \in Request : r # q => answer'[r] = answer[r]
       /\ live' = live \ {q} /\ answer'[q].end = "failed"
  BY <1>3, <1>4, CancelOne
<1>11. Told(q)'
  <2>1. Told(q) /\ Jobs' = Jobs
    BY <1>3, <1>4 DEF Tales, Jobs
  <2>2. Typed(q)' /\ Fresh(q)' /\ Granted(q)'
    BY <1>3, <1>4, <1>7, <1>9, <1>10, <2>1 DEF Told, Typed, Fresh, Granted
  <2>3. Decodes(q)'
    <3>1. Keeps(e, Sent(q)') /\ answer'[q].tokens = e.tokens
      BY <1>4, <1>5, <1>6, <1>9, <1>10
    <3> QED BY <1>4, <1>8, <3>1 DEF Decodes
  <2>4. Accepts(q)' /\ Complete(q)'
    BY <1>10 DEF Accepts, Complete
  <2> QED BY <2>2, <2>3, <2>4 DEF Told
<1>12. PICK S : S = {q}
  OBVIOUS
<1>13. \A r \in Request \ S :
           /\ events'[r] = events[r] /\ answer'[r] = answer[r]
           /\ r \in Jobs' <=> r \in Jobs
           /\ r \in live' <=> r \in live
           /\ Dues(r)' = Dues(r)
           /\ r \in DOMAIN clients' <=> r \in DOMAIN clients
           /\ r \in DOMAIN clients => clients'[r] = clients[r]
  <2>1. Jobs' = Jobs
    BY <1>3 DEF Jobs
  <2> QED BY <1>4, <1>8, <1>9, <1>10, <1>12, <2>1
<1>14. \A r \in Request \cap S : Told(r)'
  BY <1>11, <1>12
<1> QED BY <1>3, <1>4, <1>13, <1>14, EngineTales

\* A report concerns one request, which has no client after it.
LEMMA ReportTales ==
  ASSUME Inv, Tales, InHand', NEW q, UNCHANGED <<handler, limit, live, answer>>, Jobs' = Jobs,
         \A r : Dues(r)' = Dues(r) /\ Dues(r) = {}, clients' = WithoutClient(q),
         NEW event, Speaks(event), Piece(event) = <<>>, Send(q, event),
         q \in Request => handler[q].at # "new" /\ (Reading(q) => q \notin Jobs),
         q \in Request /\ q \notin Jobs /\ Reading(q) /\ answer[q].end # "failed" =>
             AllBut(Sent(q), Decode(answer[q].tokens))
  PROVE  Tales'
<1>1. /\ DOMAIN clients' = DOMAIN clients \ {q}
      /\ \A r \in DOMAIN clients : r # q => clients'[r] = clients[r]
  BY DEF WithoutClient
<1>2. \A r \in Request : r # q => events'[r] = events[r]
  BY SendEnds
<1>3. ASSUME q \in Request PROVE Told(q)'
  <2>1. Told(q)
    BY <1>3 DEF Tales
  <2>2. /\ \A i \in DOMAIN events'[q] : Speaks(events'[q][i])
        /\ ~ Reading(q) => events'[q] = events[q]
        /\ Sent(q)' = Sent(q)
    <3>1. /\ \A i \in DOMAIN events'[q] : Speaks(events'[q][i])
          /\ ~ Reading(q) => events'[q] = events[q] /\ Sent(q)' = Sent(q)
          /\ Reading(q) => Sent(q)' = Sent(q) \o Piece(event)
          /\ Sent(q) \in Seq(Octet)
      BY <1>3, SendTells
    <3>2. PICK t : t = Sent(q) /\ t \in Seq(Octet)
      BY <3>1
    <3>3. t \o <<>> = t
      BY <3>2
    <3> QED BY <3>1, <3>2, <3>3
  <2>3. Typed(q)' /\ Granted(q)'
    BY <2>1, <2>2 DEF Told, Typed, Granted
  <2>4. Fresh(q)'
    BY <1>1, <1>3, <2>1, <2>2 DEF Told, Fresh, Reading
  <2>5. Decodes(q)' /\ Accepts(q)'
    BY <1>1 DEF Decodes, Accepts
  <2>6. Complete(q)'
    BY <1>3, <2>1, <2>2 DEF Told, Complete, Reading
  <2> QED BY <2>3, <2>4, <2>5, <2>6 DEF Told
<1>4. PICK S : S = {q}
  OBVIOUS
<1>5. \A r \in Request \ S :
           /\ events'[r] = events[r] /\ answer'[r] = answer[r]
           /\ r \in Jobs' <=> r \in Jobs
           /\ r \in live' <=> r \in live
           /\ Dues(r)' = Dues(r)
           /\ r \in DOMAIN clients' <=> r \in DOMAIN clients
           /\ r \in DOMAIN clients => clients'[r] = clients[r]
  BY <1>1, <1>2, <1>4
<1>6. \A r \in Request \cap S : Told(r)'
  BY <1>3, <1>4
<1> QED BY <1>5, <1>6, EngineTales

\* A client that is told of its failure has nothing due.
LEMMA ReportFailedTales ==
  ASSUME Inv, Reports, Tales, ReportFailed
  PROVE  Tales'
<1>1. PICK s, q : s = outcome.failed /\ s \in Seq(Request) /\ q = Head(s)
  BY DEF Tales, InHand
<1>2. /\ s # <<>> /\ outcome' = [outcome EXCEPT !.failed = Tail(@)]
      /\ UNCHANGED <<handler, closing, engine, live, slices, limit, answer>> /\ Jobs' = Jobs
      /\ clients' = WithoutClient(q) /\ Send(q, Failed)
  BY <1>1 DEF ReportFailed, scheduler, Jobs
<1>3. /\ outcome'.failed = Tail(s)
      /\ outcome'.tokens = outcome.tokens /\ outcome'.finished = outcome.finished
  BY <1>1, <1>2 DEF Inv, Shapes
<1>4. outcome.tokens = <<>> /\ Tail(s) \in Seq(Request)
  <2>1. Tail(s) \in Seq(Request)
    BY <1>1, <1>2, FirstAndRest
  <2> QED BY <1>1, <1>2, <2>1 DEF Tales, InHand
<1>5. InHand'
  BY <1>2, <1>3, <1>4 DEF Tales, InHand
<1>6. \A r : Dues(r)' = Dues(r) /\ Dues(r) = {}
  BY <1>3, <1>4, NoDues DEF Dues
<1>7. q \in Refused
  BY <1>1, <1>2, TypedIsSequence, TailTakes DEF Refused
<1>8. Speaks(Failed) /\ Piece(Failed) = <<>>
  BY DEF Failed, Speaks, Piece
<1>9. ASSUME q \in Request PROVE /\ handler[q].at # "new" /\ (Reading(q) => q \notin Jobs)
                                 /\ Reading(q) => answer[q].end = "failed"
  <2>1. Follows(q)
    BY <1>9 DEF Reports
  <2> QED BY <1>7, <2>1 DEF Follows, Silent, Nowhere, Reading, Hears, Waits, Runs, Fails, Ends, Closes, Finish
<1> QED BY <1>2, <1>5, <1>6, <1>8, <1>9, ReportTales

\* A client that is told of its finish was sent all its texts.
LEMMA ReportFinishedTales ==
  ASSUME Inv, Reports, Tales, ReportFinished
  PROVE  Tales'
<1>1. PICK s : s = outcome.finished /\ s \in Seq([id : Request, finish : Finish])
  BY DEF Tales, InHand
<1>2. PICK e : e = Head(s)
  OBVIOUS
<1>3. PICK q, event : q = e.id /\ event = Done(q, e.finish, Len(clients[q].tokens))
  OBVIOUS
<1>4. /\ s # <<>> /\ outcome' = [outcome EXCEPT !.finished = Tail(@)]
      /\ UNCHANGED <<handler, closing, engine, live, slices, limit, answer>> /\ Jobs' = Jobs
      /\ clients' = WithoutClient(q) /\ Send(q, event) /\ outcome.tokens = <<>>
  BY <1>1, <1>2, <1>3 DEF ReportFinished, scheduler, Jobs
<1>5. /\ outcome'.finished = Tail(s)
      /\ outcome'.tokens = outcome.tokens /\ outcome'.failed = outcome.failed
  BY <1>1, <1>4 DEF Inv, Shapes
<1>6. e \in [id : Request, finish : Finish] /\ Tail(s) \in Seq([id : Request, finish : Finish])
  <2>1. PICK T : T = [id : Request, finish : Finish] /\ s \in Seq(T)
    BY <1>1
  <2>2. Head(s) \in T /\ Tail(s) \in Seq(T)
    BY <1>4, <2>1, FirstAndRest, Zenon
  <2> QED BY <1>2, <2>1, <2>2
<1>7. InHand'
  BY <1>4, <1>5, <1>6 DEF Tales, InHand
<1>8. \A r : Dues(r)' = Dues(r) /\ Dues(r) = {}
  BY <1>4, <1>5, NoDues DEF Dues
<1>9. q \in Ended
  <2>1. e \in ToSet(s)
    BY <1>1, <1>2, <1>4, TypedIsSequence, TailTakes
  <2> QED BY <1>1, <1>3, <2>1 DEF Ended
<1>10. Speaks(event) /\ Piece(event) = <<>>
  <2>1. event.kind = "Done" /\ event.finish = e.finish
    BY <1>3 DEF Done
  <2> QED BY <1>6, <2>1 DEF Speaks, Piece
<1>11. ASSUME q \in Request PROVE handler[q].at # "new" /\ (Reading(q) => q \notin Jobs)
  <2>1. Follows(q)
    BY <1>11 DEF Reports
  <2> QED BY <1>9, <2>1 DEF Follows, Silent, Nowhere, Reading, Hears, Waits, Runs, Fails, Ends, Closes
<1>12. ASSUME q \in Request, q \notin Jobs, Reading(q), answer[q].end # "failed"
       PROVE  AllBut(Sent(q), Decode(answer[q].tokens))
  <2>1. Told(q)
    BY <1>12 DEF Tales
  <2>2. CASE q \in DOMAIN clients
    <3>1. /\ Keeps(clients[q], Sent(q)) /\ Tells(clients[q], Sent(q))
          /\ answer[q].tokens = clients[q].tokens
      BY <1>8, <1>12, <2>1, <2>2 DEF Told, Decodes, Accepts
    <3> QED BY <3>1, ToldAll
  <2>3. CASE q \notin DOMAIN clients
    BY <1>12, <2>1, <2>3 DEF Told, Complete
  <2> QED BY <2>2, <2>3
<1> QED BY <1>4, <1>7, <1>8, <1>10, <1>11, <1>12, ReportTales

-----------------------------------------------------------------------------
(* The texts of the answers.                                               *)

\* Whoever takes a step, what was sent stays the text of the tokens.
LEMMA TalesNext == Inv /\ Reports /\ Tales /\ [Next]_vars => Tales'
<1> SUFFICES ASSUME Inv, Reports, Tales, [Next]_vars PROVE Tales'
  OBVIOUS
<1>1. ASSUME NEW r \in Request, Submit(r) \/ Disconnect(r) \/ Read(r) \/ ReadClosed(r)
      PROVE  Tales'
  BY <1>1, SubmitTales, DisconnectTales, ReadTales, ReadClosedTales
<1>2. CASE Park \/ Stop \/ Shutdown \/ UNCHANGED vars
  BY <1>2, WaitTales
<1>3. CASE Receive \/ Pass \/ PassFails
  BY <1>3, ReceiveTales, PassTales, PassFailsTales
<1>4. CASE EmitToken \/ DecoderFails \/ ReportFinished \/ ReportFailed
  BY <1>4, EmitTales, DecoderFailsTales, ReportFinishedTales, ReportFailedTales
<1> QED BY <1>1, <1>2, <1>3, <1>4 DEF Next, EngineStep

\* All that is known of a reachable state.
Known == Inv /\ Reports /\ Tales

LEMMA KnownAlways == Spec => []Known
<1>1. Init => Known
  BY InvInit, ReportsInit, TalesInit DEF Known
<1>2. Known /\ [Next]_vars => Known'
  BY InvNext, ReportsNext, TalesNext DEF Known
<1> QED BY <1>1, <1>2, PTL DEF Spec

\* The variables of the engine and the handlers keep their types.
LEMMA KnownTypes == Known => TypeOK
<1> SUFFICES ASSUME Known PROVE TypeOK
  OBVIOUS
<1>1. ASSUME NEW r \in Request
      PROVE  /\ handler[r].mode \in {"collect", "stream"}
             /\ handler[r].at \in {"new", "reading", "gone", "returned"}
             /\ IsText(handler[r].text)
             /\ \A i \in DOMAIN events[r] : Speaks(events[r][i])
             /\ answer[r].tokens \in Seq(Token \ StopTokens)
             /\ answer[r].end \in Finish \cup {"none", "cancelled", "failed"}
  BY DEF Known, Inv, Shapes, Tales, Told, Typed
<1>2. ASSUME NEW r \in DOMAIN clients
      PROVE  clients[r].tokens \in Seq(Token) /\ clients[r].emitted \in Nat
  <2>1. r \in Request
    BY DEF Known, Inv, Shapes
  <2>2. Keeps(clients[r], Sent(r))
    BY <2>1 DEF Known, Tales, Told, Decodes
  <2> QED BY <2>2, KeepsWithin DEF Keeps
<1>3. /\ inbox \in Seq(Request) /\ closing \in BOOLEAN
      /\ engine \in {"running", "parked", "stopped"}
      /\ DOMAIN clients \subseteq Request
      /\ outcome.tokens \in Seq([id : Request, token : Token \ StopTokens])
      /\ outcome.finished \in Seq([id : Request, finish : Finish])
      /\ outcome.failed \in Seq(Request)
      /\ live \subseteq Request
      /\ slices \in [Request -> 0..MostSlices]
  BY DEF Known, Inv, Shapes, Tales, InHand
<1> QED BY <1>1, <1>2, <1>3 DEF TypeOK, Speaks

\* The text of an answer is in its response.
LEMMA KnownAnswers == Known => ResponsesTellTheAnswer
<1> SUFFICES ASSUME Known PROVE ResponsesTellTheAnswer
  OBVIOUS
<1>1. ResponsesTellTheEnd
  BY ReportsTell DEF Known
<1>2. ASSUME NEW r \in Request, handler[r].at = "returned", answer[r].end # "failed"
      PROVE  AllBut(handler[r].text, Decode(answer[r].tokens))
  BY <1>2 DEF Known, Tales, Told, Complete
<1> QED BY <1>1, <1>2 DEF ResponsesTellTheAnswer

\* What was sent begins every text that may follow.
LEMMA KnownBegins == Known => TextIsNeverTakenBack
<1> SUFFICES ASSUME Known, NEW r \in DOMAIN clients,
                    NEW more \in BoundedSeq(Token \ StopTokens, 2)
             PROVE  /\ IsPrefix(Sent(r), Decode(clients[r].tokens \o more))
                    /\ ~ Cut(Decode(clients[r].tokens \o more), clients[r].emitted)
  BY DEF TextIsNeverTakenBack
<1>1. r \in Request
  BY DEF Known, Inv, Shapes
<1>2. Told(r)
  BY <1>1 DEF Known, Tales
<1>3. more \in BoundedSeq(Token, 2)
  <2>1. PICK S : S = Token \ StopTokens /\ more \in BoundedSeq(S, 2)
    OBVIOUS
  <2>2. PICK m \in 0..2 : more \in [1..m -> S]
    BY <2>1 DEF BoundedSeq, SeqOf
  <2>3. more \in [1..m -> Token]
    BY <2>1, <2>2
  <2> QED BY <2>3, Zenon DEF BoundedSeq, SeqOf
<1>4. PICK d, sent : d = clients[r] /\ sent = Sent(r)
  OBVIOUS
<1>5. Keeps(d, sent)
  BY <1>2, <1>4 DEF Told, Decodes
<1>6. Len(d.tokens) + 2 <= MostTokens
  <2>1. PICK n : n = Len(d.tokens) /\ n \in Nat
    BY <1>5 DEF Keeps
  <2>2. n <= Len(answer[r].tokens)
    <3>1. CASE Dues(r) = {}
      BY <1>2, <1>4, <2>1, <3>1 DEF Told, Decodes
    <3>2. CASE Dues(r) # {}
      <4>1. PICK t : t \in Dues(r)
        BY <3>2
      <4>2. answer[r].tokens = Append(d.tokens, t)
        BY <1>2, <1>4, <4>1 DEF Told, Decodes
      <4>3. d.tokens \in Seq(Token)
        BY <1>5 DEF Keeps
      <4>4. Len(answer[r].tokens) = n + 1
        BY <2>1, <4>2, <4>3, TypedIsSequence, AppendShifts
      <4> QED BY <2>1, <4>4
    <3> QED BY <3>1, <3>2
  <2>3. limit[r] \in Nat /\ limit[r] + 2 <= MostTokens /\ Len(answer[r].tokens) \in Nat
    BY <1>2, TypedIs DEF Told
  <2>4. Len(answer[r].tokens) <= limit[r] \/ Len(answer[r].tokens) <= 1
    BY <1>2 DEF Told, Granted
  <2>5. n + 2 <= MostTokens
    BY ONLY <2>1, <2>2, <2>3, <2>4, TextsReach, DecoderAssumption, SMTT(60)
  <2> QED BY <2>1, <2>5
<1>7. IsPrefix(sent, Decode(d.tokens \o more)) /\ ~ Cut(Decode(d.tokens \o more), d.emitted)
  BY <1>3, <1>5, <1>6, TextBegins
<1> QED BY <1>4, <1>7

\* Who runs was sent all that its tokens make.
LEMMA KnownLive == Known => NoTextIsLost
<1> SUFFICES ASSUME Known, NEW r \in live \cap DOMAIN clients
             PROVE  AllBut(Sent(r), Decode(clients[r].tokens))
  BY DEF NoTextIsLost
<1>1. r \in Request
  BY DEF Known, Inv, Shapes
<1>2. Keeps(clients[r], Sent(r)) /\ Tells(clients[r], Sent(r))
  BY <1>1 DEF Known, Tales, Told, Decodes, Accepts
<1> QED BY <1>2, ToldAll

\* The variables keep their types: in particular every event of every channel is a
\* text of whole bytes, a finish or a failure, and no stop token is ever reported
\* (engine.rs run; scheduler.rs commit).
THEOREM TypesHold == Spec => []TypeOK
BY KnownAlways, KnownTypes, PTL

\* A response has the text of the tokens the scheduler reported for its request,
\* in their order and all of them, but for one unfinished character at the end:
\* whatever the vocabulary, however its tokens split characters, and however
\* passes, reads, hang-ups and failures interleave (engine.rs run; tokenizer.rs
\* push; routes.rs collect, sse_stream).
THEOREM AnswersAreTold == Spec => []ResponsesTellTheAnswer
BY KnownAlways, KnownAnswers, PTL

\* What a client was sent begins its text whichever two tokens follow, and
\* the decoder's count of emitted bytes is never inside a character: the slice
\* of the code does not panic, and no replacement that was sent becomes a letter
\* (tokenizer.rs push).
THEOREM TextsAreKept == Spec => []TextIsNeverTakenBack
BY KnownAlways, KnownBegins, PTL

\* A sequence that is live has sent its client all the text its decoded tokens
\* make, but for one unfinished character: a client that went away costs no pass
\* after the first text it would have read (engine.rs run, the send that fails).
THEOREM TextsAreSent == Spec => []NoTextIsLost
BY KnownAlways, KnownLive, PTL
=============================================================================
