---------------------------- MODULE ServerProofs ----------------------------
(***************************************************************************)
(* What the server lets through fits, whatever the device, the model, the  *)
(* command line and the requests.                                          *)
(***************************************************************************)
EXTENDS Server, SequenceTheorems, TLAPS

-----------------------------------------------------------------------------
(* Arithmetic of blocks. *)

\* Rounding a context up to whole blocks stays below any number of whole
\* blocks it was below.
LEMMA CeilBelow ==
  ASSUME NEW c \in Nat, NEW b \in Nat \ {0}, NEW k \in Nat, c <= k * b
  PROVE  CeilDiv(c, b) * b <= k * b /\ CeilDiv(c, b) * b >= c
<1> DEFINE q == CeilDiv(c, b)
<1>1. q \in Nat /\ q * b <= c + b - 1 /\ c + b - 1 < (q + 1) * b
  BY DEF CeilDiv
<1>2. q <= k
  <2>1. q * b < (k + 1) * b
    BY <1>1
  <2> QED
    BY <1>1, <2>1
<1>3. q * b <= k * b
  BY <1>1, <1>2
<1> QED
  BY <1>1, <1>3

\* Rounding down to whole blocks.
LEMMA FloorBelow ==
  ASSUME NEW n \in Nat, NEW b \in Nat \ {0}
  PROVE  n \div b \in Nat /\ (n \div b) * b <= n /\ n < (n \div b + 1) * b
OBVIOUS

-----------------------------------------------------------------------------
(* The longest context has room. *)

Sized ==
    /\ args \in Args /\ config \in Config /\ pool \in Nat

\* The kernel's cap is a number of whole blocks that fits beside the scratch.
LEMMA KernelCap ==
  ASSUME Sized, args.device \in DOMAIN Shared, args.block_size > 0,
         NEW c \in Nat, c <= KernelContext
  PROVE  KernelFits(c)
<1> DEFINE b == args.block_size
           n == Shared[args.device] \div 4 - Threads
<1>1. b \in Nat \ {0}
  BY DEF Sized, Args
<1>2. n \in Nat /\ (n + Threads) * 4 <= Shared[args.device]
      /\ Shared[args.device] \in Nat /\ Threads \in Nat
  BY ServerAssumption DEF Sized
<1>3. KernelContext = (n \div b) * b
  BY <1>1 DEF KernelContext, AtLeast
<1> HIDE DEF n, b
<1>4. n \div b \in Nat /\ (n \div b) * b <= n
  BY <1>1, <1>2, FloorBelow
<1>5. CeilDiv(c, b) * b <= (n \div b) * b
  BY <1>1, <1>3, <1>4, CeilBelow
<1>6. CeilDiv(c, b) * b \in Nat
  BY <1>1 DEF CeilDiv
<1>7. CeilDiv(c, b) * b <= n
  <2> DEFINE x == CeilDiv(c, b) * b
             y == (n \div b) * b
  <2>1. x \in Nat /\ y \in Int /\ x <= y /\ y <= n
    BY <1>1, <1>2, <1>4, <1>5, <1>6
  <2> HIDE DEF x, y
  <2>2. x <= n
    BY <1>2, <2>1
  <2> QED
    BY <2>2 DEF x
<1>8. (CeilDiv(c, b) * b + Threads) * 4 <= Shared[args.device]
  <2> DEFINE x == CeilDiv(c, b) * b
  <2>1. x \in Nat /\ x <= n
    BY <1>6, <1>7
  <2> HIDE DEF x
  <2>2. (x + Threads) * 4 <= Shared[args.device]
    BY <1>2, <2>1
  <2> QED
    BY <2>2 DEF x
<1> QED
  BY <1>8 DEF KernelFits, b

\* MaxContext is a number, and every context within it has room.
LEMMA MaxContextFits ==
  ASSUME Sized
  PROVE  /\ MaxContext \in Nat
         /\ \A c \in Nat, k \in BOOLEAN :
              0 < c /\ c <= MaxContext /\ (k => OnKernel) => HasRoom(c, k)
<1>1. args.block_size \in Nat /\ config.positions \in Nat /\ pool * args.block_size \in Nat
  BY DEF Sized, Args, Config
<1>2. OnKernel => KernelContext \in Nat
  <2>1. SUFFICES ASSUME OnKernel PROVE KernelContext \in Nat
    OBVIOUS
  <2> DEFINE n == Shared[args.device] \div 4 - Threads
             b == AtLeast(args.block_size, 1)
  <2>2. n \in Nat
    BY <2>1, ServerAssumption DEF OnKernel
  <2>3. b \in Nat \ {0}
    BY <1>1 DEF AtLeast
  <2>4. KernelContext = (n \div b) * b
    BY DEF KernelContext
  <2> HIDE DEF n, b
  <2> QED
    BY <2>2, <2>3, <2>4, FloorBelow
<1>3. MaxContext \in Nat /\ MaxContext <= pool * args.block_size
      /\ MaxContext <= config.positions /\ (OnKernel => MaxContext <= KernelContext)
  BY <1>1, <1>2 DEF MaxContext, AtMost
<1>4. ASSUME NEW c \in Nat, NEW k \in BOOLEAN, 0 < c, c <= MaxContext, k => OnKernel
      PROVE  HasRoom(c, k)
  <2>1. c <= config.positions /\ c <= pool * args.block_size
    BY <1>1, <1>3, <1>4
  <2>2. args.block_size > 0
    <3>1. ASSUME args.block_size = 0 PROVE FALSE
      <4>1. pool * args.block_size = 0
        BY <3>1 DEF Sized
      <4> QED
        BY <1>4, <2>1, <4>1
    <3> QED
      BY <1>1, <3>1
  <2>3. k => KernelFits(c)
    <3>1. SUFFICES ASSUME k PROVE KernelFits(c)
      OBVIOUS
    <3>2. OnKernel /\ c <= KernelContext
      BY <1>2, <1>3, <1>4, <3>1
    <3> QED
      BY <2>2, <3>2, KernelCap DEF OnKernel
  <2> QED
    BY <2>1, <2>3 DEF HasRoom
<1> QED
  BY <1>3, <1>4

-----------------------------------------------------------------------------
(* The inductive invariant. *)

\* AdmittedSequencesFit is not inductive: that a pass has room follows from
\* what the handler compared with max_context when the request arrived, from
\* how far the sequence has come since, and from max_context being what the
\* sizes make it.
SamplingSetting == [temperature : Int, top_p : Options(Int), top_k : Options(Nat)]
Replies == {"none", "unsupported", "unreadable", "empty", "too long", "out of range",
            "admitted"}
HandlerState ==
    [request : Options(Requests), reply : Replies, sampling : Options(SamplingSetting),
     limit : Nat, held : Nat, left : Nat]

Started ==
    /\ args \in Arguments /\ config \in Checkpoints /\ pool \in Nat
    /\ phase \in {"parsing", "loading", "serving", "refused"}
    /\ engine \in [max_context : Nat, cache_bytes : Nat]
    /\ phase = "serving" => engine.max_context = MaxContext

ToProduce(h) == AtLeast(handler[h].limit, 1)

\* How many tokens a sequence has to go follows from how many it holds.
OnItsWay(h) ==
    /\ phase = "serving"
    /\ handler[h].request # None
    /\ Prompt(h) > 0 /\ Prompt(h) + ToProduce(h) <= engine.max_context
    /\ handler[h].left <= ToProduce(h)
    /\ handler[h].held < Prompt(h) => handler[h].left = ToProduce(h)
    /\ handler[h].held >= Prompt(h) =>
         handler[h].held + handler[h].left = Prompt(h) + ToProduce(h) - 1

IInv ==
    /\ Started
    /\ handler \in [Handler -> HandlerState]
    /\ \A h \in Handler : handler[h].request = None <=> handler[h].reply = "none"
    /\ \A h \in Handler : Admitted(h) => OnItsWay(h)
    /\ failed = FALSE

-----------------------------------------------------------------------------
(* Types. *)

\* An option is none or holds a value.
LEMMA OptionCases ==
  ASSUME NEW S, NEW o \in Options(S)
  PROVE  o = None \/ o[1] \in S
BY DEF Options, None

\* An option that is not none is some value.
LEMMA OptionIsSome ==
  ASSUME NEW S, NEW o \in Options(S), o # None
  PROVE  o = Some(o[1])
<1>1. o \in Seq(S) /\ Len(o) \in Nat /\ Len(o) <= 1
  BY DEF Options
<1>2. Len(o) \in Nat \ {0}
  BY <1>1, EmptySeq DEF None
<1> DEFINE n == Len(o)
<1>3. n \in Nat \ {0} /\ n <= 1
  BY <1>1, <1>2
<1> HIDE DEF n
<1>4. n = 1
  BY <1>3
<1> USE DEF n
<1> DEFINE x == o[1]
<1>5. x \in S
  BY <1>1, <1>4
<1>6. o[1] = <<x>>[1] /\ <<x>> \in Seq(S) /\ Len(<<x>>) = 1
  BY <1>5
<1> HIDE DEF x
<1>7. \A i \in 1..Len(o) : o[i] = <<x>>[i]
  BY <1>4, <1>6
<1>8. o = <<x>>
  BY <1>1, <1>4, <1>6, <1>7, SeqEqual
<1> QED
  BY <1>8 DEF Some, x

LEMMA SomeIsOption ==
  ASSUME NEW S, NEW x \in S
  PROVE  Some(x) \in Options(S) /\ Some(x) # None /\ Some(x)[1] = x
BY DEF Options, Some, None

LEMMA NoneIsOption ==
  ASSUME NEW S
  PROVE  None \in Options(S)
BY DEF Options, None

LEMMA UnwrapOrType ==
  ASSUME NEW S, NEW o \in Options(S), NEW d \in S
  PROVE  UnwrapOr(o, d) \in S
BY OptionCases DEF UnwrapOr

\* Arguments and checkpoints are what ServerAssumption says of them.
LEMMA StartedSized ==
  ASSUME Started
  PROVE  Sized
BY ServerAssumption DEF Started, Sized

\* The sampling settings handed to the engine are of their type.
LEMMA SamplingType ==
  ASSUME Sized, NEW body \in Body
  PROVE  SamplingOf(body) \in SamplingSetting
<1>1. /\ body.temperature \in Options(Int) /\ body.top_p \in Options(Int)
      /\ body.top_k \in Options(Nat)
      /\ config.temperature \in Options(Int) /\ config.top_p \in Options(Int)
      /\ config.top_k \in Options(Nat)
  BY DEF Sized, Body, Config
<1>2. Temperature(body) \in Int
  BY <1>1, UnwrapOrType DEF Temperature, Or
<1>3. None \in Options(Int) /\ None \in Options(Nat)
  BY NoneIsOption
<1> QED
  BY <1>1, <1>2, <1>3 DEF SamplingOf, SamplingSetting, Or

\* A request that is admitted asks for at most what is left.
LEMMA BudgetFits ==
  ASSUME Sized, NEW body \in Body, engine.max_context \in Nat, Reply(body) = "admitted"
  PROVE  /\ body.prompt \in Nat \ {0}
         /\ Budget(body) \in Nat
         /\ body.prompt + AtLeast(Budget(body), 1) <= engine.max_context
<1>1. /\ body.prompt \in Nat /\ args.max_tokens \in Nat
      /\ body.max_tokens \in Options(Nat) /\ body.max_completion_tokens \in Options(Nat)
  BY DEF Sized, Args, Body
<1>2. Asked(body) \in Options(Nat)
  BY <1>1 DEF Asked, Or
<1>3. body.prompt # 0 /\ ~ TooLong(body)
  BY DEF Reply
<1>4. /\ Left(body) \in Nat \ {0} /\ Left(body) = engine.max_context - body.prompt
      /\ Asked(body) # None => ~ (Asked(body)[1] > Left(body))
  BY <1>1, <1>3 DEF TooLong, Left, AtLeast
<1>5. Budget(body) \in Nat /\ Budget(body) <= Left(body)
  <2>1. CASE Asked(body) = None
    BY <1>1, <1>4, <2>1 DEF Budget, UnwrapOr, AtMost
  <2>2. CASE Asked(body) # None
    <3>1. Asked(body)[1] \in Nat /\ Asked(body)[1] <= Left(body)
      BY <1>2, <1>4, <2>2, OptionCases
    <3> QED
      BY <2>2, <3>1 DEF Budget, UnwrapOr
  <2> QED
    BY <2>1, <2>2
<1> QED
  BY <1>1, <1>3, <1>4, <1>5 DEF AtLeast

-----------------------------------------------------------------------------
(* The invariant is kept. *)

\* MaxContext depends on what a step leaves alone.
LEMMA MaxContextStable ==
  ASSUME UNCHANGED <<args, config, pool>>
  PROVE  MaxContext' = MaxContext
BY DEF MaxContext, OnKernel, KernelContext

\* A handler that holds no request is of the handlers' type.
LEMMA IdleType ==
  Idle \in HandlerState /\ Idle.request = None /\ Idle.reply = "none"
<1>1. None \in Options(Requests) /\ None \in Options(SamplingSetting)
  BY NoneIsOption
<1> DEFINE O == Options(Requests)
           P == Options(SamplingSetting)
<1>2. HandlerState = [request : O, reply : Replies, sampling : P,
                      limit : Nat, held : Nat, left : Nat]
  BY DEF HandlerState
<1>3. None \in O /\ None \in P
  BY <1>1
<1> HIDE DEF O, P
<1>4. Idle \in HandlerState
  BY <1>2, <1>3 DEF Idle, Replies
<1> QED
  BY <1>4 DEF Idle

LEMMA InitIInv ==
  ASSUME Init
  PROVE  IInv
BY IdleType DEF Init, IInv, Started, Admitted

\* Bytes are a number of bytes.
LEMMA BytesType ==
  ASSUME Sized
  PROVE  Bytes(pool, ModelDType) \in Nat /\ BlocksWithin(args.cache_bytes, DTypeForPool) \in Nat
<1>1. /\ args.block_size \in Nat /\ args.cache_bytes \in Nat /\ pool \in Nat
      /\ config.layers \in Nat /\ config.kv_heads \in Nat /\ config.head_dim \in Nat
  BY DEF Sized, Args, Config
<1>2. ModelDType \in DType /\ DTypeForPool \in DType
  <2>1. args.dtype \in Options(DType) /\ config.dtype \in DType
    BY DEF Sized, Args, Config
  <2>2. "bf16" \in DType
    BY DEF DType, SizeInBytes
  <2> QED
    BY <2>1, <2>2, UnwrapOrType DEF ModelDType, DTypeForPool
<1>3. \A d \in DType : SizeInBytes[d] \in Nat
  BY DEF DType, SizeInBytes
<1>4. \A d \in DType : BytesPerToken(d) \in Nat
  BY <1>1, <1>3 DEF BytesPerToken
<1>5. Bytes(pool, ModelDType) \in Nat
  BY <1>1, <1>2, <1>4 DEF Bytes
<1>6. BlocksWithin(args.cache_bytes, DTypeForPool) \in Nat
  <2> DEFINE perBlock == args.block_size * BytesPerToken(DTypeForPool)
  <2>1. perBlock \in Nat
    BY <1>1, <1>2, <1>4
  <2> HIDE DEF perBlock
  <2>2. AtLeast(perBlock, 1) \in Nat \ {0}
    BY <2>1 DEF AtLeast
  <2>3. args.cache_bytes \div AtLeast(perBlock, 1) \in Nat
    BY <1>1, <2>2
  <2> QED
    BY <2>3 DEF BlocksWithin, AtLeast, perBlock
<1> QED
  BY <1>5, <1>6

\* While the handlers stand still they stay as they are.
LEMMA HandlersStable ==
  ASSUME IInv, UNCHANGED <<handler, failed>>, Started',
         \A h \in Handler : Admitted(h) => phase' = "serving" /\ engine' = engine
  PROVE  IInv'
BY DEF IInv, Admitted, OnItsWay, Prompt, ToProduce

\* Starting the server.
LEMMA StartingKeepsIInv ==
  ASSUME IInv, SizePool \/ RefuseToStart \/ Load \/ LoadFails
  PROVE  IInv'
<1>1. Sized
  BY StartedSized DEF IInv
<1>2. \A h \in Handler : ~ Admitted(h)
  BY DEF IInv, OnItsWay, SizePool, RefuseToStart, Load, LoadFails
<1>3. UNCHANGED <<handler, failed>>
  BY DEF SizePool, RefuseToStart, Load, LoadFails
<1>4. Started'
  <2>1. CASE SizePool
    BY <2>1, <1>1, BytesType DEF IInv, Started, SizePool
  <2>2. CASE RefuseToStart \/ LoadFails
    BY <2>2 DEF IInv, Started, RefuseToStart, LoadFails
  <2>3. CASE Load
    <3>1. UNCHANGED <<args, config, pool>>
      BY <2>3 DEF Load
    <3>2. MaxContext' = MaxContext /\ MaxContext \in Nat
      BY <1>1, <3>1, MaxContextStable, MaxContextFits
    <3> QED
      BY <2>3, <1>1, <3>2, BytesType DEF IInv, Started, Load
  <2> QED
    BY <2>1, <2>2, <2>3
<1> QED
  BY <1>2, <1>3, <1>4, HandlersStable

\* What one handler does leaves the sizes alone.
LEMMA StartedStable ==
  ASSUME Started, UNCHANGED <<args, config, phase, pool, engine>>
  PROVE  Started'
BY MaxContextStable DEF Started

\* A request arrives: what is let through is within max_context.
LEMMA HandleKeepsIInv ==
  ASSUME IInv, NEW h \in Handler, NEW body \in Requests, Handle(h, body)
  PROVE  IInv'
<1>1. Sized /\ Started' /\ body \in Body /\ engine.max_context \in Nat
  BY StartedSized, StartedStable, ServerAssumption DEF IInv, Handle, Started
<1>2. \A g \in Handler \ {h} : handler'[g] = handler[g]
  BY DEF Handle, IInv
<1>3. /\ phase = "serving" /\ UNCHANGED <<args, config, phase, pool, engine, failed>>
      /\ handler' \in [Handler -> HandlerState]
      /\ handler'[h].request # None /\ handler'[h].reply # "none"
      /\ Admitted(h)' => OnItsWay(h)'
  <2>1. Some(body) \in Options(Requests) /\ Some(body) # None /\ Some(body)[1] = body
    BY SomeIsOption
  <2>2. CASE Reply(body) # "admitted"
    <3>1. handler'[h] = [Idle EXCEPT !.request = Some(body), !.reply = Reply(body)]
      BY <2>2 DEF Handle, IInv
    <3>2. handler'[h] \in HandlerState /\ handler'[h].request = Some(body)
          /\ handler'[h].reply = Reply(body) /\ Reply(body) # "none"
      <4>1. Reply(body) \in Replies /\ Reply(body) # "none"
        BY DEF Reply, Replies
      <4>2. Idle \in HandlerState
        BY IdleType
      <4> QED
        BY <2>1, <3>1, <4>1, <4>2 DEF HandlerState
    <3> QED
      BY <2>1, <2>2, <3>2 DEF Handle, IInv, Admitted
  <2>3. CASE Reply(body) = "admitted"
    <3>1. handler'[h] = [request |-> Some(body), reply |-> "admitted",
                         sampling |-> Some(SamplingOf(body)), limit |-> Budget(body),
                         held |-> 0, left |-> AtLeast(Budget(body), 1)]
      BY <2>3 DEF Handle, IInv
    <3>2. /\ body.prompt \in Nat \ {0} /\ Budget(body) \in Nat
          /\ body.prompt + AtLeast(Budget(body), 1) <= engine.max_context
      BY <1>1, <2>3, BudgetFits
    <3>3. Some(SamplingOf(body)) \in Options(SamplingSetting)
      BY <1>1, SamplingType, SomeIsOption
    <3>4. handler'[h] \in HandlerState
      <4>1. AtLeast(Budget(body), 1) \in Nat
        BY <3>2 DEF AtLeast
      <4> QED
        BY <2>1, <3>1, <3>2, <3>3, <4>1 DEF HandlerState, Replies
    <3>5. phase = "serving" /\ UNCHANGED <<args, config, phase, pool, engine, failed>>
          /\ handler' \in [Handler -> HandlerState]
      BY <3>4 DEF Handle, IInv
    <3>6. OnItsWay(h)'
      BY <2>1, <3>1, <3>2, <3>5 DEF OnItsWay, Prompt, ToProduce, AtLeast
    <3> QED
      BY <2>1, <3>1, <3>5, <3>6
  <2> QED
    BY <2>2, <2>3
<1> QED
  BY <1>1, <1>2, <1>3 DEF IInv, Admitted, OnItsWay, Prompt, ToProduce

\* A handler returns.
LEMMA ReturnKeepsIInv ==
  ASSUME IInv, NEW h \in Handler, Return(h)
  PROVE  IInv'
<1>1. Idle \in HandlerState /\ Idle.request = None /\ Idle.reply = "none"
  BY IdleType
<1>2. Started' /\ UNCHANGED <<phase, engine, failed>>
  BY StartedStable DEF IInv, Return
<1>3. /\ handler' \in [Handler -> HandlerState] /\ handler'[h] = Idle
      /\ \A g \in Handler \ {h} : handler'[g] = handler[g]
  BY <1>1 DEF Return, IInv
<1> QED
  BY <1>1, <1>2, <1>3 DEF IInv, Admitted, OnItsWay, Prompt, ToProduce

\* What a row of a pass reaches is within max_context.
LEMMA RowFits ==
  ASSUME IInv, NEW h \in Handler, Running(h), NEW n \in Carried(h)
  PROVE  /\ n \in Nat \ {0}
         /\ handler[h].held + n \in Nat /\ handler[h].held + n > 0
         /\ handler[h].held + n <= engine.max_context
         /\ handler[h].held < Prompt(h) => handler[h].held + n <= Prompt(h)
         /\ handler[h].held >= Prompt(h) => n = 1
<1>1. OnItsWay(h) /\ Admitted(h) /\ handler[h] \in HandlerState /\ handler[h].left > 0
  BY DEF IInv, Running
<1>2. /\ handler[h].held \in Nat /\ handler[h].left \in Nat /\ handler[h].limit \in Nat
      /\ handler[h].request[1] \in Requests
  BY <1>1, OptionCases DEF HandlerState, OnItsWay
<1>3. Prompt(h) \in Nat /\ ToProduce(h) \in Nat \ {0} /\ engine.max_context \in Nat
      /\ args.chunk \in Nat \cup {Off, NoNumber}
  BY <1>2, ServerAssumption DEF Prompt, Body, ToProduce, AtLeast, IInv, Started, Args
<1>4. CASE handler[h].held >= Prompt(h)
  <2>1. n = 1
    BY <1>4 DEF Carried
  <2> QED
    BY <1>1, <1>2, <1>3, <1>4, <2>1 DEF OnItsWay
<1>5. CASE handler[h].held < Prompt(h)
  <2>1. n \in Nat \ {0} /\ n <= Prompt(h) - handler[h].held
    BY <1>2, <1>3, <1>5 DEF Carried, AtMost, Off, NoNumber
  <2> QED
    BY <1>1, <1>2, <1>3, <1>5, <2>1 DEF OnItsWay
<1> QED
  BY <1>2, <1>3, <1>4, <1>5

\* A pass has room for every row, and brings each closer to its end.
LEMMA PassKeepsIInv ==
  ASSUME IInv, NEW rows \in SUBSET Handler, NEW carried, Pass(rows, carried)
  PROVE  IInv'
<1>1. Sized /\ Started'
  BY StartedSized, StartedStable DEF IInv, Pass
<1>2. phase = "serving" /\ engine.max_context = MaxContext /\ UNCHANGED <<phase, engine>>
  BY DEF IInv, Started, Pass
<1>3. failed' = FALSE
  <2>1. ASSUME NEW h \in rows, NEW k \in BOOLEAN, k => OnKernel
        PROVE  HasRoom(handler[h].held + carried[h], k)
    <3>1. Running(h) /\ carried[h] \in Carried(h)
      BY DEF Pass
    <3>2. /\ handler[h].held + carried[h] \in Nat /\ handler[h].held + carried[h] > 0
          /\ handler[h].held + carried[h] <= MaxContext
      BY <1>2, <3>1, RowFits
    <3> QED
      BY <1>1, <2>1, <3>2, MaxContextFits
  <2> DEFINE decodes == args.chunk # Off \/ \A h \in rows : carried[h] = 1
  <2>2. failed' = (failed \/ \E h \in rows :
                    ~ HasRoom(handler[h].held + carried[h], OnKernel /\ decodes))
    BY DEF Pass
  <2>3. (OnKernel /\ decodes) \in BOOLEAN /\ ((OnKernel /\ decodes) => OnKernel)
    BY DEF OnKernel
  <2> HIDE DEF decodes
  <2> QED
    BY <2>1, <2>2, <2>3 DEF IInv
<1>4. ASSUME NEW h \in Handler
      PROVE  /\ handler'[h] \in HandlerState
             /\ handler'[h].request = handler[h].request
             /\ handler'[h].reply = handler[h].reply
             /\ Admitted(h)' => OnItsWay(h)'
  <2>1. handler[h] \in HandlerState /\ (Admitted(h) => OnItsWay(h))
    BY DEF IInv
  <2>2. CASE h \notin rows
    <3>1. handler'[h] = handler[h]
      BY <2>2 DEF Pass
    <3> QED
      BY <1>2, <2>1, <3>1 DEF Admitted, OnItsWay, Prompt, ToProduce
  <2>3. CASE h \in rows
    <3> DEFINE held == handler[h].held + carried[h]
               left == IF held < Prompt(h) THEN handler[h].left ELSE handler[h].left - 1
    <3>1. handler'[h] = [handler[h] EXCEPT !.held = held, !.left = left]
      BY <2>3 DEF Pass
    <3>2. Running(h) /\ Admitted(h) /\ OnItsWay(h) /\ carried[h] \in Carried(h)
      BY <2>1, <2>3 DEF Pass, Running
    <3>3. /\ carried[h] \in Nat \ {0} /\ held \in Nat
          /\ handler[h].held < Prompt(h) => held <= Prompt(h)
          /\ handler[h].held >= Prompt(h) => carried[h] = 1
      BY <3>2, RowFits
    <3>4. /\ handler[h].held \in Nat /\ handler[h].left \in Nat \ {0}
          /\ handler[h].limit \in Nat /\ handler[h].request[1] \in Requests
      BY <2>1, <3>2, OptionCases DEF HandlerState, OnItsWay, Running
    <3>5. Prompt(h) \in Nat /\ ToProduce(h) \in Nat \ {0}
      BY <3>4, ServerAssumption DEF Prompt, Body, ToProduce, AtLeast
    <3>6. left \in Nat
      BY <3>4
    <3> HIDE DEF held, left
    <3>7. /\ handler'[h] \in HandlerState
          /\ handler'[h].request = handler[h].request /\ handler'[h].reply = handler[h].reply
          /\ handler'[h].limit = handler[h].limit
          /\ handler'[h].held = held /\ handler'[h].left = left
      BY <2>1, <3>1, <3>3, <3>6 DEF HandlerState
    <3>8. Prompt(h)' = Prompt(h) /\ ToProduce(h)' = ToProduce(h)
      BY <3>7 DEF Prompt, ToProduce
    <3>9. /\ left <= ToProduce(h)
          /\ held < Prompt(h) => left = ToProduce(h)
          /\ held >= Prompt(h) => held + left = Prompt(h) + ToProduce(h) - 1
      BY <3>2, <3>3, <3>4, <3>5 DEF OnItsWay, held, left
    <3> QED
      BY <1>2, <3>2, <3>7, <3>8, <3>9 DEF OnItsWay
  <2> QED
    BY <2>2, <2>3
<1>5. handler' \in [Handler -> HandlerState]
  BY <1>4 DEF Pass
<1>6. \A h \in Handler : handler'[h].request = None <=> handler'[h].reply = "none"
  BY <1>4 DEF IInv
<1> QED
  BY <1>1, <1>3, <1>4, <1>5, <1>6 DEF IInv

-----------------------------------------------------------------------------
(* The theorems. *)

LEMMA StepKeepsIInv ==
  ASSUME IInv, [Next]_vars
  PROVE  IInv'
<1>1. CASE SizePool \/ RefuseToStart \/ Load \/ LoadFails
  BY <1>1, StartingKeepsIInv
<1>2. CASE \E h \in Handler, body \in Requests : Handle(h, body)
  BY <1>2, HandleKeepsIInv
<1>3. ASSUME NEW rows \in SUBSET {h \in Handler : Running(h)} \ {{}},
             NEW carried \in [rows -> UNION {Carried(h) : h \in rows}],
             Pass(rows, carried)
      PROVE  IInv'
  BY <1>3, PassKeepsIInv
<1>4. CASE \E h \in Handler : Return(h)
  BY <1>4, ReturnKeepsIInv
<1>5. CASE UNCHANGED vars
  <2>1. Started'
    BY <1>5, StartedStable DEF IInv, vars
  <2> QED
    BY <1>5, <2>1, HandlersStable DEF IInv, OnItsWay, vars
<1> QED
  BY <1>1, <1>2, <1>3, <1>4, <1>5 DEF Next

LEMMA Invariant ==
  Spec => []IInv
BY InitIInv, StepKeepsIInv, PTL DEF Spec

\* No sequence the handlers let through ever outgrows the rotary table, the
\* pool or the kernel, on any device, for any model, command line and load.
THEOREM AdmittedFit ==
  Spec => []AdmittedSequencesFit
<1>1. IInv => AdmittedSequencesFit
  BY DEF IInv, AdmittedSequencesFit
<1> QED
  BY <1>1, Invariant, PTL

\* The state keeps its types, and a sequence never has more to produce, nor
\* holds more tokens, than its prompt and its limit allow.
THEOREM TypeCorrect ==
  Spec => []TypeOK
<1>1. IInv => TypeOK
  <2> SUFFICES ASSUME IInv PROVE TypeOK
    OBVIOUS
  <2>1. ASSUME NEW h \in Handler, Admitted(h)
        PROVE  /\ handler[h].held \in 0..(Prompt(h) + handler[h].limit)
               /\ handler[h].left \in 0..AtLeast(handler[h].limit, 1)
    <3>1. OnItsWay(h) /\ handler[h] \in HandlerState
      BY <2>1 DEF IInv
    <3>2. /\ handler[h].held \in Nat /\ handler[h].left \in Nat
          /\ handler[h].limit \in Nat /\ handler[h].request[1] \in Requests
      BY <3>1, OptionCases DEF HandlerState, OnItsWay
    <3>3. Prompt(h) \in Nat
      BY <3>2, ServerAssumption DEF Prompt, Body
    <3> QED
      BY <3>1, <3>2, <3>3 DEF OnItsWay, ToProduce, AtLeast
  <2> QED
    BY <2>1 DEF IInv, Started, TypeOK
<1> QED
  BY <1>1, Invariant, PTL

-----------------------------------------------------------------------------
(* The door is closed to nothing that fits, and nothing is dropped at it. *)

\* Past max_context one of the three that bound it gives out.
LEMMA PastMaxContext ==
  ASSUME Sized, args.block_size > 0, NEW c \in Nat, c > MaxContext
  PROVE  ~ HasRoom(c, OnKernel)
<1> DEFINE b == args.block_size
           n == Shared[args.device] \div 4 - Threads
<1>1. /\ b \in Nat \ {0} /\ config.positions \in Nat /\ pool * b \in Nat
  BY DEF Sized, Args, Config
<1>2. SUFFICES ASSUME HasRoom(c, OnKernel) PROVE FALSE
  OBVIOUS
<1>3. c <= config.positions /\ c <= pool * b
  BY <1>2 DEF HasRoom
<1>4. OnKernel /\ c > KernelContext
  <2>1. CASE ~ OnKernel
    BY <1>1, <1>3, <2>1 DEF MaxContext, AtMost
  <2>2. CASE OnKernel
    <3>1. MaxContext = AtMost(AtMost(KernelContext, config.positions), pool * b)
      BY <2>2 DEF MaxContext
    <3> QED
      BY <1>1, <1>3, <2>2, <3>1 DEF AtMost
  <2> QED
    BY <2>1, <2>2
<1>5. /\ n \in Nat /\ Shared[args.device] \in Nat /\ Threads \in Nat
      /\ Shared[args.device] < (n + Threads + 1) * 4
  BY <1>4, ServerAssumption DEF OnKernel
<1>6. KernelContext = (n \div b) * b
  BY <1>1 DEF KernelContext, AtLeast
<1>7. (CeilDiv(c, b) * b + Threads) * 4 <= Shared[args.device]
  BY <1>2, <1>4 DEF HasRoom, KernelFits
<1> HIDE DEF b, n
<1>8. n \div b \in Nat /\ n < (n \div b + 1) * b
  BY <1>1, <1>5, FloorBelow
<1> DEFINE k == n \div b
           q == CeilDiv(c, b)
<1>9. q \in Nat /\ q * b >= c /\ k \in Nat
  BY <1>1, <1>8 DEF CeilDiv
<1>10. c > k * b
  BY <1>4, <1>6
<1>11. n < (k + 1) * b
  BY <1>8
<1> HIDE DEF k, q
<1>12. q >= k + 1
  <2>1. q * b > k * b
    BY <1>1, <1>9, <1>10
  <2> QED
    BY <1>1, <1>9, <2>1
<1>13. q * b >= (k + 1) * b
  BY <1>1, <1>9, <1>12
<1> DEFINE x == q * b
           y == (k + 1) * b
<1>14. x \in Nat /\ y \in Nat /\ x >= y /\ n < y
  BY <1>1, <1>9, <1>11, <1>13
<1>15. (x + Threads) * 4 <= Shared[args.device]
  BY <1>7 DEF q
<1> HIDE DEF x, y
<1> QED
  BY <1>5, <1>14, <1>15

\* What a handler holds of a request it turned away, and of one it let through.
AtTheDoor(h) ==
    /\ handler[h].reply = "too long" =>
         phase = "serving" /\ TooLong(handler[h].request[1])
    /\ Admitted(h) =>
         LET body == handler[h].request[1]
         IN  /\ ~ Refused(body)
             /\ handler[h].limit = Budget(body)
             /\ handler[h].sampling = Some(SamplingOf(body))
             /\ InRange(SamplingOf(body))

LEMMA HandleAtTheDoor ==
  ASSUME IInv, NEW h \in Handler, NEW body \in Requests, Handle(h, body)
  PROVE  AtTheDoor(h)'
<1>1. /\ phase = "serving" /\ UNCHANGED <<args, config, phase, pool, engine>>
      /\ handler'[h] = IF Reply(body) # "admitted"
                       THEN [Idle EXCEPT !.request = Some(body), !.reply = Reply(body)]
                       ELSE [request |-> Some(body), reply |-> "admitted",
                             sampling |-> Some(SamplingOf(body)), limit |-> Budget(body),
                             held |-> 0, left |-> AtLeast(Budget(body), 1)]
  BY DEF Handle, IInv
<1>2. Some(body)[1] = body
  BY SomeIsOption
<1>3. handler'[h].request[1] = body /\ handler'[h].reply = Reply(body)
      /\ (Reply(body) = "admitted" => /\ handler'[h].limit = Budget(body)
                                      /\ handler'[h].sampling = Some(SamplingOf(body)))
  <2>1. CASE Reply(body) = "admitted"
    BY <1>1, <1>2, <2>1
  <2>2. CASE Reply(body) # "admitted"
    BY <1>1, <1>2, <2>2 DEF Idle
  <2> QED
    BY <2>1, <2>2
<1>4. /\ TooLong(body)' <=> TooLong(body)
      /\ Budget(body)' = Budget(body) /\ SamplingOf(body)' = SamplingOf(body)
  BY <1>1 DEF TooLong, Left, Asked, Budget, SamplingOf, Temperature
<1>5. Reply(body) = "too long" => TooLong(body)
  BY DEF Reply
<1>6. Reply(body) = "admitted" => ~ Refused(body) /\ InRange(SamplingOf(body))
  BY DEF Reply
<1> QED
  BY <1>1, <1>3, <1>4, <1>5, <1>6 DEF AtTheDoor, Admitted

\* A handler that keeps its request and what it made of it stays at its door.
LEMMA AtTheDoorStable ==
  ASSUME NEW h \in Handler, AtTheDoor(h), UNCHANGED <<args, config, phase, engine>>,
         handler'[h].request = handler[h].request, handler'[h].reply = handler[h].reply,
         handler'[h].limit = handler[h].limit, handler'[h].sampling = handler[h].sampling
  PROVE  AtTheDoor(h)'
BY ZenonT(60) DEF AtTheDoor, Admitted, TooLong, Left, Asked, Budget, SamplingOf, Temperature

DoorInv == IInv /\ \A h \in Handler : AtTheDoor(h)

LEMMA StepKeepsDoor ==
  ASSUME DoorInv, [Next]_vars
  PROVE  DoorInv'
<1>1. IInv /\ IInv'
  BY StepKeepsIInv DEF DoorInv
<1>2. ASSUME NEW g \in Handler PROVE AtTheDoor(g)'
  <2>1. AtTheDoor(g)
    BY DEF DoorInv
  <2>2. CASE SizePool \/ RefuseToStart \/ Load \/ LoadFails
    <3>1. phase # "serving" /\ handler' = handler
      BY <2>2 DEF SizePool, RefuseToStart, Load, LoadFails
    <3>2. handler'[g].reply \notin {"too long", "admitted"}
      BY <1>1, <2>1, <3>1 DEF AtTheDoor, IInv, OnItsWay, Admitted
    <3> QED
      BY <3>2 DEF AtTheDoor, Admitted
  <2>3. ASSUME NEW h \in Handler, NEW body \in Requests, Handle(h, body)
        PROVE  AtTheDoor(g)'
    <3>1. CASE g = h
      BY <1>1, <2>3, <3>1, HandleAtTheDoor
    <3>2. CASE g # h
      <4>1. handler'[g] = handler[g] /\ UNCHANGED <<args, config, phase, engine>>
        BY <1>1, <2>3, <3>2 DEF Handle, IInv
      <4> QED
        BY <2>1, <4>1, AtTheDoorStable
    <3> QED
      BY <3>1, <3>2
  <2>4. ASSUME NEW rows \in SUBSET {h \in Handler : Running(h)} \ {{}},
               NEW carried \in [rows -> UNION {Carried(h) : h \in rows}],
               Pass(rows, carried)
        PROVE  AtTheDoor(g)'
    <3>1. handler[g] \in HandlerState /\ UNCHANGED <<args, config, phase, engine>>
      BY <1>1, <2>4 DEF IInv, Pass
    <3>2. /\ handler'[g].request = handler[g].request
          /\ handler'[g].reply = handler[g].reply
          /\ handler'[g].limit = handler[g].limit
          /\ handler'[g].sampling = handler[g].sampling
      BY <2>4, <3>1 DEF Pass, HandlerState
    <3> QED
      BY <2>1, <3>1, <3>2, AtTheDoorStable
  <2>5. ASSUME NEW h \in Handler, Return(h)
        PROVE  AtTheDoor(g)'
    <3>1. CASE g = h
      <4>1. handler'[g].reply = "none"
        BY <1>1, <2>5, <3>1 DEF Return, Idle, IInv
      <4> QED
        BY <4>1 DEF AtTheDoor, Admitted
    <3>2. CASE g # h
      <4>1. handler'[g] = handler[g] /\ UNCHANGED <<args, config, phase, engine>>
        BY <1>1, <2>5, <3>2 DEF Return, IInv
      <4> QED
        BY <2>1, <4>1, AtTheDoorStable
    <3> QED
      BY <3>1, <3>2
  <2>6. CASE UNCHANGED vars
    BY <2>1, <2>6, AtTheDoorStable DEF vars
  <2> QED
    BY <2>2, <2>3, <2>4, <2>5, <2>6 DEF Next
<1> QED
  BY <1>1, <1>2 DEF DoorInv

LEMMA InitDoor ==
  ASSUME Init
  PROVE  DoorInv
<1>1. \A h \in Handler : handler[h].reply = "none"
  BY DEF Init, Idle
<1> QED
  BY <1>1, InitIInv DEF DoorInv, AtTheDoor, Admitted

LEMMA Door ==
  Spec => []DoorInv
BY InitDoor, StepKeepsDoor, PTL DEF Spec

\* A request turned away for its length would have outgrown the rotary table,
\* the pool or the kernel, on any device, for any model and command line.
THEOREM TurnedAwayOnlyForRoom ==
  Spec => []TurnedAwayWouldNotFit
<1>1. ASSUME DoorInv, NEW h \in Handler, handler[h].reply = "too long", args.block_size > 0
      PROVE  LET body == handler[h].request[1]
                 asked == IF Left(body) = 0 THEN 1 ELSE Asked(body)[1]
             IN  ~ HasRoom(body.prompt + asked, OnKernel)
  <2> DEFINE body == handler[h].request[1]
             asked == IF Left(body) = 0 THEN 1 ELSE Asked(body)[1]
  <2>1. /\ phase = "serving" /\ TooLong(body) /\ Sized
        /\ engine.max_context = MaxContext /\ MaxContext \in Nat
    BY <1>1, StartedSized, MaxContextFits DEF DoorInv, AtTheDoor, IInv, Started
  <2>2. body \in Body
    <3>1. handler[h] \in HandlerState /\ handler[h].request # None
      BY <1>1 DEF DoorInv, IInv
    <3> QED
      BY <3>1, OptionCases, ServerAssumption DEF HandlerState
  <2>3. /\ body.prompt \in Nat /\ body.max_tokens \in Options(Nat)
        /\ body.max_completion_tokens \in Options(Nat)
    BY <2>2 DEF Body
  <2>4. Asked(body) \in Options(Nat)
    BY <2>3 DEF Asked, Or
  <2>5. /\ Left(body) = 0 => MaxContext <= body.prompt
        /\ Left(body) # 0 => /\ Asked(body) # None /\ Asked(body)[1] > Left(body)
                             /\ Left(body) = MaxContext - body.prompt
    BY <2>1, <2>3 DEF TooLong, Left, AtLeast
  <2>6. Asked(body) # None => Asked(body)[1] \in Nat
    BY <2>4, OptionCases
  <2> HIDE DEF body
  <2>7. body.prompt + asked \in Nat /\ body.prompt + asked > MaxContext
    BY <2>1, <2>3, <2>5, <2>6
  <2>8. ~ HasRoom(body.prompt + asked, OnKernel)
    BY <1>1, <2>1, <2>7, PastMaxContext
  <2> QED
    BY <2>8 DEF body
<1>2. DoorInv => TurnedAwayWouldNotFit
  BY <1>1 DEF TurnedAwayWouldNotFit
<1> QED
  BY <1>2, Door, PTL

\* What is let through carries the limit and the sampling that were asked for,
\* whatever the server's and the model's defaults.
THEOREM AskedAndHonoured ==
  Spec => []HonouredOrRefused
<1>1. ASSUME DoorInv, NEW h \in Handler, Admitted(h)
      PROVE  LET body == handler[h].request[1]
                 sampling == handler[h].sampling[1]
                 limits == IF body.api = "chat"
                           THEN {body.max_tokens, body.max_completion_tokens} \ {None}
                           ELSE {body.max_tokens} \ {None}
             IN  /\ \A field \in Field : body.fields[field] # "set"
                 /\ limits # {} => Some(handler[h].limit) \in limits
                 /\ body.temperature # None => sampling.temperature = body.temperature[1]
                 /\ sampling.temperature > 0 =>
                      /\ body.top_p # None => sampling.top_p = body.top_p
                      /\ body.top_k # None => sampling.top_k = body.top_k
                 /\ InRange(sampling)
  <2> DEFINE body == handler[h].request[1]
             sampling == handler[h].sampling[1]
             limits == IF body.api = "chat"
                       THEN {body.max_tokens, body.max_completion_tokens} \ {None}
                       ELSE {body.max_tokens} \ {None}
  <2>1. /\ ~ Refused(body) /\ handler[h].limit = Budget(body)
        /\ InRange(SamplingOf(body)) /\ handler[h].sampling = Some(SamplingOf(body))
    BY <1>1 DEF DoorInv, AtTheDoor
  <2>2. sampling = SamplingOf(body)
    BY <2>1, SomeIsOption
  <2>3. Sized /\ body \in Body
    <3>1. handler[h] \in HandlerState /\ handler[h].request # None
      BY <1>1 DEF DoorInv, IInv, OnItsWay
    <3> QED
      BY <1>1, <3>1, StartedSized, OptionCases, ServerAssumption
      DEF HandlerState, DoorInv, IInv
  <2>4. /\ body.max_tokens \in Options(Nat) /\ body.max_completion_tokens \in Options(Nat)
        /\ body.temperature \in Options(Int)
        /\ SamplingOf(body).temperature = Temperature(body)
    BY <2>3 DEF Body, SamplingOf
  <2> HIDE DEF body
  <2>5. \A field \in Field : body.fields[field] # "set"
    BY <2>1 DEF Refused, IsRefused
  <2>6. limits # {} => Some(handler[h].limit) \in limits
    <3>1. SUFFICES ASSUME limits # {} PROVE Some(handler[h].limit) \in limits
      OBVIOUS
    <3>2. Asked(body) \in limits /\ Asked(body) # None
      BY <3>1 DEF Asked, Or
    <3>3. Asked(body) \in Options(Nat)
      BY <2>4 DEF Asked, Or
    <3>4. Asked(body) = Some(Asked(body)[1])
      BY <3>2, <3>3, OptionIsSome
    <3>5. handler[h].limit = Asked(body)[1]
      BY <2>1, <3>2 DEF Budget, UnwrapOr
    <3> QED
      BY <3>2, <3>4, <3>5
  <2>7. body.temperature # None => Temperature(body) = body.temperature[1]
    BY DEF Temperature, Or, UnwrapOr
  <2>8. Temperature(body) > 0 =>
          /\ body.top_p # None => SamplingOf(body).top_p = body.top_p
          /\ body.top_k # None => SamplingOf(body).top_k = body.top_k
    <3>1. Temperature(body) \in Int
      <4>1. config.temperature \in Options(Int)
        BY <2>3 DEF Sized, Config
      <4>2. Or(body.temperature, config.temperature) \in Options(Int)
        BY <2>4, <4>1 DEF Or
      <4> QED
        BY <4>2, UnwrapOrType DEF Temperature
    <3>2. Temperature(body) > 0 => ~ (Temperature(body) <= 0)
      BY <3>1
    <3> QED
      BY <3>2 DEF SamplingOf, Or
  <2> HIDE DEF sampling, limits
  <2>9. /\ body.temperature # None => sampling.temperature = body.temperature[1]
        /\ sampling.temperature > 0 =>
             /\ body.top_p # None => sampling.top_p = body.top_p
             /\ body.top_k # None => sampling.top_k = body.top_k
        /\ InRange(sampling)
    BY <2>1, <2>2, <2>4, <2>7, <2>8
  <2> QED
    BY <2>5, <2>6, <2>9 DEF body, sampling, limits
<1>2. DoorInv => HonouredOrRefused
  BY <1>1 DEF HonouredOrRefused
<1> QED
  BY <1>2, Door, PTL
=============================================================================
