------------------------------- MODULE RpcBoundary -------------------------------
(* Definition-backed native RPC between a service binding and a worker: the       *)
(* client encodes the arguments, may append its trace context and calls the       *)
(* native stub; the receiver strips the context, decodes the arguments, records   *)
(* them, runs the handler and encodes its result; errors cross the boundary in an *)
(* envelope.  The two sides are deployed apart, so each has a definition, and an  *)
(* opt-in to tracing, of its own (or no definition at all).                       *)
(*                                                                                *)
(* Values are classes: Plain is its own JSON form, Instance is a class instance   *)
(* (its JSON form is Lowered, and structured clone rejects it as it is), Ctx is   *)
(* a domain value that satisfies the trace context schema.                        *)
EXTENDS Naturals, Sequences, FiniteSets, SequencesExt

CONSTANTS RpcCalls, Plain, Instance, Lowered, Ctx,
          ClientSides,  \* the [defined, args, success, traces] the caller may be deployed with
          ServerSides,  \* and those of the receiver
          Inputs,       \* the argument tuples applications pass
          Contracts     \* the [kind, names, defined] that are deployed: an entrypoint's kind,
                        \* its method names, and whether a definition stands behind them

VARIABLES caller, receiver,   \* the deployed sides, fixed
          pc, op, tracer,   \* of each call: the client's place, operation and ambient tracer
          given, wire,      \* the arguments passed, and the value in flight to the server
          spc, inv, seen,   \* the server's place, the invocation record, the handler's arguments
          ran, value,       \* times the handler ran, and its result before encoding
          reply, exit,      \* what came back and what the caller got, at most one each
          held, span, sspan,\* the resolved value's scope, the client and the server span
          contract          \* a contract on its way from its declaration to its use, or none

sides == <<caller, receiver>>
serverVars == <<spc, inv, seen, ran, value, sspan>>
clientVars == <<pc, op, tracer, given, exit, held, span>>
callVars == <<sides, clientVars, wire, serverVars, reply>>
boundaryVars == <<callVars, contract>>

Domain == {Plain, Instance, Ctx}

\* What may be deployed: a schema, a side of the boundary, a contract.
ValueSchemas == [accepts : SUBSET Domain, native : BOOLEAN]
Sides == [defined : BOOLEAN, args : Seq(ValueSchemas), success : ValueSchemas, traces : BOOLEAN]
Entrypoints == [kind : {"worker", "object"}, names : SUBSET STRING, defined : BOOLEAN]

\* Values, their wire forms and the contexts of calls can be told apart.
BoundaryAssumption ==
  /\ Instance \notin {Plain, Lowered, Ctx} /\ Lowered \notin {Plain, Ctx} /\ Plain # Ctx
  /\ \A c \in RpcCalls, by \in {"caller", "client"} : <<"context", c, by>> \notin Domain \cup {Lowered}
  /\ ClientSides \subseteq Sides /\ ServerSides \subseteq Sides
  /\ Inputs \subseteq Seq(Domain) /\ Contracts \subseteq Entrypoints

WireTags == {"Count", "ArgDecode", "SuccessEncode"}
Err(tag, def) == [tag |-> tag, def |-> def, body |-> <<>>]
Ok(v) == [ok |-> TRUE, with |-> v]
Failed(e) == [ok |-> FALSE, with |-> e]

-----------------------------------------------------------------------------
(* Schemas: a set of accepted domain values and whether the schema is native. *)

Lower(v) == IF v = Instance THEN Lowered ELSE v
wireCodec(s, v) == IF s.native THEN v ELSE Lower(v)
Encodes(s, v) == v \in s.accepts
Decodings(s, w) == {v \in s.accepts : wireCodec(s, v) = w}

(* An argument list against a method: a count error, a codec error or the list. *)
encodeArgs(side, args) ==
  IF Len(args) # Len(side.args) THEN Failed(Err("Count", "svc"))
  ELSE IF \E i \in DOMAIN args : ~Encodes(side.args[i], args[i])
    THEN Failed(Err("ArgEncode", "svc"))
    ELSE Ok([i \in DOMAIN args |-> wireCodec(side.args[i], args[i])])
\* A mutant: arguments are counted and passed on as they came.
DecodeCountOnly(side, args) ==
  IF Len(args) # Len(side.args) THEN Failed(Err("Count", "svc")) ELSE Ok(args)
decodeArgs(side, args) ==
  IF Len(args) # Len(side.args) THEN Failed(Err("Count", "svc"))
  ELSE IF \E i \in DOMAIN args : Decodings(side.args[i], args[i]) = {}
    THEN Failed(Err("ArgDecode", "svc"))
    ELSE Ok([i \in DOMAIN args |-> CHOOSE v \in Decodings(side.args[i], args[i]) : TRUE])

\* A mutant: the wrong error class, as copied from the argument codec.
EncodeSuccessCopied(side, v) ==
  IF ~side.defined THEN Ok(v)
  ELSE IF Encodes(side.success, v) THEN Ok(wireCodec(side.success, v))
  ELSE Failed(Err("ArgDecode", "svc"))
encodeSuccess(side, v) ==
  IF ~side.defined THEN Ok(v)
  ELSE IF Encodes(side.success, v) THEN Ok(wireCodec(side.success, v))
  ELSE Failed(Err("SuccessEncode", "svc"))
decodeSuccess(side, w) ==
  IF ~side.defined THEN Ok(w)
  ELSE IF Decodings(side.success, w) = {} THEN Failed(Err("SuccessDecode", "svc"))
  ELSE Ok(CHOOSE v \in Decodings(side.success, w) : TRUE)

(* Errors: the three wire classes travel in the message of a plain Error, every *)
(* other error loses its own properties on the way.                             *)
isWireError(e) == e.tag \in WireTags
\* A mutant: server errors are sent as they are.
EncodeWireErrorAsIs(e) == e
encodeWireError(e) == IF isWireError(e) THEN [Err("Error", "none") EXCEPT !.body = <<e>>] ELSE e
Crossed(e) == [Err("Error", "none") EXCEPT !.body = e.body]
decodeWireError(e) == IF e.body = <<>> THEN e ELSE Head(e.body)

-----------------------------------------------------------------------------
(* Tracing. *)

Context(c) == <<"context", c, IF op[c] = "rpc" THEN "caller" ELSE "client">>
isRpcTraceContext(w) == w = Ctx \/ \E c \in RpcCalls : w = <<"context", c, "caller">> \/ w = <<"context", c, "client">>
withRpcTraceContext(c, args) == IF tracer[c] = "live" THEN Append(args, Context(c)) ELSE args
HasContext(args) == receiver.traces /\ args # <<>> /\ isRpcTraceContext(Last(args))
\* A mutant: the receiver reads the context and leaves it among the arguments.
HandlerArgsKept(args) == args
handlerArgs(args) == IF HasContext(args) THEN Front(args) ELSE args

\* A mutant: the span is left to the tracer, which formats the failure it sees.
EndSpanAsIs(s, r) ==
  IF s.state = "open" THEN [state |-> r, shown |-> IF r = "failed" THEN {"cause"} ELSE {}] ELSE s
EndSpan(s, r) == IF s.state = "open" THEN [state |-> r, shown |-> {}] ELSE s
Outcome(r) == IF r.ok THEN "ok" ELSE "failed"

-----------------------------------------------------------------------------
(* Names.  A contract's methods become properties of the entrypoint's class and   *)
(* of the clients', next to the ones the library puts there itself.               *)

reservedMethodNames ==
  {"constructor", "fetch", "connect", "alarm", "webSocketMessage", "webSocketClose", "webSocketError",
   "then", "dup", "dispose", "serialize", "deserialize"}
WorkerReserved ==
  {"constructor", "dup", "fetch", "connect", "queue", "scheduled", "tail", "tailStream", "test", "trace",
   "alarm", "webSocketMessage", "webSocketClose", "webSocketError"}
ObjectReserved ==
  {"constructor", "dup", "fetch", "alarm", "webSocketMessage", "webSocketClose", "webSocketError"}
WorkerEntrypointReserved ==
  reservedMethodNames \cup {"queue", "scheduled", "tail", "tailStream", "test", "trace"}

assertNoReservedMethods(names, reserved) == names \cap reserved = {}

\* makeDefinition of either kind asks twice: by its own names, and by RpcDefinition's.
Declarable(d) ==
  /\ assertNoReservedMethods(d.names, IF d.kind = "worker" THEN WorkerReserved ELSE ObjectReserved)
  /\ assertNoReservedMethods(d.names, reservedMethodNames)
Servable(d) ==
  assertNoReservedMethods(d.names,
    IF d.kind = "worker" THEN WorkerEntrypointReserved ELSE reservedMethodNames)

Method(n) == <<"method", n>>
Own(n) == <<"own", n>>
\* Object.assign
Assign(target, more) ==
  [n \in DOMAIN target \cup DOMAIN more |-> IF n \in DOMAIN more THEN more[n] ELSE target[n]]

\* What the platform finds by name on the prototype of the class.
OwnHandlers(kind) ==
  IF kind = "worker" THEN {"fetch", "queue"}
  ELSE {"fetch", "alarm", "webSocketMessage", "webSocketClose", "webSocketError"}
Prototype(d) == Assign([n \in OwnHandlers(d.kind) |-> Own(n)], [n \in d.names |-> Method(n)])

\* What an application finds by name on a client of the contract, on the tag of its
\* definition, and on the client that byName or byId of a namespace gives.
Methods(d) == IF d.defined THEN [n \in d.names |-> Method(n)] ELSE <<>>
makeDirectMethods(d) ==
  IF d.kind = "worker" \/ ~d.defined THEN Methods(d)
  ELSE Assign(Methods(d), [n \in {"byName", "byId"} |-> Own(n)])
Calling == {"fetch", "rpc", "call", "scopedCall"}
Addressing == {"newUniqueId", "idFromName", "idFromString", "get", "getByName", "jurisdiction", "rawUnsafe"}
Operations(kind) == IF kind = "worker" THEN Calling ELSE Calling \cup Addressing
makeClient(d) == Assign(makeDirectMethods(d), [n \in Operations(d.kind) |-> Own(n)])
\* The operations of a tag are those of the client it stands for.
Tag(d) ==
  LET forwarded == [n \in Operations(d.kind) |-> makeClient(d)[n]]
  IN Assign(Assign(makeDirectMethods(d), forwarded), [n \in {"id", "methods", "make", "layer"} |-> Own(n)])
\* The class of a service binding, which need not have a definition.
Service(d) ==
  LET forwarded == [n \in Operations(d.kind) |-> makeClient(d)[n]]
  IN Assign(Assign(makeDirectMethods(d), forwarded), [n \in {"definition"} |-> Own(n)])
Named(d) == Assign([n \in {"fetch"} |-> Own(n)], Methods(d))

Surfaces(d) ==
  {makeClient(d)} \cup (IF d.kind = "worker" THEN {Service(d)} ELSE {})
    \cup (IF d.defined THEN {Tag(d)} ELSE {})
    \cup (IF d.defined /\ d.kind = "object" THEN {Named(d)} ELSE {})

-----------------------------------------------------------------------------
BoundaryInit ==
  /\ contract \in IF Contracts = {} THEN {<<>>}
                  ELSE {[of |-> d, at |-> "written", asked |-> <<>>, ran |-> <<>>] : d \in Contracts}
  /\ caller \in ClientSides /\ receiver \in ServerSides
  /\ pc = [c \in RpcCalls |-> "idle"] /\ spc = [c \in RpcCalls |-> "none"]
  /\ op = [c \in RpcCalls |-> "call"] /\ tracer = [c \in RpcCalls |-> "live"]
  /\ given = [c \in RpcCalls |-> <<>>] /\ wire = [c \in RpcCalls |-> <<>>]
  /\ inv = [c \in RpcCalls |-> <<>>] /\ seen = [c \in RpcCalls |-> <<>>]
  /\ ran = [c \in RpcCalls |-> 0] /\ value = [c \in RpcCalls |-> Plain]
  /\ reply = [c \in RpcCalls |-> <<>>] /\ exit = [c \in RpcCalls |-> <<>>]
  /\ held = [c \in RpcCalls |-> [scope |-> "open", value |-> FALSE, disposed |-> 0]]
  /\ span = [c \in RpcCalls |-> [state |-> "none", shown |-> {}]]
  /\ sspan = [c \in RpcCalls |-> [state |-> "none", shown |-> {}]]

(* The caller's effect ends: a typed failure wraps its cause. *)
FinishCall(c, r) ==
  /\ pc' = [pc EXCEPT ![c] = "done"]
  /\ exit' = [exit EXCEPT ![c] = <<r>>]
  /\ span' = [span EXCEPT ![c] = EndSpan(@, Outcome(r))]

(* An application calls rpc, call or scopedCall on the tag or on the client. *)
StartCall(c, o, t, args) ==
  /\ pc[c] = "idle"
  /\ pc' = [pc EXCEPT ![c] = "encode"]
  /\ op' = [op EXCEPT ![c] = o]
  /\ tracer' = [tracer EXCEPT ![c] = t]
  /\ given' = [given EXCEPT ![c] = args]
  /\ span' = [span EXCEPT ![c].state = IF o = "rpc" THEN "none" ELSE "open"]
  /\ UNCHANGED <<sides, wire, serverVars, reply, exit, held>>

(* rpc: encode against the client's definition, append the context, invoke.  *)
(* The native call throws at once for a value that cannot be cloned.         *)
Encode(c) ==
  /\ pc[c] = "encode"
  /\ LET r == IF caller.defined THEN encodeArgs(caller, given[c]) ELSE Ok(given[c])
     IN IF r.ok
        THEN /\ pc' = [pc EXCEPT ![c] = "invoke"]
             /\ wire' = [wire EXCEPT ![c] = r.with]
             /\ UNCHANGED <<exit, span>>
        ELSE FinishCall(c, r) /\ UNCHANGED wire
  /\ UNCHANGED <<sides, op, tracer, given, serverVars, reply, held>>

Invoke(c) ==
  /\ pc[c] = "invoke"
  /\ LET args == IF caller.traces THEN withRpcTraceContext(c, wire[c]) ELSE wire[c]
     IN IF Instance \in ToSet(args)
        THEN FinishCall(c, Failed(Err("Platform", "none"))) /\ UNCHANGED <<wire, spc>>
        ELSE /\ wire' = [wire EXCEPT ![c] = args]
             /\ spc' = [spc EXCEPT ![c] = "arriving"]
             /\ IF op[c] = "rpc"
                THEN FinishCall(c, Ok("promise"))
                ELSE pc' = [pc EXCEPT ![c] = "await"] /\ UNCHANGED <<exit, span>>
  /\ UNCHANGED <<sides, op, tracer, given, inv, seen, ran, value, sspan, reply, held>>

-----------------------------------------------------------------------------
(* The receiver. *)

Answer(c, r) ==
  /\ spc' = [spc EXCEPT ![c] = "answered"]
  /\ sspan' = [sspan EXCEPT ![c] = EndSpan(@, Outcome(r))]
  /\ reply' = IF reply[c] = <<>> THEN [reply EXCEPT ![c] = <<r>>] ELSE reply

(* What leaves the receiver: an error in its wire form, and a value only when *)
(* it can be cloned.                                                          *)
Sent(r) ==
  IF ~r.ok THEN Failed(Crossed(encodeWireError(r.with)))
  ELSE IF r.with = Instance THEN Failed(Err("Platform", "none")) ELSE r

Receive(c) ==
  /\ spc[c] = "arriving"
  /\ spc' = [spc EXCEPT ![c] = "decode"]
  /\ inv' = [inv EXCEPT ![c] =
       <<[args |-> handlerArgs(wire[c]), decoded |-> <<>>,
          parent |-> IF HasContext(wire[c]) THEN <<Last(wire[c])>> ELSE <<>>]>>]
  /\ sspan' = [sspan EXCEPT ![c].state = "open"]
  /\ UNCHANGED <<sides, clientVars, wire, seen, ran, value, reply>>

\* A mutant: the record is the instance's and every open invocation shares it.
RecordShared(c, args) ==
  [d \in RpcCalls |-> IF inv[d] = <<>> THEN <<>> ELSE <<[inv[d][1] EXCEPT !.decoded = <<args>>]>>]
recordDecodedArgs(c, args) == [inv EXCEPT ![c][1].decoded = <<args>>]

(* wrapHandlers: decode, record, then hand the decoded arguments over. *)
DecodeCall(c) ==
  /\ spc[c] = "decode"
  /\ LET args == inv[c][1].args
         r == IF receiver.defined THEN decodeArgs(receiver, args) ELSE Ok(args)
     IN IF r.ok
        THEN /\ spc' = [spc EXCEPT ![c] = "handler"]
             /\ inv' = IF receiver.defined THEN recordDecodedArgs(c, r.with) ELSE inv
             /\ seen' = [seen EXCEPT ![c] = r.with]
             /\ UNCHANGED <<sspan, reply>>
        ELSE Answer(c, Sent(r)) /\ UNCHANGED <<inv, seen>>
  /\ UNCHANGED <<sides, clientVars, wire, ran, value>>

(* The application's handler returns, fails with an error of its own, or fails *)
(* with the error that another service's call gave it.                         *)
HandlerReturns(c) ==
  /\ spc[c] = "handler"
  /\ spc' = [spc EXCEPT ![c] = "encode"]
  /\ ran' = [ran EXCEPT ![c] = @ + 1]
  /\ value' \in {[value EXCEPT ![c] = v] : v \in Domain}
  /\ UNCHANGED <<sides, clientVars, wire, inv, seen, sspan, reply>>
HandlerFails(c) ==
  /\ spc[c] = "handler"
  /\ ran' = [ran EXCEPT ![c] = @ + 1]
  /\ \E e \in {Err("App", "none"), Err("ArgDecode", "other")} : Answer(c, Sent(Failed(e)))
  /\ UNCHANGED <<sides, clientVars, wire, inv, seen, value>>

EncodeResult(c) ==
  /\ spc[c] = "encode"
  /\ Answer(c, Sent(encodeSuccess(receiver, value[c])))
  /\ UNCHANGED <<sides, clientVars, wire, inv, seen, ran, value>>

(* The platform gives the call up: the caller is told, the receiver may still run. *)
Lose(c) ==
  /\ pc[c] = "await" /\ reply[c] = <<>>
  /\ reply' = [reply EXCEPT ![c] = <<Failed(Err("Platform", "none"))>>]
  /\ UNCHANGED <<sides, clientVars, wire, serverVars>>

-----------------------------------------------------------------------------
(* Back at the caller. *)

\* A mutant: a value that arrives after the interruption is dropped.
AcquiredUnlessCut(c) ==
  IF op[c] # "scopedCall" \/ pc[c] = "cut" THEN [held EXCEPT ![c].value = op[c] = "scopedCall"]
  ELSE [held EXCEPT ![c].value = TRUE, ![c].disposed = IF held[c].scope = "closed" THEN 1 ELSE 0]
(* scoped acquires the value without being interrupted and registers its disposal, *)
(* which runs at once when the scope is already closed.                            *)
Acquired(c) ==
  IF op[c] # "scopedCall" THEN held
  ELSE [held EXCEPT ![c].value = TRUE, ![c].disposed = IF held[c].scope = "closed" THEN 1 ELSE 0]

ResolveCall(c) ==
  /\ pc[c] \in {"await", "cut"} /\ reply[c] # <<>>
  /\ LET r == reply[c][1] IN
     IF ~r.ok
     THEN FinishCall(c, Failed(decodeWireError(r.with))) /\ UNCHANGED held
     ELSE /\ held' = Acquired(c)
          /\ IF pc[c] = "cut"
             THEN /\ pc' = [pc EXCEPT ![c] = "done"]
                  /\ span' = [span EXCEPT ![c] = EndSpan(@, "interrupted")]
                  /\ UNCHANGED exit
             ELSE pc' = [pc EXCEPT ![c] = "decode"] /\ UNCHANGED <<exit, span>>
  /\ UNCHANGED <<sides, op, tracer, given, wire, serverVars, reply>>

DecodeResult(c) ==
  /\ pc[c] = "decode"
  /\ FinishCall(c, decodeSuccess(caller, reply[c][1].with))
  /\ UNCHANGED <<sides, op, tracer, given, wire, serverVars, reply, held>>

(* The caller's fiber is interrupted; scopedCall's acquisition is masked. *)
InterruptCall(c) ==
  /\ pc[c] \in {"encode", "invoke", "await", "decode"}
  /\ IF pc[c] = "await" /\ op[c] = "scopedCall"
     THEN pc' = [pc EXCEPT ![c] = "cut"] /\ UNCHANGED span
     ELSE /\ pc' = [pc EXCEPT ![c] = "done"]
          /\ span' = [span EXCEPT ![c] = EndSpan(@, "interrupted")]
  /\ UNCHANGED <<sides, op, tracer, given, exit, wire, serverVars, reply, held>>

CloseResultScope(c) ==
  /\ op[c] = "scopedCall" /\ held[c].scope = "open"
  /\ held' = [held EXCEPT ![c].scope = "closed",
                          ![c].disposed = IF held[c].value THEN @ + 1 ELSE @]
  /\ UNCHANGED <<sides, pc, op, tracer, given, exit, span, wire, serverVars, reply>>

(* A definition is made, or throws. *)
Declare ==
  /\ contract # <<>> /\ contract.at = "written"
  /\ contract' = [contract EXCEPT !.at =
       IF contract.of.defined /\ ~Declarable(contract.of) THEN "refused" ELSE "declared"]
  /\ UNCHANGED callVars

(* The entrypoint's class is made, with the definition's handlers or with raw ones. *)
Serve ==
  /\ contract # <<>> /\ contract.at = "declared"
  /\ contract' = [contract EXCEPT !.at = IF Servable(contract.of) THEN "served" ELSE "unservable"]
  /\ UNCHANGED callVars

(* An application uses a name of a surface: a direct method calls by its name.    *)
Use(surface, n) ==
  /\ contract' = [contract EXCEPT !.asked = <<n, surface[n]>>,
       !.ran = IF surface[n] = Method(n) THEN <<Prototype(contract.of)[n]>> ELSE <<>>]
  /\ UNCHANGED callVars

(* The platform delivers an event to the handler of that name. *)
DeliverEvent(n) ==
  /\ contract' = [contract EXCEPT !.asked = <<n, Own(n)>>, !.ran = <<Prototype(contract.of)[n]>>]
  /\ UNCHANGED callVars

NamesNext ==
  \/ Declare \/ Serve
  \/ /\ contract # <<>> /\ contract.at = "served"
     /\ \/ \E surface \in Surfaces(contract.of) : \E n \in DOMAIN surface : Use(surface, n)
        \/ \E n \in OwnHandlers(contract.of.kind) : DeliverEvent(n)

CallsNext ==
  \E c \in RpcCalls :
    \/ \E o \in {"rpc", "call", "scopedCall"}, t \in {"live", "off"}, args \in Inputs : StartCall(c, o, t, args)
    \/ Encode(c) \/ Invoke(c) \/ Receive(c) \/ DecodeCall(c) \/ HandlerReturns(c) \/ HandlerFails(c)
    \/ EncodeResult(c) \/ Lose(c) \/ ResolveCall(c) \/ DecodeResult(c) \/ InterruptCall(c) \/ CloseResultScope(c)

BoundaryNext == NamesNext \/ (CallsNext /\ UNCHANGED contract)

BoundarySpec == BoundaryInit /\ [][BoundaryNext]_boundaryVars

-----------------------------------------------------------------------------
Spans == [state : {"none", "open", "ok", "failed", "interrupted"}, shown : SUBSET {"cause"}]

(* Every variable stays in its domain, and a handler runs at most once per call. *)
BoundaryTypeOK ==
  /\ pc \in [RpcCalls -> {"idle", "encode", "invoke", "await", "cut", "decode", "done"}]
  /\ spc \in [RpcCalls -> {"none", "arriving", "decode", "handler", "encode", "answered"}]
  /\ op \in [RpcCalls -> {"rpc", "call", "scopedCall"}] /\ tracer \in [RpcCalls -> {"live", "off"}]
  /\ ran \in [RpcCalls -> {0, 1}] /\ value \in [RpcCalls -> Domain]
  /\ span \in [RpcCalls -> Spans] /\ sspan \in [RpcCalls -> Spans]
  /\ \A c \in RpcCalls : /\ Len(inv[c]) <= 1 /\ Len(reply[c]) <= 1 /\ Len(exit[c]) <= 1
                      /\ held[c].disposed \in {0, 1}

(* A handler behind a definition with as many arguments as the caller's gets     *)
(* exactly what the caller passed, whichever side opted in to tracing: a trace   *)
(* context is never taken for an argument, and an argument never for a context.  *)
HandlerGetsTheArguments ==
  \A c \in RpcCalls :
    (ran[c] = 1 /\ caller.defined /\ receiver.defined /\ Len(caller.args) = Len(receiver.args))
      => seen[c] = given[c]

(* What RpcInvocationInfo promises of decodedArgs: absent before decoding and    *)
(* when it fails, afterwards the arguments this call's own handler runs with,    *)
(* whatever other calls of the instance are doing.                               *)
DecodedArgsAreTheCallsOwn ==
  \A c \in RpcCalls : inv[c] # <<>> =>
    IF spc[c] = "decode" \/ (ran[c] = 0 /\ spc[c] = "answered") \/ ~receiver.defined
    THEN inv[c][1].decoded = <<>>
    ELSE inv[c][1].decoded = <<seen[c]>>

(* An error of the boundary reaches the caller with its class, and the class     *)
(* tells whether the handler ran: never for a bad argument, always for a bad     *)
(* result.  (Errors that a handler passes on name another definition.)           *)
FailureTellsWhetherItRan ==
  \A c \in RpcCalls : (exit[c] # <<>> /\ ~exit[c][1].ok /\ exit[c][1].with.def = "svc") =>
    LET tag == exit[c][1].with.tag IN
      /\ tag \in {"Count", "ArgEncode", "ArgDecode"} => ran[c] = 0
      /\ tag \in {"SuccessEncode", "SuccessDecode"} => ran[c] = 1

(* A plain error reaches the caller only from the handler itself: an error that  *)
(* the receiver's boundary raised has kept its tag.                              *)
TagsSurvive ==
  \A c \in RpcCalls :
    (exit[c] # <<>> /\ ~exit[c][1].ok /\ exit[c][1].with.tag = "Error") => (ran[c] = 1 /\ spc[c] = "answered")

(* With both sides opted in, the receiver's parent is the span of this very call *)
(* (the caller's span for a bare rpc) and no argument is lost for it.            *)
TraceFollowsTheCall ==
  \A c \in RpcCalls : (inv[c] # <<>> /\ caller.traces /\ receiver.traces /\ tracer[c] = "live") =>
    inv[c][1].parent = <<Context(c)>> /\ Len(inv[c][1].args) = Len(given[c])

(* The cause of a failure, with the inputs it quotes, is never given to a        *)
(* tracer, and a span is closed with the effect it was opened for.               *)
SpansHideTheCause ==
  \A c \in RpcCalls :
    /\ span[c].shown = {} /\ sspan[c].shown = {}
    /\ (pc[c] = "done" => span[c].state # "open") /\ (spc[c] = "answered" => sspan[c].state # "open")

(* A result that scopedCall resolved is disposed with its scope, once, also when *)
(* the call was interrupted while it waited or the result did not decode.        *)
ScopedResultsAreDisposed ==
  \A c \in RpcCalls :
    held[c].disposed = IF held[c].value /\ held[c].scope = "closed" THEN 1 ELSE 0

(* The lists of reserved names are kept in four files.  A definition that could  *)
(* be made can also be served: what the entrypoint's class refuses, the          *)
(* definition has refused before.                                                *)
DefinitionsAreServed ==
  contract # <<>> => ~(contract.of.defined /\ contract.at = "unservable")

(* No method, behind a definition or not, takes the place of a handler that the  *)
(* platform calls; a direct method runs the method of its name; and fetch is     *)
(* never a method on any surface.  (A method named like another operation of the *)
(* client is reached by call alone.)                                             *)
NamesKeepTheirMeaning ==
  contract # <<>> =>
    /\ contract.ran # <<>> => contract.ran[1] = contract.asked[2]
    /\ contract.at = "served" =>
         \A surface \in Surfaces(contract.of) :
           /\ surface["fetch"] = Own("fetch")
           /\ contract.of.defined => \A n \in contract.of.names :
                surface[n] = Method(n) \/ n \in Operations(contract.of.kind)
                  \cup {"id", "methods", "make", "layer", "definition", "byName", "byId"}

(* All of it: between a caller and a receiver that were deployed apart, and      *)
(* whatever other calls do, an argument is never taken for a trace context nor   *)
(* lost for one, errors keep their class, which tells whether the handler ran,   *)
(* scoped results are disposed of, and names mean what they say.                 *)
CallsKeepTheirMeaning ==
  /\ BoundaryTypeOK
  /\ HandlerGetsTheArguments
  /\ DecodedArgsAreTheCallsOwn
  /\ FailureTellsWhetherItRan
  /\ TagsSurvive
  /\ TraceFollowsTheCall
  /\ SpansHideTheCause
  /\ ScopedResultsAreDisposed
  /\ DefinitionsAreServed
  /\ NamesKeepTheirMeaning
=============================================================================
