----------------------------- MODULE MCRuntime -----------------------------
\* Native callbacks, entrypoints, sockets, remote clients, telemetry, the example analytics
\* and order services and the lint rules, checked in one run. They share no state, so a
\* behaviour is about one of them, its subject, and the others rest. NativeTransaction,
\* QueueDelivery, EntrypointEvents and WebTransportDatagrams come with EXTENDS, the others
\* as instances, some with more than one choice of constants.
EXTENDS NativeTransaction, QueueDelivery, EntrypointEvents, WebTransportDatagrams

CONSTANTS Nothing, Invocation, BadOrder, Resting, PlainValue, InstanceValue, LoweredValue, CtxValue

VARIABLES
    subject,   \* the component of this behaviour
    sock_reader, sock_current, sock_write, sock_release,
    end_reader, end_current, end_write, end_release,
    named_open, named_cached, named_made, named_address, named_known, named_stubs, named_fresh,
    named_op, named_handles, named_failed,
    files_file, files_op, files_seen, files_answer,
    proc_exec, proc_alive, proc_settled, proc_exited, proc_microtasks, proc_kills, proc_late, proc_scope,
    span_kind, span_parent, span_context, span_sampled, span_status, span_exit, span_host, span_told,
    span_attempts, span_logged, span_forwarding, span_calls, span_body,
    json_value, json_stack, json_ancestors, json_values, json_bytes, json_result,
    ae_dataset, ae_call, ae_at, ae_answer, ae_exit, ae_calls,
    order_batch, order_next, order_ids, order_accepted, order_summary, order_report,
    types_program, types_answers,
    flow_file, flow_chain, flow_site, flow_reports,
    rpc_caller, rpc_receiver, rpc_pc, rpc_op, rpc_tracer, rpc_given, rpc_wire, rpc_spc, rpc_inv, rpc_seen,
    rpc_ran, rpc_value, rpc_reply, rpc_exit, rpc_held, rpc_span, rpc_sspan, rpc_contract

sockVars == <<sock_reader, sock_current, sock_write, sock_release>>
endVars == <<end_reader, end_current, end_write, end_release>>
namedVars == <<named_open, named_cached, named_made, named_address, named_known, named_stubs,
    named_fresh, named_op, named_handles, named_failed>>
filesVars == <<files_file, files_op, files_seen, files_answer>>
procVars == <<proc_exec, proc_alive, proc_settled, proc_exited, proc_microtasks, proc_kills, proc_late,
    proc_scope>>
spanVars == <<span_kind, span_parent, span_context, span_sampled, span_status, span_exit, span_host,
    span_told, span_attempts, span_logged, span_forwarding, span_calls, span_body>>
jsonVars == <<json_value, json_stack, json_ancestors, json_values, json_bytes, json_result>>
aeVars == <<ae_dataset, ae_call, ae_at, ae_answer, ae_exit, ae_calls>>
orderVars == <<order_batch, order_next, order_ids, order_accepted, order_summary, order_report>>
typesVars == <<types_program, types_answers>>
flowVars == <<flow_file, flow_chain, flow_site, flow_reports>>
rpcVars == <<rpc_caller, rpc_receiver, rpc_pc, rpc_op, rpc_tracer, rpc_given, rpc_wire, rpc_spc, rpc_inv,
    rpc_seen, rpc_ran, rpc_value, rpc_reply, rpc_exit, rpc_held, rpc_span, rpc_sspan, rpc_contract>>

\* A write of two chunks; a write of one, and an event, which writes nothing.
LongWrite == [w \in {"all"} |-> 2]
EventAndOne == [w \in {"event", "one"} |-> IF w = "event" THEN 0 ELSE 1]

\* Points at and one past each limit, with the limits scaled down.
Point(d, bs, n, is) == [decodes |-> d, blobs |-> bs, doubles |-> n, indexes |-> is]
Good == Point(TRUE, <<2, 1>>, 2, <<2>>)
Bad == {Point(FALSE, <<>>, 0, <<>>), Point(TRUE, <<2, 2>>, 0, <<>>)}
AnyPoints ==
    {Good, Point(TRUE, <<0>>, 0, <<>>), Point(TRUE, <<1, 1, 1>>, 0, <<>>), Point(TRUE, <<>>, 3, <<>>),
     Point(TRUE, <<>>, 0, <<1, 1>>), Point(TRUE, <<>>, 0, <<3>>)} \cup Bad
AnyBatches ==
    {<<>>} \cup {<<p, q>> : p, q \in {Good} \cup Bad} \cup {<<p, q, Good>> : p, q \in {Good} \cup Bad}
AnyRows == {<<>>, <<"row">>, <<"bad", "row">>, <<"row", "bad">>}

\* Orders whose lines round to either side of a half, and each way to be wrong.
Line(s, q, p, d) == [sku |-> s, quantity |-> q, unitPriceCents |-> p, discountBasisPoints |-> d]
Prices == [s \in {"PEN", "PAD"} |-> IF s = "PEN" THEN 895 ELSE 790]
Order(id, m, c, ls, ship, tax, total) ==
    [id |-> id, month |-> m, customer |-> c, lines |-> ls, shippingCents |-> ship, taxBasisPoints |-> tax,
     totalCents |-> total]
Pens == <<Line("PEN", 1, 895, 500)>>
Both == <<Line("PEN", 3, 895, 500), Line("PAD", 1, 790, 1500)>>
AnyOrders ==
    {Order("o1", "m1", 1, Pens, 0, 0, 850), Order("o2", "m2", 2, Pens, 0, 0, 850),
     Order("o3", "m1", 3, Both, 795, 825, 4283), Order("o1", "m1", 1, Pens, 0, 0, 851),
     Order("o2", "m1", 1, <<Line("PEN", 1, 800, 0)>>, 0, 0, 800),
     Order("o4", "m1", 2, <<Line("INK", 1, 895, 0)>>, 0, 0, 895), BadOrder}

\* Files of two aliases.  Generic ones that apply one another, with no free parameter
\* and no argument too few or too many; or plain ones that name each other and themselves.
Keyword(k) == <<k>>
Ref(n, args) == <<"ref", n, args>>
Str == Keyword("string")
TypeT == Ref("T", <<>>)
TypeU == Ref("U", <<>>)
TypeX == Ref("X", <<>>)
Readonly(t) == Ref("Readonly", <<t>>)
Alias(n, ps, body) == [kind |-> "alias", name |-> n, params |-> ps, body |-> body]
Declared(k, n, body) == [kind |-> k, name |-> n, params |-> <<>>, body |-> body]
Hatches == {Str, Keyword("unknown"), Keyword("empty")}
InnerParams == {<<<<"T">>>>, <<<<"T">>, <<"U">>>>, <<<<"T">>, <<"U", TypeT>>>>}
Inners ==
    {Alias("In", ps, body) : ps \in InnerParams,
        body \in {<<"dict", TypeT>>, Readonly(<<"dict", TypeT>>), <<"dict", <<"both", Ref("E", <<>>), TypeT>>>>}}
    \union {Alias("In", ps, body) : ps \in {qs \in InnerParams : Len(qs) = 2},
        body \in {<<"dict", TypeU>>, Ref("Record", <<Str, TypeU>>), <<"mapped", TypeT, <<"union", Str, TypeU>>>>}}
OuterArgs(p) == {Str, p, <<"paren", p>>, Readonly(p), <<"union", Str, p>>}
Outers ==
    {Alias("Out", <<<<"T">>>>, Ref("In", <<x>>)) : x \in OuterArgs(TypeT)}
    \union {Alias("Out", <<<<"X">>>>, Ref("In", <<x, y>>)) : x, y \in OuterArgs(TypeX)}
    \union {Alias("Out", <<<<"T">>, <<"U">>>>, Ref("In", <<x, y>>)) :
               x \in {TypeT, TypeU}, y \in OuterArgs(TypeU) \union {TypeT}}
    \union {Alias("Out", <<<<"X">>, <<"T">>>>, Ref("In", <<TypeT, TypeX>>))}
Extras == {Declared("interface", "E", Keyword("empty")), Declared("import", "Readonly", Str),
           Declared("interface", "T", Keyword("members"))}
Takes(ps, args) == Len(args) <= Len(ps) /\ \A i \in DOMAIN ps : i > Len(args) => Len(ps[i]) = 2
GenericFiles ==
    {[statements |-> <<x[1], x[2], x[3]>>, asked |-> Ref("Out", x[4]), enclosing |-> <<>>] :
        x \in {y \in Inners \X Outers \X Extras \X ({<<h>> : h \in Hatches} \union (Hatches \X Hatches)) :
                  Takes(y[1].params, y[2].body[3]) /\ Takes(y[2].params, y[4])}}
TypeA == Ref("A", <<>>)
TypeB == Ref("B", <<>>)
PlainBodies ==
    {Str, TypeA, TypeB, <<"paren", TypeB>>, <<"union", Str, TypeB>>, <<"union", TypeA, Keyword("unknown")>>,
     Keyword("unknown"), Keyword("object"), <<"members">>, Readonly(TypeA), <<"dict", Str>>,
     Ref("Record", <<Str, Str>>), Ref("Promise", <<TypeB>>), <<"mapped", Ref("PropertyKey", <<>>), Str>>}
AliasFiles ==
    {[statements |-> <<Alias("A", <<>>, x), Alias("B", <<>>, y)>>, asked |-> z, enclosing |-> h] :
        x, y \in PlainBodies, z \in {TypeA, TypeB, <<"union", TypeA, TypeB>>, Ref("Promise", <<TypeA>>)},
        h \in {<<>>, <<{"A"}>>, <<{}, {"B"}>>}}

\* Two bindings that may be made of one another and one assertion; and, with a fixed
\* file, every expression of up to five wrappers.
Firsts ==
    {[kind |-> k, note |-> t, casts |-> c, made |-> m, fn |-> 1] :
        k \in {"const", "let"}, t \in {Nothing, "top", "object", "record"},
        c \in {<<>>, <<"top">>, <<"record", "tuple">>}, m \in {"known", "empty", "opaque", "a", "b"}}
Seconds ==
    {[kind |-> k, note |-> t, casts |-> c, made |-> m, fn |-> f] :
        k \in {"const", "rewritten"}, t \in {Nothing, "top", "members"}, c \in {<<>>, <<"top">>, <<"members">>},
        m \in {"known", "a", "b"}, f \in {1, 2}}
Node(f, t, r) == [of |-> "a", fn |-> f, type |-> t, after |-> r]
Nodes == {Node(1, t, TRUE) : t \in {"top", "tuple"}} \union {Node(1, "tuple", FALSE), Node(2, "tuple", TRUE)}
TwoBindings == {[bindings |-> ("a" :> x @@ "b" :> y), node |-> n] : x \in Firsts, y \in Seconds, n \in Nodes}
OneBinding ==
    {[bindings |-> ("a" :> [kind |-> "const", note |-> Nothing, casts |-> <<>>, made |-> "known", fn |-> 1]),
      node |-> Node(1, "tuple", TRUE)]}
NoSite == [kind |-> "none"]

\* Calls under up to two scopes that may declare, import or rename their object.
Meanings == {"vi", "Reflect"}
Imports == {{}, {Nothing}, {<<"vitest", "vi">>}, {<<"other", "vi">>}, {<<"vitest", "vi">>, Nothing}}
Scopes == UNION {[d -> Imports] : d \in {{}, {"vi"}, {"mine"}, {"Reflect"}}}
Calls ==
    [kind : {"call"}, member : {TRUE}, object : Meanings \union {"mine", Nothing}, computed : BOOLEAN,
     property : {"name", "literal"} \X {"mock", "get", "apply", "fn"},
     scopes : UNION {[1..n -> Scopes] : n \in 0..2}]
PlainCalls == {[c EXCEPT !.member = FALSE] : c \in {d \in Calls : d.scopes = <<>>}}

\* Parameters with at most one annotation, wherever the syntax may hang it.
Part(is, note, name, of) == [is |-> is, note |-> note, name |-> name, of |-> of]
Inner == {Part(i, t, n, Nothing) : i \in {"identifier"}, t \in {Nothing, "unknown", "object"}, n \in {"cause", "input"}}
         \union {Part("pattern", t, Nothing, Nothing) : t \in {Nothing, "unknown", "object"}}
Outer == {Part(i, t, Nothing, p) : i \in {"default", "rest"}, t \in {Nothing, "unknown", "object"},
                                   p \in {q \in Inner : q.note = Nothing}}
         \union {Part(i, Nothing, Nothing, p) : i \in {"default", "rest"}, p \in Inner}
Parameters == Inner \union Outer \union
    {Part("property", Nothing, Nothing, p) : p \in {q \in Inner \union Outer : q.is \in {"identifier", "default"}}}

\* Types: an unsafe pair of parentheses holds something unsafe, an index signature is in
\* an interface or in a type literal as unsafe as it, an alias declaration is outermost.
Around == [is : {"reference", "literal", "mapped", "paren", "list", "alias"}, unsafe : BOOLEAN]
Innermost == [is : {"plain", "reference", "literal", "mapped", "index"}, unsafe : BOOLEAN]
Nested(path) ==
    \A i \in DOMAIN path :
        /\ path[i].is \in {"list", "alias"} => ~ path[i].unsafe
        /\ path[i].is = "alias" => i = Len(path)
        /\ path[i].is = "paren" => path[i].unsafe = path[i - 1].unsafe
        /\ path[i].is = "index" => i < Len(path) /\ path[i + 1] \in [is : {"literal"}, unsafe : {path[i].unsafe}]
                                                             \union [is : {"interface"}, unsafe : {FALSE}]
Paths == {<<i>> \o o : i \in Innermost, o \in UNION {[1..n -> Around] : n \in 0..3}}
Indexed == {<<[is |-> "index", unsafe |-> u], [is |-> "interface", unsafe |-> FALSE]>> : u \in BOOLEAN}
AllSites ==
    Calls \union PlainCalls
    \union {[kind |-> "parameter", parameter |-> p] : p \in Parameters}
    \union [kind : {"assertion"}, const : BOOLEAN,
            path : UNION {[1..n -> [owner : BOOLEAN, safety : BOOLEAN]] : n \in 1..4}]
    \union {[kind |-> "types", path |-> p] : p \in {q \in Paths \union Indexed : Nested(q)}}

\* Flows: into a property, a binding, the result of a function or an assertion.
Values == {"known", "empty", "opaque", "a", "b"}
Notes == {Nothing, "top", "record", "members"}
Returned == UNION {[1..n -> Notes] : n \in 0..2}
Flows ==
    [kind : {"flow"}, place : {"property"}, note : Notes, made : Values]
    \union [kind : {"flow"}, place : {"assignment"}, plain : BOOLEAN, left : {"a", "b", Nothing}, made : Values]
    \union [kind : {"flow"}, place : {"return"}, functions : Returned, made : Values]
    \union [kind : {"flow"}, place : {"arrow"}, block : BOOLEAN, functions : {r \in Returned : r # <<>>}, made : Values]
    \union [kind : {"flow"}, place : {"assertion"}, note : Notes \ {Nothing}, asserted : BOOLEAN, made : Values]
OfTwo == {f \in TwoBindings : f.node = Node(1, "tuple", TRUE) /\ f.bindings["b"].fn = 1
                              /\ f.bindings["a"].casts = <<>> /\ f.bindings["b"].casts = <<>>
                              /\ f.bindings["b"].note = Nothing}
AllChains == UNION {[1..n -> {"as", "const", "paren", "call"}] : n \in 0..5}

\* A method behind one definition; and contracts of two methods each, with names that
\* some list reserves or some surface uses itself.
OneMethod ==
    {[defined |-> TRUE, args |-> <<[accepts |-> {PlainValue, InstanceValue}, native |-> FALSE]>>,
      success |-> [accepts |-> {PlainValue}, native |-> FALSE], traces |-> TRUE]}
MethodNames ==
    {"read", "call", "byName", "make", "fetch", "connect", "then", "dup", "queue", "alarm", "trace"}
Deployed ==
    {[kind |-> t, names |-> {n, m}, defined |-> d] :
        t \in {"worker", "object"}, n \in MethodNames, m \in MethodNames, d \in BOOLEAN}

-----------------------------------------------------------------------------
Socket == INSTANCE WebTransportSocket WITH
    Readers <- {1, 2}, Writes <- LongWrite, Alls <- {"all"}, HighWater <- 1, MaxChunks <- 0,
    Faults <- {"stop"}, Pullers <- {}, None <- Nothing, reader <- sock_reader, current <- sock_current,
    write <- sock_write, release <- sock_release

Closing == INSTANCE WebTransportSocket WITH
    Readers <- {1}, Writes <- EventAndOne, Alls <- {}, HighWater <- 1, MaxChunks <- 1,
    Faults <- {"fin", "reset", "stop"}, Pullers <- {1}, None <- Nothing, reader <- end_reader,
    current <- end_current, write <- end_write, release <- end_release

Named == INSTANCE NamedClients WITH
    Sandboxes <- {"s"}, Containers <- {"c", "d"}, Fibers <- {"f", "g"}, MaxTargets <- 2,
    MaxHandles <- 1, None <- Nothing, open <- named_open, cached <- named_cached, made <- named_made,
    address <- named_address, known <- named_known, stubs <- named_stubs, fresh <- named_fresh,
    op <- named_op, handles <- named_handles, failed <- named_failed

Remote == INSTANCE WorkspaceFiles WITH
    Fibers <- {"f", "g"}, Uses <- [f |-> {"statOrNull", "lstatOrNull", "exists", "stat", "readlink", "mkdir"},
    g |-> {"writeFile", "rm", "rename", "symlink"}],
    Paths <- {"a", "b", "bad"}, Invalid <- {"bad"}, None <- Nothing,
    file <- files_file, op <- files_op, seen <- files_seen, answer <- files_answer

Process == INSTANCE ContainerProcess WITH
    Processes <- {"plain", "scoped"}, Scoped <- {"scoped"}, Kills <- 2, exec <- proc_exec,
    alive <- proc_alive, settled <- proc_settled, exited <- proc_exited, microtasks <- proc_microtasks,
    kills <- proc_kills, late <- proc_late, scope <- proc_scope

Nesting == INSTANCE CloudflareSpans WITH
    Spans <- {"s1", "s2"}, RpcSpans <- {"s2"}, SpanEvents <- FALSE, HasFormatter <- TRUE,
    MaxEvents <- 1, MaxCalls <- 2, None <- Nothing, kind <- span_kind, parent <- span_parent,
    context <- span_context, sampled <- span_sampled, status <- span_status, exit <- span_exit,
    host <- span_host, told <- span_told, attempts <- span_attempts, logged <- span_logged,
    forwarding <- span_forwarding, calls <- span_calls, body <- span_body

Logging == INSTANCE CloudflareSpans WITH
    Spans <- {"s1", "s2"}, RpcSpans <- {"s2"}, SpanEvents <- TRUE, HasFormatter <- TRUE, MaxEvents <- 1,
    MaxCalls <- 2, None <- Nothing, kind <- span_kind, parent <- span_parent, context <- span_context,
    sampled <- span_sampled, status <- span_status, exit <- span_exit, host <- span_host,
    told <- span_told, attempts <- span_attempts, logged <- span_logged, forwarding <- span_forwarding,
    calls <- span_calls, body <- span_body

Tree == INSTANCE CloudflareSpans WITH
    Spans <- {"s1", "s2", "s3"}, RpcSpans <- {}, SpanEvents <- FALSE, HasFormatter <- FALSE,
    MaxEvents <- 0, MaxCalls <- 0, None <- Nothing, kind <- span_kind, parent <- span_parent,
    context <- span_context, sampled <- span_sampled, status <- span_status, exit <- span_exit,
    host <- span_host, told <- span_told, attempts <- span_attempts, logged <- span_logged,
    forwarding <- span_forwarding, calls <- span_calls, body <- span_body

Json == INSTANCE SpanJson WITH
    N <- 3, MaxMembers <- 2, KeyBytes <- 1, LeafBytes <- 1, MaxBytes <- 14, MaxDepth <- 3,
    MaxValues <- 5, value <- json_value, stack <- json_stack, ancestors <- json_ancestors,
    values <- json_values, bytes <- json_bytes, result <- json_result

Analytics == INSTANCE AnalyticsEngine WITH
    Fibers <- {"f1", "f2"}, Points <- AnyPoints, Batches <- AnyBatches, maxBlobs <- 2, maxDoubles <- 2,
    maxIndexes <- 1, maxBlobBytes <- 3, maxIndexBytes <- 2, maxDataPointsPerInvocation <- 2,
    Rows <- AnyRows, BadRow <- "bad", MaxCalls <- 2, dataset <- ae_dataset, call <- ae_call,
    at <- ae_at, answer <- ae_answer, exit <- ae_exit, calls <- ae_calls

Ordering == INSTANCE OrderBatch WITH
    Orders <- AnyOrders, NotAnOrder <- BadOrder, Catalog <- Prices, Months <- {"m1", "m2"},
    Customers <- {1, 2, 3}, MaxErrors <- 2, Top <- 2, MaxRecords <- 4, batch <- order_batch,
    next <- order_next, ids <- order_ids, accepted <- order_accepted, summary <- order_summary,
    report <- order_report

Generics == INSTANCE LintTypes WITH
    Programs <- GenericFiles, Calls <- 8, program <- types_program, answers <- types_answers

Aliases == INSTANCE LintTypes WITH
    Programs <- AliasFiles, Calls <- 8, program <- types_program, answers <- types_answers

Flowing == INSTANCE LintFlow WITH
    Files <- TwoBindings, Chains <- {<<>>}, Sites <- {NoSite}, None <- Nothing, file <- flow_file,
    chain <- flow_chain, site <- flow_site, reports <- flow_reports

Wrapped == INSTANCE LintFlow WITH
    Files <- OneBinding, Chains <- AllChains, Sites <- {NoSite}, None <- Nothing, file <- flow_file,
    chain <- flow_chain, site <- flow_site, reports <- flow_reports

Sited == INSTANCE LintFlow WITH
    Files <- OneBinding, Chains <- {<<>>}, Sites <- AllSites, None <- Nothing, file <- flow_file,
    chain <- flow_chain, site <- flow_site, reports <- flow_reports

Flown == INSTANCE LintFlow WITH
    Files <- OfTwo, Chains <- {<<>>}, Sites <- Flows, None <- Nothing, file <- flow_file,
    chain <- flow_chain, site <- flow_site, reports <- flow_reports

Pair == INSTANCE RpcBoundary WITH
    RpcCalls <- {"c1", "c2"}, ClientSides <- OneMethod, ServerSides <- OneMethod, Inputs <- {<<InstanceValue>>},
    Contracts <- {}, Plain <- PlainValue, Instance <- InstanceValue, Lowered <- LoweredValue, Ctx <- CtxValue,
    caller <- rpc_caller, receiver <- rpc_receiver, pc <- rpc_pc, op <- rpc_op, tracer <- rpc_tracer,
    given <- rpc_given, wire <- rpc_wire, spc <- rpc_spc, inv <- rpc_inv, seen <- rpc_seen,
    ran <- rpc_ran, value <- rpc_value, reply <- rpc_reply, exit <- rpc_exit, held <- rpc_held,
    span <- rpc_span, sspan <- rpc_sspan, contract <- rpc_contract

Naming == INSTANCE RpcBoundary WITH
    RpcCalls <- {}, ClientSides <- OneMethod, ServerSides <- OneMethod, Inputs <- {}, Contracts <- Deployed,
    Plain <- PlainValue, Instance <- InstanceValue, Lowered <- LoweredValue, Ctx <- CtxValue,
    caller <- rpc_caller, receiver <- rpc_receiver, pc <- rpc_pc, op <- rpc_op, tracer <- rpc_tracer,
    given <- rpc_given, wire <- rpc_wire, spc <- rpc_spc, inv <- rpc_inv, seen <- rpc_seen,
    ran <- rpc_ran, value <- rpc_value, reply <- rpc_reply, exit <- rpc_exit, held <- rpc_held,
    span <- rpc_span, sspan <- rpc_sspan, contract <- rpc_contract

\* The constants of every instance are as its module assumes.
ASSUME InstancesFit ==
    /\ Socket!ReadersAssumption
    /\ Closing!ReadersAssumption
    /\ Socket!NoneAssumption
    /\ Closing!NoneAssumption
    /\ Named!BoundsAssumption
    /\ Named!NamesAssumption
    /\ Named!NoneAssumption
    /\ Remote!InvalidAssumption
    /\ Remote!NoneAssumption
    /\ Process!ProcessesAssumption
    /\ Nesting!SpansAssumption
    /\ Logging!SpansAssumption
    /\ Tree!SpansAssumption
    /\ Nesting!BoundsAssumption
    /\ Logging!BoundsAssumption
    /\ Tree!BoundsAssumption
    /\ Nesting!OptionsAssumption
    /\ Logging!OptionsAssumption
    /\ Tree!OptionsAssumption
    /\ Json!SizesAssumption
    /\ Json!LimitsAssumption
    /\ Ordering!OrderAssumption
    /\ Analytics!BatchesAssumption
    /\ Generics!CallsAssumption
    /\ Aliases!CallsAssumption
    /\ Pair!BoundaryAssumption
    /\ Naming!BoundaryAssumption

-----------------------------------------------------------------------------
\* A component that is not the subject rests in one of its initial states.
SuiteInit ==
    /\ subject \in {"transaction", "queue", "events", "writes", "closing", "datagrams",
        "named", "files", "process", "nested", "events_of_spans", "tree", "json", "analytics", "orders",
        "generics", "aliases", "bindings", "chains", "sites", "flows", "pair", "names"}
    /\ Init
    /\ QueueInit
    /\ EventsInit
    /\ Socket!Init
    /\ Closing!Init
    /\ DatagramsInit
    /\ IF subject = "named" THEN Named!Init ELSE Named!Init /\ named_open = TRUE
    /\ IF subject = "files" THEN Remote!Init ELSE
          Remote!Init /\ files_file = [p \in {"a", "b", "bad"} |-> "none"]
    /\ Process!Init
    /\ CASE subject = "nested" -> Nesting!Init
         [] subject = "events_of_spans" -> Logging!Init
         [] subject = "tree" -> Tree!Init
         [] OTHER -> Nesting!Init
    /\ IF subject = "json" THEN Json!Init ELSE
          json_value = Resting /\ json_stack = Resting /\ json_ancestors = Resting /\ json_values = Resting /\ json_bytes = Resting /\ json_result = Resting
    /\ Analytics!Init
    /\ Ordering!Init
    /\ CASE subject = "generics" -> Generics!Init
         [] subject = "aliases" -> Aliases!Init
         [] OTHER -> types_program = Resting /\ types_answers = Resting
    /\ CASE subject = "bindings" -> Flowing!Init
         [] subject = "chains" -> Wrapped!Init
         [] subject = "sites" -> Sited!Init
         [] subject = "flows" -> Flown!Init
         [] OTHER -> flow_file = Resting /\ flow_chain = Resting /\ flow_site = Resting /\ flow_reports = Resting
    /\ IF subject = "names" THEN Naming!BoundaryInit ELSE Pair!BoundaryInit

\* Components that come to rest.
MayStop == {"queue", "events", "writes", "closing", "process", "nested", "events_of_spans", "tree",
            "analytics", "orders", "pair", "names"}

SuiteNext ==
    /\ UNCHANGED subject
    /\ \/ subject = "transaction" /\ Next
       \/ subject = "queue" /\ QueueNext
       \/ subject = "events" /\ EventsNext
       \/ subject = "writes" /\ Socket!Next
       \/ subject = "closing" /\ Closing!Next
       \/ subject = "datagrams" /\ DatagramsNext
       \/ subject = "named" /\ Named!Next
       \/ subject = "files" /\ Remote!Next
       \/ subject = "process" /\ Process!Next
       \/ subject = "nested" /\ Nesting!Next
       \/ subject = "events_of_spans" /\ Logging!Next
       \/ subject = "tree" /\ Tree!Next /\ UNCHANGED span_exit   \* spans start only
       \/ subject = "json" /\ Json!Next
       \/ subject = "analytics" /\ Analytics!Next
       \/ subject = "orders" /\ Ordering!Next
       \/ subject = "generics" /\ Generics!Next
       \/ subject = "aliases" /\ Aliases!Next
       \/ subject = "bindings" /\ Flowing!Next
       \/ subject = "chains" /\ Wrapped!Next
       \/ subject = "sites" /\ Sited!Next
       \/ subject = "flows" /\ Flown!Next
       \/ subject = "pair" /\ Pair!BoundaryNext
       \/ subject = "names" /\ Naming!BoundaryNext
       \/ subject \in MayStop /\ UNCHANGED <<queueVars, eventVars, sockVars, endVars, procVars, spanVars, aeVars, orderVars, rpcVars>>
    /\ IF subject \in {"transaction"} THEN TRUE ELSE UNCHANGED vars
    /\ IF subject \in {"queue"} THEN TRUE ELSE UNCHANGED queueVars
    /\ IF subject \in {"events"} THEN TRUE ELSE UNCHANGED eventVars
    /\ IF subject \in {"writes"} THEN TRUE ELSE UNCHANGED sockVars
    /\ IF subject \in {"closing"} THEN TRUE ELSE UNCHANGED endVars
    /\ IF subject \in {"datagrams"} THEN TRUE ELSE UNCHANGED datagramVars
    /\ IF subject \in {"named"} THEN TRUE ELSE UNCHANGED namedVars
    /\ IF subject \in {"files"} THEN TRUE ELSE UNCHANGED filesVars
    /\ IF subject \in {"process"} THEN TRUE ELSE UNCHANGED procVars
    /\ IF subject \in {"nested", "events_of_spans", "tree"} THEN TRUE ELSE UNCHANGED spanVars
    /\ IF subject \in {"json"} THEN TRUE ELSE UNCHANGED jsonVars
    /\ IF subject \in {"analytics"} THEN TRUE ELSE UNCHANGED aeVars
    /\ IF subject \in {"orders"} THEN TRUE ELSE UNCHANGED orderVars
    /\ IF subject \in {"generics", "aliases"} THEN TRUE ELSE UNCHANGED typesVars
    /\ IF subject \in {"bindings", "chains", "sites", "flows"} THEN TRUE ELSE UNCHANGED flowVars
    /\ IF subject \in {"pair", "names"} THEN TRUE ELSE UNCHANGED rpcVars

suiteVars ==
    <<subject, vars, queueVars, eventVars, sockVars, endVars, datagramVars, namedVars,
      filesVars, procVars, spanVars, jsonVars, aeVars, orderVars, typesVars, flowVars, rpcVars>>

SuiteSpec == SuiteInit /\ [][SuiteNext]_suiteVars

-----------------------------------------------------------------------------
\* Clients of sandboxes, workspaces, processes and services, and sockets: retained clients
\* recover and share one working stub per name, containers fail alone, a file is said to be
\* missing or found only if it was, no process outlives its scope or is signalled after its
\* exit, calls of one receiver at a time keep their own arguments, spans and results, a name
\* found on a client, a tag or a class is what it says; and the chunks of a write go to one
\* stream, in order, to the latest reader while it lasts, and stop with their writer, and
\* whoever ends gives its locks back.
ClientsAnswerTruly ==
    /\ [](subject = "named" => Named!TypeOK /\ Named!OneStubPerName)
    /\ Named!ClientsRecover
    /\ Named!ContainersFailAlone
    /\ [](subject = "files" => Remote!TypeOK /\ Remote!AnswersAreTrue)
    /\ Remote!MissingIsNoError
    /\ [](subject = "process" => Process!NoLateSignal /\ Process!ScopeEndsProcess)
    /\ [](subject = "pair" => Pair!CallsKeepTheirMeaning)
    /\ [](subject = "names" => Naming!CallsKeepTheirMeaning)
    /\ [](subject = "writes" => Socket!TypeOK /\ Socket!LatestServes /\ Socket!OneStream)
    /\ Socket!InterruptStops
    /\ [](subject = "closing" => Closing!TypeOK /\ Closing!Released)
    /\ Closing!FirstCauseStands

\* What the host is told of spans: one final outcome of the right kind, nothing of an RPC's
\* cause, the nearest host span as context, a bounded number of events, none from printing
\* one; and values in JSON exactly when they fit, with bounded work.
SpansAreTrue ==
    /\ [](subject = "nested" =>
          /\ Nesting!TypeOK
          /\ Nesting!RpcCausesStayLocal
          /\ Nesting!KindAgrees
          /\ Nesting!OneOutcome
          /\ Nesting!HostTree)
    /\ Nesting!EndIsFinal
    /\ [](subject = "tree" => Tree!HostTree)
    /\ [](subject = "events_of_spans" => Logging!EventsAreCapped /\ Logging!LogsDoNotNest)
    /\ [](subject = "json" => Json!TypeOK /\ Json!WorkIsBounded /\ Json!ExactlyWhatFits)

\* What is written is what was valid, asked for and reported: writes of data points follow
\* the policy at every limit and stop where they failed; of the records of an order one
\* counts, and cents, months, products and the best customers add up.  The lint rules that
\* search end, and report exactly what they are about: escape hatches through aliases,
\* parameters and wrappers; known values through constants of one function; chains of
\* assertions once; and a place by what is around it.
ReportsAreTrue ==
    /\ subject = "analytics" =>
          /\ Analytics!TypeOK
          /\ Analytics!ErrorWritesNothing
          /\ Analytics!DropSkipsOnlyInvalid
          /\ Analytics!SentIsWritten
          /\ Analytics!RowsAreTrue
    /\ subject = "orders" =>
          /\ Ordering!TypeOK
          /\ Ordering!FirstRecordDecides
          /\ Ordering!CentsAddUp
          /\ Ordering!ReportAddsUp
          /\ Ordering!TopCustomersAreTop
    /\ subject = "generics" => Generics!TypeOK /\ Generics!ReportedIfUnsafe
    /\ subject = "aliases" => Aliases!AliasesDoNotHide /\ Aliases!FoundBehindAliases
    /\ subject = "bindings" =>
          /\ Flowing!KnownValuesStayKnown
          /\ Flowing!OnlyRecreatedEvidence
          /\ Flowing!TopIsRecreated
    /\ subject = "chains" => Wrapped!TypeOK /\ Wrapped!ChainsReportedOnce
    /\ subject = "sites" =>
          /\ Sited!TypeOK
          /\ Sited!CallsAreWhatTheyDenote
          /\ Sited!UnknownInputsAreReported
          /\ Sited!CommentsJustifyTheirStatement
          /\ Sited!OutermostDictionaryReported
    /\ subject = "flows" => Flown!KnownFlowsAreReported

=============================================================================
