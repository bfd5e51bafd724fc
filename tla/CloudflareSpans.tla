--------------------------- MODULE CloudflareSpans ---------------------------
(***************************************************************************)
(* Effect spans sent to the host's tracing: CloudflareTracer.ts, and the      *)
(* spans around RPC calls that RpcTracing.ts ends by itself.  Everything is   *)
(* synchronous; what interleaves is application code that the tracer calls    *)
(* back: a console that is patched and the formatter of errors.  Either may   *)
(* use any span, or throw.  The stack of such calls is part of the state.     *)
(***************************************************************************)
EXTENDS Naturals, Sequences, FiniteSets

CONSTANTS
    Spans,
    RpcSpans,     \* the spans made by withRpcSpan
    SpanEvents,   \* spanEvents: whether events are forwarded to the console
    HasFormatter, \* formatError is configured
    MaxEvents,    \* maxEvents
    MaxCalls,     \* bound: calls into application code, one within another
    Invocation,   \* the context the layer was built in
    None

SpansAssumption == RpcSpans \subseteq Spans /\ Invocation \notin Spans /\ None \notin Spans
BoundsAssumption == MaxEvents \in Nat /\ MaxCalls \in Nat
OptionsAssumption == SpanEvents \in BOOLEAN /\ HasFormatter \in BOOLEAN

\* What an exit's cause holds; a success holds nothing.
Reasons == {"fail", "die", "interrupt"}
Exits == SUBSET Reasons
SafeFailure == {"fail"}       \* Exit.fail("RPC failed")

\* What a host span is told, the outcome of its exit aside.
Identity == <<"effect.span_id", "">>
Given == <<"attribute", "">>
Detail == <<"effect.error.message", "">>

VARIABLES
    kind,       \* span -> "absent", "native" (ours) or "noop" (tracing disabled there)
    parent,     \* span -> the local span above it; None also for root and external parents
    context,    \* span -> the host context its work and its children run in
    sampled,    \* span -> this.sampled
    status,     \* span -> "started", "ended"
    exit,       \* span -> whose exit it ended with: None, "own", "safe", and its reasons
    host,       \* span -> the host's span: "none", "open", "closed"
    told,       \* span -> what the host's span was told
    attempts,   \* span -> eventAttempts
    logged,     \* span -> its events that reached the console
    forwarding, \* the console is being called
    calls,      \* application code the tracer is inside of: <<"console" or "format", span>>
    body        \* RPC span -> its effect: "running", "failed" (onExit done), "over"

vars == <<kind, parent, context, sampled, status, exit, host, told, attempts, logged,
          forwarding, calls, body>>
shape == <<kind, parent, context, sampled>>

Init ==
    /\ kind = [s \in Spans |-> "absent"] /\ parent = [s \in Spans |-> None]
    /\ context = [s \in Spans |-> None] /\ sampled = [s \in Spans |-> FALSE]
    /\ status = [s \in Spans |-> "started"] /\ exit = [s \in Spans |-> None]
    /\ host = [s \in Spans |-> "none"] /\ told = [s \in Spans |-> {}]
    /\ attempts = [s \in Spans |-> 0] /\ logged = [s \in Spans |-> 0]
    /\ forwarding = FALSE /\ calls = <<>> /\ body = [s \in Spans |-> "running"]

\* Mutant: a no-op span ends the walk.
DirectContext(p) == IF p = None \/ kind[p] # "native" THEN Invocation ELSE context[p]

\* contextFor: past the no-op spans to the nearest span of ours.
ContextFor(p) ==
    LET at[n \in 0..Cardinality(Spans)] ==
            IF n = 0 THEN p
            ELSE IF at[n - 1] = None \/ kind[at[n - 1]] = "native" THEN at[n - 1]
                 ELSE parent[at[n - 1]]
        found == at[Cardinality(Spans)]
    IN IF found = None THEN Invocation ELSE context[found]

\* Tracer.span.  The host may decide not to trace what Effect sampled.
Start(s, p, asked, traced) ==
    /\ kind[s] = "absent" /\ (p # None => kind[p] # "absent")
    /\ traced => asked
    /\ kind' = [kind EXCEPT ![s] = "native"] /\ parent' = [parent EXCEPT ![s] = p]
    /\ context' = [context EXCEPT ![s] = IF asked THEN s ELSE ContextFor(p)]
    /\ sampled' = [sampled EXCEPT ![s] = traced]
    /\ host' = [host EXCEPT ![s] = IF asked THEN "open" ELSE "none"]
    /\ told' = [told EXCEPT ![s] = IF traced THEN {Identity} ELSE {}]
    /\ UNCHANGED <<status, exit, attempts, logged, forwarding, calls, body>>

\* Tracing is disabled locally: Effect installs a span of its own.
StartNoop(s, p) ==
    /\ kind[s] = "absent" /\ (p # None => kind[p] # "absent")
    /\ kind' = [kind EXCEPT ![s] = "noop"] /\ parent' = [parent EXCEPT ![s] = p]
    /\ UNCHANGED <<context, sampled, status, exit, host, told, attempts, logged, forwarding, calls, body>>

\* A mutant: the namespace is open.
AnyKey(reserved) == TRUE

Tells(s) == sampled[s] /\ status[s] = "started"
Allowed(reserved) == ~ reserved

\* attribute: the span keeps it, the host is told of it if it may be.
Attribute(s, reserved) ==
    /\ kind[s] = "native" /\ Tells(s) /\ Allowed(reserved)
    /\ told' = [told EXCEPT ![s] = @ \union {IF reserved THEN <<"exit", "forged">> ELSE Given}]
    /\ UNCHANGED <<shape, status, exit, host, attempts, logged, forwarding, calls, body>>

\* Mutant: the attempt is counted when the console has been reached.
CountsLogs(s) == logged[s] < MaxEvents /\ ~ forwarding

Counts(s) == attempts[s] < MaxEvents

\* Mutant: a log within a log is let through.
NoGuard == TRUE

MayForward == ~ forwarding

\* event: dropped without a trace, or counted and forwarded to the console.
Event(s) ==
    /\ kind[s] = "native" /\ SpanEvents /\ Tells(s) /\ Counts(s)
    /\ attempts' = [attempts EXCEPT ![s] = @ + 1]
    /\ IF MayForward
       THEN /\ Len(calls) < MaxCalls
            /\ forwarding' = TRUE /\ calls' = Append(calls, <<"console", s>>)
            /\ logged' = [logged EXCEPT ![s] = @ + 1]
       ELSE UNCHANGED <<forwarding, calls, logged>>
    /\ UNCHANGED <<shape, status, exit, host, told, body>>

\* An event whose JSON is too large: an attempt all the same.
EventTooLarge(s) ==
    /\ kind[s] = "native" /\ SpanEvents /\ Tells(s) /\ Counts(s)
    /\ attempts' = [attempts EXCEPT ![s] = @ + 1]
    /\ UNCHANGED <<shape, status, exit, host, told, logged, forwarding, calls, body>>

\* finally
ForwardingAfter(threw) == FALSE

ConsoleEnds(threw) ==
    /\ calls # <<>> /\ calls[Len(calls)][1] = "console"
    /\ forwarding' = ForwardingAfter(threw)
    /\ calls' = SubSeq(calls, 1, Len(calls) - 1)
    /\ UNCHANGED <<shape, status, exit, host, told, attempts, logged, body>>

ExitLabel(e) == IF e = {} THEN "success" ELSE IF e = {"interrupt"} THEN "interrupted" ELSE "failure"

\* Mutant: interruptions are looked at first.
InterruptFirst(e) ==
    IF "interrupt" \in e THEN "interrupted"
    ELSE IF "die" \in e THEN (IF "fail" \in e THEN "mixed" ELSE "defect") ELSE "failure"

ErrorKind(e) ==
    IF "die" \in e THEN (IF "fail" \in e THEN "mixed" ELSE "defect")
    ELSE IF e = {"interrupt"} THEN "interrupted" ELSE "failure"

Outcome(e) == {<<"exit", ExitLabel(e)>>} \union (IF e = {} THEN {} ELSE {<<"kind", ErrorKind(e)>>})

\* Mutant: the span is marked as ended when everything has been told.
EndsLast(s) == IF HasFormatter /\ sampled[s] THEN status ELSE [status EXCEPT ![s] = "ended"]

\* super.end comes first.
EndsFirst(s) == [status EXCEPT ![s] = "ended"]

\* Mutant: a formatter that throws takes the host's end with it.
EndsUnformatted(s, e, whose) ==
    IF status[s] = "ended" THEN UNCHANGED <<status, exit, told, host, calls>>
    ELSE /\ status' = EndsFirst(s) /\ exit' = [exit EXCEPT ![s] = <<whose, e>>]
         /\ told' = IF sampled[s] THEN [told EXCEPT ![s] = @ \union Outcome(e)] ELSE told
         /\ host' = IF sampled[s] /\ e = {} THEN [host EXCEPT ![s] = "closed"] ELSE host
         /\ UNCHANGED calls

\* end, up to the formatter: a span that has ended ignores it.
EndWith(s, e, whose) ==
    IF status[s] = "ended" THEN UNCHANGED <<status, exit, told, host, calls>>
    ELSE /\ status' = EndsFirst(s)
         /\ exit' = [exit EXCEPT ![s] = <<whose, e>>]
         /\ told' = IF sampled[s] THEN [told EXCEPT ![s] = @ \union Outcome(e)] ELSE told
         /\ IF sampled[s] /\ e # {} /\ HasFormatter
            THEN Len(calls) < MaxCalls /\ calls' = Append(calls, <<"format", s>>) /\ UNCHANGED host
            ELSE /\ host' = IF sampled[s] THEN [host EXCEPT ![s] = "closed"] ELSE host
                 /\ UNCHANGED calls

\* formatError returned, or threw: bestEffort either way, then the host's span ends.
FormatEnds(detail) ==
    /\ calls # <<>> /\ calls[Len(calls)][1] = "format"
    /\ LET s == calls[Len(calls)][2] IN
       /\ told' = IF detail THEN [told EXCEPT ![s] = @ \union {Detail}] ELSE told
       /\ host' = [host EXCEPT ![s] = "closed"]
    /\ calls' = SubSeq(calls, 1, Len(calls) - 1)
    /\ UNCHANGED <<shape, status, exit, attempts, logged, forwarding, body>>

\* A span of the application: ended by useSpan, or by anyone who holds it.
End(s, e) ==
    /\ kind[s] = "native" /\ (s \in RpcSpans => e = {})
    /\ EndWith(s, e, "own")
    /\ UNCHANGED <<shape, attempts, logged, forwarding, body>>

\* Mutant: defects keep their cause.
OnlyFailures(e) == "fail" \in e

\* Neither success, nor interruption alone.
Hidden(e) == e # {} /\ e # {"interrupt"}

\* withRpcSpan's onExit: ends the span with a safe failure of its own.
RpcExit(s, e) ==
    /\ s \in RpcSpans /\ kind[s] = "native" /\ body[s] = "running"
    /\ body' = [body EXCEPT ![s] = IF e = {} THEN "over" ELSE "failed"]
    /\ IF Hidden(e) THEN EndWith(s, SafeFailure, "safe")
       ELSE EndWith(s, e, "own")
    /\ UNCHANGED <<shape, attempts, logged, forwarding>>

\* useSpan's own end follows, with the original exit.
UseSpanEnds(s, e) ==
    /\ s \in RpcSpans /\ body[s] = "failed" /\ e # {}
    /\ \A i \in DOMAIN calls : calls[i] # <<"format", s>>
    /\ body' = [body EXCEPT ![s] = "over"]
    /\ EndWith(s, e, "own")
    /\ UNCHANGED <<shape, attempts, logged, forwarding>>

Starting ==
    \E s \in Spans, p \in Spans \union {None} :
        \/ StartNoop(s, p)
        \/ \E asked, traced \in BOOLEAN : Start(s, p, asked, traced)

Using ==
    \E s \in Spans :
        \/ \E reserved \in BOOLEAN : Attribute(s, reserved)
        \/ Event(s) \/ EventTooLarge(s)
        \/ \E e \in Exits : End(s, e) \/ RpcExit(s, e) \/ UseSpanEnds(s, e)

Returning == \E b \in BOOLEAN : ConsoleEnds(b) \/ FormatEnds(b)

Next == Starting \/ Using \/ Returning

Spec == Init /\ [][Next]_vars

\* Application code that was called returns or throws.
Fairness == WF_vars(Returning)

FairSpec == Spec /\ Fairness

----------------------------------------------------------------------------
TypeOK ==
    /\ kind \in [Spans -> {"absent", "native", "noop"}]
    /\ parent \in [Spans -> Spans \union {None}]
    /\ context \in [Spans -> Spans \union {Invocation, None}]
    /\ \A s \in Spans : (kind[s] = "native") <=> (context[s] # None)
    /\ sampled \in [Spans -> BOOLEAN] /\ status \in [Spans -> {"started", "ended"}]
    /\ \A s \in Spans : exit[s] = None \/ exit[s] \in {"own", "safe"} \X Exits
    /\ host \in [Spans -> {"none", "open", "closed"}]
    /\ \A s \in Spans : attempts[s] \in 0..MaxEvents
    /\ forwarding \in BOOLEAN /\ Len(calls) <= MaxCalls
    /\ body \in [Spans -> {"running", "failed", "over"}]

\* The nearest span at or above p that the host was asked to start.
RECURSIVE HostAncestor(_)
HostAncestor(p) ==
    IF p = None THEN Invocation
    ELSE IF kind[p] = "native" /\ host[p] # "none" THEN p
    ELSE HostAncestor(parent[p])

\* Every span's work runs in the context of the nearest host span at or above it,
\* past unsampled spans and past spans made while tracing was disabled.
HostTree == \A s \in Spans : kind[s] = "native" => context[s] = HostAncestor(s)

\* The host is told of one outcome, which is that of the exit the span ended with,
\* and of reserved names only by the tracer.
OneOutcome ==
    \A s \in Spans :
        LET said == told[s] \ {Identity, Given, Detail} IN
        said = IF sampled[s] /\ exit[s] # None THEN Outcome(exit[s][2]) ELSE {}

\* The kind of an error never contradicts the exit: interrupted if and only if.
KindAgrees ==
    \A s \in Spans : sampled[s] /\ exit[s] # None =>
        /\ (<<"kind", "interrupted">> \in told[s]) <=> (<<"exit", "interrupted">> \in told[s])
        /\ (\E k \in {"defect", "mixed"} : <<"kind", k>> \in told[s]) <=> ("die" \in exit[s][2])

\* The console is called with nothing of its own in progress, and the guard is up
\* exactly while it is called, however it ends.
LogsDoNotNest ==
    /\ Cardinality({i \in DOMAIN calls : calls[i][1] = "console"}) <= 1
    /\ forwarding <=> \E i \in DOMAIN calls : calls[i][1] = "console"

\* A span makes at most MaxEvents attempts, those that were dropped included.
EventsAreCapped == \A s \in Spans : attempts[s] <= MaxEvents /\ logged[s] <= attempts[s]

\* A failed RPC leaves nothing of its cause on its span.
RpcCausesStayLocal ==
    \A s \in RpcSpans : exit[s] # None => exit[s][1] = "safe" \/ exit[s][2] \in {{}, {"interrupt"}}

\* Nothing reaches a host span that was closed, an exit is never replaced, and an
\* ended span is told only what the formatter of its own end returns.
EndIsFinal ==
    [][\A s \in Spans :
         /\ host[s] = "closed" => host'[s] = "closed" /\ told'[s] = told[s]
         /\ exit[s] # None => exit'[s] = exit[s] /\ told'[s] \subseteq told[s] \union {Detail}]_vars

\* Once it ended, a sampled span is closed on the host, whatever the formatter does.
EndedIsClosed ==
    \A s \in Spans : (sampled[s] /\ exit[s] # None) ~> (host[s] = "closed")
=============================================================================
