----------------------------- MODULE WorkerFetch -----------------------------
(***************************************************************************)
(* Fetches of a Worker: makeFetchHandler and renderFetchSuccess of Worker.ts.  *)
(* One instance, with its base layer, serves them all.  The scope of a request *)
(* moves to the body of an Effect response; the client may leave at any moment; *)
(* the tracer publishes its span, and telemetry is flushed, before the exporter *)
(* that the event layer may own is gone.                                       *)
(***************************************************************************)
EXTENDS Naturals

CONSTANTS
    Fetches,
    HasEventLayer,  \* whether the Worker has an event layer, which owns an exporter
    LayerFails,     \* whether it may fail
    Nobody

LayerAssumption == HasEventLayer \in BOOLEAN /\ LayerFails \in BOOLEAN

Responses == {"none", "native", "empty", "stream", "error"}

VARIABLES
    base,  \* the cached instance: the request whose context its layer captured
    req    \* request -> the record below

fetchVars == <<base, req>>

\* phase: where its fiber is.  aborted, listener: signal.aborted, and whether
\* onAbort is registered.  interrupted: fiber.interruptUnsafe was called.
\* response: what is captured.  scope: "transferred" means to the body.
\* finalizer: the flush finalizer was added.  span: the tracer's.  exporter: that
\* of the event layer.  flushes: what each flush scheduled found.
New(aborted) ==
    [phase |-> "new", aborted |-> aborted, listener |-> FALSE, interrupted |-> FALSE,
     response |-> "none", scope |-> "none", body |-> "none", finalizer |-> FALSE,
     span |-> "open", exporter |-> "none", flushes |-> {}]

FetchInit == base = Nobody /\ req \in [Fetches -> {New(a) : a \in BOOLEAN}]

Update(r, q) == req' = [req EXCEPT ![r] = q] /\ UNCHANGED base

\* Mutant: the listener alone, although the signal may have fired already.
OnlyListens(r) == FALSE

\* if (signal.aborted) onAbort()
InterruptsAtOnce(r) == req[r].aborted

\* instances.get(env): the first request constructs the instance. acquire: the
\* fiber is interrupted when the client leaves.
Arrive(r) ==
    /\ req[r].phase = "new"
    /\ base' = IF base = Nobody THEN r ELSE base
    /\ req' = [req EXCEPT ![r] =
                 [@ EXCEPT !.phase = "layer", !.scope = "open", !.listener = ~ req[r].aborted,
                           !.interrupted = InterruptsAtOnce(r)]]

Abort(r) ==
    /\ ~ req[r].aborted
    /\ Update(r, [req[r] EXCEPT !.aborted = TRUE, !.interrupted = @ \/ req[r].listener])

\* The event layer is built in the request's scope, then the flush finalizer is
\* added there, to run before those of the layer.
BuildLayer(r) ==
    /\ req[r].phase = "layer" /\ ~ req[r].interrupted
    /\ Update(r, [req[r] EXCEPT !.phase = "running", !.finalizer = TRUE,
                                !.exporter = IF HasEventLayer THEN "open" ELSE "none"])

LayerBroken(r) ==
    /\ HasEventLayer /\ LayerFails /\ req[r].phase = "layer"
    /\ Update(r, [req[r] EXCEPT !.phase = "exiting", !.response = "error", !.span = "queued"])

\* Mutant: the scope stays with the event.
TransfersNone(response) == FALSE

\* omitsBody(response, withoutBody) ? response : scopeTransferToStream(response)
Transfers(response) == response = "stream"

\* handleResponse, uninterruptible; the tracer then queues the end of its span.
Respond(r, response) ==
    Update(r, [req[r] EXCEPT !.phase = "exiting", !.response = response, !.span = "queued",
                             !.scope = IF Transfers(response) THEN "transferred" ELSE "open",
                             !.body = IF response = "stream" THEN "open" ELSE "none"])

Handle(r) == req[r].phase = "running" /\ \E response \in Responses \ {"none"} : Respond(r, response)

\* The handler, or the layer, is interrupted; toHandled renders that as well.
Interrupted(r) ==
    /\ req[r].phase \in {"layer", "running"} /\ req[r].interrupted
    /\ Respond(r, "error")

SpanPublished(r) == req[r].span = "queued" /\ Update(r, [req[r] EXCEPT !.span = "published"])

\* Mutant: the tracer's exit is not followed by a yield.
NeverYields(r) == TRUE

\* onExit(() => yieldNow), with an event layer that was built.
YieldedToTracer(r) == (HasEventLayer /\ req[r].finalizer) => req[r].span = "published"

\* Effect.andThen(yieldNow, ...), when there is no event layer.
YieldedBeforeFlush(r) == ~ HasEventLayer => req[r].span = "published"

\* WorkerContext is provided around the event layer, for every request.
FlushContext(r) == r

\* Finalizers run in reverse order: the flush, then those of the event layer.
CloseScope(r, q) ==
    /\ q.finalizer => YieldedBeforeFlush(r)
    /\ Update(r, [q EXCEPT
         !.scope = "closed",
         !.exporter = IF @ = "open" THEN "closed" ELSE @,
         !.flushes = @ \union
             IF q.finalizer THEN {<<q.span, q.exporter, FlushContext(r)>>} ELSE {}])

\* toHandled is through: its scope closes unless the body took it over.
Exit(r) ==
    /\ req[r].phase = "exiting" /\ YieldedToTracer(r)
    /\ IF req[r].scope = "transferred"
       THEN Update(r, [req[r] EXCEPT !.phase = "handled"])
       ELSE CloseScope(r, [req[r] EXCEPT !.phase = "handled"])

\* release, then the promise settles; that of an interrupted fiber may reject, and
\* nobody gets the response.
Return(r) ==
    /\ req[r].phase = "handled"
    /\ \E end \in {"returned"} \union (IF req[r].interrupted THEN {"dropped"} ELSE {}) :
         Update(r, [req[r] EXCEPT !.phase = end, !.listener = FALSE])

\* toWeb(..., { signal }): a body that nobody got ends with the signal as well.
SignalReaches(r) == req[r].phase \in {"returned", "dropped"}

BodyCloses(r, how) ==
    /\ req[r].scope = "transferred" /\ req[r].body = "open"
    /\ CloseScope(r, [req[r] EXCEPT !.body = how])

BodyEnds(r) == req[r].phase = "returned" /\ BodyCloses(r, "ended")
BodyCanceled(r) == req[r].aborted /\ SignalReaches(r) /\ BodyCloses(r, "canceled")

FetchNext ==
    \E r \in Fetches :
        \/ Arrive(r) \/ Abort(r) \/ BuildLayer(r) \/ LayerBroken(r) \/ Handle(r) \/ Interrupted(r)
        \/ SpanPublished(r) \/ Exit(r) \/ Return(r) \/ BodyEnds(r) \/ BodyCanceled(r)

FetchSpec == FetchInit /\ [][FetchNext]_fetchVars

\* The runtime runs what it can; handlers and bodies may go on for ever.
FetchFairness ==
    /\ \A r \in Fetches :
         /\ WF_fetchVars(Arrive(r)) /\ WF_fetchVars(BuildLayer(r)) /\ WF_fetchVars(Interrupted(r))
         /\ WF_fetchVars(SpanPublished(r)) /\ WF_fetchVars(Exit(r)) /\ WF_fetchVars(Return(r))
         /\ WF_fetchVars(BodyCanceled(r))

FetchFairSpec == FetchSpec /\ FetchFairness

----------------------------------------------------------------------------
Spans == {"open", "queued", "published"}
Exporters == {"none", "open", "closed"}

RequestState ==
    [phase : {"new", "layer", "running", "exiting", "handled", "returned", "dropped"},
     aborted : BOOLEAN, listener : BOOLEAN, interrupted : BOOLEAN, finalizer : BOOLEAN,
     response : Responses, scope : {"none", "open", "transferred", "closed"},
     body : {"none", "open", "ended", "canceled"}, span : Spans, exporter : Exporters,
     flushes : SUBSET (Spans \X Exporters \X Fetches)]

FetchTypeOK == base \in Fetches \union {Nobody} /\ req \in [Fetches -> RequestState]

\* The resources of an event live as long as its body, and no longer than the
\* event of a response without one.
ResourcesFollowBody ==
    \A r \in Fetches :
        /\ req[r].body = "open" => req[r].scope = "transferred" /\ req[r].exporter # "closed"
        /\ req[r].phase \in {"returned", "dropped"} /\ req[r].body # "open" =>
             req[r].scope = "closed"

\* A flush finds the request's span published and the exporter still there, and
\* extends the request it belongs to.
FlushFindsSpan ==
    \A r \in Fetches : \A f \in req[r].flushes :
        f = <<"published", IF HasEventLayer THEN "open" ELSE "none", r>>

\* Whichever way a fetch ends, and whoever leaves first: its resources last as long as the
\* body, and its telemetry is flushed while there is still something to flush it with.
FetchesAreWhole == FetchTypeOK /\ ResourcesFollowBody /\ FlushFindsSpan

\* When the client leaves, the handler is interrupted or the body canceled, and
\* the resources of the event are released, wherever the request was.
AbortReleases == \A r \in Fetches : req[r].aborted ~> (req[r].scope = "closed")
=============================================================================
