--------------------------- MODULE EntrypointEvents ---------------------------
(***************************************************************************)
(* The events of a Durable Object: the constructor's gate and initialize hook, *)
(* [RunSymbol] with its scope, observer and response (DurableObject.ts,        *)
(* internal/Runtime.ts), work handed to waitUntil (internal/WorkerContext.ts), *)
(* the telemetry flush (internal/Telemetry.ts), and the dispatch of due alarms *)
(* after a response.  The alarm pass itself is AlarmWake's; here it has three  *)
(* steps.                                                                      *)
(***************************************************************************)
EXTENDS Naturals, FiniteSets

CONSTANTS
    Events,       \* events delivered during the object's life
    Response,     \* those answered by RPC or fetch; the others are WebSocket events
    Observed,     \* those whose RunSymbol has an onFailure observer
    Propagating,  \* those whose background work has mode "propagate"
    LateWork,     \* whether background work may enroll alarms
    Faults,       \* whether layers and the hook may fail
    Crashes,      \* bound: evictions
    NativeFires   \* whether the platform delivers native alarms at all

EventsAssumption ==
    /\ Response \subseteq Events /\ Observed \subseteq Events /\ Propagating \subseteq Events
    /\ LateWork \in BOOLEAN /\ Faults \in BOOLEAN /\ Crashes \in Nat /\ NativeFires \in BOOLEAN

VARIABLES
    boot,     \* "building", "hook" (its synchronous part), "ready", "reset"
    gates,    \* blockConcurrencyWhile calls under way: "constructor", "hook"
    stage,    \* event -> "new", "layer", "running", "exiting", "closing", "observing", "ended"
    ok,       \* event -> whether it succeeded
    after,    \* event -> dispatchAfterEvent
    work,     \* event -> background work: "none", "running", "handler", "resolved", "rejected"
    broken,   \* event -> whether that work failed
    flush,    \* event -> "none", "running", "hung", "settled"
    prompt,   \* event -> "none", "yielding", "joined", "done"
    alarmPass,     \* alarm pass: "none", "opened", "dispatched"
    due,      \* whether a due alarm is enrolled
    nativeAlarm,   \* native alarm: "none", "due", "recovery"
    crashes

eventVars == <<boot, gates, stage, ok, after, work, broken, flush, prompt, alarmPass, due, nativeAlarm, crashes>>
instance == <<boot, gates>>
event == <<stage, ok, after>>
background == <<work, broken, flush, prompt>>
alarms == <<alarmPass, due, nativeAlarm>>

Boot ==
    /\ boot = "building" /\ gates = {"constructor"}
    /\ stage = [e \in Events |-> "new"] /\ ok = [e \in Events |-> TRUE]
    /\ after = [e \in Events |-> FALSE]
    /\ work = [e \in Events |-> "none"] /\ broken = [e \in Events |-> FALSE]
    /\ flush = [e \in Events |-> "none"] /\ prompt = [e \in Events |-> "none"]
    /\ alarmPass = "none"

EventsInit == Boot /\ due = FALSE /\ nativeAlarm = "none" /\ crashes = 0

----------------------------------------------------------------------------
(* The constructor. *)

\* Mutant: the gate opens as soon as the layer is built.
OpensBeforeHook == gates \ {"constructor"}

\* runtime.contextEffect is built inside the gate; it failed: the object is reset.
HeldDuringHook == gates

LayerBuilt ==
    /\ boot = "building"
    /\ \/ boot' = "hook" /\ gates' = HeldDuringHook
       \/ Faults /\ boot' = "reset" /\ UNCHANGED gates
    /\ UNCHANGED <<event, background, alarms, crashes>>

\* The synchronous part of initialize, which may block concurrency itself.
HookStarts ==
    /\ boot = "hook"
    /\ boot' = "ready"
    /\ \E own \in {{}, {"hook"}} : gates' = (gates \ {"constructor"}) \union own
    /\ UNCHANGED <<event, background, alarms, crashes>>

HookGateEnds ==
    /\ "hook" \in gates /\ boot = "ready"
    /\ \/ gates' = gates \ {"hook"} /\ UNCHANGED boot
       \/ Faults /\ boot' = "reset" /\ UNCHANGED gates
    /\ UNCHANGED <<event, background, alarms, crashes>>

Admits == gates = {} /\ boot # "reset"

----------------------------------------------------------------------------
(* An event: [RunSymbol], runEventPromise and runPromise. *)

BeginEvent(e) ==
    /\ Admits /\ stage[e] = "new"
    /\ stage' = [stage EXCEPT ![e] = "layer"]
    /\ UNCHANGED <<instance, ok, after, background, alarms, crashes>>

\* The event layer is built in the event's scope.
Acquire(e) ==
    /\ stage[e] = "layer"
    /\ \/ stage' = [stage EXCEPT ![e] = "running"] /\ UNCHANGED ok
       \/ /\ Faults /\ stage' = [stage EXCEPT ![e] = "closing"]
          /\ ok' = [ok EXCEPT ![e] = FALSE]
    /\ UNCHANGED <<instance, after, background, alarms, crashes>>

\* Mutant: the dispatch after the response is all a response event relies on.
ArmedByDispatch(response) == IF response THEN nativeAlarm ELSE "due"

\* reconcileAlarm: during a pass, and for due work of a response event, the
\* native alarm is a recovery guard, or an earlier wake that is there already.
Armed(response) ==
    IF alarmPass # "none" THEN "recovery"
    ELSE IF ~ response THEN "due"
    ELSE IF nativeAlarm = "none" THEN "recovery" ELSE nativeAlarm

HandlerContext(e) == e \in Response /\ (stage[e] = "running" \/ after[e])

\* Enroll work that is due at once. The handler's context has ResponseEvent, and
\* so have its finalizers and its background work; the event layer has not.
Enroll(e) ==
    /\ \/ stage[e] \in {"running", "closing"}
       \/ LateWork /\ work[e] = "running"
    /\ \E response \in {HandlerContext(e), HandlerContext(e) /\ stage[e] # "closing"} :
         nativeAlarm' = Armed(response)
    /\ due' = TRUE
    /\ UNCHANGED <<instance, event, background, alarmPass, crashes>>

\* state.waitUntil(effect): a scope of its own, the context of the event.
Detach(e) ==
    /\ stage[e] = "running" /\ work[e] = "none"
    /\ work' = [work EXCEPT ![e] = "running"]
    /\ UNCHANGED <<instance, event, broken, flush, prompt, alarms, crashes>>

\* onExit only notes that there will be a dispatch.
UntouchedAtExit(e) == prompt

\* The handler ends; for RPC and fetch onExit reads DispatchAfterEvent.
EventHandlerEnds(e) ==
    /\ stage[e] = "running"
    /\ \E success \in BOOLEAN : ok' = [ok EXCEPT ![e] = success]
    /\ after' = [after EXCEPT ![e] = e \in Response]
    /\ stage' = [stage EXCEPT ![e] = "exiting"]
    /\ prompt' = UntouchedAtExit(e)
    /\ UNCHANGED <<instance, work, broken, flush, alarms, crashes>>

\* onExit: scheduleTelemetryFlush, whatever the exit was.
FlushScheduled(e) ==
    /\ stage[e] = "exiting"
    /\ \E how \in {"running", "hung"} : flush' = [flush EXCEPT ![e] = how]
    /\ stage' = [stage EXCEPT ![e] = "closing"]
    /\ UNCHANGED <<instance, ok, after, work, broken, prompt, alarms, crashes>>

\* Mutant: only successful responses are followed by a dispatch.
DispatchesOnSuccess(e) == after[e] /\ ok[e]

\* response.finally
DispatchesAfter(e) == after[e]

SettleEvent(e) ==
    /\ stage' = [stage EXCEPT ![e] = "ended"]
    /\ prompt' = [prompt EXCEPT ![e] = IF DispatchesAfter(e) THEN "yielding" ELSE "done"]

\* The scope closes, then the observer of a failed event runs, then it settles.
ScopeCloses(e) ==
    /\ stage[e] = "closing"
    /\ IF ~ ok[e] /\ e \in Observed
       THEN stage' = [stage EXCEPT ![e] = "observing"] /\ UNCHANGED prompt
       ELSE SettleEvent(e)
    /\ UNCHANGED <<instance, ok, after, work, broken, flush, alarms, crashes>>

\* The observer returns, throws, or rejects: the outcome is what it was.
ObserverEnds(e) ==
    /\ stage[e] = "observing"
    /\ SettleEvent(e)
    /\ UNCHANGED <<instance, ok, after, work, broken, flush, alarms, crashes>>

----------------------------------------------------------------------------
(* Work handed to waitUntil. *)

\* Mutant: a failed handler rejects the registered promise.
HandlerThrows(e, handlerOk) == e \in Propagating \/ ~ handlerOk

\* mode === "propagate"; the failure of a failure handler is only logged.
Rejects(e, handlerOk) == e \in Propagating

WorkEnds(e) ==
    /\ work[e] = "running"
    /\ \/ work' = [work EXCEPT ![e] = "resolved"] /\ UNCHANGED broken
       \/ work' = [work EXCEPT ![e] = "handler"] /\ broken' = [broken EXCEPT ![e] = TRUE]
    /\ UNCHANGED <<instance, event, flush, prompt, alarms, crashes>>

FailureHandled(e) ==
    /\ work[e] = "handler"
    /\ \E handlerOk \in BOOLEAN :
         work' = [work EXCEPT ![e] = IF Rejects(e, handlerOk) THEN "rejected" ELSE "resolved"]
    /\ UNCHANGED <<instance, event, broken, flush, prompt, alarms, crashes>>

\* Mutant: the flush waits for the exporter.
ExporterDecides(e) == flush[e] = "running"

\* Effect.timeoutOption(scheduledFlushTimeout), Effect.ignoreCause
FlushEnds(e) == flush[e] \in {"running", "hung"}

FlushSettles(e) ==
    /\ FlushEnds(e)
    /\ flush' = [flush EXCEPT ![e] = "settled"]
    /\ UNCHANGED <<instance, event, work, broken, prompt, alarms, crashes>>

----------------------------------------------------------------------------
(* Dispatch: runAlarm(false) after a response, runAlarm(true) from the platform. *)

\* HasDueAlarms is asked inside the pass; a pass under way is joined.
PromptDispatch(e) ==
    /\ prompt[e] = "yielding"
    /\ prompt' = [prompt EXCEPT ![e] = "joined"]
    /\ alarmPass' = IF alarmPass = "none" THEN "opened" ELSE alarmPass
    /\ UNCHANGED <<instance, event, work, broken, flush, due, nativeAlarm, crashes>>

\* The alarm consumed; joining a pass restores the guard.
NativeDelivery ==
    /\ NativeFires /\ Admits /\ nativeAlarm # "none"
    /\ nativeAlarm' = IF alarmPass = "none" THEN "none" ELSE "recovery"
    /\ alarmPass' = IF alarmPass = "none" THEN "opened" ELSE alarmPass
    /\ UNCHANGED <<instance, event, background, due, crashes>>

Dispatch ==
    /\ alarmPass = "opened"
    /\ alarmPass' = "dispatched" /\ due' = FALSE
    /\ UNCHANGED <<instance, event, background, nativeAlarm, crashes>>

\* Mutant: the pass leaves no alarm, as if it had dispatched all there is.
ReconcilesNothing == "none"

\* The pass reconciles after its scope closed; those who joined it go on.
Reconciled == IF due THEN "due" ELSE "none"

PassEnds ==
    /\ alarmPass = "dispatched"
    /\ alarmPass' = "none" /\ nativeAlarm' = Reconciled
    /\ prompt' = [e \in Events |-> IF prompt[e] = "joined" THEN "done" ELSE prompt[e]]
    /\ UNCHANGED <<instance, event, work, broken, flush, due, crashes>>

\* A pass whose event layer fails leaves the work to a recovery alarm.
PassFails ==
    /\ Faults /\ alarmPass = "opened"
    /\ alarmPass' = "none" /\ nativeAlarm' = IF due THEN "recovery" ELSE "none"
    /\ prompt' = [e \in Events |-> IF prompt[e] = "joined" THEN "done" ELSE prompt[e]]
    /\ UNCHANGED <<instance, event, work, broken, flush, due, crashes>>

\* Eviction, or the reset of an object that failed to start: storage survives,
\* and a delivery that was lost with its pass is repeated.
Crash ==
    /\ crashes < Crashes \/ boot = "reset"
    /\ crashes' = IF crashes < Crashes THEN crashes + 1 ELSE crashes
    /\ boot' = "building" /\ gates' = {"constructor"}
    /\ stage' = [e \in Events |-> IF stage[e] = "new" THEN "new" ELSE "ended"]
    /\ work' = [e \in Events |-> "none"] /\ broken' = [e \in Events |-> FALSE]
    /\ flush' = [e \in Events |-> "none"]
    /\ prompt' = [e \in Events |-> IF stage[e] = "new" THEN "none" ELSE "done"]
    /\ alarmPass' = "none"
    /\ nativeAlarm' = IF nativeAlarm = "none" /\ alarmPass # "none" THEN "recovery" ELSE nativeAlarm
    /\ UNCHANGED <<ok, after, due>>

EventSteps(e) ==
    \/ BeginEvent(e) \/ Acquire(e) \/ EventHandlerEnds(e) \/ FlushScheduled(e) \/ ScopeCloses(e)
    \/ ObserverEnds(e) \/ WorkEnds(e) \/ FailureHandled(e) \/ FlushSettles(e) \/ PromptDispatch(e)

InstanceSteps == LayerBuilt \/ HookStarts \/ HookGateEnds
PassSteps == Dispatch \/ PassEnds

EventsNext ==
    \/ \E e \in Events : EventSteps(e) \/ Enroll(e) \/ Detach(e)
    \/ InstanceSteps \/ PassSteps \/ PassFails \/ NativeDelivery \/ Crash

EventsSpec == EventsInit /\ [][EventsNext]_eventVars

\* Every fiber that can run does; nothing is promised about native alarms.
EventsFairness ==
    /\ WF_eventVars(InstanceSteps) /\ WF_eventVars(PassSteps)
    /\ \A e \in Events :
         /\ WF_eventVars(BeginEvent(e)) /\ WF_eventVars(Acquire(e)) /\ WF_eventVars(EventHandlerEnds(e))
         /\ WF_eventVars(FlushScheduled(e)) /\ WF_eventVars(ScopeCloses(e)) /\ WF_eventVars(ObserverEnds(e))
         /\ WF_eventVars(WorkEnds(e)) /\ WF_eventVars(FailureHandled(e))
         /\ WF_eventVars(FlushSettles(e)) /\ WF_eventVars(PromptDispatch(e))

EventsFairSpec == EventsSpec /\ EventsFairness

\* The platform also delivers the native alarm.
Delivering == EventsFairness /\ SF_eventVars(NativeDelivery)

----------------------------------------------------------------------------
Stages == {"new", "layer", "running", "exiting", "closing", "observing", "ended"}

EventsTypeOK ==
    /\ boot \in {"building", "hook", "ready", "reset"}
    /\ gates \subseteq {"constructor", "hook"}
    /\ stage \in [Events -> Stages] /\ ok \in [Events -> BOOLEAN]
    /\ after \in [Events -> BOOLEAN]
    /\ work \in [Events -> {"none", "running", "handler", "resolved", "rejected"}]
    /\ broken \in [Events -> BOOLEAN]
    /\ flush \in [Events -> {"none", "running", "hung", "settled"}]
    /\ prompt \in [Events -> {"none", "yielding", "joined", "done"}]
    /\ \A e \in Events : prompt[e] # "none" => stage[e] = "ended"
    /\ alarmPass \in {"none", "opened", "dispatched"} /\ due \in BOOLEAN
    /\ nativeAlarm \in {"none", "due", "recovery"} /\ crashes \in 0..Crashes

\* No event runs before the layer is built and the hook had its chance to block,
\* nor while the gate the hook installed is closed.
NothingBeforeInitialize ==
    [][\A e \in Events :
         stage[e] = "new" /\ stage'[e] = "layer" => boot = "ready" /\ "hook" \notin gates]_eventVars

\* Due work always has a native alarm or a pass: enrolled by a handler, a
\* finalizer or background work, before, during and after a pass or an eviction.
DueIsArmed == due => nativeAlarm # "none" \/ alarmPass # "none"

\* Only work that asked for it fails its waitUntil promise, whatever becomes of
\* its failure handler.
WorkOnlyObserved == \A e \in Events : work[e] = "rejected" => e \in Propagating /\ broken[e]

\* No event runs before the constructor's hook is through with its gate; due work that
\* handlers, finalizers or background work enroll is armed or about to be dispatched;
\* background work fails what observes it only.
EventsRunInOrder ==
    /\ [](EventsTypeOK /\ DueIsArmed /\ WorkOnlyObserved)
    /\ NothingBeforeInitialize

\* Due work of events and of their finalizers is dispatched after the response,
\* or armed for now: it is not left to wait for a recovery guard.
PromptlyDispatched == due ~> (~ due \/ nativeAlarm = "due")

\* Even when background work enrolled it after the dispatch of its event, or an
\* eviction lost that dispatch, due work is dispatched in the end.
DueIsDispatched == due ~> ~ due

\* A flush settles although the exporter hangs.
FlushIsBounded ==
    \A e \in Events : (flush[e] # "none") ~> (flush[e] \in {"none", "settled"})
=============================================================================
