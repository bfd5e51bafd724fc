# A verification development for effect-cf

effect-cf binds the Effect runtime to Cloudflare Workers: Durable Objects and their alarms, RPC over
native stubs, WebSockets and WebTransport, containers, workflows, queues, sandboxes and the storage
services. Many of its files are typed facades over one platform call. The others carry protocols of
their own, and those are what this development is about: TLA+ modules translated from the source,
TLC runs over small instances, and TLAPS proofs for every value of the constants.

`PROJECT.json` has, for each component, its files, modules and status; for each definition that
models code, the lines it stands for; and the hazards, each at its line with the properties that
watch it.

## The system

| Component | State | Operations and interactions | Hard behaviour | What makes it correct |
| --- | --- | --- | --- | --- |
| Alarm scheduler, automatic lifecycle (`DurableObjectAlarm.ts`) | one SQL row per alarm (deadlines, attempts, parked, progress, revision); the rows selected by a pass | `scheduleAlarm[Earlier]`, `cancelAlarm` in a transaction of an event or a handler; `processDueAlarms` selects, re-reads, handles, acknowledges or charges rows; parked rows are reported | handlers rewrite rows of their own pass, from several fibers at once; several dispatchers run at once; fibers are interrupted between a commit and its report; eviction mid-handler; failing hooks and storage; deployments change the budget | a newer schedule survives; unchanged work runs out of budget and parks; backoff; a parking is announced while its fiber lives, and twice only if an older notice was still under way; due work is attempted |
| Native wake guard | the native alarm; `wakeDeferrals`, `wakesReady`, `guardReady`, `pendingAlarm`, `dispatchActive`, `dispatchNeedsReconcile`, recovery deadline; a cached native alarm | `deferWakes` regions, `runAlarm` for native and post-response calls, `reconcileAlarm` at the end of every alarm transaction | a delivery consumes the guard it should rely on; joins of a pass that is ending; regions entering while the last one leaves; failing event layers | committed work always has a wake; regions hold dispatch back; nobody waits for ever; no stray wake remains |
| Manual lifecycle | `manual:` revisions | a pass claims due rows by moving them, runs them with four permits, retires unchanged claims | eviction after the claim; a handler moving its claimed row | a claim keeps others away until it runs out; newer enrollments decide |
| Registrations, typed definitions, table layout | tags of each dispatcher; stored lifecycle and payload; published layouts of the tables | `mergeAll`, `runRegistrations`, `dispatchRawAlarm`, `ensureTable`, typed `schedule` and failure actions | a dispatcher missing, overlapping or undecodable, with options that prove invalid in the middle of its pass; batches at their limit; an eviction between two statements; a deployment between enrollment and dispatch | every row has exactly one pass; what an event leaves due has a reason; nothing is lost by a migration or a deployment |
| Alarm cache and storage transactions (`StorageTransaction.ts`) | committed and per-transaction views | views are opened, nested, published or dropped with their transaction | overlapping roots, rollbacks that are caught, callbacks that go on after one or are run again, SQL scopes nobody observes, reads that yield | a view that is used agrees with storage |
| Native callbacks (`NativeCallback.ts`) | a native promise and the fibers of its callback | interruption joins the callback, then the promise | the platform waits for the callback, the scope for the platform; retries | the exit tells what became of the transaction; nothing outlives it |
| Durable Object entrypoint (`DurableObject.ts`, `Runtime.ts`) | the runtime, the constructor's gate | events run in scopes; RPC and fetch are followed by a dispatch; `waitUntil`, telemetry | initialisation racing events; work after the response | initialisation first; due work is armed or dispatched |
| RPC over WebSockets (`DurableObjectRpcWebSocket.ts`) | connections, attachments, a pending chunk and its checkpoint tokens | requests, chunks, acknowledgements, `checkpoint`, resume after hibernation, resets | hibernation between any two steps, late checkpoints, reconnects | nothing acknowledged is skipped; no client waits for a forgotten call |
| Hibernating sockets (`DurableObjectWebSocket.ts`) | tags, attachments, the keepalive pair | accept, attach, list, restore | eviction between accepting and attaching; garbled attachments | every readable socket is restored, only garbled ones are rejected |
| RPC boundary (`RpcDefinition.ts`, `ServiceBinding.ts`, `WorkerDefinition.ts`, `DurableObjectDefinition.ts`) | none; two deployments with a definition each | encode, trace context, invoke, decode, handler, errors; the names of methods on clients, tags and classes | the two sides are deployed apart; an argument that looks like a context | handlers get the arguments that were passed; errors keep their class |
| RPC targets, sandbox and container clients | targets of an event | lookup, sharing, discarding after a failure | stale failures, background work after the event | failed targets are never given out, working ones are shared within their event |
| WebTransport (`effect-webtransport`) | session, streams, datagram locks; the choice of a transport | read, write, close, reconnect; `Fallback.select` | a writer racing a closing reader; failing candidates; interruption | one session at a time; writes stay whole; every lock is given back |
| Containers | two log streams, probes, processes | merged logs, `waitForHttp`, scoped processes | two producers, cancellation, timeouts, a signal after the exit | a merged log ends once, complete; no process outlives its scope |
| Workers, queues, workflows | the event's scope; batches; results of steps | fetches with streaming bodies, send and receive of batches, steps with retries | a client that leaves; redelivery; interruption during a retry delay | resources last as long as the body; batches are whole; nothing outlives its step |
| Computer workspaces | host registration, runs, files | acquire, exec, collect, kill, dispose; the filesystem | interruption during acquisition; files changed by others meanwhile | handles are owned; a file is missing only if it was |
| Tracing | spans and what the host was told | nested spans, patched console, formatters, bounded JSON | application code called back by the tracer | one final outcome; bounded work; RPC causes stay local |
| Analytics Engine, order import, outbox | quotas, batches, a document and its alarm | validated writes, queries, reports; save and archive | partial failure in a batch; a crash between any two steps | what is reported is what was written; what is saved is archived |
| Lint rules (`oxlint/plugin-anti-slop.js`) | none: searches over a syntax tree | aliases, generics, value flow, the surroundings of a place | recursion, shadowing, cycles | a rule reports exactly what it is about |
| Storage, AI, mail and other bindings; build scripts | none | one platform call each | none of its own | typing |

## Modules

Operators whose comment says *Mutant* are faulty variants of the definition that follows them. No
specification uses them; they are there to show that each property notices the fault.

**Alarms.**

| Module | Models |
| --- | --- |
| `AlarmRow` | one row and the functions that compute its successor: `Scheduled`, `Failed` (`rescheduleFailedAlarm`), `Acknowledged`, `RetryDelay` |
| `AlarmScheduler` | the table, the transactions that write it, and a pass with one lane per dispatcher |
| `AlarmPromise` | the abstract specification: what enrolling work guarantees, without time, budgets or lanes. `AlarmScheduler` implements it |
| `AlarmWake` | `deferWakes`, `runAlarm` and `reconcileAlarm` around the native alarm |
| `AlarmManual` | manual rows: claims, permits, retirement, evictions and failing transactions |
| `AlarmRegistrations` | `mergeAll`'s checks and one alarm event over all registrations, the raw hook and recovery |
| `AlarmCache` | the metadata cache over nested, failing and overlapping transactions |
| `AlarmMigration` | `ensureTable` from every published layout, cut off anywhere |
| `AlarmDefinitions` | typed definitions over deployments: stored lifecycle, decoding, failure actions |

**Objects, workers and their calls.**

| Module | Models |
| --- | --- |
| `EntrypointEvents` | the constructor's gate, events with scope, observer and response, `waitUntil`, telemetry, the dispatch after a response |
| `NativeTransaction` | `storage.transaction`, `blockConcurrencyWhile[OrReset]` over `runNativeCallback` |
| `RpcWebSocket` | the hibernating RPC transport: connections, attachments, checkpoints, restoration |
| `SocketAttachments` | accepted, labelled and rehydrated sockets and the keepalive pair |
| `RpcTargets` | targets shared by the calls of an event, with failures, background work and scoped results |
| `RpcBoundary` | a definition-backed call between sides that were deployed apart; reserved names and the names found on clients, tags and classes |
| `NamedClients` | clients of named sandboxes and containers |
| `WorkerFetch`, `QueueDelivery`, `WorkflowSteps` | a fetch with its body and telemetry; a queue from producer to consumer; the steps of a workflow |
| `ContainerLogs`, `ContainerReadiness`, `ContainerProcess` | merged logs; `waitForHttp`; processes with kills and scopes |
| `WorkspaceRuns`, `WorkspaceFiles` | a computer workspace: registration, acquisition and runs; its filesystem with links, used by several fibers |

**Transports, telemetry, examples and rules.**

| Module | Models |
| --- | --- |
| `TransportSelect` | `select` over `connect`: candidates, handshakes, timeouts, interruption |
| `WebTransportStreams`, `WebTransportSocket`, `WebTransportDatagrams` | scopes of sessions and streams; the socket with its readers and writers; datagrams with their locks |
| `CloudflareSpans`, `SpanJson` | spans sent to the host, with application code that calls back; the bounded JSON writer |
| `AnalyticsEngine` | validation, policies and limits of writes, and every query operation with its errors |
| `Outbox`, `OrderBatch` | the document outbox with R2 and evictions; the order import, its totals and report |
| `LintTypes`, `LintFlow` | how the lint rules look through types, follow values and read what is around a place |

`MCAlarmScheduler`, `MCObjects`, `MCRuntime` and `MCProgress` are for TLC; the seven `...Proofs`
modules are described under *Proofs*.

### AlarmScheduler

`rows` is the committed table. A **lane** is one dispatcher's run of `processDueAlarms`: `phase`
says where it is, `batch` what it selected and has not finished, `handled` the row it works on,
`reports` the alarms that each of its fibers parked and must still report. The fiber `Main` is the
lane's own, the others are forked by the handler or the failure hook (`requireActive` admits all of
them while the pass is active).

| Action | Code |
| --- | --- |
| `External` | an alarm transaction of an incoming event; `Apply` and `Run` execute its body on a view, `Commit` commits the view |
| `Deliver` | `runAlarm` starts a pass; calls during a pass join it |
| `Select`, `Skip`, `Start` | `select`, and `handleRow`'s re-read of the row and its revision |
| `HandlerTransaction` | a transaction of any fiber of the handler or of the failure hook, with the selected row as `CurrentAlarmPass`; only the fiber's own reports come first |
| `HandlerExit` | the handler returns or fails, or its payload does not decode; forked fibers may still have to report |
| `Report` | one step of `reportParked`, by any fiber, between transactions of the others |
| `Interrupt` | a forked fiber is interrupted between its commit and its reports, which are lost |
| `Succeed`, `SkipFailed`, `RetryFailed` | `acknowledgeAlarm` and `handleFailure`; `RetryFailed` also covers a hook that fails, after which the lane gives the rest of its batch up |
| `StorageFault` | the transaction that ends a row fails and is rolled back |
| `Finish` | the lane is through its batch |
| `Restart` | eviction, crash or deployment: only the table survives, the budget may change |
| `Tick` | the clock |

A storage transaction, with the run of its closure, is one step: the Object's storage runs
transactions one after the other. A transaction that fails writes nothing, so it is no step.
Payloads are left out, so are SQL, decoding and the per-failure delay a hook may choose (the
configured one stands for it). Revisions are UUIDs; the model picks one that neither the row nor its
selected copy has, which is all the code uses of them (`RevisionAssumption`).

`announced` and `attempted` are histories. A *parked episode* begins when a row becomes parked and
ends when it does not stay so: a transaction that cancels a parked row and enrolls it again, so that
it parks once more, begins a new one. Whether that happened is recorded in the transaction's view.
`announced` says of the present episode how often it was announced (`sent`), whether a fiber that
owed its notice was lost (`lost`), and whether it began while a fiber still owed an older notice of
the alarm (`overtaken`). `AnnouncedOncePerEpisode` allows a second notice in that last case only, and
`NoSilentParking` a missing one only after a loss. The lane's own fiber is interrupted with the whole
event (`Restart`).

### AlarmWake

Times are remaining delays, so the clock is unbounded and the state space still finite. Only the
earliest `wake_at` of the table matters for the native alarm and is kept (`wake`).

| Action | Code |
| --- | --- |
| `Write` | any alarm transaction: the table changes and `reconcileAlarm` runs in the same commit |
| `EnterInline`, `EnterPass` | acquisition of a `deferWakes` region, by an event or by `runRegistrations` |
| `GuardRead`, `GuardWrite`, `GuardFails` | the first region's `reconcileAlarm`, outside a transaction: two steps when the alarm is read from storage |
| `Await`, `Exit`, `Release`, `Clear` | a later region waiting for the guard; `wakeDeferrals--`, the reconciling transaction, the finalizer |
| `Fire`, `Deliver` | the platform consumes the alarm; `runAlarm(event, true)` owns or joins the pass |
| `PostEvent` | the dispatch after an RPC or fetch |
| `Restore`, `JoinRestore` | a delivery puts the consumed guard back while regions run, or before it joins |
| `StartDispatch`, `BeginDispatch`, `NothingDue`, `AcquireFails` | `awaitWakes`, the event layer, `beginDispatch` |
| `EndDispatch`, `ReconcileDispatch`, `Complete` | the exit handler of the owner |
| `Crash`, `Tick` | eviction; the clock |

Three facts about the platform are assumed, as Cloudflare documents them: one alarm delivery at a
time; a delivery that fails or is lost is repeated unless an alarm is set; no event begins while a
storage read is under way (the input gate, in `Fire`). Without the last one a guard could be armed
from a timestamp read before the delivery that consumed it. The native alarm's cache entry may be
dropped at any moment, which covers every way the code drops it. The first creation of the tables
is not modelled.

### The other modules

Each follows the same conventions; its header says what it abstracts. Actions have the names of
the functions they translate where the code has a name, and one action is one stretch of code
between two suspension points, with all it changes. Interruption, failure of a native call and
eviction are actions of their own. What the platform, a peer or an application does is an action
too, mapped as external. Some correspondences that the names do not give:

- `AlarmManual.claims` is what a pass selected and then moved, `age` how old its reading of the
  clock is; `superseded` (a history) are claims whose row was written since.
- `AlarmRegistrations.admission` is what became of the merged registrations, `stage` where the pass
  of each dispatcher is, `by` the pass that selected a row, `misconfigured` the dispatchers whose
  options have proved invalid: before they select, or in `LaneFails` by a delay of `onFailure` that
  does not decode, for which `EndPass` starts recovery over the dispatcher's remaining tags. A pass takes no
  more rows than its limit (`SelectRows`), in an order that is left open. The limit and the failures
  of a pass that the raw hook starts itself are the hook's.
- `AlarmCache.db` is what the connection shows, with its savepoints; `mem` the views of the open
  scopes of `StorageTransaction` and the committed one. A callback may go on after `Rollback`, and
  `Repeat` is the platform running the callback of an outermost transaction again: both take the
  writes back and leave the view (`TakeBack`). The history field `doubted` marks such a view and what is
  copied from it; `CacheAgrees` speaks of the others, `DoubtIsConfined` says where they are.
- `RpcWebSocket.InterruptRequest` completes a request that is not subscribed at once, with the
  persisting or the reset that follows; the exit that its fiber still reports completes nothing.
- `WebTransportDatagrams.Ready` is `await writer.ready` and `WriteDatagram` is `writer.write`: other
  senders may write in between, so `out` is bounded by the senders and not by `Capacity`.
- `RpcWebSocket.attach` outlives an eviction, `connections`, `resetSockets` and the ids are an
  activation's. The RPC server (`fibers`, `disconnects`) and the clients (`sent`, `awaiting`,
  `received`) are modelled as the transport uses them.
- `RpcBoundary` keeps the places of the caller (`pc`) and the receiver (`spc`) of each call, what
  is in flight (`wire`, `reply`) and the scope of a result (`held`). `contract` follows one set of
  method names from its declaration (`Declare`) over the class that serves it (`Serve`) to the use
  of a name on a client, a tag or a class (`Use`, `Deliver`).
- `CloudflareSpans.calls` is the stack of application code that the tracer calls back; each entry
  may use any span before it returns.
- `LintTypes` and `LintFlow` have programs as constants, and check each rule's search against a
  fixpoint or an expansion of what the type, the value or the place really is.

## Runs

| Run | Instance | Shows |
| --- | --- | --- |
| `one_alarm` | one alarm, budgets 2 and 3, clock to 3, two events, one restart, storage faults, the transaction bodies of `OneAlarmClosures`, from the lane's fiber and a forked one | type, row and fence invariants; a newer schedule survives; the budget is refilled only by an incoming enrollment, progress or a completed repeat; notices are sent unless their fiber is lost, and twice only in an episode that overtook one |
| `two_lanes` | two alarms in two lanes, bodies that write both | refinement of `AlarmPromise`; notices of two lanes about the same alarm |
| `backoff` | one alarm, no eviction | attempts at unchanged work are a full backoff apart |
| `starvation` | two alarms of one lane, batch limit 1, one restart | due work is attempted |
| `wake_guard` | two regions, a pass, a native and a post-response call, all faults | work is covered by a wake; a running region's guard is short; regions hold dispatch back |
| `wake_exact` | no faults, no post-response dispatch | when nothing runs, the native alarm is the earliest deadline |
| `wake_live` | one region at a time, failing event layers | due work reaches a dispatcher; deliveries return |
| `objects` | a suite (below) | the parts of a Durable Object around its scheduler |
| `runtime` | a suite | callbacks, events, transports, clients, telemetry, examples and rules |
| `progress` | a suite | what must happen in the end, and the safety of the smaller components |
| `eviction` (violation) | one alarm, one restart | the first finding |
| `notices` (violation) | two alarms, two lanes | the second finding |

**Suites.** The components of a suite share no state, so nothing is learned from running two of
them at once. `MCObjects`, `MCRuntime` and `MCProgress` therefore have a variable `subject`: a
behaviour chooses one instance at its start, that instance takes the steps, and the variables of
the others keep a fixed initial value. A suite's state graph is the disjoint union of the graphs of
its subjects, and a formula `subject = "x" => P` says of it what `P` says of instance `x` alone.

The components that theorems are about come into a suite with EXTENDS, and the suite checks the very
property the theorem states: `MCObjects` extends `RpcTargets`, `AlarmManual`, `AlarmRegistrations`,
`AlarmCache`, `RpcWebSocket` and `RpcBoundary`, `MCRuntime` extends `NativeTransaction`,
`QueueDelivery`, `EntrypointEvents` and `WebTransportDatagrams`, and `MCProgress` extends `Outbox`,
`TransportSelect` and `WorkerFetch`. Such a property is the conjunction, named in the component's module, of what the
component promises; it needs no condition on `subject`, as a component that rests in an initial state
keeps it. The other components, and further choices of constants of the same ones, are instances,
and a property defined in the suite collects what their modules promise. Where a component occurs
twice, the constants differ in what they exercise. The `tree` subject of `runtime` only starts
spans, three deep.

| Property | Components |
| --- | --- |
| `TargetsAreSafe` | `RpcTargets` |
| `ClaimsAreKept` | `AlarmManual` |
| `RegistrationsCover` | `AlarmRegistrations`, with a raw hook, failing storage and batches of one row |
| `CacheIsTrue` | `AlarmCache`: two alarms, two deep, rolled back and repeated |
| `SocketsSurviveHibernation` | `RpcWebSocket`: two streams and a call over deployments |
| `CallsKeepTheirMeaning` | `RpcBoundary`: one call between any two deployments |
| `NothingIsForgotten` | `AlarmMigration`; `AlarmDefinitions`; `SocketAttachments`; `AlarmRegistrations` with options that do not decode; `AlarmCache` with the native alarm, at the limit of the cache and with `deleteAll`, and with hidden and overlapping scopes (three deep with the native alarm alone); `RpcWebSocket` with more clients |
| `OperationIsWhole`, `BatchesAreWhole` | `NativeTransaction`: a transaction that is retried; `QueueDelivery` |
| `EventsRunInOrder` | `EntrypointEvents` |
| `DatagramsKeepOrder` | `WebTransportDatagrams` |
| `ClientsAnswerTruly` | `NamedClients`, `WorkspaceFiles`, `ContainerProcess`; `RpcBoundary` with two calls at once, and with names; `WebTransportSocket`: writing, and closing |
| `SpansAreTrue` | `CloudflareSpans`: nested; with events; three deep; `SpanJson` |
| `ReportsAreTrue` | `AnalyticsEngine`, `OrderBatch`; `LintTypes` and `LintFlow`: aliases, generics, bindings, chains, places, flows |
| `OutboxIsSafe`, `SelectionIsSafe` | `Outbox`, `TransportSelect` |
| `FetchesAreWhole` | `WorkerFetch`: two fetches, with an event layer |
| `ScopesAreClean` | `WorkerFetch` without an event layer, `NativeTransaction` as `blockConcurrencyWhile`, `WebTransportStreams`, `ContainerLogs`, `ContainerReadiness`, `WorkflowSteps`, `WorkspaceRuns` |
| `WorkIsHandled`, `WaitsEnd` | the liveness properties of seventeen instances, each under the fairness of its module |

**Bounds.** Budgets of 2 and 3 distinguish the first failure, an intermediate one and parking, and
let a deployment raise or lower the budget under a charged row. Delays 1, 2 and 3 make the backoff
grow, reach its cap and differ from the parked delay. The clock runs long enough for a row to be
parked and, in `backoff` and `eviction`, attempted again. Two events suffice to replace a row between any two
steps of its pass, and two fibers to write between another's commit and its report. Three revisions are what `RevisionAssumption` needs. In `AlarmWake` the recovery
delay, the parked delay and a deadline beyond both are 1, 2 and 3, and there is no bound on the
number of steps. Elsewhere two of each actor (passes, callers, fibers, events, sockets) are enough
for every race between two of them, and three scopes or spans for what a parent does to a child
that has one; counters named `Max...` bound how often the environment may repeat itself, at least
twice where a second time can differ. One eviction per behaviour is the rule, as an eviction forgets
all but what is stored and the next activation starts from any stored state; `AlarmMigration` has
three starts, since a migration cut off twice is a case of its own. Where inputs are enumerated
(RPC sides, analytics points, orders, programs for the lint rules) they are chosen so that every
branch of the code is taken and combined; the runs show nothing about longer inputs.

The scheduler's runs do not check deadlock, because its clock and its events are bounded and the
system may really come to rest; `AlarmWake`'s do. In the suites a subject that may come to rest is
listed in `MayStop`, and the others are checked.

**Fairness.** Only steps of the runtime and answers the platform owes are fair; events, faults,
interruptions, evictions and the choices of applications and peers never are.

- Scheduler: handlers return and the runtime continues a fiber that can continue: weak fairness for
  the lane's steps, strong for a handler's exit and a row's end, which its own transactions
  interrupt again and again.
- Wake guard: the platform fires a due alarm, regions end, and an event layer is acquired sooner or
  later (strong, as the platform repeats the delivery). Regions that overlap without end keep a call
  waiting: `deferWakes` promises exactly that, so `wake_live` has one region at a time, and the
  hazard stays without a property.
- Manual passes, events, native operations, streams, logs, spans, fetches: weak fairness for each
  fiber's own steps. Strong fairness is asked for where another actor may disable the step for a
  while: the body of a transaction that the platform retries (`NativeTransaction`), the
  repetition of a failed alarm delivery (`EntrypointEvents.Delivering`, used for `DueIsDispatched`
  only), and in `Outbox` the commits of the handler and an R2 that stores a write if it is asked
  again and again.
- `RpcWebSocket`: the client acknowledges, the application checkpoints what it handled, the
  server's fibers go on, and an evicted Object that has something to do is woken.
- `WorkflowSteps`: finalizers end. A retry delay may be as long as it likes.

## Findings

1. *Parked work can be attempted more than once per parked delay.* `docs/durable-object-wakeups.md`
   says that parked work gets at most one automatic attempt per hour. A handler starts without
   moving its row's deadline, so an eviction while it runs leaves the row due and the next pass
   attempts it at once (`eviction`). Recovery of interrupted work is intended; the sentence in
   the documentation is stronger than the code. `ParkedAttemptsAreSpaced` proves it for runs
   without evictions and failing commits.
2. *A parked episode can be reported twice.* `reportParked` re-reads whether the row is parked,
   not whether it is still the parking its own transaction made. Between that commit and the
   report another dispatcher, or another fiber of the same handler, can enroll the alarm afresh and
   park it again; then both report. The run `notices` shows it for two dispatchers whose handlers
   have one fiber each. `EpisodesAreAnnouncedOnce` proves that nothing else leads to a second
   notice: an episode that begins when no older notice is owed is reported once at most.

Met while modelling, smaller than a finding or outside what a run can say; the models do what the
code does:

- `DurableObjectRpcWebSocket.ts:918`: after an eviction a late `checkpoint` may move the stored
  cursor backwards, although the comment at line 126 reads as if it only advanced. A client then
  gets values again; it never misses one.
- `DurableObjectAlarm.ts:1742`: a handler's forked fiber may be interrupted between its commit and
  `reportParked`. Its notice is lost and the row stays parked unannounced (`lost` in
  `NoSilentParking`).
- `internal/StorageTransaction.ts:6`: a view that is used after `rollback()` was called inside its
  transaction still answers from before the rollback, in that transaction and those within it
  (`DoubtIsConfined`). The scope is made around the callback, so when the platform runs the callback
  again it finds the view of the first time, and a commit publishes it: from then on the
  committed cache may tell of rows that were taken back, until it is emptied or overwritten.
  `DoubtIsConfined` excludes this with `repeats = 0`, and the other parts of `CacheIsTrue` do not.
- `effect-webtransport`, `WebTransport.ts:264` says that a datagram waits for the outgoing queue to
  have capacity before it is written. Two senders can pass `writer.ready` together (450), and the
  second then writes into a full queue.
- `DurableObjectAlarm.ts:822` and `869`: the raw hook waits for automatic dispatchers only, but
  shares the permits of manual ones, so a manual handler that does not end can hold it back.
- `DurableObjectAlarm.ts:869` goes by what is declared, not by what is stored: a row stored as
  automatic whose definition a deployment made manual runs beside the raw hook.
- `AnalyticsEngine.ts:461`: the limit of data points per invocation is checked for each call, not
  for their sum.
- `oxlint/plugin-anti-slop.js:188` lets a generic capture a parameter of the same name; at 922 a
  parser that keeps parentheses would hide an inner dictionary type; at 1154 a comment that stands
  before the enclosing function also justifies an assertion in an `if` condition, which the
  message at 1188 does not say.
- A definition's method that is named like an operation of a client (`call`, `get`, `byName`, ...)
  passes every list of reserved names, but `Object.assign` puts the operation over its direct
  method (`ServiceBinding.ts:380`, `DurableObjectNamespace.ts:504`). It can be reached by `call`.

## Proofs

TLC checks small instances; the theorems hold for every value of the constants that satisfies the
named assumptions of the modules (floors of the configuration schema, enough revisions for a fresh
one, homes of callers, the non-empty list of candidates). `PowerFact` says that powers of two are
positive, arithmetic the provers lack. TLC evaluates all of them on each run. Each theorem is
proved from an inductive invariant, which is checked to hold initially, to be kept by each action
and to imply what is stated.

**`AlarmSchedulerProofs`.** The invariant is

    IInv == TypeOK /\ GoodRows /\ RevisionIdentifiesRow /\ LaneConsistent

`RowsConsistent` and `BudgetEndsInParking` speak about committed rows. They are not inductive alone:
a failing row is recomputed from its *selected copy*, so `GoodRows` demands the same of `batch`. That
the copy's owner still has it, when `RetryFailed` reads it, is the lemma `LaneConsistent`; that the copy equals
the table's row when revisions agree is `RevisionIdentifiesRow`, which fresh revisions preserve. The
lemmas `ScheduledRow`, `FailedRow` and `AcknowledgedRow` say that the three row functions keep rows
good; `ApplyView`, `RunView` and `CommitStep` carry this through a transaction of any length; then
there is one lemma for each kind of step. From `IInv` follow `TypeCorrect`, `RowsStayConsistent`,
`BudgetParks`, `FenceHolds` and `NewerSchedulesSurvive`, and
`SchedulerKeepsPromise`: every step of the scheduler is a step of `AlarmPromise` or changes nothing
it sees.

What the histories say needs more:

- `ParkingsAreAnnounced`: a view's *unparking* and the notices already owed say of each parked row
  where its notice is; the invariant is carried through views first, then through commits.
- `EpisodesAreAnnouncedOnce` is about any dispatchers and any fibers. Of a parked episode that no
  older notice overtook, one fiber at most still has to report it, and only while none has
  (`DueOnce`, with `UniquelyOwed`). Without the exception the statement is false, which is the
  second finding.
- `BudgetsAreNotRefilled`: rows and selected copies carry at least the charges of their history, in
  every transaction body, whatever it writes.
- `AttemptsAreSpaced` and `ParkedAttemptsAreSpaced` assume no restarts and no storage faults: then a
  charged row's retry deadline is the end of its backoff (`BackoffOwed`), for any delays
  the schema allows. An eviction or a failed commit repeats an attempt that was not charged; that is
  the first finding.

**`AlarmWakeProofs`.** The invariant is

    IInv == TypeOK /\ RegionsHold /\ GuardTimed /\ PassOwned /\ SeenSafe /\ CacheSafe /\ Covered /\ GuardArmed

`Covered` (work has an alarm soon enough, or a delivery in hand) depends on who may still owe a
reconciliation: `PassOwned` says which call owns the pass in each stage, `RegionsHold` that the
counter and the guards agree with the open regions, `GuardTimed` that a recovery deadline is no
later than it should be. A guard may be judged by a stale read of the alarm or of its cache;
`SeenSafe` and `CacheSafe` say that what was read is never later than what is set. From it follow
`WakeTypeCorrect`, `WorkStaysCovered`, `GuardStaysShort` and `RegionsHoldBackDispatch`.
`QuietObjectsAreExact` adds `Exact /\ Undisturbed` and the hypotheses of its run: no post-response
dispatch and no fault of events, storage or the process, each of which may leave an early alarm
behind on purpose.

**`AlarmCacheProofs`.** The promise is about the innermost scope only, so it is not inductive: when a
scope ends, its parent's view comes to the front, and a committed child's replaces it. The invariant
`Sound` says for every scope what storage *showed* it (`Shown`: what its innermost child saved) and
that its view agrees with that (`Truthful`). The scopes with a view are the outermost ones, of the
one root that counts as active (`ViewedTo`, `Active`); a scope without one has written nothing, so
that it may still copy its parent's (`Unwritten`); only the innermost can be rolled back (`Ends`);
and below a tracked scope stand its parents up to a root (`Stacked`), which is what makes an
overlapping root turn the cache off instead of reading another's view. TLC checked `Sound` on ten
million states with every surprise, three scopes deep, before it was proved. `Observing`, `Changing`, `Opening`
and `Ending` carry it through an access, a change of a view and the two ends of a scope. Rolled back and repeated
callbacks go on as they like: a view whose writes were taken back is doubted, so `Truthful` says
nothing of it, and the invariant follows who may copy it. From it
follow `CacheTypeCorrect`, `CacheStaysTrue`, `DoubtStaysWithin`, `RootsDoNotLeak` and
`OrdinaryUseIsCached`, without an assumption on what callbacks do. Nothing bounds the depth, the rows or the deletions but the model's
counters, whose bounds are arbitrary.

**`AlarmRegistrationsProofs`.** The registrations are any, as are their dispatchers, tags, rows and
permits; the named assumption says that the tail is none of the dispatchers, that an Object with
registrations has the scheduler's tables, and that limits are positive. `OneWants` is what
`validateRegistration` is for: valid parts share no tag, so that no two passes want the same row; with
`SomeWants` each row has one. The invariant follows a row from the pass that wants it to the one that
has it (`Owned`), and says what a pass that has begun may leave due (`LeftDue`: nothing, unless its
batch was full, it failed or it is the hook's own), what becomes of a dispatcher whose options prove
invalid (`Misconfigured`), what recovery runs for (`Recovering`) and when the hook has begun (`Waited`);
`Raised`, `Refused` and `Native` keep events that run nothing from having done anything. `FullBatch`
is why a row that was not selected meets a full batch, `PassOK` covers the ways a pass takes its
rows, `RowsOK` the steps of a pass that has begun. From it follow `RowsHaveOnePass`,
`LeftoversHaveReasons`, `InvalidOptionsAreRecovered`, `RecoveryStaysOut`, `PermitsStayShared` and
`HooksComeLast`.

**`ObjectProofs`, manual alarms.** That a claim keeps other passes away is a statement about time and
revisions at once: until it runs out, a claim *is* the row's (`Lasting`: same revision, same
remaining time, unless the row was touched), and two claims of one row never have one revision
(`Apart`). `Fenced` says of whatever still holds its row that nobody touched it, that what is only
selected is due, and that what is claimed is no fresh enrollment: this is why `Enrolled` must give a
claimed row a new revision even when its deadline stays. `ManualAssumption` asks for a revision no
row or claim has, and for a longest deadline. From it follow `NewerCheckpointsWin`,
`ClaimsKeepOthersAway` and, of steps, `OlderPassesYield`.

**`ObjectProofs`, calls over the RPC boundary.** The two sides are deployed apart, so the theorem
`CallsCrossWhole` is about any pair of them, with any contracts, schemas, inputs and names. The
invariant follows one call at a time: what left the caller (`SentOK`), what the receiver made of it
(`ReceivedOK`), what is on the way back (`RepliedOK`), what the caller made of that (`GotOK`) and what
is left when it ended (`EndedOK`); `ContractOK` does the same for one set of method names. That an
argument which decodes is the one that was passed rests on `OneValue`: a wire form is of one value
only, whichever schema reads it. `BoundaryAssumption` says that values, wire forms and the contexts
of calls can be told apart; a value that merely looks like a context (`Ctx`) is one of the values.

**`ProgressProofs`, hibernating RPC sockets.** Connections die with an activation while attachments,
clients and links go on. The invariant says for each connection that its attachment tells the same
(`AgreeOK`), that a stream's fiber continues where its client is and waits exactly when its latch is
closed (`FiberOK`), and that every call its client waits for has a fiber (`Served`); and for each
socket what its attachment must say while there is no connection to ask (`Recorded`). `Distinct` and
`Gone` keep the ids of clients apart, without which a reset of one socket would end the fibers of
another; `Asleep` and `Paired` say what an eviction leaves. With `NoOrphanFibers` and
`PairWhileOpen` it is inductive, over any sockets, streams, chunk sizes, deployments of other
versions and evictions between any two steps. From it follow `AttachmentsSayWhatConnectionsKnow`,
`StreamsWaitForCheckpoints`, `NoCallIsLost`, `NoValueIsSkipped`, `OpenSocketsAreServed`, and their
conjunction `HibernationIsSurvived`. That a client which acknowledges gets its whole stream is
liveness and is checked (`WorkIsHandled`).

**`RuntimeProofs`, datagrams.** `DatagramsArriveInOrder` speaks of what was got and what was lost, for
any senders, takers, arrivals and sizes of the queues. `InOrder` places every datagram in one line:
what was got comes before what is in a reader's hand, and that before the buffer. `NoneMissing` counts
them, with those that the full buffer dropped or an interrupted read held (`lost`). Both rest on `ReadersOK`, by which one reader at
a time has the lock and a read under way, and `SendersOK`, which counts the writers at the one writable.

**The others.**

| Module | Invariant beyond types | Theorems |
| --- | --- | --- |
| `ProgressProofs`, outbox | `Consistent` (snapshot, history and rows tell one story), `Handled` (a handler has an attempt) | what is saved is owed until it is archived, and archived as saved, at every crash |
| `RuntimeProofs`, native operations | `CallbackInItsGate`, `ClosedSetIsQuiet`, `VerdictIsTrue`, `OutcomeIsTrue` | nothing outlives the fiber; its exit says what became of the transaction; resets are justified |
| `RuntimeProofs`, queues | `BatchIsWhole`, `Sources`, `CallsAreApart` | a failed call sent nothing; only what was seen is acknowledged; handlers get whole batches |
| `RuntimeProofs`, entrypoint events | `GatesOK` (until its hook had its chance, the constructor keeps the gate), `StagesOK` (only ended events wait for a dispatch), `WorkOK` (a failure handler runs for failed work only), `ArmedOK` (due work is armed, or about to be) | initialisation comes first, due work is armed or about to be dispatched, background work fails only what observes it: for any events, faults and evictions |
| `ProgressProofs`, fetches | `HoldsOK` and `WhereOK` (what a fetch holds at each stage, and how far its scope and span are), `FlushesOK` | resources last as long as the body, and a flush finds span, exporter and its own request, with and without an event layer |
| `ProgressProofs`, workflow steps | `StepOK`: Cloudflare calls back only for a step without a result, and a fiber runs while the effect of its step is open | nothing of a step outlives it, a fatal failure is final also after an eviction, no attempt starts late: for any steps and attempts |
| `ProgressProofs`, readiness | `ReadinessIInv`: a probe is on the network only while the loop awaits it, and the last failure is of the probe before | no probe is left, a timeout reports the last failure, a stopped container is not probed: for any number of probes |
| `ProgressProofs`, workspace runs | `RunsIInv`: `HandlesAreOwned` itself is inductive | every handle is owned by the scope of a fiber that still uses it: for any fibers, runs and interrupts |
| `ProgressProofs`, streams | `SessionOK` (what the stage of the session says of its streams), `WriterOK` (a writer that is not through has its stream open and the lock is its own) | a session closes after its streams, no lock is left, FIN ends complete streams only |
| `ProgressProofs`, merged logs | `LogsGoing` (a source with its lock has one read under way or one result in `ready`, counted), `LogsSettled` | one result of a source at a time, a closed stream is complete, a failure leaves no lock |
| `ProgressProofs`, processes | `TaskOK`: a signal that was called when the exit was settled comes after the microtask that announces the exit (`Announced`), or the exit is known; `LifeOK`: a scope that closed has ended what was acquired | a kill that is called when the exit is settled sends no signal; no process outlives its scope: for any processes and kills |
| `ProgressProofs`, remote files | `FileOpOK`: what an operation has seen includes the state it was called in and the one its reply will report | missing and found are only said of what was so at some time of the operation, for any fibers, paths and links |
| `ProgressProofs`, named clients | `TargetsInv` (within the event every target that did not fail is the one its address holds), `StubsInv` (a stub is its target's own), `OpsInv` (operations and handles stay with their name's address) | one stub that works per name, clients recover, containers fail alone |
| `ProgressProofs`, sockets over WebTransport | `ReaderFits` (a reader that ends has its stream ended, and keeps the lock of the writer until that is over), `InTurn`, `ChunksFit` (the chunks of a write up to its present one are on its stream, once and in order, and no other) with `LatestServes` | the latest reader serves, a `writeAll` goes to one stream in order and stops when interrupted, the first cause stands, a closed scope holds no lock: for any readers, writes and chunks |
| `RuntimeProofs`, migration | `Layout` (of the tables and of what a transaction saved), `Reached` (what the statements before the next one have done) | the marker comes last, nothing is forgotten, no code runs before it, failures roll back: for any rows, layouts and evictions |
| `RuntimeProofs`, bounded JSON | `OpenOnce` (a container is on the stack once, and the ancestors are those on it), `Bounded` | the work is bounded and what is encoded fits, for any limits and any value, with members that are shared or contain themselves |
| `RuntimeProofs`, orders | `OrderIInv`: the ids are those of the records read, and what was accepted is the first record of its id | the first record of an id decides, every record is counted once: for any batch |
| `RuntimeProofs`, Analytics Engine | `CallFits`: what each step of a call may rely on, a whole batch under "error" (`BatchIsValid`) and a success in the body of a query | an invalid point under "error" keeps the batch from being written, rows are true, calls end in their kind: for any fibers, batches and answers |
| `RuntimeProofs`, definitions | `ClaimsAreManual` | of steps: no row is lost silently, manual rows stay manual, calls enroll as defined; `RowsEnd` says which steps end a row at all |
| `ProgressProofs`, transports | `Untouched`, `OwnedHere`, `Stages`: later candidates are untouched, only the present one owns anything | one session at a time, no leak, interruption is final, for any number of candidates |
| `ObjectProofs`, targets | `Origins`, `Entries`, `NoResultUnderWay` | no failed target is given out, one is shared per event and address, none is used across events, scoped results go |
| `ObjectProofs`, sockets | `Labelled` (an attachment is of its socket's tag, or garbled), `Reading` (what a call has listed keeps its schema), `Listing` (each once) | accepted sockets keep their attachment, readable ones come back, a call that names its schema's tag (`ClosesItsOwn`) closes garbled ones only, keepalives last: for any sockets, calls and evictions |

What a run checks of a whole component is stated once, as the component's own conjunction, and has a
theorem of its own: `SharingIsSafe`, `ClaimsStayKept`, `EventsCoverTheirRows`, `CacheIsAlwaysTrue`,
`HibernationIsSurvived`, `CallsCrossWhole`, `EveryOperationIsWhole`, `EveryBatchIsWhole`,
`EventsKeepOrder`, `DatagramsArriveInOrder`, `OutboxStaysSafe`, `EverySelectionIsSafe`,
`EveryFetchIsWhole`.

**What stays with TLC.** Liveness and everything under fairness (`DueWorkIsAttempted`,
`DueWorkIsDispatched`, `DeliveriesReturn`, `WorkIsHandled`, `WaitsEnd`), as the provers know neither
`ENABLED` nor induction over data. The recursive searches of `CloudflareSpans`, `LintTypes` and
`LintFlow`, whose modules declare RECURSIVE operators, hence `SpansAreTrue` and a part of
`ReportsAreTrue`. And what is computed by
a fold or a `SelectSeq`, as its value takes an induction over the list: `CentsAddUp`, `ReportAddsUp`
and `TopCustomersAreTop` of `OrderBatch`, `DropSkipsOnlyInvalid`, `SentIsWritten` and the dataset
part of `TypeOK` of `AnalyticsEngine`, and that `SpanJson` writes exactly what fits.
`ClientsAnswerTruly` collects, at the constants of the run, what `CallsCrossWhole`,
`KillsComeInTime`, `FilesAnswerTruly`, `ClientsFindTheirTargets` and `SocketsServeInOrder` state for
every value of the constants. `ScopesAreClean` says of every component it
collects what a theorem says of it (`EveryOperationIsWhole`, `EveryFetchIsWhole` and the five
instances of `ProgressProofs`), at the constants of the run, and adds the choice of the component. `NothingIsForgotten`
collects components that have theorems, at other constants than those of their own run.

## Plan

Every module that keeps state over time has its safety proved, except the parts named above: the
recursive modules and the values of folds. What a next step would add is in the code that is left
out, below.

## Not modelled

The facades (`Kv`, `R2`, `D1`, `Cache`, `Images`, `Email`, `Vectorize`, `WorkersAi`, `AiGateway`,
`BrowserRendering`, `Artifacts`, `RateLimit`, `Hyperdrive`) keep no state across a call and have no
order of their own to get wrong; nor have the layers that read a binding. Of the modelled components
these parts are left out: `transactionSync`, whose callback cannot wait; TCP ports and files of
containers; sleeps, events and the client of a workflow; the git, assets and artifact calls of a
workspace; the texts of queries and headers of Analytics Engine; heartbeat pass-through and the
serializer of the RPC transport; the OTLP exporter and the Vitest harness, which configure
libraries; the lint rules that look at one node only. Workflow durability and the sandbox protocol
belong to external services. Build scripts, benchmarks and the parts of the examples that wire
layers together are not part of the running system.
