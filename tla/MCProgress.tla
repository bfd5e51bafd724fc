----------------------------- MODULE MCProgress -----------------------------
\* What must happen in the end, checked in one run on small instances, with the safety of
\* the components that are small enough. They share no state, so a behaviour is about one
\* of them, its subject, and the others rest. A component makes progress under the fairness
\* of its own module, which its property assumes. Outbox, TransportSelect and WorkerFetch
\* come with EXTENDS, the others as instances.
EXTENDS Outbox, TransportSelect, WorkerFetch

CONSTANTS NoRow, NoClaim, NoSub, NoConnection, NoFiber, NoAttachment, None, Invocation

VARIABLES
    subject,   \* the component of this behaviour
    manual_rows, manual_phase, manual_age, manual_claims, manual_wanted, manual_fresh,
    manual_superseded, manual_owed, manual_enrollments, manual_evictions,
    native_fiber, native_setOpen, native_native, native_callback, native_exit, native_verdict,
    native_written, native_outcome, native_reset, native_retries, native_yields,
    entry_boot, entry_gates, entry_stage, entry_ok, entry_after, entry_work, entry_broken, entry_flush,
    entry_prompt, entry_pass, entry_due, entry_native, entry_crashes,
    late_boot, late_gates, late_stage, late_ok, late_after, late_work, late_broken, late_flush,
    late_prompt, late_pass, late_due, late_native, late_crashes,
    bare_base, bare_req,
    ws_link, ws_attach, ws_paired, ws_awake, ws_build, ws_connections, ws_resetSockets, ws_nextClientId,
    ws_fibers, ws_disconnects, ws_sent, ws_awaiting, ws_received, ws_restarts,
    sock_reader, sock_current, sock_write, sock_release,
    stream_session, stream_native, stream_exit, stream_stream, stream_writable, stream_lock,
    stream_write, stream_accepted,
    dgram_session, dgram_writer, dgram_out, dgram_send, dgram_result, dgram_queue, dgram_lock,
    dgram_read, dgram_inhand, dgram_got, dgram_lost, dgram_arrived, dgram_tries,
    logs_native, logs_reading, logs_ready, logs_remaining, logs_pull, logs_stopped, logs_cleanup,
    logs_locks, logs_merged, logs_out,
    ready_running, ready_phase, ready_probe, ready_fetch, ready_lastFailure,
    step_result, step_attempts, step_native, step_call, step_fibers, step_body, step_fatal, step_crashes,
    runs_host, runs_client, runs_backend, runs_at, runs_how, runs_run, runs_handle, runs_asked,
    runs_wild, runs_tries,
    span_kind, span_parent, span_context, span_sampled, span_status, span_exit, span_host, span_told,
    span_attempts, span_logged, span_forwarding, span_calls, span_body

manualVars == <<manual_rows, manual_phase, manual_age, manual_claims, manual_wanted, manual_fresh,
    manual_superseded, manual_owed, manual_enrollments, manual_evictions>>
nativeVars == <<native_fiber, native_setOpen, native_native, native_callback, native_exit,
    native_verdict, native_written, native_outcome, native_reset, native_retries, native_yields>>
entryVars == <<entry_boot, entry_gates, entry_stage, entry_ok, entry_after, entry_work, entry_broken,
    entry_flush, entry_prompt, entry_pass, entry_due, entry_native, entry_crashes>>
lateVars == <<late_boot, late_gates, late_stage, late_ok, late_after, late_work, late_broken,
    late_flush, late_prompt, late_pass, late_due, late_native, late_crashes>>
bareVars == <<bare_base, bare_req>>
wsVars == <<ws_link, ws_attach, ws_paired, ws_awake, ws_build, ws_connections, ws_resetSockets,
    ws_nextClientId, ws_fibers, ws_disconnects, ws_sent, ws_awaiting, ws_received, ws_restarts>>
sockVars == <<sock_reader, sock_current, sock_write, sock_release>>
streamVars == <<stream_session, stream_native, stream_exit, stream_stream, stream_writable, stream_lock,
    stream_write, stream_accepted>>
dgramVars == <<dgram_session, dgram_writer, dgram_out, dgram_send, dgram_result, dgram_queue,
    dgram_lock, dgram_read, dgram_inhand, dgram_got, dgram_lost, dgram_arrived, dgram_tries>>
logsVars == <<logs_native, logs_reading, logs_ready, logs_remaining, logs_pull, logs_stopped,
    logs_cleanup, logs_locks, logs_merged, logs_out>>
readyVars == <<ready_running, ready_phase, ready_probe, ready_fetch, ready_lastFailure>>
stepVars == <<step_result, step_attempts, step_native, step_call, step_fibers, step_body, step_fatal,
    step_crashes>>
runsVars == <<runs_host, runs_client, runs_backend, runs_at, runs_how, runs_run, runs_handle,
    runs_asked, runs_wild, runs_tries>>
spanVars == <<span_kind, span_parent, span_context, span_sampled, span_status, span_exit, span_host,
    span_told, span_attempts, span_logged, span_forwarding, span_calls, span_body>>

OneWrite == [w \in {"one"} |-> 1]   \* a write of one chunk

-----------------------------------------------------------------------------
Selecting == INSTANCE TransportSelect WITH
    Count <- 4, WebTransports <- 1..4

Claimed == INSTANCE AlarmManual WITH
    Alarms <- {"a", "b"}, Known <- {"a", "b"}, Passes <- {"p"}, Permits <- 1, Revisions <- 0..2,
    InFlightRecovery <- 1, ParkedRetryDelay <- 2, Deadlines <- {0, 2}, MaxEnrollments <- 2,
    MaxEvictions <- 1, StorageFaults <- FALSE, rows <- manual_rows, phase <- manual_phase,
    age <- manual_age, claims <- manual_claims, wanted <- manual_wanted, fresh <- manual_fresh,
    superseded <- manual_superseded, owed <- manual_owed, enrollments <- manual_enrollments,
    evictions <- manual_evictions

Native == INSTANCE NativeTransaction WITH
    Operation <- "transaction", MaxRetries <- 1, NativeFaults <- FALSE, MaxYields <- 2,
    ParentTimer <- TRUE, fiber <- native_fiber, setOpen <- native_setOpen, native <- native_native,
    callback <- native_callback, exit <- native_exit, verdict <- native_verdict,
    written <- native_written, outcome <- native_outcome, reset <- native_reset,
    retries <- native_retries, yields <- native_yields

Block == INSTANCE NativeTransaction WITH
    Operation <- "block", MaxRetries <- 0, NativeFaults <- TRUE, MaxYields <- 2,
    ParentTimer <- TRUE, fiber <- native_fiber, setOpen <- native_setOpen, native <- native_native,
    callback <- native_callback, exit <- native_exit, verdict <- native_verdict,
    written <- native_written, outcome <- native_outcome, reset <- native_reset,
    retries <- native_retries, yields <- native_yields

Prompt == INSTANCE EntrypointEvents WITH
    Events <- {"first", "second"}, Response <- {"first"}, Observed <- {}, Propagating <- {},
    LateWork <- FALSE, Faults <- FALSE, Crashes <- 0, NativeFires <- FALSE, boot <- entry_boot,
    gates <- entry_gates, stage <- entry_stage, ok <- entry_ok, after <- entry_after,
    work <- entry_work, broken <- entry_broken, flush <- entry_flush, prompt <- entry_prompt,
    alarmPass <- entry_pass, due <- entry_due, nativeAlarm <- entry_native, crashes <- entry_crashes

Late == INSTANCE EntrypointEvents WITH
    Events <- {"first"}, Response <- {"first"}, Observed <- {}, Propagating <- {}, LateWork <- TRUE,
    Faults <- FALSE, Crashes <- 1, NativeFires <- TRUE, boot <- late_boot, gates <- late_gates,
    stage <- late_stage, ok <- late_ok, after <- late_after, work <- late_work, broken <- late_broken,
    flush <- late_flush, prompt <- late_prompt, alarmPass <- late_pass, due <- late_due,
    nativeAlarm <- late_native, crashes <- late_crashes

Bare == INSTANCE WorkerFetch WITH
    HasEventLayer <- FALSE, LayerFails <- FALSE, base <- bare_base, req <- bare_req

Subscribed == INSTANCE RpcWebSocket WITH
    Sockets <- {"s1"}, Streams <- {1, 2}, Calls <- {}, StreamKeys <- {"events"},
    KeyOf <- [r \in {1, 2} |-> "events"], Builds <- {[codec |-> "json", declared |-> TRUE]},
    MaxValue <- 3, MaxChunk <- 2, MaxClients <- 1, MaxRestarts <- 2, Faults <- FALSE, link <- ws_link,
    attach <- ws_attach, paired <- ws_paired, awake <- ws_awake, build <- ws_build,
    connections <- ws_connections, resetSockets <- ws_resetSockets, nextClientId <- ws_nextClientId,
    fibers <- ws_fibers, disconnects <- ws_disconnects, sent <- ws_sent, awaiting <- ws_awaiting,
    received <- ws_received, restarts <- ws_restarts

Socket == INSTANCE WebTransportSocket WITH
    Readers <- {1}, Writes <- OneWrite, Alls <- {}, HighWater <- 1, MaxChunks <- 1,
    Faults <- {"fin", "reset", "stop"}, Pullers <- {1}, reader <- sock_reader, current <- sock_current,
    write <- sock_write, release <- sock_release

Opened == INSTANCE WebTransportStreams WITH
    Streams <- {"s1", "s2"}, MaxChunks <- 3, session <- stream_session, native <- stream_native,
    exit <- stream_exit, stream <- stream_stream, writable <- stream_writable, lock <- stream_lock,
    write <- stream_write, accepted <- stream_accepted

Datagrams == INSTANCE WebTransportDatagrams WITH
    Senders <- {"s1", "s2"}, Takers <- {"t1"}, Consumer <- "stream", Incoming <- 1, HighWater <- 1,
    Capacity <- 1, MaxTries <- 2, Free <- "free", session <- dgram_session, writer <- dgram_writer,
    out <- dgram_out, send <- dgram_send, result <- dgram_result, buffer <- dgram_queue,
    lock <- dgram_lock, read <- dgram_read, inhand <- dgram_inhand, got <- dgram_got,
    lost <- dgram_lost, arrived <- dgram_arrived, tries <- dgram_tries

Logs == INSTANCE ContainerLogs WITH
    Sources <- {"stdout", "stderr"}, MaxChunks <- 2, native <- logs_native, reading <- logs_reading,
    ready <- logs_ready, remaining <- logs_remaining, pull <- logs_pull, stopped <- logs_stopped,
    cleanup <- logs_cleanup, locks <- logs_locks, merged <- logs_merged, out <- logs_out

Readiness == INSTANCE ContainerReadiness WITH
    MaxProbes <- 3, running <- ready_running, phase <- ready_phase, probe <- ready_probe,
    fetch <- ready_fetch, lastFailure <- ready_lastFailure

Stepping == INSTANCE WorkflowSteps WITH
    Steps <- {"first", "second"}, MaxAttempts <- 2, MaxCrashes <- 2, result <- step_result,
    attempts <- step_attempts, native <- step_native, call <- step_call, fibers <- step_fibers,
    body <- step_body, fatal <- step_fatal, crashes <- step_crashes

Running == INSTANCE WorkspaceRuns WITH
    Fibers <- {"f", "g"}, Runs <- {"r", "q"}, MaxTries <- 2, host <- runs_host, client <- runs_client,
    backend <- runs_backend, at <- runs_at, how <- runs_how, run <- runs_run, handle <- runs_handle,
    asked <- runs_asked, wild <- runs_wild, tries <- runs_tries

Spanning == INSTANCE CloudflareSpans WITH
    Spans <- {"s1"}, RpcSpans <- {"s1"}, SpanEvents <- TRUE, HasFormatter <- TRUE, MaxEvents <- 2,
    MaxCalls <- 3, kind <- span_kind, parent <- span_parent, context <- span_context,
    sampled <- span_sampled, status <- span_status, exit <- span_exit, host <- span_host,
    told <- span_told, attempts <- span_attempts, logged <- span_logged, forwarding <- span_forwarding,
    calls <- span_calls, body <- span_body

\* The constants of every instance are as its module assumes.
ASSUME InstancesFit ==
    /\ Claimed!ManualAssumption
    /\ Native!OperationAssumption
    /\ Block!OperationAssumption
    /\ Prompt!EventsAssumption
    /\ Late!EventsAssumption
    /\ LayerAssumption
    /\ Bare!LayerAssumption
    /\ Subscribed!ShapeAssumption
    /\ Socket!ReadersAssumption
    /\ Socket!NoneAssumption
    /\ Opened!StreamsAssumption
    /\ Datagrams!DatagramAssumption
    /\ Logs!SourcesAssumption
    /\ Readiness!MaxProbesAssumption
    /\ Stepping!WorkflowAssumption
    /\ Running!TriesAssumption
    /\ Spanning!SpansAssumption
    /\ Spanning!BoundsAssumption
    /\ Spanning!OptionsAssumption

-----------------------------------------------------------------------------
\* A component that is not the subject rests in one of its initial states.
SuiteInit ==
    /\ subject \in {"outbox", "select", "exhausted", "claimed", "native", "block", "prompt", "late", "layered",
        "plain", "subscriptions", "pulls", "streams", "datagrams", "logs", "readiness", "steps", "runs",
        "spans"}
    /\ Init
    /\ CASE subject = "select" -> SelectInit
         [] subject = "exhausted" -> Selecting!SelectInit
         [] OTHER -> SelectInit
    /\ Claimed!ManualInit
    /\ IF subject = "block" THEN Block!Init ELSE Native!Init
    /\ Prompt!EventsInit
    /\ Late!EventsInit
    /\ FetchInit /\ (subject # "layered" => req = [r \in Fetches |-> New(FALSE)])
    /\ Bare!FetchInit /\ (subject # "plain" => bare_req = [r \in Fetches |-> New(FALSE)])
    /\ Subscribed!WebSocketInit
    /\ Socket!Init
    /\ Opened!Init
    /\ Datagrams!DatagramsInit
    /\ Logs!Init
    /\ IF subject = "readiness" THEN Readiness!Init ELSE Readiness!Init /\ ready_running = TRUE
    /\ Stepping!Init
    /\ Running!Init
    /\ Spanning!Init

\* Components that come to rest.
MayStop == {"outbox", "select", "exhausted", "prompt", "late", "layered", "plain", "subscriptions",
            "pulls", "logs", "readiness", "steps", "spans"}

SuiteNext ==
    /\ UNCHANGED subject
    /\ \/ subject = "outbox" /\ Next
       \/ subject = "select" /\ SelectNext
       \/ subject = "exhausted" /\ Selecting!SelectNext
       \/ subject = "claimed" /\ Claimed!ManualNext
       \/ subject = "native" /\ Native!Next
       \/ subject = "block" /\ Block!Next
       \/ subject = "prompt" /\ Prompt!EventsNext
       \/ subject = "late" /\ Late!EventsNext
       \/ subject = "layered" /\ FetchNext
       \/ subject = "plain" /\ Bare!FetchNext
       \/ subject = "subscriptions" /\ Subscribed!WebSocketNext
       \/ subject = "pulls" /\ Socket!Next
       \/ subject = "streams" /\ Opened!Next
       \/ subject = "datagrams" /\ Datagrams!DatagramsNext
       \/ subject = "logs" /\ Logs!Next
       \/ subject = "readiness" /\ Readiness!Next
       \/ subject = "steps" /\ Stepping!Next
       \/ subject = "runs" /\ Running!Next
       \/ subject = "spans" /\ Spanning!Next
       \/ subject \in MayStop /\ UNCHANGED <<vars, selectVars, entryVars, lateVars, fetchVars, bareVars, wsVars, sockVars, logsVars, readyVars, stepVars, spanVars>>
    /\ IF subject \in {"outbox"} THEN TRUE ELSE UNCHANGED vars
    /\ IF subject \in {"select", "exhausted"} THEN TRUE ELSE UNCHANGED selectVars
    /\ IF subject \in {"claimed"} THEN TRUE ELSE UNCHANGED manualVars
    /\ IF subject \in {"native", "block"} THEN TRUE ELSE UNCHANGED nativeVars
    /\ IF subject \in {"prompt"} THEN TRUE ELSE UNCHANGED entryVars
    /\ IF subject \in {"late"} THEN TRUE ELSE UNCHANGED lateVars
    /\ IF subject \in {"layered"} THEN TRUE ELSE UNCHANGED fetchVars
    /\ IF subject \in {"plain"} THEN TRUE ELSE UNCHANGED bareVars
    /\ IF subject \in {"subscriptions"} THEN TRUE ELSE UNCHANGED wsVars
    /\ IF subject \in {"pulls"} THEN TRUE ELSE UNCHANGED sockVars
    /\ IF subject \in {"streams"} THEN TRUE ELSE UNCHANGED streamVars
    /\ IF subject \in {"datagrams"} THEN TRUE ELSE UNCHANGED dgramVars
    /\ IF subject \in {"logs"} THEN TRUE ELSE UNCHANGED logsVars
    /\ IF subject \in {"readiness"} THEN TRUE ELSE UNCHANGED readyVars
    /\ IF subject \in {"steps"} THEN TRUE ELSE UNCHANGED stepVars
    /\ IF subject \in {"runs"} THEN TRUE ELSE UNCHANGED runsVars
    /\ IF subject \in {"spans"} THEN TRUE ELSE UNCHANGED spanVars

suiteVars ==
    <<subject, vars, selectVars, manualVars, nativeVars, entryVars, lateVars, fetchVars, bareVars,
      wsVars, sockVars, streamVars, dgramVars, logsVars, readyVars, stepVars, runsVars, spanVars>>

SuiteSpec == SuiteInit /\ [][SuiteNext]_suiteVars

-----------------------------------------------------------------------------
\* Whatever is interrupted, fails or ends first, nothing is left behind and nothing is cut
\* short: a callback that blocks concurrency ends as its fiber reports, and resets the
\* object for no typed failure; a fetch without an event layer is whole, too; streams end
\* before their session, with FIN only when complete; merged logs lose nothing; no probe,
\* attempt or handle outlives its wait, step or scope, and nothing final is tried again.
ScopesAreClean ==
    /\ [](subject = "block" => Block!OperationIsWhole)
    /\ [](subject = "plain" => Bare!FetchesAreWhole)
    /\ [](subject = "streams" =>
          /\ Opened!TypeOK
          /\ Opened!NoLockLeft
          /\ Opened!StreamsBeforeSession)
    /\ Opened!FinIsComplete
    /\ [](subject = "logs" =>
          /\ Logs!TypeOK
          /\ Logs!OneResult
          /\ Logs!ClosedIsComplete
          /\ Logs!FailureReleases)
    /\ [](subject = "readiness" =>
          /\ Readiness!TypeOK
          /\ Readiness!NoProbeLeft
          /\ Readiness!ReportsLastFailure)
    /\ Readiness!StopIsSeen
    /\ [](subject = "steps" =>
          /\ Stepping!TypeOK
          /\ Stepping!FatalIsFinal
          /\ Stepping!NothingOutlivesStep)
    /\ Stepping!NoLateAttempt
    /\ [](subject = "runs" => Running!TypeOK /\ Running!HandlesAreOwned)

\* Work that is owed is done in the end, through evictions and lost answers: a saved
\* document is archived, an enrolled manual alarm reaches a handler, due work of an event
\* is dispatched after its response, even what came after the dispatch or was lost with it,
\* and a subscriber gets its whole stream.
WorkIsHandled ==
    /\ subject = "outbox" /\ Fairness => SavedIsArchived
    /\ subject = "claimed" /\ Claimed!Fairness => Claimed!OwedIsHandled
    /\ subject = "prompt" /\ Prompt!EventsFairness =>
          /\ Prompt!PromptlyDispatched
          /\ Prompt!FlushIsBounded
    /\ subject = "late" /\ Late!Delivering => Late!DueIsDispatched
    /\ subject = "subscriptions" /\ Subscribed!WebSocketFairness => Subscribed!StreamsComplete

\* Nobody waits for ever: the choice of a transport comes to an end, a native operation's
\* fiber goes on, an abort releases its request, writes that were lost, readers that failed
\* and sessions that closed end what depends on them, and log pulls, readiness waits,
\* interrupted steps, collected runs and ended spans are through.
WaitsEnd ==
    /\ subject = "select" /\ SelectFairness => SelectionEnds
    /\ subject = "native" /\ Native!Fairness => Native!FiberGoesOn
    /\ subject = "layered" /\ FetchFairness => AbortReleases
    /\ subject = "plain" /\ Bare!FetchFairness => Bare!AbortReleases
    /\ subject = "pulls" /\ Socket!Fairness => Socket!LostWriteFails /\ Socket!FailureEnds
    /\ subject = "streams" /\ Opened!Fairness => Opened!SessionEnds
    /\ subject = "datagrams" /\ Datagrams!DatagramsFairness => Datagrams!ClosureEndsAll
    /\ subject = "logs" /\ Logs!Fairness => Logs!PullsSettle
    /\ subject = "readiness" /\ Readiness!Fairness => Readiness!WaitEnds
    /\ subject = "steps" /\ Stepping!Fairness => Stepping!InterruptedStepsEnd
    /\ subject = "runs" /\ Running!Fairness => Running!CollectEnds
    /\ subject = "spans" /\ Spanning!Fairness => Spanning!EndedIsClosed

=============================================================================
