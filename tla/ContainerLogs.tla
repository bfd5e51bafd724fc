---------------------------- MODULE ContainerLogs ----------------------------
(***************************************************************************)
(* The merged logs of a container process: mergeProcessLogs of                   *)
(* DurableObjectContainer.ts.  One read is under way on each of stdout and        *)
(* stderr, their results queue in ready, and a pull of the merged stream takes    *)
(* one, waits for one, closes, or fails after both were canceled.                *)
(***************************************************************************)
EXTENDS Naturals, Sequences, FiniteSets

CONSTANTS
    Sources,   \* the streams that are not null
    MaxChunks  \* bound: chunks on each

SourcesAssumption == IsFiniteSet(Sources) /\ MaxChunks \in Nat

VARIABLES
    native,    \* source -> chunks it still has, and how it goes on
    reading,   \* sources with a read() whose result is not in
    ready,     \* results: <<source, "chunk" | "done" | "error">>
    remaining, \* sources that did not end
    pull,      \* the pull of the merged stream: it waits for wake, or was woken
    stopped,   \* cancel() began
    cleanup,   \* the promise that every cancel() returns
    locks,     \* readers that hold their lock
    merged,    \* the stream the caller reads
    out        \* source -> chunks enqueued

vars == <<native, reading, ready, remaining, pull, stopped, cleanup, locks, merged, out>>

\* start(), which cannot be interleaved with a pull.
Init ==
    /\ native = [s \in Sources |-> [left |-> MaxChunks, state |-> "open"]]
    /\ reading = Sources /\ ready = <<>> /\ remaining = Cardinality(Sources)
    /\ pull = "idle" /\ stopped = FALSE /\ cleanup = "none" /\ locks = Sources
    /\ merged = "open" /\ out = [s \in Sources |-> 0]

\* wake?.(); wake = undefined
Woken == IF pull = "waiting" THEN "woken" ELSE pull

\* notify: if (stopped) return, else push and wake.
Notify(s, result) ==
    IF stopped THEN UNCHANGED <<ready, pull>>
    ELSE ready' = Append(ready, <<s, result>>) /\ pull' = Woken

\* The read() of a source settles: a chunk, its end, or its failure.
ReadSettles(s, result) ==
    /\ s \in reading
    /\ CASE result = "chunk" -> native[s].left > 0 /\ native[s].state = "open"
         [] result = "done" -> native[s].state \in {"ended", "canceled"}
         [] result = "error" -> native[s].state = "broken"
    /\ native' = [native EXCEPT ![s].left = IF result = "chunk" THEN @ - 1 ELSE @]
    /\ reading' = reading \ {s}
    /\ Notify(s, result)
    /\ UNCHANGED <<remaining, stopped, cleanup, locks, merged, out>>

\* The process ends the stream after its last chunk, or the stream breaks.
SourceEnds(s, how) ==
    /\ native[s].state = "open" /\ (how = "ended" => native[s].left = 0)
    /\ native' = [native EXCEPT ![s].state = how]
    /\ UNCHANGED <<reading, ready, remaining, pull, stopped, cleanup, locks, merged, out>>

\* The caller reads: highWaterMark 0, so a pull runs only then.
Pull ==
    /\ pull = "idle" /\ merged = "open" /\ ~ stopped
    /\ pull' = IF remaining > 0 /\ ready = <<>> THEN "waiting" ELSE "woken"
    /\ UNCHANGED <<native, reading, ready, remaining, stopped, cleanup, locks, merged, out>>

\* Mutant: the pull after the end of one source closes the stream.
FirstEnd == remaining < Cardinality(Sources)

\* while (!stopped && remaining > 0)
AllEnded == remaining = 0

\* if (!stopped) controller.close()
CloseMerged ==
    /\ pull = "woken" /\ ~ stopped /\ AllEnded
    /\ merged' = "closed" /\ pull' = "idle"
    /\ UNCHANGED <<native, reading, ready, remaining, stopped, cleanup, locks, out>>

\* if (stopped) return
PullReturns ==
    /\ pull = "woken" /\ stopped
    /\ pull' = "idle"
    /\ UNCHANGED <<native, reading, ready, remaining, stopped, cleanup, locks, merged, out>>

\* Mutant: the next read begins before the result of the last one was taken.
ReadsTwice(s) == reading \union Sources

\* read(next.index)
ReadsOn(s) == reading \union {s}

\* ready.shift(): a chunk is enqueued, and the next one of that source read.
TakeChunk ==
    /\ pull = "woken" /\ ~ stopped /\ ready # <<>> /\ Head(ready)[2] = "chunk"
    /\ LET s == Head(ready)[1]
       IN /\ reading' = ReadsOn(s)
          /\ out' = [out EXCEPT ![s] = @ + 1]
    /\ ready' = Tail(ready) /\ pull' = "idle"
    /\ UNCHANGED <<native, remaining, stopped, cleanup, locks, merged>>

\* result.done: remaining--, the lock is released, and the loop goes on.
TakeEnd ==
    /\ pull = "woken" /\ ~ stopped /\ ready # <<>> /\ Head(ready)[2] = "done"
    /\ remaining' = remaining - 1 /\ locks' = locks \ {Head(ready)[1]}
    /\ ready' = Tail(ready)
    /\ pull' = IF remaining' > 0 /\ ready' = <<>> THEN "waiting" ELSE "woken"
    /\ UNCHANGED <<native, reading, stopped, cleanup, merged, out>>

\* throw next.error: await cancel(), then controller.error(cause).
TakeError ==
    /\ pull = "woken" /\ ~ stopped /\ ready # <<>> /\ Head(ready)[2] = "error"
    /\ stopped' = TRUE /\ cleanup' = "running" /\ pull' = "failing"
    /\ ready' = Tail(ready)
    /\ UNCHANGED <<native, reading, remaining, locks, merged, out>>

\* Mutant: a pull that waits is left to the next result.
StillWaits == pull

\* cancel() wakes it; a later one returns the promise of the first.
WokenByCancel == IF cleanup = "none" THEN Woken ELSE pull

\* The caller cancels; the first cancel() is the one that counts.
Cancel ==
    /\ merged = "open"
    /\ merged' = "canceled" /\ stopped' = TRUE
    /\ cleanup' = IF cleanup = "none" THEN "running" ELSE cleanup
    /\ pull' = WokenByCancel
    /\ UNCHANGED <<native, reading, ready, remaining, locks, out>>

\* reader.cancel() of a source, and its lock.
CancelSource(s) ==
    /\ cleanup = "running" /\ s \in locks
    /\ native' = [native EXCEPT ![s].state = IF @ = "open" THEN "canceled" ELSE @]
    /\ locks' = locks \ {s}
    /\ UNCHANGED <<reading, ready, remaining, pull, stopped, cleanup, merged, out>>

\* Mutant: cancel() settles with the first source.
AnyReleased == locks # Sources

\* await Promise.all(...)
AllReleased == locks = {}

CleanupDone ==
    /\ cleanup = "running" /\ AllReleased
    /\ cleanup' = "done" /\ ready' = <<>>
    /\ UNCHANGED <<native, reading, remaining, pull, stopped, locks, merged, out>>

\* controller.error(cause), which a canceled stream ignores.
PullFails ==
    /\ pull = "failing" /\ cleanup = "done"
    /\ merged' = IF merged = "open" THEN "failed" ELSE merged
    /\ pull' = "idle"
    /\ UNCHANGED <<native, reading, ready, remaining, stopped, cleanup, locks, out>>

Next ==
    \/ \E s \in Sources :
         \/ \E result \in {"chunk", "done", "error"} : ReadSettles(s, result)
         \/ \E how \in {"ended", "broken"} : SourceEnds(s, how)
         \/ CancelSource(s)
    \/ Pull \/ CloseMerged \/ PullReturns \/ TakeChunk \/ TakeEnd \/ TakeError
    \/ Cancel \/ CleanupDone \/ PullFails

Spec == Init /\ [][Next]_vars

\* Microtasks run; the process may say nothing for ever.
Fairness ==
    /\ WF_vars(CloseMerged \/ PullReturns \/ TakeChunk \/ TakeEnd \/ TakeError)
    /\ WF_vars(CleanupDone) /\ WF_vars(PullFails)
    /\ \A s \in Sources : WF_vars(CancelSource(s))

FairSpec == Spec /\ Fairness

----------------------------------------------------------------------------
TypeOK ==
    /\ native \in [Sources -> [left : 0 .. MaxChunks, state : {"open", "ended", "broken", "canceled"}]]
    /\ reading \subseteq Sources /\ locks \subseteq Sources
    /\ Len(ready) <= Cardinality(Sources) /\ remaining \in 0 .. Cardinality(Sources)
    /\ pull \in {"idle", "waiting", "woken", "failing"} /\ stopped \in BOOLEAN
    /\ pull = "waiting" => ready = <<>>
    /\ cleanup \in {"none", "running", "done"} /\ merged \in {"open", "closed", "failed", "canceled"}
    /\ out \in [Sources -> 0 .. MaxChunks]

\* Chunks of a source that were read and not enqueued yet.
Queued(s) == IF \E i \in DOMAIN ready : ready[i] = <<s, "chunk">> THEN 1 ELSE 0

\* A source has one read under way or one result in ready, never both, and none
\* once it ended; what was read is either out or in ready.
OneResult ==
    ~ stopped =>
        /\ \A i, j \in DOMAIN ready : ready[i][1] = ready[j][1] => i = j
        /\ \A i \in DOMAIN ready : ready[i][1] \notin reading
        /\ \A s \in Sources : MaxChunks - native[s].left = out[s] + Queued(s)

\* The merged stream closes only when all that the process wrote is out.
ClosedIsComplete ==
    merged = "closed" => \A s \in Sources : out[s] = MaxChunks /\ native[s].state = "ended"

\* A failure reaches the caller only when no lock is left behind; nor does the
\* stream keep one once it is closed.
FailureReleases == merged \in {"failed", "closed"} \/ cleanup = "done" => locks = {}

\* A pull that was woken ends, or waits for more; one that waits when the stream is
\* canceled ends with it, and one that met a failure ends when all is released.
PullSettles == (pull = "waiting" /\ stopped) ~> (pull # "waiting")
PullEnds == (pull \in {"woken", "failing"}) ~> (pull \in {"idle", "waiting"})

\* So no pull is left without an answer.
PullsSettle == PullSettles /\ PullEnds
=============================================================================
