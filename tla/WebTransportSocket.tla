-------------------------- MODULE WebTransportSocket --------------------------
(***************************************************************************)
(* The Socket over WebTransport streams: fromBidirectionalStream of               *)
(* WebTransportSocket.ts.  Every reader opens a stream of its own; writes go to the *)
(* stream of the latest reader and wait on a latch while there is none.  The peer *)
(* reads, sends, ends or resets as it likes, and may never read again.            *)
(***************************************************************************)
EXTENDS Naturals, Sequences

CONSTANTS
    Readers,    \* scoped readers, in the order they are acquired
    Writes,     \* writes -> how many chunks; 0 is a close event
    Alls,       \* the writes made with writeAll
    HighWater,  \* chunks the native queue holds before writer.ready waits
    MaxChunks,  \* bound: chunks the peer sends on a stream
    Faults,     \* bound: what else it does, of "fin", "reset" and "stop"
    Pullers,    \* bound: readers somebody pulls
    None

ReadersAssumption ==
    /\ Readers \subseteq Nat
    /\ Alls \subseteq DOMAIN Writes /\ HighWater \in Nat \ {0} /\ MaxChunks \in Nat
    /\ Faults \subseteq {"fin", "reset", "stop"}
    /\ \A w \in DOMAIN Writes : Writes[w] \in Nat /\ (Writes[w] <= 1 \/ w \in Alls)

\* Undefined is neither a reader nor an exit, a cause or an error.
NoneAssumption ==
    /\ None \notin Readers
    /\ None \notin {"success", "failure", "local", "event", "peer", "readError"}

VARIABLES
    reader,   \* reader -> the record below
    current,  \* the connection that writes use; the latch is open while there is one
    write,    \* write -> its progress
    release   \* the scope of the Writer

vars == <<reader, current, write, release>>

\* phase: its scope; "writer", "reader" and "stream" are the finalizers still to
\* come.  error: the first cause to end it.  inbox, input: the native readable.
\* pull: the pending read.  ended: what the last pull failed with.  sent, unread:
\* chunks written and not yet taken by the peer.  output: the native writable.
\* closing: closingWriter is set.  locks: those that are held.
Closed == [phase |-> "new", exit |-> None, error |-> None, inbox |-> 0, received |-> 0,
           input |-> "open", pull |-> "no", delivered |-> 0, ended |-> None, sent |-> <<>>,
           unread |-> 0, output |-> "open", closing |-> FALSE, locks |-> {}]

Init ==
    /\ reader = [r \in Readers |-> Closed] /\ current = None
    /\ write = [w \in DOMAIN Writes |->
                  [phase |-> "new", on |-> None, next |-> 1, interrupted |-> FALSE]]
    /\ release = "no"

Lost(r) == reader[r].output \in {"aborted", "reset"}
Settled(r) == Lost(r) \/ reader[r].output = "closed"

----------------------------------------------------------------------------
\* What the effects of the code make of a reader.

\* fail(cause): error ??= cause, and the readable is canceled.
Fail(q, cause) ==
    [q EXCEPT !.error = IF @ = None THEN cause ELSE @,
              !.input = IF @ = "open" THEN "canceled" ELSE @, !.inbox = 0]

\* Mutant: a second close only waits, whatever its exit.
OnlyWaits(q, exit) == FALSE

\* if (Exit.isFailure(exit)) await writer.abort(exit.cause)
AbortsPending(q, exit) == exit = "failure"

\* close(exit): writer.close() or writer.abort(), once, with releaseLock after it.
Close(q, exit) ==
    LET aborts == IF q.closing THEN AbortsPending(q, exit) ELSE exit = "failure"
    IN [q EXCEPT !.closing = TRUE,
                 !.unread = IF aborts THEN 0 ELSE @,
                 !.output = IF @ \notin {"open", "fin"} THEN @ ELSE IF aborts THEN "aborted" ELSE "fin"]

----------------------------------------------------------------------------
\* The scope of a reader.

\* acquire may fail; the stream is then not opened.
OpenFails(r) ==
    /\ reader[r].phase = "new" /\ \A q \in Readers : q < r => reader[q].phase # "new"
    /\ reader' = [reader EXCEPT ![r].phase = "closed"]
    /\ UNCHANGED <<current, write, release>>

\* current = connection; latch.openUnsafe(), which resumes every write that waits.
Open(r) ==
    /\ reader[r].phase = "new" /\ \A q \in Readers : q < r => reader[q].phase # "new"
    /\ current' = r
    /\ LET waiting == {w \in DOMAIN write : write[w].phase = "waiting"}
           opened == [Closed EXCEPT !.phase = "open", !.locks = {"reader", "writer"}]
       IN /\ reader' = [reader EXCEPT ![r] =
                 IF \E w \in waiting : Writes[w] = 0 THEN Fail(opened, "event") ELSE opened]
          /\ write' = [w \in DOMAIN write |->
                 IF w \notin waiting THEN write[w]
                 ELSE [write[w] EXCEPT !.phase = IF Writes[w] = 0 THEN "done" ELSE "ready",
                                       !.on = r]]
    /\ UNCHANGED release

\* Mutant: the latest reader loses its place to one that ends.
ClearsAlways(r) == TRUE

\* if (current === connection)
Clears(r) == current = r

\* The scope closes: addFinalizerExit first.
Finalize(r, exit) ==
    /\ reader[r].phase = "open"
    /\ reader' = [reader EXCEPT ![r] =
           [Close(Fail(@, "local"), exit) EXCEPT !.phase = "writer", !.exit = exit]]
    /\ current' = IF Clears(r) THEN None ELSE current
    /\ UNCHANGED <<write, release>>

\* closingWriter settled: finally(() => writer.releaseLock())
WriterReleased(r) ==
    /\ reader[r].closing /\ Settled(r) /\ "writer" \in reader[r].locks
    /\ reader' = [reader EXCEPT ![r].locks = @ \ {"writer"}]
    /\ UNCHANGED <<current, write, release>>

\* Mutant: the finalizer starts to close the writer and does not wait.
NeverAwaits(r) == TRUE

\* return close(exit): the next finalizer runs when closingWriter settled.
WriterClosed(r) == "writer" \notin reader[r].locks

\* readerHandle.cancel(), finally releaseLock.
ReaderReleased(r) ==
    /\ reader[r].phase = "writer" /\ WriterClosed(r)
    /\ reader' = [reader EXCEPT ![r].phase = "stream", ![r].locks = @ \ {"reader"},
                                ![r].input = IF @ = "open" THEN "canceled" ELSE @]
    /\ UNCHANGED <<current, write, release>>

\* closeBidirectionalStreamSafely: close() and cancel(), what they reject ignored.
StreamClosed(r) ==
    /\ reader[r].phase = "stream"
    /\ reader' = [reader EXCEPT ![r].phase = "closed",
                                ![r].output = IF @ = "open" THEN "fin" ELSE @]
    /\ UNCHANGED <<current, write, release>>

----------------------------------------------------------------------------
\* pull

\* if (error !== undefined) return yield* error; otherwise read().
Pull(r) ==
    /\ r \in Pullers /\ reader[r].phase = "open" /\ reader[r].pull = "no" /\ reader[r].ended = None
    /\ reader' = IF reader[r].error # None THEN [reader EXCEPT ![r].ended = reader[r].error]
                 ELSE [reader EXCEPT ![r].pull = "reading"]
    /\ UNCHANGED <<current, write, release>>

\* The promise of read() settles; its fiber resumes later.
NativeRead(r) ==
    /\ reader[r].pull = "reading"
    /\ \/ /\ reader[r].inbox > 0
          /\ reader' = [reader EXCEPT ![r].pull = "chunk", ![r].inbox = @ - 1]
       \/ /\ reader[r].inbox = 0 /\ reader[r].input \in {"canceled", "fin"}
          /\ reader' = [reader EXCEPT ![r].pull = "done"]
       \/ /\ reader[r].inbox = 0 /\ reader[r].input = "reset"
          /\ reader' = [reader EXCEPT ![r].pull = "rejected"]
    /\ UNCHANGED <<current, write, release>>

\* Mutant: the result of the read decides, not what happened meanwhile.
NeverRechecks(q) == FALSE

\* if (error !== undefined) return yield* Effect.fail(error), after the read.
EndedMeanwhile(q) == q.error # None

\* Every end of the readable fails the pull.
PullResumes(r) ==
    /\ reader[r].pull \in {"chunk", "done", "rejected"}
    /\ LET took == reader[r].pull = "chunk" /\ ~ EndedMeanwhile(reader[r])
       IN reader' = [reader EXCEPT ![r].pull = "no", ![r].delivered = IF took THEN @ + 1 ELSE @,
             ![r].ended = IF took THEN @
                          ELSE IF EndedMeanwhile(reader[r]) THEN reader[r].error
                          ELSE IF reader[r].pull = "done" THEN "peer" ELSE "readError"]
    /\ UNCHANGED <<current, write, release>>

----------------------------------------------------------------------------
\* write and writeAll

\* latch.whenOpen(...)
Write(w) ==
    /\ write[w].phase = "new"
    /\ write' = [write EXCEPT ![w].phase = IF current = None THEN "waiting"
                                           ELSE IF Writes[w] = 0 THEN "done" ELSE "ready",
                              ![w].on = current]
    /\ reader' = IF current # None /\ Writes[w] = 0
                 THEN [reader EXCEPT ![current] = Fail(@, "event")] ELSE reader
    /\ UNCHANGED <<current, release>>

\* Mutant: the connection is looked up for every chunk.
CurrentStream(w) == IF current = None THEN write[w].on ELSE current

\* const writer = current!.writer, once for all chunks.
Stream(w) == write[w].on

\* Mutant: chunks are written without waiting for the queue.
NeverFull(r) == TRUE

\* await writer.ready
Ready(r) == reader[r].unread < HighWater

Usable(r) == reader[r].output = "open" /\ "writer" \in reader[r].locks

\* Mutant: the chunks are written whether or not the write was interrupted.
NeverThrows(w) == FALSE

\* signal.throwIfAborted(), in writeAll alone.
Throws(w) == w \in Alls /\ write[w].interrupted

\* await writer.ready, then writer.write(chunk).
Send(w) ==
    LET r == Stream(w)
    IN /\ write[w].phase = "ready" /\ Usable(r) /\ Ready(r)
       /\ IF Throws(w)
          THEN write' = [write EXCEPT ![w].phase = "failed"] /\ UNCHANGED reader
          ELSE /\ write' = [write EXCEPT ![w].phase = "writing"]
               /\ reader' = [reader EXCEPT ![r].sent = Append(@, <<w, write[w].next>>),
                                           ![r].unread = @ + 1]
       /\ UNCHANGED <<current, release>>

\* The queue takes the chunk when the peer has read it.
Written(w) ==
    /\ write[w].phase = "writing" /\ reader[Stream(w)].unread = 0 /\ ~ Lost(Stream(w))
    /\ write' = [write EXCEPT
         ![w].phase = IF write[w].next < Writes[w] THEN "ready" ELSE "done",
         ![w].next = @ + 1]
    /\ UNCHANGED <<reader, current, release>>

\* Mutant: only ready is waited for; a chunk that was lost hangs.
HangsOnReset(w) ==
    /\ write[w].phase = "ready" /\ ~ Usable(Stream(w))
    /\ write' = [write EXCEPT ![w].phase = "failed"]
    /\ UNCHANGED <<reader, current, release>>

\* ready or write() rejects: SocketWriteError.
Rejected(w) ==
    /\ \/ write[w].phase = "ready" /\ ~ Usable(Stream(w))
       \/ write[w].phase = "writing" /\ Lost(Stream(w))
    /\ write' = [write EXCEPT ![w].phase = "failed"]
    /\ UNCHANGED <<reader, current, release>>

\* The fiber goes; a promise that already runs goes on.
Interrupt(w) ==
    /\ write[w].phase \in {"waiting", "ready", "writing"} /\ ~ write[w].interrupted
    /\ write' = [write EXCEPT ![w].interrupted = TRUE,
                              ![w].phase = IF @ = "waiting" THEN "failed" ELSE @]
    /\ UNCHANGED <<reader, current, release>>

\* current?.close(exit) ?? Effect.void, and the wait for it.
Release(exit) ==
    /\ release = "no"
    /\ release' = exit
    /\ reader' = IF current = None THEN reader
                 ELSE [reader EXCEPT ![current] = Close(@, exit)]
    /\ UNCHANGED <<current, write>>

----------------------------------------------------------------------------
\* The peer and the platform.

PeerReads(r) ==
    /\ reader[r].unread > 0
    /\ reader' = [reader EXCEPT ![r].unread = @ - 1]
    /\ UNCHANGED <<current, write, release>>

\* FIN goes out when the queue is empty.
Fin(r) ==
    /\ reader[r].output = "fin" /\ reader[r].unread = 0
    /\ reader' = [reader EXCEPT ![r].output = "closed"]
    /\ UNCHANGED <<current, write, release>>

PeerSends(r) ==
    /\ reader[r].phase # "new" /\ reader[r].input = "open" /\ reader[r].received < MaxChunks
    /\ reader' = [reader EXCEPT ![r].inbox = @ + 1, ![r].received = @ + 1]
    /\ UNCHANGED <<current, write, release>>

PeerEnds(r, how) ==
    /\ reader[r].phase # "new" /\ reader[r].input = "open"
    /\ reader' = [reader EXCEPT ![r].input = how, ![r].inbox = IF how = "reset" THEN 0 ELSE @]
    /\ UNCHANGED <<current, write, release>>

PeerStops(r) ==
    /\ "stop" \in Faults /\ reader[r].phase # "new" /\ ~ Settled(r)
    /\ reader' = [reader EXCEPT ![r].output = "reset", ![r].unread = 0]
    /\ UNCHANGED <<current, write, release>>

ReaderSteps(r) ==
    \/ OpenFails(r) \/ Open(r) \/ \E exit \in {"success", "failure"} : Finalize(r, exit)
    \/ WriterReleased(r) \/ ReaderReleased(r) \/ StreamClosed(r)
    \/ Pull(r) \/ NativeRead(r) \/ PullResumes(r)
    \/ PeerReads(r) \/ Fin(r) \/ PeerSends(r) \/ \E how \in Faults \ {"stop"} : PeerEnds(r, how)
    \/ PeerStops(r)

WriteSteps(w) == Write(w) \/ Send(w) \/ Written(w) \/ Rejected(w) \/ Interrupt(w)

Next ==
    \/ \E r \in Readers : ReaderSteps(r)
    \/ \E w \in DOMAIN Writes : WriteSteps(w)
    \/ \E exit \in {"success", "failure"} : Release(exit)

Spec == Init /\ [][Next]_vars

\* Promises that can settle do; the peer owes nothing.
Fairness ==
    /\ \A r \in Readers :
         /\ WF_vars(WriterReleased(r)) /\ WF_vars(ReaderReleased(r)) /\ WF_vars(StreamClosed(r))
         /\ WF_vars(Fin(r)) /\ WF_vars(NativeRead(r)) /\ WF_vars(PullResumes(r))
    /\ \A w \in DOMAIN Writes : WF_vars(Rejected(w))

FairSpec == Spec /\ Fairness

----------------------------------------------------------------------------
ReaderOK(q) ==
    /\ q.phase \in {"new", "open", "writer", "stream", "closed"}
    /\ q.exit \in {None, "success", "failure"} /\ q.error \in {None, "local", "event"}
    /\ q.input \in {"open", "canceled", "fin", "reset"}
    /\ q.pull \in {"no", "reading", "chunk", "done", "rejected"}
    /\ q.inbox \in 0 .. MaxChunks /\ q.delivered \in 0 .. MaxChunks /\ q.received \in 0 .. MaxChunks
    /\ q.ended \in {None, "local", "event", "peer", "readError"}
    /\ q.output \in {"open", "fin", "closed", "aborted", "reset"}
    /\ q.unread \in 0 .. HighWater /\ q.closing \in BOOLEAN /\ q.locks \subseteq {"reader", "writer"}

TypeOK ==
    /\ \A r \in Readers : ReaderOK(reader[r])
    /\ current \in Readers \union {None} /\ release \in {"no", "success", "failure"}
    /\ \A w \in DOMAIN write :
         write[w].phase \in {"new", "waiting", "ready", "writing", "done", "failed"}

\* Writes are served by the latest reader for as long as it lasts, whichever
\* earlier ones end meanwhile; no write waits then.
LatestServes ==
    LET opened == {r \in Readers : reader[r].phase = "open" \/ reader[r].exit # None}
    IN /\ \A r \in opened :
             reader[r].phase = "open" /\ (\A q \in opened : q <= r) => current = r
       /\ current # None =>
            reader[current].phase = "open" /\ \A w \in DOMAIN write : write[w].phase # "waiting"

\* The chunks of one writeAll go to one stream, each once and in order, and a
\* write is done only when they all did.
OneStream ==
    \A w \in DOMAIN Writes, r \in Readers :
        LET q == reader[r].sent
        IN /\ \A i \in DOMAIN q : q[i][1] = w =>
                 /\ r = write[w].on /\ q[i][2] \in 1..Writes[w]
                 /\ \A j \in DOMAIN q : q[j] = q[i] => j = i
                 /\ \A k \in 1..Writes[w] : k < q[i][2] => \E j \in DOMAIN q : j < i /\ q[j] = <<w, k>>
           /\ (write[w].phase = "done" /\ r = write[w].on) =>
                 \A k \in 1..Writes[w] : \E i \in DOMAIN q : q[i] = <<w, k>>

\* A reader whose scope closed holds no lock, and its stream was ended or reset:
\* with FIN after a success, unless it was aborted on the way.
Released ==
    \A r \in Readers :
        reader[r].phase = "closed" /\ reader[r].exit # None =>
            /\ reader[r].locks = {} /\ Settled(r) /\ reader[r].input # "open"

\* Once a reader has a cause to end, that cause stays, no chunk is delivered, and
\* a pull fails with it.
FirstCauseStands ==
    [][\A r \in Readers : reader[r].error # None =>
          /\ reader'[r].error = reader[r].error
          /\ reader'[r].delivered = reader[r].delivered
          /\ reader'[r].ended \in {reader[r].ended, reader[r].error}]_vars

\* An interrupted writeAll hands over no further chunk.
InterruptStops ==
    [][\A w \in Alls : write[w].interrupted =>
          \A r \in Readers : Len(reader'[r].sent) > Len(reader[r].sent) =>
              reader'[r].sent[Len(reader'[r].sent)][1] # w]_vars

\* A reader that fails, or is interrupted, gets its scope closed even when the
\* peer reads nothing and an earlier FIN waits behind a write.
FailureEnds == \A r \in Readers : (reader[r].exit = "failure") ~> (reader[r].phase = "closed")

\* A write that a stream accepted and then lost does not wait for ever.
LostWriteFails ==
    \A w \in DOMAIN Writes :
        (write[w].phase \in {"ready", "writing"} /\ Lost(write[w].on)) ~>
            (write[w].phase = "failed")
=============================================================================
