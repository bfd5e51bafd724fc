--------------------------- MODULE WebTransportStreams ---------------------------
(***************************************************************************)
(* The scopes of WebTransport.ts: connect holds a session, opening a stream   *)
(* holds a stream of it, writer holds the lock of the stream's writable half.*)
(* Scopes nest, each gives back what it took however it ends, and the peer   *)
(* learns from FIN or reset how the writer ended.                            *)
(***************************************************************************)
EXTENDS Integers, FiniteSets

CONSTANTS
    Streams,
    MaxChunks   \* bound: chunks written to one stream

StreamsAssumption == MaxChunks \in Nat

VARIABLES
    session,   \* "none", "connecting", "ready", "closing", "gone"
    native,    \* the platform's session: "none", "opening", "open", "closed"
    exit,      \* the exit the session's scope is left with, "running" before
    stream,    \* "none", "opening", "open", "unused" (a peer's that nobody opened), "released"
    writable,  \* "open", "fin", "reset", "errored" by the end of the session
    lock,      \* who holds the writable's lock: "free", "writer", "raw"
    write,     \* of the stream's writer: "none", "idle", "waiting", "queued", "failed", "done"
    accepted   \* chunks whose write succeeded

vars == <<session, native, exit, stream, writable, lock, write, accepted>>
streaming == <<stream, writable, lock, write, accepted>>

Init ==
    /\ session = "none" /\ native = "none" /\ exit = "running"
    /\ stream = [s \in Streams |-> "none"] /\ writable = [s \in Streams |-> "open"]
    /\ lock = [s \in Streams |-> "free"] /\ write = [s \in Streams |-> "none"]
    /\ accepted = [s \in Streams |-> 0]

\* connect: constructing is atomic and its release already registered.
Connect ==
    /\ session = "none" /\ session' = "connecting" /\ native' = "opening"
    /\ UNCHANGED exit /\ UNCHANGED streaming

\* The constructor throws: there is nothing to release.
ConstructorThrows ==
    /\ session = "none" /\ session' = "gone" /\ exit' = "failure" /\ UNCHANGED native
    /\ UNCHANGED streaming

Established ==
    /\ session = "connecting" /\ native = "open" /\ session' = "ready"
    /\ UNCHANGED <<native, exit>> /\ UNCHANGED streaming

\* Mutant: only a session that was ready is closed.
ForgottenUnlessReady == IF session = "ready" THEN "closing" ELSE "gone"

\* The release of connect, whatever the session reached.
AfterLeave == "closing"

\* ready rejects, the timeout ends the wait, or the fiber is interrupted.
ConnectFails ==
    /\ session = "connecting" /\ session' = AfterLeave /\ exit' = "failure"
    /\ UNCHANGED native /\ UNCHANGED streaming

NativeOpens ==
    /\ native = "opening" /\ native' = "open" /\ UNCHANGED <<session, exit>> /\ UNCHANGED streaming

\* The peer, the network or close ends the session, and with it its streams.
NativeCloses ==
    /\ native \in {"opening", "open"} /\ native' = "closed"
    /\ writable' = [s \in Streams |-> IF writable[s] = "open" THEN "errored" ELSE writable[s]]
    /\ UNCHANGED <<session, exit, stream, lock, write, accepted>>

\* The application's scope around all streams ends.
Leave(how) ==
    /\ exit = "running" /\ session = "ready" /\ exit' = how
    /\ UNCHANGED <<session, native>> /\ UNCHANGED streaming

Closed(s) == stream[s] \in {"none", "unused", "released"}

\* Mutant: the session's release does not wait for its streams.
NoWait == TRUE

InnerScopesDone == \A s \in Streams : Closed(s)

\* close: native.close, whose errors are swallowed, then await native.closed.
ReleaseSession ==
    /\ session = "ready" /\ exit # "running" /\ InnerScopesDone /\ session' = "closing"
    /\ UNCHANGED <<native, exit>> /\ UNCHANGED streaming

SessionReleased ==
    /\ session = "closing" /\ native = "closed" /\ session' = "gone"
    /\ UNCHANGED <<native, exit>> /\ UNCHANGED streaming

-----------------------------------------------------------------------------
Keep == UNCHANGED <<session, native, exit>>

\* The acquisition is not interruptible: the stream that is being created is awaited.
Open(s) ==
    /\ stream[s] = "none" /\ session = "ready" /\ exit = "running"
    /\ stream' = [stream EXCEPT ![s] = "opening"]
    /\ Keep /\ UNCHANGED <<writable, lock, write, accepted>>

Opened(s, ok) ==
    /\ stream[s] = "opening" /\ (ok <=> native = "open")
    /\ stream' = [stream EXCEPT ![s] = IF ok THEN "open" ELSE "released"]
    /\ Keep /\ UNCHANGED <<writable, lock, write, accepted>>

\* writer(), or the application taking the raw lock, which it then owns.
Take(s, who) ==
    /\ stream[s] = "open" /\ lock[s] = "free" /\ write[s] = "none" /\ exit = "running"
    /\ lock' = [lock EXCEPT ![s] = who]
    /\ write' = [write EXCEPT ![s] = IF who = "writer" THEN "idle" ELSE "none"]
    /\ Keep /\ UNCHANGED <<stream, writable, accepted>>

Write(s) ==
    /\ write[s] = "idle" /\ accepted[s] < MaxChunks /\ exit = "running"
    /\ write' = [write EXCEPT ![s] = "waiting"]
    /\ Keep /\ UNCHANGED <<stream, writable, lock, accepted>>

\* writer.ready resolved; the chunk is queued and sent in the end.
Queued(s) ==
    /\ write[s] = "waiting" /\ writable[s] = "open"
    /\ write' = [write EXCEPT ![s] = "queued"]
    /\ Keep /\ UNCHANGED <<stream, writable, lock, accepted>>

Counted(s) == accepted[s] + 1

Written(s) ==
    /\ write[s] = "queued" /\ writable[s] = "open"
    /\ write' = [write EXCEPT ![s] = "idle"]
    /\ accepted' = [accepted EXCEPT ![s] = Counted(s)]
    /\ Keep /\ UNCHANGED <<stream, writable, lock>>

WriteFails(s) ==
    /\ write[s] \in {"waiting", "queued"} /\ writable[s] # "open"
    /\ write' = [write EXCEPT ![s] = "failed"]
    /\ Keep /\ UNCHANGED <<stream, writable, lock, accepted>>

\* Mutant: a writer always closes.
FinAlways(ok) == "fin"

EndOfStream(ok) == IF ok THEN "fin" ELSE "reset"

\* Mutant: an errored writer keeps its lock.
LockAfter(s) == IF writable[s] = "open" THEN "free" ELSE lock[s]

LockReleased(s) == "free"

\* The writer's scope ends: close after success, abort after a failure or an
\* interruption, which may come while a write is under way; then the lock.
ReleaseWriter(s, ok) ==
    /\ write[s] \notin {"none", "done"} /\ (ok => write[s] \in {"idle", "failed"})
    /\ exit # "running" => (ok <=> exit = "success")
    /\ writable' = [writable EXCEPT ![s] = IF @ = "open" THEN EndOfStream(ok) ELSE @]
    /\ lock' = [lock EXCEPT ![s] = LockReleased(s)] /\ write' = [write EXCEPT ![s] = "done"]
    /\ Keep /\ UNCHANGED <<stream, accepted>>

\* closeBidirectionalStreamSafely: close rejects when the half is locked or over.
ReleaseStream(s) ==
    /\ stream[s] = "open" /\ write[s] \in {"none", "done"}
    /\ stream' = [stream EXCEPT ![s] = "released"]
    /\ writable' = [writable EXCEPT ![s] = IF @ = "open" /\ lock[s] = "free" THEN "fin" ELSE @]
    /\ Keep /\ UNCHANGED <<lock, write, accepted>>

\* The application leaves without the stream once its scope ended.
Skip(s) ==
    /\ stream[s] = "none" /\ exit # "running" /\ stream' = [stream EXCEPT ![s] = "unused"]
    /\ Keep /\ UNCHANGED <<writable, lock, write, accepted>>

Over == session = "gone" /\ UNCHANGED vars
Rest == exit = "running" /\ UNCHANGED vars

Next ==
    \/ Connect \/ ConstructorThrows \/ Established \/ ConnectFails \/ NativeOpens \/ NativeCloses
    \/ ReleaseSession \/ SessionReleased \/ Over \/ Rest
    \/ \E how \in {"success", "failure"} : Leave(how)
    \/ \E s \in Streams :
         \/ Open(s) \/ Write(s) \/ Queued(s) \/ Written(s) \/ WriteFails(s)
         \/ ReleaseStream(s) \/ Skip(s)
         \/ \E ok \in BOOLEAN : Opened(s, ok) \/ ReleaseWriter(s, ok)
         \/ \E who \in {"writer", "raw"} : Take(s, who)

Spec == Init /\ [][Next]_vars

\* What the runtime runs when a scope ends; the platform settles createStream, and
\* closes a session that was told to.
Fairness ==
    /\ WF_vars(ReleaseSession) /\ WF_vars(SessionReleased)
    /\ WF_vars(session = "closing" /\ NativeCloses)
    /\ \A s \in Streams :
         /\ WF_vars(\E ok \in BOOLEAN : Opened(s, ok)) /\ WF_vars(WriteFails(s))
         /\ WF_vars(exit # "running" /\ \E ok \in BOOLEAN : ReleaseWriter(s, ok))
         /\ WF_vars(exit # "running" /\ ReleaseStream(s)) /\ WF_vars(Skip(s))
         /\ WF_vars(Queued(s)) /\ WF_vars(Written(s))

FairSpec == Spec /\ Fairness

----------------------------------------------------------------------------
TypeOK ==
    /\ session \in {"none", "connecting", "ready", "closing", "gone"}
    /\ native \in {"none", "opening", "open", "closed"}
    /\ exit \in {"running", "success", "failure"}
    /\ stream \in [Streams -> {"none", "opening", "open", "unused", "released"}]
    /\ writable \in [Streams -> {"open", "fin", "reset", "errored"}]
    /\ lock \in [Streams -> {"free", "writer", "raw"}]
    /\ write \in [Streams -> {"none", "idle", "waiting", "queued", "failed", "done"}]
    /\ accepted \in [Streams -> 0..MaxChunks]

\* The peer takes FIN for a complete stream: it is sent only when no write is under
\* way, and never by a writer whose scope failed.
FinIsComplete ==
    [][\A s \in Streams :
         writable[s] = "open" /\ writable'[s] = "fin" =>
           /\ write[s] \notin {"waiting", "queued"}
           /\ write[s] # "none" => exit # "failure"]_vars

\* A session is closed after its streams: none is cut off by its own owner.
StreamsBeforeSession ==
    session = "closing" => \A s \in Streams : Closed(s) /\ lock[s] # "writer"

\* A writer that is gone left no lock behind, so the stream under it could close.
NoLockLeft == \A s \in Streams : write[s] = "done" => lock[s] = "free"

\* Where a session was constructed, leaving it, or failing to connect, ends it.
SessionEnds == (exit # "running") ~> (session = "gone" /\ native \in {"none", "closed"})
=============================================================================
