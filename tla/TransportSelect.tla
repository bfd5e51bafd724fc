--------------------------- MODULE TransportSelect ---------------------------
(***************************************************************************)
(* select of Fallback.ts over connect of WebTransport.ts: candidates are tried in *)
(* order, a WebTransport candidate by a handshake with a timeout, and the first to *)
(* succeed is pinned for as long as the surrounding scope lives.                 *)
(***************************************************************************)
EXTENDS Naturals, FiniteSets

CONSTANTS
    Count,         \* how many candidates
    WebTransports  \* those that are WebTransport; a WebSocket opens with its reader

ASSUME CandidatesAssumption == Count \in Nat \ {0} /\ WebTransports \subseteq 1 .. Count

Candidates == 1 .. Count

VARIABLES
    candidate, \* the candidate select is at
    phase,     \* where it is with that
    exit,      \* with what exit the candidate's scope closes
    failures,  \* candidates that failed
    native,    \* candidate -> its native session
    owned,     \* candidates whose scope holds the finalizer that closes it
    outer      \* the surrounding scope

selectVars == <<candidate, phase, exit, failures, native, owned, outer>>

SelectInit ==
    /\ candidate = 1 /\ phase = "trying" /\ exit = "none" /\ failures = {}
    /\ native = [c \in Candidates |-> "none"] /\ owned = {} /\ outer = "open"

\* close() was called, or the session ended by itself.
Over == {"closed", "dead"}
Live(c) == native[c] \in {"connecting", "ready", "closing"}

\* Mutant: one candidate too many.
OrLast == candidate <= Count

More == candidate < Count

\* for (const candidate of candidates): the next one, or TransportSelectionError.
Continue ==
    /\ failures' = failures \union {candidate}
    /\ IF More THEN candidate' = candidate + 1 /\ phase' = "trying" ELSE phase' = "exhausted" /\ UNCHANGED candidate
    /\ exit' = "none"

\* Feature detection fails, or the constructor throws: nothing was acquired.
ConstructFails ==
    /\ phase = "trying" /\ candidate \in WebTransports
    /\ Continue
    /\ UNCHANGED <<native, owned, outer>>

\* Mutant: the session is owned once it is ready.
OwnedWhenReady == {}

\* acquireRelease, around the constructor.
OwnedAtOnce == {candidate}

Construct ==
    /\ phase = "trying" /\ candidate \in WebTransports
    /\ native' = [native EXCEPT ![candidate] = "connecting"]
    /\ owned' = owned \union OwnedAtOnce
    /\ phase' = "handshake"
    /\ UNCHANGED <<candidate, exit, failures, outer>>

\* Its acquisition cannot fail.
PinWebSocket ==
    /\ phase = "trying" /\ candidate \notin WebTransports
    /\ phase' = "pinned"
    /\ UNCHANGED <<candidate, exit, failures, native, owned, outer>>

\* native.ready resolved, and the datagram buffers are set.
Pin ==
    /\ phase = "handshake" /\ native[candidate] \in {"ready", "dead"}
    /\ phase' = "pinned" /\ owned' = owned \union {candidate}
    /\ UNCHANGED <<candidate, exit, failures, native, outer>>

\* Scope.close(candidateScope, exit) on any exit but success.
CloseCandidate(e) ==
    /\ exit' = e
    /\ IF candidate \in owned
       THEN /\ phase' = "closing"
            /\ native' = [native EXCEPT ![candidate] = IF Live(candidate) THEN "closing" ELSE @]
       ELSE phase' = "closed" /\ UNCHANGED native
    /\ UNCHANGED <<candidate, failures, owned, outer>>

HandshakeFails == phase = "handshake" /\ native[candidate] = "refused" /\ CloseCandidate("failure")

\* Mutant: the timeout holds only once the platform answered.
OnlyAnswered == native[candidate] # "connecting"

\* Effect.timeoutOrElse, whatever native.ready does meanwhile.
MayTimeOut == TRUE

TimesOut == phase = "handshake" /\ MayTimeOut /\ CloseCandidate("failure")

\* The fiber of select is interrupted.
InterruptSelect == phase \in {"trying", "handshake"} /\ CloseCandidate("interrupt")

\* Mutant: close() does not wait for the session to be closed.
NeverWaits(c) == TRUE

\* await native.closed.then(constVoid, constVoid)
ClosedSettled(c) == ~ Live(c)

CandidateClosed ==
    /\ phase = "closing" /\ ClosedSettled(candidate)
    /\ phase' = "closed" /\ owned' = owned \ {candidate}
    /\ UNCHANGED <<candidate, exit, failures, native, outer>>

\* Mutant: whatever ended a candidate, the next one is tried.
TriesNext == TRUE

\* Effect.catch: failures, and no interruption.
Caught == exit = "failure"

Proceed ==
    /\ phase = "closed"
    /\ IF Caught THEN Continue ELSE phase' = "interrupted" /\ UNCHANGED <<candidate, exit, failures>>
    /\ UNCHANGED <<native, owned, outer>>

\* The surrounding scope closes once the selection is over, and every scope forked
\* from it: session.close(closeInfo) of what is still owned.
CloseOuter ==
    /\ phase \in {"pinned", "exhausted", "interrupted"} /\ outer = "open"
    /\ outer' = "closing"
    /\ native' = [c \in Candidates |-> IF c \in owned /\ Live(c) THEN "closing" ELSE native[c]]
    /\ UNCHANGED <<candidate, phase, exit, failures, owned>>

OuterClosed ==
    /\ outer = "closing" /\ \A c \in owned : ClosedSettled(c)
    /\ outer' = "closed" /\ owned' = {}
    /\ UNCHANGED <<candidate, phase, exit, failures, native>>

\* The platform: what the sessions of candidates may do.
Platform(from, to) ==
    \E c \in Candidates :
        /\ native[c] = from
        /\ native' = [native EXCEPT ![c] = to]
        /\ UNCHANGED <<candidate, phase, exit, failures, owned, outer>>

Accepts == Platform("connecting", "ready")
Refuses == Platform("connecting", "refused")
Dies == Platform("ready", "dead")
Closes == Platform("closing", "closed")

SelectNext ==
    \/ ConstructFails \/ Construct \/ PinWebSocket \/ Pin \/ HandshakeFails \/ TimesOut
    \/ InterruptSelect \/ CandidateClosed \/ Proceed \/ CloseOuter \/ OuterClosed
    \/ Accepts \/ Refuses \/ Dies \/ Closes

SelectSpec == SelectInit /\ [][SelectNext]_selectVars

\* The fiber goes on and its timer fires; the platform settles closed of a session
\* that was closed, and need never answer a handshake.
SelectFairness ==
    /\ WF_selectVars(Closes) /\ WF_selectVars(TimesOut) /\ WF_selectVars(CandidateClosed)
    /\ WF_selectVars(Proceed \/ ConstructFails \/ Construct \/ PinWebSocket)
    /\ WF_selectVars(OuterClosed)

SelectFairSpec == SelectSpec /\ SelectFairness

----------------------------------------------------------------------------
Phases == {"trying", "handshake", "closing", "closed", "pinned", "exhausted", "interrupted"}
Natives == {"none", "connecting", "ready", "refused", "closing"} \union Over

SelectTypeOK ==
    /\ candidate \in Candidates /\ phase \in Phases /\ exit \in {"none", "failure", "interrupt"}
    /\ failures \subseteq Candidates /\ native \in [Candidates -> Natives]
    /\ owned \subseteq Candidates /\ outer \in {"open", "closing", "closed"}

\* A candidate is tried only when nothing of an earlier one is left, so that two
\* sessions are never open at once.
OneSession ==
    /\ \A c \in Candidates : Live(c) => c = candidate
    /\ phase = "trying" => \A c \in Candidates : ~ Live(c)

\* An interruption ends the selection: it counts as no failure, and neither the
\* candidate it met nor a later one is pinned.
InterruptionEnds ==
    [][exit = "interrupt" =>
          candidate' = candidate /\ failures' = failures /\ phase' \in {"closing", "closed", "interrupted"}]_selectVars

\* No session outlives the scope of its candidate: it is open only while select
\* works on it, or while it is pinned and the surrounding scope lives.
NothingLeaks ==
    \A c \in Candidates : Live(c) =>
        phase \in {"handshake", "closing"} \/ (phase = "pinned" /\ outer # "closed")

\* The selection ends although no handshake is ever answered, and so does closing.
SelectionEnds ==
    /\ <>(phase \in {"pinned", "exhausted", "interrupted"})
    /\ (outer = "closing") ~> (outer = "closed")

\* The choice of a transport is safe: one session at a time, none that leaks, and
\* nothing is tried after an interruption (Fallback.select).
SelectionIsSafe ==
    /\ [](SelectTypeOK /\ OneSession /\ NothingLeaks)
    /\ InterruptionEnds
=============================================================================
